---------------------------- MODULE Sha2Contract ----------------------------
(***************************************************************************)
(* What a client of sha2.c is promised: the digest, or the HMAC, of all    *)
(* the bytes it has given, however they were cut into calls.               *)
(***************************************************************************)
EXTENDS Integers, Sequences

CONSTANTS BlockSize, WordMod, Put(_), Xor(_, _), DigestSize(_), Digest(_, _),
          Marker, Zero, IPad, OPad, Keys, NoOutput

VARIABLES
  mode,    \* what the context is in use for, if anything
  is224,
  key,
  msg,     \* the bytes given
  output   \* the last digest

vars == <<mode, is224, key, msg, output>>

Init == mode = "none" /\ is224 = FALSE /\ key = <<>> /\ msg = <<>> /\ output = NoOutput

(* FIPS 180-2, 5.1.1: the smallest number of zeros that fills a block, and *)
(* the length in bits as a number of two words.                            *)
Padded(m) ==
  LET size  == Len(Put(0)) + Len(Put(0))
      zeros == CHOOSE k \in 0 .. (BlockSize - 1) : (Len(m) + 1 + k + size) % BlockSize = 0
      bits  == 8 * Len(m)
  IN  m \o <<Marker>> \o [i \in 1 .. zeros |-> Zero]
        \o Put((bits \div WordMod) % WordMod) \o Put(bits % WordMod)

Hash(is, m) ==
  LET digest == Digest(is, Padded(m))
  IN  [i \in 1 .. DigestSize(is) |-> digest[i]]

(* FIPS 198: the key, or the digest of a long one, filled up with zeros.   *)
PaddedKey(is, k, pad) ==
  LET short == IF Len(k) > BlockSize THEN Hash(is, k) ELSE k
  IN  [i \in 1 .. BlockSize |-> Xor(pad, IF i <= Len(short) THEN short[i] ELSE Zero)]

Hmac(is, k, m) ==
  Hash(is, PaddedKey(is, k, OPad) \o Hash(is, PaddedKey(is, k, IPad) \o m))

Begin ==
  /\ mode' \in {"hash", "file", "hmac"}
  /\ is224' \in BOOLEAN
  /\ IF mode' = "hmac" THEN key' \in Keys ELSE key' = <<>>
  /\ msg' = <<>> /\ output' = NoOutput

Give ==
  /\ mode \in {"hash", "file", "hmac"}
  /\ Len(msg') > Len(msg) /\ SubSeq(msg', 1, Len(msg)) = msg
  /\ UNCHANGED <<mode, is224, key, output>>

End ==
  /\ \/ mode \in {"hash", "file"} /\ mode' = "none" /\ output' = Hash(is224, msg)
     \/ mode = "hmac" /\ mode' = "hmac_done" /\ output' = Hmac(is224, key, msg)
  /\ UNCHANGED <<is224, key, msg>>

Reset ==
  /\ mode \in {"hmac", "hmac_done"}
  /\ mode' = "hmac" /\ msg' = <<>>
  /\ UNCHANGED <<is224, key, output>>

Next == Begin \/ Give \/ End \/ Reset

Spec == Init /\ [][Next]_vars

=============================================================================
