-------------------------------- MODULE Sha2 --------------------------------
(***************************************************************************)
(* The contexts of sha2.c and the functions that work on them.             *)
(*                                                                         *)
(* The intermediate digest of a context is represented by what determines  *)
(* it, the bytes that sha2_process() has been given since sha2_starts().   *)
(***************************************************************************)
EXTENDS Integers, Sequences

CONSTANTS
  BlockSize,     \* the bytes of a block, 64
  WordMod,       \* the values of a uint32_t, 2^32
  Put(_),        \* PUT_UINT32_BE(), the bytes of a word
  Xor(_, _),     \* the exclusive or of two bytes
  DigestSize(_), \* the bytes of a digest, 28 or 32
  Digest(_, _),  \* them, from is224 and the bytes processed
  Marker,        \* the byte 0x80
  Zero,          \* the byte 0
  IPad, OPad,    \* the bytes 0x36 and 0x5C
  Garbage        \* a byte of memory not written yet

LengthSize == Len(Put(0)) + Len(Put(0))

ASSUME WordModAssumption ==
  WordMod \in Nat /\ WordMod % 8 = 0 /\ WordMod % BlockSize = 0 /\ WordMod > BlockSize

ASSUME PutAssumption ==
  /\ Len(Put(0)) \in Nat
  /\ \A word \in 0 .. (WordMod - 1) : Put(word) = [i \in 1 .. Len(Put(0)) |-> Put(word)[i]]

ASSUME BlockSizeAssumption == BlockSize \in Nat /\ BlockSize > LengthSize

ASSUME DigestSizeAssumption == \A is \in BOOLEAN : DigestSize(is) \in 0 .. BlockSize

ASSUME XorAssumption == Xor(IPad, Zero) = IPad /\ Xor(OPad, Zero) = OPad

(* sha2_context on a stack.                                                *)
NoContext ==
  LET unwritten == [i \in 1 .. BlockSize |-> Garbage]
  IN  [total |-> <<0, 0>>, processed |-> <<>>, buffer |-> unwritten,
       ipad |-> unwritten, opad |-> unwritten, is224 |-> FALSE]

Starts(ctx, is224) ==
  [ctx EXCEPT !.total = <<0, 0>>, !.processed = <<>>, !.is224 = is224]

(* memcpy(buffer + at, bytes, length)                                      *)
Overwrite(buffer, at, bytes) ==
  [i \in 1 .. BlockSize |->
     IF i \in (at + 1) .. (at + Len(bytes)) THEN bytes[i - at] ELSE buffer[i]]

(* The length is cut to a word, and so may be the carry.                   *)
AddLength(total, ilen) ==
  LET low == (total[1] + (ilen % WordMod)) % WordMod
  IN  <<low, IF low < ilen % WordMod THEN (total[2] + 1) % WordMod ELSE total[2]>>

(* Mutated: a block that is filled exactly is kept.                        *)
Overfills(left, ilen) == left > 0 /\ ilen > BlockSize - left

Fills(left, ilen) == left > 0 /\ ilen >= BlockSize - left

Update(ctx, input) ==
  LET ilen  == Len(input)
      left  == ctx.total[1] % BlockSize
      first == IF Fills(left, ilen) THEN BlockSize - left ELSE 0
      whole == first + BlockSize * ((ilen - first) \div BlockSize)
      block == Overwrite(ctx.buffer, left, SubSeq(input, 1, first))
  IN  IF ilen = 0
      THEN ctx
      ELSE [ctx EXCEPT
              !.total = AddLength(@, ilen),
              !.processed = @ \o (IF first > 0 THEN block ELSE <<>>)
                              \o SubSeq(input, first + 1, whole),
              !.buffer = Overwrite(block, IF first > 0 THEN 0 ELSE left,
                                   SubSeq(input, whole + 1, ilen))]

MessageLength(total) ==
  Put((total[1] \div (WordMod \div 8)) + ((total[2] * 8) % WordMod))
    \o Put((total[1] * 8) % WordMod)

Padn(last) ==
  IF last < BlockSize - LengthSize
  THEN BlockSize - LengthSize - last
  ELSE 2 * BlockSize - LengthSize - last

Padding(n) == [i \in 1 .. n |-> IF i = 1 THEN Marker ELSE Zero]

(* sha2_finish() leaves this context, and the digest of it.                *)
Finish(ctx) ==
  Update(Update(ctx, Padding(Padn(ctx.total[1] % BlockSize))),
         MessageLength(ctx.total))

Output(ctx) ==
  LET digest == Digest(ctx.is224, ctx.processed)
  IN  [i \in 1 .. DigestSize(ctx.is224) |-> digest[i]]

sha2(input, is224) == Output(Finish(Update(Starts(NoContext, is224), input)))

(* sha2_hmac_reset()                                                       *)
HmacReset(ctx) == Update(Starts(ctx, ctx.is224), ctx.ipad)

HmacStarts(ctx, key, is224) ==
  LET k      == IF Len(key) > BlockSize THEN sha2(key, is224) ELSE key
      pad(c) == [i \in 1 .. BlockSize |-> IF i <= Len(k) THEN Xor(c, k[i]) ELSE c]
  IN  HmacReset([ctx EXCEPT !.ipad = pad(IPad), !.opad = pad(OPad), !.is224 = is224])

HmacFinish(ctx) ==
  LET inner == Finish(ctx)
      outer == Update(Starts(inner, ctx.is224), ctx.opad)
  IN  Finish(Update(outer, Output(inner)))

=============================================================================
