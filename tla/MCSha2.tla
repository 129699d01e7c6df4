------------------------------- MODULE MCSha2 -------------------------------
(* Instances of Sha2Stream: small blocks and words, bytes that show where  *)
(* they come from.                                                         *)
EXTENDS Sha2Stream

MCPut(word) == << <<"length", word>> >>
MCXor(b, c) == IF c = Zero THEN b ELSE <<"xor", b, c>>
MCDigestSize(is) == IF is THEN 2 ELSE 3
MCDigest(is, bytes) == [i \in 1 .. MCDigestSize(is) |-> <<"digest", is, bytes, i>>]
MCMessage(i) == <<"message", i>>
MCMarker == <<"marker">>
MCZero == <<"zero">>
MCIPad == <<"ipad">>
MCOPad == <<"opad">>
MCGarbage == <<"garbage">>
MCNoOutput == <<>>

KeyOf(length) == [i \in 1 .. length |-> <<"key", i>>]
MCKeys == {KeyOf(n) : n \in {4, 5}}

=============================================================================
