----------------------------- MODULE Sha2Words -----------------------------
(***************************************************************************)
(* The words of sha2.c and the macros on them, for TLC, whose integers are *)
(* too small for them: a word is the pair of its halves.                   *)
(***************************************************************************)
EXTENDS Integers, Sequences, Bitwise

Half == 65536

Sum(x, y) ==
  LET low == x[2] + y[2]
  IN  <<(x[1] + y[1] + (low \div Half)) % Half, low % Half>>

WordXor(x, y) == <<x[1] ^^ y[1], x[2] ^^ y[2]>>
WordAnd(x, y) == <<x[1] & y[1], x[2] & y[2]>>
WordOr(x, y) == <<x[1] | y[1], x[2] | y[2]>>

(* For n < 16.                                                             *)
SHR(x, n) ==
  <<x[1] \div 2^n, (x[1] % 2^n) * 2^(16 - n) + (x[2] \div 2^n)>>

ROTR(x, n) ==
  LET y == IF n < 16 THEN x ELSE <<x[2], x[1]>>
      m == n % 16
  IN  WordOr(SHR(y, m), <<(y[2] % 2^m) * 2^(16 - m), 0>>)

Xor3(x, y, z) == WordXor(WordXor(x, y), z)

Sigma0(x) == Xor3(ROTR(x, 7), ROTR(x, 18), SHR(x, 3))
Sigma1(x) == Xor3(ROTR(x, 17), ROTR(x, 19), SHR(x, 10))
Sigma2(x) == Xor3(ROTR(x, 2), ROTR(x, 13), ROTR(x, 22))
Sigma3(x) == Xor3(ROTR(x, 6), ROTR(x, 11), ROTR(x, 25))

Majority(x, y, z) == WordOr(WordAnd(x, y), WordAnd(z, WordOr(x, y)))

(* Mutated: the bits are put together with the wrong operator.             *)
OrChoice(x, y, z) == WordOr(z, WordAnd(x, WordXor(y, z)))

Choice(x, y, z) == WordXor(z, WordAnd(x, WordXor(y, z)))

GetWord(b) == <<b[1] * 256 + b[2], b[3] * 256 + b[4]>>

PutHalf(h) == <<h \div 256, h % 256>>
PutWord(x) == PutHalf(x[1]) \o PutHalf(x[2])

InitialWord(is224, r) ==
  LET s ==
    IF ~is224
    THEN <<
      <<\h6A09, \hE667>>, <<\hBB67, \hAE85>>, <<\h3C6E, \hF372>>, <<\hA54F, \hF53A>>,
      <<\h510E, \h527F>>, <<\h9B05, \h688C>>, <<\h1F83, \hD9AB>>, <<\h5BE0, \hCD19>> >>
    ELSE <<
      <<\hC105, \h9ED8>>, <<\h367C, \hD507>>, <<\h3070, \hDD17>>, <<\hF70E, \h5939>>,
      <<\hFFC0, \h0B31>>, <<\h6858, \h1511>>, <<\h64F9, \h8FA7>>, <<\hBEFA, \h4FA4>> >>
  IN  s[r + 1]

Constants ==
  <<
    <<\h428A, \h2F98>>, <<\h7137, \h4491>>, <<\hB5C0, \hFBCF>>, <<\hE9B5, \hDBA5>>,
    <<\h3956, \hC25B>>, <<\h59F1, \h11F1>>, <<\h923F, \h82A4>>, <<\hAB1C, \h5ED5>>,
    <<\hD807, \hAA98>>, <<\h1283, \h5B01>>, <<\h2431, \h85BE>>, <<\h550C, \h7DC3>>,
    <<\h72BE, \h5D74>>, <<\h80DE, \hB1FE>>, <<\h9BDC, \h06A7>>, <<\hC19B, \hF174>>,
    <<\hE49B, \h69C1>>, <<\hEFBE, \h4786>>, <<\h0FC1, \h9DC6>>, <<\h240C, \hA1CC>>,
    <<\h2DE9, \h2C6F>>, <<\h4A74, \h84AA>>, <<\h5CB0, \hA9DC>>, <<\h76F9, \h88DA>>,
    <<\h983E, \h5152>>, <<\hA831, \hC66D>>, <<\hB003, \h27C8>>, <<\hBF59, \h7FC7>>,
    <<\hC6E0, \h0BF3>>, <<\hD5A7, \h9147>>, <<\h06CA, \h6351>>, <<\h1429, \h2967>>,
    <<\h27B7, \h0A85>>, <<\h2E1B, \h2138>>, <<\h4D2C, \h6DFC>>, <<\h5338, \h0D13>>,
    <<\h650A, \h7354>>, <<\h766A, \h0ABB>>, <<\h81C2, \hC92E>>, <<\h9272, \h2C85>>,
    <<\hA2BF, \hE8A1>>, <<\hA81A, \h664B>>, <<\hC24B, \h8B70>>, <<\hC76C, \h51A3>>,
    <<\hD192, \hE819>>, <<\hD699, \h0624>>, <<\hF40E, \h3585>>, <<\h106A, \hA070>>,
    <<\h19A4, \hC116>>, <<\h1E37, \h6C08>>, <<\h2748, \h774C>>, <<\h34B0, \hBCB5>>,
    <<\h391C, \h0CB3>>, <<\h4ED8, \hAA4A>>, <<\h5B9C, \hCA4F>>, <<\h682E, \h6FF3>>,
    <<\h748F, \h82EE>>, <<\h78A5, \h636F>>, <<\h84C8, \h7814>>, <<\h8CC7, \h0208>>,
    <<\h90BE, \hFFFA>>, <<\hA450, \h6CEB>>, <<\hBEF9, \hA3F7>>, <<\hC671, \h78F2>>
  >>

RoundConstant(n) == Constants[n + 1]

=============================================================================
