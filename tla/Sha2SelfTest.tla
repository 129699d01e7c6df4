---------------------------- MODULE Sha2SelfTest ----------------------------
(***************************************************************************)
(* sha2_self_test() with the test vectors of sha2.c.                       *)
(*                                                                         *)
(* The last digest of each test is computed line by line by Sha2Process,   *)
(* those that go into it by CompressBlocks.  The tests with a million      *)
(* letters a are left out.  Each test starts with a context of its own:    *)
(* what an old one leaves behind is a matter of Sha2Stream.                *)
(***************************************************************************)
EXTENDS Sha2Words, Sha2Process

CompressBlock(s, data, b) ==
  LET line[n \in 0 .. 64] ==
        IF n = 0
        THEN [r |-> s, w |-> NoWords]
        ELSE LET before == line[n - 1]
                 x == Scheduled(data, b, before.w, n - 1)
             IN  [r |-> P(before.r, n - 1, x), w |-> Stored(before.w, n - 1, x)]
      last == line[64]
  IN  [i \in 0 .. 7 |-> Sum(s[i], last.r[i])]

CompressBlocks(s, data) ==
  LET h[b \in 0 .. (Len(data) \div 64)] ==
        IF b = 0 THEN s ELSE CompressBlock(h[b - 1], data, b - 1)
  IN  h[Len(data) \div 64]

DigestOf(s, is224) ==
  PutWord(s[0]) \o PutWord(s[1]) \o PutWord(s[2]) \o PutWord(s[3])
    \o PutWord(s[4]) \o PutWord(s[5]) \o PutWord(s[6])
    \o (IF is224 THEN <<>> ELSE PutWord(s[7]))

ByteXor(b, c) == b ^^ c
PutInt(n) == PutHalf(n \div Half) \o PutHalf(n % Half)
DigestLength(is224) == IF is224 THEN 28 ELSE 32
DigestBytes(is224, data) ==
  DigestOf(CompressBlocks([r \in 0 .. 7 |-> InitialWord(is224, r)], data), is224)

(* A word holds up to 2^28 here, and the messages are far shorter.         *)
Code == INSTANCE Sha2 WITH
  BlockSize <- 64, WordMod <- 2^28, Put <- PutInt, Xor <- ByteXor,
  DigestSize <- DigestLength, Digest <- DigestBytes,
  Marker <- 128, Zero <- 0, IPad <- 54, OPad <- 92, Garbage <- 0

-----------------------------------------------------------------------------
(***************************************************************************)
(* The vectors.                                                            *)
(***************************************************************************)
Times(n, byte) == [i \in 1 .. n |-> byte]

Upper == "-./0123456789:;<=>?@ABCDEFGHIJKLMNOPQRSTUVWXYZ"
Lower == "abcdefghijklmnopqrstuvwxyz"

(* The position of a character in s, or 0.                                 *)
In(char, s) ==
  IF \E i \in 1 .. Len(s) : SubSeq(s, i, i) = char
  THEN CHOOSE i \in 1 .. Len(s) : SubSeq(s, i, i) = char
  ELSE 0

Ascii(char) ==
  IF In(char, Lower) > 0 THEN 96 + In(char, Lower)
  ELSE IF In(char, Upper) > 0 THEN 44 + In(char, Upper)
  ELSE 32

Text(s) == [i \in 1 .. Len(s) |-> Ascii(SubSeq(s, i, i))]

ShaTests ==
  <<Text("abc"), Text("abcdbcdecdefdefgefghfghighijhijkijkljklmklmnlmnomnopnopq")>>

HmacTests ==
  <<[key |-> Times(20, 11), buf |-> Text("Hi There")],
    [key |-> Text("Jefe"), buf |-> Text("what do ya want for nothing?")],
    [key |-> Times(20, 170), buf |-> Times(50, 221)],
    [key |-> [i \in 1 .. 25 |-> i], buf |-> Times(50, 205)],
    [key |-> Times(20, 12), buf |-> Text("Test With Truncation")],
    [key |-> Times(131, 170),
     buf |-> Text("Test Using Larger Than Block-Size Key - Hash Key First")],
    [key |-> Times(131, 170),
     buf |-> Text("This is a test using a larger than block-size key ")
               \o Text("and a larger than block-size data. The key needs to ")
               \o Text("be hashed before being used by the HMAC algorithm.")]>>

(* Those of SHA-224 come first.                                            *)
ShaSums ==
  <<
      <<\h2309, \h7D22, \h3405, \hD822, \h8642, \hA477, \hBDA2, \h55B3, \h2AAD, \hBCE4,
        \hBDA0, \hB3F7, \hE36C, \h9DA7>>,
      <<\h7538, \h8B16, \h5127, \h76CC, \h5DBA, \h5DA1, \hFD89, \h0150, \hB0C6, \h455C,
        \hB4F5, \h8B19, \h5252, \h2525>>,
      <<\hBA78, \h16BF, \h8F01, \hCFEA, \h4141, \h40DE, \h5DAE, \h2223, \hB003, \h61A3,
        \h9617, \h7A9C, \hB410, \hFF61, \hF200, \h15AD>>,
      <<\h248D, \h6A61, \hD206, \h38B8, \hE5C0, \h2693, \h0C3E, \h6039, \hA33C, \hE459,
        \h64FF, \h2167, \hF6EC, \hEDD4, \h19DB, \h06C1>>
  >>

HmacSums ==
  <<
      <<\h896F, \hB112, \h8ABB, \hDF19, \h6832, \h107C, \hD49D, \hF33F, \h47B4, \hB116,
        \h9912, \hBA4F, \h5368, \h4B22>>,
      <<\hA30E, \h0109, \h8BC6, \hDBBF, \h4569, \h0F3A, \h7E9E, \h6D0F, \h8BBE, \hA2A3,
        \h9E61, \h4800, \h8FD0, \h5E44>>,
      <<\h7FB3, \hCB35, \h88C6, \hC1F6, \hFFA9, \h694D, \h7D6A, \hD264, \h9365, \hB0C1,
        \hF65D, \h69D1, \hEC83, \h33EA>>,
      <<\h6C11, \h5068, \h7401, \h3CAC, \h6A2A, \hBC1B, \hB382, \h627C, \hEC6A, \h90D8,
        \h6EFC, \h012D, \hE7AF, \hEC5A>>,
      <<\h0E2A, \hEA68, \hA90C, \h8D37, \hC988, \hBCDB, \h9FCA, \h6FA8>>,
      <<\h95E9, \hA0DB, \h9620, \h95AD, \hAEBE, \h9B2D, \h6F0D, \hBCE2, \hD499, \hF112,
        \hF2D2, \hB727, \h3FA6, \h870E>>,
      <<\h3A85, \h4166, \hAC5D, \h9F02, \h3F54, \hD517, \hD0B3, \h9DBD, \h9467, \h70DB,
        \h9C2B, \h95C9, \hF6F5, \h65D1>>,
      <<\hB034, \h4C61, \hD8DB, \h3853, \h5CA8, \hAFCE, \hAF0B, \hF12B, \h881D, \hC200,
        \hC983, \h3DA7, \h26E9, \h376C, \h2E32, \hCFF7>>,
      <<\h5BDC, \hC146, \hBF60, \h754E, \h6A04, \h2426, \h0895, \h75C7, \h5A00, \h3F08,
        \h9D27, \h3983, \h9DEC, \h58B9, \h64EC, \h3843>>,
      <<\h773E, \hA91E, \h3680, \h0E46, \h854D, \hB8EB, \hD091, \h81A7, \h2959, \h098B,
        \h3EF8, \hC122, \hD963, \h5514, \hCED5, \h65FE>>,
      <<\h8255, \h8A38, \h9A44, \h3C0E, \hA4CC, \h8198, \h99F2, \h083A, \h85F0, \hFAA3,
        \hE578, \hF807, \h7A2E, \h3FF4, \h6729, \h665B>>,
      <<\hA3B6, \h1674, \h7310, \h0EE0, \h6E0C, \h796C, \h2955, \h552B>>,
      <<\h60E4, \h3159, \h1EE0, \hB67F, \h0D8A, \h26AA, \hCBF5, \hB77F, \h8E0B, \hC621,
        \h3728, \hC514, \h0546, \h040F, \h0EE3, \h7F54>>,
      <<\h9B09, \hFFA7, \h1B94, \h2FCB, \h2763, \h5FBC, \hD5B0, \hE944, \hBFDC, \h6364,
        \h4F07, \h1393, \h8A7F, \h5153, \h5C3A, \h35E2>>
  >>

-----------------------------------------------------------------------------
(***************************************************************************)
(* The tests: what is hashed last, and the digest that is expected.        *)
(***************************************************************************)
Test(ctx, sum) == [is224 |-> ctx.is224, data |-> ctx.processed, sum |-> sum]

ShaTest(j, is224) ==
  Test(Code!Finish(Code!Update(Code!Starts(Code!NoContext, is224), ShaTests[j])),
       ShaSums[IF is224 THEN j ELSE j + 2])

HmacTest(j, is224) ==
  Test(Code!HmacFinish(
         Code!Update(Code!HmacStarts(Code!NoContext, HmacTests[j].key, is224),
                     HmacTests[j].buf)),
       HmacSums[IF is224 THEN j ELSE j + 7])

Tests ==
  {ShaTest(j, is224) : j \in 1 .. 2, is224 \in BOOLEAN}
    \cup {HmacTest(j, is224) : j \in 1 .. 7, is224 \in BOOLEAN}

(* sha2_self_test() returns 0: the digests are those of FIPS 180-2 and RFC *)
(* 4231, as far as the vectors go.                                         *)
SelfTestPasses ==
  ~HasBlock =>
    LET digest == DigestOf(state, input.is224)
    IN  \A i \in 1 .. Len(input.sum) :
          input.sum[i] = digest[2 * i - 1] * 256 + digest[2 * i]

=============================================================================
