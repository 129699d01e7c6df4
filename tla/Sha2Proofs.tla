----------------------------- MODULE Sha2Proofs -----------------------------
(***************************************************************************)
(* Theorems about SHA-2: sha2_process() implements the hash computation of *)
(* FIPS 180-2, whatever a word and the operations on words are             *)
(* (Sha2Process), and what is made of it implements what a hash and an     *)
(* HMAC of a stream of bytes promise (Sha2Stream).                         *)
(***************************************************************************)
EXTENDS Sha2Process, Sha2Stream, SequenceTheorems, TLAPS

(***************************************************************************)
(* The variables that the lines of sha2_process() name.                    *)
(***************************************************************************)
(* In eight lines one place further round from line to line, eight times.  *)
LEMMA LinesRotate ==
  ASSUME NEW n \in 0 .. 63, NEW role \in Register
  PROVE  Lines[n + 1][role + 1] = (role - n) % 8
<1>0. ASSUME n \in {0, 8, 16, 24, 32, 40, 48, 56} PROVE Lines[n + 1] = <<0, 1, 2, 3, 4, 5, 6, 7>>
  BY <1>0 DEF Lines
<1>1. ASSUME n \in {1, 9, 17, 25, 33, 41, 49, 57} PROVE Lines[n + 1] = <<7, 0, 1, 2, 3, 4, 5, 6>>
  BY <1>1 DEF Lines
<1>2. ASSUME n \in {2, 10, 18, 26, 34, 42, 50, 58} PROVE Lines[n + 1] = <<6, 7, 0, 1, 2, 3, 4, 5>>
  BY <1>2 DEF Lines
<1>3. ASSUME n \in {3, 11, 19, 27, 35, 43, 51, 59} PROVE Lines[n + 1] = <<5, 6, 7, 0, 1, 2, 3, 4>>
  BY <1>3 DEF Lines
<1>4. ASSUME n \in {4, 12, 20, 28, 36, 44, 52, 60} PROVE Lines[n + 1] = <<4, 5, 6, 7, 0, 1, 2, 3>>
  BY <1>4 DEF Lines
<1>5. ASSUME n \in {5, 13, 21, 29, 37, 45, 53, 61} PROVE Lines[n + 1] = <<3, 4, 5, 6, 7, 0, 1, 2>>
  BY <1>5 DEF Lines
<1>6. ASSUME n \in {6, 14, 22, 30, 38, 46, 54, 62} PROVE Lines[n + 1] = <<2, 3, 4, 5, 6, 7, 0, 1>>
  BY <1>6 DEF Lines
<1>7. ASSUME n \in {7, 15, 23, 31, 39, 47, 55, 63} PROVE Lines[n + 1] = <<1, 2, 3, 4, 5, 6, 7, 0>>
  BY <1>7 DEF Lines
<1>. QED BY <1>0, <1>1, <1>2, <1>3, <1>4, <1>5, <1>6, <1>7 DEF Register

LEMMA AtRotates ==
  ASSUME NEW role \in Register, NEW n \in Int
  PROVE  At(role, n) = (role - n) % 8
<1>1. PICK m \in 0 .. 63 : m = n % 64 /\ (role - n) % 8 = (role - m) % 8
  BY DEF Register
<1>2. Lines[m + 1][role + 1] = (role - m) % 8
  BY LinesRotate
<1>. QED BY <1>1, <1>2 DEF At

LEMMA AtRegister ==
  ASSUME NEW role \in Register, NEW n \in Int
  PROVE  At(role, n) \in Register
<1>1. At(role, n) = (role - n) % 8
  BY AtRotates
<1>. QED BY <1>1 DEF Register

LEMMA AtDiffers ==
  ASSUME NEW q \in Register, NEW r \in Register, NEW n \in Int, q # r
  PROVE  At(q, n) # At(r, n)
<1>1. At(q, n) = (q - n) % 8 /\ At(r, n) = (r - n) % 8
  BY AtRotates
<1>. QED BY <1>1 DEF Register

(* One line further the variables are named one place further round.       *)
LEMMA AtNext ==
  ASSUME NEW n \in Int
  PROVE  /\ At(0, n + 1) = At(7, n)
         /\ \A r \in 1 .. 7 : At(r, n + 1) = At(r - 1, n)
<1>1. \A r \in Register : At(r, n) = (r - n) % 8 /\ At(r, n + 1) = (r - (n + 1)) % 8
  BY AtRotates
<1>. QED BY <1>1 DEF Register

LEMMA AtRest ==
  ASSUME NEW r \in Register
  PROVE  At(r, 0) = r /\ At(r, 64) = r
<1>1. At(r, 0) = (r - 0) % 8 /\ At(r, 64) = (r - 64) % 8
  BY AtRotates
<1>. QED BY <1>1 DEF Register

-----------------------------------------------------------------------------
(***************************************************************************)
(* The invariant: what is a function, and where the line is.               *)
(***************************************************************************)
Shape ==
  /\ t \in 0 .. Rounds
  /\ DOMAIN reg = Register /\ reg = [r \in Register |-> reg[r]]
  /\ DOMAIN state = Register

LEMMA ShapeInv == ProcessSpec => []Shape
<1>1. ASSUME ProcessInit PROVE Shape
  BY <1>1 DEF ProcessInit, Shape, Rounds
<1>2. ASSUME Shape, [ProcessNext]_processVars PROVE Shape'
  <2>1. CASE Round
    <3>1. t' \in 0 .. Rounds /\ DOMAIN state' = Register
      <4>1. t < Rounds /\ t' = t + 1 /\ state' = state
        BY <2>1, Zenon DEF Round
      <4>2. t \in 0 .. 64 /\ DOMAIN state = Register
        BY <1>2, Zenon DEF Shape, Rounds
      <4>. QED BY <4>1, <4>2 DEF Rounds
    <3>2. PICK y, z : reg' = [reg EXCEPT ![At(3, t)] = y, ![At(7, t)] = z]
      BY <2>1, Zenon DEF Round, P
    <3>3. DOMAIN reg' = Register /\ reg' = [r \in Register |-> reg'[r]]
      BY <1>2, <3>2 DEF Shape
    <3>. QED BY <3>1, <3>3 DEF Shape
  <2>2. CASE AddBack
    BY <1>2, <2>2 DEF Shape, AddBack, Rounds
  <2>3. CASE UNCHANGED processVars
    BY <1>2, <2>3 DEF Shape, processVars
  <2>. QED BY <1>2, <2>1, <2>2, <2>3 DEF ProcessNext, Finished
<1>. QED BY <1>1, <1>2, PTL DEF ProcessSpec

-----------------------------------------------------------------------------
(***************************************************************************)
(* Each line is a round.                                                   *)
(***************************************************************************)
LEMMA InitMaps == ProcessInit => Fips!Init
<1>. SUFFICES ASSUME ProcessInit PROVE Fips!Init
  OBVIOUS
<1>1. Working = state
  BY AtRest DEF ProcessInit, Working
<1>. QED BY <1>1 DEF ProcessInit, Fips!Init, NoWords, Register

LEMMA RoundMaps ==
  ASSUME Shape, Round
  PROVE  Fips!Next
<1>. DEFINE x == Scheduled(input.data, block, W, t)
            h == Working[7]
            T1 == Plus(Plus(Plus(h, S3(Working[4])),
                            Plus(F1(Working[4], Working[5], Working[6]), K(t))), x)
            T2 == Plus(S2(Working[0]), F0(Working[0], Working[1], Working[2]))
<1>1. t \in 0 .. 63 /\ t \in Int /\ t' = t + 1 /\ HasBlock
  <2>1. t < Rounds /\ t' = t + 1 /\ HasBlock
    BY Zenon DEF Round
  <2>2. t \in 0 .. 64
    BY Zenon DEF Shape, Rounds
  <2>. QED BY <2>1, <2>2 DEF Rounds
<1>2. \A r \in Register : Working[r] = reg[At(r, t)]
  BY DEF Working
<1>3. W'[t] = x /\ Fips!Schedule
  <2>. DEFINE y == IF t < 16
                   THEN Get(SubSeq(input.data, 64 * block + 4 * t + 1, 64 * block + 4 * t + 4))
                   ELSE Plus(Plus(S1(W[t - 2]), W[t - 7]), Plus(S0(W[t - 15]), W[t - 16]))
  <2>1. x = y
    BY DEF Scheduled, R
  <2>2. W' = [i \in 0 .. t |-> IF i = t THEN x ELSE W[i]]
    BY DEF Round, Stored
  <2>3. Fips!Schedule <=> W' = [i \in 0 .. t |-> IF i < t THEN W[i] ELSE y]
    BY Zenon DEF Fips!Schedule
  <2>. HIDE DEF x, y
  <2>. QED BY <1>1, <2>1, <2>2, <2>3
<1>4. reg' = [reg EXCEPT ![At(3, t)] = Plus(reg[At(3, t)], T1), ![At(7, t)] = Plus(T1, T2)]
  <2>1. /\ Working[0] = reg[At(0, t)] /\ Working[1] = reg[At(1, t)]
        /\ Working[2] = reg[At(2, t)] /\ Working[4] = reg[At(4, t)]
        /\ Working[5] = reg[At(5, t)] /\ Working[6] = reg[At(6, t)]
        /\ Working[7] = reg[At(7, t)]
    BY <1>2 DEF Register
  <2>2. reg' = P(reg, t, x)
    BY DEF Round
  <2>3. /\ T1 = Plus(Plus(Plus(reg[At(7, t)], S3(reg[At(4, t)])),
                         Plus(F1(reg[At(4, t)], reg[At(5, t)], reg[At(6, t)]), K(t))), x)
        /\ T2 = Plus(S2(reg[At(0, t)]), F0(reg[At(0, t)], reg[At(1, t)], reg[At(2, t)]))
    BY <2>1, Zenon
  <2>. HIDE DEF T1, T2, x
  <2>. QED BY <2>2, <2>3, Zenon DEF P
<1>5. /\ reg'[At(7, t)] = Plus(T1, T2)
      /\ reg'[At(3, t)] = Plus(reg[At(3, t)], T1)
      /\ \A r \in Register \ {3, 7} : reg'[At(r, t)] = reg[At(r, t)]
  <2>1. \A r \in Register : At(r, t) \in Register
    BY <1>1, AtRegister
  <2>2. \A q, r \in Register : q # r => At(q, t) # At(r, t)
    BY <1>1, AtDiffers
  <2>3. 3 \in Register /\ 7 \in Register /\ 3 # 7
    BY DEF Register
  <2>. HIDE DEF T1, T2, Register
  <2>. QED BY <1>4, <2>1, <2>2, <2>3 DEF Shape
<1>6. Working' = [r \in 0 .. 7 |-> IF r = 0 THEN Plus(T1, T2)
                                   ELSE IF r = 4 THEN Plus(Working[3], T1)
                                   ELSE Working[r - 1]]
  <2>. HIDE DEF T1, T2
  <2>1. Working' = [r \in Register |-> reg'[At(r, t + 1)]]
    BY <1>1 DEF Working
  <2>2. ASSUME NEW r \in 0 .. 7
        PROVE  reg'[At(r, t + 1)] = IF r = 0 THEN Plus(T1, T2)
                                    ELSE IF r = 4 THEN Plus(Working[3], T1)
                                    ELSE Working[r - 1]
    <3>1. CASE r = 0
      BY <1>1, <1>5, <3>1, AtNext
    <3>2. CASE r = 4
      BY <1>1, <1>2, <1>5, <3>2, AtNext DEF Register
    <3>3. CASE r \in {1, 2, 3, 5, 6, 7}
      <4>1. At(r, t + 1) = At(r - 1, t)
        BY <1>1, <3>3, AtNext
      <4>2. r - 1 \in Register \ {3, 7}
        BY <3>3 DEF Register
      <4>. QED BY <1>2, <1>5, <3>3, <4>1, <4>2
    <3>. QED BY <3>1, <3>2, <3>3
  <2>. QED BY <2>1, <2>2 DEF Register
<1>7. Fips!Step
  BY <1>1, <1>3, <1>6 DEF Fips!Step, Round
<1>. QED BY <1>1, <1>7 DEF Fips!Next, HasBlock

LEMMA AddBackMaps ==
  ASSUME Shape, AddBack
  PROVE  Fips!Next
<1>1. Working = reg /\ Working' = state'
  <2>1. \A r \in Register : At(r, 64) = r /\ At(r, 0) = r
    BY AtRest
  <2>2. Working = reg
    BY <2>1 DEF Working, AddBack, Shape, Rounds
  <2>3. Working' = state'
    BY <2>1 DEF Working, AddBack
  <2>. QED BY <2>2, <2>3
<1>2. Fips!NextBlock
  BY <1>1 DEF AddBack, Rounds, NoWords, Register, Fips!NextBlock
<1>. QED BY <1>2 DEF AddBack, HasBlock, Fips!Next

-----------------------------------------------------------------------------
(* The 64 lines of sha2_process() (sha2.c:98-227), which name the          *)
(* variables A to H one place further round from line to line instead of   *)
(* moving them, compute what FIPS 180-2 says, for every message and        *)
(* whatever the macros on words compute.                                   *)
THEOREM Sha2Implements == ProcessSpec => ImplementsFips
<1>1. ASSUME Shape, [ProcessNext]_processVars PROVE [Fips!Next]_(Fips!vars)
  <2>1. CASE Round
    BY <1>1, <2>1, RoundMaps
  <2>2. CASE AddBack
    BY <1>1, <2>2, AddBackMaps
  <2>3. CASE UNCHANGED processVars
    BY <2>3 DEF processVars, Fips!vars, Working
  <2>. QED BY <1>1, <2>1, <2>2, <2>3 DEF ProcessNext, Finished
<1>. QED BY <1>1, InitMaps, ShapeInv, PTL DEF ProcessSpec, ImplementsFips, Fips!Spec

-----------------------------------------------------------------------------
(***************************************************************************)
(* Module Sha2Stream, from here on.  A sequence, and where two agree.      *)
(***************************************************************************)
IsSeq(s) == Len(s) \in Nat /\ s = [i \in 1 .. Len(s) |-> s[i]]

LEMMA InSeq ==
  ASSUME NEW s, IsSeq(s), NEW A, \A i \in 1 .. Len(s) : s[i] \in A
  PROVE  s \in Seq(A)
<1>. DEFINE n == Len(s)
<1>1. s \in [1 .. n -> A] /\ n \in Nat
  BY DEF IsSeq
<1>. QED BY <1>1, SeqDef, Zenon

LEMMA FromSeq ==
  ASSUME NEW A, NEW s \in Seq(A)
  PROVE  IsSeq(s)
BY LenProperties DEF IsSeq

LEMMA Together ==
  ASSUME NEW s, NEW r, IsSeq(s), IsSeq(r)
  PROVE  \E A : s \in Seq(A) /\ r \in Seq(A)
<1>. DEFINE A == {s[i] : i \in 1 .. Len(s)} \cup {r[i] : i \in 1 .. Len(r)}
<1>1. s \in Seq(A)
  BY InSeq
<1>2. r \in Seq(A)
  BY InSeq
<1>. QED BY <1>1, <1>2

LEMMA Function ==
  ASSUME NEW n \in Nat, NEW f, f = [i \in 1 .. n |-> f[i]]
  PROVE  IsSeq(f) /\ Len(f) = n
<1>. DEFINE A == {f[i] : i \in 1 .. n}
<1>1. f \in [1 .. n -> A]
  OBVIOUS
<1>2. f \in Seq(A)
  BY <1>1, SeqDef, Zenon
<1>3. Len(f) = n
  BY <1>1, <1>2, LenProperties
<1>. QED BY <1>2, <1>3, FromSeq

(* The n elements of s after the first a are those of r after the first b. *)
Agree(s, a, r, b, n) == \A i \in 1 .. n : s[a + i] = r[b + i]

LEMMA AgreeTrans ==
  ASSUME NEW s, NEW r, NEW u, NEW a \in Int, NEW b \in Int, NEW c \in Int, NEW n \in Int,
         Agree(s, a, r, b, n), Agree(r, b, u, c, n)
  PROVE  Agree(s, a, u, c, n)
BY DEF Agree

LEMMA AgreeSym ==
  ASSUME NEW s, NEW r, NEW a \in Int, NEW b \in Int, NEW n \in Int, Agree(s, a, r, b, n)
  PROVE  Agree(r, b, s, a, n)
BY DEF Agree

LEMMA AgreeJoin ==
  ASSUME NEW s, NEW r, NEW a \in Int, NEW b \in Int, NEW n \in Nat, NEW k \in Nat,
         Agree(s, a, r, b, n), Agree(s, a + n, r, b + n, k)
  PROVE  Agree(s, a, r, b, n + k)
<1>1. ASSUME NEW i \in 1 .. (n + k), i > n PROVE s[a + i] = r[b + i]
  <2>1. PICK j \in Int : j = i - n /\ j \in 1 .. k /\ a + i = (a + n) + j
                         /\ b + i = (b + n) + j
    BY <1>1
  <2>2. s[(a + n) + j] = r[(b + n) + j]
    BY <2>1 DEF Agree
  <2>. QED BY <2>1, <2>2
<1>. QED BY <1>1 DEF Agree

LEMMA AgreePart ==
  ASSUME NEW s, NEW r, NEW a \in Int, NEW b \in Int, NEW n \in Int, Agree(s, a, r, b, n),
         NEW e \in Int, NEW f \in Int, NEW k \in Int,
         e >= a, e - a = f - b, (e - a) + k <= n
  PROVE  Agree(s, e, r, f, k)
<1>1. ASSUME NEW i \in 1 .. k PROVE s[e + i] = r[f + i]
  <2>1. PICK j \in Int : j = (e - a) + i /\ j \in 1 .. n /\ e + i = a + j /\ f + i = b + j
    OBVIOUS
  <2>2. s[a + j] = r[b + j]
    BY <2>1 DEF Agree
  <2>. QED BY <2>1, <2>2
<1>. QED BY <1>1 DEF Agree

LEMMA Concat ==
  ASSUME NEW s, NEW r, IsSeq(s), IsSeq(r)
  PROVE  /\ IsSeq(s \o r) /\ Len(s \o r) = Len(s) + Len(r)
         /\ Agree(s \o r, 0, s, 0, Len(s)) /\ Agree(s \o r, Len(s), r, 0, Len(r))
<1>1. PICK A : s \in Seq(A) /\ r \in Seq(A)
  BY Together
<1>2. Len(s) \in Nat /\ Len(r) \in Nat
  BY DEF IsSeq
<1>3. IsSeq(s \o r)
  BY <1>1, ConcatProperties, FromSeq
<1>. QED BY <1>1, <1>2, <1>3, ConcatProperties DEF Agree

LEMMA Associative ==
  ASSUME NEW s, NEW r, NEW u, IsSeq(s), IsSeq(r), IsSeq(u)
  PROVE  (s \o r) \o u = s \o (r \o u)
<1>. DEFINE A == {s[i] : i \in 1 .. Len(s)} \cup {r[i] : i \in 1 .. Len(r)}
                 \cup {u[i] : i \in 1 .. Len(u)}
<1>1. s \in Seq(A) /\ r \in Seq(A) /\ u \in Seq(A)
  BY InSeq
<1>. HIDE DEF A
<1>. QED BY <1>1, ConcatAssociative

LEMMA Equal ==
  ASSUME NEW s, NEW r, IsSeq(s), IsSeq(r), Len(s) = Len(r), Agree(s, 0, r, 0, Len(s))
  PROVE  s = r
<1>1. PICK A : s \in Seq(A) /\ r \in Seq(A)
  BY Together
<1>2. ASSUME NEW i \in 1 .. Len(s) PROVE s[i] = r[i]
  <2>1. Len(s) \in Nat
    BY DEF IsSeq
  <2>2. s[0 + i] = r[0 + i] /\ 0 + i = i
    BY <2>1 DEF Agree
  <2>. QED BY <2>2
<1>. QED BY <1>1, <1>2, SeqEqual

LEMMA Part ==
  ASSUME NEW s, IsSeq(s), NEW a \in Nat, NEW b \in Nat, a <= b, b <= Len(s)
  PROVE  /\ IsSeq(SubSeq(s, a + 1, b)) /\ Len(SubSeq(s, a + 1, b)) = b - a
         /\ Agree(SubSeq(s, a + 1, b), 0, s, a, b - a)
<1>. DEFINE A == {s[i] : i \in 1 .. Len(s)}
<1>1. \A i \in (a + 1) .. b : s[i] \in A
  BY DEF IsSeq
<1>2. /\ SubSeq(s, a + 1, b) \in Seq(A)
      /\ Len(SubSeq(s, a + 1, b)) = IF a + 1 <= b THEN b - (a + 1) + 1 ELSE 0
      /\ \A i \in 1 .. b - (a + 1) + 1 : SubSeq(s, a + 1, b)[i] = s[(a + 1) + i - 1]
  <2>. HIDE DEF A
  <2>. QED BY <1>1, SubSeqProperties
<1>3. IsSeq(SubSeq(s, a + 1, b))
  BY <1>2, FromSeq
<1>4. ASSUME NEW i \in 1 .. (b - a) PROVE SubSeq(s, a + 1, b)[0 + i] = s[a + i]
  <2>1. 0 + i = i /\ (a + 1) + i - 1 = a + i
    OBVIOUS
  <2>. QED BY <1>2, <2>1
<1>. QED BY <1>2, <1>3, <1>4 DEF Agree

-----------------------------------------------------------------------------
(***************************************************************************)
(* Division, and the lengths of messages in blocks and in words.           *)
(***************************************************************************)
LEMMA Division ==
  ASSUME NEW n \in Int, NEW m \in Int, m > 0
  PROVE  n % m \in 0 .. (m - 1) /\ n \div m \in Int /\ n % m = n - (n \div m) * m
<1>1. n % m \in 0 .. (m - 1) /\ n \div m \in Int
  OBVIOUS
<1>2. n % m = n - (n \div m) * m
  OBVIOUS
<1>. QED BY <1>1, <1>2

LEMMA SameRemainder ==
  ASSUME NEW n \in Int, NEW q \in Int, NEW m \in Int, m > 0
  PROVE  (n + q * m) % m = n % m
<1>. DEFINE d == ((n + q * m) \div m) - q - (n \div m)
<1>1. q * m \in Int
  OBVIOUS
<1>2. d * m = (n % m) - ((n + q * m) % m) /\ d \in Int
  BY <1>1, Division
<1>3. d >= 1 => d * m >= m
  BY <1>2
<1>4. d <= -1 => d * m <= -m
  BY <1>2
<1>5. d = 0
  BY <1>1, <1>2, <1>3, <1>4, Division
<1>. QED BY <1>1, <1>2, <1>5

LEMMA PlusRemainder ==
  ASSUME NEW x \in Int, NEW y \in Int, NEW m \in Int, m > 0
  PROVE  ((x % m) + y) % m = (x + y) % m
<1>1. PICK r \in Int, q \in Int : r = x % m /\ r = x - q * m
  BY Division
<1>2. PICK z \in Int : z = r + y
  OBVIOUS
<1>3. (z + q * m) % m = z % m
  BY SameRemainder, Zenon
<1>4. z + q * m = x + y
  BY <1>1, <1>2
<1>. QED BY <1>1, <1>2, <1>3, <1>4

LEMMA TimesRemainder ==
  ASSUME NEW x \in Int, NEW y \in Int, NEW m \in Int, m > 0
  PROVE  ((x % m) * y) % m = (x * y) % m
<1>1. PICK r \in Int, q \in Int : r = x % m /\ r = x - q * m
  BY Division
<1>2. PICK z \in Int, p \in Int : z = r * y /\ p = q * y
  OBVIOUS
<1>3. (z + p * m) % m = z % m
  BY SameRemainder, Zenon
<1>4. z + p * m = x * y
  BY <1>1, <1>2
<1>. QED BY <1>1, <1>2, <1>3, <1>4

LEMMA Quotient ==
  ASSUME NEW r \in Int, NEW q \in Int, NEW m \in Int, r \in 0 .. (m - 1)
  PROVE  (r + q * m) % m = r /\ (r + q * m) \div m = q
<1>1. q * m \in Int /\ m > 0
  OBVIOUS
<1>2. (r + q * m) % m = r
  <2>1. r % m = r
    BY <1>1
  <2>. QED BY <1>1, <2>1, SameRemainder
<1>3. PICK d \in Int : d = (r + q * m) \div m
  BY <1>1
<1>4. (q - d) * m = 0
  BY <1>1, <1>2, <1>3, Division
<1>5. q - d >= 1 => (q - d) * m >= m
  BY <1>1
<1>6. q - d <= -1 => (q - d) * m <= -m
  BY <1>1
<1>. QED BY <1>1, <1>2, <1>3, <1>4, <1>5, <1>6

LEMMA Sizes ==
  /\ BlockSize \in Int /\ BlockSize > 0 /\ BlockSize > LengthSize /\ LengthSize \in Nat
  /\ WordMod \in Int /\ WordMod > 0 /\ WordMod > BlockSize
<1>1. BlockSize \in Nat /\ LengthSize \in Nat /\ BlockSize > LengthSize
  BY BlockSizeAssumption, PutAssumption DEF LengthSize
<1>2. WordMod \in Nat /\ WordMod > BlockSize
  BY WordModAssumption
<1>. QED BY <1>1, <1>2

LEMMA WordsOfBlocks == \E q \in Int : WordMod = q * BlockSize
<1>1. WordMod % BlockSize = 0
  BY WordModAssumption
<1>2. WordMod % BlockSize = WordMod - (WordMod \div BlockSize) * BlockSize
      /\ WordMod \div BlockSize \in Int
  BY Sizes, Division
<1>3. (WordMod \div BlockSize) * BlockSize \in Int
  BY <1>2, Sizes
<1>. QED BY <1>1, <1>2, <1>3, Sizes

LEMMA Eighth == \E e \in Int : e > 0 /\ e = WordMod \div 8 /\ WordMod = 8 * e
<1>1. WordMod % 8 = 0
  BY WordModAssumption
<1>. QED BY <1>1, Sizes

(* The bytes of whole blocks in a message of n.                            *)
Whole(n) == n - (n % BlockSize)

LEMMA WholeBlocks ==
  ASSUME NEW n \in Nat
  PROVE  /\ Whole(n) \in Nat /\ n % BlockSize \in 0 .. (BlockSize - 1)
         /\ n = Whole(n) + (n % BlockSize)
         /\ \E q \in Int : Whole(n) = q * BlockSize
<1>1. n % BlockSize \in 0 .. (BlockSize - 1) /\ n \div BlockSize \in Int
      /\ n % BlockSize = n - (n \div BlockSize) * BlockSize
  BY Sizes, Division
<1>2. n % BlockSize <= n
  BY Sizes
<1>3. (n \div BlockSize) * BlockSize \in Int
  BY <1>1, Sizes
<1>4. Whole(n) = (n \div BlockSize) * BlockSize
  BY <1>1, <1>3 DEF Whole
<1>. QED BY <1>1, <1>2, <1>4 DEF Whole

LEMMA BlocksAndRest ==
  ASSUME NEW q \in Int, NEW r \in 0 .. (BlockSize - 1), NEW n \in Nat,
         n = q * BlockSize + r
  PROVE  n % BlockSize = r /\ Whole(n) = q * BlockSize
<1>1. q * BlockSize \in Int
  BY Sizes
<1>2. (r + q * BlockSize) % BlockSize = r
  BY Quotient, Sizes
<1>3. r + q * BlockSize = n
  BY <1>1
<1>. QED BY <1>1, <1>2, <1>3 DEF Whole

(* The two words in which a context counts n bytes.                        *)
Total(n) == <<n % WordMod, (n \div WordMod) % WordMod>>

LEMMA Counted ==
  ASSUME NEW n \in Nat
  PROVE  Total(n)[1] % BlockSize = n % BlockSize
<1>1. PICK q \in Int : WordMod = q * BlockSize
  BY WordsOfBlocks
<1>2. PICK a \in Int : n % WordMod = n - a * WordMod
  BY Sizes, Division
<1>3. PICK p \in Int : p = -(a * q)
  BY <1>1, <1>2
<1>4. p * BlockSize = -(a * WordMod)
  BY <1>1, <1>3, Sizes
<1>5. n % WordMod = n + p * BlockSize
  BY <1>1, <1>2, <1>4, Sizes
<1>6. (n + p * BlockSize) % BlockSize = n % BlockSize
  <2>1. n \in Int
    OBVIOUS
  <2>. QED BY <2>1, SameRemainder, Sizes, Zenon
<1>. QED BY <1>5, <1>6 DEF Total

LEMMA Added ==
  ASSUME NEW n \in Nat, NEW len \in 0 .. (WordMod - 1)
  PROVE  AddLength(Total(n), len) = Total(n + len)
<1>1. PICK r \in 0 .. (WordMod - 1), a \in Int :
        r = n % WordMod /\ a = n \div WordMod /\ n = r + a * WordMod
  BY Sizes, Division
<1>2. len % WordMod = len /\ a * WordMod \in Int /\ (a + 1) * WordMod = a * WordMod + WordMod
  BY <1>1, Sizes
<1>3. CASE r + len < WordMod
  <2>1. (r + len) % WordMod = r + len
    BY <1>3, Sizes
  <2>2. n + len = (r + len) + a * WordMod /\ r + len \in 0 .. (WordMod - 1)
    BY <1>1, <1>2, <1>3, Sizes
  <2>3. (n + len) % WordMod = r + len /\ (n + len) \div WordMod = a
    BY <2>2, Quotient, Sizes
  <2>4. ~(r + len < len)
    BY <1>1
  <2>. QED BY <1>1, <1>2, <2>1, <2>3, <2>4 DEF AddLength, Total
<1>4. CASE r + len >= WordMod
  <2>1. PICK e \in Int : e = r + len - WordMod /\ e \in 0 .. (WordMod - 1) /\ e < len
    BY <1>1, <1>4, Sizes
  <2>2. (r + len) % WordMod = e
    <3>1. r + len = e + 1 * WordMod
      BY <1>1, <2>1, Sizes
    <3>. QED BY <2>1, <3>1, Quotient, Sizes
  <2>3. n + len = e + (a + 1) * WordMod
    BY <1>1, <1>2, <2>1, Sizes
  <2>4. (n + len) % WordMod = e /\ (n + len) \div WordMod = a + 1
    BY <1>1, <2>1, <2>3, Quotient, Sizes
  <2>5. ((a % WordMod) + 1) % WordMod = (a + 1) % WordMod
    BY <1>1, PlusRemainder, Sizes
  <2>. QED BY <1>1, <1>2, <2>1, <2>2, <2>4, <2>5 DEF AddLength, Total
<1>. QED BY <1>1, <1>3, <1>4, Sizes

(* The length in bits, whose words are cut and joined.                     *)
LEMMA LengthInBits ==
  ASSUME NEW n \in Nat
  PROVE  /\ MessageLength(Total(n))
               = Put(((8 * n) \div WordMod) % WordMod) \o Put((8 * n) % WordMod)
         /\ ((8 * n) \div WordMod) % WordMod \in 0 .. (WordMod - 1)
         /\ (8 * n) % WordMod \in 0 .. (WordMod - 1)
<1>1. PICK E \in Int : E > 0 /\ E = WordMod \div 8 /\ WordMod = 8 * E
  BY Eighth
<1>2. PICK r \in 0 .. (WordMod - 1), a \in Int :
        r = n % WordMod /\ a = n \div WordMod /\ n = r + a * WordMod
  BY Division, Sizes
<1>3. PICK e \in 0 .. (E - 1), d \in Int :
        d = r \div E /\ r = e + d * E
  <2>1. r \in Int /\ E \in Int /\ E > 0
    BY <1>1
  <2>2. r % E \in 0 .. (E - 1) /\ r \div E \in Int /\ r % E = r - (r \div E) * E
    BY <2>1, Division, Zenon
  <2>. QED BY <2>1, <2>2
<1>4. d \in 0 .. 7
  <2>1. PICK y \in Int : y = d * E
    BY <1>1
  <2>2. d <= -1 => y <= -E
    BY <1>1, <2>1
  <2>3. d >= 8 => y >= 8 * E
    BY <1>1, <2>1
  <2>4. r = e + y /\ r < 8 * E /\ r >= 0 /\ e < E /\ e >= 0
    <3>1. r = e + y
      BY <1>3, <2>1
    <3>2. r < 8 * E /\ r >= 0
      BY <1>1, <1>2
    <3>3. e < E /\ e >= 0
      BY <1>1, <1>3
    <3>. QED BY <3>1, <3>2, <3>3
  <2>. QED BY <2>1, <2>2, <2>3, <2>4, <1>1
<1>5. (8 * n) \div WordMod = 8 * a + d
  <2>1. 8 * n = 8 * e + (8 * a + d) * WordMod
    <3>1. PICK x \in Int, y \in Int : x = a * WordMod /\ y = d * E
      BY <1>1
    <3>2. (8 * a + d) * WordMod = 8 * x + 8 * y
      BY <1>1, <3>1
    <3>3. n = r + x
      BY <1>2, <3>1
    <3>4. r = e + y /\ r \in Int /\ e \in Int
      BY <1>3, <3>1
    <3>. QED BY <3>1, <3>2, <3>3, <3>4
  <2>2. 8 * e \in 0 .. (WordMod - 1) /\ 8 * a + d \in Int
    BY <1>1, <1>3
  <2>. QED BY <2>1, <2>2, Quotient, Sizes
<1>6. (8 * n) % WordMod = (r * 8) % WordMod
  <2>1. ((n % WordMod) * 8) % WordMod = (n * 8) % WordMod
    BY TimesRemainder, Sizes
  <2>. QED BY <1>2, <2>1
<1>7. (8 * a + d) % WordMod = d + (((a % WordMod) * 8) % WordMod)
  <2>1. ((a % WordMod) * 8) % WordMod = (a * 8) % WordMod
    <3>1. a \in Int /\ 8 \in Int
      OBVIOUS
    <3>. QED BY <3>1, TimesRemainder, Sizes, Zenon
  <2>2. PICK h \in 0 .. (WordMod - 1), b \in Int :
          h = (a * 8) % WordMod /\ a * 8 = h + b * WordMod
    <3>1. a * 8 \in Int
      OBVIOUS
    <3>. QED BY <3>1, Division, Sizes
  <2>3. PICK g \in Int, y \in Int : y = b * E /\ g = a - y
    BY <1>1, <1>2
  <2>4. h = 8 * g
    <3>1. b * WordMod = 8 * y
      BY <1>1, <2>3
    <3>. QED BY <2>2, <2>3, <3>1
  <2>5. h + d \in 0 .. (WordMod - 1)
    BY <1>1, <1>4, <2>2, <2>4
  <2>6. 8 * a + d = (h + d) + b * WordMod
    BY <1>1, <1>2, <1>4, <2>2
  <2>7. (8 * a + d) % WordMod = h + d
    <3>1. h + d \in Int /\ b \in Int
      BY <2>5
    <3>2. ((h + d) + b * WordMod) % WordMod = h + d
      BY <2>5, <3>1, Quotient, Sizes, Zenon
    <3>. QED BY <2>6, <3>2, Zenon
  <2>. QED BY <1>4, <2>1, <2>2, <2>7
<1>8. MessageLength(Total(n))
        = Put(d + (((a % WordMod) * 8) % WordMod)) \o Put((r * 8) % WordMod)
  BY <1>1, <1>2, <1>3, Zenon DEF MessageLength, Total
<1>9. (8 * a + d) \in Int /\ 8 * n \in Int
  BY <1>2, <1>3
<1>. QED BY <1>5, <1>6, <1>7, <1>8, <1>9, Division, Sizes

-----------------------------------------------------------------------------
(***************************************************************************)
(* A context and the message it stands for.                                *)
(***************************************************************************)
IsContext(c) ==
  c = [total |-> c.total, processed |-> c.processed, buffer |-> c.buffer,
       ipad |-> c.ipad, opad |-> c.opad, is224 |-> c.is224]

(* The whole blocks of the message are processed, the rest is buffered.    *)
Rep(c, m) ==
  /\ IsContext(c) /\ IsSeq(m) /\ IsSeq(c.processed)
  /\ c.total = Total(Len(m))
  /\ Len(c.processed) = Whole(Len(m))
  /\ Agree(c.processed, 0, m, 0, Whole(Len(m)))
  /\ Agree(c.buffer, 0, m, Whole(Len(m)), Len(m) % BlockSize)

(* What is left of a context besides the message.                          *)
SamePads(c, d) == d.ipad = c.ipad /\ d.opad = c.opad /\ d.is224 = c.is224

LEMMA Overwritten ==
  ASSUME NEW buffer, NEW at \in Nat, NEW bytes, IsSeq(bytes), at + Len(bytes) <= BlockSize,
         NEW w, w = Overwrite(buffer, at, bytes)
  PROVE  /\ IsSeq(w) /\ Len(w) = BlockSize
         /\ Agree(w, 0, buffer, 0, at) /\ Agree(w, at, bytes, 0, Len(bytes))
<1>1. Len(bytes) \in Nat
  BY DEF IsSeq
<1>2. w = [i \in 1 .. BlockSize |-> w[i]]
  BY DEF Overwrite
<1>3. IsSeq(w) /\ Len(w) = BlockSize
  BY <1>2, Sizes, Function
<1>4. \A i \in 1 .. at : w[0 + i] = buffer[0 + i]
  BY <1>1, Sizes DEF Overwrite
<1>5. \A i \in 1 .. Len(bytes) : w[at + i] = bytes[0 + i]
  BY <1>1, Sizes DEF Overwrite
<1>. QED BY <1>3, <1>4, <1>5 DEF Agree

LEMMA Empty == IsSeq(<<>>) /\ Len(<<>>) = 0
BY EmptySeq, FromSeq

(* Of l bytes that follow n: the first, if they fill the buffer, and those *)
(* up to the end of the whole blocks.                                      *)
First(n, l) ==
  IF n % BlockSize > 0 /\ l >= BlockSize - (n % BlockSize)
  THEN BlockSize - (n % BlockSize) ELSE 0
Upto(n, l) == First(n, l) + BlockSize * ((l - First(n, l)) \div BlockSize)

FullBlock(c, n, x) ==
  Overwrite(c.buffer, n % BlockSize, SubSeq(x, 1, First(n, Len(x))))
Filled(c, n, x) == IF First(n, Len(x)) > 0 THEN FullBlock(c, n, x) ELSE <<>>
RestAt(n, l) == IF First(n, l) > 0 THEN 0 ELSE n % BlockSize

(* What sha2_update() does with the bytes: first to the buffer, if they    *)
(* fill it, then whole blocks, then the rest to the buffer.                *)
IsUpdate(c, n, x, d) ==
  LET first == First(n, Len(x))
      whole == Upto(n, Len(x))
  IN  /\ IsContext(d) /\ SamePads(c, d) /\ d.total = Total(n + Len(x))
      /\ d.processed = c.processed \o Filled(c, n, x) \o SubSeq(x, first + 1, whole)
      /\ d.buffer = Overwrite(FullBlock(c, n, x), RestAt(n, Len(x)),
                              SubSeq(x, whole + 1, Len(x)))

LEMMA UpdateIs ==
  ASSUME NEW c, NEW m, Rep(c, m), NEW x, IsSeq(x), Len(x) \in 1 .. (WordMod - 1)
  PROVE  IsUpdate(c, Len(m), x, Update(c, x))
<1>1. Len(m) \in Nat /\ Len(x) \in 1 .. (WordMod - 1)
  BY DEF Rep, IsSeq
<1>2. c.total[1] % BlockSize = Len(m) % BlockSize
      /\ AddLength(c.total, Len(x)) = Total(Len(m) + Len(x))
  BY <1>1, Counted, Added DEF Rep
<1>. DEFINE first == First(Len(m), Len(x))
            whole == Upto(Len(m), Len(x))
            left == Len(m) % BlockSize
            chunk == FullBlock(c, Len(m), x)
<1>3. first = (IF Fills(left, Len(x)) THEN BlockSize - left ELSE 0) /\ Len(x) # 0
  BY <1>1 DEF Fills, First
<1>4. Update(c, x) =
        [c EXCEPT !.total = AddLength(c.total, Len(x)),
                  !.processed = c.processed \o (IF first > 0 THEN chunk ELSE <<>>)
                                  \o SubSeq(x, first + 1, whole),
                  !.buffer = Overwrite(chunk, IF first > 0 THEN 0 ELSE left,
                                       SubSeq(x, whole + 1, Len(x)))]
  <2>1. whole = first + BlockSize * ((Len(x) - first) \div BlockSize)
        /\ chunk = Overwrite(c.buffer, left, SubSeq(x, 1, first))
    BY DEF Upto, FullBlock
  <2>. HIDE DEF first, whole, left, chunk
  <2>2. c.total[1] % BlockSize = left
    BY <1>2 DEF left
  <2>. QED BY <1>3, <2>1, <2>2 DEF Update
<1>. QED BY <1>2, <1>4 DEF Rep, IsContext, SamePads, Filled, RestAt, IsUpdate

(* Where it cuts them.                                                     *)
LEMMA Cut ==
  ASSUME NEW n \in Nat, NEW l \in Nat
  PROVE  /\ First(n, l) \in Nat /\ Upto(n, l) \in Nat
         /\ First(n, l) <= Upto(n, l) /\ Upto(n, l) <= l
         /\ First(n, l) = 0 /\ n % BlockSize > 0 =>
              /\ Upto(n, l) = 0 /\ Whole(n + l) = Whole(n)
              /\ (n + l) % BlockSize = (n % BlockSize) + l
              /\ (n % BlockSize) + l < BlockSize
         /\ First(n, l) > 0 \/ n % BlockSize = 0 =>
              /\ Whole(n + l) = n + Upto(n, l) /\ (n + l) % BlockSize = l - Upto(n, l)
              /\ l - Upto(n, l) < BlockSize
         /\ First(n, l) > 0 => (n % BlockSize) + First(n, l) = BlockSize
<1>. DEFINE left == n % BlockSize
            first == First(n, l)
            whole == Upto(n, l)
<1>1. left \in 0 .. (BlockSize - 1) /\ Whole(n) \in Nat /\ n = Whole(n) + left
  BY WholeBlocks
<1>2. /\ first = IF left > 0 /\ l >= BlockSize - left THEN BlockSize - left ELSE 0
      /\ whole = first + BlockSize * ((l - first) \div BlockSize)
  BY DEF First, Upto
<1>. HIDE DEF left, first, whole
<1>3. PICK q \in Int : Whole(n) = q * BlockSize
  BY WholeBlocks
<1>4. first \in Nat /\ first <= l /\ l - first \in Nat
  BY <1>1, <1>2, Sizes
<1>5. PICK e \in 0 .. (BlockSize - 1), d \in Int :
        e = (l - first) % BlockSize /\ d = (l - first) \div BlockSize
        /\ l - first = e + d * BlockSize
  BY <1>4, Sizes, Division
<1>6. PICK y \in Int : y = d * BlockSize /\ y >= 0
  <2>1. d <= -1 => d * BlockSize <= -BlockSize
    BY Sizes
  <2>2. PICK y \in Int : y = d * BlockSize
    BY Sizes
  <2>. QED BY <1>4, <1>5, <2>1, <2>2, Sizes
<1>7. whole = first + y /\ l = whole + e
  <2>1. BlockSize * d = y
    BY <1>6, Sizes
  <2>2. whole = first + y
    BY <1>2, <1>5, <2>1, Zenon
  <2>. QED BY <1>4, <1>5, <1>6, <2>2, Sizes
<1>8. first > 0 => left + first = BlockSize
  BY <1>1, <1>2, Sizes
<1>9. ASSUME first = 0, left > 0
      PROVE  /\ whole = 0 /\ Whole(n + l) = Whole(n) /\ (n + l) % BlockSize = left + l
             /\ left + l < BlockSize
  <2>1. left + l \in 0 .. (BlockSize - 1) /\ l < BlockSize
    BY <1>1, <1>4, <1>9, <1>2, Sizes
  <2>2. d >= 1 => d * BlockSize >= BlockSize
    BY Sizes
  <2>3. y = 0
    BY <1>5, <1>6, <1>7, <1>9, <2>1, <2>2, Sizes
  <2>4. n + l = q * BlockSize + (left + l) /\ n + l \in Nat
    <3>1. q * BlockSize \in Int
      BY Sizes
    <3>. QED BY <1>1, <1>3, <3>1, Sizes
  <2>5. (n + l) % BlockSize = left + l /\ Whole(n + l) = q * BlockSize
    BY <2>1, <2>4, BlocksAndRest
  <2>6. left + l < BlockSize
    BY <2>1, Sizes
  <2>. QED BY <1>3, <1>7, <1>9, <2>3, <2>5, <2>6
<1>10. ASSUME first > 0 \/ left = 0
      PROVE  /\ Whole(n + l) = n + whole /\ (n + l) % BlockSize = l - whole
             /\ l - whole < BlockSize
  <2>1. PICK p \in Int : n + whole = p * BlockSize
    <3>1. CASE first > 0
      <4>1. n + whole = (q + 1 + d) * BlockSize
        <5>1. (q + 1 + d) * BlockSize = q * BlockSize + BlockSize + d * BlockSize
          BY Sizes
        <5>2. PICK z \in Int : z = q * BlockSize
          BY Sizes
        <5>. QED BY <1>1, <1>3, <1>4, <1>6, <1>7, <1>8, <3>1, <5>1, <5>2, Sizes
      <4>. QED BY <4>1
    <3>2. CASE first = 0 /\ left = 0
      <4>1. n + whole = (q + d) * BlockSize
        <5>1. (q + d) * BlockSize = q * BlockSize + d * BlockSize
          BY Sizes
        <5>. QED BY <1>1, <1>3, <1>6, <1>7, <3>2, <5>1, Sizes
      <4>. QED BY <4>1
    <3>. QED BY <1>4, <1>10, <3>1, <3>2
  <2>2. n + l = p * BlockSize + e /\ n + l \in Nat
    <3>1. p * BlockSize \in Int
      BY Sizes
    <3>2. n + l = (n + whole) + e /\ e \in Nat
      BY <1>4, <1>6, <1>7, Sizes
    <3>. QED BY <2>1, <3>1, <3>2
  <2>3. (n + l) % BlockSize = e /\ Whole(n + l) = p * BlockSize
    BY <2>2, BlocksAndRest
  <2>. QED BY <1>4, <1>5, <1>6, <1>7, <2>1, <2>3, Sizes
<1>11. left \in Nat /\ whole \in Nat /\ first <= whole /\ whole <= l
  BY <1>1, <1>4, <1>6, <1>7, Sizes
<1>. QED BY <1>4, <1>9, <1>10, <1>8, <1>11 DEF left, first, whole

(* The bytes processed: those before, the block that was filled up, and    *)
(* whole blocks of the input.                                              *)
LEMMA Regrouped ==
  ASSUME NEW w \in Nat, NEW left \in Nat, NEW first \in Nat, NEW whole \in Nat,
         first <= whole, NEW r, NEW p, NEW m, NEW x, NEW fill, NEW buffer, NEW head, NEW middle,
         Agree(r, 0, p, 0, w), Agree(p, 0, m, 0, w),
         Agree(r, w, fill, 0, left + first),
         Agree(fill, 0, buffer, 0, left), Agree(buffer, 0, m, w, left),
         Agree(fill, left, head, 0, first), Agree(head, 0, x, 0, first),
         Agree(r, w + left + first, middle, 0, whole - first),
         Agree(middle, 0, x, first, whole - first)
  PROVE  Agree(r, 0, m, 0, w + left) /\ Agree(r, w + left, x, 0, whole)
<1>1. Agree(r, 0, m, 0, w)
  BY AgreeTrans
<1>2. Agree(r, w, m, w, left)
  <2>1. Agree(fill, 0, m, w, left)
    BY AgreeTrans
  <2>2. Agree(r, w, fill, 0, left)
    BY AgreePart
  <2>. QED BY <2>1, <2>2, AgreeTrans
<1>3. Agree(r, w + left, x, 0, first)
  <2>1. Agree(fill, left, x, 0, first)
    BY AgreeTrans
  <2>2. Agree(r, w + left, fill, left, first)
    BY AgreePart
  <2>. QED BY <2>1, <2>2, AgreeTrans
<1>4. Agree(r, (w + left) + first, x, 0 + first, whole - first)
  BY AgreeTrans
<1>5. Agree(r, 0, m, 0, w + left)
  <2>1. Agree(r, 0 + w, m, 0 + w, left)
    BY <1>2
  <2>. QED BY <1>1, <2>1, AgreeJoin
<1>6. Agree(r, w + left, x, 0, first + (whole - first))
  BY <1>3, <1>4, AgreeJoin
<1>. QED BY <1>5, <1>6

LEMMA UpdateRep ==
  ASSUME NEW c, NEW m, Rep(c, m), NEW x, IsSeq(x), Len(x) < WordMod
  PROVE  Rep(Update(c, x), m \o x) /\ SamePads(c, Update(c, x))
<1>1. PICK n, l, d, mx, p :
        n = Len(m) /\ l = Len(x) /\ d = Update(c, x) /\ mx = m \o x /\ p = c.processed
  OBVIOUS
<1>2. n \in Nat /\ l \in Nat /\ IsSeq(m) /\ IsSeq(p)
  BY <1>1 DEF Rep, IsSeq
<1>3. CASE l = 0
  <2>1. IsSeq(mx) /\ Len(mx) = n + l /\ Agree(mx, 0, m, 0, n)
    BY <1>1, <1>2, Concat
  <2>2. Len(mx) = n
    BY <1>2, <1>3, <2>1
  <2>3. mx = m
    BY <1>1, <1>2, <2>1, <2>2, Equal
  <2>4. d = c
    BY <1>1, <1>3 DEF Update
  <2>. QED BY <1>1, <2>3, <2>4 DEF SamePads
<1>4. CASE l # 0
  <2>1. PICK w, left, first, whole, at :
          w = Whole(n) /\ left = n % BlockSize /\ first = First(n, l) /\ whole = Upto(n, l)
          /\ at = RestAt(n, l)
    OBVIOUS
  <2>2. PICK chunk, fill, head, middle, tail :
          /\ chunk = FullBlock(c, n, x) /\ fill = Filled(c, n, x)
          /\ head = SubSeq(x, 0 + 1, first) /\ middle = SubSeq(x, first + 1, whole)
          /\ tail = SubSeq(x, whole + 1, l)
    OBVIOUS
  <2>3. /\ n = w + left /\ w \in Nat /\ left \in Nat /\ left < BlockSize
        /\ first \in Nat /\ whole \in Nat /\ first <= whole /\ whole <= l
        /\ first = 0 /\ left > 0 =>
             /\ whole = 0 /\ Whole(n + l) = w /\ (n + l) % BlockSize = left + l
             /\ left + l < BlockSize
        /\ first > 0 \/ left = 0 =>
             /\ Whole(n + l) = n + whole /\ (n + l) % BlockSize = l - whole
             /\ l - whole < BlockSize
        /\ first > 0 => left + first = BlockSize
    <3>1. n = w + left /\ w \in Nat /\ left \in 0 .. (BlockSize - 1)
      BY <1>2, <2>1, WholeBlocks
    <3>2. /\ first \in Nat /\ whole \in Nat /\ first <= whole /\ whole <= l
          /\ first = 0 /\ left > 0 =>
               /\ whole = 0 /\ Whole(n + l) = w /\ (n + l) % BlockSize = left + l
               /\ left + l < BlockSize
          /\ first > 0 \/ left = 0 =>
               /\ Whole(n + l) = n + whole /\ (n + l) % BlockSize = l - whole
               /\ l - whole < BlockSize
          /\ first > 0 => left + first = BlockSize
      BY <1>2, <2>1, Cut
    <3>. QED BY <3>1, <3>2, Sizes
  <2>4. /\ IsContext(d) /\ SamePads(c, d) /\ d.total = Total(n + l)
        /\ d.processed = p \o fill \o middle
        /\ d.buffer = Overwrite(chunk, at, tail)
    <3>1. Len(x) \in 1 .. (WordMod - 1)
      BY <1>1, <1>2, <1>4, Sizes
    <3>2. IsUpdate(c, n, x, d)
      BY <1>1, <3>1, UpdateIs
    <3>. QED BY <1>1, <2>1, <2>2, <3>2 DEF IsUpdate
  <2>5. /\ IsSeq(mx) /\ Len(mx) = n + l
        /\ Agree(mx, 0, m, 0, n) /\ Agree(mx, n, x, 0, l)
    BY <1>1, <1>2, Concat
  <2>6. /\ IsSeq(head) /\ Len(head) = first /\ Agree(head, 0, x, 0, first)
        /\ IsSeq(middle) /\ Len(middle) = whole - first
        /\ Agree(middle, 0, x, first, whole - first)
        /\ IsSeq(tail) /\ Len(tail) = l - whole /\ Agree(tail, 0, x, whole, l - whole)
    <3>1. /\ IsSeq(x) /\ l \in Nat /\ l = Len(x) /\ first \in Nat /\ whole \in Nat
          /\ 0 <= first /\ first <= whole /\ whole <= l /\ first <= l
      BY <1>1, <1>2, <2>3
    <3>2. head = SubSeq(x, 0 + 1, first)
      BY <2>2
    <3>3. IsSeq(head) /\ Len(head) = first - 0 /\ Agree(head, 0, x, 0, first - 0)
      BY <3>1, <3>2, Part
    <3>4. middle = SubSeq(x, first + 1, whole)
      BY <2>2
    <3>5. /\ IsSeq(middle) /\ Len(middle) = whole - first
          /\ Agree(middle, 0, x, first, whole - first)
      BY <3>1, <3>4, Part
    <3>6. tail = SubSeq(x, whole + 1, l)
      BY <2>2
    <3>7. IsSeq(tail) /\ Len(tail) = l - whole /\ Agree(tail, 0, x, whole, l - whole)
      BY <3>1, <3>6, Part
    <3>8. first - 0 = first
      BY <3>1
    <3>. QED BY <3>3, <3>5, <3>7, <3>8
  <2>7. /\ Len(p) = w /\ Agree(p, 0, m, 0, w) /\ Agree(c.buffer, 0, m, w, left)
    BY <1>1, <2>1 DEF Rep
  <2>8. /\ IsSeq(chunk) /\ Len(chunk) = BlockSize
        /\ Agree(chunk, 0, c.buffer, 0, left) /\ Agree(chunk, left, head, 0, first)
    <3>1. left + Len(head) <= BlockSize
      BY <2>3, <2>6, Sizes
    <3>2. chunk = Overwrite(c.buffer, left, head)
      BY <1>1, <2>1, <2>2 DEF FullBlock
    <3>. QED BY <2>3, <2>6, <3>1, <3>2, Overwritten
  <2>9. IsSeq(fill) /\ (IF first > 0 THEN fill = chunk ELSE fill = <<>>)
    BY <1>1, <2>1, <2>2, <2>8, Empty DEF Filled
  <2>10. PICK r, f : r = d.processed /\ f = p \o fill /\ r = f \o middle
    BY <2>4
  <2>11. /\ IsSeq(f) /\ Len(f) = w + Len(fill) /\ Agree(f, 0, p, 0, w)
         /\ Agree(f, w, fill, 0, Len(fill))
    BY <1>2, <2>7, <2>9, <2>10, Concat
  <2>12. /\ IsSeq(r) /\ Len(r) = Len(f) + Len(middle) /\ Agree(r, 0, f, 0, Len(f))
         /\ Agree(r, Len(f), middle, 0, Len(middle))
    BY <2>6, <2>10, <2>11, Concat
  <2>13. IsSeq(r) /\ Len(r) = Whole(n + l) /\ Agree(r, 0, mx, 0, Whole(n + l))
    <3>1. CASE first = 0 /\ left > 0
      <4>1. Len(fill) = 0 /\ Len(middle) = 0
        BY <2>3, <2>6, <2>9, <3>1, Empty
      <4>2. Len(f) = w /\ Len(r) = w
        BY <2>3, <2>11, <2>12, <4>1
      <4>3. Agree(r, 0, m, 0, w)
        BY <2>3, <2>7, <2>11, <2>12, <4>2, AgreeTrans
      <4>4. Agree(m, 0, mx, 0, w)
        BY <1>2, <2>3, <2>5, AgreeSym, AgreePart
      <4>. QED BY <2>3, <2>12, <3>1, <4>2, <4>3, <4>4, AgreeTrans
    <3>2. CASE first > 0 \/ left = 0
      <4>1. Len(fill) = left + first /\ Len(f) = w + left + first
        <5>1. CASE first > 0
          BY <2>3, <2>8, <2>9, <2>11, <5>1
        <5>2. CASE first = 0 /\ left = 0
          BY <2>3, <2>9, <2>11, <5>2, Empty
        <5>. QED BY <2>3, <3>2, <5>1, <5>2
      <4>2. Agree(fill, 0, c.buffer, 0, left) /\ Agree(fill, left, head, 0, first)
        <5>1. CASE first > 0
          BY <2>8, <2>9, <5>1
        <5>2. CASE first = 0 /\ left = 0
          BY <5>2 DEF Agree
        <5>. QED BY <2>3, <3>2, <5>1, <5>2
      <4>3. Agree(r, 0, p, 0, w) /\ Agree(r, w, fill, 0, left + first)
        <5>1. Agree(r, 0, f, 0, w) /\ Agree(r, w, f, w, left + first)
          BY <2>3, <2>12, <4>1, AgreePart
        <5>2. Agree(f, w, fill, 0, left + first)
          BY <2>11, <4>1
        <5>. QED BY <2>3, <2>11, <5>1, <5>2, AgreeTrans
      <4>4. Agree(r, w + left + first, middle, 0, whole - first)
        BY <2>6, <2>12, <4>1
      <4>5. Agree(r, 0, m, 0, w + left) /\ Agree(r, w + left, x, 0, whole)
        <5>1. w \in Nat /\ left \in Nat /\ first \in Nat /\ whole \in Nat /\ first <= whole
          BY <2>3
        <5>2. /\ Agree(p, 0, m, 0, w) /\ Agree(c.buffer, 0, m, w, left)
              /\ Agree(head, 0, x, 0, first) /\ Agree(middle, 0, x, first, whole - first)
          BY <2>6, <2>7
        <5>. QED BY <4>2, <4>3, <4>4, <5>1, <5>2, Regrouped, Zenon
      <4>6. Len(r) = n + whole
        BY <2>3, <2>6, <2>12, <4>1
      <4>7. Agree(m, 0, mx, 0, n) /\ Agree(x, 0, mx, n, whole)
        BY <1>2, <2>3, <2>5, AgreeSym, AgreePart
      <4>8. Agree(r, 0, mx, 0, n) /\ Agree(r, 0 + n, mx, 0 + n, whole)
        <5>1. Agree(r, 0, m, 0, n) /\ Agree(r, n, x, 0, whole)
          BY <2>3, <4>5
        <5>2. Agree(r, 0, mx, 0, n) /\ Agree(r, n, mx, n, whole)
          BY <1>2, <2>3, <4>7, <5>1, AgreeTrans
        <5>. QED BY <1>2, <5>2
      <4>9. Agree(r, 0, mx, 0, n + whole)
        <5>1. n \in Nat /\ whole \in Nat /\ 0 \in Int
          BY <1>2, <2>3
        <5>. QED BY <4>8, <5>1, AgreeJoin, Zenon
      <4>. QED BY <2>3, <2>12, <3>2, <4>6, <4>9
    <3>. QED BY <2>3, <3>1, <3>2
  <2>14. Agree(d.buffer, 0, mx, Whole(n + l), (n + l) % BlockSize)
    <3>1. PICK b : b = d.buffer
      OBVIOUS
    <3>2. at = (IF first > 0 THEN 0 ELSE left)
      BY <2>1 DEF RestAt
    <3>3. at \in Nat /\ at + Len(tail) <= BlockSize
      BY <1>2, <2>3, <2>6, <3>2, Sizes
    <3>4. Agree(b, 0, chunk, 0, at) /\ Agree(b, at, tail, 0, l - whole)
      BY <2>4, <2>6, <3>1, <3>3, Overwritten
    <3>5. Agree(m, 0, mx, 0, n) /\ Agree(x, 0, mx, n, l)
      BY <1>2, <2>5, AgreeSym
    <3>6. CASE first = 0 /\ left > 0
      <4>1. at = left /\ whole = 0 /\ n = w + left
        BY <2>3, <3>2, <3>6
      <4>2. Agree(b, 0, m, w, left)
        BY <2>3, <2>7, <2>8, <3>4, <4>1, AgreeTrans
      <4>3. Agree(m, w, mx, w, left)
        BY <1>2, <2>3, <3>5, AgreePart
      <4>4. Agree(b, 0, mx, w, left)
        BY <2>3, <4>2, <4>3, AgreeTrans
      <4>5. Agree(b, left, tail, 0, l) /\ Agree(tail, 0, x, 0, l)
        BY <1>2, <2>6, <3>4, <4>1
      <4>6. Agree(b, left, mx, n, l)
        BY <1>2, <2>3, <3>5, <4>5, AgreeTrans
      <4>7. Agree(b, 0 + left, mx, w + left, l)
        BY <2>3, <4>1, <4>6
      <4>8. Agree(b, 0, mx, w, left + l)
        BY <1>2, <2>3, <4>4, <4>7, AgreeJoin
      <4>. QED BY <2>3, <3>1, <3>6, <4>8
    <3>7. CASE first > 0 \/ left = 0
      <4>1. at = 0
        BY <2>3, <3>2, <3>7
      <4>2. Agree(b, 0, tail, 0, l - whole)
        BY <3>4, <4>1
      <4>3. Agree(b, 0, x, whole, l - whole)
        BY <1>2, <2>3, <2>6, <4>2, AgreeTrans
      <4>4. Agree(x, whole, mx, n + whole, l - whole)
        BY <1>2, <2>3, <3>5, AgreePart
      <4>5. Agree(b, 0, mx, n + whole, l - whole)
        BY <1>2, <2>3, <4>3, <4>4, AgreeTrans
      <4>. QED BY <2>3, <3>1, <3>7, <4>5
    <3>. QED BY <2>3, <3>6, <3>7
  <2>. QED BY <1>1, <2>4, <2>5, <2>10, <2>13, <2>14 DEF Rep
<1>. QED BY <1>2, <1>3, <1>4

-----------------------------------------------------------------------------
(***************************************************************************)
(* The end of a message: what sha2_finish() appends is the padding that    *)
(* the standard asks for.                                                  *)
(***************************************************************************)
LEMMA Padded1 ==
  ASSUME NEW n \in Nat, NEW padn, padn = Padn(n % BlockSize)
  PROVE  /\ padn \in 1 .. BlockSize
         /\ (n + padn + LengthSize) % BlockSize = 0
         /\ Whole(n + padn + LengthSize) = n + padn + LengthSize
<1>1. PICK left \in 0 .. (BlockSize - 1) : left = n % BlockSize /\ n = Whole(n) + left
  BY WholeBlocks
<1>2. PICK q \in Int : Whole(n) = q * BlockSize /\ q * BlockSize \in Int
  <2>1. PICK q \in Int : Whole(n) = q * BlockSize
    BY WholeBlocks
  <2>2. q * BlockSize \in Int
    BY Sizes
  <2>. QED BY <2>1, <2>2
<1>3. padn \in 1 .. BlockSize
      /\ (left + padn + LengthSize = BlockSize \/ left + padn + LengthSize = 2 * BlockSize)
  BY <1>1, Sizes DEF Padn
<1>4. PICK p \in Int : n + padn + LengthSize = p * BlockSize + 0
  <2>1. (q + 1) * BlockSize = q * BlockSize + BlockSize
        /\ (q + 2) * BlockSize = q * BlockSize + 2 * BlockSize
    BY Sizes
  <2>2. n + padn + LengthSize = (q + 1) * BlockSize
        \/ n + padn + LengthSize = (q + 2) * BlockSize
    BY <1>1, <1>2, <1>3, <2>1, Sizes
  <2>3. (q + 1) * BlockSize \in Int /\ (q + 2) * BlockSize \in Int
    BY <1>2, <2>1, Sizes
  <2>. QED BY <2>2, <2>3
<1>5. n + padn + LengthSize \in Nat /\ 0 \in 0 .. (BlockSize - 1)
  BY <1>3, Sizes
<1>6. (n + padn + LengthSize) % BlockSize = 0
      /\ Whole(n + padn + LengthSize) = p * BlockSize
  BY <1>4, <1>5, BlocksAndRest
<1>. QED BY <1>3, <1>5, <1>6 DEF Whole

LEMMA OnlyZeros ==
  ASSUME NEW n \in Nat, NEW j \in 0 .. (BlockSize - 1), NEW k \in 0 .. (BlockSize - 1),
         (n + 1 + j + LengthSize) % BlockSize = 0,
         (n + 1 + k + LengthSize) % BlockSize = 0
  PROVE  j = k
<1>1. PICK x \in Int, y \in Int : x = n + 1 + j + LengthSize /\ y = n + 1 + k + LengthSize
  BY Sizes
<1>2. PICK a \in Int, b \in Int : x = a * BlockSize /\ y = b * BlockSize
  <2>1. x % BlockSize = x - (x \div BlockSize) * BlockSize /\ x \div BlockSize \in Int
    BY Division, Sizes
  <2>2. y % BlockSize = y - (y \div BlockSize) * BlockSize /\ y \div BlockSize \in Int
    BY Division, Sizes
  <2>3. (x \div BlockSize) * BlockSize \in Int /\ (y \div BlockSize) * BlockSize \in Int
    BY <2>1, <2>2, Sizes
  <2>4. x % BlockSize = 0 /\ y % BlockSize = 0
    BY <1>1
  <2>. QED BY <2>1, <2>2, <2>3, <2>4
<1>3. PICK d \in Int : d * BlockSize = x - y
  <2>1. (a - b) * BlockSize = x - y
    BY <1>2, Sizes
  <2>. QED BY <2>1
<1>4. d >= 1 => d * BlockSize >= BlockSize
  BY Sizes
<1>5. d <= -1 => d * BlockSize <= -BlockSize
  BY Sizes
<1>6. x - y = j - k /\ x - y < BlockSize /\ x - y > -BlockSize
  BY <1>1, Sizes
<1>7. d = 0
  BY <1>3, <1>4, <1>5, <1>6, Sizes
<1>8. x - y = 0
  BY <1>3, <1>7, Sizes
<1>. QED BY <1>6, <1>8, Sizes

LEMMA PaddingIs ==
  ASSUME NEW n \in Nat, n > 0
  PROVE  /\ IsSeq(Padding(n)) /\ Len(Padding(n)) = n
         /\ Padding(n) = <<Marker>> \o [i \in 1 .. (n - 1) |-> Zero]
<1>. DEFINE z == [i \in 1 .. (n - 1) |-> Zero]
            p == Padding(n)
<1>1. IsSeq(p) /\ Len(p) = n
  <2>1. p = [i \in 1 .. n |-> p[i]]
    BY DEF Padding
  <2>. HIDE DEF p
  <2>. QED BY <2>1, Function
<1>2. IsSeq(z) /\ Len(z) = n - 1
  <2>1. z = [i \in 1 .. (n - 1) |-> z[i]] /\ n - 1 \in Nat
    OBVIOUS
  <2>. HIDE DEF z
  <2>. QED BY <2>1, Function
<1>3. IsSeq(<<Marker>>) /\ Len(<<Marker>>) = 1 /\ <<Marker>>[1] = Marker
  <2>1. <<Marker>> \in Seq({Marker}) /\ Len(<<Marker>>) = 1 /\ <<Marker>>[1] = Marker
    OBVIOUS
  <2>. QED BY <2>1, FromSeq
<1>4. PICK mark, q : mark = <<Marker>> /\ q = mark \o z
  OBVIOUS
<1>5. /\ IsSeq(q) /\ Len(q) = 1 + (n - 1) /\ Agree(q, 0, mark, 0, 1)
      /\ Agree(q, 1, z, 0, n - 1)
  <2>. HIDE DEF z
  <2>. QED BY <1>2, <1>3, <1>4, Concat
<1>6. Agree(p, 0, q, 0, n)
  <2>1. Agree(p, 0, mark, 0, 1)
    BY <1>3, <1>4 DEF Padding, Agree
  <2>2. Agree(p, 1, z, 0, n - 1)
    BY DEF Padding, Agree
  <2>. HIDE DEF z, p
  <2>3. Agree(p, 0, q, 0, 1)
    BY <1>5, <2>1, AgreeSym, AgreeTrans
  <2>4. Agree(p, 0 + 1, q, 0 + 1, n - 1)
    BY <1>5, <2>2, AgreeSym, AgreeTrans
  <2>5. Agree(p, 0, q, 0, 1 + (n - 1))
    BY <2>3, <2>4, AgreeJoin
  <2>. QED BY <2>5
<1>7. p = q
  <2>. HIDE DEF p
  <2>. QED BY <1>1, <1>5, <1>6, Equal
<1>. QED BY <1>1, <1>4, <1>7

LEMMA WordBytes ==
  ASSUME NEW word \in 0 .. (WordMod - 1)
  PROVE  IsSeq(Put(word)) /\ Len(Put(word)) = Len(Put(0))
<1>1. Len(Put(0)) \in Nat /\ Put(word) = [i \in 1 .. Len(Put(0)) |-> Put(word)[i]]
  BY PutAssumption
<1>. QED BY <1>1, Function

LEMMA FinishIs ==
  ASSUME NEW c, NEW m, Rep(c, m), NEW f, f = Finish(c)
  PROVE  IsContext(f) /\ SamePads(c, f) /\ f.processed = Contract!Padded(m)
<1>1. PICK n \in Nat : n = Len(m) /\ IsSeq(m)
  BY DEF Rep, IsSeq
<1>2. PICK padn : padn = Padn(n % BlockSize) /\ padn \in 1 .. BlockSize
                  /\ (n + padn + LengthSize) % BlockSize = 0
                  /\ Whole(n + padn + LengthSize) = n + padn + LengthSize
  BY Padded1
<1>3. PICK pad, z : /\ pad = Padding(padn) /\ IsSeq(pad) /\ Len(pad) = padn
                    /\ z = [i \in 1 .. (padn - 1) |-> Zero] /\ pad = <<Marker>> \o z
  <2>1. padn \in Nat /\ padn > 0
    BY <1>2, Sizes
  <2>2. /\ IsSeq(Padding(padn)) /\ Len(Padding(padn)) = padn
        /\ Padding(padn) = <<Marker>> \o [i \in 1 .. (padn - 1) |-> Zero]
    BY <2>1, PaddingIs
  <2>. QED BY <2>2
<1>4. PICK high, low : /\ high = Put(((8 * n) \div WordMod) % WordMod)
                       /\ low = Put((8 * n) % WordMod)
                       /\ MessageLength(c.total) = high \o low
                       /\ IsSeq(high) /\ Len(high) = Len(Put(0))
                       /\ IsSeq(low) /\ Len(low) = Len(Put(0))
  <2>1. c.total = Total(n)
    BY <1>1 DEF Rep
  <2>. QED BY <2>1, LengthInBits, WordBytes
<1>5. IsSeq(high \o low) /\ Len(high \o low) = LengthSize
  BY <1>4, Concat DEF LengthSize
<1>6. PICK d : d = Update(c, pad) /\ f = Update(d, high \o low)
  <2>1. c.total[1] % BlockSize = n % BlockSize
    BY <1>1, Counted DEF Rep
  <2>. QED BY <1>2, <1>3, <1>4, <2>1 DEF Finish
<1>7. Rep(d, m \o pad) /\ SamePads(c, d)
  <2>1. Len(pad) < WordMod
    BY <1>2, <1>3, Sizes
  <2>. QED BY <1>3, <1>6, <2>1, UpdateRep
<1>8. Rep(f, (m \o pad) \o (high \o low)) /\ SamePads(d, f)
  <2>1. Len(high \o low) < WordMod
    BY <1>5, Sizes
  <2>. QED BY <1>5, <1>6, <1>7, <2>1, UpdateRep
<1>9. PICK r : r = (m \o pad) \o (high \o low) /\ IsSeq(r)
               /\ Len(r) = n + padn + LengthSize
  <2>1. IsSeq(m \o pad) /\ Len(m \o pad) = n + padn
    BY <1>1, <1>3, Concat
  <2>. QED BY <1>5, <2>1, Concat
<1>10. f.processed = r
  BY <1>2, <1>8, <1>9, Equal DEF Rep
<1>11. Contract!Padded(m) = r
  <2>1. padn - 1 \in 0 .. (BlockSize - 1)
        /\ (n + 1 + (padn - 1) + LengthSize) % BlockSize = 0
    <3>1. n + 1 + (padn - 1) + LengthSize = n + padn + LengthSize
      BY <1>2, Sizes
    <3>. QED BY <1>2, <3>1, Sizes
  <2>2. (CHOOSE k \in 0 .. (BlockSize - 1) : (n + 1 + k + LengthSize) % BlockSize = 0)
          = padn - 1
    BY <2>1, OnlyZeros
  <2>3. Contract!Padded(m) = m \o <<Marker>> \o z \o high \o low
    BY <1>1, <1>3, <1>4, <2>2 DEF Contract!Padded, LengthSize
  <2>4. IsSeq(<<Marker>>) /\ IsSeq(z)
    <3>1. <<Marker>> \in Seq({Marker})
      OBVIOUS
    <3>2. padn - 1 \in Nat /\ z = [i \in 1 .. (padn - 1) |-> z[i]]
      BY <1>3, <2>1
    <3>. QED BY <3>1, <3>2, FromSeq, Function
  <2>5. (m \o <<Marker>>) \o z = m \o pad
    <3>1. PICK mark : mark = <<Marker>> /\ IsSeq(mark)
      BY <2>4
    <3>2. (m \o mark) \o z = m \o (mark \o z)
      BY <1>1, <2>4, <3>1, Associative
    <3>. QED BY <1>3, <3>1, <3>2
  <2>6. IsSeq(m \o pad)
    BY <1>1, <1>3, Concat
  <2>7. ((m \o pad) \o high) \o low = r
    <3>1. IsSeq(high) /\ IsSeq(low)
      BY <1>4
    <3>2. PICK x : x = m \o pad /\ IsSeq(x)
      BY <2>6
    <3>3. (x \o high) \o low = x \o (high \o low)
      BY <3>1, <3>2, Associative
    <3>. QED BY <1>9, <3>2, <3>3, Zenon
  <2>. QED BY <2>3, <2>5, <2>7
<1>. QED BY <1>7, <1>8, <1>10, <1>11 DEF Rep, SamePads

-----------------------------------------------------------------------------
(***************************************************************************)
(* Digests, keys and HMACs.                                                *)
(***************************************************************************)
LEMMA Begun ==
  ASSUME NEW c, IsContext(c), NEW is, NEW d, d = Starts(c, is)
  PROVE  Rep(d, <<>>) /\ d.is224 = is /\ d.ipad = c.ipad /\ d.opad = c.opad
<1>1. /\ IsContext(d) /\ d.is224 = is /\ d.ipad = c.ipad /\ d.opad = c.opad
      /\ d.total = <<0, 0>> /\ d.processed = <<>>
  BY DEF IsContext, Starts
<1>2. Total(0) = <<0, 0>> /\ Whole(0) = 0 /\ 0 % BlockSize = 0
  <2>1. /\ 0 % WordMod = 0 /\ 0 \div WordMod = 0
        /\ 0 % BlockSize = 0
    <3>1. (0 + 0 * WordMod) % WordMod = 0 /\ (0 + 0 * WordMod) \div WordMod = 0
      BY Quotient, Sizes
    <3>2. (0 + 0 * BlockSize) % BlockSize = 0
      BY Quotient, Sizes
    <3>. QED BY <3>1, <3>2, Sizes
  <2>. QED BY <2>1 DEF Total, Whole
<1>. QED BY <1>1, <1>2, Empty DEF Rep, Agree

LEMMA OutputIs ==
  ASSUME NEW c, NEW m, NEW is, c.processed = Contract!Padded(m), c.is224 = is,
         is \in BOOLEAN
  PROVE  /\ Output(c) = Contract!Hash(is, m)
         /\ IsSeq(Output(c)) /\ Len(Output(c)) <= BlockSize
<1>1. Output(c) = Contract!Hash(is, m)
  BY DEF Output, Contract!Hash
<1>2. DigestSize(is) \in Nat /\ DigestSize(is) <= BlockSize
  BY DigestSizeAssumption, Sizes
<1>3. PICK o : o = Output(c) /\ o = [i \in 1 .. DigestSize(is) |-> o[i]]
  BY DEF Output
<1>. QED BY <1>1, <1>2, <1>3, Function

LEMMA WithNothing ==
  ASSUME NEW m, IsSeq(m)
  PROVE  <<>> \o m = m /\ m \o <<>> = m
<1>1. PICK A : m \in Seq(A)
  BY Together
<1>. QED BY <1>1, ConcatEmptySeq

LEMMA HashIs ==
  ASSUME NEW m, IsSeq(m), Len(m) < WordMod, NEW is \in BOOLEAN
  PROVE  sha2(m, is) = Contract!Hash(is, m)
         /\ IsSeq(sha2(m, is)) /\ Len(sha2(m, is)) <= BlockSize
<1>1. IsContext(NoContext)
  BY DEF IsContext, NoContext
<1>2. PICK c, d, f : c = Starts(NoContext, is) /\ d = Update(c, m) /\ f = Finish(d)
  OBVIOUS
<1>3. Rep(c, <<>>) /\ c.is224 = is
  BY <1>1, <1>2, Begun
<1>4. Rep(d, <<>> \o m) /\ SamePads(c, d)
  BY <1>2, <1>3, UpdateRep
<1>5. Rep(d, m)
  BY <1>4, WithNothing
<1>6. SamePads(d, f) /\ f.processed = Contract!Padded(m)
  BY <1>2, <1>5, FinishIs
<1>7. f.is224 = is
  BY <1>3, <1>4, <1>6 DEF SamePads
<1>8. sha2(m, is) = Output(f)
  BY <1>2 DEF sha2
<1>. QED BY <1>6, <1>7, <1>8, OutputIs

(* A key of the client.                                                    *)
IsKey(k) == IsSeq(k) /\ Len(k) < WordMod

LEMMA KeyPadded ==
  ASSUME NEW k, IsKey(k), NEW is \in BOOLEAN, NEW p, NEW pad \in {IPad, OPad},
         p = Contract!PaddedKey(is, k, pad)
  PROVE  IsSeq(p) /\ Len(p) = BlockSize
<1>1. p = [i \in 1 .. BlockSize |-> p[i]]
  BY DEF Contract!PaddedKey
<1>. QED BY <1>1, Function, Sizes

LEMMA HmacResetIs ==
  ASSUME NEW c, IsContext(c), IsSeq(c.ipad), Len(c.ipad) = BlockSize,
         NEW d, d = HmacReset(c)
  PROVE  Rep(d, c.ipad) /\ SamePads(c, d)
<1>1. PICK e : e = Starts(c, c.is224)
  OBVIOUS
<1>2. Rep(e, <<>>) /\ SamePads(c, e)
  BY <1>1, Begun DEF SamePads
<1>3. d = Update(e, c.ipad)
  BY <1>1 DEF HmacReset
<1>4. Rep(d, <<>> \o c.ipad) /\ SamePads(e, d)
  BY <1>2, <1>3, UpdateRep, Sizes
<1>5. <<>> \o c.ipad = c.ipad
  BY WithNothing
<1>. QED BY <1>2, <1>4, <1>5 DEF SamePads

LEMMA HmacStartsIs ==
  ASSUME NEW c, IsContext(c), NEW k, IsKey(k), NEW is \in BOOLEAN,
         NEW d, d = HmacStarts(c, k, is)
  PROVE  /\ Rep(d, Contract!PaddedKey(is, k, IPad)) /\ d.is224 = is
         /\ d.ipad = Contract!PaddedKey(is, k, IPad)
         /\ d.opad = Contract!PaddedKey(is, k, OPad)
<1>1. PICK s : /\ s = (IF Len(k) > BlockSize THEN sha2(k, is) ELSE k)
               /\ s = (IF Len(k) > BlockSize THEN Contract!Hash(is, k) ELSE k)
  BY HashIs DEF IsKey
<1>. DEFINE Pad(b) == [i \in 1 .. BlockSize |-> IF i <= Len(s) THEN Xor(b, s[i]) ELSE b]
<1>2. PICK p, q, e :
        /\ p = Pad(IPad) /\ q = Pad(OPad)
        /\ e = [c EXCEPT !.ipad = p, !.opad = q, !.is224 = is]
  OBVIOUS
<1>3. d = HmacReset(e)
  BY <1>1, <1>2 DEF HmacStarts
<1>4. p = Contract!PaddedKey(is, k, IPad) /\ q = Contract!PaddedKey(is, k, OPad)
  <2>1. ASSUME NEW b \in {IPad, OPad}
        PROVE  Contract!PaddedKey(is, k, b) = Pad(b)
    <3>1. Contract!PaddedKey(is, k, b)
            = [i \in 1 .. BlockSize |-> Xor(b, IF i <= Len(s) THEN s[i] ELSE Zero)]
      BY <1>1 DEF Contract!PaddedKey
    <3>2. Xor(b, Zero) = b
      BY XorAssumption
    <3>. QED BY <3>1, <3>2
  <2>. QED BY <1>2, <2>1
<1>5. IsContext(e) /\ e.ipad = p /\ e.opad = q /\ e.is224 = is
  BY <1>2 DEF IsContext
<1>6. IsSeq(p) /\ Len(p) = BlockSize
  BY <1>4, KeyPadded
<1>7. Rep(d, p) /\ SamePads(e, d)
  BY <1>3, <1>5, <1>6, HmacResetIs
<1>. QED BY <1>4, <1>5, <1>7 DEF SamePads

LEMMA HmacFinishIs ==
  ASSUME NEW c, NEW m, NEW k, IsKey(k), NEW is \in BOOLEAN,
         NEW i, i = Contract!PaddedKey(is, k, IPad), Rep(c, i \o m),
         NEW o, o = Contract!PaddedKey(is, k, OPad), c.opad = o, c.is224 = is,
         NEW d, d = HmacFinish(c)
  PROVE  /\ IsContext(d) /\ SamePads(c, d)
         /\ Output(d) = Contract!Hmac(is, k, m)
<1>1. PICK inner, begun, outer, all :
        /\ inner = Finish(c) /\ begun = Starts(inner, c.is224)
        /\ outer = Update(begun, c.opad) /\ all = Update(outer, Output(inner))
        /\ d = Finish(all)
  BY DEF HmacFinish
<1>2. IsContext(inner) /\ SamePads(c, inner) /\ inner.processed = Contract!Padded(i \o m)
  BY <1>1, FinishIs
<1>3. /\ Output(inner) = Contract!Hash(is, i \o m)
      /\ IsSeq(Output(inner)) /\ Len(Output(inner)) <= BlockSize
  BY <1>2, OutputIs DEF SamePads
<1>4. Rep(begun, <<>>) /\ SamePads(c, begun)
  BY <1>1, <1>2, Begun DEF SamePads
<1>5. IsSeq(o) /\ Len(o) = BlockSize
  BY KeyPadded
<1>6. Rep(outer, o) /\ SamePads(begun, outer)
  <2>1. Rep(outer, <<>> \o o) /\ SamePads(begun, outer)
    BY <1>1, <1>4, <1>5, UpdateRep, Sizes
  <2>. QED BY <1>5, <2>1, WithNothing
<1>7. Rep(all, o \o Output(inner)) /\ SamePads(outer, all)
  BY <1>1, <1>3, <1>6, UpdateRep, Sizes
<1>8. IsContext(d) /\ SamePads(all, d) /\ d.processed = Contract!Padded(o \o Output(inner))
  BY <1>1, <1>7, FinishIs
<1>9. SamePads(c, d)
  BY <1>4, <1>6, <1>7, <1>8 DEF SamePads
<1>10. Output(d) = Contract!Hash(is, o \o Output(inner))
  BY <1>8, <1>9, OutputIs DEF SamePads
<1>. QED BY <1>3, <1>8, <1>9, <1>10 DEF Contract!Hmac

-----------------------------------------------------------------------------
(***************************************************************************)
(* The invariant: the context stands for what the client has given.        *)
(***************************************************************************)
PlainInv ==
  mode \in {"hash", "file"} => Rep(ctx, msg) /\ ctx.is224 = is224

HmacInv ==
  /\ mode \in {"hmac", "hmac_done"} =>
       /\ IsKey(key) /\ ctx.is224 = is224
       /\ ctx.ipad = Contract!PaddedKey(is224, key, IPad)
       /\ ctx.opad = Contract!PaddedKey(is224, key, OPad)
  /\ mode = "hmac" => Rep(ctx, Contract!PaddedKey(is224, key, IPad) \o msg)

FileInv ==
  mode = "file" =>
    /\ file = [size |-> file.size, error |-> file.error]
    /\ file.size \in Nat /\ file.error \in BOOLEAN
    /\ Len(msg) <= file.size /\ ret = "none"

MessageInv ==
  /\ mode \in {"none", "hash", "file", "hmac", "hmac_done"} /\ is224 \in BOOLEAN
  /\ IsContext(ctx)
  /\ Len(msg) \in Nat /\ msg = [i \in 1 .. Len(msg) |-> Message(i)]

Inv == MessageInv /\ PlainInv /\ HmacInv /\ FileInv

LEMMA NothingSaid ==
  ASSUME NEW f, f = [i \in 1 .. 0 |-> Message(i)]
  PROVE  f = <<>>
<1>1. IsSeq(f) /\ Len(f) = 0
  BY Function
<1>2. Agree(f, 0, <<>>, 0, 0)
  BY DEF Agree
<1>. QED BY <1>1, <1>2, Empty, Equal

LEMMA InitInv == Init => Inv
<1>. SUFFICES ASSUME Init PROVE Inv
  OBVIOUS
<1>1. IsContext(ctx)
  BY DEF Init, IsContext, NoContext
<1>2. Len(msg) = 0 /\ msg = [i \in 1 .. Len(msg) |-> Message(i)]
  BY Empty, NothingSaid DEF Init
<1>. QED BY <1>1, <1>2 DEF Init, Inv, MessageInv, PlainInv, HmacInv, FileInv

LEMMA Given ==
  ASSUME MessageInv, NEW n \in 0 .. (WordMod - 1), Give(n),
         NEW m, IsSeq(m), Rep(ctx, m \o msg)
  PROVE  /\ MessageInv' /\ Len(msg') = Len(msg) + n
         /\ SubSeq(msg', 1, Len(msg)) = msg
         /\ Rep(ctx', m \o msg') /\ SamePads(ctx, ctx')
<1>1. PICK x, s, r : x = Following(n) /\ s = msg /\ r = msg' /\ r = s \o x
                     /\ ctx' = Update(ctx, x)
  BY DEF Give
<1>2. x = [i \in 1 .. n |-> x[i]] /\ n \in Nat
  BY <1>1, Sizes DEF Following
<1>3. IsSeq(x) /\ Len(x) = n
  BY <1>2, Function
<1>4. IsSeq(s)
  BY <1>1 DEF MessageInv, IsSeq
<1>5. /\ IsSeq(r) /\ Len(r) = Len(s) + n /\ Agree(r, 0, s, 0, Len(s))
      /\ Agree(r, Len(s), x, 0, n)
  BY <1>1, <1>3, <1>4, Concat
<1>6. Len(s) \in Nat /\ Len(r) \in Nat
  BY <1>4, <1>5 DEF IsSeq
<1>7. r = [i \in 1 .. Len(r) |-> Message(i)]
  <2>1. ASSUME NEW i \in 1 .. Len(r) PROVE r[i] = Message(i)
    <3>1. CASE i <= Len(s)
      <4>1. r[0 + i] = s[0 + i] /\ 0 + i = i
        BY <1>5, <1>6, <3>1 DEF Agree
      <4>2. s[i] = Message(i)
        BY <1>1, <3>1 DEF MessageInv
      <4>. QED BY <4>1, <4>2
    <3>2. CASE i > Len(s)
      <4>1. PICK j \in Int : j = i - Len(s) /\ j \in 1 .. n /\ Len(s) + j = i /\ 0 + j = j
        BY <1>2, <1>5, <1>6, <3>2
      <4>2. r[Len(s) + j] = x[0 + j]
        BY <1>5, <4>1 DEF Agree
      <4>3. x[j] = Message(Len(s) + j)
        BY <1>1, <4>1 DEF Following
      <4>. QED BY <4>1, <4>2, <4>3
    <3>. QED BY <1>6, <3>1, <3>2
  <2>. QED BY <1>5, <2>1 DEF IsSeq
<1>8. SubSeq(r, 1, Len(s)) = s
  <2>1. PICK p : p = SubSeq(r, 0 + 1, Len(s))
    OBVIOUS
  <2>2. IsSeq(p) /\ Len(p) = Len(s) - 0 /\ Agree(p, 0, r, 0, Len(s) - 0)
    BY <1>2, <1>5, <1>6, <2>1, Part
  <2>3. Agree(p, 0, s, 0, Len(s)) /\ Len(p) = Len(s)
    BY <1>5, <1>6, <2>2, AgreeTrans
  <2>4. p = s
    BY <1>4, <2>2, <2>3, Equal
  <2>. QED BY <2>1, <2>4
<1>9. Rep(ctx', m \o r) /\ SamePads(ctx, ctx')
  <2>1. Len(x) < WordMod
    BY <1>3, Sizes
  <2>2. Rep(Update(ctx, x), (m \o s) \o x) /\ SamePads(ctx, Update(ctx, x))
    BY <1>1, <1>3, <2>1, UpdateRep
  <2>3. (m \o s) \o x = m \o r
    <3>1. IsSeq(m) /\ IsSeq(s) /\ IsSeq(x) /\ r = s \o x
      BY <1>1, <1>3, <1>4
    <3>2. (m \o s) \o x = m \o (s \o x)
      BY <3>1, Associative
    <3>. QED BY <3>1, <3>2
  <2>. QED BY <1>1, <2>2, <2>3
<1>10. MessageInv'
  BY <1>1, <1>6, <1>7, <1>9 DEF MessageInv, Rep, Give
<1>. QED BY <1>1, <1>5, <1>8, <1>9, <1>10

LEMMA StartStep ==
  ASSUME Inv, Start
  PROVE  Inv' /\ Contract!Begin
<1>1. PICK d : d = ctx' /\ d = Starts(ctx, is224')
  BY DEF Start
<1>2. Rep(d, <<>>) /\ d.is224 = is224'
  BY <1>1, Begun DEF Inv, MessageInv
<1>3. Inv'
  BY <1>1, <1>2, Empty
  DEF Inv, MessageInv, PlainInv, HmacInv, FileInv, Start, Begin, Rep, IsSeq
<1>. QED BY <1>3 DEF Start, Begin, Contract!Begin

LEMMA StartHmacStep ==
  ASSUME Inv, StartHmac
  PROVE  Inv' /\ Contract!Begin
<1>1. PICK d, k, is : /\ d = ctx' /\ k = key' /\ is = is224' /\ is \in BOOLEAN
                      /\ k \in Keys /\ d = HmacStarts(ctx, k, is)
  BY Zenon DEF StartHmac, Begin
<1>2. IsKey(k)
  BY <1>1, KeysAssumption, Sizes DEF IsKey, IsSeq
<1>3. /\ Rep(d, Contract!PaddedKey(is, k, IPad)) /\ d.is224 = is
      /\ d.ipad = Contract!PaddedKey(is, k, IPad)
      /\ d.opad = Contract!PaddedKey(is, k, OPad)
  BY <1>1, <1>2, HmacStartsIs DEF Inv, MessageInv
<1>4. Contract!PaddedKey(is, k, IPad) \o <<>> = Contract!PaddedKey(is, k, IPad)
  BY <1>3, WithNothing DEF Rep
<1>5. Inv'
  BY <1>1, <1>2, <1>3, <1>4, Empty
  DEF Inv, MessageInv, PlainInv, HmacInv, FileInv, StartHmac, Begin, Rep, IsSeq
<1>. QED BY <1>5 DEF StartHmac, Begin, Contract!Begin

LEMMA EndStep ==
  ASSUME Inv, End
  PROVE  Inv' /\ Contract!End
<1>1. PICK d : d = ctx' /\ d = Finish(ctx)
  BY DEF End
<1>2. IsContext(d) /\ SamePads(ctx, d) /\ d.processed = Contract!Padded(msg)
  BY <1>1, FinishIs DEF Inv, PlainInv, End
<1>3. output' = Contract!Hash(is224, msg)
  BY <1>1, <1>2, OutputIs DEF Inv, MessageInv, PlainInv, End, SamePads
<1>4. Inv'
  BY <1>1, <1>2 DEF Inv, MessageInv, PlainInv, HmacInv, FileInv, End, fileVars
<1>. QED BY <1>3, <1>4 DEF End, Contract!End

LEMMA EndHmacStep ==
  ASSUME Inv, EndHmac
  PROVE  Inv' /\ Contract!End
<1>1. PICK d : d = ctx' /\ d = HmacFinish(ctx)
  BY DEF EndHmac
<1>2. /\ IsContext(d) /\ SamePads(ctx, d)
      /\ Output(d) = Contract!Hmac(is224, key, msg)
  BY <1>1, HmacFinishIs DEF Inv, HmacInv, MessageInv, EndHmac
<1>3. Inv'
  BY <1>1, <1>2
  DEF Inv, MessageInv, PlainInv, HmacInv, FileInv, EndHmac, fileVars, SamePads
<1>. QED BY <1>1, <1>2, <1>3 DEF EndHmac, Contract!End

LEMMA ResetStep ==
  ASSUME Inv, ResetHmac
  PROVE  Inv' /\ Contract!Reset
<1>1. PICK d : d = ctx' /\ d = HmacReset(ctx)
  BY DEF ResetHmac
<1>2. PICK p : p = ctx.ipad /\ p = Contract!PaddedKey(is224, key, IPad)
  BY DEF Inv, HmacInv, ResetHmac
<1>3. IsSeq(p) /\ Len(p) = BlockSize
  BY <1>2, KeyPadded DEF Inv, MessageInv, HmacInv, ResetHmac
<1>4. Rep(d, p) /\ SamePads(ctx, d)
  BY <1>1, <1>2, <1>3, HmacResetIs DEF Inv, MessageInv
<1>5. p \o <<>> = p
  BY <1>3, WithNothing
<1>6. Inv'
  BY <1>1, <1>2, <1>4, <1>5, Empty, NothingSaid
  DEF Inv, MessageInv, PlainInv, HmacInv, FileInv, ResetHmac, Rep, SamePads, fileVars
<1>. QED BY <1>6 DEF ResetHmac, Contract!Reset

LEMMA GiveStep ==
  ASSUME Inv, NEW n \in 0 .. (WordMod - 1), Give(n), mode \in {"hash", "hmac", "file"}
  PROVE  /\ MessageInv' /\ PlainInv' /\ HmacInv' /\ Len(msg') = Len(msg) + n
         /\ Contract!Give \/ UNCHANGED <<mode, is224, key, msg, output>>
<1>1. UNCHANGED <<mode, is224, key, output>>
  BY DEF Give
<1>2. MessageInv /\ IsSeq(msg) /\ Len(msg) \in Nat
  BY DEF Inv, MessageInv, IsSeq
<1>. DEFINE Goal == /\ MessageInv' /\ PlainInv' /\ HmacInv'
                    /\ Len(msg') = Len(msg) + n /\ SubSeq(msg', 1, Len(msg)) = msg
<1>3. ASSUME mode \in {"hash", "file"} PROVE Goal
  <2>1. Rep(ctx, <<>> \o msg)
    BY <1>2, <1>3, WithNothing DEF Inv, PlainInv
  <2>2. /\ MessageInv' /\ Len(msg') = Len(msg) + n /\ SubSeq(msg', 1, Len(msg)) = msg
        /\ Rep(ctx', <<>> \o msg') /\ SamePads(ctx, ctx')
    BY <1>2, <2>1, Empty, Given
  <2>3. IsSeq(msg')
    BY <2>2 DEF MessageInv, IsSeq
  <2>4. Rep(ctx', msg')
    BY <2>2, <2>3, WithNothing
  <2>5. PlainInv' /\ HmacInv'
    BY <1>1, <1>3, <2>2, <2>4 DEF Inv, PlainInv, HmacInv, SamePads
  <2>. QED BY <2>2, <2>5
<1>4. ASSUME mode = "hmac" PROVE Goal
  <2>1. PICK p : p = Contract!PaddedKey(is224, key, IPad) /\ Rep(ctx, p \o msg)
    BY <1>4 DEF Inv, HmacInv
  <2>2. IsSeq(p)
    BY <1>4, <2>1, KeyPadded DEF Inv, MessageInv, HmacInv
  <2>3. /\ MessageInv' /\ Len(msg') = Len(msg) + n /\ SubSeq(msg', 1, Len(msg)) = msg
        /\ Rep(ctx', p \o msg') /\ SamePads(ctx, ctx')
    BY <1>2, <2>1, <2>2, Given
  <2>4. PlainInv' /\ HmacInv'
    BY <1>1, <1>4, <2>1, <2>3 DEF Inv, PlainInv, HmacInv, SamePads
  <2>. QED BY <2>3, <2>4
<1>5. Goal
  BY <1>3, <1>4
<1>6. Contract!Give \/ UNCHANGED <<mode, is224, key, msg, output>>
  <2>1. CASE n = 0
    <3>1. Len(msg') = Len(msg)
      BY <1>2, <1>5, <2>1
    <3>2. msg' = msg
      BY <1>2, <1>5, <3>1 DEF MessageInv
    <3>. QED BY <1>1, <3>2
  <2>2. CASE n > 0
    <3>1. Len(msg') > Len(msg)
      BY <1>2, <1>5, <2>2
    <3>2. mode \in {"hash", "file", "hmac"}
      OBVIOUS
    <3>. QED BY <1>1, <1>5, <3>1, <3>2 DEF Contract!Give
  <2>. QED BY <2>1, <2>2, Sizes
<1>. QED BY <1>5, <1>6

LEMMA GiveChunkStep ==
  ASSUME Inv, GiveChunk
  PROVE  Inv' /\ (Contract!Give \/ UNCHANGED <<mode, is224, key, msg, output>>)
<1>1. PICK n \in 0 .. (WordMod - 1) : Give(n)
  BY ChunkSizesAssumption DEF GiveChunk
<1>2. /\ MessageInv' /\ PlainInv' /\ HmacInv'
      /\ Contract!Give \/ UNCHANGED <<mode, is224, key, msg, output>>
  BY <1>1, GiveStep DEF GiveChunk
<1>3. FileInv'
  BY <1>1 DEF GiveChunk, Give, FileInv
<1>. QED BY <1>2, <1>3 DEF Inv

LEMMA ReadFileStep ==
  ASSUME Inv, ReadFile
  PROVE  /\ Inv' /\ (Contract!Give \/ UNCHANGED <<mode, is224, key, msg, output>>)
         /\ ret' # "ok"
<1>1. PICK left, full, n :
        /\ left = file.size - Len(msg) /\ full = (IF left < ReadSize THEN left ELSE ReadSize)
        /\ n \in 1 .. full
        /\ Give(n) /\ file' = [file EXCEPT !.error = @ \/ n < full]
  BY DEF ReadFile
<1>2. /\ Len(msg) \in Nat /\ file.size \in Nat /\ file.error \in BOOLEAN
      /\ file = [size |-> file.size, error |-> file.error] /\ ret = "none" /\ ret' = ret
  BY DEF Inv, MessageInv, FileInv, ReadFile
<1>3. n \in 0 .. (WordMod - 1) /\ n <= file.size - Len(msg)
  BY <1>1, <1>2, ReadSizeAssumption, Sizes
<1>4. /\ MessageInv' /\ PlainInv' /\ HmacInv' /\ Len(msg') = Len(msg) + n
      /\ Contract!Give \/ UNCHANGED <<mode, is224, key, msg, output>>
  BY <1>1, <1>3, GiveStep DEF ReadFile
<1>5. FileInv'
  <2>1. /\ file'.size = file.size /\ file'.error \in BOOLEAN
        /\ file' = [size |-> file'.size, error |-> file'.error]
    BY <1>1, <1>2
  <2>2. Len(msg') <= file.size
    BY <1>2, <1>3, <1>4
  <2>. QED BY <1>2, <2>1, <2>2 DEF FileInv
<1>. QED BY <1>2, <1>4, <1>5 DEF Inv

LEMMA OpenFileStep ==
  ASSUME Inv, OpenFile
  PROVE  Inv' /\ Contract!Begin
<1>1. PICK d : d = ctx' /\ d = Starts(NoContext, is224')
  BY DEF OpenFile
<1>2. IsContext(NoContext)
  BY DEF IsContext, NoContext
<1>3. Rep(d, <<>>) /\ d.is224 = is224'
  BY <1>1, <1>2, Begun
<1>4. /\ MessageInv' /\ PlainInv' /\ HmacInv'
  BY <1>1, <1>3, Empty, NothingSaid
  DEF MessageInv, PlainInv, HmacInv, OpenFile, Begin, Rep
<1>5. FileInv'
  <2>1. PICK f : f = file' /\ f \in [size : 0 .. MaxLen, error : {FALSE}]
    BY DEF OpenFile
  <2>2. /\ f = [size |-> f.size, error |-> f.error] /\ f.size \in Nat
        /\ f.error \in BOOLEAN /\ 0 <= f.size
    <3>1. f.size \in 0 .. MaxLen /\ f.error = FALSE
      BY <2>1
    <3>2. f = [size |-> f.size, error |-> f.error]
      BY <2>1, Zenon
    <3>3. f.size \in Nat /\ 0 <= f.size
      BY <3>1, MaxLenAssumption
    <3>4. f.error \in BOOLEAN
      BY <3>1, Zenon
    <3>. QED BY <3>2, <3>3, <3>4, Zenon
  <2>3. Len(msg') = 0 /\ ret' = "none"
    BY Empty DEF OpenFile, Begin
  <2>. QED BY <2>1, <2>2, <2>3 DEF FileInv
<1>. QED BY <1>4, <1>5 DEF Inv, OpenFile, Begin, Contract!Begin

LEMMA CloseFileStep ==
  ASSUME Inv, CloseFile
  PROVE  /\ Inv' /\ Contract!End
         /\ ret' = "ok" =>
              ~file.error
              /\ output' = Contract!Hash(is224, [i \in 1 .. file.size |-> Message(i)])
<1>1. PICK d : d = Finish(ctx) /\ output' = Output(d)
  BY DEF CloseFile
<1>2. SamePads(ctx, d) /\ d.processed = Contract!Padded(msg)
  BY <1>1, FinishIs DEF Inv, PlainInv, CloseFile
<1>3. output' = Contract!Hash(is224, msg)
  BY <1>1, <1>2, OutputIs DEF Inv, MessageInv, PlainInv, CloseFile, SamePads
<1>4. Inv'
  <2>1. IsContext(NoContext)
    BY DEF IsContext, NoContext
  <2>. QED BY <2>1 DEF Inv, MessageInv, PlainInv, HmacInv, FileInv, CloseFile
<1>5. ASSUME ret' = "ok"
      PROVE  ~file.error /\ msg = [i \in 1 .. file.size |-> Message(i)]
  <2>1. ~(file.error \/ Len(msg) < file.size)
    BY <1>5 DEF CloseFile, FileResult
  <2>2. Len(msg) = file.size
    BY <2>1 DEF Inv, MessageInv, FileInv, CloseFile
  <2>3. msg = [i \in 1 .. Len(msg) |-> Message(i)]
    BY DEF Inv, MessageInv
  <2>. QED BY <2>1, <2>2, <2>3
<1>. QED BY <1>3, <1>4, <1>5 DEF CloseFile, Contract!End

-----------------------------------------------------------------------------
(***************************************************************************)
(* Theorems.                                                               *)
(***************************************************************************)
LEMMA Step ==
  ASSUME Inv, [Next]_vars
  PROVE  /\ Inv' /\ [Contract!Next]_Contract!vars
         /\ mode = "file" /\ ret' = "ok" =>
              ~file.error
              /\ output' = Contract!Hash(is224, [i \in 1 .. file.size |-> Message(i)])
<1>. DEFINE WholeFile == mode = "file" /\ ret' = "ok" =>
              ~file.error
              /\ output' = Contract!Hash(is224, [i \in 1 .. file.size |-> Message(i)])
<1>1. CASE Start \/ StartHmac \/ OpenFile
  <2>1. Inv' /\ Contract!Begin
    BY <1>1, StartStep, StartHmacStep, OpenFileStep
  <2>2. mode # "file"
    BY <1>1 DEF Start, StartHmac, OpenFile, Begin
  <2>. QED BY <2>1, <2>2 DEF Contract!Next
<1>2. CASE GiveChunk
  <2>1. Inv' /\ (Contract!Give \/ UNCHANGED <<mode, is224, key, msg, output>>)
    BY <1>2, GiveChunkStep
  <2>2. mode # "file"
    BY <1>2 DEF GiveChunk
  <2>. QED BY <2>1, <2>2 DEF Contract!Next, Contract!vars
<1>3. CASE ReadFile
  <2>1. /\ Inv' /\ (Contract!Give \/ UNCHANGED <<mode, is224, key, msg, output>>)
        /\ ret' # "ok"
    BY <1>3, ReadFileStep
  <2>. QED BY <2>1 DEF Contract!Next, Contract!vars
<1>4. CASE End \/ EndHmac
  <2>1. Inv' /\ Contract!End
    BY <1>4, EndStep, EndHmacStep
  <2>2. mode # "file"
    BY <1>4 DEF End, EndHmac
  <2>. QED BY <2>1, <2>2 DEF Contract!Next
<1>5. CASE ResetHmac
  <2>1. Inv' /\ Contract!Reset
    BY <1>5, ResetStep
  <2>2. mode # "file"
    BY <1>5 DEF ResetHmac
  <2>. QED BY <2>1, <2>2 DEF Contract!Next
<1>6. CASE CloseFile
  <2>1. Inv' /\ Contract!End /\ WholeFile
    BY <1>6, CloseFileStep
  <2>. QED BY <2>1 DEF Contract!Next
<1>7. CASE OpenFileFails
  <2>1. mode # "file" /\ UNCHANGED <<mode, is224, key, msg, output>>
    BY <1>7 DEF OpenFileFails
  <2>2. Inv'
    BY <1>7, <2>1 DEF OpenFileFails, Inv, MessageInv, PlainInv, HmacInv, FileInv
  <2>. QED BY <2>1, <2>2 DEF Contract!vars
<1>8. CASE UNCHANGED vars
  <2>1. Inv' /\ UNCHANGED <<mode, is224, key, msg, output>> /\ ret' = ret
    BY <1>8 DEF vars, Inv, MessageInv, PlainInv, HmacInv, FileInv
  <2>2. mode = "file" => ret = "none"
    BY DEF Inv, FileInv
  <2>. QED BY <2>1, <2>2 DEF Contract!vars
<1>. QED BY <1>1, <1>2, <1>3, <1>4, <1>5, <1>6, <1>7, <1>8 DEF Next

LEMMA StreamInv == Spec => []Inv
<1>1. ASSUME Inv, [Next]_vars PROVE Inv'
  BY <1>1, Step
<1>. QED BY <1>1, InitInv, PTL DEF Spec

(* What sha2.c computes is the digest (FIPS 180-2), or the HMAC            *)
(* (FIPS 198), of all the bytes given since the context was started or     *)
(* reset: for every size of a block and of a word, every message, every    *)
(* key, every way to cut the message into calls, and whatever the context  *)
(* was used for before.                                                    *)
THEOREM StreamImplements == Spec => ImplementsContract
<1>1. Init => Contract!Init
  BY DEF Init, Contract!Init
<1>2. ASSUME Inv, [Next]_vars PROVE [Contract!Next]_Contract!vars
  BY <1>2, Step
<1>. QED BY <1>1, <1>2, StreamInv, PTL DEF Spec, ImplementsContract, Contract!Spec

(* sha2_file() returns 0 only with the digest of the whole file, whatever  *)
(* its size and wherever fread() stumbles (sha2.c:325-358).                *)
THEOREM FileCompleteCorrect == Spec => FileComplete
<1>1. ASSUME Inv, [Next]_vars
      PROVE  [mode = "file" /\ ret' = "ok" =>
                ~file.error
                /\ output' = Contract!Hash(is224, [i \in 1 .. file.size |-> Message(i)])]_vars
  BY <1>1, Step
<1>. QED BY <1>1, StreamInv, PTL DEF Spec, FileComplete

=============================================================================
