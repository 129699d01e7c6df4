------------------------- MODULE StatisticsProofs --------------------------
(***************************************************************************)
(* Theorems about module Statistics.                                       *)
(***************************************************************************)
EXTENDS Statistics, FiniteSetTheorems, SequenceTheorems, TLAPS

(***************************************************************************)
(* Induction, as a fact about sets of numbers.                             *)
(***************************************************************************)
LEMMA LeastElement ==
  ASSUME NEW T, T \subseteq Nat, T # {}
  PROVE  \E n \in T : \A m \in T : n <= m
<1>. DEFINE R == {ss \in Nat \X Nat : ss[1] < ss[2]}
<1>1. IsWellFoundedOn(R, Nat)
  BY NatLessThanWellFounded DEF OpToRel
<1>2. PICK n \in T : \A m \in T : ~(<<m, n>> \in R)
  <2>. HIDE DEF R
  <2>. QED BY <1>1, WFMin, Zenon
<1>3. ASSUME NEW m \in T PROVE n <= m
  <2>1. ~(m < n)
    BY <1>2
  <2>. QED BY <2>1
<1>. QED BY <1>3

LEMMA Inductive ==
  ASSUME NEW n \in Nat, NEW T, 0 \in T, \A k \in 0 .. (n - 1) : k \in T => k + 1 \in T
  PROVE  n \in T
<1>. DEFINE U == {k \in 0 .. n : k \notin T}
<1>. SUFFICES ASSUME U # {} PROVE FALSE
  OBVIOUS
<1>1. PICK k \in U : \A l \in U : k <= l
  <2>1. U \subseteq Nat
    OBVIOUS
  <2>. HIDE DEF U
  <2>. QED BY <2>1, LeastElement
<1>2. k - 1 \in 0 .. (n - 1) /\ k - 1 \in T
  BY <1>1
<1>. QED BY <1>1, <1>2

-----------------------------------------------------------------------------
(***************************************************************************)
(* Sums.                                                                   *)
(***************************************************************************)
Sums(f, n, s) == s[0] = 0 /\ \A k \in 1 .. n : s[k] = s[k - 1] + f[k]

LEMMA SumsExist ==
  ASSUME NEW f, NEW n \in Nat
  PROVE  \E s : s = [k \in 0 .. n |-> IF k = 0 THEN 0 ELSE s[k - 1] + f[k]]
<1>. DEFINE T == {k \in 0 .. n : \E s : Sums(f, k, s)}
<1>1. 0 \in T
  <2>1. Sums(f, 0, [k \in 0 .. 0 |-> 0])
    BY DEF Sums
  <2>. QED BY <2>1
<1>2. ASSUME NEW k \in 0 .. (n - 1), k \in T PROVE k + 1 \in T
  <2>1. PICK s : Sums(f, k, s)
    BY <1>2
  <2>. DEFINE t == [l \in 0 .. (k + 1) |-> IF l <= k THEN s[l] ELSE s[k] + f[k + 1]]
  <2>2. t[0] = 0
    BY <2>1 DEF Sums
  <2>3. ASSUME NEW l \in 1 .. (k + 1) PROVE t[l] = t[l - 1] + f[l]
    <3>1. CASE l = k + 1
      BY <3>1
    <3>2. CASE l \in 1 .. k
      BY <2>1, <3>2 DEF Sums
    <3>. QED BY <3>1, <3>2
  <2>4. Sums(f, k + 1, t)
    BY <2>2, <2>3 DEF Sums
  <2>. QED BY <2>4
<1>3. n \in T
  <2>. HIDE DEF T
  <2>. QED BY <1>1, <1>2, Inductive
<1>4. PICK s : Sums(f, n, s)
  BY <1>3
<1>. DEFINE t == [k \in 0 .. n |-> s[k]]
<1>5. t = [k \in 0 .. n |-> IF k = 0 THEN 0 ELSE t[k - 1] + f[k]]
  BY <1>4 DEF Sums
<1>. QED BY <1>5

LEMMA SumToIs ==
  ASSUME NEW f, NEW n \in Nat
  PROVE  \E s : Sums(f, n, s) /\ SumTo(f, n) = s[n]
<1>. DEFINE Rec(s) == s = [k \in 0 .. n |-> IF k = 0 THEN 0 ELSE s[k - 1] + f[k]]
            g == CHOOSE s : Rec(s)
<1>1. Rec(g)
  BY SumsExist
<1>2. SumTo(f, n) = g[n]
  BY DEF SumTo
<1>. HIDE DEF g
<1>3. Sums(f, n, g)
  BY <1>1 DEF Sums
<1>. QED BY <1>2, <1>3

LEMMA SumToZero ==
  ASSUME NEW f
  PROVE  SumTo(f, 0) = 0
BY SumToIs DEF Sums

LEMMA SumToNext ==
  ASSUME NEW f, NEW n \in Nat
  PROVE  SumTo(f, n + 1) = SumTo(f, n) + f[n + 1]
<1>1. PICK s : Sums(f, n, s) /\ SumTo(f, n) = s[n]
  BY SumToIs
<1>2. PICK t : Sums(f, n + 1, t) /\ SumTo(f, n + 1) = t[n + 1]
  BY SumToIs
<1>. DEFINE T == {k \in 0 .. n : t[k] = s[k]}
<1>3. n \in T
  <2>1. 0 \in T
    BY <1>1, <1>2 DEF Sums
  <2>2. ASSUME NEW k \in 0 .. (n - 1), k \in T PROVE k + 1 \in T
    BY <1>1, <1>2, <2>2 DEF Sums
  <2>. HIDE DEF T
  <2>. QED BY <2>1, <2>2, Inductive
<1>. QED BY <1>1, <1>2, <1>3 DEF Sums

LEMMA SumToInt ==
  ASSUME NEW f, NEW n \in Nat, \A k \in 1 .. n : f[k] \in Int
  PROVE  SumTo(f, n) \in Int
<1>. DEFINE T == {k \in 0 .. n : SumTo(f, k) \in Int}
<1>1. 0 \in T
  BY SumToZero
<1>2. ASSUME NEW k \in 0 .. (n - 1), k \in T PROVE k + 1 \in T
  BY <1>2, SumToNext
<1>. HIDE DEF T
<1>3. n \in T
  BY <1>1, <1>2, Inductive
<1>. QED BY <1>3 DEF T

LEMMA SumToSame ==
  ASSUME NEW f, NEW g, NEW n \in Nat, \A k \in 1 .. n : f[k] = g[k]
  PROVE  SumTo(f, n) = SumTo(g, n)
<1>. DEFINE T == {k \in 0 .. n : SumTo(f, k) = SumTo(g, k)}
<1>1. 0 \in T
  BY SumToZero
<1>2. ASSUME NEW k \in 0 .. (n - 1), k \in T PROVE k + 1 \in T
  BY <1>2, SumToNext
<1>. HIDE DEF T
<1>3. n \in T
  BY <1>1, <1>2, Inductive
<1>. QED BY <1>3 DEF T

LEMMA SumToPlus ==
  ASSUME NEW f, NEW g, NEW h, NEW n \in Nat,
         \A k \in 1 .. n : f[k] \in Int /\ g[k] \in Int /\ h[k] = f[k] + g[k]
  PROVE  SumTo(h, n) = SumTo(f, n) + SumTo(g, n)
<1>. DEFINE T == {k \in 0 .. n : /\ SumTo(f, k) \in Int /\ SumTo(g, k) \in Int
                                 /\ SumTo(h, k) = SumTo(f, k) + SumTo(g, k)}
<1>1. 0 \in T
  BY SumToZero
<1>2. ASSUME NEW k \in 0 .. (n - 1), k \in T PROVE k + 1 \in T
  BY <1>2, SumToNext
<1>. HIDE DEF T
<1>3. n \in T
  BY <1>1, <1>2, Inductive
<1>. QED BY <1>3 DEF T

-----------------------------------------------------------------------------
(***************************************************************************)
(* The totals of a key over the passes.                                    *)
(***************************************************************************)
Zero == [total |-> 0, count |-> 0]

DataSums(key, n, s) ==
  s[0] = Zero /\ \A p \in 1 .. n : s[p] = Add(s[p - 1], Get(data[p], key))

LEMMA DataSumsExist ==
  ASSUME NEW key, NEW n \in Nat
  PROVE  \E s : s = [p \in 0 .. n |-> IF p = 0 THEN Zero
                                      ELSE Add(s[p - 1], Get(data[p], key))]
<1>. DEFINE T == {k \in 0 .. n : \E s : DataSums(key, k, s)}
<1>1. 0 \in T
  <2>1. DataSums(key, 0, [k \in 0 .. 0 |-> Zero])
    BY DEF DataSums
  <2>. QED BY <2>1
<1>2. ASSUME NEW k \in 0 .. (n - 1), k \in T PROVE k + 1 \in T
  <2>1. PICK s : DataSums(key, k, s)
    BY <1>2
  <2>. DEFINE t == [l \in 0 .. (k + 1) |-> IF l <= k THEN s[l]
                                           ELSE Add(s[k], Get(data[k + 1], key))]
  <2>2. t[0] = Zero
    BY <2>1 DEF DataSums
  <2>3. ASSUME NEW l \in 1 .. (k + 1) PROVE t[l] = Add(t[l - 1], Get(data[l], key))
    <3>1. CASE l = k + 1
      BY <3>1
    <3>2. CASE l \in 1 .. k
      BY <2>1, <3>2 DEF DataSums
    <3>. QED BY <3>1, <3>2
  <2>. HIDE DEF t
  <2>4. DataSums(key, k + 1, t)
    BY <2>2, <2>3 DEF DataSums
  <2>. QED BY <2>4
<1>3. n \in T
  <2>. HIDE DEF T
  <2>. QED BY <1>1, <1>2, Inductive
<1>4. PICK s : DataSums(key, n, s)
  BY <1>3
<1>. DEFINE t == [p \in 0 .. n |-> s[p]]
<1>5. t = [p \in 0 .. n |-> IF p = 0 THEN Zero ELSE Add(t[p - 1], Get(data[p], key))]
  BY <1>4 DEF DataSums
<1>. QED BY <1>5

LEMMA SumOfIs ==
  ASSUME NEW key, Len(data) \in Nat
  PROVE  \E s : DataSums(key, Len(data), s) /\ SumOf(key) = s[Len(data)]
<1>. DEFINE n == Len(data)
            Rec(s) == s = [p \in 0 .. n |-> IF p = 0 THEN [total |-> 0, count |-> 0]
                                            ELSE Add(s[p - 1], Get(data[p], key))]
            g == CHOOSE s : Rec(s)
<1>1. Rec(g)
  BY DataSumsExist DEF Zero
<1>2. SumOf(key) = g[n]
  BY DEF SumOf
<1>. HIDE DEF g
<1>3. DataSums(key, n, g)
  BY <1>1 DEF DataSums, Zero
<1>. QED BY <1>2, <1>3

(* The passes up to n among a set of passes.                               *)
LEMMA OnePassMore ==
  ASSUME NEW n \in Nat, NEW passes \in SUBSET Nat
  PROVE  /\ Cardinality(passes \cap (1 .. n)) \in Nat
         /\ Cardinality(passes \cap (1 .. (n + 1)))
              = Cardinality(passes \cap (1 .. n)) + (IF n + 1 \in passes THEN 1 ELSE 0)
<1>. DEFINE U == passes \cap (1 .. n)
            V == passes \cap (1 .. (n + 1))
<1>1. IsFiniteSet(1 .. n)
  <2>1. 1 \in Int /\ n \in Int
    OBVIOUS
  <2>. QED BY <2>1, FS_Interval, Zenon
<1>2. IsFiniteSet(U) /\ Cardinality(U) \in Nat
  <2>1. U \in SUBSET (1 .. n)
    OBVIOUS
  <2>. HIDE DEF U
  <2>. QED BY <1>1, <2>1, FS_Subset, FS_CardinalityType
<1>3. CASE n + 1 \in passes
  <2>1. V = U \cup {n + 1} /\ n + 1 \notin U
    BY <1>3
  <2>. HIDE DEF U, V
  <2>. QED BY <1>2, <1>3, <2>1, FS_AddElement DEF U, V
<1>4. CASE n + 1 \notin passes
  <2>1. V = U
    BY <1>4
  <2>. QED BY <1>2, <1>4, <2>1
<1>. QED BY <1>3, <1>4

(* If just these passes have a number for a key.                           *)
HasValues(key, passes, values) ==
  /\ passes \in SUBSET (1 .. Len(data))
  /\ \A p \in passes : values[p] \in Int /\ Get(data[p], key) = values[p]
  /\ \A p \in (1 .. Len(data)) \ passes : Get(data[p], key) \in {None, Text}

Counts(passes, values) == [p \in 1 .. Len(data) |-> IF p \in passes THEN values[p] ELSE 0]

LEMMA Totals ==
  ASSUME NEW key, NEW passes, NEW values, Len(data) \in Nat, HasValues(key, passes, values)
  PROVE  SumOf(key) = [total |-> SumTo(Counts(passes, values), Len(data)),
                       count |-> Cardinality(passes)]
<1>1. PICK s : DataSums(key, Len(data), s) /\ SumOf(key) = s[Len(data)]
  BY SumOfIs
<1>2. PICK n, f : n = Len(data) /\ n \in Nat /\ f = Counts(passes, values)
  OBVIOUS
<1>3. passes \in SUBSET (1 .. n) /\ passes \in SUBSET Nat
  BY <1>2 DEF HasValues
<1>4. \A p \in 1 .. n : f[p] = IF p \in passes THEN values[p] ELSE 0
  BY <1>2 DEF Counts
<1>5. \A p \in 1 .. n : f[p] \in Int
  BY <1>2, <1>4 DEF HasValues
<1>. DEFINE C(k) == Cardinality(passes \cap (1 .. k))
            T == {k \in 0 .. n : s[k] = [total |-> SumTo(f, k), count |-> C(k)]}
<1>6. 0 \in T
  <2>1. passes \cap (1 .. 0) = {}
    OBVIOUS
  <2>2. C(0) = 0
    BY <2>1, FS_EmptySet
  <2>3. s[0] = [total |-> 0, count |-> 0]
    BY <1>1 DEF DataSums, Zero
  <2>. HIDE DEF C
  <2>. QED BY <1>2, <2>2, <2>3, SumToZero
<1>7. ASSUME NEW k \in 0 .. (n - 1), k \in T PROVE k + 1 \in T
  <2>0. k + 1 \in 1 .. n /\ k + 1 \in 0 .. n
    BY <1>2
  <2>1. SumTo(f, k) \in Int /\ SumTo(f, k + 1) = SumTo(f, k) + f[k + 1]
    BY <1>2, <1>5, SumToInt, SumToNext
  <2>2. C(k) \in Nat /\ C(k + 1) = C(k) + (IF k + 1 \in passes THEN 1 ELSE 0)
    BY <1>3, OnePassMore
  <2>3. s[k] = [total |-> SumTo(f, k), count |-> C(k)]
    BY <1>7
  <2>. HIDE DEF C
  <2>4. s[k + 1] = Add(s[k], Get(data[k + 1], key))
    BY <1>1, <1>2, <1>7 DEF DataSums
  <2>5. s[k].total = SumTo(f, k) /\ s[k].count = C(k)
    BY <2>3
  <2>6. CASE k + 1 \in passes
    <3>1. Get(data[k + 1], key) = values[k + 1] /\ values[k + 1] \in Int
      BY <2>6 DEF HasValues
    <3>2. IsNumber(Get(data[k + 1], key))
      BY <3>1, NoneAssumption, TextAssumption DEF IsNumber
    <3>3. s[k + 1] = [total |-> s[k].total + values[k + 1], count |-> s[k].count + 1]
      BY <2>4, <3>1, <3>2 DEF Add
    <3>4. f[k + 1] = values[k + 1]
      BY <1>4, <2>0, <2>6
    <3>5. s[k].total + values[k + 1] = SumTo(f, k + 1) /\ s[k].count + 1 = C(k + 1)
      BY <2>1, <2>2, <2>5, <2>6, <3>4
    <3>. QED BY <2>0, <3>3, <3>5, Zenon
  <2>7. CASE k + 1 \notin passes
    <3>1. Get(data[k + 1], key) \in {None, Text}
      BY <1>2, <2>7 DEF HasValues
    <3>2. s[k + 1] = s[k]
      BY <2>4, <3>1 DEF Add, IsNumber
    <3>3. f[k + 1] = 0
      BY <1>4, <2>0, <2>7
    <3>4. SumTo(f, k + 1) = SumTo(f, k) /\ C(k + 1) = C(k)
      BY <2>1, <2>2, <2>7, <3>3
    <3>. QED BY <2>0, <2>3, <3>2, <3>4, Zenon
  <2>. QED BY <2>6, <2>7
<1>8. n \in T
  <2>. HIDE DEF T
  <2>. QED BY <1>2, <1>6, <1>7, Inductive
<1>9. passes \cap (1 .. n) = passes
  BY <1>3
<1>. QED BY <1>1, <1>2, <1>8, <1>9

LEMMA AverageOfValues ==
  ASSUME NEW key, NEW passes, NEW values, Len(data) \in Nat, Len(log) = Len(data),
         DOMAIN data = 1 .. Len(data),
         HasValues(key, passes, values), average = Averages
  PROVE  /\ AverageIs(key, passes, values)
         /\ key \in DOMAIN average => passes # {}
<1>. DEFINE keys == UNION {DOMAIN data[p] : p \in DOMAIN data}
            sum == [k \in keys |-> SumOf(k)]
<1>1. PICK t : t = SumOf(key)
  OBVIOUS
<1>2. PICK total, count : /\ total = SumTo(Counts(passes, values), Len(data))
                          /\ count = Cardinality(passes)
                          /\ t = [total |-> total, count |-> count]
  BY <1>1, Totals
<1>3. average = [k \in {k \in keys : sum[k].count > 0} |-> sum[k]]
  BY DEF Averages, RestrictValues, Restrict
<1>4. key \in DOMAIN average <=> key \in keys /\ count > 0
  <2>1. t.count = count
    BY <1>2
  <2>3. key \in keys => sum[key] = t
    BY <1>1
  <2>2. DOMAIN average = {k \in keys : sum[k].count > 0}
    BY <1>3
  <2>. HIDE DEF keys, sum
  <2>. QED BY <2>1, <2>2, <2>3
<1>5. key \in DOMAIN average => average[key] = t
  BY <1>1, <1>3
<1>6. IsFiniteSet(passes) /\ count \in Nat /\ (count = 0 <=> passes = {})
  <2>1. IsFiniteSet(1 .. Len(data))
    <3>1. 1 \in Int /\ Len(data) \in Int
      OBVIOUS
    <3>. QED BY <3>1, FS_Interval, Zenon
  <2>2. passes \in SUBSET (1 .. Len(data))
    BY DEF HasValues
  <2>. QED BY <1>2, <2>1, <2>2, FS_Subset, FS_CardinalityType, FS_EmptySet
<1>7. ASSUME passes # {} PROVE key \in keys
  <2>1. PICK p \in passes : p \in 1 .. Len(data) /\ Get(data[p], key) \in Int
    BY <1>7 DEF HasValues
  <2>2. key \in DOMAIN data[p]
    BY <2>1, NoneAssumption DEF Get
  <2>. QED BY <2>1, <2>2
<1>. HIDE DEF keys, sum
<1>8. passes # {} => average[key] = t
  BY <1>4, <1>5, <1>6, <1>7
<1>9. passes = {} => key \notin DOMAIN average
  BY <1>4, <1>6
<1>10. SumTo([p \in 1 .. Len(log) |-> IF p \in passes THEN values[p] ELSE 0], Len(log)) = total
  BY <1>2 DEF Counts
<1>. QED BY <1>2, <1>8, <1>9, <1>10 DEF AverageIs

-----------------------------------------------------------------------------
(***************************************************************************)
(* What a dictionary gives for a key.                                      *)
(***************************************************************************)
LEMMA GetFlat ==
  ASSUME NEW f, NEW key
  PROVE  Get(Flatten(f), key) = IF key \in DOMAIN f THEN f[key] ELSE None
<1>1. Flatten(f) = [k \in {k \in DOMAIN f : f[k] # None} |-> f[k]]
  BY DEF Flatten, RestrictValues, Restrict
<1>2. DOMAIN Flatten(f) = {k \in DOMAIN f : f[k] # None}
  BY <1>1
<1>3. key \in DOMAIN Flatten(f) => Flatten(f)[key] = f[key]
  BY <1>1
<1>. QED BY <1>2, <1>3 DEF Get

BootKey(m) == <<"ust", m, "start_time">>
RunKey(m)  == <<"ust", m, "run_time">>
CostKey(m) == <<"ust", m, "ns_per_event">>
OverheadKey(m) == <<"ust", m, "start_overhead_s">>
KernelKey  == <<"kernel", "baseline", "run_time">>

LEMMA UstValues ==
  ASSUME NEW kind, NEW s, NEW n, NEW m \in Modes
  PROVE  LET flat == Flatten(UstResult(kind, s, n))
         IN  /\ Get(flat, BootKey(m)) = Quotient(s.boot[m], n)
             /\ Get(flat, RunKey(m)) = RunTime(kind, Quotient(s.run[m], n))
             /\ m # "baseline" =>
                  Get(flat, CostKey(m)) =
                    RunTime(kind, Quotient(s.run[m], n) - Quotient(s.run["baseline"], n))
             /\ m # "baseline" => Get(flat, OverheadKey(m)) = Quotient(s.overhead[m], n)
             /\ Get(flat, KernelKey) = None
<1>. DEFINE f == UstResult(kind, s, n)
<1>1. DOMAIN f = UstKeys
  BY DEF UstResult
<1>2. BootKey(m) \in UstKeys /\ RunKey(m) \in UstKeys /\ KernelKey \notin UstKeys
  BY DEF BootKey, RunKey, KernelKey, UstKeys
<1>3. m # "baseline" => CostKey(m) \in UstKeys /\ OverheadKey(m) \in UstKeys
  BY DEF CostKey, OverheadKey, UstKeys
<1>4. f[BootKey(m)] = Quotient(s.boot[m], n)
  BY <1>2 DEF UstResult, BootKey
<1>5. f[RunKey(m)] = RunTime(kind, Quotient(s.run[m], n))
  BY <1>2 DEF UstResult, RunKey
<1>6. m # "baseline" =>
        f[CostKey(m)] = RunTime(kind, Quotient(s.run[m], n) - Quotient(s.run["baseline"], n))
  BY <1>3 DEF UstResult, CostKey
<1>9. m # "baseline" => f[OverheadKey(m)] = Quotient(s.overhead[m], n)
  BY <1>3 DEF UstResult, OverheadKey
<1>. HIDE DEF f
<1>7. \A key : Get(Flatten(f), key) = IF key \in UstKeys THEN f[key] ELSE None
  BY <1>1, GetFlat
<1>8. /\ Get(Flatten(f), BootKey(m)) = f[BootKey(m)]
      /\ Get(Flatten(f), RunKey(m)) = f[RunKey(m)]
      /\ Get(Flatten(f), KernelKey) = None
      /\ m # "baseline" => /\ Get(Flatten(f), CostKey(m)) = f[CostKey(m)]
                           /\ Get(Flatten(f), OverheadKey(m)) = f[OverheadKey(m)]
  BY <1>2, <1>3, <1>7
<1>. QED BY <1>4, <1>5, <1>6, <1>8, <1>9 DEF f

LEMMA KernelValues ==
  ASSUME NEW base, NEW tracing_en, NEW m \in Modes
  PROVE  LET flat == Flatten(KernelResult(base, tracing_en))
         IN  /\ Get(flat, KernelKey) = Quotient(base, CpuCount)
             /\ Get(flat, BootKey(m)) = None
             /\ Get(flat, RunKey(m)) = None
             /\ Get(flat, CostKey(m)) = None
             /\ Get(flat, OverheadKey(m)) = None
<1>. DEFINE f == KernelResult(base, tracing_en)
<1>1. DOMAIN f = KernelKeys
  BY DEF KernelResult
<1>2. /\ KernelKey \in KernelKeys
      /\ BootKey(m) \notin KernelKeys /\ RunKey(m) \notin KernelKeys
      /\ CostKey(m) \notin KernelKeys /\ OverheadKey(m) \notin KernelKeys
  BY DEF BootKey, RunKey, CostKey, OverheadKey, KernelKey, KernelKeys
<1>3. f[KernelKey] = Quotient(base, CpuCount)
  BY <1>2 DEF KernelResult, KernelKey
<1>. HIDE DEF f
<1>4. \A key : Get(Flatten(f), key) = IF key \in KernelKeys THEN f[key] ELSE None
  BY <1>1, GetFlat
<1>5. /\ Get(Flatten(f), KernelKey) = f[KernelKey]
      /\ Get(Flatten(f), BootKey(m)) = None /\ Get(Flatten(f), RunKey(m)) = None
      /\ Get(Flatten(f), CostKey(m)) = None /\ Get(Flatten(f), OverheadKey(m)) = None
  BY <1>2, <1>4
<1>. QED BY <1>3, <1>5 DEF f

-----------------------------------------------------------------------------
(***************************************************************************)
(* The invariant.                                                          *)
(***************************************************************************)
Timed == {"full", "fast"}

UstLog == [kind : Timed, of : [Modes -> Outputs]]
KernelLog == [kind : {"kernel"}, of : KernelTimes \X KernelTimes]

(* The times of the first n reports.                                       *)
Times(o, field, n) == [j \in 1 .. n |-> o[j][field]]

(* The sums over the first n reports of each tool.                         *)
Counted(sum, kind, of, n) ==
  /\ n \in Nat /\ sum.overhead \in [Modes -> Int]
  /\ n <= 1 => \A m \in Modes : sum.overhead[m] = sum.boot[m] - sum.boot["baseline"]
  /\ \A m \in Modes :
       /\ n <= Len(of[m])
       /\ sum.boot[m] = SumTo(Times(of[m], "boot", n), n)
       /\ sum.run[m] = IF kind = "full" THEN SumTo(Times(of[m], "run", n), n) ELSE 0

(* What is measured in a pass is made from what is logged for it.          *)
MadeFrom(flat, entry) ==
  \/ /\ entry \in UstLog
     /\ \E sum, n : /\ n = Len(entry.of["baseline"]) /\ n \in Nat \ {0}
                    /\ Counted(sum, entry.kind, entry.of, n)
                    /\ flat = Flatten(UstResult(entry.kind, sum, n))
  \/ entry \in KernelLog /\ flat = Flatten(KernelResult(entry.of[1], entry.of[2]))

IsSeq(s) == Len(s) \in Nat /\ DOMAIN s = 1 .. Len(s) /\ s = [j \in 1 .. Len(s) |-> s[j]]

DataInv ==
  /\ IsSeq(data) /\ IsSeq(log) /\ Len(log) = Len(data)
  /\ \A p \in 1 .. Len(data) : MadeFrom(data[p], log[p])

LoopInv ==
  pc = "loop" =>
    /\ pass <= Len(Passes) /\ Kind \in Timed
    /\ outputs \in [Modes -> Outputs]
    /\ i \in Nat \ {0} /\ Counted(sums, Kind, outputs, i - 1)

Inv ==
  /\ pass \in Nat \ {0} /\ DataInv /\ LoopInv
  /\ pc = "done" => average = Averages

LEMMA Reports ==
  ASSUME NEW o \in Outputs
  PROVE  /\ Len(o) \in Nat /\ DOMAIN o = 1 .. Len(o)
         /\ \A j \in 1 .. Len(o) : o[j].boot \in Nat /\ o[j].run \in Nat
<1>1. o \in Seq([boot : Nat, run : Nat])
  BY OutputsAssumption
<1>2. Len(o) \in Nat /\ DOMAIN o = 1 .. Len(o) /\ \A j \in 1 .. Len(o) : o[j] \in [boot : Nat, run : Nat]
  BY <1>1, LenProperties
<1>. QED BY <1>2

LEMMA Appended ==
  ASSUME NEW s, NEW x, IsSeq(s)
  PROVE  /\ IsSeq(Append(s, x)) /\ Len(Append(s, x)) = Len(s) + 1
         /\ Append(s, x)[Len(s) + 1] = x
         /\ \A j \in 1 .. Len(s) : Append(s, x)[j] = s[j]
<1>. DEFINE A == {s[j] : j \in 1 .. Len(s)} \cup {x}
<1>1. s \in Seq(A) /\ x \in A
  <2>1. s \in [1 .. Len(s) -> A] /\ Len(s) \in Nat
    BY DEF IsSeq
  <2>. QED BY <2>1, SeqDef, Zenon
<1>. HIDE DEF A
<1>2. Append(s, x) \in Seq(A)
  BY <1>1, AppendProperties
<1>3. IsSeq(Append(s, x))
  BY <1>2, LenProperties DEF IsSeq
<1>. QED BY <1>1, <1>3, AppendProperties

LEMMA QuotientInt ==
  ASSUME NEW total \in Int, NEW n \in Nat \ {0}
  PROVE  Quotient(total, n) \in Int
<1>1. PICK x \in Int : x = total * Scale
  BY ScaleAssumption
<1>. QED BY <1>1 DEF Quotient

LEMMA QuotientOfOne ==
  ASSUME NEW x \in Int, NEW y \in Int
  PROVE  Quotient(x - y, 1) = Quotient(x, 1) - Quotient(y, 1)
<1>1. PICK a, b : a \in Int /\ b \in Int /\ a = x * Scale /\ b = y * Scale
  BY ScaleAssumption
<1>2. (x - y) * Scale = a - b
  <2>1. \A k \in Int : (x - y) * k = x * k - y * k
    OBVIOUS
  <2>. QED BY <1>1, <2>1, ScaleAssumption
<1>3. a \div 1 = a /\ b \div 1 = b /\ (a - b) \div 1 = a - b
  BY <1>1
<1>. QED BY <1>1, <1>2, <1>3 DEF Quotient

LEMMA SumsInt ==
  ASSUME NEW o \in Outputs, NEW n \in Nat, n <= Len(o), NEW field \in {"boot", "run"}
  PROVE  SumTo(Times(o, field, n), n) \in Int
<1>1. \A j \in 1 .. n : Times(o, field, n)[j] \in Int
  BY Reports DEF Times
<1>. QED BY <1>1, SumToInt

-----------------------------------------------------------------------------
(***************************************************************************)
(* The steps.                                                              *)
(***************************************************************************)
LEMMA InitInv ==
  ASSUME Init
  PROVE  Inv
<1>1. IsSeq(<<>>) /\ Len(<<>>) = 0
  BY DEF IsSeq
<1>. QED BY <1>1 DEF Init, Inv, DataInv, LoopInv

LEMMA RunToolsStep ==
  ASSUME Inv, RunTools
  PROVE  Inv'
<1>1. DataInv' /\ pass' \in Nat \ {0} /\ pc' # "done"
  BY DEF Inv, DataInv, RunTools, Raise
<1>2. LoopInv'
  <2>. SUFFICES ASSUME pc' = "loop"
                PROVE  LoopInv'
    BY DEF LoopInv
  <2>1. outputs' \in [Modes -> Outputs] /\ i' = 1 /\ sums' = NoSums /\ pass' = pass
        /\ pass <= Len(Passes) /\ Kind # "kernel"
    BY DEF RunTools, Raise
  <2>2. Kind' = Kind /\ Kind \in Timed
    <3>1. pass \in 1 .. Len(Passes) /\ Len(Passes) \in Nat
      BY <2>1, PassesAssumption, LenProperties DEF Inv
    <3>2. Passes[pass] \in Kinds
      BY <3>1, PassesAssumption, LenProperties
    <3>. QED BY <2>1, <3>2 DEF Kind, Kinds, Timed
  <2>3. \A m \in Modes : 0 <= Len(outputs'[m])
    BY <2>1, Reports
  <2>4. Counted(NoSums, Kind, outputs', 0)
    <3>1. NoSums.overhead \in [Modes -> Int] /\ "baseline" \in Modes
      BY DEF NoSums, Modes
    <3>2. \A m \in Modes :
            NoSums.boot[m] = 0 /\ NoSums.run[m] = 0 /\ NoSums.overhead[m] = 0
      BY DEF NoSums
    <3>. QED BY <2>3, <3>1, <3>2, SumToZero DEF Counted
  <2>5. Counted(sums', Kind', outputs', i' - 1)
    BY <2>1, <2>2, <2>4
  <2>. QED BY <2>1, <2>2, <2>5 DEF LoopInv
<1>. QED BY <1>1, <1>2 DEF Inv

(* One report more is counted.                                             *)
LEMMA SumOfTimes ==
  ASSUME NEW o, NEW field, NEW n \in Nat
  PROVE  SumTo(Times(o, field, n + 1), n + 1) = SumTo(Times(o, field, n), n) + o[n + 1][field]
<1>1. SumTo(Times(o, field, n + 1), n + 1)
        = SumTo(Times(o, field, n + 1), n) + Times(o, field, n + 1)[n + 1]
  BY SumToNext
<1>2. SumTo(Times(o, field, n + 1), n) = SumTo(Times(o, field, n), n)
  <2>1. \A j \in 1 .. n : Times(o, field, n + 1)[j] = Times(o, field, n)[j]
    BY DEF Times
  <2>. QED BY <2>1, SumToSame
<1>3. Times(o, field, n + 1)[n + 1] = o[n + 1][field]
  BY DEF Times
<1>. QED BY <1>1, <1>2, <1>3

LEMMA AccumulateStep ==
  ASSUME Inv, Accumulate
  PROVE  Inv'
<1>1. DataInv' /\ pass' \in Nat \ {0} /\ pc' # "done"
  BY DEF Inv, DataInv, Accumulate, Raise
<1>2. LoopInv'
  <2>. SUFFICES ASSUME pc' = "loop"
                PROVE  LoopInv'
    BY DEF LoopInv
  <2>1. PICK n \in Nat : n = i - 1 /\ n + 1 = i
    BY DEF Inv, LoopInv, Accumulate
  <2>2. /\ pass <= Len(Passes) /\ Kind \in Timed /\ outputs \in [Modes -> Outputs]
        /\ Counted(sums, Kind, outputs, n)
    BY <2>1 DEF Inv, LoopInv, Accumulate
  <2>3. /\ \A m \in Modes : ~(i > Len(outputs[m]))
        /\ i' = i + 1 /\ UNCHANGED <<pass, outputs>>
    BY DEF Accumulate, Raise
  <2>4. \A m \in Modes :
          /\ outputs[m] \in Outputs /\ Len(outputs[m]) \in Nat /\ n + 1 <= Len(outputs[m])
          /\ outputs[m][i].boot \in Nat /\ outputs[m][i].run \in Nat
    <3>. SUFFICES ASSUME NEW m \in Modes
                  PROVE  /\ outputs[m] \in Outputs /\ Len(outputs[m]) \in Nat
                         /\ n + 1 <= Len(outputs[m])
                         /\ outputs[m][i].boot \in Nat /\ outputs[m][i].run \in Nat
      OBVIOUS
    <3>1. outputs[m] \in Outputs /\ Len(outputs[m]) \in Nat
      BY <2>2, Reports
    <3>2. i \in 1 .. Len(outputs[m])
      BY <2>1, <2>3, <3>1
    <3>. QED BY <2>1, <3>1, <3>2, Reports
  <2>. DEFINE boot == [m \in Modes |-> sums.boot[m] + outputs[m][i].boot]
              run == [m \in Modes |-> sums.run[m]
                                + IF Kind = "full" THEN outputs[m][i].run ELSE 0]
              overhead == [m \in Modes |-> Overhead(m, boot)]
  <2>5. sums' = [boot |-> boot, run |-> run, overhead |-> overhead]
    BY DEF Accumulate, Raise
  <2>6. sums'.boot = boot /\ sums'.run = run /\ sums'.overhead = overhead
    BY <2>5
  <2>7. ASSUME NEW m \in Modes
        PROVE  boot[m] = SumTo(Times(outputs[m], "boot", n + 1), n + 1)
    BY <2>1, <2>2, <2>4, SumOfTimes DEF Counted
  <2>8. ASSUME NEW m \in Modes
        PROVE  run[m] = IF Kind = "full"
                        THEN SumTo(Times(outputs[m], "run", n + 1), n + 1) ELSE 0
    <3>1. sums.run[m] = IF Kind = "full" THEN SumTo(Times(outputs[m], "run", n), n) ELSE 0
      BY <2>2 DEF Counted
    <3>. QED BY <2>1, <2>4, <3>1, SumOfTimes
  <2>9. \A m \in Modes : boot[m] \in Int
    <3>1. \A m \in Modes : SumTo(Times(outputs[m], "boot", n + 1), n + 1) \in Int
      BY <2>4, SumsInt
    <3>. HIDE DEF boot
    <3>. QED BY <2>7, <3>1
  <2>10. \A m \in Modes : overhead[m] = sums.overhead[m] + boot[m] - boot["baseline"]
    <3>. HIDE DEF boot
    <3>. QED BY DEF Overhead
  <2>. HIDE DEF boot, run
  <2>11. "baseline" \in Modes /\ \A m \in Modes : sums.overhead[m] \in Int
    BY <2>2 DEF Counted, Modes
  <2>12. overhead \in [Modes -> Int]
    BY <2>9, <2>10, <2>11
  <2>. HIDE DEF overhead
  <2>13. n + 1 <= 1 => \A m \in Modes : overhead[m] = boot[m] - boot["baseline"]
    <3>. SUFFICES ASSUME n = 0, NEW m \in Modes
                  PROVE  overhead[m] = boot[m] - boot["baseline"]
      OBVIOUS
    <3>1. \A q \in Modes : sums.boot[q] = 0
      BY <2>2, SumToZero DEF Counted
    <3>2. sums.overhead[m] = sums.boot[m] - sums.boot["baseline"]
      BY <2>2 DEF Counted
    <3>3. sums.overhead[m] = 0
      BY <2>11, <3>1, <3>2
    <3>. QED BY <2>9, <2>10, <2>11, <3>3
  <2>14. Counted(sums', Kind, outputs, n + 1)
    BY <2>4, <2>6, <2>7, <2>8, <2>12, <2>13 DEF Counted
  <2>15. Kind' = Kind /\ i' - 1 = n + 1 /\ i' \in Nat \ {0}
    BY <2>1, <2>3 DEF Kind
  <2>. QED BY <2>2, <2>3, <2>14, <2>15 DEF LoopInv
<1>. QED BY <1>1, <1>2 DEF Inv

(* A pass is measured.                                                     *)
LEMMA MeasuredStep ==
  ASSUME Inv, NEW result, NEW what, Measured(result, what),
         MadeFrom(Flatten(result), [kind |-> Kind, of |-> what])
  PROVE  Inv'
<1>1. PICK flat, entry : /\ flat = Flatten(result) /\ entry = [kind |-> Kind, of |-> what]
                         /\ MadeFrom(flat, entry)
                         /\ data' = Append(data, flat) /\ log' = Append(log, entry)
                         /\ pass' = pass + 1 /\ pc' = "pass"
  BY DEF Measured
<1>2. IsSeq(data) /\ IsSeq(log) /\ Len(log) = Len(data) /\ Len(data) \in Nat
  BY DEF Inv, DataInv, IsSeq
<1>3. /\ IsSeq(data') /\ Len(data') = Len(data) + 1 /\ data'[Len(data) + 1] = flat
      /\ \A p \in 1 .. Len(data) : data'[p] = data[p]
  BY <1>1, <1>2, Appended
<1>4. /\ IsSeq(log') /\ Len(log') = Len(data) + 1 /\ log'[Len(data) + 1] = entry
      /\ \A p \in 1 .. Len(data) : log'[p] = log[p]
  BY <1>1, <1>2, Appended
<1>5. ASSUME NEW p \in 1 .. Len(data')
      PROVE  MadeFrom(data'[p], log'[p])
  <2>1. CASE p = Len(data) + 1
    BY <1>1, <1>3, <1>4, <2>1
  <2>2. CASE p \in 1 .. Len(data)
    BY <1>3, <1>4, <2>2 DEF Inv, DataInv
  <2>. QED BY <1>2, <1>3, <2>1, <2>2
<1>6. DataInv'
  <2>1. \A p \in 1 .. Len(data') : MadeFrom(data'[p], log'[p])
    BY <1>5
  <2>. QED BY <1>3, <1>4, <2>1 DEF DataInv, MadeFrom, Counted
<1>. QED BY <1>1, <1>6 DEF Inv, LoopInv

LEMMA DivideStep ==
  ASSUME Inv, Divide
  PROVE  Inv'
<1>1. CASE Raise /\ UNCHANGED <<data, log, pass>>
  BY <1>1 DEF Raise, Inv, DataInv, LoopInv
<1>2. CASE sums.boot["baseline"] # 0
           /\ Measured(UstResult(Kind, sums, Len(outputs["baseline"])), outputs)
  <2>. DEFINE n == Len(outputs["baseline"])
              entry == [kind |-> Kind, of |-> outputs]
  <2>1. /\ Kind \in Timed /\ outputs \in [Modes -> Outputs] /\ "baseline" \in Modes
        /\ i \in Nat \ {0} /\ Counted(sums, Kind, outputs, i - 1) /\ i > n
    BY DEF Inv, LoopInv, Divide, Modes
  <2>2. n \in Nat
    BY <2>1, Reports
  <2>3. i - 1 = n
    <3>1. i - 1 <= n /\ i > n
      BY <2>1 DEF Counted
    <3>. QED BY <2>1, <2>2, <3>1
  <2>4. Counted(sums, Kind, outputs, n)
    BY <2>1, <2>3
  <2>5. n # 0
    <3>. SUFFICES ASSUME n = 0 PROVE sums.boot["baseline"] = 0
      BY <1>2
    <3>1. sums.boot["baseline"] = SumTo(Times(outputs["baseline"], "boot", n), n)
      BY <2>1, <2>4 DEF Counted
    <3>. QED BY <3>1, SumToZero
  <2>6. entry \in UstLog /\ entry.kind = Kind /\ entry.of = outputs
    BY <2>1 DEF UstLog
  <2>. HIDE DEF entry
  <2>7. MadeFrom(Flatten(UstResult(Kind, sums, n)), entry)
    BY <2>2, <2>4, <2>5, <2>6 DEF MadeFrom
  <2>. QED BY <1>2, <2>7, MeasuredStep DEF entry
<1>. QED BY <1>1, <1>2 DEF Divide

LEMMA RunKernelStep ==
  ASSUME Inv, RunKernel
  PROVE  Inv'
<1>1. CASE pc' = "average" /\ UNCHANGED <<data, log, pass>>
  BY <1>1 DEF Inv, DataInv, LoopInv
<1>2. CASE \E base, tracing_en \in KernelTimes :
             Measured(KernelResult(base, tracing_en), <<base, tracing_en>>)
  <2>1. PICK base \in KernelTimes, tracing_en \in KernelTimes :
               Measured(KernelResult(base, tracing_en), <<base, tracing_en>>)
    BY <1>2
  <2>2. PICK entry : entry = [kind |-> Kind, of |-> <<base, tracing_en>>]
    OBVIOUS
  <2>3. entry.of[1] = base /\ entry.of[2] = tracing_en
    BY <2>2
  <2>4. entry \in KernelLog
    BY <2>2 DEF RunKernel, KernelLog
  <2>5. MadeFrom(Flatten(KernelResult(base, tracing_en)), entry)
    BY <2>3, <2>4 DEF MadeFrom
  <2>. QED BY <2>1, <2>2, <2>5, MeasuredStep
<1>. QED BY <1>1, <1>2 DEF RunKernel

(* The averages depend on the passes' results only.                        *)
LEMMA AveragesSame ==
  ASSUME data' = data
  PROVE  Averages' = Averages
<1>1. ASSUME NEW key  PROVE SumOf(key)' = SumOf(key)
  BY DEF SumOf
<1>2. QED  BY <1>1 DEF Averages, RestrictValues, Restrict

LEMMA AverageStep ==
  ASSUME Inv, Average
  PROVE  Inv'
<1>1. data' = data /\ log' = log /\ pass' = pass /\ pc' = "done" /\ average' = Averages
  BY DEF Average
<1>2. Averages' = Averages
  BY <1>1, AveragesSame
<1>. QED BY <1>1, <1>2 DEF Inv, DataInv, LoopInv

THEOREM InvCorrect == Spec => []Inv
<1>1. Init => Inv
  BY InitInv
<1>2. Inv /\ [Next]_vars => Inv'
  <2>. SUFFICES ASSUME Inv, [Next]_vars PROVE Inv'
    OBVIOUS
  <2>1. CASE UNCHANGED vars
    <3>1. Averages' = Averages
      BY <2>1, AveragesSame DEF vars
    <3>2. Kind' = Kind
      BY <2>1 DEF vars, Kind
    <3>. QED BY <2>1, <3>1, <3>2 DEF vars, Inv, DataInv, LoopInv
  <2>. QED BY <2>1, RunToolsStep, AccumulateStep, DivideStep, RunKernelStep, AverageStep
       DEF Next, Finished
<1>. QED BY <1>1, <1>2, PTL DEF Spec

-----------------------------------------------------------------------------
(***************************************************************************)
(* What the passes give for a key.                                         *)
(***************************************************************************)
LEMMA UstPass ==
  ASSUME Inv, NEW p \in 1 .. Len(data), log[p].kind # "kernel", NEW m \in Modes
  PROVE  /\ log[p].kind \in Timed
         /\ Mean(p, m, "boot") \in Int /\ Mean(p, m, "run") \in Int
         /\ Get(data[p], KernelKey) = None
         /\ Get(data[p], BootKey(m)) = Mean(p, m, "boot")
         /\ Get(data[p], RunKey(m)) = RunTime(log[p].kind, Mean(p, m, "run"))
         /\ m # "baseline" =>
              Get(data[p], CostKey(m)) =
                RunTime(log[p].kind, Mean(p, m, "run") - Mean(p, "baseline", "run"))
         /\ m # "baseline" /\ Len(log[p].of["baseline"]) = 1 =>
              Get(data[p], OverheadKey(m)) = Mean(p, m, "boot") - Mean(p, "baseline", "boot")
<1>1. MadeFrom(data[p], log[p]) /\ log[p] \notin KernelLog
  BY DEF Inv, DataInv, KernelLog
<1>2. PICK sum, n : /\ n = Len(log[p].of["baseline"]) /\ n \in Nat \ {0}
                    /\ Counted(sum, log[p].kind, log[p].of, n)
                    /\ data[p] = Flatten(UstResult(log[p].kind, sum, n))
                    /\ log[p] \in UstLog
  BY <1>1 DEF MadeFrom
<1>3. log[p].kind \in Timed /\ log[p].of \in [Modes -> Outputs] /\ "baseline" \in Modes
  BY <1>2 DEF UstLog, Modes
<1>4. ASSUME NEW q \in Modes
      PROVE  /\ Mean(p, q, "boot") = Quotient(sum.boot[q], n)
             /\ Mean(p, q, "boot") \in Int /\ Mean(p, q, "run") \in Int /\ sum.boot[q] \in Int
             /\ log[p].kind = "full" => Mean(p, q, "run") = Quotient(sum.run[q], n)
  <2>1. /\ log[p].of[q] \in Outputs /\ n <= Len(log[p].of[q])
        /\ sum.boot[q] = SumTo(Times(log[p].of[q], "boot", n), n)
        /\ log[p].kind = "full" => sum.run[q] = SumTo(Times(log[p].of[q], "run", n), n)
    BY <1>2, <1>3 DEF Counted
  <2>2. /\ Mean(p, q, "boot") = Quotient(SumTo(Times(log[p].of[q], "boot", n), n), n)
        /\ Mean(p, q, "run") = Quotient(SumTo(Times(log[p].of[q], "run", n), n), n)
    BY <1>2 DEF Mean, Times
  <2>. QED BY <1>2, <2>1, <2>2, SumsInt, QuotientInt
<1>5. \A x, y : log[p].kind # "full" => RunTime(log[p].kind, x) = RunTime(log[p].kind, y)
  BY DEF RunTime
<1>6. /\ Get(data[p], KernelKey) = None
      /\ Get(data[p], BootKey(m)) = Quotient(sum.boot[m], n)
      /\ Get(data[p], RunKey(m)) = RunTime(log[p].kind, Quotient(sum.run[m], n))
      /\ m # "baseline" =>
           Get(data[p], CostKey(m)) =
             RunTime(log[p].kind, Quotient(sum.run[m], n) - Quotient(sum.run["baseline"], n))
      /\ m # "baseline" => Get(data[p], OverheadKey(m)) = Quotient(sum.overhead[m], n)
  BY <1>2, UstValues
<1>7. n = 1 => Quotient(sum.overhead[m], n)
                 = Mean(p, m, "boot") - Mean(p, "baseline", "boot")
  <2>. SUFFICES ASSUME n = 1
                PROVE  Quotient(sum.overhead[m], 1)
                         = Quotient(sum.boot[m], 1) - Quotient(sum.boot["baseline"], 1)
    BY <1>3, <1>4
  <2>1. sum.overhead[m] = sum.boot[m] - sum.boot["baseline"]
    BY <1>2 DEF Counted
  <2>2. PICK x \in Int, y \in Int : x = sum.boot[m] /\ y = sum.boot["baseline"]
    BY <1>3, <1>4
  <2>. QED BY <2>1, <2>2, QuotientOfOne
<1>. QED BY <1>2, <1>3, <1>4, <1>5, <1>6, <1>7, Zenon

LEMMA KernelPass ==
  ASSUME Inv, NEW p \in 1 .. Len(data), log[p].kind = "kernel", NEW m \in Modes
  PROVE  /\ Quotient(log[p].of[1], CpuCount) \in Int
         /\ Get(data[p], KernelKey) = Quotient(log[p].of[1], CpuCount)
         /\ Get(data[p], BootKey(m)) = None
         /\ Get(data[p], RunKey(m)) = None
         /\ Get(data[p], CostKey(m)) = None
         /\ Get(data[p], OverheadKey(m)) = None
<1>1. MadeFrom(data[p], log[p]) /\ log[p] \notin UstLog
  BY DEF Inv, DataInv, UstLog, Timed
<1>2. /\ log[p] \in KernelLog
      /\ data[p] = Flatten(KernelResult(log[p].of[1], log[p].of[2]))
  BY <1>1 DEF MadeFrom
<1>3. log[p].of[1] \in Nat
  BY <1>2, KernelTimesAssumption DEF KernelLog
<1>4. Quotient(log[p].of[1], CpuCount) \in Int
  <2>1. PICK x \in Int : x = log[p].of[1]
    BY <1>3
  <2>2. Quotient(x, CpuCount) \in Int
    BY CpuCountAssumption, QuotientInt, Zenon
  <2>. QED BY <2>1, <2>2, Zenon
<1>. QED BY <1>2, <1>4, KernelValues

LEMMA LoggedIs ==
  ASSUME Inv, NEW kinds
  PROVE  /\ Logged(kinds) \in SUBSET (1 .. Len(data))
         /\ \A p \in 1 .. Len(data) : p \in Logged(kinds) <=> log[p].kind \in kinds
BY DEF Inv, DataInv, IsSeq, Logged

LEMMA BootValues ==
  ASSUME Inv, NEW m \in Modes
  PROVE  HasValues(BootKey(m), Logged(Timed), [p \in Logged(Timed) |-> Mean(p, m, "boot")])
<1>1. ASSUME NEW p \in Logged(Timed)
      PROVE  Mean(p, m, "boot") \in Int /\ Get(data[p], BootKey(m)) = Mean(p, m, "boot")
  BY <1>1, LoggedIs, UstPass DEF Timed
<1>2. ASSUME NEW p \in (1 .. Len(data)) \ Logged(Timed)
      PROVE  Get(data[p], BootKey(m)) = None
  <2>1. log[p].kind = "kernel"
    BY <1>2, LoggedIs, UstPass
  <2>. QED BY <2>1, KernelPass
<1>. QED BY <1>1, <1>2, LoggedIs DEF HasValues

LEMMA RunValues ==
  ASSUME Inv, NEW m \in Modes
  PROVE  LET runs == Logged({"full"})
         IN  /\ HasValues(RunKey(m), runs, [p \in runs |-> Mean(p, m, "run")])
             /\ m # "baseline" =>
                  HasValues(CostKey(m), runs,
                            [p \in runs |-> Mean(p, m, "run") - Mean(p, "baseline", "run")])
             /\ \A p \in runs : Mean(p, m, "run") \in Int
<1>. DEFINE runs == Logged({"full"})
<1>1. ASSUME NEW p \in runs
      PROVE  /\ Mean(p, m, "run") \in Int /\ Mean(p, "baseline", "run") \in Int
             /\ Get(data[p], RunKey(m)) = Mean(p, m, "run")
             /\ m # "baseline" =>
                  Get(data[p], CostKey(m)) = Mean(p, m, "run") - Mean(p, "baseline", "run")
  <2>1. p \in 1 .. Len(data) /\ log[p].kind = "full" /\ "baseline" \in Modes
    BY <1>1, LoggedIs DEF Modes
  <2>. QED BY <2>1, UstPass DEF RunTime
<1>2. ASSUME NEW p \in (1 .. Len(data)) \ runs
      PROVE  Get(data[p], RunKey(m)) = None /\ (m # "baseline" => Get(data[p], CostKey(m)) = None)
  <2>1. log[p].kind # "full"
    BY <1>2, LoggedIs
  <2>2. CASE log[p].kind = "kernel"
    BY <2>2, KernelPass
  <2>3. CASE log[p].kind # "kernel"
    BY <2>1, <2>3, UstPass DEF RunTime
  <2>. QED BY <2>2, <2>3
<1>3. runs \in SUBSET (1 .. Len(data))
  BY LoggedIs
<1>. HIDE DEF runs
<1>4. HasValues(RunKey(m), runs, [p \in runs |-> Mean(p, m, "run")])
  BY <1>1, <1>2, <1>3 DEF HasValues
<1>5. m # "baseline" =>
        HasValues(CostKey(m), runs,
                  [p \in runs |-> Mean(p, m, "run") - Mean(p, "baseline", "run")])
  BY <1>1, <1>2, <1>3 DEF HasValues
<1>. QED BY <1>1, <1>4, <1>5 DEF runs

LEMMA KernelPasses ==
  ASSUME Inv
  PROVE  LET kernel == Logged({"kernel"})
         IN  HasValues(KernelKey, kernel, [p \in kernel |-> Quotient(log[p].of[1], CpuCount)])
<1>0. PICK m : m \in Modes
  BY DEF Modes
<1>1. ASSUME NEW p \in Logged({"kernel"})
      PROVE  /\ Quotient(log[p].of[1], CpuCount) \in Int
             /\ Get(data[p], KernelKey) = Quotient(log[p].of[1], CpuCount)
  BY <1>0, <1>1, LoggedIs, KernelPass
<1>2. ASSUME NEW p \in (1 .. Len(data)) \ Logged({"kernel"})
      PROVE  Get(data[p], KernelKey) = None
  BY <1>0, <1>2, LoggedIs, UstPass
<1>. QED BY <1>1, <1>2, LoggedIs DEF HasValues

-----------------------------------------------------------------------------
(***************************************************************************)
(* Theorems.                                                               *)
(***************************************************************************)
LEMMA AveragesAre ==
  ASSUME Inv, pc = "done", NEW key, NEW passes, NEW values, HasValues(key, passes, values)
  PROVE  /\ AverageIs(key, passes, values)
         /\ key \in DOMAIN average => passes # {}
<1>1. /\ Len(data) \in Nat /\ Len(log) = Len(data) /\ DOMAIN data = 1 .. Len(data)
      /\ average = Averages
  BY DEF Inv, DataInv, IsSeq
<1>. QED BY <1>1, AverageOfValues

(* Whatever the tools print and the kernel module reports, in passes of    *)
(* any number and order, an average of benchmarks.py:283-300 is that of    *)
(* what the processes have reported, over the passes that have measured    *)
(* it.                                                                     *)
THEOREM AveragesOfReportsCorrect == Spec => []AveragesOfReports
<1>1. ASSUME Inv PROVE AveragesOfReports
  <2>. SUFFICES ASSUME pc = "done" PROVE AveragesOfReports
    BY DEF AveragesOfReports
  <2>1. ASSUME NEW m \in Modes
        PROVE  LET boots == Logged({"full", "fast"})
                   runs == Logged({"full"})
               IN  /\ AverageIs(<<"ust", m, "start_time">>, boots,
                                [p \in boots |-> Mean(p, m, "boot")])
                   /\ AverageIs(<<"ust", m, "run_time">>, runs,
                                [p \in runs |-> Mean(p, m, "run")])
    BY <1>1, BootValues, RunValues, AveragesAre DEF BootKey, RunKey, Timed
  <2>2. LET kernel == Logged({"kernel"})
        IN  AverageIs(<<"kernel", "baseline", "run_time">>, kernel,
                      [p \in kernel |-> Quotient(log[p].of[1], CpuCount)])
    BY <1>1, KernelPasses, AveragesAre DEF KernelKey
  <2>. QED BY <2>1, <2>2 DEF AveragesOfReports
<1>. QED BY <1>1, InvCorrect, PTL

(* Where a pass has a value, the one of a key is the difference of those   *)
(* of two others: so are the averages.                                     *)
LEMMA Difference ==
  ASSUME Inv, pc = "done", NEW key, NEW minuend, NEW subtrahend,
         NEW passes, NEW f, NEW g, NEW h,
         HasValues(minuend, passes, f), HasValues(subtrahend, passes, g),
         HasValues(key, passes, h), \A p \in passes : h[p] = f[p] - g[p]
  PROVE  IsDifference(key, minuend, subtrahend)
<1>. SUFFICES ASSUME key \in DOMAIN average
              PROVE  /\ average[key].total = average[minuend].total - average[subtrahend].total
                     /\ average[key].count = average[minuend].count
                     /\ average[key].count = average[subtrahend].count
  BY Zenon DEF IsDifference
<1>1. /\ AverageIs(minuend, passes, f) /\ AverageIs(subtrahend, passes, g)
      /\ AverageIs(key, passes, h) /\ passes # {}
  BY AveragesAre
<1>. DEFINE n == Len(log)
            Over(values) == [p \in 1 .. n |-> IF p \in passes THEN values[p] ELSE 0]
<1>2. /\ average[key] = [total |-> SumTo(Over(h), n), count |-> Cardinality(passes)]
      /\ average[minuend] = [total |-> SumTo(Over(f), n), count |-> Cardinality(passes)]
      /\ average[subtrahend] = [total |-> SumTo(Over(g), n), count |-> Cardinality(passes)]
  BY <1>1 DEF AverageIs
<1>3. n \in Nat
  BY DEF Inv, DataInv, IsSeq
<1>4. \A p \in passes : f[p] \in Int /\ g[p] \in Int /\ h[p] \in Int /\ f[p] = h[p] + g[p]
  <2>1. \A p \in passes : f[p] \in Int /\ g[p] \in Int
    BY DEF HasValues
  <2>. QED BY <2>1
<1>5. \A p \in 1 .. n : /\ Over(h)[p] \in Int /\ Over(g)[p] \in Int
                        /\ Over(f)[p] = Over(h)[p] + Over(g)[p]
  BY <1>4
<1>6. SumTo(Over(h), n) \in Int /\ SumTo(Over(g), n) \in Int
      /\ SumTo(Over(f), n) = SumTo(Over(h), n) + SumTo(Over(g), n)
  <2>. HIDE DEF n, Over
  <2>. QED BY <1>3, <1>5, SumToInt, SumToPlus
<1>. HIDE DEF n, Over
<1>. QED BY <1>2, <1>6

(* The average cost of an event (benchmarks.py:130-142) is the difference  *)
(* of the average run times, over the same passes: a pass that has no run  *)
(* time has no cost either.                                                *)
THEOREM CostIsDifferenceCorrect == Spec => []CostIsDifference
<1>1. ASSUME Inv PROVE CostIsDifference
  <2>. SUFFICES ASSUME pc = "done", NEW m \in Modes \ {"baseline"}
                PROVE  IsDifference(CostKey(m), RunKey(m), RunKey("baseline"))
    BY Zenon DEF CostIsDifference, CostKey, RunKey
  <2>1. PICK runs, f, g, h :
          /\ runs = Logged({"full"})
          /\ f = [p \in runs |-> Mean(p, m, "run")]
          /\ g = [p \in runs |-> Mean(p, "baseline", "run")]
          /\ h = [p \in runs |-> Mean(p, m, "run") - Mean(p, "baseline", "run")]
    OBVIOUS
  <2>2. /\ HasValues(RunKey(m), runs, f) /\ HasValues(RunKey("baseline"), runs, g)
        /\ HasValues(CostKey(m), runs, h)
    BY <1>1, <2>1, RunValues, Zenon DEF Modes
  <2>3. \A p \in runs : h[p] = f[p] - g[p]
    BY <2>1
  <2>. QED BY <1>1, <2>2, <2>3, Difference
<1>. QED BY <1>1, InvCorrect, PTL

(* If there is one process to a tool, the first sum that the loop of       *)
(* benchmarks.py:107-117 adds up is the only one: the average overhead is  *)
(* then the difference of the average times to start, whatever the passes. *)
THEOREM OverheadOfOneCorrect == Spec => []OverheadOfOne
<1>1. ASSUME Inv PROVE OverheadOfOne
  <2>. SUFFICES ASSUME pc = "done", NEW m \in Modes \ {"baseline"},
                       \A p \in Logged(Timed) : Len(log[p].of["baseline"]) = 1
                PROVE  IsDifference(OverheadKey(m), BootKey(m), BootKey("baseline"))
    BY Zenon DEF OverheadOfOne, OverheadIsDifference, OverheadKey, BootKey, Timed
  <2>1. PICK boots, f, g, h :
          /\ boots = Logged(Timed)
          /\ f = [p \in boots |-> Mean(p, m, "boot")]
          /\ g = [p \in boots |-> Mean(p, "baseline", "boot")]
          /\ h = [p \in boots |-> Mean(p, m, "boot") - Mean(p, "baseline", "boot")]
    OBVIOUS
  <2>2. HasValues(BootKey(m), boots, f) /\ HasValues(BootKey("baseline"), boots, g)
    BY <1>1, <2>1, BootValues, Zenon DEF Modes
  <2>3. \A p \in boots : h[p] = f[p] - g[p] /\ h[p] \in Int
    <3>1. \A p \in boots : f[p] \in Int /\ g[p] \in Int
      BY <2>2 DEF HasValues
    <3>2. \A p \in boots : h[p] = f[p] - g[p]
      BY <2>1
    <3>. QED BY <3>1, <3>2
  <2>4. ASSUME NEW p \in boots PROVE Get(data[p], OverheadKey(m)) = h[p]
    <3>1. p \in 1 .. Len(data) /\ log[p].kind # "kernel" /\ Len(log[p].of["baseline"]) = 1
      BY <1>1, <2>1, <2>4, LoggedIs DEF Timed
    <3>2. Get(data[p], OverheadKey(m)) = Mean(p, m, "boot") - Mean(p, "baseline", "boot")
      BY <1>1, <3>1, UstPass
    <3>. QED BY <2>1, <2>4, <3>2
  <2>5. ASSUME NEW p \in (1 .. Len(data)) \ boots PROVE Get(data[p], OverheadKey(m)) = None
    <3>1. log[p].kind = "kernel"
      BY <1>1, <2>1, <2>5, LoggedIs, UstPass
    <3>. QED BY <1>1, <3>1, KernelPass
  <2>6. HasValues(OverheadKey(m), boots, h)
    <3>1. boots \in SUBSET (1 .. Len(data))
      BY <1>1, <2>1, LoggedIs
    <3>. QED BY <2>3, <2>4, <2>5, <3>1 DEF HasValues
  <2>. QED BY <1>1, <2>2, <2>3, <2>6, Difference
<1>. QED BY <1>1, InvCorrect, PTL

=============================================================================
