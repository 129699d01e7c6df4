------------------------- MODULE KernelTimerProofs --------------------------
(***************************************************************************)
(* Theorems about module KernelTimer.                                      *)
(***************************************************************************)
EXTENDS KernelTimer, WellFoundedInduction, TLAPS

LEMMA Division ==
  ASSUME NEW n \in Int, NEW m \in Int, m > 0
  PROVE  n % m \in 0 .. (m - 1) /\ n \div m \in Int /\ n % m = n - (n \div m) * m
<1>1. n % m \in 0 .. (m - 1) /\ n \div m \in Int
  OBVIOUS
<1>2. n % m = n - (n \div m) * m
  OBVIOUS
<1>. QED BY <1>1, <1>2

LEMMA SameRemainder ==
  ASSUME NEW n \in Int, NEW q \in Int, NEW m \in Int, m > 0
  PROVE  (n + q * m) % m = n % m
<1>. DEFINE d == ((n + q * m) \div m) - q - (n \div m)
<1>1. q * m \in Int
  OBVIOUS
<1>2. d * m = (n % m) - ((n + q * m) % m) /\ d \in Int
  BY <1>1, Division
<1>3. d >= 1 => d * m >= m
  BY <1>2
<1>4. d <= -1 => d * m <= -m
  BY <1>2
<1>5. d = 0
  BY <1>1, <1>2, <1>3, <1>4, Division
<1>. QED BY <1>1, <1>2, <1>5

LEMMA PlusRemainder ==
  ASSUME NEW x \in Int, NEW y \in Int, NEW m \in Int, m > 0
  PROVE  ((x % m) + y) % m = (x + y) % m
<1>1. PICK r \in Int, q \in Int : r = x % m /\ r = x - q * m
  BY Division
<1>2. PICK z \in Int : z = r + y
  OBVIOUS
<1>3. (z + q * m) % m = z % m
  BY SameRemainder, Zenon
<1>4. z + q * m = x + y
  BY <1>1, <1>2
<1>. QED BY <1>1, <1>2, <1>3, <1>4

LEMMA TimesRemainder ==
  ASSUME NEW x \in Int, NEW y \in Int, NEW m \in Int, m > 0
  PROVE  ((x % m) * y) % m = (x * y) % m
<1>1. PICK r \in Int, q \in Int : r = x % m /\ r = x - q * m
  BY Division
<1>2. PICK z \in Int, p \in Int : z = r * y /\ p = q * y
  OBVIOUS
<1>3. (z + p * m) % m = z % m
  BY SameRemainder, Zenon
<1>4. z + p * m = x * y
  BY <1>1, <1>2
<1>. QED BY <1>1, <1>2, <1>3, <1>4

-----------------------------------------------------------------------------
(***************************************************************************)
(* Induction, as a fact about sets of numbers: a set of naturals has a     *)
(* least element.                                                          *)
(***************************************************************************)
LEMMA LeastElement ==
  ASSUME NEW T, T \subseteq Nat, T # {}
  PROVE  \E n \in T : \A m \in T : n <= m
<1>. DEFINE R == {ss \in Nat \X Nat : ss[1] < ss[2]}
<1>1. IsWellFoundedOn(R, Nat)
  BY NatLessThanWellFounded DEF OpToRel
<1>2. PICK n \in T : \A m \in T : ~(<<m, n>> \in R)
  <2>. HIDE DEF R
  <2>. QED BY <1>1, WFMin, Zenon
<1>3. ASSUME NEW m \in T PROVE n <= m
  <2>1. ~(m < n)
    BY <1>2
  <2>. QED BY <2>1
<1>. QED BY <1>3

LEMMA Inductive ==
  ASSUME NEW T, 0 \in T, \A n \in Nat : n \in T => n + 1 \in T
  PROVE  Nat \subseteq T
<1>. SUFFICES ASSUME Nat \ T # {} PROVE FALSE
  OBVIOUS
<1>1. PICK n \in Nat \ T : \A m \in Nat \ T : n <= m
  BY LeastElement
<1>2. n - 1 \in Nat /\ n - 1 \notin T
  OBVIOUS
<1>. QED BY <1>1, <1>2

(***************************************************************************)
(* The sums over the first CPUs.                                           *)
(***************************************************************************)
Sums(a, n, s) ==
  /\ s \in [0 .. n -> Int] /\ s[0] = 0
  /\ \A k \in 1 .. n : s[k] = s[k - 1] + a[k - 1]

LEMMA SumsGrow ==
  ASSUME NEW a \in [Cpu -> Int], NEW n \in Nat, n < Cpus, NEW s, Sums(a, n, s)
  PROVE  \E t : Sums(a, n + 1, t) /\ t[n + 1] = s[n] + a[n]
<1>. DEFINE t == [k \in 0 .. (n + 1) |-> IF k <= n THEN s[k] ELSE s[n] + a[n]]
<1>1. n \in Cpu /\ a[n] \in Int /\ s[n] \in Int
  BY CpusAssumption DEF Cpu, Sums
<1>2. t \in [0 .. (n + 1) -> Int] /\ t[0] = 0 /\ t[n + 1] = s[n] + a[n]
  BY <1>1 DEF Sums
<1>3. ASSUME NEW k \in 1 .. (n + 1) PROVE t[k] = t[k - 1] + a[k - 1]
  <2>1. CASE k = n + 1
    BY <2>1
  <2>2. CASE k \in 1 .. n
    BY <2>2 DEF Sums
  <2>. QED BY <2>1, <2>2
<1>. QED BY <1>2, <1>3 DEF Sums

(* The recursive function in SumOver is that of the sums.                  *)
LEMMA SumOverIs ==
  ASSUME NEW n \in 0 .. Cpus, NEW a \in [Cpu -> Int],
         \A c \in Cpu : a[c] = Apparently(c), NEW s, Sums(a, n, s)
  PROVE  SumOver(Apparently, n) = s[n]
<1>. DEFINE Rec(f) == f = [k \in 0 .. n |->
                             IF k = 0 THEN 0 ELSE f[k - 1] + Apparently(k - 1)]
            g == CHOOSE h : Rec(h)
<1>1. n \in Nat /\ \A k \in 1 .. n : k - 1 \in Cpu
  BY CpusAssumption DEF Cpu
<1>2. Rec(s)
  BY <1>1 DEF Sums
<1>3. Rec(g)
  BY <1>2
<1>. DEFINE T == {k \in Nat : k <= n => g[k] = s[k]}
<1>. HIDE DEF g
<1>4. 0 \in T
  BY <1>1, <1>3 DEF Sums
<1>5. ASSUME NEW k \in Nat, k \in T PROVE k + 1 \in T
  <2>. SUFFICES ASSUME k + 1 <= n PROVE g[k + 1] = s[k + 1]
    OBVIOUS
  <2>1. g[k + 1] = g[k] + Apparently(k)
    BY <1>1, <1>3
  <2>2. k + 1 \in 1 .. n /\ k \in Cpu
    BY <1>1 DEF Cpu
  <2>3. s[k + 1] = s[k] + a[k] /\ a[k] = Apparently(k)
    BY <2>2 DEF Sums
  <2>. QED BY <1>5, <2>1, <2>3
<1>6. Nat \subseteq T
  <2>. HIDE DEF T
  <2>. QED BY <1>4, <1>5, Inductive
<1>7. g[n] = s[n]
  BY <1>1, <1>6
<1>8. SumOver(Apparently, n) = g[n]
  BY DEF SumOver, g
<1>. QED BY <1>7, <1>8

-----------------------------------------------------------------------------
(***************************************************************************)
(* The difference of two readings, borrow and wrap included.               *)
(***************************************************************************)
TimeValue(w) == [tv_sec |-> w \div USEC_PER_SEC, tv_usec |-> w % USEC_PER_SEC]

LEMMA Positive ==
  /\ LongMod \in Int /\ LongMod > 0 /\ MaxTime \in Nat /\ MaxTime < LongMod
  /\ USEC_PER_SEC \in Int /\ USEC_PER_SEC > 0
BY LongModAssumption, SecondAssumption, MaxTimeAssumption

LEMMA Combined ==
  ASSUME NEW secs \in Int, NEW usecs \in Int
  PROVE  ((((secs % LongMod) * USEC_PER_SEC) % LongMod) + usecs) % LongMod
           = (secs * USEC_PER_SEC + usecs) % LongMod
<1>1. secs * USEC_PER_SEC \in Int
  BY Positive
<1>2. ((secs % LongMod) * USEC_PER_SEC) % LongMod = (secs * USEC_PER_SEC) % LongMod
  BY Positive, TimesRemainder, Zenon
<1>3. (((secs * USEC_PER_SEC) % LongMod) + usecs) % LongMod
        = (secs * USEC_PER_SEC + usecs) % LongMod
  BY <1>1, Positive, PlusRemainder, Zenon
<1>. QED BY <1>2, <1>3, Zenon

LEMMA DifferenceIsExact ==
  ASSUME NEW a \in Int, NEW b \in Int
  PROVE  Difference(TimeValue(a), TimeValue(b)) = (b - a) % LongMod
<1>1. PICK as \in Int, au \in Int :
        as = a \div USEC_PER_SEC /\ au = a % USEC_PER_SEC /\ au = a - as * USEC_PER_SEC
  BY Division, Positive
<1>2. PICK bs \in Int, bu \in Int :
        bs = b \div USEC_PER_SEC /\ bu = b % USEC_PER_SEC /\ bu = b - bs * USEC_PER_SEC
  BY Division, Positive
<1>3. (bs - as) * USEC_PER_SEC + (bu - au) = b - a
  BY <1>1, <1>2, Positive
<1>4. bs - as \in Int /\ bu - au \in Int
  OBVIOUS
<1>5. Difference(TimeValue(a), TimeValue(b))
        = (((((bs - as) % LongMod) * USEC_PER_SEC) % LongMod) + (bu - au)) % LongMod
  BY <1>1, <1>2 DEF Difference, TimeValue
<1>6. (((((bs - as) % LongMod) * USEC_PER_SEC) % LongMod) + (bu - au)) % LongMod
        = ((bs - as) * USEC_PER_SEC + (bu - au)) % LongMod
  BY <1>4, Combined, Zenon
<1>. QED BY <1>3, <1>5, <1>6, Zenon

-----------------------------------------------------------------------------
(***************************************************************************)
(* The invariant.                                                          *)
(***************************************************************************)

(* The counter as a thread that has generated n events has it.             *)
Wrapped(n) == IF n > INT_MAX THEN n - IntMod ELSE n

ThreadInv(c) ==
  /\ pc[c] = "gate" => i[c] = 0 /\ events[c] = 0
  /\ pc[c] = "loop" =>
       /\ events[c] <= event_count /\ i[c] = Wrapped(events[c])
       /\ start_tv[c] = TimeValue(begun[c].wall)
       /\ begun[c].uptime <= uptime
  /\ pc[c] = "done" =>
       /\ events[c] = event_count
       /\ begun[c].uptime <= ended[c].uptime
       /\ time[c] = (ended[c].wall - begun[c].wall) % LongMod

Inv == TypeOK /\ \A c \in Cpu : ThreadInv(c)

LEMMA Widths ==
  /\ INT_MAX \in Nat /\ IntMod = 2 * INT_MAX + 2 /\ IntMod \in Nat
  /\ \A n \in Counts : n \in 0 .. (IntMod - 1)
BY IntModAssumption, CountsAssumption DEF INT_MAX

LEMMA TimeType ==
  ASSUME NEW w \in 0 .. MaxTime
  PROVE  TimeValue(w) \in [tv_sec : 0 .. MaxTime, tv_usec : 0 .. (USEC_PER_SEC - 1)]
<1>1. PICK s \in Int, u \in Int :
        s = w \div USEC_PER_SEC /\ u = w % USEC_PER_SEC /\ u = w - s * USEC_PER_SEC
  BY Division, Positive
<1>2. u \in 0 .. (USEC_PER_SEC - 1)
  BY <1>1, Division, Positive
<1>3. s >= 0
  <2>1. s <= -1 => s * USEC_PER_SEC <= -USEC_PER_SEC
    BY Positive
  <2>. QED BY <1>1, <1>2, <2>1, Positive
<1>4. s <= MaxTime
  <2>1. s * USEC_PER_SEC >= s
    BY <1>3, Positive
  <2>. QED BY <1>1, <1>2, <2>1, Positive
<1>. QED BY <1>1, <1>2, <1>3, <1>4 DEF TimeValue

LEMMA Init0 == Init => Inv
<1>. SUFFICES ASSUME Init PROVE Inv
  OBVIOUS
<1>1. TimeOfDay \in [tv_sec : 0 .. MaxTime, tv_usec : 0 .. (USEC_PER_SEC - 1)]
  BY TimeType DEF Init, TimeOfDay, TimeValue
<1>2. TypeOK
  BY <1>1, Positive, Widths, CpusAssumption DEF Init, TypeOK, Reading
<1>. QED BY <1>2 DEF Init, Inv, ThreadInv

LEMMA Counting ==
  ASSUME NEW n \in 0 .. (IntMod - 1)
  PROVE  /\ Unsigned(Wrapped(n)) = n
         /\ n + 1 < IntMod => Increment(Wrapped(n)) = Wrapped(n + 1)
<1>1. Wrapped(n) = n \/ Wrapped(n) = n + (-1) * IntMod
  BY Widths DEF Wrapped
<1>2. n % IntMod = n
  BY Widths
<1>3. (n + (-1) * IntMod) % IntMod = n % IntMod
  <2>1. n \in Int /\ -1 \in Int /\ IntMod \in Int /\ IntMod > 0
    BY Widths
  <2>. QED BY <2>1, SameRemainder, Zenon
<1>4. Unsigned(Wrapped(n)) = n
  BY <1>1, <1>2, <1>3, Zenon DEF Unsigned
<1>5. n + 1 < IntMod => Increment(Wrapped(n)) = Wrapped(n + 1)
  BY Widths DEF Wrapped, Increment
<1>. QED BY <1>4, <1>5

(* What the clocks read.                                                   *)
LEMMA Readings ==
  ASSUME TypeOK
  PROVE  /\ TimeOfDay = TimeValue(wall) /\ wall \in 0 .. MaxTime /\ uptime \in 0 .. MaxTime
         /\ TimeOfDay \in [tv_sec : 0 .. MaxTime, tv_usec : 0 .. (USEC_PER_SEC - 1)]
         /\ Reading \in [uptime : 0 .. MaxTime, wall : 0 .. MaxTime]
         /\ Reading.uptime = uptime /\ Reading.wall = wall
<1>1. wall \in 0 .. MaxTime /\ uptime \in 0 .. MaxTime
  BY DEF TypeOK
<1>2. TimeOfDay = TimeValue(wall)
  BY Zenon DEF TimeOfDay, TimeValue
<1>3. TimeOfDay \in [tv_sec : 0 .. MaxTime, tv_usec : 0 .. (USEC_PER_SEC - 1)]
  BY <1>1, <1>2, TimeType, Zenon
<1>. QED BY <1>1, <1>2, <1>3 DEF Reading

LEMMA TimeStep ==
  ASSUME Inv, Tick \/ SetClock
  PROVE  Inv'
<1>1. uptime \in 0 .. MaxTime /\ uptime' \in 0 .. MaxTime /\ uptime <= uptime'
      /\ wall' \in 0 .. MaxTime
  BY Positive DEF Inv, TypeOK, Tick, SetClock
<1>2. UNCHANGED <<event_count, pc, i, start_tv, time, showVars, historyVars>>
  BY DEF Tick, SetClock
<1>3. TypeOK'
  BY <1>1, <1>2 DEF Inv, TypeOK, showVars, historyVars
<1>4. ASSUME NEW c \in Cpu PROVE ThreadInv(c)'
  <2>1. ThreadInv(c) /\ begun[c].uptime \in Int
    BY DEF Inv, TypeOK
  <2>. QED BY <1>1, <1>2, <2>1 DEF ThreadInv, showVars, historyVars
<1>. QED BY <1>3, <1>4 DEF Inv

LEMMA StartStep ==
  ASSUME Inv, NEW c \in Cpu, StartMeasuring(c)
  PROVE  Inv'
<1>. USE DEF StartMeasuring, clockVars, showVars
<1>1. TypeOK'
  BY Readings DEF Inv, TypeOK
<1>2. ASSUME NEW d \in Cpu PROVE ThreadInv(d)'
  <2>1. CASE d = c
    <3>1. pc'[c] = "loop" /\ start_tv'[c] = TimeValue(wall) /\ begun'[c] = Reading
      BY Readings DEF Inv, TypeOK
    <3>2. i'[c] = 0 /\ events'[c] = 0 /\ event_count' = event_count /\ event_count >= 0
      BY Widths DEF Inv, TypeOK, ThreadInv
    <3>3. Wrapped(0) = 0
      BY Widths DEF Wrapped
    <3>4. begun'[c].uptime <= uptime' /\ begun'[c].wall = wall
      BY <3>1, Readings DEF Inv
    <3>. QED BY <2>1, <3>1, <3>2, <3>3, <3>4 DEF ThreadInv
  <2>2. CASE d # c
    <3>1. /\ pc'[d] = pc[d] /\ start_tv'[d] = start_tv[d] /\ begun'[d] = begun[d]
          /\ ThreadInv(d)
      BY <2>2 DEF Inv, TypeOK
    <3>. QED BY <3>1 DEF ThreadInv
  <2>. QED BY <2>1, <2>2
<1>. QED BY <1>1, <1>2 DEF Inv

LEMMA GenerateStep ==
  ASSUME Inv, NEW c \in Cpu, Generate(c)
  PROVE  Inv'
<1>. USE DEF Generate, clockVars, showVars
<1>1. /\ i[c] = Wrapped(events[c]) /\ events[c] \in 0 .. event_count
      /\ event_count \in 0 .. (IntMod - 1)
  BY Widths DEF Inv, TypeOK, ThreadInv
<1>2. events[c] < event_count
  <2>1. events[c] \in 0 .. (IntMod - 1)
    BY <1>1, Widths
  <2>2. Unsigned(i[c]) = events[c]
    BY <1>1, <2>1, Counting, Zenon
  <2>. QED BY <2>2 DEF Fewer
<1>3. events[c] + 1 < IntMod /\ events[c] \in 0 .. (IntMod - 1)
  BY <1>1, <1>2, Widths
<1>4. /\ Increment(i[c]) = Wrapped(events[c] + 1)
      /\ Increment(i[c]) \in (-INT_MAX - 1) .. INT_MAX
  <2>1. Increment(i[c]) = Wrapped(events[c] + 1)
    BY <1>1, <1>3, Counting, Zenon
  <2>2. Wrapped(events[c] + 1) \in (-INT_MAX - 1) .. INT_MAX
    BY <1>1, <1>3, Widths DEF Wrapped
  <2>. QED BY <2>1, <2>2
<1>5. /\ i' = [i EXCEPT ![c] = Increment(i[c])]
      /\ events' = [events EXCEPT ![c] = events[c] + 1]
  <2>1. ~(events[c] > event_count)
    BY <1>1, <1>2
  <2>. QED BY <2>1, Zenon
<1>6. TypeOK'
  BY <1>1, <1>4, <1>5 DEF Inv, TypeOK
<1>7. ASSUME NEW d \in Cpu PROVE ThreadInv(d)'
  <2>1. CASE d = c
    <3>1. i'[c] = Wrapped(events'[c]) /\ events'[c] <= event_count /\ pc[c] = "loop"
      BY <1>1, <1>2, <1>4, <1>5 DEF Inv, TypeOK
    <3>. QED BY <2>1, <3>1 DEF Inv, ThreadInv
  <2>2. CASE d # c
    <3>1. i'[d] = i[d] /\ events'[d] = events[d] /\ ThreadInv(d)
      BY <1>5, <2>2 DEF Inv, TypeOK
    <3>. QED BY <3>1 DEF ThreadInv
  <2>. QED BY <2>1, <2>2
<1>. QED BY <1>6, <1>7 DEF Inv

LEMMA StopStep ==
  ASSUME Inv, NEW c \in Cpu, StopMeasuring(c)
  PROVE  Inv'
<1>. USE DEF StopMeasuring, clockVars, showVars
<1>1. /\ i[c] = Wrapped(events[c]) /\ events[c] \in 0 .. event_count
      /\ event_count \in 0 .. (IntMod - 1) /\ start_tv[c] = TimeValue(begun[c].wall)
      /\ begun[c].uptime <= uptime /\ begun[c].wall \in Int
  BY Widths DEF Inv, TypeOK, ThreadInv
<1>2. events[c] = event_count
  <2>1. events[c] \in 0 .. (IntMod - 1)
    BY <1>1, Widths
  <2>2. Unsigned(i[c]) = events[c]
    BY <1>1, <2>1, Counting, Zenon
  <2>. QED BY <1>1, <2>2 DEF Fewer
<1>3. /\ Difference(start_tv[c], TimeOfDay) = (wall - begun[c].wall) % LongMod
      /\ wall - begun[c].wall \in Int
  <2>1. TimeOfDay = TimeValue(wall) /\ wall \in Int
    BY Readings DEF Inv
  <2>2. Difference(TimeValue(begun[c].wall), TimeValue(wall)) = (wall - begun[c].wall) % LongMod
    BY <1>1, <2>1, DifferenceIsExact, Zenon
  <2>. QED BY <1>1, <2>1, <2>2
<1>4. (wall - begun[c].wall) % LongMod \in 0 .. (LongMod - 1)
  BY <1>3, Division, Positive
<1>5. TypeOK'
  <2>1. Reading \in [uptime : 0 .. MaxTime, wall : 0 .. MaxTime]
    BY Readings DEF Inv
  <2>2. time' \in [Cpu -> 0 .. (LongMod - 1)]
    BY <1>3, <1>4 DEF Inv, TypeOK
  <2>. QED BY <2>1, <2>2 DEF Inv, TypeOK
<1>6. ASSUME NEW d \in Cpu PROVE ThreadInv(d)'
  <2>1. CASE d = c
    <3>1. /\ pc'[c] = "done" /\ ended'[c] = Reading /\ begun' = begun
          /\ time'[c] = (wall - begun[c].wall) % LongMod /\ events' = events
      BY <1>3 DEF Inv, TypeOK
    <3>2. ended'[c].wall = wall /\ ended'[c].uptime = uptime
      BY <3>1, Readings DEF Inv
    <3>. QED BY <1>1, <1>2, <2>1, <3>1, <3>2 DEF ThreadInv
  <2>2. CASE d # c
    <3>1. pc'[d] = pc[d] /\ time'[d] = time[d] /\ ended'[d] = ended[d] /\ ThreadInv(d)
      BY <2>2 DEF Inv, TypeOK
    <3>. QED BY <3>1 DEF ThreadInv
  <2>. QED BY <2>1, <2>2
<1>. QED BY <1>5, <1>6 DEF Inv

LEMMA AddStep ==
  ASSUME Inv, AddTime
  PROVE  Inv'
<1>. USE DEF AddTime, clockVars, historyVars
<1>1. total' \in 0 .. (LongMod - 1)
  <2>1. total \in Int /\ time[cpu] \in Int
    BY DEF Inv, TypeOK
  <2>2. total + time[cpu] \in Int
    BY <2>1
  <2>3. (total + time[cpu]) % LongMod \in 0 .. (LongMod - 1)
    BY <2>2, Division, Positive
  <2>. QED BY <2>3 DEF Plus
<1>2. cpu' \in 0 .. Cpus
  BY CpusAssumption DEF Cpu, Inv, TypeOK
<1>3. TypeOK'
  BY <1>1, <1>2 DEF Inv, TypeOK
<1>. QED BY <1>3 DEF Inv, ThreadInv

(***************************************************************************)
(* The invariant is one: whatever the threads, the clock and time_show()   *)
(* do, a counter holds the events generated, wrapped, and a time is the    *)
(* difference of the wall clock.                                           *)
(***************************************************************************)
LEMMA TimerInv == Spec => []Inv
<1>1. ASSUME Inv, [Next]_vars PROVE Inv'
  <2>1. CASE Tick \/ SetClock
    BY <1>1, <2>1, TimeStep
  <2>2. CASE AddTime
    BY <1>1, <2>2, AddStep
  <2>3. ASSUME NEW c \in Cpu, StartMeasuring(c) \/ Generate(c) \/ StopMeasuring(c)
        PROVE  Inv'
    BY <1>1, <2>3, StartStep, GenerateStep, StopStep
  <2>4. CASE UNCHANGED vars
    BY <1>1, <2>4
    DEF Inv, TypeOK, ThreadInv, vars, clockVars, showVars, historyVars
  <2>. QED BY <1>1, <2>1, <2>2, <2>3, <2>4 DEF Next, Step, Finished
<1>. QED BY <1>1, Init0, PTL DEF Spec

-----------------------------------------------------------------------------
(***************************************************************************)
(* The sum of time_show(): it begins when all threads are done.            *)
(***************************************************************************)
Differences == [c \in Cpu |-> Apparently(c)]

TotalInv ==
  /\ cpu > 0 => \A c \in Cpu : pc[c] = "done"
  /\ \E s : Sums(Differences, cpu, s) /\ total = s[cpu] % LongMod

LEMMA NothingSummed ==
  ASSUME NEW a
  PROVE  \E s : Sums(a, 0, s) /\ 0 = s[0] % LongMod
<1>1. 0 % LongMod = 0
  BY Positive
<1>. DEFINE s == [k \in 0 .. 0 |-> 0]
<1>2. Sums(a, 0, s) /\ s[0] = 0
  BY DEF Sums
<1>. QED BY <1>1, <1>2

LEMMA AddTotal ==
  ASSUME Inv, TotalInv, AddTime
  PROVE  TotalInv'
<1>1. cpu \in Cpu /\ cpu \in Nat /\ cpu < Cpus
  BY CpusAssumption DEF AddTime, Cpu
<1>2. Differences \in [Cpu -> Int] /\ Differences' = Differences
  BY DEF Differences, Apparently, Inv, TypeOK, AddTime, historyVars
<1>3. PICK s : Sums(Differences, cpu, s) /\ total = s[cpu] % LongMod
  BY DEF TotalInv
<1>4. PICK t : Sums(Differences, cpu + 1, t) /\ t[cpu + 1] = s[cpu] + Differences[cpu]
  BY <1>1, <1>2, <1>3, SumsGrow
<1>5. time[cpu] = Differences[cpu] % LongMod
  BY <1>1 DEF Inv, ThreadInv, AddTime, Differences, Apparently
<1>6. total' = (s[cpu] + Differences[cpu]) % LongMod
  <2>1. PICK x \in Int, y \in Int : x = s[cpu] /\ y = Differences[cpu]
    BY <1>1, <1>2, <1>3 DEF Sums
  <2>2. PICK p \in Int : p = y % LongMod
    BY Division, Positive
  <2>3. ((x % LongMod) + p) % LongMod = (x + p) % LongMod
    BY ONLY x \in Int, p \in Int, PlusRemainder, Positive, Zenon
  <2>4. (p + x) % LongMod = (y + x) % LongMod
    BY ONLY x \in Int, y \in Int, <2>2, PlusRemainder, Positive, Zenon
  <2>5. x + p = p + x /\ x + y = y + x
    OBVIOUS
  <2>6. total' = ((x % LongMod) + p) % LongMod
    BY <1>3, <1>5, <2>1, <2>2, Zenon DEF AddTime, Plus
  <2>. QED BY <2>1, <2>3, <2>4, <2>5, <2>6, Zenon
<1>7. Sums(Differences', cpu', t) /\ total' = t[cpu'] % LongMod
  BY <1>2, <1>4, <1>6 DEF AddTime
<1>. QED BY <1>7 DEF TotalInv, AddTime

LEMMA TotalKept ==
  ASSUME TotalInv, UNCHANGED <<pc, showVars, begun, ended>>
  PROVE  TotalInv'
BY DEF TotalInv, Differences, Apparently, showVars

(* The times are summed as they will be when all threads are done.         *)
LEMMA TotalIsSum == Spec => [](Inv /\ TotalInv)
<1>1. Init => TotalInv
  BY NothingSummed DEF Init, TotalInv
<1>2. ASSUME Inv, TotalInv, [Next]_vars PROVE TotalInv'
  <2>1. CASE AddTime
    BY <1>2, <2>1, AddTotal
  <2>2. ASSUME NEW c \in Cpu, StartMeasuring(c) \/ StopMeasuring(c)
        PROVE  TotalInv'
    <3>1. cpu = 0 /\ pc[c] # "done"
      BY <1>2, <2>2 DEF TotalInv, StartMeasuring, StopMeasuring, Inv, TypeOK
    <3>2. total = 0
      BY <1>2, <3>1, Positive DEF TotalInv, Sums
    <3>3. cpu' = 0 /\ total' = 0
      BY <2>2, <3>1, <3>2 DEF StartMeasuring, StopMeasuring, showVars
    <3>. QED BY <3>3, NothingSummed DEF TotalInv
  <2>3. CASE UNCHANGED <<pc, showVars, begun, ended>>
    BY <1>2, <2>3, TotalKept
  <2>4. ASSUME NEW c \in Cpu, Generate(c) PROVE TotalInv'
    BY <2>3, <2>4 DEF Generate
  <2>5. CASE Tick \/ SetClock \/ UNCHANGED vars
    BY <2>3, <2>5 DEF Tick, SetClock, vars, historyVars
  <2>. QED BY <1>2, <2>1, <2>2, <2>4, <2>5 DEF Next, Step, Finished
<1>. QED BY <1>1, <1>2, TimerInv, PTL DEF Spec

-----------------------------------------------------------------------------
(***************************************************************************)
(* Theorems.                                                               *)
(***************************************************************************)

(* The variables of the threads and of time_show() keep to the widths of   *)
(* their types in C, whatever the clock does.                              *)
THEOREM TimerTypeCorrect == Spec => []TypeOK
BY TimerInv, PTL DEF Inv

(* The time a thread computes (lttng_benchmark.c:40-46) is the one it took *)
(* unless the clock was set meanwhile: the borrow of the microseconds and  *)
(* the wraps of the unsigned arithmetic cancel out, for every length of a  *)
(* second and every width of the sum.                                      *)
THEOREM TimeExactCorrect == Spec => []TimeExact
<1>1. ASSUME Inv PROVE TimeExact
  <2>. SUFFICES ASSUME NEW c \in Cpu, pc[c] = "done", Apparently(c) = Really(c)
                PROVE  time[c] = Really(c)
    BY DEF TimeExact
  <2>1. time[c] = Really(c) % LongMod
    BY <1>1 DEF Inv, ThreadInv, Apparently
  <2>2. Really(c) \in 0 .. MaxTime
    BY <1>1, Positive DEF Inv, TypeOK, ThreadInv, Really
  <2>3. Really(c) % LongMod = Really(c)
    BY <2>2, Positive
  <2>. QED BY <2>1, <2>3
<1>. QED BY <1>1, TimerInv, PTL

(* The time that "time" shows is the sum of what the wall clock went       *)
(* forward in each thread, modulo the width of the sum, for any number of  *)
(* CPUs: where the clock was set back in one thread, and its time wrapped, *)
(* the sum of lttng_benchmark.c:90-95 wraps back.                          *)
THEOREM TotalExactCorrect == Spec => []TotalExact
<1>1. ASSUME Inv, TotalInv PROVE TotalExact
  <2>. SUFFICES ASSUME Returned PROVE total = SumOver(Apparently, Cpus) % LongMod
    BY DEF TotalExact
  <2>1. PICK s : Sums(Differences, Cpus, s) /\ total = s[Cpus] % LongMod
    BY <1>1 DEF TotalInv, Returned
  <2>2. /\ Differences \in [Cpu -> Int]
        /\ \A c \in Cpu : Differences[c] = Apparently(c)
    BY <1>1 DEF Differences, Apparently, Inv, TypeOK
  <2>3. Cpus \in 0 .. Cpus
    BY CpusAssumption
  <2>4. SumOver(Apparently, Cpus) = s[Cpus]
    BY <2>1, <2>2, <2>3, SumOverIs
  <2>. QED BY <2>1, <2>4
<1>. QED BY <1>1, TotalIsSum, PTL

(* A thread generates event_count events, for every event_count an         *)
(* unsigned int holds, though the counter is an int that wraps             *)
(* (lttng_benchmark.c:38-39).                                              *)
THEOREM EventsCountedCorrect == Spec => []EventsCounted
<1>1. ASSUME Inv PROVE EventsCounted
  BY <1>1 DEF Inv, ThreadInv, EventsCounted
<1>. QED BY <1>1, TimerInv, PTL

=============================================================================
