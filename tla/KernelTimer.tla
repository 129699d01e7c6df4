---------------------------- MODULE KernelTimer -----------------------------
(***************************************************************************)
(* The numbers of the kernel benchmark, that KernelBenchmark leaves out:   *)
(* what a thread computes from two readings of the wall clock, which may   *)
(* be set meanwhile, how it counts its events, and the sum of time_show(). *)
(***************************************************************************)
EXTENDS Integers

CONSTANTS
  Cpus,          \* the CPUs online are 0 to Cpus - 1
  USEC_PER_SEC,
  LongMod,       \* the values of an unsigned long long, 2^64
  IntMod,        \* those of an unsigned int, 2^32
  Counts,        \* what event_count may be
  MaxTime        \* bound on both clocks

ASSUME CpusAssumption == Cpus \in Nat \ {0}
ASSUME SecondAssumption == USEC_PER_SEC \in Nat \ {0}
ASSUME LongModAssumption == LongMod \in Nat /\ MaxTime < LongMod
ASSUME IntModAssumption == IntMod \in Nat /\ IntMod % 2 = 0 /\ IntMod > 0
ASSUME CountsAssumption == Counts \subseteq 0 .. (IntMod - 1)
ASSUME MaxTimeAssumption == MaxTime \in Nat

INT_MAX == (IntMod \div 2) - 1
Cpu == 0 .. (Cpus - 1)

VARIABLES
  uptime,       \* the time that really passes, in microseconds
  wall,         \* the time of the wall clock
  event_count,
  pc,           \* of each thread
  i,            \* its counter
  start_tv,     \* its first reading of the wall clock
  time,         \* threads[cpu].time
  cpu, total,   \* cpu and time of time_show()
  begun, ended, \* history: uptime and wall when a thread starts and stops measuring
  events        \* history: the events it has generated, as far as they matter

clockVars == <<uptime, wall>>
showVars == <<cpu, total>>
historyVars == <<begun, ended, events>>
vars == <<clockVars, event_count, pc, i, start_tv, time, showVars, historyVars>>

-----------------------------------------------------------------------------
(* do_gettimeofday()                                                       *)
TimeOfDay == [tv_sec |-> wall \div USEC_PER_SEC, tv_usec |-> wall % USEC_PER_SEC]

(* Mutated: the microseconds are counted from the larger to the smaller.   *)
Distance(start, end) ==
  LET usecs == end.tv_usec - start.tv_usec
      time1 == (end.tv_sec - start.tv_sec) % LongMod
      time2 == (time1 * USEC_PER_SEC) % LongMod
  IN  (time2 + (IF usecs < 0 THEN -usecs ELSE usecs)) % LongMod

Difference(start, end) ==
  LET time1 == (end.tv_sec - start.tv_sec) % LongMod
      time2 == (time1 * USEC_PER_SEC) % LongMod
  IN  (time2 + (end.tv_usec - start.tv_usec)) % LongMod

(* Compared with an unsigned int an int is one, too.                       *)
Unsigned(n) == n % IntMod

(* Mutated: both are compared as ints.                                     *)
FewerInts(n) ==
  n < IF event_count > INT_MAX THEN event_count - IntMod ELSE event_count

Fewer(n) == Unsigned(n) < event_count

(* Mutated: nothing wraps.                                                 *)
WideIncrement(n) == n + 1

(* The kernel is built so that ints wrap.                                  *)
Increment(n) == IF n = INT_MAX THEN -INT_MAX - 1 ELSE n + 1

(* Mutated: the sum is an unsigned int.                                    *)
PlusInt(sum, t) == (sum + t) % IntMod

Plus(sum, t) == (sum + t) % LongMod

Reading == [uptime |-> uptime, wall |-> wall]

-----------------------------------------------------------------------------
Init ==
  /\ uptime = 0 /\ wall \in 0 .. MaxTime
  /\ event_count \in Counts
  /\ pc = [c \in Cpu |-> "gate"]
  /\ i = [c \in Cpu |-> 0]
  /\ start_tv = [c \in Cpu |-> TimeOfDay]
  /\ time = [c \in Cpu |-> 0]
  /\ cpu = 0 /\ total = 0
  /\ begun = [c \in Cpu |-> Reading] /\ ended = begun
  /\ events = [c \in Cpu |-> 0]

Tick ==
  /\ uptime < MaxTime /\ wall < MaxTime
  /\ uptime' = uptime + 1 /\ wall' = wall + 1
  /\ UNCHANGED <<event_count, pc, i, start_tv, time, showVars, historyVars>>

SetClock ==
  /\ wall' \in 0 .. MaxTime
  /\ UNCHANGED <<uptime, event_count, pc, i, start_tv, time, showVars, historyVars>>

StartMeasuring(c) ==
  /\ pc[c] = "gate"
  /\ pc' = [pc EXCEPT ![c] = "loop"]
  /\ start_tv' = [start_tv EXCEPT ![c] = TimeOfDay]
  /\ begun' = [begun EXCEPT ![c] = Reading]
  /\ UNCHANGED <<clockVars, event_count, i, time, showVars, ended, events>>

Generate(c) ==
  /\ pc[c] = "loop" /\ Fewer(i[c])
  /\ i' = [i EXCEPT ![c] = Increment(@)]
  /\ events' = [events EXCEPT ![c] = IF @ > event_count THEN @ ELSE @ + 1]
  /\ UNCHANGED <<clockVars, event_count, pc, start_tv, time, showVars, begun, ended>>

(* The second reading, and the difference.                                 *)
StopMeasuring(c) ==
  /\ pc[c] = "loop" /\ ~Fewer(i[c])
  /\ pc' = [pc EXCEPT ![c] = "done"]
  /\ time' = [time EXCEPT ![c] = Difference(start_tv[c], TimeOfDay)]
  /\ ended' = [ended EXCEPT ![c] = Reading]
  /\ UNCHANGED <<clockVars, event_count, i, start_tv, showVars, begun, events>>

(* The last loop of time_show(), when all threads have completed.          *)
AddTime ==
  /\ \A c \in Cpu : pc[c] = "done"
  /\ cpu \in Cpu
  /\ total' = Plus(total, time[cpu])
  /\ cpu' = cpu + 1
  /\ UNCHANGED <<clockVars, event_count, pc, i, start_tv, time, historyVars>>

Returned == cpu = Cpus

Finished == Returned /\ UNCHANGED vars

Step == AddTime \/ \E c \in Cpu : StartMeasuring(c) \/ Generate(c) \/ StopMeasuring(c)

Next == Step \/ Tick \/ SetClock \/ Finished

Spec == Init /\ [][Next]_vars

-----------------------------------------------------------------------------
(***************************************************************************)
(* Properties.                                                             *)
(***************************************************************************)
TypeOK ==
  /\ uptime \in 0 .. MaxTime /\ wall \in 0 .. MaxTime
  /\ event_count \in Counts
  /\ pc \in [Cpu -> {"gate", "loop", "done"}]
  /\ i \in [Cpu -> (-INT_MAX - 1) .. INT_MAX]
  /\ start_tv \in [Cpu -> [tv_sec : 0 .. MaxTime, tv_usec : 0 .. (USEC_PER_SEC - 1)]]
  /\ time \in [Cpu -> 0 .. (LongMod - 1)]
  /\ cpu \in 0 .. Cpus /\ total \in 0 .. (LongMod - 1)
  /\ begun \in [Cpu -> [uptime : 0 .. MaxTime, wall : 0 .. MaxTime]]
  /\ ended \in [Cpu -> [uptime : 0 .. MaxTime, wall : 0 .. MaxTime]]
  /\ events \in [Cpu -> Nat]

Really(c) == ended[c].uptime - begun[c].uptime
Apparently(c) == ended[c].wall - begun[c].wall

(* The time of a thread is the time it took, unless the clock was set      *)
(* meanwhile; also when the seconds have changed between the readings and  *)
(* the microseconds are fewer at the end.                                  *)
TimeExact ==
  \A c \in Cpu : pc[c] = "done" /\ Apparently(c) = Really(c) => time[c] = Really(c)

(* The sum over the first n CPUs.                                          *)
SumOver(F(_), n) ==
  LET sum[k \in 0 .. n] == IF k = 0 THEN 0 ELSE sum[k - 1] + F(k - 1)
  IN  sum[n]

(* A clock that is set back while a thread measures makes its time huge.   *)
(* The sum of time_show() makes up for it: a thread that saw the clock go  *)
(* back counts against one that saw it go forward.                         *)
TotalExact == Returned => total = SumOver(Apparently, Cpus) % LongMod

(* Each thread generates event_count events, though its counter is an int  *)
(* and event_count may be beyond those.                                    *)
EventsCounted == \A c \in Cpu : pc[c] = "done" => events[c] = event_count

=============================================================================
