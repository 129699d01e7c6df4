--------------------------- MODULE BenchmarkLoop ----------------------------
(***************************************************************************)
(* One benchmark process with its clock and its loop: from the event       *)
(* "exec" that run_child() records to the exit of basic-benchmark or       *)
(* sha2-benchmark.                                                         *)
(*                                                                         *)
(* Time may pass at every point.  spent remembers where it has.            *)
(***************************************************************************)
EXTENDS Integers

CONSTANTS
  IntMod,      \* the values of an int, 2^32
  CharMod,     \* the values of an unsigned char, 2^8
  Iterations,  \* what strtol() may return
  MaxTime      \* bound on the clock

ASSUME IntModAssumption ==
  /\ CharMod \in Nat /\ CharMod > 1
  /\ IntMod \in Nat /\ IntMod % CharMod = 0 /\ IntMod % 2 = 0 /\ IntMod > 0
ASSUME IterationsAssumption == Iterations \subseteq Int
ASSUME MaxTimeAssumption == MaxTime \in Nat

INT_MAX == (IntMod \div 2) - 1
UINT_MAX == IntMod - 1

Program == {"basic", "sha2"}
Event == {"exec", "main", "start", "end"}
NoTime == -1

VARIABLES
  program,     \* which benchmark it is
  wide,        \* how the compiler has translated its counter, see Increment
  argc,        \* 1, 2, or more
  pc,          \* in shared_events_add(), after it, or at an end
  event,       \* the event that is recorded, or the last one
  tmpts,       \* of shared_events_add()
  ts,          \* the timestamps of the events
  now,         \* CLOCK_MONOTONIC
  iterations, i,
  effect,      \* side_effect[], or what input_buffer was filled with
  turns,       \* history: the turns of the loop, as far as they matter
  spent        \* history: the time spent in and after each call

programVars == <<program, wide, argc>>
loopVars == <<i, effect, turns>>
clockVars == <<now, spent>>
vars == <<programVars, pc, event, tmpts, ts, iterations, loopVars, clockVars>>

In == {"slot", "stamp"}
Where == IF pc \in In THEN <<"in", event>> ELSE <<"after", event>>

-----------------------------------------------------------------------------
(***************************************************************************)
(* What the programs compute.                                              *)
(***************************************************************************)

(* input_buffer is static.                                                 *)
NoEffect(p) == IF p = "basic" THEN <<0, 1>> ELSE CharMod

(* Mutated: z is computed from the new x.                                  *)
LateSum(p, e, n) == IF p = "basic" THEN <<e[2], (e[2] + e[2]) % IntMod>> ELSE n % CharMod

(* Mutated: the sum is that of long integers.                              *)
LongSum(p, e, n) == IF p = "basic" THEN <<e[2], e[1] + e[2]>> ELSE n % CharMod

(* The sum of two ints wraps in the builds.  update_buffer() stores v ^ i  *)
(* in byte i: v modulo 2^8 tells the contents.                             *)
Effect(p, e, n) == IF p = "basic" THEN <<e[2], (e[1] + e[2]) % IntMod>> ELSE n % CharMod

(* Mutated: the counter of sha2-benchmark is an int, too.                  *)
SignedIncrement(n) == IF n = INT_MAX /\ ~wide THEN -INT_MAX - 1 ELSE n + 1

(* i++.  The overflow of an int is undefined: it wraps, or i is kept in a  *)
(* register that is as wide as iterations.                                 *)
Increment(n) ==
  IF program = "sha2" THEN (n + 1) % IntMod
  ELSE IF n = INT_MAX /\ ~wide THEN -INT_MAX - 1
  ELSE n + 1

(* Mutated: one turn too many.                                             *)
MoreOrEqual(n) == n <= iterations

More(n) == n < iterations

(* Mutated: every event takes its time first.                              *)
StampedFirst(e) == tmpts

Stamped(e) == IF e = "start" THEN now ELSE tmpts

-----------------------------------------------------------------------------
(* run_child() has just called shared_events_add("exec"), and does not     *)
(* look at its result.                                                     *)
Init ==
  /\ program \in Program /\ wide \in BOOLEAN /\ argc \in 1 .. 3
  /\ pc = "slot" /\ event = "exec"
  /\ now = 0 /\ tmpts = now /\ ts = [e \in Event |-> NoTime]
  /\ iterations = 0 /\ i = 0 /\ turns = 0
  /\ effect = NoEffect(program)
  /\ spent = [w \in {"in", "after"} \X Event |-> 0]

Tick ==
  /\ now < MaxTime
  /\ pc \notin {"done", "failed"}
  /\ now' = now + 1
  /\ spent' = [spent EXCEPT ![Where] = @ + 1]
  /\ UNCHANGED <<programVars, pc, event, tmpts, ts, iterations, loopVars>>

(* shared_events_add(): its start, where clock_gettime() may fail; ...     *)
Call(e) ==
  \/ pc' = "slot" /\ event' = e /\ tmpts' = now
  \/ pc' = "failed" /\ event' = e /\ UNCHANGED tmpts

(* ... the slot, if the buffer can be opened and has one, ...              *)
Slot ==
  /\ pc = "slot"
  /\ pc' \in {"stamp", IF event = "exec" THEN "after" ELSE "failed"}
  /\ UNCHANGED <<programVars, event, tmpts, ts, iterations, loopVars, clockVars>>

(* ... and the timestamp, for which "start" reads the clock again.         *)
Stamp ==
  /\ pc = "stamp"
  /\ \/ pc' = "after" /\ ts' = [ts EXCEPT ![event] = Stamped(event)]
     \/ event = "start" /\ pc' = "failed" /\ UNCHANGED ts
  /\ UNCHANGED <<programVars, event, tmpts, iterations, loopVars, clockVars>>

(* execv(), which may fail, and all that happens before main().            *)
Exec ==
  /\ pc = "after" /\ event = "exec"
  /\ Call("main")
  /\ UNCHANGED <<programVars, ts, iterations, loopVars, clockVars>>

Args ==
  /\ pc = "after" /\ event = "main"
  /\ \/ argc = 1 /\ pc' = "done" /\ UNCHANGED <<event, tmpts, iterations>>
     \/ argc > 2 /\ pc' = "failed" /\ UNCHANGED <<event, tmpts, iterations>>
     \/ /\ argc = 2
        /\ iterations' \in Iterations
        /\ IF iterations' > 0
           THEN Call("start")
           ELSE pc' = "failed" /\ UNCHANGED <<event, tmpts>>
  /\ UNCHANGED <<programVars, ts, loopVars, clockVars>>

Turn ==
  /\ pc = "after" /\ event = "start"
  /\ More(i)
  /\ effect' = Effect(program, effect, i)
  /\ i' = Increment(i)
  /\ turns' = IF turns > iterations THEN turns ELSE turns + 1
  /\ UNCHANGED <<programVars, pc, event, tmpts, ts, iterations, clockVars>>

LoopEnds ==
  /\ pc = "after" /\ event = "start"
  /\ ~More(i)
  /\ Call("end")
  /\ UNCHANGED <<programVars, ts, iterations, loopVars, clockVars>>

(* With sha2_finish(), if it is that program.                              *)
Exit ==
  /\ pc = "after" /\ event = "end"
  /\ pc' = "done"
  /\ UNCHANGED <<programVars, event, tmpts, ts, iterations, loopVars, clockVars>>

Ended == pc \in {"done", "failed"} /\ UNCHANGED vars

Step == Slot \/ Stamp \/ Exec \/ Args \/ Turn \/ LoopEnds \/ Exit

Next == Step \/ Tick \/ Ended

Spec == Init /\ [][Next]_vars

(* The process is scheduled.                                               *)
FairSpec == Spec /\ WF_vars(Step)

-----------------------------------------------------------------------------
(***************************************************************************)
(* Properties.                                                             *)
(***************************************************************************)
TypeOK ==
  /\ program \in Program /\ wide \in BOOLEAN /\ argc \in 1 .. 3
  /\ pc \in In \cup {"after", "done", "failed"}
  /\ event \in Event
  /\ now \in 0 .. MaxTime /\ tmpts \in 0 .. MaxTime /\ ts \in [Event -> NoTime .. MaxTime]
  /\ iterations \in Iterations \cup {0}
  /\ i \in Int /\ turns \in Nat
  /\ effect \in IF program = "basic" THEN (0 .. UINT_MAX) \X (0 .. UINT_MAX)
                                     ELSE 0 .. CharMod
  /\ spent \in [{"in", "after"} \X Event -> Nat]

Looped == pc = "done" /\ argc = 2

(* What benchmarks.py takes for the time of the loop and for the time to   *)
(* start: no call that records an event is in the first, and in the second *)
(* only that of "exec", which run_child() makes before the exec.           *)
Intervals ==
  /\ Looped => ts["end"] - ts["start"] = spent[<<"after", "start">>]
  /\ pc = "done" /\ ts["exec"] # NoTime =>
       ts["main"] - ts["exec"] = spent[<<"in", "exec">>] + spent[<<"after", "exec">>]

(* A benchmark that reports its end has made as many turns as it was asked *)
(* for, also when its counter is too narrow to count them.                 *)
TurnsCounted == Looped => turns = iterations

(* No turn leaves the side effect as it was, also after the sums have      *)
(* overflown and the counter has wrapped.  The buffer of sha2 is updated   *)
(* so that no loop hashes what the one before has (sha2-benchmark.c:35);   *)
(* that of basic is volatile, its turns stay whatever they write.          *)
EveryTurnCounts == [][i' # i => effect' # effect]_vars

(* The loop ends if its counter can reach the number of iterations.        *)
CounterFits == iterations <= (IF program = "basic" THEN INT_MAX ELSE UINT_MAX)

Ends == <>(pc \in {"done", "failed"} \/ ~CounterFits)

=============================================================================
