-------------------------- MODULE BenchmarkEvents ---------------------------
(***************************************************************************)
(* The events a benchmark process records about itself                     *)
(* (src/shared_events.h, src/lttng-ust-benchmarks.c, src/basic-benchmark.c *)
(* and src/sha2-benchmark.c), and what a correct record of one process is. *)
(***************************************************************************)
EXTENDS Naturals, Sequences

CONSTANTS
  Pid,   \* the process ids children can get
  None   \* no process

EventName == {"exec", "main", "start", "end"}

(***************************************************************************)
(* A slot of the buffer, struct shared_event.  "by" and "born" are the pid *)
(* and the run of the process that wrote the name, "stamp" is the run in   *)
(* which the timestamp was written: an event whose stamp is not born has a *)
(* timestamp that an earlier process left in the slot (0: the zeros of     *)
(* ftruncate()).                                                           *)
(***************************************************************************)
Event == [name : EventName \cup {""}, by : Pid \cup {None},
          born : Nat, stamp : Nat]

Blank == [name |-> "", by |-> None, born |-> 0, stamp |-> 0]

(***************************************************************************)
(* The argument lists of a benchmark: none, a number of iterations, or     *)
(* something it answers with its usage and a failure.                      *)
(***************************************************************************)
Mode == {"startup", "loops", "usage"}

(***************************************************************************)
(* The events of a process that ran to its end without a failure, and the  *)
(* record of process c of run r that has them all, each with its own time. *)
(***************************************************************************)
EventAt == <<"exec", "main", "start", "end">>

ScriptLen(m) == IF m = "loops" THEN 4 ELSE 2

Genuine(n, c, r) == [name |-> EventAt[n], by |-> c, born |-> r, stamp |-> r]

Record(c, r, m) == [n \in 1 .. ScriptLen(m) |-> Genuine(n, c, r)]

=============================================================================
