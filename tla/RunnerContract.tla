--------------------------- MODULE RunnerContract ---------------------------
(***************************************************************************)
(* What src/benchmarks.py may rely on when it runs lttng-ust-benchmarks    *)
(* (run_benchmark_tool(): subprocess.check_output() and json.loads()): an  *)
(* invocation that exits with status 0 has printed, for each of as many    *)
(* different processes as there are CPUs, the complete record of that      *)
(* process in that run; any other invocation fails as a whole.             *)
(*                                                                         *)
(* The code keeps this promise except when a child could not clear its     *)
(* buffer or not record "exec", which run_child() does not look at; such a *)
(* run may exit with status 0 and print anything, and is "tainted" here.   *)
(***************************************************************************)
EXTENDS BenchmarkEvents

CONSTANTS NProcs, MaxRuns, Modes

VARIABLES
  phase,   \* where the current invocation is
  run,     \* its number
  mode,    \* its arguments
  report   \* the records it has delivered

vars == <<phase, run, mode, report>>

Init ==
  /\ phase = "idle"
  /\ run = 0
  /\ mode = "startup"
  /\ report = <<>>

Invoke ==
  /\ phase # "running"
  /\ run < MaxRuns
  /\ phase' = "running"
  /\ run' = run + 1
  /\ mode' \in Modes
  /\ report' = <<>>

Deliver ==
  /\ phase = "running"
  /\ mode # "usage"
  /\ \E ids \in [1 .. NProcs -> Pid] :
       /\ \A j, k \in 1 .. NProcs : ids[j] = ids[k] => j = k
       /\ report' = [k \in 1 .. NProcs |-> Record(ids[k], run, mode)]
  /\ phase' = "delivered"
  /\ UNCHANGED <<run, mode>>

Fail ==
  /\ phase = "running"
  /\ phase' \in {"failed", "tainted"}
  /\ UNCHANGED <<run, mode, report>>

Next == Invoke \/ Deliver \/ Fail

Spec == Init /\ [][Next]_vars

=============================================================================
