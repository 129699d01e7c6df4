------------------------------ MODULE MCRunner ------------------------------
(***************************************************************************)
(* Instances of module Runner for TLC.                                     *)
(***************************************************************************)
EXTENDS RunnerInvariants, TLC

(* Pids are interchangeable: nothing orders them.  Used by the runs that   *)
(* check no liveness property.                                             *)
PidSymmetry == Permutations(Pid)

=============================================================================
