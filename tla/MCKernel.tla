------------------------------ MODULE MCKernel ------------------------------
(***************************************************************************)
(* Instances of module KernelBenchmark for TLC.                            *)
(***************************************************************************)
EXTENDS KernelInvariants

(* No read but the first has begun.                                        *)
Alone == \A k \in Read \ {1} : rpc[k] = "new"

(* Reads overlap as long as they are left in peace; signals, CPUs that     *)
(* come or go and stores are for one read on its own.                      *)
MCNext == Next /\ (sig' # {} \/ seen' # {} => Alone')

MCSpec == Init /\ [][MCNext]_vars /\ Fairness

=============================================================================
