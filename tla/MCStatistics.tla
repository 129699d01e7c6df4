---------------------------- MODULE MCStatistics ----------------------------
(***************************************************************************)
(* Instances of module Statistics for TLC.                                 *)
(***************************************************************************)
EXTENDS Statistics

Report(boot, run) == [boot |-> boot, run |-> run]

(* One report, and two that differ in either time.                         *)
MCOutputs ==
  {<<Report(1, 2)>>, <<Report(0, 1), Report(0, 0)>>,
   <<Report(0, 3), Report(2, 0)>>, <<Report(3, 0), Report(1, 1)>>}

MCPasses == <<"full", "full", "fast", "kernel">>

=============================================================================
