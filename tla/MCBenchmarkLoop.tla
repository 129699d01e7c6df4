-------------------------- MODULE MCBenchmarkLoop ---------------------------
(***************************************************************************)
(* Instances of module BenchmarkLoop for TLC.                              *)
(***************************************************************************)
EXTENDS BenchmarkLoop

MCIterations == {-1, 0, 2, 3, 4, 7, 8, 9}

=============================================================================
