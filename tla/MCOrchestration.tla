-------------------------- MODULE MCOrchestration ---------------------------
(***************************************************************************)
(* Instances of module Orchestration for TLC.                              *)
(***************************************************************************)
EXTENDS Orchestration

=============================================================================
