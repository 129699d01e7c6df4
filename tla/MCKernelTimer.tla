--------------------------- MODULE MCKernelTimer ----------------------------
(***************************************************************************)
(* Instances of module KernelTimer for TLC.                                *)
(***************************************************************************)
EXTENDS KernelTimer

=============================================================================
