----------------------- MODULE MCTracepointGenerator ------------------------
(***************************************************************************)
(* Instances of module TracepointGenerator for TLC.                        *)
(***************************************************************************)
EXTENDS TracepointGenerator

=============================================================================
