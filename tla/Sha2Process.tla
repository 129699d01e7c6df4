---------------------------- MODULE Sha2Process ----------------------------
(***************************************************************************)
(* sha2_process(), block after block of one message, one line of its 64    *)
(* rounds per step.                                                        *)
(*                                                                         *)
(* The code never moves the variables A to H: each line names them one     *)
(* place further round.  What it does with words is left to constants.     *)
(***************************************************************************)
EXTENDS Sha2Macros

CONSTANTS
  Initial(_, _),  \* a word of the state after sha2_starts(), for is224
  Inputs          \* what is hashed: records with is224 and data, whole blocks

Rounds == 64
Register == 0 .. 7

VARIABLES
  input,  \* what is hashed
  block,  \* the blocks of it that are done
  state,  \* ctx->state
  reg,    \* A to H
  W,      \* W[0] to W[t - 1]
  t       \* the line

processVars == <<input, block, state, reg, W, t>>

ProcessInit ==
  /\ input \in Inputs
  /\ block = 0
  /\ state = [r \in Register |-> Initial(input.is224, r)]
  /\ reg = state
  /\ W = NoWords
  /\ t = 0

HasBlock == 64 * block < Len(input.data)

Round ==
  LET x == Scheduled(input.data, block, W, t)
  IN  /\ HasBlock /\ t < Rounds
      /\ W' = Stored(W, t, x)
      /\ reg' = P(reg, t, x)
      /\ t' = t + 1
      /\ UNCHANGED <<input, block, state>>

(* The end of one call, and the start of the next.                         *)
AddBack ==
  /\ HasBlock /\ t = Rounds
  /\ state' = [i \in Register |-> Plus(state[i], reg[i])]
  /\ reg' = state'
  /\ W' = NoWords
  /\ t' = 0
  /\ block' = block + 1
  /\ UNCHANGED input

Finished == ~HasBlock /\ UNCHANGED processVars

ProcessNext == Round \/ AddBack \/ Finished

ProcessSpec == ProcessInit /\ [][ProcessNext]_processVars

-----------------------------------------------------------------------------
(* What the standard calls a to h after t lines.                           *)
Working == [r \in Register |-> reg[At(r, t)]]

Fips == INSTANCE Sha2Compression WITH v <- Working

(* The 64 lines with their renamed variables do what FIPS 180-2 says, that *)
(* moves all eight of them in every round.                                 *)
ImplementsFips == Fips!Spec

=============================================================================
