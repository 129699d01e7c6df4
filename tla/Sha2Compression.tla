-------------------------- MODULE Sha2Compression --------------------------
(***************************************************************************)
(* The hash computation of FIPS 180-2, 6.2.2: in each round the working    *)
(* variables a to h all move on by one.                                    *)
(***************************************************************************)
EXTENDS Integers, Sequences

CONSTANTS Plus(_, _), S0(_), S1(_), S2(_), S3(_), F0(_, _, _), F1(_, _, _), K(_), Get(_),
          Initial(_, _)

VARIABLES input, block, state, v, W, t

vars == <<input, block, state, v, W, t>>

Init ==
  /\ block = 0 /\ t = 0
  /\ state = [r \in 0 .. 7 |-> Initial(input.is224, r)] /\ v = state
  /\ W = [i \in {} |-> 0]

(* Step 1: the message schedule.                                           *)
Schedule ==
  W' = [i \in 0 .. t |->
          IF i < t THEN W[i]
          ELSE IF t < 16
          THEN Get(SubSeq(input.data, 64 * block + 4 * t + 1, 64 * block + 4 * t + 4))
          ELSE Plus(Plus(S1(W[t - 2]), W[t - 7]), Plus(S0(W[t - 15]), W[t - 16]))]

(* Step 3, with F1 for Ch and F0 for Maj.                                  *)
Step ==
  LET T1 == Plus(Plus(Plus(v[7], S3(v[4])), Plus(F1(v[4], v[5], v[6]), K(t))), W'[t])
      T2 == Plus(S2(v[0]), F0(v[0], v[1], v[2]))
  IN  /\ t < 64
      /\ Schedule
      /\ v' = [r \in 0 .. 7 |-> IF r = 0 THEN Plus(T1, T2)
                                ELSE IF r = 4 THEN Plus(v[3], T1)
                                ELSE v[r - 1]]
      /\ t' = t + 1
      /\ UNCHANGED <<input, block, state>>

(* Steps 4 and 2.                                                          *)
NextBlock ==
  /\ t = 64
  /\ state' = [r \in 0 .. 7 |-> Plus(state[r], v[r])]
  /\ v' = state'
  /\ block' = block + 1 /\ t' = 0
  /\ W' = [i \in {} |-> 0]
  /\ UNCHANGED input

Next == 64 * block < Len(input.data) /\ (Step \/ NextBlock)

Spec == Init /\ [][Next]_vars

=============================================================================
