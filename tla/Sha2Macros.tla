----------------------------- MODULE Sha2Macros -----------------------------
(***************************************************************************)
(* The macros of sha2_process().  What they do with words is left to the   *)
(* constants.                                                              *)
(***************************************************************************)
EXTENDS Integers, Sequences

CONSTANTS
  Plus(_, _),  \* the sum of two words
  S0(_), S1(_), S2(_), S3(_), F0(_, _, _), F1(_, _, _),  \* the macros on words
  K(_),        \* the constant in line n
  Get(_)       \* GET_UINT32_BE(), the word of four bytes

(* R(t)                                                                    *)
R(w, n) == Plus(Plus(S1(w[n - 2]), w[n - 7]), Plus(S0(w[n - 15]), w[n - 16]))

(* The variables that the lines of sha2_process() name, line by line.      *)
Lines ==
  LET A == 0  B == 1  C == 2  D == 3  E == 4  F == 5  G == 6  H == 7
  IN <<<<A,B,C,D,E,F,G,H>>, <<H,A,B,C,D,E,F,G>>, <<G,H,A,B,C,D,E,F>>, <<F,G,H,A,B,C,D,E>>,
       <<E,F,G,H,A,B,C,D>>, <<D,E,F,G,H,A,B,C>>, <<C,D,E,F,G,H,A,B>>, <<B,C,D,E,F,G,H,A>>,
       <<A,B,C,D,E,F,G,H>>, <<H,A,B,C,D,E,F,G>>, <<G,H,A,B,C,D,E,F>>, <<F,G,H,A,B,C,D,E>>,
       <<E,F,G,H,A,B,C,D>>, <<D,E,F,G,H,A,B,C>>, <<C,D,E,F,G,H,A,B>>, <<B,C,D,E,F,G,H,A>>,
       <<A,B,C,D,E,F,G,H>>, <<H,A,B,C,D,E,F,G>>, <<G,H,A,B,C,D,E,F>>, <<F,G,H,A,B,C,D,E>>,
       <<E,F,G,H,A,B,C,D>>, <<D,E,F,G,H,A,B,C>>, <<C,D,E,F,G,H,A,B>>, <<B,C,D,E,F,G,H,A>>,
       <<A,B,C,D,E,F,G,H>>, <<H,A,B,C,D,E,F,G>>, <<G,H,A,B,C,D,E,F>>, <<F,G,H,A,B,C,D,E>>,
       <<E,F,G,H,A,B,C,D>>, <<D,E,F,G,H,A,B,C>>, <<C,D,E,F,G,H,A,B>>, <<B,C,D,E,F,G,H,A>>,
       <<A,B,C,D,E,F,G,H>>, <<H,A,B,C,D,E,F,G>>, <<G,H,A,B,C,D,E,F>>, <<F,G,H,A,B,C,D,E>>,
       <<E,F,G,H,A,B,C,D>>, <<D,E,F,G,H,A,B,C>>, <<C,D,E,F,G,H,A,B>>, <<B,C,D,E,F,G,H,A>>,
       <<A,B,C,D,E,F,G,H>>, <<H,A,B,C,D,E,F,G>>, <<G,H,A,B,C,D,E,F>>, <<F,G,H,A,B,C,D,E>>,
       <<E,F,G,H,A,B,C,D>>, <<D,E,F,G,H,A,B,C>>, <<C,D,E,F,G,H,A,B>>, <<B,C,D,E,F,G,H,A>>,
       <<A,B,C,D,E,F,G,H>>, <<H,A,B,C,D,E,F,G>>, <<G,H,A,B,C,D,E,F>>, <<F,G,H,A,B,C,D,E>>,
       <<E,F,G,H,A,B,C,D>>, <<D,E,F,G,H,A,B,C>>, <<C,D,E,F,G,H,A,B>>, <<B,C,D,E,F,G,H,A>>,
       <<A,B,C,D,E,F,G,H>>, <<H,A,B,C,D,E,F,G>>, <<G,H,A,B,C,D,E,F>>, <<F,G,H,A,B,C,D,E>>,
       <<E,F,G,H,A,B,C,D>>, <<D,E,F,G,H,A,B,C>>, <<C,D,E,F,G,H,A,B>>, <<B,C,D,E,F,G,H,A>>>>

(* Mutated: line 42 has exchanged two letters.                             *)
Exchanged(role, n) ==
  Lines[(n % 64) + 1][IF n = 42 /\ role \in {5, 6} THEN 12 - role ELSE role + 1]

(* The variable in the place of the macro's argument, where a is 0 and h   *)
(* is 7.  After the last line of a block comes the first of the next.      *)
At(role, n) == Lines[(n % 64) + 1][role + 1]

(* P(a,b,c,d,e,f,g,h,x,K) in line n                                        *)
P(r, n, x) ==
  LET a == r[At(0, n)]  b == r[At(1, n)]  c == r[At(2, n)]
      e == r[At(4, n)]  f == r[At(5, n)]  g == r[At(6, n)]
      temp1 == Plus(Plus(Plus(r[At(7, n)], S3(e)), Plus(F1(e, f, g), K(n))), x)
      temp2 == Plus(S2(a), F0(a, b, c))
  IN  [r EXCEPT ![At(3, n)] = Plus(@, temp1), ![At(7, n)] = Plus(temp1, temp2)]

(* W[n], from block b of data or from the 16 words before.                 *)
Scheduled(data, b, w, n) ==
  IF n < 16 THEN Get(SubSeq(data, 64 * b + 4 * n + 1, 64 * b + 4 * n + 4)) ELSE R(w, n)

Stored(w, n, x) == [i \in 0 .. n |-> IF i = n THEN x ELSE w[i]]

NoWords == [i \in {} |-> 0]

=============================================================================
