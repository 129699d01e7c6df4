------------------------ MODULE BenchmarkLoopProofs -------------------------
(***************************************************************************)
(* Theorems about module BenchmarkLoop, for all widths of ints and chars,  *)
(* all numbers of iterations and any time that passes.                     *)
(***************************************************************************)
EXTENDS BenchmarkLoop, TLAPS

LEMMA Division ==
  ASSUME NEW n \in Int, NEW c \in Int, c > 0
  PROVE  /\ n % c \in 0 .. (c - 1) /\ n \div c \in Int
         /\ n = (n % c) + ((n \div c) * c)
<1>1. n % c \in 0 .. (c - 1) /\ n \div c \in Int
  OBVIOUS
<1>2. n = (n % c) + ((n \div c) * c)
  OBVIOUS
<1>. QED BY <1>1, <1>2

(* Adding one to a number adds one to its remainder, or makes it zero.     *)
LEMMA Remainder ==
  ASSUME NEW n \in Nat, NEW c \in Nat, c > 1
  PROVE  /\ n % c \in 0 .. (c - 1)
         /\ (n + 1) % c = IF n % c = c - 1 THEN 0 ELSE (n % c) + 1
<1>1. PICK q \in Int, r \in Int :
        q = n \div c /\ r = n % c /\ r \in 0 .. (c - 1) /\ n = r + q * c
  BY Division
<1>2. PICK p \in Int, s \in Int :
        /\ p = (n + 1) \div c /\ s = (n + 1) % c
        /\ s \in 0 .. (c - 1) /\ n + 1 = s + p * c
  <2>1. n + 1 \in Int
    OBVIOUS
  <2>. QED BY <2>1, Division
<1>3. PICK d \in Int : d = p - q
  OBVIOUS
<1>4. d * c = r + 1 - s
  <2>1. PICK x \in Int, y \in Int : x = q * c /\ y = p * c
    OBVIOUS
  <2>2. d * c = y - x
    BY <1>3, <2>1
  <2>. QED BY <1>1, <1>2, <2>1, <2>2
<1>5. d >= 2 => d * c >= 2 * c
  OBVIOUS
<1>6. d <= -1 => d * c <= -c
  OBVIOUS
<1>7. d = 0 \/ d = 1
  <2>1. PICK e \in Int : e = d * c
    BY <1>3
  <2>2. -c < e /\ e < 2 * c
    BY <1>1, <1>2, <1>4, <2>1
  <2>3. ~(d >= 2) /\ ~(d <= -1)
    BY <1>5, <1>6, <2>1, <2>2
  <2>. QED BY <1>3, <2>3
<1>. QED BY <1>1, <1>2, <1>4, <1>7

LEMMA Constants ==
  /\ INT_MAX \in Nat /\ UINT_MAX \in Nat /\ INT_MAX < UINT_MAX
  /\ CharMod \in Nat /\ CharMod > 1
  /\ UINT_MAX % CharMod = CharMod - 1
<1>1. /\ INT_MAX \in Nat /\ UINT_MAX \in Nat /\ INT_MAX < UINT_MAX
      /\ CharMod \in Nat /\ CharMod > 1 /\ (UINT_MAX + 1) % CharMod = 0
  BY IntModAssumption DEF INT_MAX, UINT_MAX
<1>2. /\ UINT_MAX % CharMod \in 0 .. (CharMod - 1)
      /\ (UINT_MAX + 1) % CharMod
           = IF UINT_MAX % CharMod = CharMod - 1 THEN 0 ELSE (UINT_MAX % CharMod) + 1
  BY <1>1, Remainder
<1>. QED BY <1>1, <1>2

-----------------------------------------------------------------------------
(***************************************************************************)
(* The invariants.                                                         *)
(***************************************************************************)
Booting == spent[<<"in", "exec">>] + spent[<<"after", "exec">>]
Looping == spent[<<"after", "start">>]

(* The time from "exec" to "main", as long as it is in one place only.     *)
StartMeasured ==
  /\ event = "exec" /\ pc \in In =>
       /\ tmpts = 0 /\ ts["exec"] = NoTime
       /\ spent[<<"in", "exec">>] = now /\ spent[<<"after", "exec">>] = 0
  /\ ts["exec"] # NoTime =>
       /\ event = "exec" /\ pc = "after" => now - ts["exec"] = Booting
       /\ event = "main" /\ pc \in In => tmpts - ts["exec"] = Booting
       /\ event = "main" /\ pc \in {"after", "done"} => ts["main"] - ts["exec"] = Booting
       /\ event \in {"start", "end"} => ts["main"] - ts["exec"] = Booting

LoopMeasured ==
  /\ event \in {"exec", "main"} \/ (event = "start" /\ pc \in In) => Looping = 0
  /\ event = "start" /\ pc = "after" => now - ts["start"] = Looping
  /\ event = "end" /\ pc \in In => tmpts - ts["start"] = Looping
  /\ event = "end" /\ pc \in {"after", "done"} => ts["end"] - ts["start"] = Looping

(* A counter that never reaches iterations.                                *)
Stuck ==
  \/ program = "basic" /\ ~wide /\ i <= INT_MAX /\ iterations > INT_MAX
  \/ program = "sha2" /\ i \in 0 .. UINT_MAX /\ iterations > UINT_MAX

Counting ==
  /\ event \in {"exec", "main"} => i = 0 /\ turns = 0
  /\ event = "start" /\ pc # "failed" => (i = turns /\ turns <= iterations) \/ Stuck
  /\ event = "end" => turns = iterations

Places ==
  /\ pc = "done" => event = (IF argc = 2 THEN "end" ELSE "main")
  /\ event \in {"start", "end"} => argc = 2

Changing ==
  /\ program = "basic" => effect # <<0, 0>>
  /\ program = "sha2" =>
       /\ i \in 0 .. UINT_MAX
       /\ \/ effect = CharMod
          \/ i > 0 /\ effect = (i - 1) % CharMod
          \/ i = 0 /\ effect = CharMod - 1

Inv == TypeOK /\ Places /\ StartMeasured /\ LoopMeasured /\ Counting /\ Changing

-----------------------------------------------------------------------------
(***************************************************************************)
(* Types.                                                                  *)
(***************************************************************************)
LEMMA TypeInit == Init => TypeOK
BY Constants, MaxTimeAssumption
   DEF Init, TypeOK, Program, Event, In, NoEffect, NoTime, UINT_MAX

LEMMA EffectType ==
  ASSUME TypeOK
  PROVE  Effect(program, effect, i) \in IF program = "basic"
                                        THEN (0 .. UINT_MAX) \X (0 .. UINT_MAX)
                                        ELSE 0 .. CharMod
<1>1. CASE program = "basic"
  BY <1>1, IntModAssumption DEF TypeOK, Effect, UINT_MAX
<1>2. CASE program # "basic"
  BY <1>2, Constants DEF TypeOK, Effect
<1>. QED BY <1>1, <1>2

LEMMA TypeStep ==
  ASSUME TypeOK, [Next]_vars
  PROVE  TypeOK'
<1>. USE Constants, MaxTimeAssumption, IterationsAssumption
<1>1. ASSUME Tick PROVE TypeOK'
  <2>1. Where \in {"in", "after"} \X Event /\ spent[Where] \in Nat
    BY DEF TypeOK, Where
  <2>. QED BY <1>1, <2>1 DEF Tick, TypeOK, programVars, loopVars
<1>2. ASSUME Slot PROVE TypeOK'
  BY <1>2 DEF Slot, TypeOK, In, programVars, loopVars, clockVars
<1>3. ASSUME Stamp PROVE TypeOK'
  BY <1>3 DEF Stamp, Stamped, TypeOK, NoTime, programVars, loopVars, clockVars
<1>4. ASSUME Exec PROVE TypeOK'
  BY <1>4 DEF Exec, Call, TypeOK, In, Event, programVars, loopVars, clockVars
<1>5. ASSUME Args PROVE TypeOK'
  BY <1>5 DEF Args, Call, TypeOK, In, Event, programVars, loopVars, clockVars
<1>6. ASSUME Turn PROVE TypeOK'
  <2>1. Increment(i) \in Int
    BY IntModAssumption DEF Increment, TypeOK
  <2>. QED BY <1>6, <2>1, EffectType DEF Turn, TypeOK, programVars, clockVars
<1>7. ASSUME LoopEnds PROVE TypeOK'
  BY <1>7 DEF LoopEnds, Call, TypeOK, In, Event, programVars, loopVars, clockVars
<1>8. ASSUME Exit PROVE TypeOK'
  BY <1>8 DEF Exit, TypeOK, programVars, loopVars, clockVars
<1>9. ASSUME UNCHANGED vars PROVE TypeOK'
  BY <1>9 DEF vars, TypeOK, programVars, loopVars, clockVars
<1>. QED
  BY <1>1, <1>2, <1>3, <1>4, <1>5, <1>6, <1>7, <1>8, <1>9 DEF Next, Step, Ended

(* All state has its type: what is stored in side_effect[] is always an    *)
(* int, what is in input_buffer a char.                                    *)
THEOREM LoopTypeCorrect == Spec => []TypeOK
<1>. QED BY TypeInit, TypeStep, PTL DEF Spec

-----------------------------------------------------------------------------
(***************************************************************************)
(* The other conjuncts, action by action.                                  *)
(***************************************************************************)
LEMMA InvInit == Init => Inv
<1>1. ASSUME Init PROVE Changing
  BY <1>1, Constants DEF Init, Changing, NoEffect, Program
<1>2. ASSUME Init PROVE Places /\ StartMeasured /\ LoopMeasured /\ Counting
  BY <1>2 DEF Init, Places, StartMeasured, LoopMeasured, Counting, In, Event, Looping
<1>. QED BY <1>1, <1>2, TypeInit DEF Inv

(* No two of the times that are used here are the same.                    *)
LEMMA TickMeasures ==
  ASSUME TypeOK, StartMeasured, LoopMeasured, Tick
  PROVE  StartMeasured' /\ LoopMeasured'
<1>1. /\ now' = now + 1 /\ now \in Int
      /\ UNCHANGED <<pc, event, tmpts, ts>>
      /\ pc \in In \cup {"after"} /\ event \in Event
      /\ \A w \in {"in", "after"} \X Event :
            spent[w] \in Nat /\ spent'[w] = IF w = Where THEN spent[w] + 1 ELSE spent[w]
  BY DEF Tick, TypeOK
<1>2. /\ spent'[<<"in", "exec">>] = spent[<<"in", "exec">>]
           + (IF pc \in In /\ event = "exec" THEN 1 ELSE 0)
      /\ spent'[<<"after", "exec">>] = spent[<<"after", "exec">>]
           + (IF pc \notin In /\ event = "exec" THEN 1 ELSE 0)
      /\ spent'[<<"after", "start">>] = spent[<<"after", "start">>]
           + (IF pc \notin In /\ event = "start" THEN 1 ELSE 0)
      /\ spent[<<"in", "exec">>] \in Nat /\ spent[<<"after", "exec">>] \in Nat
      /\ spent[<<"after", "start">>] \in Nat
  <2>1. <<"in", "exec">> \in {"in", "after"} \X Event
          /\ <<"after", "exec">> \in {"in", "after"} \X Event
          /\ <<"after", "start">> \in {"in", "after"} \X Event
    BY DEF Event
  <2>2. /\ (<<"in", "exec">> = Where) <=> (pc \in In /\ event = "exec")
        /\ (<<"after", "exec">> = Where) <=> (pc \notin In /\ event = "exec")
        /\ (<<"after", "start">> = Where) <=> (pc \notin In /\ event = "start")
    BY DEF Where
  <2>. QED BY <1>1, <2>1, <2>2
<1>3. tmpts \in Int /\ ts["exec"] \in Int /\ ts["main"] \in Int /\ ts["start"] \in Int
        /\ ts["end"] \in Int
  BY MaxTimeAssumption DEF TypeOK, Event, NoTime
<1>4. StartMeasured'
  BY <1>1, <1>2, <1>3 DEF StartMeasured, Booting, In, NoTime
<1>5. LoopMeasured'
  BY <1>1, <1>2, <1>3 DEF LoopMeasured, Looping, In
<1>. QED BY <1>4, <1>5

LEMMA StepMeasures ==
  ASSUME TypeOK, StartMeasured, LoopMeasured, Step \/ UNCHANGED vars
  PROVE  StartMeasured' /\ LoopMeasured'
<1>. USE DEF StartMeasured, LoopMeasured, Booting, Looping, In
<1>1. ASSUME Slot PROVE StartMeasured' /\ LoopMeasured'
  BY <1>1 DEF Slot, clockVars, TypeOK, Event
<1>2. ASSUME Stamp PROVE StartMeasured' /\ LoopMeasured'
  <2>1. CASE event = "start" /\ pc' = "failed" /\ UNCHANGED ts
    BY <1>2, <2>1 DEF Stamp, clockVars
  <2>2. CASE pc' = "after" /\ ts' = [ts EXCEPT ![event] = Stamped(event)]
    <3>1. \A e \in Event : ts'[e] = IF e = event THEN Stamped(event) ELSE ts[e]
      BY <2>2 DEF TypeOK
    <3>2. pc = "stamp" /\ event \in Event /\ UNCHANGED <<event, tmpts, now, spent>>
      BY <1>2 DEF Stamp, clockVars, TypeOK
    <3>3. now \in Int /\ tmpts \in Int /\ spent[<<"in", "exec">>] \in Int
            /\ spent[<<"after", "exec">>] \in Int /\ spent[<<"after", "start">>] \in Int
      BY DEF TypeOK, Event
    <3>4. CASE event = "exec"
      BY <2>2, <3>1, <3>2, <3>3, <3>4 DEF Event, Stamped
    <3>5. CASE event = "main"
      BY <2>2, <3>1, <3>2, <3>3, <3>5 DEF Event, Stamped
    <3>6. CASE event = "start"
      BY <2>2, <3>1, <3>2, <3>3, <3>6 DEF Event, Stamped
    <3>7. CASE event = "end"
      BY <2>2, <3>1, <3>2, <3>3, <3>7 DEF Event, Stamped
    <3>. QED BY <3>2, <3>4, <3>5, <3>6, <3>7 DEF Event
  <2>. QED BY <1>2, <2>1, <2>2 DEF Stamp
<1>3. ASSUME Exec PROVE StartMeasured' /\ LoopMeasured'
  BY <1>3 DEF Exec, Call, clockVars
<1>4. ASSUME Args PROVE StartMeasured' /\ LoopMeasured'
  BY <1>4 DEF Args, Call, clockVars
<1>5. ASSUME Turn PROVE StartMeasured' /\ LoopMeasured'
  BY <1>5 DEF Turn, clockVars
<1>6. ASSUME LoopEnds PROVE StartMeasured' /\ LoopMeasured'
  BY <1>6 DEF LoopEnds, Call, clockVars
<1>7. ASSUME Exit PROVE StartMeasured' /\ LoopMeasured'
  BY <1>7 DEF Exit, clockVars
<1>8. ASSUME UNCHANGED vars PROVE StartMeasured' /\ LoopMeasured'
  BY <1>8 DEF vars, clockVars
<1>. QED BY <1>1, <1>2, <1>3, <1>4, <1>5, <1>6, <1>7, <1>8 DEF Step

LEMMA Numbers ==
  ASSUME TypeOK
  PROVE  i \in Int /\ turns \in Nat /\ iterations \in Int /\ program \in Program
<1>1. \A n \in Iterations : n \in Int
  BY IterationsAssumption
<1>. QED BY <1>1 DEF TypeOK

LEMMA StepCounts ==
  ASSUME TypeOK, Places, Counting, Changing, Next \/ UNCHANGED vars
  PROVE  Places' /\ Counting'
<1>. USE DEF Places, Counting, Stuck, programVars, loopVars
<1>1. ASSUME Tick \/ UNCHANGED vars PROVE Places' /\ Counting'
  BY <1>1 DEF Tick, vars
<1>2. ASSUME Slot PROVE Places' /\ Counting'
  BY <1>2 DEF Slot
<1>3. ASSUME Stamp PROVE Places' /\ Counting'
  BY <1>3 DEF Stamp
<1>4. ASSUME Exec PROVE Places' /\ Counting'
  BY <1>4 DEF Exec, Call
<1>5. ASSUME Args PROVE Places' /\ Counting'
  <2>1. \A n \in Iterations : n \in Int
    BY IterationsAssumption
  <2>2. pc = "after" /\ event = "main" /\ UNCHANGED <<argc, i, turns>>
    BY <1>5 DEF Args
  <2>3. CASE argc # 2
    BY <1>5, <2>2, <2>3 DEF Args
  <2>4. CASE argc = 2 /\ event' = "main" /\ pc' = "failed"
    BY <2>2, <2>4
  <2>5. CASE argc = 2 /\ iterations' \in Iterations /\ iterations' > 0 /\ event' = "start"
               /\ pc' \in {"slot", "failed"}
    BY <2>1, <2>2, <2>5
  <2>. QED BY <1>5, <2>2, <2>3, <2>4, <2>5 DEF Args, Call
<1>6. ASSUME Turn PROVE Places' /\ Counting'
  <2>1. /\ INT_MAX \in Nat /\ UINT_MAX \in Nat /\ UINT_MAX = IntMod - 1 /\ IntMod \in Nat
        /\ i \in Int /\ turns \in Nat /\ iterations \in Int /\ program \in Program
    BY Constants, Numbers, IntModAssumption DEF UINT_MAX
  <2>2. /\ pc = "after" /\ event = "start" /\ i < iterations
        /\ i' = Increment(i)
        /\ turns' = IF turns > iterations THEN turns ELSE turns + 1
        /\ UNCHANGED <<program, wide, argc, pc, event, iterations>>
    BY <1>6 DEF Turn, More
  <2>3. CASE program = "basic"
    BY <2>1, <2>2, <2>3 DEF Increment
  <2>4. CASE program = "sha2"
    <3>1. i \in 0 .. UINT_MAX /\ i' = IF i = UINT_MAX THEN 0 ELSE i + 1
      BY <2>1, <2>2, <2>4 DEF Increment, Changing
    <3>2. CASE Stuck
      BY <2>1, <2>2, <2>4, <3>1, <3>2
    <3>3. CASE i = turns
      BY <2>1, <2>2, <2>4, <3>1, <3>3
    <3>. QED BY <2>2, <3>2, <3>3
  <2>. QED BY <2>1, <2>3, <2>4 DEF Program
<1>7. ASSUME LoopEnds PROVE Places' /\ Counting'
  BY <1>7, Numbers, Constants DEF LoopEnds, Call, More, Program
<1>8. ASSUME Exit PROVE Places' /\ Counting'
  BY <1>8 DEF Exit
<1>. QED
  BY <1>1, <1>2, <1>3, <1>4, <1>5, <1>6, <1>7, <1>8 DEF Next, Step, Ended

(* A turn changes the side effect: of two ints that are not both zero the  *)
(* next pair is another one, and two numbers that follow each other have   *)
(* different remainders.                                                   *)
LEMMA TurnChanges ==
  ASSUME TypeOK, Changing, Turn
  PROVE  effect' # effect /\ Changing'
<1>1. effect' = Effect(program, effect, i) /\ i' = Increment(i) /\ UNCHANGED program
  BY DEF Turn, programVars
<1>2. CASE program = "basic"
  <2>1. PICK x \in 0 .. UINT_MAX, y \in 0 .. UINT_MAX : effect = <<x, y>>
    BY <1>2 DEF TypeOK
  <2>2. effect' = <<y, (x + y) % IntMod>> /\ ~(x = 0 /\ y = 0)
    BY <1>1, <1>2, <2>1 DEF Effect, Changing
  <2>3. (x + y) % IntMod = IF x + y > UINT_MAX THEN x + y - IntMod ELSE x + y
    BY IntModAssumption DEF UINT_MAX
  <2>4. ~(y = 0 /\ (x + y) % IntMod = 0) /\ ~(y = x /\ (x + y) % IntMod = y)
    BY <2>2, <2>3, IntModAssumption DEF UINT_MAX
  <2>. QED BY <1>1, <1>2, <2>1, <2>2, <2>4 DEF Changing
<1>3. CASE program = "sha2"
  <2>1. i \in 0 .. UINT_MAX /\ effect' = i % CharMod
    BY <1>1, <1>3 DEF Effect, Changing
  <2>2. i' \in 0 .. UINT_MAX /\ (i' = i + 1 \/ (i' = 0 /\ i = UINT_MAX))
    BY <1>1, <1>3, <2>1, IntModAssumption DEF Increment, UINT_MAX
  <2>3. effect' \in 0 .. (CharMod - 1) /\ Changing'
    <3>1. i % CharMod \in 0 .. (CharMod - 1)
      BY <2>1, Constants, Remainder
    <3>. QED BY <1>1, <1>3, <2>1, <2>2, <3>1, Constants DEF Changing
  <2>4. CASE effect = CharMod
    BY <2>3, <2>4, Constants
  <2>5. CASE i > 0 /\ effect = (i - 1) % CharMod
    <3>1. i - 1 \in Nat /\ (i - 1) + 1 = i
      BY <2>1, <2>5, Constants
    <3>2. i % CharMod = IF (i - 1) % CharMod = CharMod - 1 THEN 0
                                                          ELSE ((i - 1) % CharMod) + 1
      BY <3>1, Remainder, Constants
    <3>3. (i - 1) % CharMod \in 0 .. (CharMod - 1)
      BY <3>1, Remainder, Constants
    <3>. QED BY <2>1, <2>3, <2>5, <3>2, <3>3, Constants
  <2>6. CASE i = 0 /\ effect = CharMod - 1
    <3>1. 0 % CharMod = 0
      BY Constants
    <3>. QED BY <2>1, <2>3, <2>6, <3>1, Constants
  <2>. QED BY <1>3, <2>3, <2>4, <2>5, <2>6 DEF Changing
<1>. QED BY <1>2, <1>3 DEF TypeOK, Program

LEMMA StepChanges ==
  ASSUME TypeOK, Changing, Next \/ UNCHANGED vars
  PROVE  Changing' /\ (i' # i => effect' # effect)
<1>1. CASE Turn
  BY <1>1, TurnChanges
<1>2. CASE UNCHANGED <<program, i, effect>>
  BY <1>2 DEF Changing
<1>. QED
  BY <1>1, <1>2 DEF Next, Step, Ended, Tick, Slot, Stamp, Exec, Args, LoopEnds, Exit,
                    vars, programVars, loopVars

-----------------------------------------------------------------------------
THEOREM LoopInvCorrect == Spec => []Inv
<1>1. ASSUME Inv, [Next]_vars PROVE Inv'
  BY <1>1, TypeStep, TickMeasures, StepMeasures, StepCounts, StepChanges
     DEF Inv, Next, Ended
<1>. QED BY <1>1, InvInit, PTL DEF Spec

(* The intervals that benchmarks.py computes leave out every call that     *)
(* records an event, but that of "exec".                                   *)
THEOREM IntervalsCorrect == Spec => []Intervals
<1>1. Inv => Intervals
  BY DEF Inv, Intervals, StartMeasured, LoopMeasured, Places, Looped, Booting, Looping,
         TypeOK, Event
<1>. QED BY <1>1, LoopInvCorrect, PTL

(* Who records "end" has made the number of turns it was asked for, in     *)
(* whatever way its counter overflows.                                     *)
THEOREM TurnsCountedCorrect == Spec => []TurnsCounted
<1>1. Inv => TurnsCounted
  BY DEF Inv, TurnsCounted, Counting, Places, Looped
<1>. QED BY <1>1, LoopInvCorrect, PTL

(* Every turn has an effect, also when sums and counters have overflown.   *)
THEOREM EveryTurnCountsCorrect == Spec => EveryTurnCounts
<1>1. Inv /\ [Next]_vars => [i' # i => effect' # effect]_vars
  BY StepChanges DEF Inv
<1>. QED BY <1>1, LoopInvCorrect, PTL DEF Spec, EveryTurnCounts

=============================================================================
