------------------------ MODULE OrchestrationProofs -------------------------
(***************************************************************************)
(* Theorems about module Orchestration.                                    *)
(***************************************************************************)
EXTENDS Orchestration, FiniteSetTheorems, WellFoundedInduction, TLAPS

(***************************************************************************)
(* The lowest elements of a set of CPUs.                                   *)
(***************************************************************************)
LEMMA Least ==
  ASSUME NEW T \in SUBSET Nat, T # {}
  PROVE  \E n \in T : \A m \in T : n <= m
<1>1. PICK n \in T : \A m \in T : <<m, n>> \notin OpToRel(<, Nat)
  BY WFMin, NatLessThanWellFounded, Zenon
<1>2. \A m \in T : ~(m < n)
  BY <1>1, Zenon DEF OpToRel
<1>. QED BY <1>2

LEMMA CpusFinite ==
  ASSUME NEW S \in SUBSET Cpu
  PROVE  /\ S \subseteq Nat /\ IsFiniteSet(S) /\ Cardinality(S) \in 0 .. NCpus
         /\ S = {} <=> Cardinality(S) = 0
<1>1. IsFiniteSet(Cpu) /\ Cardinality(Cpu) = NCpus
  BY FS_Interval, NCpusAssumption DEF Cpu
<1>2. IsFiniteSet(S) /\ Cardinality(S) <= Cardinality(Cpu)
  BY <1>1, FS_Subset
<1>3. Cardinality(S) \in Nat /\ (S = {} <=> Cardinality(S) = 0)
  BY <1>2, FS_CardinalityType, FS_EmptySet
<1>. QED BY <1>1, <1>2, <1>3, NCpusAssumption DEF Cpu

LEMMA Greatest ==
  ASSUME NEW S \in SUBSET Cpu, S # {}
  PROVE  \E n \in S : \A m \in S : m <= n
<1>. DEFINE Bounds == {n \in Nat : \A m \in S : m <= n}
<1>1. NCpus \in Bounds
  BY NCpusAssumption DEF Cpu
<1>2. PICK n \in Bounds : \A b \in Bounds : n <= b
  BY <1>1, Least
<1>3. n \in S
  <2>. SUFFICES ASSUME n \notin S PROVE FALSE
    OBVIOUS
  <2>1. \A m \in S : m \in Nat /\ m < n
    BY CpusFinite
  <2>2. n - 1 \in Bounds
    BY <2>1
  <2>. QED BY <1>2, <2>2
<1>. QED BY <1>2, <1>3

(* The elements of T are those of S that come first.                       *)
Segment(T, S) == T \subseteq S /\ \A x \in T, y \in S \ T : x < y

LEMMA SegmentsExist ==
  ASSUME NEW S \in SUBSET Cpu, NEW k \in 0 .. Cardinality(S)
  PROVE  \E T \in SUBSET S : Cardinality(T) = k /\ Segment(T, S)
<1>. DEFINE size == Cardinality(S)
            Known(j) == \E T \in SUBSET S : Cardinality(T) = size - j /\ Segment(T, S)
            Unknown == {j \in 0 .. size : ~Known(j)}
<1>1. size \in Nat
  BY CpusFinite
<1>2. Unknown = {}
  <2>. SUFFICES ASSUME Unknown # {} PROVE FALSE
    OBVIOUS
  <2>1. PICK j \in Unknown : \A l \in Unknown : j <= l
    <3>1. Unknown \in SUBSET Nat
      BY <1>1
    <3>. QED BY <3>1, Least
  <2>2. j # 0
    <3>1. Segment(S, S) /\ Cardinality(S) = size - 0
      BY <1>1 DEF Segment
    <3>2. Known(0)
      BY <3>1
    <3>. QED BY <2>1, <3>2
  <2>3. j - 1 \in 0 .. size /\ Known(j - 1)
    BY <1>1, <2>1, <2>2
  <2>4. PICK T \in SUBSET S : Cardinality(T) = size - (j - 1) /\ Segment(T, S)
    BY <2>3
  <2>5. T \in SUBSET Cpu /\ T # {}
    BY <1>1, <2>1, <2>4, CpusFinite, FS_EmptySet
  <2>6. PICK n \in T : \A m \in T : m <= n
    BY <2>5, Greatest
  <2>7. Cardinality(T \ {n}) = size - j
    <3>1. Cardinality(T \ {n}) = Cardinality(T) - 1
      BY <2>5, <2>6, CpusFinite, FS_RemoveElement
    <3>. QED BY <1>1, <2>1, <2>4, <3>1
  <2>8. Segment(T \ {n}, S)
    BY <2>4, <2>5, <2>6, CpusFinite DEF Segment
  <2>9. Known(j)
    BY <2>7, <2>8
  <2>. QED BY <2>1, <2>9
<1>3. size - k \in 0 .. size /\ size - (size - k) = k
  BY <1>1
<1>4. Known(size - k)
  BY <1>2, <1>3
<1>. QED BY <1>3, <1>4

LEMMA SegmentsUnique ==
  ASSUME NEW S \in SUBSET Cpu, NEW T, NEW U, Segment(T, S), Segment(U, S),
         Cardinality(T) = Cardinality(U)
  PROVE  T = U
<1>1. T \subseteq Nat /\ IsFiniteSet(T) /\ U \subseteq Nat /\ IsFiniteSet(U)
  BY CpusFinite DEF Segment
<1>2. T \subseteq U \/ U \subseteq T
  BY <1>1 DEF Segment
<1>. QED BY <1>1, <1>2, FS_Subset

LEMMA LowestIsSegment ==
  ASSUME NEW S \in SUBSET Cpu, NEW k \in 0 .. Cardinality(S)
  PROVE  Segment(Lowest(S, k), S) /\ Cardinality(Lowest(S, k)) = k
<1>. DEFINE P(T) == Cardinality(T) = k /\ \A x \in T, y \in S \ T : x < y
<1>1. \E T \in SUBSET S : P(T)
  BY SegmentsExist DEF Segment
<1>2. Lowest(S, k) = CHOOSE T \in SUBSET S : P(T)
  BY DEF Lowest
<1>3. Lowest(S, k) \in SUBSET S /\ P(Lowest(S, k))
  <2>. HIDE DEF P
  <2>. QED BY <1>1, <1>2, Zenon
<1>. QED BY <1>3 DEF Segment

(* The lowest of the first CPUs are the lowest of all.                     *)
LEMMA LowestOfSegment ==
  ASSUME NEW S \in SUBSET Cpu, NEW T, Segment(T, S), NEW k \in 0 .. Cardinality(T)
  PROVE  /\ Lowest(T, k) = Lowest(S, k)
         /\ k = Cardinality(T) => T = Lowest(S, k)
         /\ Lowest(S, k) \subseteq T
<1>1. T \in SUBSET Cpu /\ Cardinality(T) <= Cardinality(S) /\ k \in 0 .. Cardinality(S)
  <2>1. T \in SUBSET S /\ T \in SUBSET Cpu
    BY DEF Segment
  <2>2. Cardinality(T) <= Cardinality(S)
    BY <2>1, CpusFinite, FS_Subset
  <2>. QED BY <2>1, <2>2, CpusFinite
<1>2. Segment(Lowest(T, k), T) /\ Cardinality(Lowest(T, k)) = k
  BY <1>1, LowestIsSegment
<1>3. Segment(Lowest(S, k), S) /\ Cardinality(Lowest(S, k)) = k
  BY <1>1, LowestIsSegment
<1>4. Segment(Lowest(T, k), S)
  BY <1>2 DEF Segment
<1>5. Lowest(T, k) = Lowest(S, k)
  BY <1>2, <1>3, <1>4, SegmentsUnique
<1>6. k = Cardinality(T) => T = Lowest(S, k)
  BY <1>3, SegmentsUnique
<1>. QED BY <1>2, <1>5, <1>6 DEF Segment

-----------------------------------------------------------------------------
(***************************************************************************)
(* The invariant.                                                          *)
(***************************************************************************)
KernelPlaces == {"load", "base", "events", "daemon", "create", "start", "reload", "traced",
                 "stop"}
UstPlaces == {"save", "count", "set", "base", "ust", "daemon", "create", "start", "traced",
              "stop", "load", "results", "end"} \cup Finally

(* Where the number of CPUs has been set.                                  *)
Benchmarking == KernelPlaces \cup {"ust"}

FlowInv ==
  /\ phase = "kernel" => pc \in KernelPlaces /\ pass \in 1 .. KernelPasses
  /\ phase = "ust" => pc \in UstPlaces /\ pass \in 1 .. UstPasses
  /\ pc # "save" => cpu_count \in 1 .. Cardinality(saved)
  /\ pc = "save" => /\ 0 \in online /\ todo = {} /\ pass = 1 /\ phase = "ust"
                    /\ session = "none"

(* What is online when the turns of the loop of main() change it.          *)
CpusInv ==
  /\ pc = "count" => Segment(online, saved) /\ cpu_count <= Cardinality(online)
  /\ pc = "set" => /\ Lowest(saved, cpu_count) \subseteq online \ todo
                   /\ todo = {} \/ ~enable
  /\ pc \in Benchmarking => online = Lowest(saved, cpu_count)

(* A session of the kernel that has been left.                             *)
LeftOver ==
  /\ session # "ust"
  /\ session = "kernel" => phase = "ust" /\ pass = 1 /\ cpu_count < Cardinality(saved)

SessionInv ==
  /\ pc \in {"count", "set", "base", "ust", "load", "events", "daemon", "create"} => LeftOver
  /\ pc = "start" => session \in {"none", "idle"}
  /\ pc \in {"reload", "traced", "stop"} => session \in {"none", phase}

(* What the finally block has undone so far.                               *)
UndoneInv ==
  /\ pc = "unload" /\ ~refused => session = "none"
  /\ pc = "kill" => modules = {} /\ (~refused => session = "none")
  /\ pc = "restore_off" =>
       /\ modules = {} /\ ~enable /\ todo \cap saved = {}
       /\ ~refused => /\ session = "none" /\ daemon # "ours"
                      /\ online \subseteq saved \cup todo
  /\ pc = "restore_on" =>
       /\ modules = {} /\ enable /\ todo \subseteq saved
       /\ ~refused => /\ session = "none" /\ daemon # "ours"
                      /\ online \subseteq saved /\ saved \subseteq online \cup todo
  /\ Restored

IInv == TypeOK /\ FlowInv /\ CpusInv /\ SessionInv /\ UndoneInv

-----------------------------------------------------------------------------
(***************************************************************************)
(* Init, and what an exception does.                                       *)
(***************************************************************************)
LEMMA InitInv == Init => IInv
<1>. SUFFICES ASSUME Init PROVE IInv
  OBVIOUS
<1>1. TypeOK
  <2>1. CpuTypeOK /\ raised \in BOOLEAN /\ refused \in BOOLEAN
    BY Zenon DEF Init, CpuInit, CpuTypeOK
  <2>. QED
    BY <2>1, NCpusAssumption, PassesAssumption, MaxInterruptsAssumption DEF Init, TypeOK
<1>2. FlowInv /\ CpusInv /\ SessionInv /\ UndoneInv
  BY PassesAssumption
  DEF Init, CpuInit, FlowInv, CpusInv, SessionInv, UndoneInv, UstPlaces, Benchmarking,
      KernelPlaces, Restored
<1>. QED BY <1>1, <1>2 DEF IInv

(* The types of what the script itself keeps.                              *)
ScriptOK ==
  /\ pc \in {"save", "load", "events", "reload", "results", "end"}
              \cup Setting \cup Measuring \cup Tracing \cup Finally
  /\ phase \in {"ust", "kernel"}
  /\ cpu_count \in 1 .. NCpus
  /\ pass \in 1 .. UstPasses \/ pass \in 1 .. KernelPasses
  /\ raised \in BOOLEAN

LEMMA RaiseType ==
  ASSUME TypeOK, Raise
  PROVE  ScriptOK'
<1>1. raised' \in BOOLEAN
  BY Zenon DEF TypeOK, Raise, Goto, SkipKernel, NextTurn
<1>2. CASE phase = "kernel" /\ NextTurn
  BY <1>1, <1>2, PassesAssumption, NCpusAssumption
  DEF TypeOK, ScriptOK, NextTurn, LastTurn, Setting
<1>3. CASE UNCHANGED <<phase, cpu_count, pass>> /\ pc' \in {"results", "end", "cleanup"}
  BY <1>1, <1>3 DEF TypeOK, ScriptOK, Finally
<1>. QED BY <1>2, <1>3 DEF Raise, Goto, SkipKernel

(* It leads to the results, to the next number of CPUs or to the finally   *)
(* block, or out of it.                                                    *)
LEMMA RaiseInv ==
  ASSUME IInv, Raise, pc \notin {"save", "end"}, UNCHANGED <<online, saved>>,
         session' \in {session, "none", "idle"}
  PROVE  FlowInv' /\ CpusInv' /\ SessionInv' /\ UndoneInv'
<1>. USE DEF IInv, TypeOK
<1>1. CASE phase = "kernel"
  <2>1. NextTurn /\ pc \in KernelPlaces /\ cpu_count \in 1 .. Cardinality(saved)
    BY <1>1 DEF FlowInv, Raise, SkipKernel, KernelPlaces, Setting, Finally
  <2>2. Cardinality(saved) \in Nat
    BY CpusFinite
  <2>3. session # "ust"
    BY <1>1, <2>1 DEF SessionInv, LeftOver, KernelPlaces
  <2>4. FlowInv'
    BY <2>1, <2>2, PassesAssumption DEF NextTurn, LastTurn, FlowInv, UstPlaces
  <2>5. CpusInv'
    <3>1. online = Lowest(saved, cpu_count)
      BY <2>1 DEF CpusInv, Benchmarking
    <3>2. Segment(online, saved) /\ Cardinality(online) = cpu_count
      BY <2>1, <2>2, <3>1, LowestIsSegment DEF CpuTypeOK
    <3>. QED BY <2>1, <2>2, <3>2 DEF NextTurn, LastTurn, CpusInv, Benchmarking, KernelPlaces
  <2>6. SessionInv'
    BY <2>1, <2>2, <2>3 DEF NextTurn, LastTurn, SessionInv, LeftOver
  <2>7. UndoneInv'
    BY <2>1 DEF NextTurn, LastTurn, UndoneInv, Restored
  <2>. QED BY <2>4, <2>5, <2>6, <2>7
<1>2. CASE phase = "ust"
  <2>1. /\ phase' = phase /\ cpu_count' = cpu_count /\ pass' = pass
        /\ \/ pc' \in {"results", "cleanup"}
           \/ pc' = "end" /\ raised' = TRUE
    BY <1>2 DEF Raise, Goto
  <2>2. FlowInv'
    BY <1>2, <2>1 DEF FlowInv, UstPlaces, Finally
  <2>3. CpusInv' /\ SessionInv' /\ UndoneInv'
    BY <2>1 DEF CpusInv, SessionInv, UndoneInv, Restored, Benchmarking, KernelPlaces
  <2>. QED BY <2>2, <2>3
<1>. QED BY <1>1, <1>2

(* A call that raises keeps the invariant if what it changes is typed.     *)
LEMMA RaiseStep ==
  ASSUME IInv, Raise, pc \notin {"save", "end"}, UNCHANGED <<cpuVars, saved>>,
         session' \in {session, "none", "idle"},
         daemon' \in {"none", "ours", "other"},
         modules' \in SUBSET {"main", "probe"},
         interrupts' \in 0 .. MaxInterrupts, UNCHANGED refused
  PROVE  IInv'
<1>1. ScriptOK'
  BY RaiseType DEF IInv
<1>2. TypeOK'
  BY <1>1 DEF IInv, TypeOK, ScriptOK, CpuTypeOK, cpuVars
<1>3. FlowInv' /\ CpusInv' /\ SessionInv' /\ UndoneInv'
  BY RaiseInv DEF cpuVars
<1>. QED BY <1>2, <1>3 DEF IInv

-----------------------------------------------------------------------------
(***************************************************************************)
(* The CPUs.                                                               *)
(***************************************************************************)
LEMMA SaveStep ==
  ASSUME IInv, Save
  PROVE  IInv'
<1>. USE DEF IInv, TypeOK, Save, cpuVars, traceVars
<1>1. /\ Cardinality(online) \in 0 .. NCpus /\ online # {} /\ session = "none"
      /\ Cardinality(online) # 0
  BY CpusFinite DEF CpuTypeOK, FlowInv
<1>2. Cardinality(online) \in 1 .. NCpus /\ Cardinality(online) \in 1 .. Cardinality(online)
  BY <1>1
<1>3. TypeOK'
  BY <1>2 DEF CpuTypeOK, Setting
<1>4. FlowInv'
  BY <1>2 DEF FlowInv, UstPlaces
<1>5. CpusInv' /\ SessionInv' /\ UndoneInv'
  BY <1>1, <1>2
  DEF CpusInv, Segment, SessionInv, LeftOver, UndoneInv, Restored, Benchmarking, KernelPlaces
<1>. QED BY <1>3, <1>4, <1>5

LEMMA CountStep ==
  ASSUME IInv, Count
  PROVE  IInv'
<1>. USE DEF IInv, TypeOK, Count, Goto, traceVars
<1>1. /\ Segment(online, saved) /\ cpu_count \in 1 .. Cardinality(online)
      /\ online \in SUBSET Cpu /\ saved \in SUBSET Cpu /\ offline \in SUBSET Cpu
      /\ Cardinality(online) \in Nat /\ Cardinality(offline) \in Nat
  BY CpusFinite DEF CpusInv, FlowInv, CpuTypeOK, offline
<1>2. Lowest(online, cpu_count) = Lowest(saved, cpu_count)
      /\ Lowest(saved, cpu_count) \subseteq online
  BY <1>1, LowestOfSegment
<1>3. /\ Lowest(saved, cpu_count) \subseteq online \ todo' /\ todo' \in SUBSET Cpu
      /\ (todo' = {} \/ ~enable') /\ enable' \in BOOLEAN
  <2>1. CASE cpu_count < Cardinality(online)
    <3>1. todo' = online \ Lowest(online, cpu_count) /\ enable' = FALSE
      BY <1>1, <2>1 DEF SetCount, SetAll
    <3>. QED BY <1>1, <1>2, <3>1
  <2>2. CASE cpu_count = Cardinality(online)
    <3>1. todo' = Lowest(offline, 0) /\ enable' = TRUE
      BY <1>1, <2>2 DEF SetCount, SetAll
    <3>2. Segment(Lowest(offline, 0), offline) /\ Cardinality(Lowest(offline, 0)) = 0
      BY <1>1, LowestIsSegment
    <3>3. Lowest(offline, 0) \in SUBSET Cpu
      BY <1>1, <3>2 DEF Segment
    <3>4. Lowest(offline, 0) = {}
      BY <3>2, <3>3, CpusFinite
    <3>. QED BY <1>1, <1>2, <3>1, <3>4
  <2>. QED BY <1>1, <2>1, <2>2
<1>4. TypeOK'
  BY <1>3 DEF CpuTypeOK, Setting
<1>5. FlowInv' /\ SessionInv' /\ UndoneInv'
  BY DEF FlowInv, SessionInv, LeftOver, UndoneInv, Restored, UstPlaces, KernelPlaces
<1>6. CpusInv'
  BY <1>3 DEF CpusInv, Benchmarking, KernelPlaces
<1>. QED BY <1>4, <1>5, <1>6

LEMMA SetOneStep ==
  ASSUME IInv, SetOne
  PROVE  IInv'
<1>. USE DEF IInv, TypeOK, CpuTypeOK, traceVars, scriptVars
<1>1. PICK c \in todo : \/ SetCpu(c) /\ UNCHANGED refused
                        \/ SetCpuLost(c) /\ refused' = (refused \/ pc # "set")
  BY DEF SetOne
<1>2. /\ c \in Cpu /\ pc \in {"set", "restore_off", "restore_on"}
      /\ UNCHANGED <<scriptVars, saved, traceVars, interrupts, raised>>
  BY DEF SetOne
<1>3. /\ todo' = todo \ {c} /\ enable' = enable /\ refused' \in BOOLEAN
      /\ \/ refused' = refused
            /\ online' = IF enable THEN online \cup {c} ELSE online \ {c}
         \/ refused' = (refused \/ pc # "set") /\ online' = online
  BY <1>1 DEF SetCpu, SetCpuLost
<1>4. TypeOK'
  BY <1>2, <1>3
<1>5. FlowInv' /\ SessionInv'
  BY <1>2 DEF FlowInv, SessionInv, LeftOver
<1>6. CpusInv'
  BY <1>2, <1>3 DEF CpusInv, Benchmarking, KernelPlaces
<1>7. UndoneInv'
  <2>1. CASE pc = "set"
    BY <1>2, <2>1 DEF UndoneInv, Restored
  <2>2. CASE pc = "restore_off"
    BY <1>2, <1>3, <2>2 DEF UndoneInv, Restored
  <2>3. CASE pc = "restore_on"
    BY <1>2, <1>3, <2>3 DEF UndoneInv, Restored
  <2>. QED BY <1>2, <2>1, <2>2, <2>3
<1>. QED BY <1>4, <1>5, <1>6, <1>7

LEMMA CountedStep ==
  ASSUME IInv, Counted
  PROVE  IInv'
<1>. USE DEF Counted, UnchangedOutside, traceVars, cpuVars
<1>1. CASE CountReached(cpu_count) /\ Goto("base")
  <2>. USE <1>1 DEF Goto, IInv, TypeOK
  <2>1. TypeOK'
    BY DEF CpuTypeOK, Measuring
  <2>2. FlowInv' /\ SessionInv' /\ UndoneInv'
    BY DEF FlowInv, SessionInv, LeftOver, UndoneInv, Restored, UstPlaces, KernelPlaces
  <2>3. online = Lowest(saved, cpu_count)
    <3>1. /\ Lowest(saved, cpu_count) \subseteq online /\ Cardinality(online) = cpu_count
          /\ cpu_count \in 1 .. Cardinality(saved) /\ Cardinality(saved) \in Nat
          /\ IsFiniteSet(online)
      BY CpusFinite DEF CpusInv, FlowInv, CountReached, CpuTypeOK
    <3>2. Cardinality(Lowest(saved, cpu_count)) = cpu_count
      BY <3>1, LowestIsSegment
    <3>. QED BY <3>1, <3>2, FS_Subset
  <2>4. CpusInv'
    BY <2>3 DEF CpusInv
  <2>. QED BY <2>1, <2>2, <2>4
<1>2. CASE Raise
  BY <1>2, RaiseStep DEF IInv, TypeOK
<1>. QED BY <1>1, <1>2

-----------------------------------------------------------------------------
(***************************************************************************)
(* The benchmarks.                                                         *)
(***************************************************************************)

(* A step to another place that leaves the CPUs and what the finally block *)
(* undoes alone.                                                           *)
LEMMA GotoStep ==
  ASSUME IInv, NEW where \in Benchmarking, Goto(where), pc \in Benchmarking,
         phase = "kernel" => where # "ust",
         phase = "ust" => where \notin {"events", "reload"},
         UNCHANGED <<cpuVars, saved, interrupts, refused>>,
         session' \in {"none", "idle", "ust", "kernel"},
         daemon' \in {"none", "ours", "other"},
         modules' \in SUBSET {"main", "probe"},
         SessionInv'
  PROVE  IInv'
<1>. USE DEF IInv, Goto, cpuVars, Benchmarking, KernelPlaces
<1>1. TypeOK'
  BY DEF TypeOK, CpuTypeOK, Measuring, Tracing
<1>2. FlowInv'
  BY DEF FlowInv, UstPlaces, Finally
<1>3. CpusInv'
  BY DEF CpusInv
<1>4. UndoneInv'
  BY DEF UndoneInv, Restored
<1>. QED BY <1>1, <1>2, <1>3, <1>4

LEMMA MeasureStep ==
  ASSUME IInv, Measure \/ Events
  PROVE  IInv'
<1>. DEFINE After(where) == Goto(where) /\ UnchangedOutside
<1>1. \/ Raise /\ UnchangedOutside /\ pc \in {"base", "ust", "events", "traced"}
      \/ pc = "base" /\ phase = "ust" /\ After("ust")
      \/ pc = "ust" /\ After("daemon")
      \/ pc = "base" /\ phase = "kernel" /\ After("events")
      \/ pc = "traced" /\ After("stop")
      \/ pc = "events" /\ After("daemon")
  BY Zenon DEF Measure, Events, ReturnOrRaise
<1>2. CASE Raise /\ UnchangedOutside /\ pc \in {"base", "ust", "events", "traced"}
  BY <1>2, RaiseStep DEF UnchangedOutside, IInv, TypeOK, traceVars
<1>3. ASSUME NEW where \in {"ust", "daemon", "events", "stop"}, After(where),
             pc \in {"base", "ust", "events", "traced"},
             pc = "traced" <=> where = "stop",
             where = "events" => phase = "kernel", where = "ust" => phase = "ust"
      PROVE  IInv'
  <2>1. SessionInv'
    BY <1>3 DEF UnchangedOutside, Goto, traceVars, IInv, SessionInv, LeftOver
  <2>2. where \in Benchmarking /\ pc \in Benchmarking
    BY <1>3 DEF Benchmarking, KernelPlaces
  <2>3. /\ UNCHANGED <<cpuVars, saved, interrupts, refused>>
        /\ session' \in {"none", "idle", "ust", "kernel"}
        /\ daemon' \in {"none", "ours", "other"}
        /\ modules' \in SUBSET {"main", "probe"}
    BY <1>3 DEF UnchangedOutside, traceVars, IInv, TypeOK
  <2>. QED BY <1>3, <2>1, <2>2, <2>3, GotoStep
<1>. QED BY <1>1, <1>2, <1>3

LEMMA LoadStep ==
  ASSUME IInv, Load
  PROVE  IInv'
<1>. USE DEF Load
<1>1. CASE modules' = {"main", "probe"} /\ Goto(IF pc = "load" THEN "base" ELSE "traced")
  <2>. DEFINE where == IF pc = "load" THEN "base" ELSE "traced"
  <2>1. SessionInv'
    BY <1>1 DEF Goto, IInv, SessionInv, LeftOver
  <2>2. where \in Benchmarking /\ pc \in Benchmarking /\ where \notin {"ust", "events", "reload"}
    BY DEF Benchmarking, KernelPlaces
  <2>. QED BY <1>1, <2>1, <2>2, GotoStep DEF IInv, TypeOK
<1>2. CASE modules' \in {modules, modules \cup {"main"}} /\ Raise
  BY <1>2, RaiseStep DEF IInv, TypeOK
<1>. QED BY <1>1, <1>2

LEMMA StartDaemonStep ==
  ASSUME IInv, StartDaemon
  PROVE  IInv'
<1>. USE DEF StartDaemon
<1>1. CASE daemon' \in {daemon, "ours"} /\ Goto("create")
  <2>1. SessionInv'
    BY <1>1 DEF Goto, IInv, SessionInv, LeftOver
  <2>2. "create" \in Benchmarking /\ pc \in Benchmarking
    BY DEF Benchmarking, KernelPlaces
  <2>. QED BY <1>1, <2>1, <2>2, GotoStep DEF IInv, TypeOK
<1>2. CASE Raise /\ UNCHANGED daemon
  BY <1>2, RaiseStep DEF IInv, TypeOK
<1>. QED BY <1>1, <1>2

LEMMA CreateSessionStep ==
  ASSUME IInv, CreateSession
  PROVE  IInv'
<1>. USE DEF CreateSession
<1>1. CASE session' = "idle" /\ Goto("start")
  <2>1. SessionInv'
    BY <1>1 DEF Goto, SessionInv
  <2>2. "start" \in Benchmarking /\ pc \in Benchmarking
    BY DEF Benchmarking, KernelPlaces
  <2>. QED BY <1>1, <2>1, <2>2, GotoStep DEF IInv, TypeOK
<1>2. CASE Raise /\ session' \in {"none", session}
  BY <1>2, RaiseStep DEF IInv, TypeOK
<1>. QED BY <1>1, <1>2

LEMMA StartSessionStep ==
  ASSUME IInv, StartSession
  PROVE  IInv'
<1>. USE DEF StartSession
<1>1. CASE session' = phase /\ Goto(IF phase = "ust" THEN "traced" ELSE "reload")
  <2>. DEFINE where == IF phase = "ust" THEN "traced" ELSE "reload"
  <2>1. SessionInv'
    BY <1>1 DEF Goto, IInv, TypeOK, SessionInv
  <2>2. where \in Benchmarking /\ pc \in Benchmarking
    BY DEF Benchmarking, KernelPlaces
  <2>3. phase \in {"ust", "kernel"}
    BY DEF IInv, TypeOK
  <2>. QED BY <1>1, <2>1, <2>2, <2>3, GotoStep DEF IInv, TypeOK
<1>2. CASE Raise /\ UNCHANGED session
  BY <1>2, RaiseStep DEF IInv, TypeOK
<1>. QED BY <1>1, <1>2

LEMMA NextPassType ==
  ASSUME IInv, NextPass, pc = "stop"
  PROVE  ScriptOK'
<1>1. raised' \in BOOLEAN
  BY Zenon DEF IInv, TypeOK, NextPass, NextTurn
<1>2. CASE NextTurn
  BY <1>1, <1>2, PassesAssumption, NCpusAssumption
  DEF IInv, TypeOK, ScriptOK, NextTurn, LastTurn, Setting
<1>3. CASE /\ pass < (IF phase = "ust" THEN UstPasses ELSE KernelPasses)
           /\ pc' = (IF phase = "ust" THEN "base" ELSE "load") /\ pass' = pass + 1
           /\ UNCHANGED <<phase, cpu_count>>
  BY <1>1, <1>3, PassesAssumption DEF IInv, TypeOK, FlowInv, ScriptOK, Measuring
<1>4. CASE pc' = "load" /\ phase' = "kernel" /\ pass' = 1 /\ UNCHANGED cpu_count
  BY <1>1, <1>4, PassesAssumption DEF IInv, TypeOK, ScriptOK
<1>. QED BY <1>2, <1>3, <1>4 DEF NextPass

LEMMA NextPassInv ==
  ASSUME IInv, NextPass, pc = "stop", UNCHANGED <<online, saved>>, session' = "none"
  PROVE  FlowInv' /\ CpusInv' /\ SessionInv' /\ UndoneInv'
<1>1. /\ cpu_count \in 1 .. Cardinality(saved) /\ Cardinality(saved) \in Nat
      /\ online = Lowest(saved, cpu_count) /\ saved \in SUBSET Cpu
  BY CpusFinite DEF IInv, TypeOK, CpuTypeOK, FlowInv, CpusInv, Benchmarking, KernelPlaces
<1>2. CASE NextTurn
  <2>. USE <1>1, <1>2 DEF NextTurn, LastTurn
  <2>1. FlowInv'
    BY PassesAssumption DEF FlowInv, UstPlaces
  <2>2. CpusInv'
    <3>1. Segment(online, saved) /\ Cardinality(online) = cpu_count
      BY LowestIsSegment
    <3>. QED BY <3>1 DEF CpusInv, Benchmarking, KernelPlaces
  <2>3. SessionInv' /\ UndoneInv'
    BY DEF SessionInv, LeftOver, UndoneInv, Restored
  <2>. QED BY <2>1, <2>2, <2>3
<1>3. CASE \/ /\ pass < (IF phase = "ust" THEN UstPasses ELSE KernelPasses)
              /\ pc' = (IF phase = "ust" THEN "base" ELSE "load") /\ pass' = pass + 1
              /\ UNCHANGED <<phase, cpu_count>>
           \/ pc' = "load" /\ phase' = "kernel" /\ pass' = 1 /\ UNCHANGED cpu_count
  <2>1. FlowInv'
    BY <1>1, <1>3, PassesAssumption DEF IInv, TypeOK, FlowInv, UstPlaces, KernelPlaces
  <2>2. CpusInv'
    BY <1>1, <1>3 DEF CpusInv
  <2>3. SessionInv' /\ UndoneInv'
    BY <1>3 DEF SessionInv, LeftOver, UndoneInv, Restored
  <2>. QED BY <2>1, <2>2, <2>3
<1>. QED BY <1>2, <1>3 DEF NextPass

LEMMA StopSessionStep ==
  ASSUME IInv, StopSession
  PROVE  IInv'
<1>. USE DEF StopSession
<1>1. CASE session' = "none" /\ NextPass
  <2>1. ScriptOK'
    BY <1>1, NextPassType
  <2>2. TypeOK'
    BY <1>1, <2>1 DEF IInv, TypeOK, ScriptOK, CpuTypeOK, cpuVars
  <2>3. FlowInv' /\ CpusInv' /\ SessionInv' /\ UndoneInv'
    BY <1>1, NextPassInv DEF cpuVars
  <2>. QED BY <2>2, <2>3 DEF IInv
<1>2. CASE Raise /\ session' \in {"none", session, "idle"}
  BY <1>2, RaiseStep DEF IInv, TypeOK
<1>. QED BY <1>1, <1>2 DEF AfterFailedStop

-----------------------------------------------------------------------------
(***************************************************************************)
(* The end.                                                                *)
(***************************************************************************)

(* A step of the finally block.                                            *)
LEMMA FinallyStep ==
  ASSUME IInv, NEW where \in Finally \cup {"end"}, Goto(where), pc \in Finally \cup {"results"},
         CpuTypeOK', UNCHANGED <<saved, interrupts>>, refused' \in BOOLEAN,
         session' \in {"none", "idle", "ust", "kernel"},
         daemon' \in {"none", "ours", "other"},
         modules' \in SUBSET {"main", "probe"},
         UndoneInv'
  PROVE  IInv'
<1>. USE DEF IInv, Goto, Finally
<1>1. TypeOK'
  BY DEF TypeOK
<1>2. FlowInv'
  BY DEF FlowInv, UstPlaces, KernelPlaces, TypeOK
<1>3. CpusInv' /\ SessionInv'
  BY DEF CpusInv, SessionInv, Benchmarking, KernelPlaces
<1>. QED BY <1>1, <1>2, <1>3

LEMMA ResultsStep ==
  ASSUME IInv, Results
  PROVE  IInv'
<1>. USE DEF Results, ReturnOrRaise, UnchangedOutside, cpuVars, traceVars
<1>1. CASE Goto("cleanup")
  <2>1. UndoneInv'
    BY <1>1 DEF Goto, UndoneInv, Restored
  <2>. QED BY <1>1, <2>1, FinallyStep DEF IInv, TypeOK, CpuTypeOK, Finally
<1>2. CASE Raise
  BY <1>2, RaiseStep DEF IInv, TypeOK
<1>. QED BY <1>1, <1>2

LEMMA EndSessionStep ==
  ASSUME IInv, EndSession
  PROVE  IInv'
<1>. USE DEF EndSession
<1>1. /\ session' \in {"none", "idle", session} /\ refused' \in BOOLEAN
      /\ session' = "none" \/ refused' = TRUE
  BY Zenon DEF IInv, TypeOK
<1>2. UndoneInv'
  BY <1>1 DEF Goto, UndoneInv, Restored
<1>. QED BY <1>1, <1>2, FinallyStep DEF IInv, TypeOK, CpuTypeOK, cpuVars, Finally

LEMMA UnloadStep ==
  ASSUME IInv, Unload
  PROVE  IInv'
<1>. USE DEF Unload
<1>1. CASE modules' = {} /\ Goto("kill")
  <2>1. UndoneInv'
    BY <1>1 DEF Goto, IInv, UndoneInv, Restored
  <2>. QED BY <1>1, <2>1, FinallyStep DEF IInv, TypeOK, CpuTypeOK, cpuVars, Finally
<1>2. CASE modules' \in {modules, modules \ {"main"}} \ {{}} /\ Raise
  BY <1>2, RaiseStep DEF IInv, TypeOK
<1>3. CASE modules' \in {modules, modules \ {"main"}} \ {{}} /\ session # "none" /\ Goto("end")
  <2>1. refused = TRUE
    BY <1>3 DEF IInv, UndoneInv, TypeOK
  <2>2. UndoneInv'
    BY <1>3, <2>1 DEF Goto, UndoneInv, Restored
  <2>. QED BY <1>3, <2>2, FinallyStep DEF IInv, TypeOK, CpuTypeOK, cpuVars, Finally
<1>. QED BY <1>1, <1>2, <1>3

LEMMA KillDaemonStep ==
  ASSUME IInv, KillDaemon
  PROVE  IInv'
<1>. USE DEF KillDaemon
<1>1. CASE /\ \/ /\ daemon' = IF daemon = "ours" THEN "none" ELSE daemon
                 /\ session' = IF daemon = "ours" THEN "none" ELSE session
                 /\ UNCHANGED refused
              \/ UNCHANGED <<daemon, session>> /\ refused' = TRUE
           /\ Goto("restore_off")
           /\ SetAll(online \ saved, FALSE)
  <2>1. UndoneInv'
    BY <1>1 DEF Goto, SetAll, IInv, TypeOK, CpuTypeOK, UndoneInv, Restored
  <2>2. CpuTypeOK'
    BY <1>1 DEF SetAll, IInv, TypeOK, CpuTypeOK
  <2>. QED BY <1>1, <2>1, <2>2, FinallyStep DEF IInv, TypeOK, Finally
<1>2. CASE Raise /\ UNCHANGED <<daemon, session, todo, enable, refused>>
  BY <1>2, RaiseStep DEF IInv, TypeOK, cpuVars
<1>. QED BY <1>1, <1>2

LEMMA RestoreStep ==
  ASSUME IInv, Restore
  PROVE  IInv'
<1>. USE DEF Restore, traceVars
<1>1. CASE /\ pc = "restore_off"
           /\ SetAll(Missing(saved), TRUE)
           /\ Goto("restore_on")
  <2>1. UndoneInv'
    BY <1>1 DEF Goto, SetAll, Missing, offline, IInv, TypeOK, CpuTypeOK, UndoneInv, Restored
  <2>2. CpuTypeOK'
    BY <1>1 DEF SetAll, Missing, IInv, TypeOK, CpuTypeOK
  <2>. QED BY <1>1, <2>1, <2>2, FinallyStep DEF IInv, TypeOK, Finally
<1>2. CASE pc = "restore_on" /\ Goto("end") /\ UNCHANGED <<todo, enable>>
  <2>1. UndoneInv'
    BY <1>2 DEF Goto, IInv, UndoneInv, Restored
  <2>. QED BY <1>2, <2>1, FinallyStep DEF IInv, TypeOK, CpuTypeOK, Finally
<1>. QED BY <1>1, <1>2

LEMMA DaemonDiesStep ==
  ASSUME IInv, DaemonDies
  PROVE  IInv'
<1>. USE DEF DaemonDies, IInv, cpuVars, scriptVars
<1>1. TypeOK'
  BY DEF TypeOK, CpuTypeOK
<1>2. FlowInv' /\ CpusInv' /\ SessionInv'
  BY DEF FlowInv, CpusInv, SessionInv, LeftOver
<1>3. UndoneInv'
  BY DEF UndoneInv, Restored
<1>. QED BY <1>1, <1>2, <1>3

(***************************************************************************)
(* The invariant is one.                                                   *)
(***************************************************************************)
LEMMA OrchestrationInv == Spec => []IInv
<1>1. ASSUME IInv, [Next]_vars PROVE IInv'
  <2>1. CASE Save \/ Count \/ SetOne \/ Counted
    BY <1>1, <2>1, SaveStep, CountStep, SetOneStep, CountedStep
  <2>2. CASE SetOneFails
    BY <1>1, <2>2, RaiseStep DEF SetOneFails, UnchangedOutside, traceVars, IInv, TypeOK
  <2>3. CASE Measure \/ Events \/ Load
    BY <1>1, <2>3, MeasureStep, LoadStep
  <2>4. CASE StartDaemon \/ CreateSession \/ StartSession \/ StopSession
    BY <1>1, <2>4, StartDaemonStep, CreateSessionStep, StartSessionStep, StopSessionStep
  <2>5. CASE Results \/ EndSession \/ Unload \/ KillDaemon \/ Restore
    BY <1>1, <2>5, ResultsStep, EndSessionStep, UnloadStep, KillDaemonStep, RestoreStep
  <2>6. CASE Interrupt
    <3>1. interrupts' \in 0 .. MaxInterrupts
      BY <1>1, <2>6, MaxInterruptsAssumption DEF Interrupt, IInv, TypeOK
    <3>. QED BY <1>1, <2>6, <3>1, RaiseStep DEF Interrupt, traceVars, IInv, TypeOK
  <2>7. CASE DaemonDies
    BY <1>1, <2>7, DaemonDiesStep
  <2>8. CASE UNCHANGED vars
    <3>1. TypeOK'
      BY <1>1, <2>8 DEF vars, cpuVars, scriptVars, traceVars, IInv, TypeOK, CpuTypeOK
    <3>2. FlowInv' /\ CpusInv' /\ SessionInv' /\ UndoneInv'
      BY <1>1, <2>8
      DEF vars, cpuVars, scriptVars, traceVars, IInv, FlowInv, CpusInv, SessionInv, LeftOver,
          UndoneInv, Restored
    <3>. QED BY <3>1, <3>2 DEF IInv
  <2>. QED
    BY <1>1, <2>1, <2>2, <2>3, <2>4, <2>5, <2>6, <2>7, <2>8 DEF Next, Step, Finished
<1>. QED BY <1>1, InitInv, PTL DEF Spec

-----------------------------------------------------------------------------
(***************************************************************************)
(* Theorems.                                                               *)
(***************************************************************************)

(* Wherever an exception takes the script, its variables keep to their     *)
(* types: it works on CPUs there are, in a pass of the benchmark it is in. *)
THEOREM OrchestrationTypeCorrect == Spec => []TypeOK
BY OrchestrationInv, PTL DEF IInv

(* What is stored for cpu_count CPUs has been measured on the first        *)
(* cpu_count of those that were online, for every number of CPUs, whatever *)
(* writes sysfs loses (benchmarks.py:274-304, linux_cpu.py:54-74).         *)
THEOREM CpusAsLabelledCorrect == Spec => []CpusAsLabelled
<1>1. ASSUME IInv PROVE CpusAsLabelled
  BY <1>1 DEF IInv, CpusInv, CpusAsLabelled, Measuring, Benchmarking, KernelPlaces
<1>. QED BY <1>1, OrchestrationInv, PTL

(* A traced run is traced in its own domain or not at all, and a baseline  *)
(* is traced only by the session of a kernel benchmark given up with more  *)
(* CPUs, for every number of passes (benchmarks.py:56-75, 167-172,         *)
(* 260-265).                                                               *)
THEOREM TracedAsLabelledCorrect == Spec => []TracedAsLabelled
<1>1. ASSUME IInv PROVE TracedAsLabelled
  BY <1>1 DEF IInv, TypeOK, SessionInv, LeftOver, TracedAsLabelled
<1>. QED BY <1>1, OrchestrationInv, PTL

(* The finally block of main() restores the machine, however often it and  *)
(* the benchmarks before it are interrupted, if no exception leaves it and *)
(* nothing in it was refused (benchmarks.py:317-344).                      *)
THEOREM RestoredCorrect == Spec => []Restored
<1>1. ASSUME IInv PROVE Restored
  BY <1>1 DEF IInv, UndoneInv
<1>. QED BY <1>1, OrchestrationInv, PTL

=============================================================================
