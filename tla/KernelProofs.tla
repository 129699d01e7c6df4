---------------------------- MODULE KernelProofs ----------------------------
(***************************************************************************)
(* Theorems about module KernelBenchmark, for every number of CPUs, of     *)
(* reads and of events, and every set of failures.                         *)
(***************************************************************************)
EXTENDS KernelInvariants, TLAPS

USE NCpusAssumption, MaxReadsAssumption, CountAssumption, NoneAssumption

-----------------------------------------------------------------------------
(***************************************************************************)
(* Types, arrays and shape.                                                *)
(***************************************************************************)
Base == TypeOK /\ ArraysOK /\ ShapeOK

LEMMA InitBase ==
  ASSUME Init  PROVE Base
<1>0. 0 \in Nat /\ 0 \in 0 .. MaxCount
  OBVIOUS
<1>1. Garbage \in Record /\ NoThread \in Thread /\ NoThread.pc \notin Touching
  <2>1. Garbage \in Record
    BY <1>0, Zenon DEF Garbage, Record
  <2>2. NoThread \in Thread
    BY <1>0, Zenon DEF NoThread, Thread
  <2>3. NoThread.pc \notin Touching
    BY DEF NoThread, Touching
  <2>4. QED  BY <2>1, <2>2, <2>3
<1>2. 0 \in 0 .. NCpus
  OBVIOUS
<1>3. TypeOK
  BY <1>1, <1>2 DEF Init, TypeOK
<1>4. ArraysOK /\ ShapeOK
  BY <1>1 DEF Init, ArraysOK, ShapeOK, Allocated, Active
<1>5. QED  BY <1>3, <1>4 DEF Base

LEMMA EnvBase ==
  ASSUME Base,
         \/ Load \/ Unload
         \/ \E v \in 0 .. MaxCount : StoreCount(v)
         \/ \E c \in Cpu : Hotplug(c)
         \/ \E k \in Read : Signal(k) \/ Begin(k)
  PROVE  Base'
<1> USE DEF Base
<1>1. CASE Load
  BY <1>1 DEF Load, TypeOK, ArraysOK, ShapeOK, readVars
<1>2. CASE Unload
  <2>1. thr' \in [Read \X Cpu -> Thread]
    BY <1>2 DEF Unload, NoThread, LostThread, Thread, Touching
  <2>2. \A t \in Read \X Cpu : thr'[t].pc \notin Touching
    BY <1>2 DEF Unload, NoThread, LostThread, Touching
  <2>3. QED
    BY <1>2, <2>1, <2>2 DEF Unload, Drained, TypeOK, ArraysOK, ShapeOK, readVars, Active
<1>3. CASE \E v \in 0 .. MaxCount : StoreCount(v)
  BY <1>3 DEF StoreCount, TypeOK, ArraysOK, ShapeOK, readVars
<1>4. CASE \E c \in Cpu : Hotplug(c)
  BY <1>4 DEF Hotplug, TypeOK, ArraysOK, ShapeOK, readVars
<1>5. CASE \E k \in Read : Signal(k)
  BY <1>5 DEF Signal, TypeOK, ArraysOK, ShapeOK
<1>6. CASE \E k \in Read : Begin(k)
  BY <1>6 DEF Begin, TypeOK, ArraysOK, ShapeOK, Allocated, Active
<1>7. QED  BY <1>1, <1>2, <1>3, <1>4, <1>5, <1>6

LEMMA ThreadFields ==
  /\ \A pc \in Touching : pc \in {"none", "exit", "lost"} \cup Touching
  /\ "born" \in {"none", "exit", "lost"} \cup Touching
  /\ "gate" \in {"none", "exit", "lost"} \cup Touching
  /\ "loop" \in {"none", "exit", "lost"} \cup Touching
  /\ "store" \in {"none", "exit", "lost"} \cup Touching
  /\ "complete" \in {"none", "exit", "lost"} \cup Touching
  /\ None \in Read \cup {None}
  /\ 0 \in 0 .. MaxCount
  /\ \A b \in Block : b \in Block \cup {None}
BY DEF Touching

(* A step of one thread, or its start.                                     *)
LEMMA ThreadSet ==
  ASSUME TypeOK, ShapeOK, NEW t \in Read \X Cpu, NEW r \in Thread,
         r.pc \in Touching => r.at \in Block,
         thr' = [thr EXCEPT ![t] = r]
  PROVE  /\ thr' \in [Read \X Cpu -> Thread]
         /\ \A u \in Read \X Cpu : thr'[u].pc \in Touching => thr'[u].at \in Block
BY DEF TypeOK, ShapeOK

(* What for_each_online_cpu() yields is a CPU.                             *)
LEMMA CpuRange ==
  ASSUME TypeOK, NEW k \in Read, NEW c \in Cpu, AtCpu(k, c)
  PROVE  c \in online /\ c + 1 \in 0 .. NCpus /\ next[k] <= c /\ c \in Nat
BY DEF TypeOK, AtCpu, Cpu

LEMMA ReadBase ==
  ASSUME Base, NEW k \in Read,
         ReadStep(k) \/ AllocFails(k) \/ ReaderLost(k)
  PROVE  Base'
<1> USE DEF Base
<1>1. CASE CountCpu(k)
  <2>1. PICK c \in Cpu : AtCpu(k, c) /\ Advance(k, c)
    BY <1>1 DEF CountCpu
  <2>2. online_cpus[k] + 1 <= c + 1 /\ c + 1 \in 0 .. NCpus
    BY <1>1, <2>1, CpuRange DEF CountCpu, TypeOK, ShapeOK
  <2>3. QED
    BY <1>1, <2>1, <2>2 DEF CountCpu, Advance, TypeOK, ArraysOK, ShapeOK
<1>2. CASE Alloc(k)
  BY <1>2 DEF Alloc, Proceed, TypeOK, ArraysOK, ShapeOK, Allocated, Active
<1>3. CASE AllocFails(k)
  BY <1>3 DEF AllocFails, Proceed, TypeOK, ArraysOK, ShapeOK, Allocated, Active
<1>4. CASE ReaderLost(k)
  BY <1>4 DEF ReaderLost, TypeOK, ArraysOK, ShapeOK, Allocated, Active
<1>5. CASE InitRecord(k)
  <2>1. threads[k] \in Block
    BY <1>5 DEF InitRecord, ArraysOK, Allocated
  <2>2. ASSUME NEW r \in Record  PROVE Inited(r) \in Record
    <3>1. 0 \in Nat /\ 0 \in 0 .. MaxCount /\ r.prev \in Read \cup {None}
      BY DEF Record
    <3>2. QED  BY <3>1, Zenon DEF Inited, Record
  <2>3. CASE \E c \in Cpu : /\ AtCpu(k, c) /\ Advance(k, c)
                            /\ rec' = [rec EXCEPT ![threads[k]][c] = Inited(@)]
                            /\ UNCHANGED rpc
    <3>1. PICK c \in Cpu : /\ AtCpu(k, c) /\ Advance(k, c)
                           /\ rec' = [rec EXCEPT ![threads[k]][c] = Inited(@)]
                           /\ UNCHANGED rpc
      BY <2>3
    <3>2. Inited(rec[threads[k]][c]) \in Record
      BY <2>1, <2>2 DEF TypeOK
    <3>3. rec' \in [Block -> [Cpu -> Record]]
      BY <2>1, <3>1, <3>2 DEF TypeOK
    <3>4. QED
      BY <1>5, <3>1, <3>3, CpuRange DEF InitRecord, Advance, TypeOK, ArraysOK, ShapeOK
  <2>4. CASE Proceed(k, "start") /\ UNCHANGED rec
    BY <1>5, <2>4 DEF InitRecord, Proceed, TypeOK, ArraysOK, ShapeOK, Allocated, Active
  <2>5. QED  BY <1>5, <2>3, <2>4 DEF InitRecord
<1>6. CASE StartThread(k)
  <2>1. threads[k] \in Block
    BY <1>6 DEF StartThread, ArraysOK, Allocated
  <2>2. PICK c \in Cpu :
          /\ AtCpu(k, c) /\ Advance(k, c)
          /\ rec' = [rec EXCEPT ![threads[k]][c].prev = k]
          /\ \/ thr' = [thr EXCEPT ![<<k, c>>] = NewThread(threads[k])]
             \/ UNCHANGED thr
    BY <1>6 DEF StartThread
  <2>3. rec' \in [Block -> [Cpu -> Record]]
    <3>1. [rec[threads[k]][c] EXCEPT !.prev = k] \in Record
      <4>1. rec[threads[k]][c] \in Record
        BY <2>1 DEF TypeOK
      <4>2. QED  BY <4>1, Zenon DEF Record
    <3>2. QED  BY <2>1, <2>2, <3>1 DEF TypeOK
  <2>4. /\ NewThread(threads[k]) \in Thread
        /\ NewThread(threads[k]).at \in Block
    BY <2>1, ThreadFields, Zenon DEF NewThread, Thread
  <2>5. /\ thr' \in [Read \X Cpu -> Thread]
        /\ \A t \in Read \X Cpu : thr'[t].pc \in Touching => thr'[t].at \in Block
    <3>1. <<k, c>> \in Read \X Cpu
      OBVIOUS
    <3>2. CASE UNCHANGED thr
      BY <3>2 DEF TypeOK, ShapeOK
    <3>3. CASE thr' = [thr EXCEPT ![<<k, c>>] = NewThread(threads[k])]
      BY <2>4, <3>1, <3>3, ThreadSet
    <3>4. QED  BY <2>2, <3>2, <3>3
  <2>6. QED
    BY <1>6, <2>2, <2>3, <2>5, CpuRange
       DEF StartThread, Advance, TypeOK, ArraysOK, ShapeOK
<1>7. CASE Release(k)
  BY <1>7 DEF Release, Proceed, TypeOK, ArraysOK, ShapeOK, Allocated, Active
<1>8. CASE WaitEnd(k)
  <2>1. threads[k] \in Block
    BY <1>8 DEF WaitEnd, ArraysOK, Allocated
  <2>2. CASE Proceed(k, "sum") /\ UNCHANGED <<rec, seen>>
    BY <1>8, <2>2 DEF WaitEnd, Proceed, TypeOK, ArraysOK, ShapeOK, Allocated, Active
  <2>3. CASE ~(Proceed(k, "sum") /\ UNCHANGED <<rec, seen>>)
    <3>1. PICK c \in Cpu :
            /\ AtCpu(k, c) /\ Advance(k, c)
            /\ \/ /\ rec[threads[k]][c].end # 0
                  /\ rec' = [rec EXCEPT ![threads[k]][c].end =
                               IF @ = None THEN None ELSE @ - 1]
                  /\ UNCHANGED seen
               \/ /\ seen' = seen \cup {"signal"}
                  /\ UNCHANGED rec
            /\ UNCHANGED rpc
      BY <1>8, <2>3 DEF WaitEnd
    <3>2. rec' \in [Block -> [Cpu -> Record]]
      <4>1. CASE UNCHANGED rec
        BY <4>1 DEF TypeOK
      <4>2. CASE /\ rec[threads[k]][c].end # 0
                 /\ rec' = [rec EXCEPT ![threads[k]][c].end =
                              IF @ = None THEN None ELSE @ - 1]
        <5> DEFINE e == rec[threads[k]][c].end
                   n == IF e = None THEN None ELSE e - 1
        <5>1. rec[threads[k]][c] \in Record
          BY <2>1 DEF TypeOK
        <5>2. n \in Nat \cup {None}
          BY <4>2, <5>1 DEF Record
        <5>3. [rec[threads[k]][c] EXCEPT !.end = n] \in Record
          <6> HIDE DEF n
          <6> QED  BY <5>1, <5>2, Zenon DEF Record
        <5>4. QED  BY <2>1, <4>2, <5>3 DEF TypeOK
      <4>3. QED  BY <3>1, <4>1, <4>2
    <3>3. QED
      BY <1>8, <3>1, <3>2, CpuRange
         DEF WaitEnd, Advance, TypeOK, ArraysOK, ShapeOK
  <2>4. QED  BY <2>2, <2>3
<1>9. CASE AddTime(k)
  <2>1. threads[k] \in Block
    BY <1>9 DEF AddTime, ArraysOK, Allocated
  <2>2. ASSUME NEW c \in Cpu  PROVE rec[threads[k]][c].time \in Nat
    BY <2>1 DEF TypeOK, Record
  <2>3. CASE Proceed(k, "free") /\ UNCHANGED time
    BY <1>9, <2>3 DEF AddTime, Proceed, TypeOK, ArraysOK, ShapeOK, Allocated, Active
  <2>4. CASE ~(Proceed(k, "free") /\ UNCHANGED time)
    <3>1. PICK c \in Cpu :
            /\ AtCpu(k, c) /\ Advance(k, c)
            /\ time' = [time EXCEPT ![k] = @ + rec[threads[k]][c].time]
            /\ UNCHANGED rpc
      BY <1>9, <2>4 DEF AddTime
    <3>2. time' \in [Read -> Nat]
      BY <2>2, <3>1 DEF TypeOK
    <3>3. next' \in [Read -> 0 .. NCpus]
      BY <3>1, CpuRange DEF Advance, TypeOK
    <3>4. QED
      BY <1>9, <3>1, <3>2, <3>3 DEF AddTime, Advance, TypeOK, ArraysOK, ShapeOK
  <2>5. QED  BY <2>3, <2>4
<1>10. CASE Return(k)
  <2>1. threads[k] \in Block
    BY <1>10 DEF Return, ArraysOK, Allocated
  <2>2. rec' \in [Block -> [Cpu -> Record]]
    <3>1. ASSUME NEW c \in Cpu
          PROVE  [rec[threads[k]][c] EXCEPT !.end = None] \in Record
      <4>1. rec[threads[k]][c] \in Record
        BY <2>1 DEF TypeOK
      <4>2. QED  BY <4>1, Zenon DEF Record
    <3>2. QED  BY <1>10, <2>1, <3>1 DEF Return, TypeOK
  <2>3. QED
    BY <1>10, <2>2 DEF Return, TypeOK, ArraysOK, ShapeOK, Allocated, Active
<1>11. QED
  BY <1>1, <1>2, <1>3, <1>4, <1>5, <1>6, <1>7, <1>8, <1>9, <1>10 DEF ReadStep

LEMMA ThreadBase ==
  ASSUME Base, NEW t \in Read \X Cpu, ThreadStep(t) \/ ThreadLost(t)
  PROVE  Base'
<1> USE DEF Base
<1>0. /\ t[2] \in Cpu /\ thr[t] \in Thread
      /\ thr[t].pc \in Touching => rec[thr[t].at][t[2]] \in Record
  BY DEF TypeOK, ShapeOK
<1>r. ASSUME thr' \in [Read \X Cpu -> Thread],
             \A u \in Read \X Cpu : thr'[u].pc \in Touching => thr'[u].at \in Block,
             rec' \in [Block -> [Cpu -> Record]],
             UnchangedByThreads
      PROVE  Base'
  BY <1>r DEF UnchangedByThreads, readVars, TypeOK, ArraysOK, ShapeOK
<1>1. CASE FetchPrev(t)
  <2>1. rec[thr[t].at][t[2]].prev \in Read \cup {None}
    BY <1>0, <1>1 DEF FetchPrev, Touching, Record
  <2>2. QED
    BY <1>0, <1>1, <1>r, <2>1 DEF FetchPrev, TypeOK, ShapeOK, Thread, Touching
<1>2. CASE PassGate(t)
  <2>1. DEFINE r == [thr[t] EXCEPT !.pc = "loop", !.prev = None]
  <2>2. r \in Thread /\ (r.pc \in Touching => r.at \in Block)
    BY <1>0, <1>2 DEF PassGate, ShapeOK, Thread, Touching
  <2>3. thr' = [thr EXCEPT ![t] = r] /\ rec' = rec /\ UnchangedByThreads
    BY <1>0, <1>2 DEF PassGate, TypeOK
  <2>4. HIDE DEF r
  <2>5. QED  BY <1>r, <2>2, <2>3, ThreadSet DEF TypeOK
<1>3. CASE Generate(t)
  <2>0. /\ thr[t].pc \in Touching /\ thr[t].at \in Block
        /\ thr[t].i \in 0 .. MaxCount
    BY <1>0, <1>3 DEF Generate, Touching, ShapeOK, Thread
  <2>1. CASE More(t)
    <3>1. thr' = [thr EXCEPT ![t] = [thr[t] EXCEPT !.i = thr[t].i + 1]]
      BY <1>0, <1>3, <2>1 DEF Generate, TypeOK
    <3>2. thr[t].i + 1 \in 0 .. MaxCount
      BY <2>0, <2>1 DEF More, TypeOK
    <3>3. /\ [thr[t] EXCEPT !.i = thr[t].i + 1] \in Thread
          /\ [thr[t] EXCEPT !.i = thr[t].i + 1].at \in Block
      BY <1>0, <2>0, <3>2, Zenon DEF Thread
    <3>4. rec' = rec /\ UnchangedByThreads
      BY <1>3 DEF Generate
    <3>5. QED  BY <1>r, <3>1, <3>3, <3>4, ThreadSet DEF TypeOK
  <2>2. CASE ~More(t)
    <3>1. thr' = [thr EXCEPT ![t] = [thr[t] EXCEPT !.pc = "store"]]
      BY <1>0, <1>3, <2>2 DEF Generate, Goto, TypeOK
    <3>2. /\ [thr[t] EXCEPT !.pc = "store"] \in Thread
          /\ [thr[t] EXCEPT !.pc = "store"].at \in Block
      BY <1>0, <2>0, ThreadFields, Zenon DEF Thread
    <3>3. rec' = rec /\ UnchangedByThreads
      BY <1>3 DEF Generate
    <3>4. QED  BY <1>r, <3>1, <3>2, <3>3, ThreadSet DEF TypeOK
  <2>3. QED  BY <2>1, <2>2
<1>4. CASE StoreTime(t)
  <2>1. thr[t].at \in Block /\ rec[thr[t].at][t[2]] \in Record /\ thr[t].i \in 0 .. MaxCount
    BY <1>0, <1>4 DEF StoreTime, Touching, ShapeOK, Thread
  <2>2. [rec[thr[t].at][t[2]] EXCEPT !.time = thr[t].i] \in Record
    BY <2>1, Zenon DEF Record
  <2>3. rec' \in [Block -> [Cpu -> Record]]
    BY <1>0, <1>4, <2>1, <2>2 DEF StoreTime, TypeOK
  <2>4. DEFINE r == [thr[t] EXCEPT !.pc = "complete", !.i = 0]
  <2>5. r \in Thread /\ r.at \in Block
    BY <1>0, <2>1, ThreadFields, Zenon DEF Thread
  <2>6. thr' = [thr EXCEPT ![t] = r] /\ UnchangedByThreads
    BY <1>0, <1>4 DEF StoreTime, TypeOK
  <2>7. HIDE DEF r
  <2>8. QED  BY <1>r, <2>3, <2>5, <2>6, ThreadSet
<1>5. CASE Complete(t)
  <2>1. thr[t].at \in Block /\ rec[thr[t].at][t[2]] \in Record
    BY <1>0, <1>5 DEF Complete, Touching, ShapeOK
  <2> DEFINE e == rec[thr[t].at][t[2]].end
             n == IF e = None THEN None ELSE e + 1
  <2>2. n \in Nat \cup {None}
    BY <2>1 DEF Record
  <2>3. [rec[thr[t].at][t[2]] EXCEPT !.end = n] \in Record
    <3> HIDE DEF n
    <3> QED  BY <2>1, <2>2, Zenon DEF Record
  <2>4. rec' \in [Block -> [Cpu -> Record]]
    BY <1>0, <1>5, <2>1, <2>3 DEF Complete, TypeOK
  <2>5. QED
    BY <1>0, <1>5, <1>r, <2>4 DEF Complete, TypeOK, ShapeOK, Thread, Touching
<1>6. CASE ThreadExit(t)
  BY <1>0, <1>6, <1>r DEF ThreadExit, Goto, TypeOK, ShapeOK, Thread, Touching
<1>7. CASE ThreadLost(t)
  BY <1>0, <1>7, <1>r DEF ThreadLost, LostThread, NoThread, TypeOK, ShapeOK, Thread,
                          Touching
<1>8. QED
  BY <1>1, <1>2, <1>3, <1>4, <1>5, <1>6, <1>7 DEF ThreadStep

-----------------------------------------------------------------------------
(***************************************************************************)
(* What a step leaves alone.                                               *)
(***************************************************************************)
SameRead(k) ==
  /\ online' = online
  /\ rpc'[k] = rpc[k] /\ next'[k] = next[k] /\ online_cpus'[k] = online_cpus[k]
  /\ threads'[k] = threads[k] /\ main_start'[k] = main_start[k] /\ time'[k] = time[k]

SameCpu(k, c) ==
  /\ SameRead(k)
  /\ thr'[<<k, c>>] = thr[<<k, c>>]
  /\ threads[k] \in Block => rec'[threads[k]][c] = rec[threads[k]][c]

LEMMA SameReadOK ==
  ASSUME NEW k \in Read, SameRead(k), event_count' = event_count
  PROVE  /\ CpusOK(k) => CpusOK(k)'
         /\ SumOK(k) => SumOK(k)'
BY DEF SameRead, CpusOK, SumOK

LEMMA SameCpuOK ==
  ASSUME Base, NEW k \in Read, NEW c \in Cpu, SameCpu(k, c),
         event_count' = event_count, ThreadOK(k, c)
  PROVE  /\ ThreadOK(k, c)'
         /\ MeasureOK(k, c) => MeasureOK(k, c)'
<1>1. /\ rpc[k] \in Allocated => threads[k] \in Block
      /\ \A d : IsReady(k, d) => rpc[k] \in Allocated
      /\ \A d : IsStarted(k, d) => rpc[k] \in Allocated
  BY DEF Base, ArraysOK, IsReady, IsStarted, Allocated
<1>2. /\ IsReady(k, c)' <=> IsReady(k, c)
      /\ IsStarted(k, c)' <=> IsStarted(k, c)
  BY DEF SameCpu, SameRead, IsReady, IsStarted
<1>3. thr[<<k, c>>].pc \in {"born", "gate"} => thr[<<k, c>>].pc \in Touching
  BY DEF Touching
<1>4. ThreadOK(k, c)'
  BY <1>1, <1>2, <1>3 DEF SameCpu, SameRead, ThreadOK
<1>5. MeasureOK(k, c) => MeasureOK(k, c)'
  BY <1>1, <1>2 DEF SameCpu, SameRead, MeasureOK
<1>6. QED  BY <1>4, <1>5

(* A step of one read does not touch another.                              *)
LEMMA ReadFrame ==
  ASSUME Base, NEW k \in Read,
         ReadStep(k) \/ AllocFails(k) \/ ReaderLost(k)
  PROVE  /\ event_count' = event_count
         /\ seen \subseteq seen'
         /\ \A j \in Read : j # k => \A c \in Cpu : SameCpu(j, c)
<1>0. /\ TypeOK /\ rec \in [Block -> [Cpu -> Record]]
      /\ \A j \in Read : threads[j] \in Block /\ j # k => threads[j] # threads[k]
  BY DEF Base, TypeOK, ArraysOK
<1>1. CASE CountCpu(k) \/ Alloc(k) \/ AllocFails(k) \/ ReaderLost(k) \/ Release(k)
           \/ AddTime(k)
  BY <1>0, <1>1 DEF CountCpu, Alloc, AllocFails, ReaderLost, Release, AddTime, Proceed,
                    Advance, TypeOK, SameCpu, SameRead
<1>2. CASE InitRecord(k)
  BY <1>0, <1>2 DEF InitRecord, Proceed, Advance, TypeOK, SameCpu, SameRead
<1>3. CASE StartThread(k)
  BY <1>0, <1>3 DEF StartThread, Proceed, Advance, TypeOK, SameCpu, SameRead
<1>4. CASE WaitEnd(k)
  BY <1>0, <1>4 DEF WaitEnd, Proceed, Advance, TypeOK, SameCpu, SameRead
<1>5. CASE Return(k)
  BY <1>0, <1>5 DEF Return, Proceed, Advance, TypeOK, SameCpu, SameRead
<1>6. QED  BY <1>1, <1>2, <1>3, <1>4, <1>5 DEF ReadStep

-----------------------------------------------------------------------------
(***************************************************************************)
(* Without a disturbance the threads of a read have work to do only while  *)
(* it waits for them.                                                      *)
(***************************************************************************)
CalmRead(k) == CpusOK(k) /\ \A c \in Cpu : ThreadOK(k, c)

(* for_each_online_cpu() visits 0, 1, ... and ends after the last of the   *)
(* CPUs that were counted.                                                 *)
LEMMA CalmCpus ==
  ASSUME TypeOK, NEW k \in Read, CpusOK(k), rpc[k] \in Allocated
  PROVE  /\ \A c \in Cpu : AtCpu(k, c) => c = next[k] /\ c < online_cpus[k]
         /\ AtEnd(k) => next[k] = online_cpus[k]
<1>1. /\ next[k] \in Nat /\ online_cpus[k] \in Nat
      /\ online = 0 .. (online_cpus[k] - 1) /\ next[k] <= online_cpus[k]
  BY DEF TypeOK, CpusOK
<1>2. ASSUME NEW c \in Cpu, AtCpu(k, c)
      PROVE  c = next[k] /\ c < online_cpus[k]
  <2>1. c \in 0 .. (online_cpus[k] - 1) /\ c >= next[k]
    BY <1>1, <1>2 DEF AtCpu
  <2>2. next[k] \in online => next[k] >= c
    BY <1>1, <1>2 DEF AtCpu
  <2>3. QED  BY <1>1, <2>1, <2>2 DEF Cpu
<1>3. ASSUME AtEnd(k)  PROVE next[k] = online_cpus[k]
  <2>1. next[k] \notin online
    BY <1>1, <1>3 DEF AtEnd
  <2>2. QED  BY <1>1, <2>1
<1>4. QED  BY <1>2, <1>3

LEMMA CalmReadStep ==
  ASSUME Base, Base', Calm, Calm', NEW k \in Read, CalmRead(k),
         ReadStep(k) \/ AllocFails(k) \/ ReaderLost(k)
  PROVE  CalmRead(k)'
<1>0. /\ TypeOK /\ TypeOK' /\ CpusOK(k)
      /\ next[k] \in Nat /\ online_cpus[k] \in Nat
      /\ rec \in [Block -> [Cpu -> Record]]
      /\ rpc[k] \in Allocated => threads[k] \in Block
  BY DEF Base, TypeOK, CalmRead, ArraysOK
<1>c. \A c \in Cpu : ThreadOK(k, c) /\ c \in Nat
  BY DEF CalmRead, Cpu
<1> USE DEF Allocated, IsReady, IsStarted, Touching
<1>1. CASE CountCpu(k)
  <2>1. rpc[k] = "count" /\ rpc' = rpc /\ thr' = thr /\ main_start' = main_start
    BY <1>1 DEF CountCpu
  <2>2. QED  BY <1>c, <2>1 DEF CalmRead, CpusOK, ThreadOK
<1>2. CASE Alloc(k)
  <2>1. /\ rpc[k] = "count" /\ rpc'[k] = "init" /\ next'[k] = 0
        /\ thr' = thr /\ main_start' = main_start
        /\ online' = online /\ online_cpus' = online_cpus
    BY <1>0, <1>2 DEF Alloc, Proceed, TypeOK
  <2>2. online = 0 .. (online_cpus[k] - 1)
    BY <1>2 DEF Alloc, Calm
  <2>3. QED  BY <1>0, <1>c, <2>1, <2>2 DEF CalmRead, CpusOK, ThreadOK
<1>3. CASE AllocFails(k)
  <2>1. rpc[k] = "count" /\ rpc'[k] = "lost" /\ thr' = thr
    BY <1>0, <1>3 DEF AllocFails, Proceed, TypeOK
  <2>2. QED  BY <1>c, <2>1 DEF CalmRead, CpusOK, ThreadOK
<1>4. ~ReaderLost(k)
  <2>1. SUFFICES ASSUME ReaderLost(k)  PROVE FALSE
    OBVIOUS
  <2>2. PICK c \in Cpu :
          /\ AtCpu(k, c)
          /\ c >= online_cpus[k] \/ (rpc[k] = "wait" /\ rec[threads[k]][c].end = None)
    BY <2>1 DEF ReaderLost
  <2>3. rpc[k] \in {"init", "start", "wait", "sum"}
    BY <2>1 DEF ReaderLost
  <2>4. c < online_cpus[k]
    BY <1>0, <2>2, <2>3, CalmCpus
  <2>5. rpc[k] = "wait" => rec[threads[k]][c].end \in Nat
    BY <1>c, <2>4 DEF ThreadOK
  <2>6. QED  BY <1>0, <1>c, <2>2, <2>4, <2>5, NoneAssumption
<1>5. CASE InitRecord(k)
  <2>1. /\ rpc[k] = "init" /\ threads[k] \in Block
        /\ UNCHANGED <<online, online_cpus, threads, main_start, thr>>
    BY <1>0, <1>5 DEF InitRecord
  <2>2. CASE rpc'[k] = "start" /\ next'[k] = 0 /\ AtEnd(k) /\ rec' = rec
    <3>1. next[k] = online_cpus[k]
      BY <1>0, <2>1, <2>2, CalmCpus
    <3>2. CpusOK(k)'
      BY <1>0, <2>1, <2>2 DEF CpusOK
    <3>3. ASSUME NEW c \in Cpu  PROVE ThreadOK(k, c)'
      <4>1. ThreadOK(k, c) /\ c \in Nat /\ online_cpus[k] \in Nat
        BY <1>0, <1>c, CalmCpus
      <4>2. thr[<<k, c>>].pc = "none" /\ ~main_start[k]
        BY <2>1, <4>1 DEF ThreadOK
      <4>3. c < online_cpus[k] => rec[threads[k]][c].end = 0
        BY <2>1, <3>1, <4>1 DEF ThreadOK
      <4>4. QED  BY <2>1, <2>2, <4>1, <4>2, <4>3 DEF ThreadOK
    <3>4. QED  BY <3>2, <3>3 DEF CalmRead
  <2>3. CASE \E c \in Cpu : /\ AtCpu(k, c) /\ Advance(k, c)
                            /\ rec' = [rec EXCEPT ![threads[k]][c] = Inited(@)]
                            /\ UNCHANGED rpc
    <3>1. PICK c \in Cpu : /\ AtCpu(k, c) /\ Advance(k, c)
                           /\ rec' = [rec EXCEPT ![threads[k]][c] = Inited(@)]
                           /\ UNCHANGED rpc
      BY <2>3
    <3>2. c = next[k] /\ c < online_cpus[k] /\ next'[k] = c + 1
      BY <1>0, <2>1, <3>1, CalmCpus DEF Advance, TypeOK
    <3>3. /\ rec'[threads[k]][c].end = 0
          /\ \A d \in Cpu : d # c => rec'[threads[k]][d] = rec[threads[k]][d]
      <4>1. rec'[threads[k]][c] = Inited(rec[threads[k]][c])
        BY <1>0, <2>1, <3>1
      <4>2. rec'[threads[k]][c].end = 0
        BY <1>0, <2>1, <4>1 DEF Inited, Record
      <4>3. QED  BY <1>0, <2>1, <3>1, <4>2
    <3>4. CpusOK(k)'
      BY <1>0, <2>1, <3>1, <3>2 DEF CpusOK
    <3>5. ASSUME NEW d \in Cpu  PROVE ThreadOK(k, d)'
      <4>1. /\ ThreadOK(k, d) /\ d \in Nat /\ c \in Nat
            /\ thr'[<<k, d>>] = thr[<<k, d>>] /\ thr[<<k, d>>].pc = "none"
            /\ rpc'[k] = "init" /\ main_start' = main_start
            /\ threads' = threads /\ online_cpus' = online_cpus
        BY <1>c, <2>1, <3>1 DEF ThreadOK
      <4>2. d < c + 1 /\ d < online_cpus[k] => rec'[threads[k]][d].end = 0
        BY <4>1, <2>1, <3>2, <3>3 DEF ThreadOK
      <4>3. QED  BY <2>1, <4>1, <4>2, <3>2 DEF ThreadOK
    <3>6. QED  BY <3>4, <3>5 DEF CalmRead
  <2>4. QED  BY <1>0, <1>5, <2>2, <2>3 DEF InitRecord, Proceed, TypeOK
<1>6. CASE StartThread(k)
  <2>1. PICK c \in Cpu :
          /\ AtCpu(k, c) /\ Advance(k, c)
          /\ rec' = [rec EXCEPT ![threads[k]][c].prev = k]
          /\ \/ thr' = [thr EXCEPT ![<<k, c>>] = NewThread(threads[k])]
             \/ UNCHANGED thr
    BY <1>6 DEF StartThread
  <2>2. /\ rpc[k] = "start" /\ threads[k] \in Block
        /\ UNCHANGED <<rpc, online, online_cpus, threads, main_start>>
    BY <1>0, <1>6 DEF StartThread
  <2>3. c = next[k] /\ c < online_cpus[k] /\ next'[k] = c + 1
    BY <1>0, <2>1, <2>2, CalmCpus DEF Advance, TypeOK
  <2>4. CpusOK(k)'
    BY <1>0, <2>2, <2>3 DEF CpusOK
  <2>5. ASSUME NEW d \in Cpu, d # c  PROVE ThreadOK(k, d)'
    <3>1. thr'[<<k, d>>] = thr[<<k, d>>] /\ rec'[threads[k]][d] = rec[threads[k]][d]
      BY <1>0, <2>1, <2>2, <2>5 DEF TypeOK
    <3>2. /\ ThreadOK(k, d) /\ d \in Nat /\ c \in Nat
          /\ rpc'[k] = "start" /\ main_start' = main_start
          /\ threads' = threads /\ online_cpus' = online_cpus
      BY <1>c, <2>2
    <3>3. IsStarted(k, d)' <=> IsStarted(k, d)
      BY <2>2, <2>3, <2>5, <3>2
    <3>4. QED  BY <2>2, <2>3, <2>5, <3>1, <3>2, <3>3 DEF ThreadOK
  <2>6. ThreadOK(k, c)'
    <3>1. /\ rec'[threads[k]][c].prev = k
          /\ rec'[threads[k]][c].end = rec[threads[k]][c].end
      <4>1. rec[threads[k]][c] \in Record
        BY <1>0, <2>2
      <4>2. rec'[threads[k]][c] = [rec[threads[k]][c] EXCEPT !.prev = k]
        BY <1>0, <2>1, <2>2
      <4>3. QED  BY <4>1, <4>2, Zenon DEF Record
    <3>2. \/ thr'[<<k, c>>] = NewThread(threads[k])
          \/ thr'[<<k, c>>] = thr[<<k, c>>] /\ thr[<<k, c>>].pc = "none"
      BY <1>0, <1>c, <2>1, <2>2, <2>3 DEF TypeOK, ThreadOK
    <3>3. CASE thr'[<<k, c>>] = NewThread(threads[k])
      <4>1. /\ thr'[<<k, c>>].pc = "born" /\ thr'[<<k, c>>].at = threads[k]
            /\ thr'[<<k, c>>].prev = None
        BY <3>3 DEF NewThread
      <4>2. c \in Nat /\ c < next'[k] /\ IsStarted(k, c)'
        BY <1>c, <2>2, <2>3
      <4>3. ThreadOK(k, c) /\ IsReady(k, c)
        BY <1>c, <2>2
      <4>4. rec[threads[k]][c].end = 0 /\ ~main_start[k]
        BY <2>2, <2>3, <4>3 DEF ThreadOK
      <4>5. QED  BY <2>2, <2>3, <3>1, <4>1, <4>2, <4>4 DEF ThreadOK
    <3>4. CASE thr'[<<k, c>>] = thr[<<k, c>>] /\ thr[<<k, c>>].pc = "none"
      BY <1>c, <2>2, <2>3, <3>1, <3>4 DEF ThreadOK
    <3>5. QED  BY <3>2, <3>3, <3>4
  <2>7. QED  BY <2>4, <2>5, <2>6 DEF CalmRead
<1>7. CASE Release(k)
  <2>1. /\ rpc[k] = "start" /\ rpc'[k] = "wait" /\ next'[k] = 0
        /\ threads[k] \in Block
        /\ UNCHANGED <<online, online_cpus, threads, rec, thr>>
    BY <1>0, <1>7 DEF Release, Proceed, TypeOK
  <2>2. next[k] = online_cpus[k]
    BY <1>0, <1>7, <2>1, CalmCpus DEF Release, Proceed
  <2>3. CpusOK(k)'
    BY <1>0, <2>1 DEF CpusOK
  <2>4. ASSUME NEW d \in Cpu  PROVE ThreadOK(k, d)'
    BY <1>0, <1>c, <2>1, <2>2 DEF ThreadOK
  <2>5. QED  BY <2>3, <2>4 DEF CalmRead
<1>8. CASE WaitEnd(k)
  <2>1. /\ rpc[k] = "wait" /\ threads[k] \in Block
        /\ UNCHANGED <<online, online_cpus, threads, main_start, thr>>
    BY <1>0, <1>8 DEF WaitEnd
  <2>2. CASE rpc'[k] = "sum" /\ next'[k] = 0 /\ AtEnd(k) /\ rec' = rec
    <3>1. next[k] = online_cpus[k]
      BY <1>0, <2>1, <2>2, CalmCpus
    <3>2. CpusOK(k)'
      BY <1>0, <2>1, <2>2 DEF CpusOK
    <3>3. ASSUME NEW d \in Cpu  PROVE ThreadOK(k, d)'
      BY <1>0, <1>c, <2>1, <2>2, <3>1 DEF ThreadOK
    <3>4. QED  BY <3>2, <3>3 DEF CalmRead
  <2>3. CASE \E c \in Cpu :
               /\ AtCpu(k, c) /\ Advance(k, c)
               /\ rec[threads[k]][c].end # 0
               /\ rec' = [rec EXCEPT ![threads[k]][c].end =
                            IF @ = None THEN None ELSE @ - 1]
               /\ UNCHANGED rpc
    <3>1. PICK c \in Cpu :
            /\ AtCpu(k, c) /\ Advance(k, c)
            /\ rec[threads[k]][c].end # 0
            /\ rec' = [rec EXCEPT ![threads[k]][c].end =
                         IF @ = None THEN None ELSE @ - 1]
            /\ UNCHANGED rpc
      BY <2>3
    <3>2. c = next[k] /\ c < online_cpus[k] /\ next'[k] = c + 1
      BY <1>0, <2>1, <3>1, CalmCpus DEF Advance, TypeOK
    <3>3. /\ rec[threads[k]][c].end \in Nat
          /\ thr[<<k, c>>].pc \notin Touching
      BY <1>c, <2>1, <3>1, <3>2 DEF ThreadOK
    <3>4. /\ rec'[threads[k]][c].end \in Nat
          /\ \A d \in Cpu : d # c => rec'[threads[k]][d] = rec[threads[k]][d]
      <4>1. rec[threads[k]][c] \in Record
        BY <1>0, <2>1
      <4>2. rec'[threads[k]][c] =
              [rec[threads[k]][c] EXCEPT !.end = IF @ = None THEN None ELSE @ - 1]
        BY <1>0, <2>1, <3>1
      <4>3. rec'[threads[k]][c].end = rec[threads[k]][c].end - 1
        BY <3>3, <4>1, <4>2, NoneAssumption DEF Record
      <4>4. rec'[threads[k]][c].end \in Nat
        BY <3>1, <3>3, <4>3
      <4>5. QED  BY <1>0, <2>1, <3>1, <4>4
    <3>5. CpusOK(k)'
      BY <1>0, <2>1, <3>1, <3>2 DEF CpusOK
    <3>6. ASSUME NEW d \in Cpu  PROVE ThreadOK(k, d)'
      <4>1. /\ ThreadOK(k, d) /\ d \in Nat /\ c \in Nat
            /\ thr'[<<k, d>>] = thr[<<k, d>>]
            /\ rpc'[k] = "wait" /\ main_start' = main_start
            /\ threads' = threads /\ online_cpus' = online_cpus
        BY <1>c, <2>1, <3>1
      <4>2. CASE d = c
        BY <2>1, <3>2, <3>3, <3>4, <4>1, <4>2 DEF ThreadOK
      <4>3. CASE d # c
        <5>1. rec'[threads[k]][d] = rec[threads[k]][d]
          BY <3>4, <4>3
        <5>2. IsStarted(k, d)' <=> IsStarted(k, d)
          BY <2>1, <3>2, <4>1, <4>3
        <5>3. QED  BY <2>1, <3>2, <4>1, <4>3, <5>1, <5>2 DEF ThreadOK
      <4>4. QED  BY <4>2, <4>3
    <3>7. QED  BY <3>5, <3>6 DEF CalmRead
  <2>4. CASE seen' = seen \cup {"signal"}
    BY <2>4 DEF Calm
  <2>5. QED  BY <1>0, <1>8, <2>2, <2>3, <2>4 DEF WaitEnd, Proceed, TypeOK
<1>9. CASE AddTime(k)
  <2>1. /\ rpc[k] = "sum" /\ threads[k] \in Block
        /\ UNCHANGED <<online, online_cpus, threads, main_start, rec, thr>>
    BY <1>0, <1>9 DEF AddTime
  <2>2. CASE rpc'[k] = "free" /\ next'[k] = 0
    <3>1. CpusOK(k)'
      BY <1>0, <2>1, <2>2 DEF CpusOK
    <3>2. ASSUME NEW d \in Cpu  PROVE ThreadOK(k, d)'
      BY <1>c, <2>1, <2>2 DEF ThreadOK
    <3>3. QED  BY <3>1, <3>2 DEF CalmRead
  <2>3. CASE rpc' = rpc /\ \E c \in Cpu : AtCpu(k, c) /\ Advance(k, c)
    <3>1. PICK c \in Cpu : AtCpu(k, c) /\ Advance(k, c)
      BY <2>3
    <3>2. c = next[k] /\ c < online_cpus[k] /\ next'[k] = c + 1
      BY <1>0, <2>1, <3>1, CalmCpus DEF Advance, TypeOK
    <3>3. CpusOK(k)'
      BY <1>0, <2>1, <2>3, <3>2 DEF CpusOK
    <3>4. ASSUME NEW d \in Cpu  PROVE ThreadOK(k, d)'
      BY <1>c, <2>1, <2>3 DEF ThreadOK
    <3>5. QED  BY <3>3, <3>4 DEF CalmRead
  <2>4. QED  BY <1>0, <1>9, <2>2, <2>3 DEF AddTime, Proceed, TypeOK
<1>10. CASE Return(k)
  <2>1. rpc[k] = "free" /\ rpc'[k] = "done" /\ thr' = thr
    BY <1>0, <1>10 DEF Return, TypeOK
  <2>2. QED  BY <1>c, <2>1 DEF CalmRead, CpusOK, ThreadOK
<1>20. QED
  BY <1>1, <1>2, <1>3, <1>4, <1>5, <1>6, <1>7, <1>8, <1>9, <1>10 DEF ReadStep

(* A thread that has work to do is the one its read has started for its    *)
(* CPU, and what it points to is there.                                    *)
LEMMA CalmThread ==
  ASSUME Base, NEW k \in Read, NEW c \in Cpu, ThreadOK(k, c),
         thr[<<k, c>>].pc \in Touching
  PROVE  /\ rpc[k] \in {"start", "wait"}
         /\ rpc[k] = "wait" => c >= next[k]
         /\ rpc[k] = "start" => c < next[k]
         /\ threads[k] \in Block
         /\ thr[<<k, c>>].at = threads[k]
         /\ c < online_cpus[k]
         /\ rec[threads[k]][c].end = 0
         /\ HasRecord(<<k, c>>)
<1>1. /\ IsStarted(k, c) /\ c < online_cpus[k]
      /\ thr[<<k, c>>].at = threads[k] /\ rec[threads[k]][c].end = 0
  BY DEF ThreadOK
<1>2. rpc[k] \in {"start", "wait"}
  BY <1>1 DEF IsStarted
<1>3. threads[k] \in Block
  BY <1>2 DEF Base, ArraysOK, Allocated
<1>4. HasRecord(<<k, c>>)
  BY <1>1, <1>2, NoneAssumption DEF HasRecord, Active
<1>5. QED  BY <1>1, <1>2, <1>3, <1>4 DEF IsStarted

(* A step of a thread does not touch another.                              *)
LEMMA ThreadFrame ==
  ASSUME Base, NEW k \in Read, NEW c \in Cpu, ThreadOK(k, c),
         ThreadStep(<<k, c>>) \/ ThreadLost(<<k, c>>)
  PROVE  /\ event_count' = event_count /\ seen' = seen
         /\ \A j \in Read : SameRead(j)
         /\ \A j \in Read : \A d \in Cpu : <<j, d>> # <<k, c>> => SameCpu(j, d)
<1>0. /\ TypeOK /\ <<k, c>> \in Read \X Cpu
      /\ \A j \in Read : threads[j] \in Block /\ threads[j] = threads[k] => j = k
  BY DEF Base, TypeOK, ArraysOK
<1>1. UnchangedByThreads
  BY DEF ThreadStep, ThreadLost, FetchPrev, PassGate, Generate, StoreTime, Complete,
         ThreadExit
<1>2. /\ event_count' = event_count /\ seen' = seen
      /\ \A j \in Read : SameRead(j)
  BY <1>1 DEF UnchangedByThreads, readVars, SameRead
<1>3. ASSUME NEW j \in Read, NEW d \in Cpu, <<j, d>> # <<k, c>>
      PROVE  /\ thr'[<<j, d>>] = thr[<<j, d>>]
             /\ threads[j] \in Block => rec'[threads[j]][d] = rec[threads[j]][d]
  <2>0. <<j, d>> \in Read \X Cpu
    OBVIOUS
  <2>1. thr'[<<j, d>>] = thr[<<j, d>>]
    BY <1>0, <1>3, <2>0
    DEF ThreadStep, ThreadLost, FetchPrev, PassGate, Generate, Goto, StoreTime,
        Complete, ThreadExit, TypeOK
  <2>2. CASE rec' = rec
    BY <2>1, <2>2
  <2>3. CASE StoreTime(<<k, c>>) \/ Complete(<<k, c>>)
    <3>1. thr[<<k, c>>].pc \in Touching
      BY <2>3 DEF StoreTime, Complete, Touching
    <3>2. thr[<<k, c>>].at = threads[k] /\ threads[k] \in Block
      BY <3>1, CalmThread
    <3>3. threads[j] \in Block /\ threads[j] = threads[k] => d # c
      BY <1>0, <1>3
    <3>4. <<k, c>>[2] = c
      OBVIOUS
    <3>5. threads[j] \in Block => rec'[threads[j]][d] = rec[threads[j]][d]
      BY <1>0, <2>3, <3>2, <3>3, <3>4 DEF StoreTime, Complete, TypeOK
    <3>6. QED  BY <2>1, <3>5
  <2>4. QED
    BY <2>2, <2>3 DEF ThreadStep, ThreadLost, FetchPrev, PassGate, Generate, ThreadExit
<1>4. QED  BY <1>2, <1>3 DEF SameCpu

LEMMA CalmThreadStep ==
  ASSUME Base, NEW k \in Read, NEW c \in Cpu, ThreadOK(k, c),
         ThreadStep(<<k, c>>) \/ ThreadLost(<<k, c>>)
  PROVE  ThreadOK(k, c)'
<1> DEFINE t == <<k, c>>
<1>0. /\ TypeOK /\ t \in Read \X Cpu /\ t[1] = k /\ t[2] = c
      /\ thr \in [Read \X Cpu -> Thread]
  BY DEF Base, TypeOK
<1>1. SameRead(k)
  BY ThreadFrame
<1>2. ~ThreadLost(t)
  <2>1. thr[t].pc \in {"born", "gate", "store", "complete"} => HasRecord(t)
    BY CalmThread DEF Touching
  <2>2. QED  BY <2>1 DEF ThreadLost
<1> USE DEF Allocated, IsReady, IsStarted, Touching
<1>3. CASE FetchPrev(t)
  <2>1. thr[t].pc = "born" /\ rec' = rec
    BY <1>3 DEF FetchPrev
  <2>2. rec[thr[t].at][t[2]].prev = k
    BY <1>0, <2>1, CalmThread DEF ThreadOK
  <2>3. thr'[t] = [thr[t] EXCEPT !.pc = "gate", !.prev = k]
    BY <1>0, <1>3, <2>2 DEF FetchPrev
  <2>4. thr'[t].pc = "gate" /\ thr'[t].prev = k /\ thr'[t].at = thr[t].at
    <3>1. thr[t] \in Thread
      BY <1>0
    <3>2. QED  BY <2>3, <3>1, Zenon DEF Thread
  <2>5. HIDE DEF t
  <2>6. QED  BY <1>1, <2>1, <2>4 DEF ThreadOK, SameRead, t
<1>4. CASE PassGate(t)
  <2>1. thr[t].pc = "gate" /\ rec' = rec /\ main_start[thr[t].prev]
    BY <1>4 DEF PassGate
  <2>2. main_start[k] /\ rpc[k] # "start"
    BY <2>1 DEF ThreadOK
  <2>3. thr'[t].pc = "loop" /\ thr'[t].at = thr[t].at
    <3>1. thr[t] \in Thread
      BY <1>0
    <3>2. thr'[t] = [thr[t] EXCEPT !.pc = "loop", !.prev = None]
      BY <1>0, <1>4 DEF PassGate
    <3>3. QED  BY <3>1, <3>2, Zenon DEF Thread
  <2>4. QED  BY <1>1, <2>1, <2>2, <2>3 DEF ThreadOK, SameRead
<1>5. CASE Generate(t)
  <2>1. thr[t].pc = "loop" /\ rec' = rec
    BY <1>5 DEF Generate
  <2>2. thr'[t].pc \in {"loop", "store"} /\ thr'[t].at = thr[t].at
    <3>1. thr[t] \in Thread
      BY <1>0
    <3>2. \/ thr'[t] = [thr[t] EXCEPT !.i = @ + 1]
          \/ thr'[t] = [thr[t] EXCEPT !.pc = "store"]
      BY <1>0, <1>5 DEF Generate, Goto
    <3>3. QED  BY <2>1, <3>1, <3>2, Zenon DEF Thread
  <2>3. QED  BY <1>1, <2>1, <2>2 DEF ThreadOK, SameRead
<1>6. CASE StoreTime(t)
  <2>1. thr[t].pc = "store"
    BY <1>6 DEF StoreTime
  <2>2. thr[t].at = threads[k] /\ threads[k] \in Block /\ rpc[k] # "start"
    BY <2>1, CalmThread DEF ThreadOK
  <2>3. rec'[threads[k]][c].end = rec[threads[k]][c].end
    <3>1. rec[threads[k]][c] \in Record
      BY <1>0, <2>2 DEF TypeOK
    <3>2. rec'[threads[k]][c] = [rec[threads[k]][c] EXCEPT !.time = thr[t].i]
      BY <1>0, <1>6, <2>2 DEF StoreTime, TypeOK
    <3>3. QED  BY <3>1, <3>2, Zenon DEF Record
  <2>4. thr'[t].pc = "complete" /\ thr'[t].at = thr[t].at
    <3>1. thr[t] \in Thread
      BY <1>0
    <3>2. thr'[t] = [thr[t] EXCEPT !.pc = "complete", !.i = 0]
      BY <1>0, <1>6 DEF StoreTime
    <3>3. QED  BY <3>1, <3>2, Zenon DEF Thread
  <2>5. QED  BY <1>1, <2>1, <2>2, <2>3, <2>4 DEF ThreadOK, SameRead
<1>7. CASE Complete(t)
  <2>1. thr[t].pc = "complete"
    BY <1>7 DEF Complete
  <2>2. /\ thr[t].at = threads[k] /\ threads[k] \in Block /\ rpc[k] = "wait"
        /\ rec[threads[k]][c].end = 0
    BY <2>1, CalmThread DEF ThreadOK
  <2>3. rec'[threads[k]][c].end = 1
    <3>1. rec[threads[k]][c] \in Record
      BY <1>0, <2>2 DEF TypeOK
    <3>2. rec'[threads[k]][c] = [rec[threads[k]][c] EXCEPT !.end = 1]
      BY <1>0, <1>7, <2>2, NoneAssumption DEF Complete, TypeOK
    <3>3. QED  BY <3>1, <3>2, Zenon DEF Record
  <2>4. thr'[t].pc = "exit"
    <3>1. thr[t] \in Thread
      BY <1>0
    <3>2. thr'[t] = [thr[t] EXCEPT !.pc = "exit", !.at = None]
      BY <1>0, <1>7 DEF Complete
    <3>3. QED  BY <3>1, <3>2, Zenon DEF Thread
  <2>5. QED  BY <1>1, <2>2, <2>3, <2>4 DEF ThreadOK, SameRead
<1>8. CASE ThreadExit(t)
  <2>1. thr[t].pc = "exit" /\ rec' = rec
    BY <1>8 DEF ThreadExit
  <2>2. thr'[t].pc = "none"
    <3>1. thr[t] \in Thread
      BY <1>0
    <3>2. thr'[t] = [thr[t] EXCEPT !.pc = "none"]
      BY <1>0, <1>8 DEF ThreadExit, Goto
    <3>3. QED  BY <3>1, <3>2, Zenon DEF Thread
  <2>3. QED  BY <1>1, <2>1, <2>2 DEF ThreadOK, SameRead
<1>9. QED  BY <1>2, <1>3, <1>4, <1>5, <1>6, <1>7, <1>8 DEF ThreadStep

(* A step of a read keeps what holds of every read, and so does one of a   *)
(* thread.                                                                 *)
LEMMA CalmReads ==
  ASSUME Base, Base', Calm, Calm', \A j \in Read : CalmRead(j), NEW k \in Read,
         ReadStep(k) \/ AllocFails(k) \/ ReaderLost(k)
  PROVE  \A j \in Read : CalmRead(j)'
<1>1. ASSUME NEW j \in Read, j # k  PROVE CalmRead(j)'
  <2>1. \A c \in Cpu : SameCpu(j, c)
    BY <1>1, ReadFrame
  <2>2. event_count' = event_count
    BY ReadFrame
  <2>3. SameRead(j)
    <3>1. 0 \in Cpu
      BY DEF Cpu
    <3>2. QED  BY <2>1, <3>1 DEF SameCpu
  <2>4. CpusOK(j)'
    BY <2>2, <2>3, SameReadOK DEF CalmRead
  <2>5. ASSUME NEW c \in Cpu  PROVE ThreadOK(j, c)'
    BY <2>1, <2>2, SameCpuOK DEF CalmRead
  <2>6. QED  BY <2>4, <2>5 DEF CalmRead
<1>2. CalmRead(k)'
  BY CalmReadStep
<1>3. QED  BY <1>1, <1>2

LEMMA CalmThreads ==
  ASSUME Base, \A j \in Read : CalmRead(j), NEW k \in Read, NEW c \in Cpu,
         ThreadStep(<<k, c>>) \/ ThreadLost(<<k, c>>)
  PROVE  \A j \in Read : CalmRead(j)'
<1>0. \A j \in Read : CpusOK(j) /\ \A d \in Cpu : ThreadOK(j, d)
  BY DEF CalmRead
<1>1. /\ event_count' = event_count
      /\ \A j \in Read : SameRead(j)
      /\ \A j \in Read : \A d \in Cpu : <<j, d>> # <<k, c>> => SameCpu(j, d)
  BY <1>0, ThreadFrame
<1>2. ASSUME NEW j \in Read  PROVE CalmRead(j)'
  <2>1. CpusOK(j)'
    BY <1>0, <1>1, SameReadOK
  <2>2. ASSUME NEW d \in Cpu  PROVE ThreadOK(j, d)'
    <3>1. CASE <<j, d>> = <<k, c>>
      <4>1. j = k /\ d = c
        BY <3>1
      <4>2. ThreadOK(k, c)'
        BY <1>0, CalmThreadStep
      <4>3. QED  BY <4>1, <4>2
    <3>2. CASE <<j, d>> # <<k, c>>
      BY <1>0, <1>1, <3>2, SameCpuOK
    <3>3. QED  BY <3>1, <3>2
  <2>3. QED  BY <2>1, <2>2 DEF CalmRead
<1>3. QED  BY <1>2

(* Where no read is going on, no thread has work to do.                    *)
LEMMA IdleThreads ==
  ASSUME \A k \in Read : CalmRead(k), ~Reading
  PROVE  /\ \A t \in Read \X Cpu : thr[t].pc \notin Touching
         /\ \A k \in Read : rpc[k] \notin Allocated
<1>1. \A k \in Read : rpc[k] \notin Active
  BY DEF Reading
<1>2. ASSUME NEW t \in Read \X Cpu  PROVE thr[t].pc \notin Touching
  <2>1. PICK k \in Read, c \in Cpu : t = <<k, c>>
    OBVIOUS
  <2>2. ThreadOK(k, c)
    BY DEF CalmRead
  <2>3. QED  BY <1>1, <2>1, <2>2 DEF ThreadOK, IsStarted, Active
<1>3. QED  BY <1>1, <1>2 DEF Active, Allocated

LEMMA CalmEnv ==
  ASSUME Base, \A k \in Read : CalmRead(k), Calm',
         \/ Load \/ Unload
         \/ \E v \in 0 .. MaxCount : StoreCount(v)
         \/ \E c \in Cpu : Hotplug(c)
         \/ \E k \in Read : Signal(k) \/ Begin(k)
  PROVE  \A k \in Read : CalmRead(k)'
<1>0. \A k \in Read : CpusOK(k) /\ \A c \in Cpu : ThreadOK(k, c)
  BY DEF CalmRead
<1>1. CASE Load \/ (\E v \in 0 .. MaxCount : StoreCount(v)) \/ (\E k \in Read : Signal(k))
  <2>1. UNCHANGED <<online, rpc, next, online_cpus, threads, main_start, rec, thr>>
    BY <1>1 DEF Load, StoreCount, Signal, readVars
  <2>2. ASSUME NEW k \in Read  PROVE CpusOK(k)'
    BY <1>0, <2>1 DEF CpusOK
  <2>3. ASSUME NEW k \in Read, NEW c \in Cpu  PROVE ThreadOK(k, c)'
    BY <1>0, <2>1 DEF ThreadOK, IsReady, IsStarted
  <2>4. QED  BY <2>2, <2>3 DEF CalmRead
<1>2. CASE Unload
  <2>1. UNCHANGED <<online, rpc, next, online_cpus, threads, main_start, rec>>
    BY <1>2 DEF Unload, readVars
  <2>2. \A k \in Read : rpc[k] \in {"new", "done"}
    BY <1>2 DEF Unload, Drained
  <2>3. \A t \in Read \X Cpu : thr'[t].pc \in {"none", "lost"}
                               /\ (thr[t].pc = "none" => thr'[t].pc = "none")
    BY <1>2 DEF Unload, NoThread, LostThread
  <2>4. ASSUME NEW k \in Read  PROVE CpusOK(k)'
    BY <2>1, <2>2 DEF CpusOK, Allocated
  <2>5. ASSUME NEW k \in Read, NEW c \in Cpu  PROVE ThreadOK(k, c)'
    <3>1. <<k, c>> \in Read \X Cpu /\ ThreadOK(k, c)
      BY <1>0
    <3>2. QED
      BY <2>1, <2>2, <2>3, <3>1 DEF ThreadOK, IsReady, IsStarted, Allocated, Touching
  <2>6. QED  BY <2>4, <2>5 DEF CalmRead
<1>3. CASE \E c \in Cpu : Hotplug(c)
  <2>1. UNCHANGED <<rpc, next, online_cpus, threads, main_start, rec, thr>>
    BY <1>3 DEF Hotplug, readVars
  <2>2. ~Reading
    BY <1>3 DEF Hotplug, Calm
  <2>3. \A k \in Read : rpc'[k] \notin Allocated
    BY <2>1, <2>2 DEF Reading, Active, Allocated
  <2>4. ASSUME NEW k \in Read  PROVE CpusOK(k)'
    BY <2>3 DEF CpusOK
  <2>5. ASSUME NEW k \in Read, NEW c \in Cpu  PROVE ThreadOK(k, c)'
    BY <1>0, <2>1 DEF ThreadOK, IsReady, IsStarted
  <2>6. QED  BY <2>4, <2>5 DEF CalmRead
<1>4. CASE \E k \in Read : Begin(k)
  <2>1. PICK b \in Read : Begin(b)
    BY <1>4
  <2>2. /\ rpc[b] = "new" /\ rpc' = [rpc EXCEPT ![b] = "count"]
        /\ UNCHANGED <<online, next, online_cpus, threads, main_start, rec, thr>>
    BY <2>1 DEF Begin
  <2>3. rpc \in [Read -> {"new", "done", "lost"} \cup Active]
    BY DEF Base, TypeOK
  <2>4. ASSUME NEW k \in Read  PROVE CalmRead(k)'
    <3>1. CASE k = b
      <4>1. rpc'[k] = "count" /\ rpc[k] = "new"
        BY <2>2, <2>3, <3>1
      <4>2. CpusOK(k)'
        BY <4>1 DEF CpusOK, Allocated
      <4>3. ASSUME NEW c \in Cpu  PROVE ThreadOK(k, c)'
        BY <1>0, <2>2, <4>1 DEF ThreadOK, Allocated, IsReady, IsStarted, Touching
      <4>4. QED  BY <4>2, <4>3 DEF CalmRead
    <3>2. CASE k # b
      <4>1. rpc'[k] = rpc[k]
        BY <2>2, <2>3, <3>2
      <4>2. CpusOK(k)'
        BY <1>0, <2>2, <4>1 DEF CpusOK
      <4>3. ASSUME NEW c \in Cpu  PROVE ThreadOK(k, c)'
        BY <1>0, <2>2, <4>1 DEF ThreadOK, IsReady, IsStarted
      <4>4. QED  BY <4>2, <4>3 DEF CalmRead
    <3>3. QED  BY <3>1, <3>2
  <2>5. QED  BY <2>4
<1>5. QED  BY <1>1, <1>2, <1>3, <1>4

-----------------------------------------------------------------------------
(***************************************************************************)
(* Without a disturbance, nor a store to "count" during a read, the times  *)
(* that the threads leave are those of event_count events.                 *)
(***************************************************************************)
QuietRead(k) == SumOK(k) /\ \A c \in Cpu : MeasureOK(k, c)

(* Up to the release of the threads there is nothing to have measured.     *)
LEMMA NothingMeasured ==
  ASSUME NEW k \in Read, NEW c \in Cpu, ThreadOK(k, c),
         rpc[k] \in {"new", "count", "init", "start"},
         thr[<<k, c>>].pc \in {"born", "gate"} => thr[<<k, c>>].i = 0
  PROVE  MeasureOK(k, c)
BY DEF MeasureOK, ThreadOK, Allocated, IsReady

LEMMA QuietReadStep ==
  ASSUME Base, Base', seen = {}, seen' = {}, NEW k \in Read,
         CalmRead(k), CalmRead(k)', QuietRead(k),
         ReadStep(k) \/ AllocFails(k) \/ ReaderLost(k)
  PROVE  QuietRead(k)'
<1>0. /\ TypeOK /\ TypeOK' /\ CpusOK(k) /\ SumOK(k)
      /\ next[k] \in Nat /\ online_cpus[k] \in Nat /\ event_count \in Nat
      /\ rec \in [Block -> [Cpu -> Record]]
      /\ rpc[k] \in Allocated => threads[k] \in Block
      /\ event_count' = event_count
  BY ReadFrame DEF Base, TypeOK, CalmRead, QuietRead, ArraysOK
<1>c. \A c \in Cpu : /\ ThreadOK(k, c) /\ ThreadOK(k, c)' /\ MeasureOK(k, c)
                     /\ c \in Nat
  BY DEF CalmRead, QuietRead, Cpu
<1> USE DEF Allocated, IsReady, IsStarted, Touching
<1>1. CASE CountCpu(k) \/ Alloc(k) \/ InitRecord(k)
  <2>1. rpc'[k] \in {"count", "init", "start"} /\ time'[k] = time[k] /\ time[k] = 0
    BY <1>0, <1>1 DEF CountCpu, Alloc, InitRecord, Proceed, SumOK, TypeOK
  <2>2. thr' = thr /\ rpc[k] \in {"count", "init"}
    BY <1>1 DEF CountCpu, Alloc, InitRecord
  <2>3. ASSUME NEW d \in Cpu  PROVE MeasureOK(k, d)'
    <3>1. thr'[<<k, d>>].pc = "none"
      BY <1>c, <2>2 DEF ThreadOK
    <3>2. ThreadOK(k, d)'
      BY <1>c
    <3>3. QED  BY <2>1, <3>1, <3>2 DEF MeasureOK, ThreadOK
  <2>4. QED  BY <2>1, <2>3 DEF QuietRead, SumOK
<1>2. CASE AllocFails(k)
  <2>1. rpc[k] = "count" /\ rpc'[k] = "lost" /\ thr' = thr
    BY <1>0, <1>2 DEF AllocFails, Proceed, TypeOK
  <2>2. QED  BY <1>c, <2>1 DEF QuietRead, SumOK, MeasureOK, ThreadOK
<1>3. CASE ReaderLost(k)
  <2>1. rpc[k] \in {"init", "start", "wait", "sum"} /\ rpc'[k] = "lost" /\ thr' = thr
    BY <1>0, <1>3 DEF ReaderLost, TypeOK
  <2>2. ASSUME NEW d \in Cpu  PROVE MeasureOK(k, d)'
    BY <1>0, <1>c, <2>1 DEF MeasureOK
  <2>3. QED  BY <2>1, <2>2 DEF QuietRead, SumOK
<1>4. CASE StartThread(k)
  <2>1. rpc[k] = "start" /\ rpc' = rpc /\ time' = time
    BY <1>4 DEF StartThread
  <2>2. ASSUME NEW d \in Cpu  PROVE MeasureOK(k, d)'
    <3>1. \/ thr'[<<k, d>>] = thr[<<k, d>>]
          \/ thr'[<<k, d>>] = NewThread(threads[k])
      <4>1. PICK c \in Cpu : thr' = [thr EXCEPT ![<<k, c>>] = NewThread(threads[k])]
                             \/ UNCHANGED thr
        BY <1>4, Zenon DEF StartThread
      <4>2. <<k, d>> \in DOMAIN thr
        BY <1>0 DEF TypeOK
      <4>. QED BY <4>1, <4>2
    <3>2. thr'[<<k, d>>].pc \in {"born", "gate"} => thr'[<<k, d>>].i = 0
      BY <1>c, <3>1 DEF MeasureOK, NewThread
    <3>3. ThreadOK(k, d)'
      BY <1>c
    <3>4. QED  BY <2>1, <3>2, <3>3 DEF MeasureOK, ThreadOK
  <2>3. QED  BY <1>0, <2>1, <2>2 DEF QuietRead, SumOK
<1>5. CASE Release(k)
  <2>1. /\ rpc[k] = "start" /\ rpc'[k] = "wait" /\ next'[k] = 0 /\ time' = time
        /\ UNCHANGED <<online_cpus, threads, rec, thr>>
    BY <1>0, <1>5 DEF Release, Proceed, TypeOK
  <2>2. ASSUME NEW d \in Cpu  PROVE MeasureOK(k, d)'
    <3>1. MeasureOK(k, d) /\ ~(d < next'[k])
      BY <1>c, <2>1
    <3>2. event_count' = event_count
      BY <1>0
    <3>3. d < online_cpus[k] /\ rec[threads[k]][d].end # 0
            => rec[threads[k]][d].time = event_count
      BY ONLY <2>1, <3>1 DEF MeasureOK
    <3>4. d < online_cpus[k] /\ thr[<<k, d>>].pc = "complete"
            => rec[threads[k]][d].time = event_count
      BY ONLY <2>1, <3>1 DEF MeasureOK
    <3>5. QED  BY ONLY <2>1, <3>1, <3>2, <3>3, <3>4 DEF MeasureOK
  <2>3. QED  BY <1>0, <2>1, <2>2 DEF QuietRead, SumOK
<1>6. CASE WaitEnd(k)
  <2>1. /\ rpc[k] = "wait" /\ threads[k] \in Block
        /\ UNCHANGED <<online, online_cpus, threads, thr, time>>
    BY <1>0, <1>6 DEF WaitEnd
  <2>2. CASE rpc'[k] = "sum" /\ next'[k] = 0 /\ AtEnd(k) /\ rec' = rec
    <3>1. next[k] = online_cpus[k]
      BY <1>0, <2>1, <2>2, CalmCpus
    <3>2. ASSUME NEW d \in Cpu  PROVE MeasureOK(k, d)'
      BY <1>0, <1>c, <2>1, <2>2, <3>1 DEF MeasureOK
    <3>3. SumOK(k)'
      BY <1>0, <2>1, <2>2 DEF SumOK
    <3>4. QED  BY <3>2, <3>3 DEF QuietRead
  <2>3. CASE \E c \in Cpu :
               /\ AtCpu(k, c) /\ Advance(k, c)
               /\ rec[threads[k]][c].end # 0
               /\ rec' = [rec EXCEPT ![threads[k]][c].end =
                            IF @ = None THEN None ELSE @ - 1]
               /\ UNCHANGED rpc
    <3>1. PICK c \in Cpu :
            /\ AtCpu(k, c) /\ Advance(k, c)
            /\ rec[threads[k]][c].end # 0
            /\ rec' = [rec EXCEPT ![threads[k]][c].end =
                         IF @ = None THEN None ELSE @ - 1]
            /\ UNCHANGED rpc
      BY <2>3
    <3>2. c = next[k] /\ c < online_cpus[k] /\ next'[k] = c + 1
      BY <1>0, <2>1, <3>1, CalmCpus DEF Advance, TypeOK
    <3>3. rec[threads[k]][c].time = event_count
      BY <1>c, <2>1, <3>1, <3>2 DEF MeasureOK
    <3>4. /\ rec'[threads[k]][c].time = rec[threads[k]][c].time
          /\ \A d \in Cpu : d # c => rec'[threads[k]][d] = rec[threads[k]][d]
      <4>1. rec[threads[k]][c] \in Record
        BY <1>0, <2>1
      <4> DEFINE n == IF rec[threads[k]][c].end = None THEN None
                      ELSE rec[threads[k]][c].end - 1
      <4>2. rec'[threads[k]][c] = [rec[threads[k]][c] EXCEPT !.end = n]
        BY <1>0, <2>1, <3>1
      <4>3. rec'[threads[k]][c].time = rec[threads[k]][c].time
        <5> HIDE DEF n
        <5> QED  BY <4>1, <4>2, Zenon DEF Record
      <4>4. QED  BY <1>0, <2>1, <3>1, <4>3
    <3>5. ASSUME NEW d \in Cpu  PROVE MeasureOK(k, d)'
      <4>1. /\ MeasureOK(k, d) /\ d \in Nat /\ c \in Nat
            /\ thr'[<<k, d>>] = thr[<<k, d>>]
            /\ rpc'[k] = "wait" /\ event_count' = event_count
            /\ threads' = threads /\ online_cpus' = online_cpus
        BY <1>0, <1>c, <2>1, <3>1
      <4>2. CASE d = c
        BY <2>1, <3>2, <3>3, <3>4, <4>1, <4>2 DEF MeasureOK
      <4>3. CASE d # c
        <5>1. rec'[threads[k]][d] = rec[threads[k]][d]
          BY <3>4, <4>3
        <5>2. d < next'[k] <=> d < next[k]
          BY <3>2, <4>1, <4>3
        <5>3. QED  BY <2>1, <4>1, <5>1, <5>2 DEF MeasureOK
      <4>4. QED  BY <4>2, <4>3
    <3>6. SumOK(k)'
      BY <1>0, <2>1, <3>1 DEF SumOK
    <3>7. QED  BY <3>5, <3>6 DEF QuietRead
  <2>4. CASE seen' = seen \cup {"signal"}
    BY <2>4
  <2>5. QED  BY <1>0, <1>6, <2>2, <2>3, <2>4 DEF WaitEnd, Proceed, TypeOK
<1>7. CASE AddTime(k)
  <2>1. /\ rpc[k] = "sum" /\ threads[k] \in Block
        /\ UNCHANGED <<online, online_cpus, threads, rec, thr>>
    BY <1>0, <1>7 DEF AddTime
  <2>2. time[k] = next[k] * event_count
    BY <1>0, <2>1 DEF SumOK
  <2>3. rpc'[k] \in {"sum", "free"}
    BY <1>0, <1>7, <2>1 DEF AddTime, Proceed, TypeOK
  <2>4. ASSUME NEW d \in Cpu  PROVE MeasureOK(k, d)'
    BY <1>0, <1>c, <2>1, <2>3 DEF MeasureOK
  <2>5. CASE rpc'[k] = "free" /\ AtEnd(k) /\ time' = time
    <3>1. next[k] = online_cpus[k]
      BY <1>0, <2>1, <2>5, CalmCpus
    <3>2. SumOK(k)'
      BY <1>0, <2>1, <2>2, <2>5, <3>1 DEF SumOK
    <3>3. QED  BY <2>4, <3>2 DEF QuietRead
  <2>6. CASE \E c \in Cpu : /\ AtCpu(k, c) /\ Advance(k, c) /\ rpc' = rpc
                            /\ time' = [time EXCEPT ![k] = @ + rec[threads[k]][c].time]
    <3>1. PICK c \in Cpu : /\ AtCpu(k, c) /\ Advance(k, c) /\ rpc' = rpc
                           /\ time' = [time EXCEPT ![k] = @ + rec[threads[k]][c].time]
      BY <2>6
    <3>2. c = next[k] /\ c < online_cpus[k] /\ next'[k] = next[k] + 1
      BY <1>0, <2>1, <3>1, CalmCpus DEF Advance, TypeOK
    <3>3. rec[threads[k]][c].time = event_count
      BY <1>c, <2>1, <3>2 DEF MeasureOK
    <3>4. time'[k] = next[k] * event_count + event_count
      BY <1>0, <2>2, <3>1, <3>3 DEF TypeOK
    <3>5. (next[k] + 1) * event_count = next[k] * event_count + event_count
      BY <1>0
    <3>6. time'[k] = next'[k] * event_count'
      BY <1>0, <3>2, <3>4, <3>5
    <3>7. SumOK(k)'
      BY <2>1, <3>1, <3>6 DEF SumOK
    <3>8. QED  BY <2>4, <3>7 DEF QuietRead
  <2>7. QED  BY <1>0, <1>7, <2>5, <2>6 DEF AddTime, Proceed, TypeOK
<1>8. CASE Return(k)
  <2>1. rpc[k] = "free" /\ rpc'[k] = "done" /\ thr' = thr
    BY <1>0, <1>8 DEF Return, TypeOK
  <2>2. QED  BY <1>c, <2>1 DEF QuietRead, SumOK, MeasureOK, ThreadOK
<1>9. QED
  BY <1>1, <1>2, <1>3, <1>4, <1>5, <1>6, <1>7, <1>8 DEF ReadStep

LEMMA QuietThreadStep ==
  ASSUME Base, NEW k \in Read, NEW c \in Cpu, ThreadOK(k, c), MeasureOK(k, c),
         ThreadStep(<<k, c>>) \/ ThreadLost(<<k, c>>)
  PROVE  MeasureOK(k, c)'
<1> DEFINE t == <<k, c>>
<1>0. /\ TypeOK /\ t \in Read \X Cpu /\ t[1] = k /\ t[2] = c
      /\ thr \in [Read \X Cpu -> Thread] /\ thr[t] \in Thread
      /\ event_count \in Nat /\ thr[t].i \in Nat
  BY DEF Base, TypeOK, Thread
<1>1. SameRead(k) /\ event_count' = event_count
  BY ThreadFrame
<1> USE DEF Allocated, IsReady, IsStarted, Touching
<1>2. CASE ThreadLost(t)
  <2>1. thr'[t].pc = "lost" /\ rec' = rec
    BY <1>0, <1>2 DEF ThreadLost, LostThread
  <2>2. QED  BY <1>1, <2>1 DEF MeasureOK, SameRead
<1>3. CASE FetchPrev(t) \/ PassGate(t) \/ ThreadExit(t)
  <2>1. /\ rec' = rec
        /\ \/ thr[t].pc = "born" /\ thr'[t].pc = "gate"
           \/ thr[t].pc = "gate" /\ thr'[t].pc = "loop"
           \/ thr[t].pc = "exit" /\ thr'[t].pc = "none"
        /\ thr'[t].i = thr[t].i
    BY <1>0, <1>3, SMT DEF FetchPrev, PassGate, ThreadExit, Goto, Thread
  <2>2. QED  BY <1>0, <1>1, <2>1 DEF MeasureOK, SameRead
<1>4. CASE Generate(t)
  <2>1. /\ rec' = rec /\ thr[t].pc = "loop"
        /\ \/ thr'[t].pc = "loop" /\ thr'[t].i = thr[t].i + 1 /\ thr[t].i < event_count
           \/ thr'[t].pc = "store" /\ thr'[t].i = thr[t].i /\ ~(thr[t].i < event_count)
    BY <1>0, <1>4, SMT DEF Generate, More, Goto, Thread
  <2>2. QED  BY <1>0, <1>1, <2>1 DEF MeasureOK, SameRead
<1>5. CASE StoreTime(t)
  <2>1. thr[t].pc = "store" /\ thr[t].i = event_count /\ thr'[t].pc = "complete"
    BY <1>0, <1>5, SMT DEF StoreTime, MeasureOK, Thread
  <2>2. thr[t].at = threads[k] /\ threads[k] \in Block
    BY <2>1, CalmThread
  <2>3. rec'[threads[k]][c].time = event_count
    <3>1. rec[threads[k]][c] \in Record
      BY <1>0, <2>2 DEF TypeOK
    <3>2. rec'[threads[k]][c] = [rec[threads[k]][c] EXCEPT !.time = event_count]
      BY <1>0, <1>5, <2>1, <2>2 DEF StoreTime, TypeOK
    <3>3. QED  BY <3>1, <3>2, Zenon DEF Record
  <2>4. QED  BY <1>0, <1>1, <2>1, <2>3 DEF MeasureOK, SameRead
<1>6. CASE Complete(t)
  <2>1. thr[t].pc = "complete" /\ thr'[t].pc = "exit"
    BY <1>0, <1>6, SMT DEF Complete, Thread
  <2>2. /\ thr[t].at = threads[k] /\ threads[k] \in Block
        /\ rpc[k] \in Allocated /\ c < online_cpus[k]
    BY <2>1, CalmThread
  <2>3. rec[threads[k]][c].time = event_count
    BY <2>1, <2>2 DEF MeasureOK
  <2>4. rec'[threads[k]][c].time = event_count
    <3>1. rec[threads[k]][c] \in Record
      BY <1>0, <2>2 DEF TypeOK
    <3> DEFINE n == IF rec[threads[k]][c].end = None THEN None
                    ELSE rec[threads[k]][c].end + 1
    <3>2. rec'[threads[k]][c] = [rec[threads[k]][c] EXCEPT !.end = n]
      BY <1>0, <1>6, <2>2 DEF Complete, TypeOK
    <3> HIDE DEF n
    <3>3. QED  BY <2>3, <3>1, <3>2, Zenon DEF Record
  <2>5. QED  BY <1>0, <1>1, <2>1, <2>4 DEF MeasureOK, SameRead
<1>7. QED  BY <1>2, <1>3, <1>4, <1>5, <1>6 DEF ThreadStep

LEMMA QuietReads ==
  ASSUME Base, Base', seen = {}, seen' = {},
         \A j \in Read : CalmRead(j) /\ QuietRead(j), \A j \in Read : CalmRead(j)',
         NEW k \in Read, ReadStep(k) \/ AllocFails(k) \/ ReaderLost(k)
  PROVE  \A j \in Read : QuietRead(j)'
<1>1. ASSUME NEW j \in Read, j # k  PROVE QuietRead(j)'
  <2>1. /\ \A c \in Cpu : SameCpu(j, c)
        /\ event_count' = event_count
    BY <1>1, ReadFrame
  <2>2. SameRead(j)
    <3>1. 0 \in Cpu
      BY DEF Cpu
    <3>2. QED  BY <2>1, <3>1 DEF SameCpu
  <2>3. SumOK(j)'
    BY <2>1, <2>2, SameReadOK DEF QuietRead
  <2>4. ASSUME NEW c \in Cpu  PROVE MeasureOK(j, c)'
    BY <2>1, SameCpuOK DEF CalmRead, QuietRead
  <2>5. QED  BY <2>3, <2>4 DEF QuietRead
<1>2. QuietRead(k)'
  BY QuietReadStep
<1>3. QED  BY <1>1, <1>2

LEMMA QuietThreads ==
  ASSUME Base, \A j \in Read : CalmRead(j) /\ QuietRead(j),
         NEW k \in Read, NEW c \in Cpu,
         ThreadStep(<<k, c>>) \/ ThreadLost(<<k, c>>)
  PROVE  \A j \in Read : QuietRead(j)'
<1>0. \A j \in Read : SumOK(j) /\ \A d \in Cpu : ThreadOK(j, d) /\ MeasureOK(j, d)
  BY DEF CalmRead, QuietRead
<1>1. /\ event_count' = event_count
      /\ \A j \in Read : SameRead(j)
      /\ \A j \in Read : \A d \in Cpu : <<j, d>> # <<k, c>> => SameCpu(j, d)
  BY <1>0, ThreadFrame
<1>2. ASSUME NEW j \in Read  PROVE QuietRead(j)'
  <2>1. SumOK(j)'
    BY <1>0, <1>1, SameReadOK
  <2>2. ASSUME NEW d \in Cpu  PROVE MeasureOK(j, d)'
    <3>1. CASE <<j, d>> = <<k, c>>
      <4>1. j = k /\ d = c
        BY <3>1
      <4>2. MeasureOK(k, c)'
        BY <1>0, QuietThreadStep
      <4>3. QED  BY <4>1, <4>2
    <3>2. CASE <<j, d>> # <<k, c>>
      BY <1>0, <1>1, <3>2, SameCpuOK
    <3>3. QED  BY <3>1, <3>2
  <2>3. QED  BY <2>1, <2>2 DEF QuietRead
<1>3. QED  BY <1>2

(* Where no read is going on, event_count may change.                      *)
LEMMA QuietIdle ==
  ASSUME \A k \in Read : CalmRead(k) /\ QuietRead(k), ~Reading,
         UNCHANGED <<rpc, time, thr>>
  PROVE  \A k \in Read : QuietRead(k)'
<1>1. /\ \A t \in Read \X Cpu : thr[t].pc \notin Touching
      /\ \A k \in Read : rpc[k] \notin Allocated
  BY IdleThreads
<1>2. ASSUME NEW k \in Read  PROVE SumOK(k)'
  BY <1>1 DEF QuietRead, SumOK, Allocated
<1>3. ASSUME NEW k \in Read, NEW c \in Cpu  PROVE MeasureOK(k, c)'
  <2>1. <<k, c>> \in Read \X Cpu
    OBVIOUS
  <2>2. QED  BY <1>1, <2>1 DEF MeasureOK, Touching
<1>4. QED  BY <1>2, <1>3 DEF QuietRead

(* The time of a read is not disturbed by a step that leaves the state of  *)
(* the reads, their records and their threads alone.                       *)
LEMMA QuietSame ==
  ASSUME \A k \in Read : QuietRead(k),
         UNCHANGED <<event_count, rpc, next, online_cpus, threads, time, rec, thr>>
  PROVE  \A k \in Read : QuietRead(k)'
<1>1. ASSUME NEW k \in Read  PROVE SumOK(k)'
  BY DEF QuietRead, SumOK
<1>2. ASSUME NEW k \in Read, NEW c \in Cpu  PROVE MeasureOK(k, c)'
  <2>1. MeasureOK(k, c)
    BY DEF QuietRead
  <2>2. IsReady(k, c)' <=> IsReady(k, c)
    BY DEF IsReady
  <2>3. QED  BY <2>1, <2>2 DEF MeasureOK
<1>3. QED  BY <1>1, <1>2 DEF QuietRead

LEMMA QuietEnv ==
  ASSUME Base, \A k \in Read : CalmRead(k) /\ QuietRead(k), seen' = {},
         \/ Load \/ Unload
         \/ \E v \in 0 .. MaxCount : StoreCount(v)
         \/ \E c \in Cpu : Hotplug(c)
         \/ \E k \in Read : Signal(k) \/ Begin(k)
  PROVE  \A k \in Read : QuietRead(k)'
<1>0. \A k \in Read : SumOK(k) /\ \A c \in Cpu : MeasureOK(k, c)
  BY DEF QuietRead
<1>1. CASE Load
  <2>1. ~Reading
    BY <1>1 DEF Load, Base, ShapeOK, Reading
  <2>2. QED  BY <1>1, <2>1, QuietIdle DEF Load, readVars
<1>2. CASE Unload
  <2>1. UNCHANGED <<rpc, time, event_count>>
    BY <1>2 DEF Unload, readVars
  <2>2. \A k \in Read : rpc[k] \in {"new", "done"}
    BY <1>2 DEF Unload, Drained
  <2>3. \A t \in Read \X Cpu : thr'[t].pc \in {"none", "lost"}
    BY <1>2 DEF Unload, NoThread, LostThread
  <2>4. ASSUME NEW k \in Read  PROVE SumOK(k)'
    BY <1>0, <2>1, <2>2 DEF SumOK
  <2>5. ASSUME NEW k \in Read, NEW c \in Cpu  PROVE MeasureOK(k, c)'
    <3>1. thr'[<<k, c>>].pc \in {"none", "lost"}
      BY <2>3
    <3>2. QED  BY <2>1, <2>2, <3>1 DEF MeasureOK, Allocated
  <2>6. QED  BY <2>4, <2>5 DEF QuietRead
<1>3. CASE \E v \in 0 .. MaxCount : StoreCount(v)
  <2>1. PICK v \in 0 .. MaxCount : StoreCount(v)
    BY <1>3
  <2>2. CASE ~Reading
    BY <2>1, <2>2, QuietIdle DEF StoreCount, readVars
  <2>3. CASE Reading
    <3>1. v = event_count
      BY <2>1, <2>3 DEF StoreCount
    <3>2. UNCHANGED <<event_count, rpc, next, online_cpus, threads, time, rec, thr>>
      BY <2>1, <3>1 DEF StoreCount, readVars
    <3>3. QED  BY <3>2, QuietSame
  <2>4. QED  BY <2>2, <2>3
<1>4. CASE (\E c \in Cpu : Hotplug(c)) \/ (\E k \in Read : Signal(k))
  <2>1. UNCHANGED <<event_count, rpc, next, online_cpus, threads, time, rec, thr>>
    BY <1>4 DEF Hotplug, Signal, readVars
  <2>2. QED  BY <2>1, QuietSame
<1>5. CASE \E k \in Read : Begin(k)
  <2>1. PICK b \in Read : Begin(b)
    BY <1>5
  <2>2. /\ rpc[b] = "new" /\ rpc' = [rpc EXCEPT ![b] = "count"]
        /\ UNCHANGED <<event_count, next, online_cpus, threads, time, rec, thr>>
    BY <2>1 DEF Begin
  <2>3. rpc \in [Read -> {"new", "done", "lost"} \cup Active]
    BY DEF Base, TypeOK
  <2>4. ASSUME NEW k \in Read  PROVE QuietRead(k)'
    <3>1. \/ rpc'[k] = "count" /\ rpc[k] = "new"
          \/ rpc'[k] = rpc[k]
      BY <2>2, <2>3
    <3>2. SumOK(k)'
      BY <1>0, <2>2, <3>1 DEF SumOK
    <3>3. ASSUME NEW c \in Cpu  PROVE MeasureOK(k, c)'
      BY <1>0, <2>2, <3>1 DEF MeasureOK, Allocated, IsReady
    <3>4. QED  BY <3>2, <3>3 DEF QuietRead
  <2>5. QED  BY <2>4
<1>6. QED  BY <1>1, <1>2, <1>3, <1>4, <1>5

-----------------------------------------------------------------------------
(***************************************************************************)
(* The theorems.                                                           *)
(***************************************************************************)
LEMMA InitKernelInv ==
  ASSUME Init  PROVE KernelInv
<1>1. Base
  BY InitBase
<1>2. ASSUME NEW k \in Read  PROVE CpusOK(k) /\ SumOK(k)
  BY DEF Init, CpusOK, SumOK, Allocated
<1>3. ASSUME NEW k \in Read, NEW c \in Cpu  PROVE ThreadOK(k, c) /\ MeasureOK(k, c)
  <2>1. rpc[k] = "new" /\ thr[<<k, c>>].pc = "none" /\ main_start[k] = FALSE
    BY DEF Init, NoThread
  <2>2. QED
    BY <2>1 DEF ThreadOK, MeasureOK, Allocated, IsReady, IsStarted, Touching
<1>4. QED  BY <1>1, <1>2, <1>3 DEF KernelInv, Base

LEMMA NextKernelInv ==
  ASSUME KernelInv, [Next]_vars  PROVE KernelInv'
<1>1. /\ Base
      /\ Calm => \A k \in Read : CalmRead(k)
      /\ seen = {} => Calm /\ \A k \in Read : QuietRead(k)
  BY DEF KernelInv, Base, CalmRead, QuietRead, Calm
<1> DEFINE Env == \/ Load \/ Unload
                  \/ \E v \in 0 .. MaxCount : StoreCount(v)
                  \/ \E c \in Cpu : Hotplug(c)
                  \/ \E k \in Read : Signal(k) \/ Begin(k)
<1>2. SUFFICES /\ Base'
               /\ Calm' => \A k \in Read : CalmRead(k)'
               /\ seen' = {} => \A k \in Read : QuietRead(k)'
  BY DEF KernelInv, Base, CalmRead, QuietRead
<1>3. CASE Env
  <2>1. Base'
    BY <1>1, <1>3, EnvBase
  <2>2. seen \subseteq seen'
    BY <1>3 DEF Load, Unload, StoreCount, Hotplug, Signal, Begin
  <2>3. (Calm' => Calm) /\ (seen' = {} => seen = {})
    BY <2>2 DEF Calm
  <2>4. ASSUME Calm'  PROVE \A k \in Read : CalmRead(k)'
    BY <1>1, <1>3, <2>3, <2>4, CalmEnv
  <2>5. ASSUME seen' = {}  PROVE \A k \in Read : QuietRead(k)'
    BY <1>1, <1>3, <2>3, <2>5, QuietEnv
  <2>6. QED  BY <2>1, <2>4, <2>5
<1>4. ASSUME NEW k \in Read, ReadStep(k) \/ AllocFails(k) \/ ReaderLost(k)
      PROVE  /\ Base'
             /\ Calm' => \A j \in Read : CalmRead(j)'
             /\ seen' = {} => \A j \in Read : QuietRead(j)'
  <2>1. Base'
    BY <1>1, <1>4, ReadBase
  <2>2. seen \subseteq seen'
    BY <1>1, <1>4, ReadFrame
  <2>3. (Calm' => Calm) /\ (seen' = {} => seen = {} /\ Calm')
    BY <2>2 DEF Calm
  <2>4. ASSUME Calm'  PROVE \A j \in Read : CalmRead(j)'
    BY <1>1, <1>4, <2>1, <2>3, <2>4, CalmReads
  <2>5. ASSUME seen' = {}  PROVE \A j \in Read : QuietRead(j)'
    BY <1>1, <1>4, <2>1, <2>3, <2>4, <2>5, QuietReads
  <2>6. QED  BY <2>1, <2>4, <2>5
<1>5. ASSUME NEW t \in Read \X Cpu, ThreadStep(t) \/ ThreadLost(t)
      PROVE  /\ Base'
             /\ Calm' => \A j \in Read : CalmRead(j)'
             /\ seen' = {} => \A j \in Read : QuietRead(j)'
  <2>1. Base'
    BY <1>1, <1>5, ThreadBase
  <2>2. seen' = seen
    BY <1>5 DEF ThreadStep, ThreadLost, FetchPrev, PassGate, Generate, StoreTime,
                Complete, ThreadExit, UnchangedByThreads
  <2>3. Calm' <=> Calm
    BY <2>2 DEF Calm
  <2>4. PICK k \in Read, c \in Cpu : t = <<k, c>>
    OBVIOUS
  <2>5. ThreadStep(<<k, c>>) \/ ThreadLost(<<k, c>>)
    BY <1>5, <2>4
  <2>6. ASSUME Calm'  PROVE \A j \in Read : CalmRead(j)'
    BY <1>1, <2>3, <2>5, <2>6, CalmThreads
  <2>7. ASSUME seen' = {}  PROVE \A j \in Read : QuietRead(j)'
    BY <1>1, <2>2, <2>5, <2>7, QuietThreads
  <2>8. QED  BY <2>1, <2>6, <2>7
<1>6. CASE UNCHANGED vars
  <2>1. Base'
    BY <1>1, <1>6 DEF vars, readVars, Base, TypeOK, ArraysOK, ShapeOK
  <2>2. (Calm' <=> Calm) /\ seen' = seen
    BY <1>6 DEF vars, Calm
  <2>3. ASSUME NEW k \in Read, CalmRead(k) PROVE CalmRead(k)'
    BY <1>6, <2>3 DEF vars, readVars, CalmRead, CpusOK, ThreadOK, IsReady, IsStarted
  <2>4. ASSUME NEW k \in Read, QuietRead(k) PROVE QuietRead(k)'
    BY <1>6, <2>4 DEF vars, readVars, QuietRead, SumOK, MeasureOK, IsReady, IsStarted
  <2>. QED BY <1>1, <2>1, <2>2, <2>3, <2>4
<1>7. QED  BY <1>3, <1>4, <1>5, <1>6 DEF Next

(* The inductive invariant: the reads own their arrays and, undisturbed,   *)
(* threads work only between their start and the wait of time_show() for   *)
(* them, with the record that was made ready for them.                     *)
THEOREM KernelInvCorrect == Spec => []KernelInv
<1>1. Init => KernelInv
  BY InitKernelInv
<1>2. KernelInv /\ [Next]_vars => KernelInv'
  BY NextKernelInv
<1>3. QED  BY <1>1, <1>2, PTL DEF Spec

(* Type correctness: every variable has its type.                          *)
THEOREM KernelTypeCorrect == Spec => []TypeOK
<1>1. KernelInv => TypeOK
  BY DEF KernelInv
<1>2. QED  BY <1>1, KernelInvCorrect, PTL

(* time_show() does not free the records or leave main_start while a       *)
(* benchmark_thread() still uses them, however many reads overlap.         *)
THEOREM RecordsAliveCorrect == Spec => []RecordsAlive
<1>1. KernelInv => RecordsAlive
  <2>1. SUFFICES ASSUME KernelInv, Calm, NEW t \in Read \X Cpu, thr[t].pc \in Touching
                 PROVE  HasRecord(t)
    BY DEF RecordsAlive
  <2>2. PICK k \in Read, c \in Cpu : t = <<k, c>>
    OBVIOUS
  <2>3. Base /\ ThreadOK(k, c)
    BY <2>1 DEF KernelInv, Base
  <2>4. QED  BY <2>1, <2>2, <2>3, CalmThread
<1>2. QED  BY <1>1, KernelInvCorrect, PTL

(* No benchmark_thread() takes a time before complete_all(), which comes   *)
(* after a thread has been started for every CPU.                          *)
THEOREM StartTogetherCorrect == Spec => []StartTogether
<1>1. KernelInv => StartTogether
  <2>1. SUFFICES ASSUME KernelInv, Calm, NEW t \in Read \X Cpu,
                        thr[t].pc \in {"loop", "store", "complete"}
                 PROVE  rpc[t[1]] # "start"
    BY DEF StartTogether
  <2>2. PICK k \in Read, c \in Cpu : t = <<k, c>>
    OBVIOUS
  <2>3. ThreadOK(k, c)
    BY <2>1 DEF KernelInv
  <2>4. QED  BY <2>1, <2>2, <2>3 DEF ThreadOK
<1>2. QED  BY <1>1, KernelInvCorrect, PTL

(* What an undisturbed read of "time" returns is the time of event_count   *)
(* events on each of the CPUs.                                             *)
THEOREM TimeCompleteCorrect == Spec => []TimeComplete
<1>1. KernelInv => TimeComplete
  BY DEF KernelInv, TimeComplete, SumOK
<1>2. QED  BY <1>1, KernelInvCorrect, PTL

(* The removal of the module finds no thread with work to do, though       *)
(* lttng_benchmark_cleanup() waits for none.                               *)
THEOREM UnloadCorrect == Spec => UnloadAfterThreads
<1> DEFINE Safe == loaded /\ ~loaded' /\ Calm
                     => \A t \in Read \X Cpu : thr[t].pc \notin Touching
<1>1. KernelInv /\ [Next]_vars => [Safe]_vars
  <2>1. SUFFICES ASSUME KernelInv, Next, loaded, ~loaded', Calm,
                        NEW t \in Read \X Cpu, thr[t].pc \in Touching
                 PROVE  FALSE
    BY DEF Safe
  <2>2. CASE Unload
    <3>1. PICK k \in Read, c \in Cpu : t = <<k, c>>
      OBVIOUS
    <3>2. Base /\ ThreadOK(k, c)
      BY <2>1 DEF KernelInv, Base
    <3>3. rpc[k] \in {"start", "wait"}
      BY <2>1, <3>1, <3>2, CalmThread
    <3>4. QED  BY <2>2, <3>3 DEF Unload, Drained
  <2>3. CASE ~Unload
    <3>1. loaded' = loaded \/ loaded' = TRUE
      BY <2>1, <2>3
      DEF Next, Load, StoreCount, Hotplug, Signal, Begin, ReadStep, CountCpu, Alloc,
          InitRecord, StartThread, Release, WaitEnd, AddTime, Return, AllocFails,
          ReaderLost, ThreadStep, ThreadLost, FetchPrev, PassGate, Generate, StoreTime,
          Complete, ThreadExit, UnchangedByThreads
    <3>2. QED  BY <2>1, <3>1
  <2>4. QED  BY <2>2, <2>3
<1>2. QED  BY <1>1, KernelInvCorrect, PTL DEF Spec, UnloadAfterThreads

=============================================================================
