---------------------------- MODULE RunnerProofs ----------------------------
(***************************************************************************)
(* Theorems about module Runner, for every number of CPUs, of pids, of     *)
(* runs, every size of the buffers and every set of failures.              *)
(***************************************************************************)
EXTENDS RunnerInvariants, TLAPS

USE PidAssumption, MaxEventsAssumption, UninitAssumption, NProcsAssumption,
    MaxRunsAssumption, ModesAssumption

-----------------------------------------------------------------------------
(* What shared_events_open() can return: with a context it does nothing;   *)
(* without one it maps the buffer it is asked for, or fails.               *)
LEMMA OpenOutcome ==
  ASSUME NEW c \in Pid, NEW at \in Pid \cup {None, Half}, NEW n \in Nat,
         at \in Pid => n > 0,
         NEW o \in Open(at, n, c)
  PROVE  /\ o.res \in {"ok", "err", "crash"}
         /\ o.at \in Pid \cup {None, Half}
         /\ o.made \in BOOLEAN
         /\ o.fds \in Nat
         /\ at # None => o.res = "ok" /\ o.at = at
         /\ o.res = "ok" /\ at = None => o.at = c
         /\ o.res = "err" => o.at \in {None, Half}
         /\ o.res = "crash" => o.at = None
         /\ o.at \in Pid => o.fds > 0
<1>1. CASE at # None
  <2>1. o = [res |-> "ok", at |-> at, made |-> FALSE, fds |-> n]
    BY <1>1 DEF Open, Opened
  <2>2. QED  BY <1>1, <2>1, Zenon
<1>2. CASE at = None
  <2>1. CASE o \in OpenFails(n, c)
    <3>1. \/ o = Opened("err", None, FALSE, n)
          \/ \E stale \in BOOLEAN :
               o = Opened("err", Half, FALSE, n + (IF stale THEN 1 ELSE 0))
          \/ o = Opened("crash", None, TRUE, 0)
      <4>1. StaleErrno(c) \subseteq BOOLEAN
        BY DEF StaleErrno
      <4>. QED BY <2>1, <4>1, Zenon DEF OpenFails
    <3>2. CASE o = Opened("err", None, FALSE, n)
      BY <1>2, <3>2, Zenon DEF Opened
    <3>3. CASE \E stale \in BOOLEAN :
                 o = Opened("err", Half, FALSE, n + (IF stale THEN 1 ELSE 0))
      <4>0. \A stale \in BOOLEAN : n + (IF stale THEN 1 ELSE 0) \in Nat
        OBVIOUS
      <4>1. PICK m \in Nat : o = [res |-> "err", at |-> Half, made |-> FALSE, fds |-> m]
        BY <3>3, <4>0, Zenon DEF Opened
      <4>. QED BY <1>2, <4>1, Zenon
    <3>4. CASE o = Opened("crash", None, TRUE, 0)
      BY <1>2, <3>4, Zenon DEF Opened
    <3>5. QED  BY <3>1, <3>2, <3>3, <3>4
  <2>2. CASE o \notin OpenFails(n, c)
    <3>1. PICK stale \in StaleErrno(c) :
            o = Opened("ok", c, TRUE, n + (IF stale THEN 2 ELSE 1))
      BY <1>2, <2>2, Zenon DEF Open
    <3>2. DEFINE m == n + (IF stale THEN 2 ELSE 1)
    <3>3. m \in Nat /\ m > 0
      OBVIOUS
    <3>4. HIDE DEF m
    <3>5. o = [res |-> "ok", at |-> c, made |-> TRUE, fds |-> m]
      BY <3>1 DEF Opened, m
    <3>6. QED  BY <1>2, <3>3, <3>5, Zenon
  <2>3. QED  BY <2>1, <2>2
<1>3. QED  BY <1>1, <1>2

(* Opening a buffer does not touch its events.                             *)
LEMMA MadeBuffer ==
  ASSUME shm \in [Pid -> Buffer], NEW c \in Pid, NEW made \in BOOLEAN
  PROVE  /\ Made(c, made) \in Buffer
         /\ Made(c, made).count = shm[c].count
         /\ Made(c, made).slot = shm[c].slot
BY Zenon DEF Made, Buffer

LEMMA ClearedBuffer ==
  ASSUME NEW b \in Buffer
  PROVE  Cleared(b) \in Buffer /\ Cleared(b).count = 0
BY DEF Cleared, Buffer

(* shared_events_add() leaves the slots before the new one as they were.   *)
LEMMA AppendedBuffer ==
  ASSUME NEW b \in Buffer, b.count # MaxEvents,
         NEW name \in EventName, NEW c \in Pid, NEW r \in Nat
  PROVE  /\ b.count \in Slots
         /\ Appended(b, name, c, r) \in Buffer
         /\ Appended(b, name, c, r).count = b.count + 1
         /\ \A j \in Slots : j # b.count
              => Appended(b, name, c, r).slot[j] = b.slot[j]
         /\ Appended(b, name, c, r).slot[b.count].name = name
         /\ Appended(b, name, c, r).slot[b.count].by = c
         /\ Appended(b, name, c, r).slot[b.count].born = r
<1>1. b.count \in Slots
  BY DEF Buffer, Slots
<1>2. DEFINE e == [name |-> name, by |-> c, born |-> r,
                   stamp |-> b.slot[b.count].stamp]
             s == [b.slot EXCEPT ![b.count] = e]
<1>3. e \in Event
  BY <1>1 DEF Buffer, Event
<1>4. s \in [Slots -> Event]
  BY <1>1, <1>3 DEF Buffer
<1>5. Appended(b, name, c, r) = [b EXCEPT !.count = b.count + 1, !.slot = s]
  BY Zenon DEF Appended
<1>6. b.count + 1 \in 0 .. MaxEvents
  BY <1>1 DEF Slots
<1>7. s[b.count] = e /\ \A j \in Slots : j # b.count => s[j] = b.slot[j]
  BY <1>1 DEF Buffer
<1>8. HIDE DEF s
<1>9. /\ Appended(b, name, c, r) \in Buffer
      /\ Appended(b, name, c, r).count = b.count + 1
      /\ Appended(b, name, c, r).slot = s
  BY <1>4, <1>5, <1>6 DEF Buffer
<1>10. QED
  BY <1>1, <1>7, <1>9

-----------------------------------------------------------------------------
(* The parts of several actions keep the types.                            *)
LEMMA ExitType ==
  ASSUME TypeOK, FdsInv, NEW c \in Pid, NEW how \in Ended, Exit(c, how)
  PROVE  /\ pc' \in [Pid -> {"free"} \cup Alive \cup Ended]
         /\ ev' \in [Pid -> EventName]
         /\ ctx' \in [Proc -> Pid \cup {None, Half}]
         /\ fds' \in [Proc -> Nat]
         /\ pend' \in [Pid -> Slots]
         /\ FdsInv'
BY DEF TypeOK, LibTypeOK, FdsInv, Exit, Proc, Slots

LEMMA ReturnType ==
  ASSUME TypeOK, FdsInv, NEW c \in Pid, NEW where \in Alive \cup Ended,
         NEW at \in Pid \cup {None, Half}, NEW n \in Nat,
         at \in Pid => n > 0,
         Return(c, where, at, n)
  PROVE  /\ pc' \in [Pid -> {"free"} \cup Alive \cup Ended]
         /\ ev' \in [Pid -> EventName]
         /\ ctx' \in [Proc -> Pid \cup {None, Half}]
         /\ fds' \in [Proc -> Nat]
         /\ pend' \in [Pid -> Slots]
         /\ FdsInv'
<1>1. CASE where \in Ended
  <2>1. Exit(c, where)
    BY <1>1 DEF Return
  <2>2. QED  BY <1>1, <2>1, ExitType, Zenon
<1>2. CASE where \notin Ended
  <2>1. /\ pc' = [pc EXCEPT ![c] = where]
        /\ ctx' = [ctx EXCEPT ![c] = at]
        /\ fds' = [fds EXCEPT ![c] = n]
        /\ pend' = [pend EXCEPT ![c] = 0]
        /\ ev' = ev
    BY <1>2, Zenon DEF Return
  <2>2. 0 \in Slots
    BY DEF Slots
  <2>3. FdsInv'
    BY <2>1 DEF TypeOK, LibTypeOK, FdsInv, Proc
  <2>4. QED  BY <2>1, <2>2, <2>3 DEF TypeOK, LibTypeOK, Proc
<1>3. QED  BY <1>1, <1>2

LEMMA RunnerExitType ==
  ASSUME TypeOK, FdsInv, NEW s \in {"ok", "fail"}, RunnerExit(s)
  PROVE  /\ rpc' = "done" /\ ret' = s
         /\ ctx' \in [Proc -> Pid \cup {None, Half}]
         /\ fds' \in [Proc -> Nat]
         /\ rptr' \in (0 .. MaxEvents) \cup {Uninit}
         /\ cur' \in Seq(Event)
         /\ FdsInv'
BY DEF TypeOK, LibTypeOK, FdsInv, RunnerExit, Proc

LEMMA NextWaitType ==
  ASSUME TypeOK, FdsInv, NEW r \in {"ok", "fail"}, rpc = "wait", NextWait(r)
  PROVE  /\ rpc' \in {"off", "done"} \cup Working
         /\ ret' \in {"ok", "fail"}
         /\ i' \in Idx
         /\ ctx' \in [Proc -> Pid \cup {None, Half}]
         /\ fds' \in [Proc -> Nat]
         /\ rptr' \in (0 .. MaxEvents) \cup {Uninit}
         /\ cur' \in Seq(Event)
         /\ FdsInv'
<1> USE DEF Idx, Working
<1>1. CASE i < NProcs
  BY <1>1 DEF TypeOK, LibTypeOK, FdsInv, NextWait
<1>2. CASE ~(i < NProcs) /\ r = "ok"
  BY <1>2 DEF TypeOK, LibTypeOK, FdsInv, NextWait
<1>3. CASE ~(i < NProcs) /\ r # "ok"
  <2>1. RunnerExit(r) /\ UNCHANGED i
    BY <1>3 DEF NextWait
  <2>2. QED  BY <2>1, RunnerExitType DEF TypeOK
<1>4. QED  BY <1>1, <1>2, <1>3

LEMMA NextPrintType ==
  ASSUME TypeOK, FdsInv, NEW r \in {"ok", "fail"},
         NEW at \in {None, Half}, NEW n \in Nat, NextPrint(r, at, n)
  PROVE  /\ rpc' \in {"off", "done"} \cup Working
         /\ ret' \in {"ok", "fail"}
         /\ i' \in Idx
         /\ ctx' \in [Proc -> Pid \cup {None, Half}]
         /\ fds' \in [Proc -> Nat]
         /\ rptr' \in (0 .. MaxEvents) \cup {Uninit}
         /\ cur' \in Seq(Event)
         /\ FdsInv'
<1> USE DEF Idx, Working
<1>1. CASE i < NProcs
  BY <1>1 DEF TypeOK, LibTypeOK, FdsInv, NextPrint, Proc
<1>2. CASE ~(i < NProcs)
  <2>1. RunnerExit(r) /\ UNCHANGED i
    BY <1>2 DEF NextPrint
  <2>2. QED  BY <2>1, RunnerExitType DEF TypeOK
<1>3. QED  BY <1>1, <1>2

-----------------------------------------------------------------------------
(* Every step of a child keeps the types.                                  *)
LEMMA ChildType ==
  ASSUME TypeOK, FdsInv, NEW c \in Pid,
         ChildStep(c) \/ Kill(c) \/ Reap(c)
  PROVE  TypeOK' /\ FdsInv'
<1>0. /\ ctx[c] \in Pid \cup {None, Half} /\ fds[c] \in Nat
      /\ ctx[c] \in Pid => fds[c] > 0
      /\ ev[c] \in EventName /\ pc[c] \in {"free"} \cup Alive \cup Ended
      /\ shm \in [Pid -> Buffer]
      /\ shm[c] \in Buffer
  BY DEF TypeOK, LibTypeOK, FdsInv, Proc
<1> DEFINE ProcT == /\ pc' \in [Pid -> {"free"} \cup Alive \cup Ended]
                    /\ ev' \in [Pid -> EventName]
                    /\ ctx' \in [Proc -> Pid \cup {None, Half}]
                    /\ fds' \in [Proc -> Nat]
                    /\ pend' \in [Pid -> Slots]
                    /\ FdsInv'
           RestT == /\ shm' \in [Pid -> Buffer]
                    /\ dirty' \in SUBSET Pid
                    /\ UNCHANGED <<rptr, job, runnerVars>>
<1>r. ASSUME ProcT, RestT  PROVE TypeOK' /\ FdsInv'
  BY <1>r DEF TypeOK, LibTypeOK, runnerVars
<1> HIDE DEF ProcT, RestT
<1>1. CASE Clear(c)
  <2>1. PICK o \in Open(None, AfterClose(ctx[c], fds[c]), c) : Clear(c)!2!(o)
    BY <1>1 DEF Clear
  <2>2. AfterClose(ctx[c], fds[c]) \in Nat
    BY <1>0 DEF AfterClose
  <2>3. /\ o.res \in {"ok", "err", "crash"} /\ o.made \in BOOLEAN
        /\ o.at \in Pid \cup {None, Half} /\ o.fds \in Nat
        /\ o.at \in Pid => o.fds > 0
    <3>1. None \in Pid \cup {None, Half} /\ None \notin Pid
      OBVIOUS
    <3>2. ASSUME NEW n \in Nat, NEW q \in Open(None, n, c)
          PROVE  /\ q.res \in {"ok", "err", "crash"} /\ q.made \in BOOLEAN
                 /\ q.at \in Pid \cup {None, Half} /\ q.fds \in Nat
                 /\ q.at \in Pid => q.fds > 0
      BY <3>1, OpenOutcome
    <3>3. QED  BY <2>2, <3>2
  <2>4. Made(c, o.made) \in Buffer /\ Cleared(Made(c, o.made)) \in Buffer
    BY <1>0, <2>3, MadeBuffer, ClearedBuffer
  <2>5. shm' \in [Pid -> Buffer]
    BY <1>0, <2>1, <2>4
  <2>6. RestT
    BY <1>1, <2>1, <2>5 DEF Clear, RestT, TypeOK
  <2>7. CASE o.res = "crash"
    <3>1. Exit(c, "signal") /\ "signal" \in Ended
      BY <2>1, <2>7 DEF Ended
    <3>2. ProcT
      BY <3>1, ExitType, Zenon DEF ProcT
    <3>3. QED  BY <1>r, <2>6, <3>2
  <2>8. CASE o.res # "crash"
    <3>1. /\ ctx' = [ctx EXCEPT ![c] = o.at] /\ fds' = [fds EXCEPT ![c] = o.fds]
          /\ pc' = [pc EXCEPT ![c] = "add"] /\ ev' = [ev EXCEPT ![c] = "exec"]
          /\ pend' = pend
      BY <2>1, <2>8, Zenon
    <3>2. /\ pc' \in [Pid -> {"free"} \cup Alive \cup Ended]
          /\ ev' \in [Pid -> EventName] /\ pend' \in [Pid -> Slots]
      <4>1. "add" \in Alive /\ "exec" \in EventName
        BY DEF Alive, EventName
      <4>2. /\ pc \in [Pid -> {"free"} \cup Alive \cup Ended]
            /\ ev \in [Pid -> EventName] /\ pend \in [Pid -> Slots]
        BY DEF TypeOK, LibTypeOK
      <4>. QED BY <3>1, <4>1, <4>2
    <3>3. ctx' \in [Proc -> Pid \cup {None, Half}] /\ fds' \in [Proc -> Nat]
      BY <2>3, <3>1 DEF TypeOK, LibTypeOK
    <3>4. FdsInv'
      BY <2>3, <3>1 DEF TypeOK, LibTypeOK, FdsInv
    <3>5. ProcT
      BY <3>2, <3>3, <3>4 DEF ProcT
    <3>6. QED  BY <1>r, <2>6, <3>5
  <2>9. QED  BY <2>7, <2>8
<1>2. CASE AddFails(c)
  <2>1. PICK o \in Open(ctx[c], fds[c], c) : AddFails(c)!2!(o)
    BY <1>2 DEF AddFails
  <2>3. /\ o.made \in BOOLEAN
        /\ o.at \in Pid \cup {None, Half} /\ o.fds \in Nat
        /\ o.at \in Pid => o.fds > 0
    BY <1>0, OpenOutcome
  <2>4. Made(c, o.made) \in Buffer
    BY <1>0, <2>3, MadeBuffer
  <2>5. RestT
    BY <1>0, <1>2, <2>1, <2>4 DEF AddFails, RestT, TypeOK
  <2>6. AfterFailedAdd(ev[c]) \in Alive \cup Ended
    BY DEF AfterFailedAdd, Alive, Ended
  <2>7. ProcT
    BY <2>1, <2>3, <2>6, ExitType, ReturnType DEF Ended, ProcT
  <2>8. QED  BY <1>r, <2>5, <2>7
<1>3. CASE AddWild(c)
  <2>1. RestT
    BY <1>0, <1>3 DEF AddWild, RestT, TypeOK
  <2>2. /\ AfterFailedAdd(ev[c]) \in Alive \cup Ended
        /\ AfterAdd(ev[c]) \in Alive \cup Ended
    BY <1>0 DEF AfterFailedAdd, AfterAdd, EventName, Alive, Ended
  <2>3. ProcT
    BY <1>0, <1>3, <2>2, ExitType, ReturnType DEF AddWild, Ended, ProcT
  <2>4. QED  BY <1>r, <2>1, <2>3
<1>4. CASE Add(c)
  <2>1. PICK o \in Open(ctx[c], fds[c], c) : Add(c)!2!(o)
    BY <1>4 DEF Add
  <2>2. o.fds \in Nat /\ o.fds > 0 /\ o.at \in Pid
    BY <1>0, <2>1, OpenOutcome
  <2>3. DEFINE b == [shm[o.at] EXCEPT !.exists = TRUE]
  <2>4. b \in Buffer /\ b.count = shm[o.at].count
    BY <1>0, <2>2 DEF Buffer
  <2>5. shm' = [shm EXCEPT ![o.at] = Appended(b, ev[c], c, job[c].run)]
    BY <2>1
  <2>6. job[c].run \in Nat
    BY DEF TypeOK
  <2>7. b.count # MaxEvents
    BY <2>1, <2>4 DEF Full
  <2>8. HIDE DEF b
  <2>9. /\ Appended(b, ev[c], c, job[c].run) \in Buffer
        /\ b.count \in Slots
    BY <1>0, <2>4, <2>6, <2>7, AppendedBuffer
  <2>10. RestT
    BY <1>0, <1>4, <2>5, <2>9 DEF Add, RestT, TypeOK
  <2>11. ProcT
    BY <1>4, <2>1, <2>2, <2>4, <2>9
       DEF Add, TypeOK, LibTypeOK, FdsInv, ProcT, Proc, Alive
  <2>12. QED  BY <1>r, <2>10, <2>11
<1>5. CASE Stamp(c)
  <2>1. ctx[c] \in Pid /\ pend[c] \in Slots /\ job[c].run \in Nat
    BY <1>5 DEF Stamp, TypeOK, LibTypeOK
  <2>2. [shm[ctx[c]].slot[pend[c]] EXCEPT !.stamp = job[c].run] \in Event
    <3>1. shm[ctx[c]].slot[pend[c]] \in Event
      BY <1>0, <2>1 DEF Buffer
    <3>2. QED  BY <2>1, <3>1 DEF Event
  <2>3. shm' \in [Pid -> Buffer]
    <3>1. PICK b \in Buffer : b = shm[ctx[c]]
      BY <1>0, <2>1
    <3>2. PICK e \in Event : e = [b.slot[pend[c]] EXCEPT !.stamp = job[c].run]
      BY <2>2, <3>1
    <3>3. [b EXCEPT !.slot = [b.slot EXCEPT ![pend[c]] = e]] \in Buffer
      BY <3>1, <3>2 DEF Buffer
    <3>4. shm' = [shm EXCEPT ![ctx[c]] = [b EXCEPT !.slot = [b.slot EXCEPT ![pend[c]] = e]]]
      BY <1>5, <3>1, <3>2 DEF Stamp
    <3>. QED BY <1>0, <2>1, <3>3, <3>4
  <2>4. RestT
    BY <1>5, <2>3 DEF Stamp, RestT, TypeOK
  <2>5. AfterAdd(ev[c]) \in Alive \cup Ended
    BY <1>0 DEF AfterAdd, EventName, Alive, Ended
  <2>6. ProcT
    BY <1>0, <1>5, <2>5, ReturnType DEF Stamp, ProcT
  <2>7. QED  BY <1>r, <2>4, <2>6
<1>6. CASE Exec(c)
  BY <1>6 DEF Exec, TypeOK, LibTypeOK, FdsInv, Proc, Alive, EventName,
              runnerVars
<1>12. CASE ClockFails(c) \/ StampFails(c)
  <2>1. RestT
    BY <1>0, <1>12 DEF ClockFails, StampFails, RestT, TypeOK
  <2>2. Return(c, AfterFailedAdd(ev[c]), ctx[c], fds[c])
    BY <1>12 DEF ClockFails, StampFails
  <2>3. AfterFailedAdd(ev[c]) \in Alive \cup Ended
    BY DEF AfterFailedAdd, Alive, Ended
  <2>4. ProcT
    BY <1>0, <2>2, <2>3, ReturnType DEF ProcT
  <2>5. QED  BY <1>r, <2>1, <2>4
<1>7. CASE ExecFails(c) \/ Kill(c)
  <2>1. RestT
    BY <1>0, <1>7 DEF ExecFails, Kill, RestT, TypeOK
  <2>2. ProcT
    BY <1>7, ExitType DEF ExecFails, Kill, Ended, ProcT
  <2>3. QED  BY <1>r, <2>1, <2>2
<1>8. CASE Args(c)
  <2>1. RestT
    BY <1>0, <1>8 DEF Args, RestT, TypeOK
  <2>2. CASE \E how \in {"ok", "fail"} : Exit(c, how)
    <3>1. PICK how \in Ended : Exit(c, how)
      BY <2>2, Zenon DEF Ended
    <3>2. ProcT
      BY <3>1, ExitType, Zenon DEF ProcT
    <3>3. QED  BY <1>r, <2>1, <3>2
  <2>3. CASE ~ \E how \in {"ok", "fail"} : Exit(c, how)
    <3>1. /\ pc' = [pc EXCEPT ![c] = "add"]
          /\ ev' = [ev EXCEPT ![c] = "start"]
          /\ UNCHANGED <<ctx, fds, pend>>
      BY <1>8, <2>3, Zenon DEF Args
    <3>2. ProcT
      BY <3>1 DEF TypeOK, LibTypeOK, FdsInv, ProcT, Alive, EventName
    <3>3. QED  BY <1>r, <2>1, <3>2
  <2>4. QED  BY <2>2, <2>3
<1>9. CASE Loop(c)
  BY <1>9 DEF Loop, TypeOK, LibTypeOK, FdsInv, Alive, EventName,
              libVars, runnerVars
<1>10. CASE Reap(c)
  BY <1>10 DEF Reap, TypeOK, LibTypeOK, FdsInv, libVars, runnerVars
<1>11. QED
  BY <1>1, <1>2, <1>3, <1>4, <1>5, <1>6, <1>7, <1>8, <1>9, <1>10, <1>12
     DEF ChildStep

-----------------------------------------------------------------------------
(* Every step of the runner keeps the types.                               *)
LEMMA RunnerType ==
  ASSUME TypeOK, FdsInv,
         \/ \E c \in Pid : Fork(c)
         \/ \E m \in Modes : Invoke(m)
         \/ ForkFails \/ WaitFails \/ RunnerStep \/ RunnerKilled
  PROVE  TypeOK' /\ FdsInv'
<1>0. /\ RunnerProc \in Proc
      /\ ctx[RunnerProc] \in Pid \cup {None, Half} /\ fds[RunnerProc] \in Nat
      /\ ctx[RunnerProc] \in Pid => fds[RunnerProc] > 0
      /\ shm \in [Pid -> Buffer] /\ i \in Idx /\ ret \in {"ok", "fail"}
      /\ cur \in Seq(Event) /\ out \in Seq(Seq(Event))
  BY DEF TypeOK, LibTypeOK, FdsInv, Proc
<1> DEFINE MainT == /\ rpc' \in {"off", "done"} \cup Working
                    /\ ret' \in {"ok", "fail"}
                    /\ i' \in Idx
                    /\ ctx' \in [Proc -> Pid \cup {None, Half}]
                    /\ fds' \in [Proc -> Nat]
                    /\ rptr' \in (0 .. MaxEvents) \cup {Uninit}
                    /\ cur' \in Seq(Event)
                    /\ FdsInv'
           RestT == /\ shm' \in [Pid -> Buffer]
                    /\ pc' \in [Pid -> {"free"} \cup Alive \cup Ended]
                    /\ out' \in Seq(Seq(Event))
                    /\ UNCHANGED <<pend, ev, job, dirty, run, mode, kids>>
<1>r. ASSUME MainT, RestT  PROVE TypeOK' /\ FdsInv'
  BY <1>r DEF TypeOK, LibTypeOK
<1>s. TypeOK => /\ shm \in [Pid -> Buffer]
                /\ pc \in [Pid -> {"free"} \cup Alive \cup Ended]
                /\ out \in Seq(Seq(Event))
  BY DEF TypeOK, LibTypeOK
<1>e. ASSUME RunnerExit("fail") /\ UNCHANGED i  PROVE MainT
  <2>1. "fail" \in {"ok", "fail"} /\ "done" \in {"off", "done"} \cup Working
    OBVIOUS
  <2>2. /\ rpc' = "done" /\ ret' = "fail"
        /\ ctx' \in [Proc -> Pid \cup {None, Half}]
        /\ fds' \in [Proc -> Nat]
        /\ rptr' \in (0 .. MaxEvents) \cup {Uninit}
        /\ cur' \in Seq(Event)
        /\ FdsInv'
    BY <1>e, <2>1, RunnerExitType, Zenon
  <2>3. QED  BY <1>0, <1>e, <2>1, <2>2
<1>p. ASSUME NEW r \in {"ok", "fail"}, NEW at \in {None, Half}, NEW n \in Nat,
             NextPrint(r, at, n)
      PROVE  MainT
  BY <1>p, NextPrintType, Zenon
<1> HIDE DEF MainT, RestT
<1>1. CASE \E c \in Pid : Fork(c)
  <2>1. PICK c \in Pid : Fork(c)
    BY <1>1
  <2>2. /\ kids' \in [Idx -> Pid \cup {None}]
        /\ pc' \in [Pid -> {"free"} \cup Alive \cup Ended]
        /\ ev' \in [Pid -> EventName]
        /\ job' \in [Pid -> [run : 0 .. MaxRuns, mode : Mode]]
        /\ dirty' \in SUBSET Pid
    BY <2>1 DEF Fork, TypeOK, Alive, EventName
  <2>3. /\ ctx' \in [Proc -> Pid \cup {None, Half}]
        /\ fds' \in [Proc -> Nat]
        /\ FdsInv'
    BY <1>0, <2>1 DEF Fork, TypeOK, LibTypeOK, FdsInv, Proc
  <2>4. rpc' \in {"off", "done"} \cup Working /\ i' \in Idx
    BY <2>1 DEF Fork, TypeOK, Idx, Working
  <2>5. UNCHANGED <<shm, rptr, pend, run, mode, ret, cur, out>>
    BY <2>1 DEF Fork
  <2>6. QED  BY <2>2, <2>3, <2>4, <2>5 DEF TypeOK, LibTypeOK
<1>2. CASE \E m \in Modes : Invoke(m)
  <2>1. PICK m \in Modes : Invoke(m)
    BY <1>2
  <2>2. run' \in 0 .. MaxRuns /\ mode' \in Mode /\ i' \in Idx
    BY <2>1 DEF Invoke, TypeOK, Idx
  <2>3. kids' \in [Idx -> Pid \cup {None}]
    BY <2>1 DEF Invoke, NoKids
  <2>4. QED
    BY <2>1, <2>2, <2>3
       DEF Invoke, TypeOK, LibTypeOK, FdsInv, libVars, childVars, Working
<1>3. CASE ForkFails
  <2>1. RestT
    BY <1>s, <1>3 DEF ForkFails, RestT, childVars
  <2>2. QED  BY <1>3, <1>r, <1>e, <2>1, Zenon DEF ForkFails
<1>4. CASE WaitFails
  <2>1. RestT
    BY <1>s, <1>4 DEF WaitFails, RestT, childVars
  <2>2. "fail" \in {"ok", "fail"} /\ rpc = "wait" /\ NextWait("fail")
    BY <1>4 DEF WaitFails
  <2>3. MainT
    BY <2>2, NextWaitType, Zenon DEF MainT
  <2>4. QED  BY <1>r, <2>1, <2>3
<1>5. CASE Wait
  <2>1. PICK c \in Pid : /\ pc' = [pc EXCEPT ![c] = "free"]
                         /\ NextWait(IF pc[c] = "ok" THEN ret ELSE "fail")
    BY <1>5 DEF Wait
  <2>2. RestT
    BY <1>s, <1>5, <2>1 DEF Wait, RestT
  <2>3. (IF pc[c] = "ok" THEN ret ELSE "fail") \in {"ok", "fail"}
    BY <1>0
  <2>4. rpc = "wait"
    BY <1>5 DEF Wait
  <2>5. MainT
    BY <2>1, <2>3, <2>4, NextWaitType, Zenon DEF MainT
  <2>6. QED  BY <1>r, <2>2, <2>5
<1>6. CASE PrintOpen
  <2> DEFINE Opening(c, o) ==
               /\ shm' = [shm EXCEPT ![c] = Made(c, o.made)]
               /\ \/ /\ o.res = "crash"
                     /\ RunnerExit("fail")
                     /\ UNCHANGED i
                  \/ /\ o.res = "err"
                     /\ NextPrint("fail", o.at, o.fds)
                  \/ /\ o.res = "ok"
                     /\ ctx' = [ctx EXCEPT ![RunnerProc] = o.at]
                     /\ fds' = [fds EXCEPT ![RunnerProc] = o.fds]
                     /\ rptr' = Rewound
                     /\ rpc' = "read"
                     /\ UNCHANGED <<ret, cur, i>>
  <2>0. PICK c \in Pid :
          \E o \in Open(ctx[RunnerProc], fds[RunnerProc], c) : Opening(c, o)
    BY <1>6 DEF PrintOpen
  <2>1. PICK o \in Open(ctx[RunnerProc], fds[RunnerProc], c) : Opening(c, o)
    BY <2>0
  <2>2. /\ o.made \in BOOLEAN
        /\ o.at \in Pid \cup {None, Half} /\ o.fds \in Nat
        /\ o.at \in Pid => o.fds > 0
        /\ o.res = "err" => o.at \in {None, Half}
    BY <1>0, OpenOutcome
  <2>3. Made(c, o.made) \in Buffer
    BY <1>0, <2>2, MadeBuffer
  <2>4. RestT
    BY <1>s, <1>0, <1>6, <2>1, <2>3 DEF PrintOpen, RestT, childVars
  <2>5. CASE o.res = "crash"
    BY <1>e, <1>r, <2>1, <2>4, <2>5
  <2>6. CASE o.res = "err"
    <3>1. "fail" \in {"ok", "fail"} /\ NextPrint("fail", o.at, o.fds)
      BY <2>1, <2>6
    <3>2. MainT
      BY <1>p, <2>2, <2>6, <3>1, Zenon
    <3>3. QED  BY <1>r, <2>4, <3>2
  <2>7. CASE o.res = "ok"
    <3>1. MainT
      BY <1>0, <2>1, <2>2, <2>7
         DEF TypeOK, LibTypeOK, FdsInv, MainT, Proc, Working, Rewound
    <3>2. QED  BY <1>r, <2>4, <3>1
  <2>8. QED  BY <2>1, <2>5, <2>6, <2>7
<1>7. CASE PrintRead
  <2>1. PICK d \in Pid, r \in Slots : /\ cur' = Append(cur, shm[d].slot[r])
                                      /\ rptr' = r + 1
    BY <1>7 DEF PrintRead
  <2>2. shm[d].slot[r] \in Event /\ r + 1 \in 0 .. MaxEvents
    BY <1>0, <2>1 DEF Buffer, Slots
  <2>3. cur' \in Seq(Event)
    BY <1>0, <2>1, <2>2
  <2>4. QED
    BY <1>7, <2>1, <2>2, <2>3
       DEF PrintRead, TypeOK, LibTypeOK, FdsInv, childVars
<1>8. CASE PrintEnd
  <2>1. out' \in Seq(Seq(Event))
    BY <1>0, <1>8 DEF PrintEnd
  <2>2. RestT
    BY <1>s, <1>8, <2>1 DEF PrintEnd, RestT, childVars
  <2>3. /\ AfterClose(ctx[RunnerProc], fds[RunnerProc]) \in Nat
        /\ None \in {None, Half}
    BY <1>0 DEF AfterClose
  <2>4. NextPrint(ret, None, AfterClose(ctx[RunnerProc], fds[RunnerProc]))
    BY <1>8 DEF PrintEnd
  <2>5. MainT
    BY <1>0, <1>p, <2>3, <2>4, Zenon
  <2>6. QED  BY <1>r, <2>2, <2>5
<1>9. CASE PrintWild
  <2>1. out' \in Seq(Seq(Event))
    <3>1. out' = out \/ out' = Append(out, cur)
      BY <1>9, Zenon DEF PrintWild
    <3>2. Append(out, cur) \in Seq(Seq(Event))
      BY <1>0
    <3>3. QED  BY <1>0, <3>1, <3>2, Zenon
  <2>2. RestT
    BY <1>s, <1>9, <2>1 DEF PrintWild, RestT, childVars
  <2>3. CASE RunnerExit("fail") /\ UNCHANGED i
    BY <1>e, <1>r, <2>2, <2>3
  <2>4. CASE NextPrint(ret, None, fds[RunnerProc])
    <3>1. None \in {None, Half}
      OBVIOUS
    <3>2. MainT
      BY <1>0, <1>p, <2>4, <3>1, Zenon
    <3>3. QED  BY <1>r, <2>2, <3>2
  <2>5. CASE /\ cur' = Append(cur, Blank)
             /\ UNCHANGED <<rpc, i, ret, ctx, fds, rptr, out>>
    <3>1. Blank \in Event
      BY DEF Blank, Event
    <3>2. cur' \in Seq(Event)
      BY <1>0, <2>5, <3>1
    <3>3. MainT
      BY <2>5, <3>2 DEF TypeOK, LibTypeOK, FdsInv, MainT
    <3>4. QED  BY <1>r, <2>2, <3>3
  <2>6. QED  BY <1>9, <2>3, <2>4, <2>5, Zenon DEF PrintWild
<1>10. CASE RunnerKilled
  <2>1. RestT
    BY <1>s, <1>10 DEF RunnerKilled, RestT, childVars
  <2>2. RunnerExit("fail") /\ UNCHANGED i
    BY <1>10, Zenon DEF RunnerKilled
  <2>3. QED  BY <1>e, <1>r, <2>1, <2>2
<1>11. QED
  BY <1>1, <1>2, <1>3, <1>4, <1>5, <1>6, <1>7, <1>8, <1>9, <1>10
     DEF RunnerStep

-----------------------------------------------------------------------------
LEMMA InitType ==
  ASSUME Init
  PROVE  TypeOK /\ FdsInv
<1>1. Absent \in Buffer
  BY DEF Absent, Buffer, Slots, Blank, Event
<1>2. QED
  BY <1>1 DEF Init, LibInit, TypeOK, LibTypeOK, FdsInv, NoKids, Idx, Slots,
              Mode, EventName, Working

(* The variables keep their types, and no descriptor is closed twice, in   *)
(* every run of the runner on any machine, whatever fails.                 *)
THEOREM TypeCorrect == Spec => [](TypeOK /\ FdsInv)
<1>1. Init => TypeOK /\ FdsInv
  BY InitType
<1>2. TypeOK /\ FdsInv /\ [Next]_vars => (TypeOK /\ FdsInv)'
  <2> SUFFICES ASSUME TypeOK, FdsInv, [Next]_vars  PROVE TypeOK' /\ FdsInv'
    OBVIOUS
  <2>1. CASE \E c \in Pid : ChildStep(c) \/ Kill(c) \/ Reap(c)
    BY <2>1, ChildType, Zenon
  <2>2. CASE \/ \E c \in Pid : Fork(c)
             \/ \E m \in Modes : Invoke(m)
             \/ ForkFails \/ WaitFails \/ RunnerStep \/ RunnerKilled
    BY <2>2, RunnerType, Zenon
  <2>3. CASE UNCHANGED vars
    BY <2>3 DEF TypeOK, LibTypeOK, FdsInv, vars, libVars, childVars, runnerVars
  <2>4. QED  BY <2>1, <2>2, <2>3, Zenon DEF Next, Finished
<1>3. QED  BY <1>1, <1>2, PTL DEF Spec

-----------------------------------------------------------------------------
(***************************************************************************)
(* The invariant of module RunnerInvariants holds in every run of the      *)
(* runner: one lemma per action, which says what the action leaves alone   *)
(* and that the actor's own part of the invariant holds after it.          *)
(***************************************************************************)
(* What a step of child c leaves alone: the runner, the other children and *)
(* their buffers, and its own existence, unless init reaps it.             *)
Frame(c) ==
  /\ UNCHANGED <<rptr, job, runnerVars>>
  /\ ctx'[RunnerProc] = ctx[RunnerProc]
  /\ \A d \in Pid \ {c} :
       /\ pc'[d] = pc[d] /\ ev'[d] = ev[d] /\ ctx'[d] = ctx[d]
       /\ pend'[d] = pend[d] /\ shm'[d] = shm[d]
       /\ d \in dirty' <=> d \in dirty
  /\ dirty \subseteq dirty'
  /\ pc[c] # "free"
  /\ pc'[c] = "free" => Orphan(c)

ChildOK(c) == CtxOK(c) /\ ScriptOK(c) /\ BufferOK(c)

(* The facts about child c that its steps need.                            *)
LEMMA ChildTypes ==
  ASSUME TypeOK, NEW c \in Pid
  PROVE  /\ pc[c] \in {"free"} \cup Alive \cup Ended
         /\ ev[c] \in EventName
         /\ job[c].run \in Nat /\ job[c].mode \in Mode
         /\ pend[c] \in Slots
         /\ shm[c] \in Buffer
         /\ shm \in [Pid -> Buffer]
         /\ c \in Proc /\ RunnerProc \in Proc /\ RunnerProc # c
         /\ ctx[c] \in Pid \cup {None, Half}
BY DEF TypeOK, LibTypeOK, Proc

(* The end of a process touches nothing of the others.                     *)
LEMMA ExitEffect ==
  ASSUME TypeOK, NEW c \in Pid, NEW how, Exit(c, how)
  PROVE  /\ pc'[c] = how /\ ctx'[c] = None /\ pend'[c] = 0
         /\ ev' = ev
         /\ ctx'[RunnerProc] = ctx[RunnerProc]
         /\ \A d \in Pid \ {c} : /\ pc'[d] = pc[d] /\ ctx'[d] = ctx[d]
                                 /\ pend'[d] = pend[d]
BY DEF TypeOK, LibTypeOK, Exit, Proc

LEMMA ReturnEffect ==
  ASSUME TypeOK, NEW c \in Pid, NEW where, NEW at, NEW n,
         Return(c, where, at, n)
  PROVE  /\ pc'[c] = where /\ pend'[c] = 0
         /\ where \in Ended => ctx'[c] = None
         /\ where \notin Ended => ctx'[c] = at
         /\ ev' = ev
         /\ ctx'[RunnerProc] = ctx[RunnerProc]
         /\ \A d \in Pid \ {c} : /\ pc'[d] = pc[d] /\ ctx'[d] = ctx[d]
                                 /\ pend'[d] = pend[d]
<1>1. CASE where \in Ended
  <2>1. Exit(c, where)
    BY <1>1, Zenon DEF Return
  <2>2. QED  BY <1>1, <2>1, ExitEffect
<1>2. CASE where \notin Ended
  <2>1. /\ pc' = [pc EXCEPT ![c] = where]
        /\ ctx' = [ctx EXCEPT ![c] = at]
        /\ pend' = [pend EXCEPT ![c] = 0]
        /\ ev' = ev
    BY <1>2, Zenon DEF Return
  <2>2. QED  BY <1>2, <2>1 DEF TypeOK, LibTypeOK, Proc
<1>3. QED  BY <1>1, <1>2

(* A child that ends with a failure or a signal keeps its invariant.       *)
LEMMA FailOK ==
  ASSUME NEW c \in Pid, pc'[c] \in {"fail", "signal"}, ctx'[c] = None
  PROVE  ChildOK(c)'
BY DEF ChildOK, CtxOK, ScriptOK, BufferOK, Ended

-----------------------------------------------------------------------------
(* run_child() before the exec: a child that could clear its buffer starts *)
(* from an empty one, in its own mapping.                                  *)
LEMMA ClearOK ==
  ASSUME TypeOK, NEW c \in Pid, ChildOK(c), Clear(c)
  PROVE  Frame(c) /\ ChildOK(c)'
<1>0. pc[c] = "clear" /\ UNCHANGED <<rptr, job, runnerVars>>
  BY DEF Clear
<1> DEFINE n == AfterClose(ctx[c], fds[c])
<1>1. PICK o \in Open(None, n, c) : Clear(c)!2!(o)
  BY DEF Clear
<1>2. n \in Nat /\ None \notin Pid
  BY <1>0 DEF CtxOK, ChildOK, AfterClose, TypeOK, LibTypeOK, Proc
<1> HIDE DEF n
<1>3. /\ o.made \in BOOLEAN /\ o.at \in Pid \cup {None, Half}
      /\ o.res = "ok" => o.at = c
      /\ o.res = "err" => o.at \in {None, Half}
      /\ o.res \in {"ok", "err", "crash"}
  BY <1>2, OpenOutcome
<1>4. Made(c, o.made) \in Buffer /\ Cleared(Made(c, o.made)).count = 0
  BY <1>3, ChildTypes, MadeBuffer, ClearedBuffer
<1>5. /\ \A d \in Pid \ {c} : shm'[d] = shm[d]
      /\ o.res = "ok" => shm'[c].count = 0
  BY <1>1, <1>4, ChildTypes
<1>6. CASE o.res = "crash"
  <2>1. Exit(c, "signal") /\ dirty' = dirty
    BY <1>1, <1>6
  <2>2. QED
    BY <1>0, <1>5, <2>1, ExitEffect, FailOK DEF Frame
<1>7. CASE o.res # "crash"
  <2>1. /\ dirty' = IF o.res = "err" THEN dirty \cup {c} ELSE dirty
        /\ ctx' = [ctx EXCEPT ![c] = o.at]
        /\ pc' = [pc EXCEPT ![c] = "add"]
        /\ ev' = [ev EXCEPT ![c] = "exec"]
        /\ UNCHANGED pend
    BY <1>1, <1>7
  <2>2. /\ pc'[c] = "add" /\ ev'[c] = "exec" /\ ctx'[c] = o.at
        /\ ctx'[RunnerProc] = ctx[RunnerProc]
        /\ \A d \in Pid \ {c} : pc'[d] = pc[d] /\ ev'[d] = ev[d] /\ ctx'[d] = ctx[d]
    BY <2>1 DEF TypeOK, LibTypeOK, Proc
  <2>3. Frame(c)
    BY <1>0, <1>5, <2>1, <2>2 DEF Frame
  <2>4. CtxOK(c)' /\ ScriptOK(c)'
    BY <1>3, <1>7, <2>1, <2>2 DEF CtxOK, ScriptOK, Ended
  <2>5. BufferOK(c)'
    BY <1>3, <1>5, <1>7, <2>1, <2>2 DEF BufferOK, Holds, Recorded, Nth
  <2>6. QED  BY <2>3, <2>4, <2>5 DEF ChildOK
<1>8. QED  BY <1>6, <1>7

(* Where shared_events_open() leaves the context of a child that adds.     *)
LEMMA AddOpens ==
  ASSUME TypeOK, FdsInv, NEW c \in Pid, ChildOK(c), pc[c] = "add",
         NEW o \in Open(ctx[c], fds[c], c)
  PROVE  /\ o.made \in BOOLEAN
         /\ o.res \in {"ok", "err", "crash"}
         /\ o.at \in {None, Half, c}
         /\ o.res # "crash" /\ o.at = Half => c \in dirty \/ o.res = "err"
         /\ o.res = "ok" /\ o.at \in Pid => o.at = c
         /\ o.res = "err" => ctx[c] = None
<1>1. /\ ctx[c] \in Pid \cup {None, Half} /\ fds[c] \in Nat
      /\ ctx[c] \in Pid => fds[c] > 0
      /\ ctx[c] \in {None, Half, c}
      /\ ctx[c] = Half => c \in dirty
  BY DEF ChildOK, CtxOK, TypeOK, LibTypeOK, FdsInv, Proc
<1>2. ASSUME NEW at \in Pid \cup {None, Half}, NEW n \in Nat,
             at \in Pid => n > 0, NEW q \in Open(at, n, c)
      PROVE  /\ q.res \in {"ok", "err", "crash"}
             /\ q.made \in BOOLEAN
             /\ q.at \in Pid \cup {None, Half}
             /\ at # None => q.res = "ok" /\ q.at = at
             /\ q.res = "ok" /\ at = None => q.at = c
             /\ q.res = "err" => q.at \in {None, Half}
             /\ q.res = "crash" => q.at = None
  BY <1>2, OpenOutcome
<1>3. /\ o.res \in {"ok", "err", "crash"}
      /\ o.made \in BOOLEAN
      /\ ctx[c] # None => o.res = "ok" /\ o.at = ctx[c]
      /\ o.res = "ok" /\ ctx[c] = None => o.at = c
      /\ o.res = "err" => o.at \in {None, Half}
      /\ o.res = "crash" => o.at = None
  BY <1>1, <1>2
<1>4. QED  BY <1>1, <1>3

(* shared_events_add() that does not reach a slot: a benchmark ends, and   *)
(* run_child() goes on only if its buffer was not cleared.                 *)
LEMMA AddFailsOK ==
  ASSUME TypeOK, FdsInv, NEW c \in Pid, ChildOK(c), AddFails(c)
  PROVE  Frame(c) /\ ChildOK(c)'
<1>0. /\ pc[c] = "add" /\ UNCHANGED <<rptr, job, dirty, runnerVars>>
      /\ pc[c] # "free"
  BY DEF AddFails
<1>1. PICK o \in Open(ctx[c], fds[c], c) : AddFails(c)!2!(o)
  BY DEF AddFails
<1>2. /\ o.made \in BOOLEAN
      /\ o.at \in {None, Half, c}
      /\ o.res = "ok" /\ o.at \in Pid => o.at = c
      /\ o.res = "err" => ctx[c] = None
  BY <1>0, AddOpens
<1>3. \A d \in Pid \ {c} : shm'[d] = shm[d]
  BY <1>1, ChildTypes
<1>4. CASE Exit(c, "signal")
  BY <1>0, <1>3, <1>4, ExitEffect, FailOK DEF Frame
<1>5. CASE /\ \/ o.res = "err"
              \/ o.res = "ok" /\ o.at \in Pid /\ Full(o.at)
           /\ Return(c, AfterFailedAdd(ev[c]), o.at, o.fds)
  <2>1. /\ pc'[c] = AfterFailedAdd(ev[c])
        /\ AfterFailedAdd(ev[c]) \in Ended => ctx'[c] = None
        /\ AfterFailedAdd(ev[c]) \notin Ended => ctx'[c] = o.at
        /\ ctx'[RunnerProc] = ctx[RunnerProc]
        /\ ev' = ev
        /\ \A d \in Pid \ {c} : /\ pc'[d] = pc[d] /\ ctx'[d] = ctx[d]
                                /\ pend'[d] = pend[d]
    <3>1. ASSUME NEW where, NEW at, NEW n, Return(c, where, at, n)
          PROVE  /\ pc'[c] = where
                 /\ where \in Ended => ctx'[c] = None
                 /\ where \notin Ended => ctx'[c] = at
                 /\ ctx'[RunnerProc] = ctx[RunnerProc]
                 /\ ev' = ev
                 /\ \A d \in Pid \ {c} : /\ pc'[d] = pc[d] /\ ctx'[d] = ctx[d]
                                         /\ pend'[d] = pend[d]
      BY <3>1, ReturnEffect
    <3>2. Return(c, AfterFailedAdd(ev[c]), o.at, o.fds)
      BY <1>5
    <3>3. QED  BY <3>1, <3>2
  <2>2. Frame(c)
    BY <1>0, <1>3, <2>1 DEF Frame, AfterFailedAdd
  <2>3. CASE ev[c] = "exec"
    <3>1. c \in dirty
      <4> SUFFICES ASSUME c \notin dirty  PROVE FALSE
        OBVIOUS
      <4>1. ctx[c] = c /\ shm[c].count = 0
        BY <1>0, <2>3 DEF ChildOK, CtxOK, BufferOK, Holds, Recorded, Nth
      <4>2. Full(c)
        BY <1>2, <1>5, <4>1
      <4>3. QED  BY <4>1, <4>2 DEF Full
    <3>2. pc'[c] = "execv" /\ ctx'[c] \in {None, Half, c} /\ c \in dirty'
      BY <1>0, <1>2, <2>1, <2>3, <3>1 DEF AfterFailedAdd, Ended
    <3>3. ChildOK(c)'
      BY <3>2 DEF ChildOK, CtxOK, ScriptOK, BufferOK, Ended
    <3>4. QED  BY <2>2, <3>3
  <2>4. CASE ev[c] # "exec"
    <3>1. pc'[c] = "fail" /\ ctx'[c] = None
      BY <2>1, <2>4 DEF AfterFailedAdd, Ended
    <3>2. QED  BY <2>2, <3>1, FailOK
  <2>5. QED  BY <2>3, <2>4
<1>6. QED  BY <1>1, <1>4, <1>5, Zenon

(* A clock_gettime() that fails ends a benchmark; run_child() goes on, and *)
(* its child is not clean any more.                                        *)
LEMMA ClockFailsOK ==
  ASSUME TypeOK, NEW c \in Pid, ChildOK(c), ClockFails(c) \/ StampFails(c)
  PROVE  Frame(c) /\ ChildOK(c)'
<1>0. /\ pc[c] # "free" /\ UNCHANGED <<shm, rptr, job, runnerVars>>
      /\ ctx[c] \in {None, Half, c}
      /\ dirty' = dirty \/ (dirty' = dirty \cup {c} /\ ev[c] = "exec")
      /\ ev[c] = "exec" => c \in dirty'
  BY DEF ClockFails, StampFails, ChildOK, CtxOK
<1>1. Return(c, AfterFailedAdd(ev[c]), ctx[c], fds[c])
  BY DEF ClockFails, StampFails
<1>2. /\ pc'[c] = AfterFailedAdd(ev[c])
      /\ AfterFailedAdd(ev[c]) \in Ended => ctx'[c] = None
      /\ AfterFailedAdd(ev[c]) \notin Ended => ctx'[c] = ctx[c]
      /\ ctx'[RunnerProc] = ctx[RunnerProc]
      /\ ev' = ev
      /\ \A d \in Pid \ {c} : /\ pc'[d] = pc[d] /\ ctx'[d] = ctx[d]
                              /\ pend'[d] = pend[d]
  BY <1>1, ReturnEffect, Zenon
<1>3. Frame(c)
  BY <1>0, <1>2 DEF Frame, AfterFailedAdd
<1>4. CASE ev[c] = "exec"
  <2>1. pc'[c] = "execv" /\ ctx'[c] \in {None, Half, c} /\ c \in dirty'
    BY <1>0, <1>2, <1>4 DEF AfterFailedAdd, Ended
  <2>2. ChildOK(c)'
    BY <2>1 DEF ChildOK, CtxOK, ScriptOK, BufferOK, Ended
  <2>3. QED  BY <1>3, <2>2
<1>5. CASE ev[c] # "exec"
  <2>1. pc'[c] = "fail" /\ ctx'[c] = None
    BY <1>2, <1>5 DEF AfterFailedAdd, Ended
  <2>2. QED  BY <1>3, <2>1, FailOK
<1>6. QED  BY <1>4, <1>5

(* Adding through a context without a mapping happens only to a child that *)
(* could not clear its buffer.                                             *)
LEMMA AddWildOK ==
  ASSUME TypeOK, NEW c \in Pid, ChildOK(c), AddWild(c)
  PROVE  Frame(c) /\ ChildOK(c)'
<1>0. /\ pc[c] = "add" /\ UNCHANGED <<shm, rptr, job, dirty, runnerVars>>
      /\ pc[c] # "free" /\ c \in dirty /\ ev[c] \in EventName
  BY ChildTypes DEF AddWild, ChildOK, CtxOK
<1>1. CASE Exit(c, "signal")
  BY <1>0, <1>1, ExitEffect, FailOK DEF Frame
<1>2. CASE ~Exit(c, "signal")
  <2>1. PICK where \in {AfterAdd(ev[c]), AfterFailedAdd(ev[c])} :
          Return(c, where, Half, fds[c])
    BY <1>2, Zenon DEF AddWild
  <2>2. /\ pc'[c] = where
        /\ where \in Ended => ctx'[c] = None
        /\ where \notin Ended => ctx'[c] = Half
        /\ ctx'[RunnerProc] = ctx[RunnerProc]
        /\ ev' = ev
        /\ \A d \in Pid \ {c} : /\ pc'[d] = pc[d] /\ ctx'[d] = ctx[d]
                                /\ pend'[d] = pend[d]
    BY <2>1, ReturnEffect, Zenon
  <2>3. /\ where \in {"execv", "args", "loop", "ok", "fail"}
        /\ where = "loop" => ev[c] = "start"
        /\ where = "ok" => ev[c] = "end"
    BY <1>0, <2>1 DEF AfterAdd, AfterFailedAdd, EventName
  <2>4. Frame(c)
    BY <1>0, <2>2, <2>3 DEF Frame
  <2>5. ChildOK(c)'
    BY <1>0, <2>2, <2>3 DEF ChildOK, CtxOK, ScriptOK, BufferOK, Ended
  <2>6. QED  BY <2>4, <2>5
<1>3. QED  BY <1>1, <1>2

(* shared_events_add() up to count++: the event comes after those the      *)
(* buffer of a clean child holds, and only its timestamp is missing.       *)
LEMMA AddOK ==
  ASSUME TypeOK, FdsInv, NEW c \in Pid, ChildOK(c), Add(c)
  PROVE  Frame(c) /\ ChildOK(c)'
<1>0. /\ pc[c] = "add" /\ UNCHANGED <<rptr, ev, job, dirty, runnerVars>>
      /\ pc[c] # "free" /\ ev[c] \in EventName /\ job[c].run \in Nat
  BY ChildTypes DEF Add
<1>1. PICK o \in Open(ctx[c], fds[c], c) : Add(c)!2!(o)
  BY DEF Add
<1>2. o.at = c
  BY <1>0, <1>1, AddOpens
<1> DEFINE b == [shm[c] EXCEPT !.exists = TRUE]
<1>3. b \in Buffer /\ b.count = shm[c].count /\ b.slot = shm[c].slot
  BY ChildTypes DEF Buffer
<1>4. shm' = [shm EXCEPT ![c] = Appended(b, ev[c], c, job[c].run)]
  BY <1>1, <1>2
<1>5. b.count # MaxEvents
  BY <1>1, <1>2, <1>3 DEF Full
<1> HIDE DEF b
<1>6. /\ shm'[c].count = shm[c].count + 1
      /\ \A j \in Slots : j # shm[c].count => shm'[c].slot[j] = shm[c].slot[j]
      /\ shm'[c].slot[shm[c].count].name = ev[c]
      /\ shm'[c].slot[shm[c].count].by = c
      /\ shm'[c].slot[shm[c].count].born = job[c].run
      /\ \A d \in Pid \ {c} : shm'[d] = shm[d]
      /\ shm[c].count \in Slots
  <2>1. ev[c] \in EventName /\ job[c].run \in Nat /\ b \in Buffer
    BY <1>0, <1>3
  <2>2. shm'[c] = Appended(b, ev[c], c, job[c].run)
    BY <1>4, ChildTypes
  <2>3. \A d \in Pid \ {c} : shm'[d] = shm[d]
    BY <1>4, ChildTypes
  <2> DEFINE a == Appended(b, ev[c], c, job[c].run)
  <2>4. /\ b.count \in Slots /\ a.count = b.count + 1
        /\ \A j \in Slots : j # b.count => a.slot[j] = b.slot[j]
        /\ a.slot[b.count].name = ev[c]
        /\ a.slot[b.count].by = c /\ a.slot[b.count].born = job[c].run
    BY <1>5, <2>1, AppendedBuffer
  <2>5. shm'[c] = a
    BY <2>2
  <2> HIDE DEF a
  <2>. QED BY <1>3, <2>3, <2>4, <2>5
<1>7. /\ pc'[c] = "stamp" /\ ctx'[c] = c /\ pend'[c] = shm[c].count
      /\ ctx'[RunnerProc] = ctx[RunnerProc]
      /\ \A d \in Pid \ {c} : /\ pc'[d] = pc[d] /\ ctx'[d] = ctx[d]
                              /\ pend'[d] = pend[d]
  BY <1>1, <1>2 DEF TypeOK, LibTypeOK, Proc
<1>8. Frame(c)
  BY <1>0, <1>6, <1>7 DEF Frame
<1>9. CtxOK(c)' /\ ScriptOK(c)'
  BY <1>0, <1>7 DEF ChildOK, CtxOK, ScriptOK, Ended
<1>10. BufferOK(c)'
  <2> SUFFICES ASSUME c \notin dirty  PROVE BufferOK(c)'
    BY <1>0 DEF BufferOK
  <2> DEFINE k == Nth(ev[c])
  <2>1. k \in 1 .. 4 /\ EventAt[k] = ev[c]
    BY <1>0 DEF Nth, EventAt, EventName
  <2>2. /\ shm[c].count = k - 1
        /\ \A j \in 1 .. (k - 1) : shm[c].slot[j - 1] = Genuine(j, c, job[c].run)
    BY <1>0 DEF ChildOK, BufferOK, Holds, Recorded
  <2>3. \A j \in 1 .. (k - 1) : j - 1 \in Slots /\ j - 1 # shm[c].count
    BY <1>6, <2>1, <2>2 DEF Slots
  <2>4. Recorded(c)' = k /\ job' = job
    BY <1>0, <1>7 DEF Recorded
  <2> HIDE DEF k
  <2>5. \A j \in 1 .. (k - 1) : shm'[c].slot[j - 1] = Genuine(j, c, job[c].run)
    BY <1>6, <2>2, <2>3
  <2>6. /\ shm'[c].count = k
        /\ pend'[c] = k - 1
        /\ shm'[c].slot[k - 1].name = EventAt[k]
        /\ shm'[c].slot[k - 1].by = c
        /\ shm'[c].slot[k - 1].born = job[c].run
    BY <1>6, <1>7, <2>1, <2>2
  <2>7. QED  BY <1>7, <2>4, <2>5, <2>6 DEF BufferOK, Named
<1>11. QED  BY <1>8, <1>9, <1>10 DEF ChildOK

(* The timestamp completes the event.                                      *)
LEMMA StampOK ==
  ASSUME TypeOK, NEW c \in Pid, ChildOK(c), Stamp(c)
  PROVE  Frame(c) /\ ChildOK(c)'
<1>0. /\ pc[c] = "stamp" /\ UNCHANGED <<rptr, job, dirty, runnerVars>>
      /\ pc[c] # "free" /\ ev[c] \in EventName /\ job[c].run \in Nat
      /\ ctx[c] = c /\ pend[c] \in Slots
  BY ChildTypes DEF Stamp, ChildOK, CtxOK
<1>1. shm' = [shm EXCEPT ![c].slot[pend[c]].stamp = job[c].run]
  BY <1>0 DEF Stamp
<1>2. /\ \A d \in Pid \ {c} : shm'[d] = shm[d]
      /\ shm'[c].count = shm[c].count
      /\ \A j \in Slots : j # pend[c] => shm'[c].slot[j] = shm[c].slot[j]
      /\ shm'[c].slot[pend[c]]
           = [shm[c].slot[pend[c]] EXCEPT !.stamp = job[c].run]
  BY <1>0, <1>1, ChildTypes DEF Buffer
<1> DEFINE where == AfterAdd(ev[c])
<1>3. /\ pc'[c] = where
      /\ where \in Ended => ctx'[c] = None
      /\ where \notin Ended => ctx'[c] = c
      /\ ctx'[RunnerProc] = ctx[RunnerProc]
      /\ ev' = ev
      /\ \A d \in Pid \ {c} : /\ pc'[d] = pc[d] /\ ctx'[d] = ctx[d]
                              /\ pend'[d] = pend[d]
  <2>1. ASSUME NEW w, NEW at, NEW n, Return(c, w, at, n)
        PROVE  /\ pc'[c] = w
               /\ w \in Ended => ctx'[c] = None
               /\ w \notin Ended => ctx'[c] = at
               /\ ctx'[RunnerProc] = ctx[RunnerProc]
               /\ ev' = ev
               /\ \A d \in Pid \ {c} : /\ pc'[d] = pc[d] /\ ctx'[d] = ctx[d]
                                       /\ pend'[d] = pend[d]
    BY <2>1, ReturnEffect
  <2>2. Return(c, where, ctx[c], fds[c])
    BY DEF Stamp
  <2>3. QED  BY <1>0, <2>1, <2>2
<1>4. /\ where \in {"execv", "args", "loop", "ok"}
      /\ where = "loop" => ev[c] = "start"
      /\ where = "ok" => ev[c] = "end"
  BY <1>0 DEF AfterAdd, EventName
<1>5. Frame(c)
  BY <1>0, <1>2, <1>3, <1>4 DEF Frame
<1>6. CtxOK(c)' /\ ScriptOK(c)'
  BY <1>0, <1>3, <1>4 DEF ChildOK, CtxOK, ScriptOK, Ended
<1>7. BufferOK(c)'
  <2> SUFFICES ASSUME c \notin dirty  PROVE BufferOK(c)'
    BY <1>0 DEF BufferOK
  <2> DEFINE k == Nth(ev[c])
  <2>1. k \in 1 .. 4
    BY <1>0 DEF Nth, EventName
  <2>2. /\ shm[c].count = k
        /\ pend[c] = k - 1
        /\ \A j \in 1 .. (k - 1) : shm[c].slot[j - 1] = Genuine(j, c, job[c].run)
        /\ Named(c, k, job[c].run)
    BY <1>0 DEF ChildOK, BufferOK, Recorded
  <2>3. Recorded(c)' = k /\ job' = job
    BY <1>0, <1>3 DEF Recorded, ScriptLen, AfterAdd, Nth, EventName, ChildOK, ScriptOK
  <2> HIDE DEF k
  <2>4. shm'[c].slot[k - 1] = Genuine(k, c, job[c].run)
    <3>1. shm[c].slot[pend[c]] \in Event
      BY <1>0, ChildTypes DEF Buffer
    <3>2. ASSUME NEW e \in Event, NEW r \in Nat
          PROVE  [e EXCEPT !.stamp = r] = [name |-> e.name, by |-> e.by,
                                           born |-> e.born, stamp |-> r]
      <4> DEFINE f == [e EXCEPT !.stamp = r]
      <4>1. f \in Event
        BY DEF Event
      <4>2. f.name = e.name /\ f.by = e.by /\ f.born = e.born /\ f.stamp = r
        BY DEF Event
      <4> HIDE DEF f
      <4>3. f = [name |-> f.name, by |-> f.by, born |-> f.born, stamp |-> f.stamp]
        BY <4>1 DEF Event
      <4>4. QED  BY <4>2, <4>3 DEF f
    <3>3. shm'[c].slot[pend[c]] = [name |-> shm[c].slot[pend[c]].name,
                                   by |-> shm[c].slot[pend[c]].by,
                                   born |-> shm[c].slot[pend[c]].born,
                                   stamp |-> job[c].run]
      BY <1>0, <1>2, <3>1, <3>2
    <3>4. QED  BY <2>2, <3>3 DEF Named, Genuine
  <2>5. \A j \in 1 .. k : shm'[c].slot[j - 1] = Genuine(j, c, job[c].run)
    <3>1. ASSUME NEW j \in 1 .. (k - 1)
          PROVE  shm'[c].slot[j - 1] = Genuine(j, c, job[c].run)
      <4>1. j - 1 \in Slots /\ j - 1 # pend[c]
        BY <1>0, <2>1, <2>2 DEF Slots
      <4>2. shm'[c].slot[j - 1] = shm[c].slot[j - 1]
        BY <1>2, <4>1
      <4>3. QED  BY <2>2, <4>2
    <3>2. QED  BY <2>1, <2>4, <3>1
  <2>6. Holds(c, Recorded(c), job[c].run)'
    BY <1>2, <2>2, <2>3, <2>5 DEF Holds
  <2>7. QED  BY <1>3, <1>4, <2>6 DEF BufferOK
<1>8. QED  BY <1>5, <1>6, <1>7 DEF ChildOK

(* execv(): the benchmark starts with no context.                          *)
LEMMA ExecOK ==
  ASSUME TypeOK, NEW c \in Pid, ChildOK(c), Exec(c)
  PROVE  Frame(c) /\ ChildOK(c)'
<1>1. /\ pc[c] = "execv" /\ pc'[c] = "add" /\ ev'[c] = "main"
      /\ ctx'[c] = None
      /\ ctx'[RunnerProc] = ctx[RunnerProc]
      /\ \A d \in Pid \ {c} : pc'[d] = pc[d] /\ ev'[d] = ev[d] /\ ctx'[d] = ctx[d]
      /\ UNCHANGED <<shm, rptr, pend, job, dirty, runnerVars>>
  BY DEF Exec, TypeOK, LibTypeOK, Proc
<1>2. Frame(c)
  BY <1>1 DEF Frame
<1>3. CtxOK(c)' /\ ScriptOK(c)'
  BY <1>1 DEF CtxOK, ScriptOK, Ended
<1>4. BufferOK(c)'
  BY <1>1 DEF ChildOK, BufferOK, Holds, Recorded, Nth
<1>5. QED  BY <1>2, <1>3, <1>4 DEF ChildOK

(* The arguments decide how many events there will be.                     *)
LEMMA ArgsOK ==
  ASSUME TypeOK, NEW c \in Pid, ChildOK(c), Args(c)
  PROVE  Frame(c) /\ ChildOK(c)'
<1>0. pc[c] = "args" /\ UNCHANGED <<shm, rptr, job, dirty, runnerVars>>
  BY DEF Args
<1>1. CASE Exit(c, "fail")
  BY <1>0, <1>1, ExitEffect, FailOK DEF Frame
<1>2. CASE job[c].mode = "startup" /\ Exit(c, "ok")
  <2>1. /\ pc'[c] = "ok" /\ ctx'[c] = None /\ ev' = ev
        /\ ctx'[RunnerProc] = ctx[RunnerProc]
        /\ \A d \in Pid \ {c} : /\ pc'[d] = pc[d] /\ ctx'[d] = ctx[d]
                                /\ pend'[d] = pend[d]
    BY <1>2, ExitEffect
  <2>2. Frame(c)
    BY <1>0, <2>1 DEF Frame
  <2>3. CtxOK(c)' /\ ScriptOK(c)'
    BY <1>0, <1>2, <2>1 DEF CtxOK, ScriptOK, Ended
  <2>4. BufferOK(c)'
    BY <1>0, <1>2, <2>1 DEF ChildOK, BufferOK, Holds, Recorded, ScriptLen
  <2>5. QED  BY <2>2, <2>3, <2>4 DEF ChildOK
<1>3. CASE /\ job[c].mode = "loops"
           /\ pc' = [pc EXCEPT ![c] = "add"]
           /\ ev' = [ev EXCEPT ![c] = "start"]
           /\ UNCHANGED <<ctx, fds, pend>>
  <2>1. /\ pc'[c] = "add" /\ ev'[c] = "start"
        /\ \A d \in Pid \ {c} : pc'[d] = pc[d] /\ ev'[d] = ev[d]
    BY <1>3 DEF TypeOK
  <2>2. Frame(c)
    BY <1>0, <1>3, <2>1 DEF Frame
  <2>3. CtxOK(c)' /\ ScriptOK(c)'
    BY <1>0, <1>3, <2>1 DEF ChildOK, CtxOK, ScriptOK, Ended
  <2>4. BufferOK(c)'
    BY <1>0, <1>3, <2>1 DEF ChildOK, BufferOK, Holds, Recorded, Nth
  <2>5. QED  BY <2>2, <2>3, <2>4 DEF ChildOK
<1>4. QED  BY <1>1, <1>2, <1>3, Zenon DEF Args

LEMMA LoopOK ==
  ASSUME TypeOK, NEW c \in Pid, ChildOK(c), Loop(c)
  PROVE  Frame(c) /\ ChildOK(c)'
<1>1. /\ pc[c] = "loop" /\ pc'[c] = "add" /\ ev'[c] = "end"
      /\ \A d \in Pid \ {c} : pc'[d] = pc[d] /\ ev'[d] = ev[d]
      /\ UNCHANGED <<shm, ctx, rptr, fds, pend, job, dirty, runnerVars>>
  BY DEF Loop, TypeOK, libVars
<1>2. Frame(c)
  BY <1>1 DEF Frame
<1>3. CtxOK(c)' /\ ScriptOK(c)'
  BY <1>1 DEF ChildOK, CtxOK, ScriptOK, Ended
<1>4. BufferOK(c)'
  BY <1>1 DEF ChildOK, BufferOK, Holds, Recorded, Nth
<1>5. QED  BY <1>2, <1>3, <1>4 DEF ChildOK

(* A child may fail to exec, or die, anywhere.                             *)
LEMMA DieOK ==
  ASSUME TypeOK, NEW c \in Pid, ChildOK(c), ExecFails(c) \/ Kill(c)
  PROVE  Frame(c) /\ ChildOK(c)'
<1>1. /\ pc[c] # "free"
      /\ UNCHANGED <<shm, rptr, job, dirty, runnerVars>>
      /\ Exit(c, "fail") \/ Exit(c, "signal")
  BY DEF ExecFails, Kill, Alive
<1>2. QED  BY <1>1, ExitEffect, FailOK DEF Frame

LEMMA ReapOK ==
  ASSUME TypeOK, NEW c \in Pid, ChildOK(c), Reap(c)
  PROVE  Frame(c) /\ ChildOK(c)'
<1>1. /\ pc[c] \in Ended /\ pc'[c] = "free" /\ Orphan(c)
      /\ \A d \in Pid \ {c} : pc'[d] = pc[d]
      /\ UNCHANGED <<shm, ctx, rptr, fds, pend, ev, job, dirty, runnerVars>>
  BY DEF Reap, TypeOK, libVars
<1>2. Frame(c)
  BY <1>1 DEF Frame, Ended
<1>3. ChildOK(c)'
  BY <1>1 DEF ChildOK, CtxOK, ScriptOK, BufferOK, Ended
<1>4. QED  BY <1>2, <1>3

(* Every step of a child.                                                  *)
LEMMA ChildStepOK ==
  ASSUME TypeOK, FdsInv, NEW c \in Pid, ChildOK(c),
         ChildStep(c) \/ Kill(c) \/ Reap(c)
  PROVE  Frame(c) /\ ChildOK(c)'
BY ClearOK, AddOK, AddFailsOK, AddWildOK, ClockFailsOK, StampOK, ExecOK, ArgsOK, LoopOK,
   DieOK, ReapOK, Zenon DEF ChildStep

-----------------------------------------------------------------------------
(* A step that changes neither a child nor what its buffer holds keeps its *)
(* invariant.                                                              *)
LEMMA SameChild ==
  ASSUME NEW c \in Pid, ChildOK(c),
         pc'[c] = pc[c], ev'[c] = ev[c], ctx'[c] = ctx[c],
         pend'[c] = pend[c], job'[c] = job[c], c \in dirty' <=> c \in dirty,
         shm'[c].count = shm[c].count, shm'[c].slot = shm[c].slot
  PROVE  ChildOK(c)'
<1>1. CtxOK(c)' /\ ScriptOK(c)'
  BY DEF ChildOK, CtxOK, ScriptOK
<1>2. BufferOK(c)'
  BY DEF ChildOK, BufferOK, Holds, Named, Recorded
<1>3. QED  BY <1>1, <1>2 DEF ChildOK

(* A step of a child keeps the whole invariant: by Frame it disturbs       *)
(* nobody, a child that was waited for takes no steps, and one that was    *)
(* not is not reaped by init while its runner works.                       *)
LEMMA ChildInvStep ==
  ASSUME Inv, NEW c \in Pid, ChildStep(c) \/ Kill(c) \/ Reap(c)
  PROVE  Inv'
<1>0. /\ TypeOK /\ FdsInv /\ ChildInv /\ KidsInv /\ RunnerCtxInv /\ OutInv
      /\ \A d \in Pid : ChildOK(d)
  BY DEF Inv, ChildInv, ChildOK
<1>1. Frame(c) /\ ChildOK(c)'
  BY <1>0, ChildStepOK
<1>2. TypeOK' /\ FdsInv'
  BY <1>0, ChildType
<1>3. ChildInv'
  <2>1. ASSUME NEW d \in Pid  PROVE ChildOK(d)'
    <3>1. CASE d = c
      BY <1>1, <3>1
    <3>2. CASE d # c
      <4>1. /\ pc'[d] = pc[d] /\ ev'[d] = ev[d] /\ ctx'[d] = ctx[d]
            /\ pend'[d] = pend[d] /\ job'[d] = job[d]
            /\ d \in dirty' <=> d \in dirty
            /\ shm'[d] = shm[d]
        BY <1>1, <3>2 DEF Frame
      <4>2. QED  BY <1>0, <4>1, SameChild
    <3>3. QED  BY <3>1, <3>2
  <2>2. QED  BY <2>1, Zenon DEF ChildInv, ChildOK
<1>4. /\ UNCHANGED <<rptr, job, rpc, run, mode, kids, i, ret, cur, out>>
      /\ ctx'[RunnerProc] = ctx[RunnerProc]
  BY <1>1 DEF Frame, runnerVars
<1>5. \A k \in Idx : Finalized(k) => /\ kids[k] # c
                                     /\ kids[k] \in Pid
                                     /\ shm'[kids[k]] = shm[kids[k]]
                                     /\ kids[k] \in dirty' <=> kids[k] \in dirty
                                     /\ Finalized(k)'
  BY <1>1, <1>4 DEF Frame, Finalized, Holds
<1>6. \A k \in Idx : rpc \in Working /\ Started(k) => Started(k)'
  BY <1>1, <1>4 DEF Frame, Started, Orphan
<1>7. KidsInv'
  BY <1>0, <1>4, <1>5, <1>6 DEF KidsInv, Working
<1>8. RunnerCtxInv'
  BY <1>0, <1>4 DEF RunnerCtxInv
<1>9. \A k \in Idx : Printed(k) => Printed(k)'
  BY <1>1, <1>4 DEF Frame, Printed
<1>10. OutInv'
  <2>1. i \in Idx /\ Idx = 1 .. NProcs
    BY <1>0 DEF TypeOK, Idx
  <2>2. rpc = "read" => shm'[kids[i]] = shm[kids[i]]
    BY <1>0, <1>5, <2>1 DEF KidsInv
  <2>3. \A k \in 1 .. (i - 1) : k \in Idx
    BY <2>1
  <2>4. QED  BY <1>0, <1>4, <1>9, <2>2, <2>3 DEF OutInv
<1>11. QED  BY <1>2, <1>3, <1>7, <1>8, <1>10 DEF Inv

-----------------------------------------------------------------------------
(* What most steps of the runner leave alone: the children, and what their *)
(* buffers hold.                                                           *)
Untouched ==
  /\ UNCHANGED <<pend, pc, ev, job, dirty, run, mode, kids>>
  /\ \A d \in Pid : /\ ctx'[d] = ctx[d]
                    /\ shm'[d].count = shm[d].count
                    /\ shm'[d].slot = shm[d].slot

LEMMA UntouchedOK ==
  ASSUME Inv, Untouched
  PROVE  /\ ChildInv'
         /\ \A k \in Idx : Started(k) => Started(k)'
         /\ \A k \in Idx : Finalized(k) => Finalized(k)'
         /\ \A k : Printed(k) /\ out'[k] = out[k] => Printed(k)'
<1>1. ASSUME NEW d \in Pid  PROVE ChildOK(d)'
  BY SameChild DEF Inv, ChildInv, ChildOK, Untouched
<1>2. ChildInv'
  BY <1>1, Zenon DEF ChildInv, ChildOK
<1>3. \A k \in Idx : Started(k) => Started(k)'
  BY DEF Untouched, Started
<1>4. \A k \in Idx : Finalized(k) => Finalized(k)'
  BY DEF Untouched, Finalized, Holds
<1>5. \A k : Printed(k) /\ out'[k] = out[k] => Printed(k)'
  BY DEF Untouched, Printed
<1>6. QED  BY <1>2, <1>3, <1>4, <1>5

LEMMA SameShm ==
  ASSUME TypeOK, UNCHANGED shm
  PROVE  \A d \in Pid : shm'[d].count = shm[d].count /\ shm'[d].slot = shm[d].slot
OBVIOUS

(* The invariant without the types.                                        *)
Rest == ChildInv /\ KidsInv /\ RunnerCtxInv /\ OutInv

(* The runner ends with a failure: nothing is promised of its output.      *)
LEMMA RunnerExitOK ==
  ASSUME Inv, RunnerExit("fail"),
         UNCHANGED <<pend, pc, ev, job, dirty, run, mode, kids>>,
         \A d \in Pid : shm'[d].count = shm[d].count /\ shm'[d].slot = shm[d].slot
  PROVE  Rest'
<1>1. /\ rpc' = "done" /\ ret' = "fail" /\ cur' = <<>>
      /\ ctx'[RunnerProc] = None
      /\ \A d \in Pid : ctx'[d] = ctx[d]
  BY DEF RunnerExit, Inv, TypeOK, LibTypeOK, Proc
<1>2. ChildInv'
  BY <1>1, UntouchedOK DEF Untouched
<1>3. KidsInv'
  BY <1>1 DEF Inv, KidsInv
<1>4. RunnerCtxInv' /\ OutInv'
  BY <1>1 DEF RunnerCtxInv, OutInv
<1>5. QED  BY <1>2, <1>3, <1>4 DEF Rest

(* The loops of main() go on after a failure, and end with one.            *)
LEMMA NextWaitFailOK ==
  ASSUME Inv, rpc = "wait", NextWait("fail"),
         UNCHANGED <<pend, pc, ev, job, dirty, run, mode, kids, out, shm>>
  PROVE  Rest'
<1>0. /\ TypeOK /\ KidsInv /\ RunnerCtxInv /\ OutInv
      /\ i \in Idx
  BY DEF Inv, TypeOK
<1>1. CASE i < NProcs
  <2>1. /\ i' = i + 1 /\ ret' = "fail"
        /\ UNCHANGED <<rpc, ctx, fds, rptr, cur>>
    BY <1>1 DEF NextWait
  <2>2. Untouched
    BY <2>1 DEF Untouched
  <2>3. KidsInv'
    BY <1>0, <2>1, <2>2, UntouchedOK DEF KidsInv, Idx
  <2>4. RunnerCtxInv' /\ OutInv'
    BY <1>0, <2>1 DEF RunnerCtxInv, OutInv
  <2>5. QED  BY <2>2, <2>3, <2>4, UntouchedOK DEF Rest
<1>2. CASE ~(i < NProcs)
  <2>1. RunnerExit("fail")
    BY <1>2 DEF NextWait
  <2>2. QED  BY <1>0, <2>1, SameShm, RunnerExitOK
<1>3. QED  BY <1>1, <1>2

LEMMA NextPrintFailOK ==
  ASSUME Inv, rpc \in {"open", "read"}, NEW at \in {None, Half}, NEW n,
         NextPrint("fail", at, n),
         UNCHANGED <<pend, pc, ev, job, dirty, run, mode, kids>>,
         \A d \in Pid : shm'[d].count = shm[d].count /\ shm'[d].slot = shm[d].slot
  PROVE  Rest'
<1>0. /\ TypeOK /\ KidsInv /\ i \in Idx
  BY DEF Inv, TypeOK
<1>1. CASE i < NProcs
  <2>1. /\ i' = i + 1 /\ rpc' = "open" /\ ret' = "fail" /\ cur' = <<>>
        /\ ctx'[RunnerProc] = at
        /\ \A d \in Pid : ctx'[d] = ctx[d]
    BY <1>0, <1>1 DEF NextPrint, TypeOK, LibTypeOK, Proc
  <2>2. Untouched
    BY <2>1 DEF Untouched
  <2>3. KidsInv'
    BY <1>0, <2>1, <2>2, UntouchedOK DEF KidsInv
  <2>4. RunnerCtxInv' /\ OutInv'
    BY <2>1 DEF RunnerCtxInv, OutInv
  <2>5. QED  BY <2>2, <2>3, <2>4, UntouchedOK DEF Rest
<1>2. CASE ~(i < NProcs)
  <2>1. RunnerExit("fail")
    BY <1>2 DEF NextPrint
  <2>2. QED  BY <2>1, RunnerExitOK
<1>3. QED  BY <1>1, <1>2

-----------------------------------------------------------------------------
(* A new run forgets the children of the last.                             *)
LEMMA InvokeOK ==
  ASSUME Inv, NEW m \in Modes, Invoke(m)
  PROVE  Rest'
<1>0. TypeOK /\ RunnerCtxInv /\ OutInv /\ ChildInv
  BY DEF Inv
<1>1. /\ rpc \in {"off", "done"} /\ rpc' = "fork" /\ kids' = NoKids
      /\ i' = 1 /\ ret' = "ok" /\ out' = <<>>
      /\ UNCHANGED <<shm, ctx, rptr, fds, pend, pc, ev, job, dirty, cur>>
  BY DEF Invoke, libVars, childVars
<1>2. ChildInv'
  <2>1. ASSUME NEW d \in Pid  PROVE ChildOK(d)'
    BY <1>0, <1>1, SameChild DEF ChildInv, ChildOK
  <2>2. QED  BY <2>1, Zenon DEF ChildInv, ChildOK
<1>3. KidsInv'
  BY <1>1 DEF KidsInv, NoKids, Idx
<1>4. RunnerCtxInv' /\ OutInv'
  BY <1>0, <1>1 DEF RunnerCtxInv, OutInv
<1>5. QED  BY <1>2, <1>3, <1>4 DEF Rest

(* A pid that is handed out belongs to no other child of the run, and the  *)
(* child has no context.                                                   *)
LEMMA ForkOK ==
  ASSUME Inv, NEW c \in Pid, Fork(c)
  PROVE  Rest'
<1>0. /\ TypeOK /\ KidsInv /\ RunnerCtxInv /\ OutInv /\ i \in Idx
      /\ \A d \in Pid : ChildOK(d)
  BY DEF Inv, TypeOK, ChildInv, ChildOK
<1>1. /\ rpc = "fork" /\ pc[c] = "free"
      /\ kids' = [kids EXCEPT ![i] = c]
      /\ dirty' = dirty \ {c}
      /\ rpc' = IF i = NProcs THEN "wait" ELSE "fork"
      /\ i' = IF i = NProcs THEN 1 ELSE i + 1
      /\ UNCHANGED <<shm, rptr, pend, run, mode, ret, cur, out>>
  BY DEF Fork
<1>2. /\ pc'[c] = "clear" /\ ev'[c] = "exec"
      /\ job'[c] = [run |-> run, mode |-> mode]
      /\ ctx'[c] = None /\ ctx'[RunnerProc] = None
      /\ \A d \in Pid \ {c} : /\ pc'[d] = pc[d] /\ ev'[d] = ev[d]
                              /\ job'[d] = job[d] /\ ctx'[d] = ctx[d]
  BY <1>0, <1>1 DEF Fork, RunnerCtxInv, TypeOK, LibTypeOK, Proc
<1>3. ChildInv'
  <2>1. ASSUME NEW d \in Pid  PROVE ChildOK(d)'
    <3>1. CASE d = c
      BY <1>2, <3>1 DEF ChildOK, CtxOK, ScriptOK, BufferOK, Ended
    <3>2. CASE d # c
      <4>1. d \in dirty' <=> d \in dirty
        BY <1>1, <3>2
      <4>2. QED  BY <1>0, <1>1, <1>2, <3>2, <4>1, SameChild
    <3>3. QED  BY <3>1, <3>2
  <2>2. QED  BY <2>1, Zenon DEF ChildInv, ChildOK
<1>4. /\ \A k \in Idx : k < i => Started(k) /\ kids[k] # c
      /\ \A k \in Idx : k >= i => kids[k] = None
      /\ ret = "ok"
  BY <1>0, <1>1 DEF KidsInv, Started
<1>5. /\ kids'[i] = c
      /\ \A k \in Idx : k # i => kids'[k] = kids[k]
  BY <1>0, <1>1 DEF TypeOK
<1>6. \A k \in Idx : k <= i => Started(k)'
  <2>1. ASSUME NEW k \in Idx, k = i  PROVE Started(k)'
    BY <1>0, <1>1, <1>2, <1>5, <2>1 DEF Started
  <2>2. ASSUME NEW k \in Idx, k < i  PROVE Started(k)'
    BY <1>1, <1>2, <1>4, <1>5, <2>2 DEF Started, Idx
  <2>3. QED  BY <1>0, <2>1, <2>2 DEF Idx
<1>7. KidsInv'
  <2>1. \A j, k \in Idx : kids'[j] = kids'[k] /\ kids'[j] # None => j = k
    <3>1. \A k \in Idx : k # i => kids'[k] # c
      BY <1>0, <1>4, <1>5 DEF Idx
    <3>2. QED  BY <1>0, <1>5, <3>1 DEF KidsInv
  <2>2. \A k \in Idx : k > i => kids'[k] = None
    BY <1>0, <1>4, <1>5 DEF Idx
  <2>3. QED  BY <1>0, <1>1, <1>4, <1>6, <2>1, <2>2 DEF KidsInv, Idx
<1>8. RunnerCtxInv' /\ OutInv'
  BY <1>0, <1>1, <1>2 DEF RunnerCtxInv, OutInv
<1>9. QED  BY <1>3, <1>7, <1>8 DEF Rest

-----------------------------------------------------------------------------
(* wait_child(): a child that ended well and could clear its buffer has    *)
(* all its events in it.                                                   *)
LEMMA WaitOK ==
  ASSUME Inv, Wait
  PROVE  Rest'
<1>0. /\ TypeOK /\ KidsInv /\ RunnerCtxInv /\ OutInv /\ i \in Idx
      /\ \A d \in Pid : ChildOK(d)
  BY DEF Inv, TypeOK, ChildInv, ChildOK
<1>1. PICK c \in Pid : /\ c = kids[i]
                       /\ Waitable(c)
                       /\ pc' = [pc EXCEPT ![c] = "free"]
                       /\ NextWait(IF pc[c] = "ok" THEN ret ELSE "fail")
  BY DEF Wait
<1> DEFINE r == IF pc[c] = "ok" THEN ret ELSE "fail"
<1>2. /\ rpc = "wait" /\ pc[c] \in Ended
      /\ pc'[c] = "free" /\ \A d \in Pid \ {c} : pc'[d] = pc[d]
      /\ UNCHANGED <<shm, pend, ev, job, dirty, run, mode, kids, out>>
  BY <1>0, <1>1 DEF Wait, Waitable, TypeOK
<1>3. /\ \A k \in Idx : k >= i => Started(k)
      /\ \A j, k \in Idx : kids[j] = kids[k] /\ kids[j] # None => j = k
      /\ ctx[RunnerProc] = None /\ out = <<>> /\ cur = <<>>
  BY <1>0, <1>2 DEF KidsInv, RunnerCtxInv, OutInv
<1>4. /\ \A d \in Pid : ctx'[d] = ctx[d]
      /\ ctx'[RunnerProc] = None /\ cur' = <<>>
      /\ ret' = r
      /\ \/ rpc' = "wait" /\ i < NProcs /\ i' = i + 1
         \/ rpc' = "open" /\ r = "ok" /\ i = NProcs /\ i' = 1
         \/ rpc' = "done" /\ r # "ok"
  BY <1>0, <1>1, <1>2, <1>3
     DEF NextWait, RunnerExit, TypeOK, LibTypeOK, Proc, Idx
<1>5. ChildInv'
  <2>1. ASSUME NEW d \in Pid  PROVE ChildOK(d)'
    <3>1. CASE d = c
      BY <1>0, <1>2, <1>4, <3>1 DEF ChildOK, CtxOK, ScriptOK, BufferOK, Ended
    <3>2. CASE d # c
      <4>1. /\ pc'[d] = pc[d] /\ ev'[d] = ev[d] /\ ctx'[d] = ctx[d]
            /\ pend'[d] = pend[d] /\ job'[d] = job[d] /\ shm'[d] = shm[d]
            /\ d \in dirty' <=> d \in dirty
        BY <1>2, <1>4, <3>2
      <4>2. QED  BY <1>0, <4>1, SameChild
    <3>3. QED  BY <3>1, <3>2
  <2>2. QED  BY <2>1, Zenon DEF ChildInv, ChildOK
<1>6. \A k \in Idx : k > i => Started(k)'
  BY <1>0, <1>1, <1>2, <1>3 DEF Started, Idx
<1>7. r = "ok" => \A k \in Idx : k <= i => Finalized(k)'
  <2> SUFFICES ASSUME r = "ok", NEW k \in Idx, k <= i  PROVE Finalized(k)'
    OBVIOUS
  <2>1. ret = "ok" /\ pc[c] = "ok"
    BY <1>0 DEF TypeOK
  <2>2. CASE k < i
    <3>1. Finalized(k)
      BY <1>0, <1>2, <2>1, <2>2 DEF KidsInv
    <3>2. QED  BY <1>2, <3>1 DEF Finalized, Holds
  <2>3. CASE k = i
    <3>1. job[c].run = run /\ job[c].mode = mode
      BY <1>0, <1>1, <1>3 DEF Started, Idx
    <3>2. c \notin dirty => Holds(c, ScriptLen(mode), run)
      BY <1>0, <2>1, <3>1 DEF ChildOK, BufferOK, Recorded
    <3>3. QED  BY <1>1, <1>2, <2>3, <3>2 DEF Finalized, Holds
  <2>4. QED  BY <1>0, <2>2, <2>3 DEF Idx
<1>8. r = "ok" => mode # "usage"
  <2> SUFFICES ASSUME r = "ok"  PROVE mode # "usage"
    OBVIOUS
  <2>1. pc[c] = "ok"
    BY DEF Ended
  <2>2. job[c].mode = mode
    BY <1>0, <1>1, <1>3 DEF Started, Idx
  <2>3. QED  BY <1>0, <2>1, <2>2 DEF ChildOK, ScriptOK
<1>9. KidsInv'
  BY <1>0, <1>2, <1>3, <1>4, <1>6, <1>7, <1>8 DEF KidsInv, Idx
<1>10. RunnerCtxInv' /\ OutInv'
  BY <1>2, <1>3, <1>4 DEF RunnerCtxInv, OutInv, Idx
<1>11. QED  BY <1>5, <1>9, <1>10 DEF Rest

-----------------------------------------------------------------------------
LEMMA PrintOpens ==
  ASSUME NEW c \in Pid, NEW at \in {None, Half}, NEW n \in Nat,
         NEW o \in Open(at, n, c)
  PROVE  /\ o.made \in BOOLEAN
         /\ at = Half => o.at = Half
         /\ o.res = "ok" /\ at = None => o.at = c
         /\ o.res = "err" => o.at \in {None, Half}
<1>1. at \in Pid \cup {None, Half} /\ at \notin Pid /\ None # Half
  OBVIOUS
<1>2. /\ o.made \in BOOLEAN
      /\ at # None => o.res = "ok" /\ o.at = at
      /\ o.res = "ok" /\ at = None => o.at = c
      /\ o.res = "err" => o.at \in {None, Half}
  BY <1>1, OpenOutcome
<1>3. QED  BY <1>1, <1>2

(* print_events() opens the buffer of the child it is to print, unless an  *)
(* earlier open has failed.                                                *)
LEMMA PrintOpenOK ==
  ASSUME Inv, PrintOpen
  PROVE  Rest'
<1>0. /\ TypeOK /\ FdsInv /\ KidsInv /\ RunnerCtxInv /\ OutInv /\ i \in Idx
      /\ shm \in [Pid -> Buffer]
      /\ ctx[RunnerProc] \in {None, Half} /\ fds[RunnerProc] \in Nat
      /\ rpc = "open" /\ cur = <<>>
  BY DEF Inv, TypeOK, LibTypeOK, RunnerCtxInv, OutInv, PrintOpen, Proc
<1> DEFINE Opening(c, o) ==
             /\ shm' = [shm EXCEPT ![c] = Made(c, o.made)]
             /\ \/ /\ o.res = "crash"
                   /\ RunnerExit("fail")
                   /\ UNCHANGED i
                \/ /\ o.res = "err"
                   /\ NextPrint("fail", o.at, o.fds)
                \/ /\ o.res = "ok"
                   /\ ctx' = [ctx EXCEPT ![RunnerProc] = o.at]
                   /\ fds' = [fds EXCEPT ![RunnerProc] = o.fds]
                   /\ rptr' = Rewound
                   /\ rpc' = "read"
                   /\ UNCHANGED <<ret, cur, i>>
<1>1. PICK c \in Pid :
        /\ c = kids[i]
        /\ \E o \in Open(ctx[RunnerProc], fds[RunnerProc], c) : Opening(c, o)
  BY DEF PrintOpen
<1>2. PICK o \in Open(ctx[RunnerProc], fds[RunnerProc], c) : Opening(c, o)
  BY <1>1
<1>3. /\ o.made \in BOOLEAN
      /\ ctx[RunnerProc] = Half => o.at = Half
      /\ o.res = "ok" /\ ctx[RunnerProc] = None => o.at = c
      /\ o.res = "err" => o.at \in {None, Half}
  BY <1>0, PrintOpens
<1>4. /\ UNCHANGED <<pend, pc, ev, job, dirty, run, mode, kids, out>>
      /\ \A d \in Pid : shm'[d].count = shm[d].count /\ shm'[d].slot = shm[d].slot
  <2>1. Made(c, o.made).count = shm[c].count /\ Made(c, o.made).slot = shm[c].slot
    BY <1>0, <1>3, MadeBuffer
  <2>2. QED  BY <1>0, <1>2, <2>1 DEF PrintOpen, childVars
<1>5. CASE o.res = "crash"
  BY <1>2, <1>4, <1>5, RunnerExitOK
<1>6. CASE o.res = "err"
  <2>1. NextPrint("fail", o.at, o.fds)
    BY <1>2, <1>6
  <2>2. ASSUME NEW at \in {None, Half}, NEW n, NextPrint("fail", at, n)
        PROVE  Rest'
    BY <1>0, <1>4, <2>2, NextPrintFailOK
  <2>3. QED  BY <1>3, <1>6, <2>1, <2>2
<1>7. CASE o.res = "ok"
  <2>1. /\ ctx'[RunnerProc] = o.at /\ \A d \in Pid : ctx'[d] = ctx[d]
        /\ rptr' = 0 /\ rpc' = "read" /\ UNCHANGED <<ret, cur, i>>
    BY <1>0, <1>2, <1>7 DEF Rewound, TypeOK, LibTypeOK, Proc
  <2>2. Untouched
    BY <1>4, <2>1 DEF Untouched
  <2>3. KidsInv'
    BY <1>0, <1>4, <2>1, <2>2, UntouchedOK DEF KidsInv
  <2>4. RunnerCtxInv'
    BY <1>0, <1>1, <1>3, <1>4, <1>7, <2>1 DEF RunnerCtxInv
  <2>5. OutInv'
    <3>1. \A k : Printed(k) => Printed(k)'
      BY <1>4, <2>2, UntouchedOK
    <3>2. shm'[kids[i]].count \in Nat
      BY <1>0, <1>1, <1>4 DEF Buffer
    <3>3. QED  BY <1>0, <1>4, <2>1, <3>1, <3>2 DEF OutInv
  <2>6. QED  BY <2>2, <2>3, <2>4, <2>5, UntouchedOK DEF Rest
<1>8. QED  BY <1>2, <1>5, <1>6, <1>7

(* The runner reads in order, from the buffer of the child it prints.      *)
LEMMA PrintReadOK ==
  ASSUME Inv, PrintRead
  PROVE  Rest'
<1>0. /\ TypeOK /\ KidsInv /\ RunnerCtxInv /\ OutInv /\ i \in Idx
      /\ shm \in [Pid -> Buffer] /\ cur \in Seq(Event) /\ rpc = "read"
  BY DEF Inv, TypeOK, LibTypeOK, PrintRead
<1>1. PICK d \in Pid, r \in ReadPtrs :
        /\ ctx[RunnerProc] = d
        /\ r # shm[d].count
        /\ r \in Slots
        /\ cur' = Append(cur, shm[d].slot[r])
        /\ rptr' = r + 1
  BY DEF PrintRead
<1>2. UNCHANGED <<shm, ctx, fds, pend, pc, ev, job, dirty, rpc, run, mode, kids,
                  i, ret, out>>
  BY DEF PrintRead, childVars
<1>3. Untouched
  BY <1>2 DEF Untouched
<1>4. KidsInv'
  BY <1>0, <1>2, <1>3, UntouchedOK DEF KidsInv
<1>5. RunnerCtxInv'
  BY <1>0, <1>2 DEF RunnerCtxInv
<1>6. OutInv'
  <2>1. \A k : Printed(k) => Printed(k)'
    BY <1>2, <1>3, UntouchedOK
  <2>2. CASE ret = "ok"
    <3>1. /\ d = kids[i] /\ rptr \in 0 .. shm[d].count /\ Len(cur) = rptr
          /\ \A j \in 1 .. rptr : cur[j] = shm[d].slot[j - 1]
      BY <1>0, <1>1, <2>2 DEF RunnerCtxInv, OutInv
    <3>2. r = rptr /\ r \in Nat /\ shm[d].count \in Nat
      BY <1>0, <1>1, <3>1 DEF ReadPtrs, Buffer
    <3>3. rptr' \in 0 .. shm[d].count /\ Len(cur') = rptr'
      BY <1>0, <1>1, <3>1, <3>2
    <3>4. \A j \in 1 .. rptr' : cur'[j] = shm[d].slot[j - 1]
      BY <1>0, <1>1, <3>1, <3>2
    <3>5. QED  BY <1>0, <1>2, <2>1, <2>2, <3>1, <3>3, <3>4 DEF OutInv
  <2>3. CASE ret # "ok"
    BY <1>0, <1>2, <2>3 DEF OutInv
  <2>4. QED  BY <2>2, <2>3
<1>7. QED  BY <1>3, <1>4, <1>5, <1>6, UntouchedOK DEF Rest

(* A sequence of the events of a process, one after the other, is its      *)
(* record.                                                                 *)
LEMMA WholeRecord ==
  ASSUME NEW s \in Seq(Event), NEW c \in Pid, NEW r \in Nat, NEW m \in Mode,
         Len(s) = ScriptLen(m),
         \A j \in 1 .. ScriptLen(m) : s[j] = Genuine(j, c, r)
  PROVE  s = Record(c, r, m)
<1>1. s = [j \in 1 .. Len(s) |-> s[j]]
  OBVIOUS
<1>2. QED  BY <1>1 DEF Record

(* What is printed of a child is its record, if it could clear its buffer. *)
LEMMA PrintEndOK ==
  ASSUME Inv, PrintEnd
  PROVE  Rest'
<1>0. /\ TypeOK /\ KidsInv /\ RunnerCtxInv /\ OutInv /\ i \in Idx
      /\ ret \in {"ok", "fail"} /\ rpc = "read"
      /\ shm \in [Pid -> Buffer]
      /\ cur \in Seq(Event) /\ out \in Seq(Seq(Event))
      /\ run \in Nat /\ mode \in Mode
  BY DEF Inv, TypeOK, LibTypeOK, PrintEnd
<1> DEFINE n == AfterClose(ctx[RunnerProc], fds[RunnerProc])
<1>1. PICK d \in Pid, r \in ReadPtrs : ctx[RunnerProc] = d /\ r = shm[d].count
  BY DEF PrintEnd
<1>2. /\ out' = Append(out, cur)
      /\ NextPrint(ret, None, n)
      /\ UNCHANGED <<shm, pend, pc, ev, job, dirty, run, mode, kids>>
  BY DEF PrintEnd, childVars
<1> HIDE DEF n
<1>3. CASE ret = "fail"
  <2>1. NextPrint("fail", None, n) /\ None \in {None, Half}
    BY <1>2, <1>3
  <2>2. \A e \in Pid : shm'[e].count = shm[e].count /\ shm'[e].slot = shm[e].slot
    BY <1>2
  <2>3. QED  BY <1>0, <1>2, <2>1, <2>2, NextPrintFailOK
<1>4. CASE ret = "ok"
  <2>1. /\ ret' = "ok" /\ cur' = <<>> /\ ctx'[RunnerProc] = None
        /\ \A e \in Pid : ctx'[e] = ctx[e]
        /\ \/ rpc' = "open" /\ i < NProcs /\ i' = i + 1
           \/ rpc' = "done" /\ i = NProcs
    BY <1>0, <1>2, <1>4
       DEF NextPrint, RunnerExit, TypeOK, LibTypeOK, Proc, Idx
  <2>2. Untouched
    BY <1>2, <2>1 DEF Untouched
  <2>3. KidsInv'
    BY <1>0, <1>2, <1>4, <2>1, <2>2, UntouchedOK DEF KidsInv
  <2>4. RunnerCtxInv'
    BY <2>1 DEF RunnerCtxInv
  <2>5. /\ d = kids[i] /\ Len(cur) = shm[d].count
        /\ \A j \in 1 .. shm[d].count : cur[j] = shm[d].slot[j - 1]
        /\ Finalized(i)
    BY <1>0, <1>1, <1>4 DEF RunnerCtxInv, OutInv, KidsInv, ReadPtrs
  <2>6. kids[i] \notin dirty => cur = Record(kids[i], run, mode)
    <3> SUFFICES ASSUME d \notin dirty  PROVE cur = Record(d, run, mode)
      BY <2>5
    <3>1. Holds(d, ScriptLen(mode), run)
      BY <2>5 DEF Finalized
    <3>2. /\ Len(cur) = ScriptLen(mode)
          /\ \A j \in 1 .. ScriptLen(mode) : cur[j] = Genuine(j, d, run)
      BY <2>5, <3>1 DEF Holds
    <3>3. QED  BY <1>0, <3>2, WholeRecord
  <2>7. /\ Len(out) = i - 1
        /\ \A k \in 1 .. (i - 1) : Printed(k)
    BY <1>0, <1>4 DEF OutInv
  <2>8. /\ Len(out') = i
        /\ out'[i] = cur
        /\ \A k \in 1 .. (i - 1) : out'[k] = out[k]
    BY <1>0, <1>2, <2>7 DEF Idx
  <2>9. \A k \in 1 .. i : Printed(k)'
    <3>1. ASSUME NEW k \in 1 .. (i - 1)  PROVE Printed(k)'
      BY <2>2, <2>7, <2>8, UntouchedOK
    <3>2. ASSUME NEW k, k = i  PROVE Printed(k)'
      BY <1>2, <2>6, <2>8, <3>2 DEF Printed
    <3>3. QED  BY <1>0, <3>1, <3>2 DEF Idx
  <2>10. OutInv'
    BY <1>0, <2>1, <2>8, <2>9 DEF OutInv, Idx
  <2>11. QED  BY <2>2, <2>3, <2>4, <2>10, UntouchedOK DEF Rest
<1>5. QED  BY <1>0, <1>3, <1>4

(* Reading through a context without a mapping happens only after an open  *)
(* has failed, in a run that fails.                                        *)
LEMMA PrintWildOK ==
  ASSUME Inv, PrintWild
  PROVE  Rest'
<1>0. /\ TypeOK /\ KidsInv /\ RunnerCtxInv /\ OutInv /\ i \in Idx
      /\ rpc = "read" /\ ctx[RunnerProc] = Half
      /\ UNCHANGED <<shm, pend, pc, ev, job, dirty, run, mode, kids>>
  BY DEF Inv, TypeOK, PrintWild, childVars
<1>1. ret = "fail"
  BY <1>0 DEF RunnerCtxInv, KidsInv, Finalized
<1>2. \A d \in Pid : shm'[d].count = shm[d].count /\ shm'[d].slot = shm[d].slot
  BY <1>0
<1>3. CASE RunnerExit("fail")
  BY <1>0, <1>2, <1>3, RunnerExitOK
<1>4. CASE NextPrint(ret, None, fds[RunnerProc])
  <2>1. ASSUME NEW n, NextPrint("fail", None, n)  PROVE Rest'
    <3>1. None \in {None, Half}
      OBVIOUS
    <3>2. QED  BY <1>0, <1>2, <2>1, <3>1, NextPrintFailOK
  <2>2. QED  BY <1>1, <1>4, <2>1
<1>5. CASE UNCHANGED <<rpc, i, ret, ctx, fds, rptr, out>>
  <2>1. Untouched
    BY <1>0, <1>5 DEF Untouched
  <2>2. KidsInv'
    BY <1>0, <1>5, <2>1, UntouchedOK DEF KidsInv
  <2>3. RunnerCtxInv' /\ OutInv'
    BY <1>0, <1>1, <1>5 DEF RunnerCtxInv, OutInv
  <2>4. QED  BY <2>1, <2>2, <2>3, UntouchedOK DEF Rest
<1>6. QED  BY <1>3, <1>4, <1>5, Zenon DEF PrintWild

(* Every step of the runner.                                               *)
LEMMA RunnerInvStep ==
  ASSUME Inv,
         \/ \E c \in Pid : Fork(c)
         \/ \E m \in Modes : Invoke(m)
         \/ ForkFails \/ WaitFails \/ RunnerStep \/ RunnerKilled
  PROVE  Inv'
<1>1. TypeOK /\ FdsInv /\ TypeOK' /\ FdsInv'
  BY RunnerType DEF Inv
<1>2. CASE ForkFails \/ RunnerKilled
  <2>1. /\ RunnerExit("fail")
        /\ UNCHANGED <<shm, pend, pc, ev, job, dirty, run, mode, kids>>
    BY <1>2 DEF ForkFails, RunnerKilled, childVars
  <2>2. Rest'
    BY <1>1, <2>1, SameShm, RunnerExitOK
  <2>3. QED  BY <1>1, <2>2 DEF Inv, Rest
<1>3. CASE WaitFails
  <2>1. /\ rpc = "wait" /\ NextWait("fail")
        /\ UNCHANGED <<pend, pc, ev, job, dirty, run, mode, kids, out, shm>>
    BY <1>3 DEF WaitFails, childVars
  <2>2. Rest'
    BY <2>1, NextWaitFailOK
  <2>3. QED  BY <1>1, <2>2 DEF Inv, Rest
<1>4. CASE \/ \E c \in Pid : Fork(c)
           \/ \E m \in Modes : Invoke(m)
           \/ RunnerStep
  <2>1. Rest'
    BY <1>4, ForkOK, InvokeOK, WaitOK, PrintOpenOK, PrintReadOK, PrintEndOK,
       PrintWildOK, Zenon DEF RunnerStep
  <2>2. QED  BY <1>1, <2>1 DEF Inv, Rest
<1>5. QED  BY <1>2, <1>3, <1>4, Zenon

-----------------------------------------------------------------------------
(* The invariant of the runner, its children and their buffers.            *)
THEOREM InvCorrect == Spec => []Inv
<1>1. Init => Inv
  <2> SUFFICES ASSUME Init  PROVE Inv
    OBVIOUS
  <2>1. TypeOK /\ FdsInv
    BY InitType
  <2>2. ChildInv
    BY DEF Init, LibInit, ChildInv, CtxOK, ScriptOK, BufferOK, Ended, Proc
  <2>3. KidsInv /\ RunnerCtxInv /\ OutInv
    BY DEF Init, LibInit, KidsInv, RunnerCtxInv, OutInv, NoKids, Proc
  <2>4. QED  BY <2>1, <2>2, <2>3 DEF Inv
<1>2. Inv /\ [Next]_vars => Inv'
  <2> SUFFICES ASSUME Inv, [Next]_vars  PROVE Inv'
    OBVIOUS
  <2>1. CASE \E c \in Pid : ChildStep(c) \/ Kill(c) \/ Reap(c)
    BY <2>1, ChildInvStep, Zenon
  <2>2. CASE \/ \E c \in Pid : Fork(c)
             \/ \E m \in Modes : Invoke(m)
             \/ ForkFails \/ WaitFails \/ RunnerStep \/ RunnerKilled
    BY <2>2, RunnerInvStep, Zenon
  <2>3. CASE UNCHANGED vars
    <3>1. TypeOK' /\ FdsInv'
      BY <2>3 DEF Inv, TypeOK, LibTypeOK, FdsInv, vars, libVars, childVars,
                  runnerVars
    <3>2. /\ UNCHANGED <<shm, ctx, pend, pc, ev, job, dirty, rptr>>
          /\ UNCHANGED <<rpc, run, mode, kids, i, ret, cur, out>>
      BY <2>3 DEF vars, libVars, childVars, runnerVars
    <3>3. Untouched
      BY <3>2 DEF Untouched
    <3>4. KidsInv' /\ RunnerCtxInv' /\ OutInv'
      BY <3>2, <3>3, UntouchedOK DEF Inv, KidsInv, RunnerCtxInv, OutInv
    <3>5. QED  BY <3>1, <3>3, <3>4, UntouchedOK DEF Inv
  <2>4. QED  BY <2>1, <2>2, <2>3, Zenon DEF Next, Finished
<1>3. QED  BY <1>1, <1>2, PTL DEF Spec

-----------------------------------------------------------------------------
(***************************************************************************)
(* The safety properties of module Runner, from its invariant.             *)
(***************************************************************************)
LEMMA InvReportFresh ==
  ASSUME Inv
  PROVE  ReportFresh
<1> SUFFICES ASSUME rpc = "done", ret = "ok", ~Tainted
             PROVE  out = [k \in Idx |-> Record(kids[k], run, mode)]
  BY DEF ReportFresh
<1>1. /\ out \in Seq(Seq(Event)) /\ Len(out) = NProcs
      /\ \A k \in Idx : out[k] = Record(kids[k], run, mode)
  BY DEF Inv, TypeOK, OutInv, Printed, Tainted
<1>2. out = [k \in 1 .. Len(out) |-> out[k]]
  BY <1>1
<1>3. QED  BY <1>1, <1>2 DEF Idx

(* main(), print_events(), run_child() and the benchmarks: whatever fails  *)
(* or is killed, a runner that exits with status 0 has printed, for each   *)
(* child in the order of the forks, exactly the events this child recorded *)
(* in this run, each with its own timestamp, unless a child could not      *)
(* clear its buffer.                                                       *)
THEOREM ReportFreshCorrect == Spec => []ReportFresh
BY InvCorrect, InvReportFresh, PTL

(* wait_child() before print_events(): while the runner prints, each of    *)
(* its children has terminated and has been waited for.                    *)
THEOREM ReportAfterReapCorrect == Spec => []ReportAfterReap
<1>1. Inv => ReportAfterReap
  BY DEF Inv, KidsInv, Finalized, ReportAfterReap
<1>2. QED  BY <1>1, InvCorrect, PTL

-----------------------------------------------------------------------------
LEMMA NextOwnerWrites ==
  ASSUME Inv, [Next]_vars, NEW d \in Pid
  PROVE  \/ pc[d] \in Alive
         \/ shm'[d].count = shm[d].count /\ shm'[d].slot = shm[d].slot
<1>0. /\ TypeOK /\ FdsInv /\ \A c \in Pid : ChildOK(c)
      /\ shm \in [Pid -> Buffer]
  BY DEF Inv, ChildInv, ChildOK, TypeOK, LibTypeOK
<1>1. CASE UNCHANGED shm
  BY <1>1
<1>2. CASE \E c \in Pid : ChildStep(c) \/ Kill(c)
  <2>1. PICK c \in Pid : ChildStep(c) \/ Kill(c)
    BY <1>2
  <2>2. pc[c] \in Alive
    BY <2>1 DEF ChildStep, Clear, Add, AddFails, AddWild, ClockFails, Stamp, StampFails,
                Exec, ExecFails, Args, Loop, Kill, Alive
  <2>3. Frame(c)
    BY <1>0, <2>1, ChildStepOK
  <2>4. QED  BY <2>2, <2>3 DEF Frame
<1>3. CASE PrintOpen
  <2>0. PICK c \in Pid : PrintOpen!2!(c)!2
    BY <1>3 DEF PrintOpen
  <2>1. PICK made : shm' = [shm EXCEPT ![c] = Made(c, made)]
    BY <2>0
  <2>2. /\ Made(c, made).count = shm[c].count
        /\ Made(c, made).slot = shm[c].slot
    BY <1>0 DEF Made, Buffer
  <2>3. QED  BY <1>0, <2>1, <2>2
<1>4. QED
  BY <1>1, <1>2, <1>3
     DEF Next, vars, libVars, childVars, Reap, Fork, Invoke, ForkFails, WaitFails,
         RunnerStep, Wait, PrintRead, PrintEnd, PrintWild, RunnerKilled, Finished

(* The events under a pid change only while a child with that pid is       *)
(* alive: no other child, no runner that opens the buffer, and no later    *)
(* run disturbs what a process has recorded.                               *)
THEOREM OwnerWritesCorrect == Spec => OwnerWrites
<1>1. Inv /\ [Next]_vars
        => [\A c \in Pid : \/ pc[c] \in Alive
                           \/ /\ shm'[c].count = shm[c].count
                              /\ shm'[c].slot = shm[c].slot]_vars
  BY NextOwnerWrites
<1>2. QED  BY <1>1, InvCorrect, PTL DEF Spec, OwnerWrites

-----------------------------------------------------------------------------
(***************************************************************************)
(* The runner implements RunnerContract.                                   *)
(***************************************************************************)

(* A runner that ended well keeps its verdict: the failed clears of its    *)
(* children do not change any more.                                        *)
Frozen ==
  rpc = "done" /\ ret = "ok" => (Tainted' <=> Tainted)

(* A step invokes a runner, or is one of an invocation that works, or      *)
(* leaves what the contract sees alone: the children that are left when a  *)
(* runner is gone can still fail to clear a buffer, but not those of a     *)
(* runner that ended well.                                                 *)
LEMMA StepShape ==
  ASSUME Inv, [Next]_vars
  PROVE  \/ \E m \in Modes : Invoke(m)
         \/ /\ rpc \in Working /\ rpc' \in Working \cup {"done"}
            /\ UNCHANGED <<run, mode>>
         \/ UNCHANGED <<rpc, run, mode, ret, kids, out>> /\ Frozen
<1>0. /\ TypeOK /\ FdsInv /\ KidsInv
      /\ \A c \in Pid : ChildOK(c)
  BY DEF Inv, ChildInv, ChildOK
<1>1. CASE \E c \in Pid : ChildStep(c) \/ Kill(c) \/ Reap(c)
  <2>1. PICK c \in Pid : Frame(c)
    BY <1>0, <1>1, ChildStepOK, ReapOK
  <2>2. UNCHANGED <<rpc, run, mode, ret, kids, out>>
    BY <2>1 DEF Frame, runnerVars
  <2>3. Frozen
    BY <1>0, <2>1, <2>2 DEF Frozen, Frame, KidsInv, Finalized, Tainted
  <2>4. QED  BY <2>2, <2>3
<1>2. CASE \/ \E c \in Pid : Fork(c)
           \/ ForkFails \/ WaitFails \/ RunnerStep \/ RunnerKilled
  <2>1. rpc \in Working /\ UNCHANGED <<run, mode>>
    BY <1>2 DEF Fork, ForkFails, WaitFails, RunnerStep, RunnerKilled, Wait,
                PrintOpen, PrintRead, PrintEnd, PrintWild, Working
  <2>2. rpc' \in Working \cup {"done"}
    BY <1>2, <2>1
       DEF Fork, ForkFails, WaitFails, RunnerStep, RunnerKilled, Wait, PrintOpen,
           PrintRead, PrintEnd, PrintWild, Working, NextWait, NextPrint, RunnerExit
  <2>3. QED  BY <2>1, <2>2
<1>3. CASE UNCHANGED vars
  BY <1>3 DEF vars, childVars, runnerVars, Frozen, Tainted
<1>4. QED  BY <1>1, <1>2, <1>3, Zenon DEF Next, Finished

(* A runner that ends with status 0 delivers what the contract says.       *)
LEMMA EndDelivers ==
  ASSUME Inv, Inv', ReportFresh', rpc \in Working, rpc' = "done",
         UNCHANGED <<run, mode>>
  PROVE  Contract!Deliver \/ Contract!Fail
<1>1. Phase = "running"
  BY DEF Phase, Working
<1>2. CASE ret' = "fail" \/ Tainted'
  <2>1. Phase' \in {"failed", "tainted"}
    BY <1>2 DEF Phase, Working, Inv, TypeOK
  <2>2. QED  BY <1>1, <2>1 DEF Contract!Fail
<1>3. CASE ret' = "ok" /\ ~Tainted'
  <2>1. Phase' = "delivered"
    BY <1>3 DEF Phase, Working
  <2>2. out' = [k \in 1 .. NProcs |-> Record(kids'[k], run, mode)]
    BY <1>3 DEF ReportFresh, Idx
  <2>3. /\ \A k \in 1 .. NProcs : kids'[k] \in Pid
        /\ \A j, k \in 1 .. NProcs : kids'[j] = kids'[k] => j = k
        /\ mode # "usage"
    BY <1>3 DEF Inv, KidsInv, Finalized, Idx
  <2>4. kids' \in [1 .. NProcs -> Pid]
    BY <2>3 DEF Inv, TypeOK, Idx
  <2>5. QED
    BY <1>1, <2>1, <2>2, <2>3, <2>4 DEF Contract!Deliver, Contract!Record, Record,
       Contract!ScriptLen, ScriptLen, Contract!Genuine, Genuine, Contract!EventAt, EventAt
<1>4. QED  BY <1>2, <1>3 DEF Inv, TypeOK

LEMMA StepImplements ==
  ASSUME Inv, Inv', ReportFresh', [Next]_vars
  PROVE  [Contract!Next]_(Contract!vars)
<1>1. CASE \E m \in Modes : Invoke(m)
  <2>1. /\ rpc \in {"off", "done"} /\ rpc' = "fork"
        /\ run < MaxRuns /\ run' = run + 1 /\ mode' \in Modes
    BY <1>1 DEF Invoke
  <2>2. Phase # "running" /\ Phase' = "running"
    BY <2>1 DEF Phase, Working
  <2>3. Contract!Invoke
    BY <2>1, <2>2 DEF Contract!Invoke
  <2>4. QED  BY <2>3 DEF Contract!Next
<1>2. CASE /\ rpc \in Working /\ rpc' \in Working \cup {"done"}
           /\ UNCHANGED <<run, mode>>
  <2>1. CASE rpc' = "done"
    BY <1>2, <2>1, EndDelivers DEF Contract!Next
  <2>2. CASE rpc' \in Working
    <3>1. Phase = "running" /\ Phase' = "running"
      BY <1>2, <2>2 DEF Phase, Working
    <3>2. QED  BY <1>2, <3>1 DEF Contract!vars
  <2>3. QED  BY <1>2, <2>1, <2>2
<1>3. CASE UNCHANGED <<rpc, run, mode, ret, kids, out>> /\ Frozen
  <2>1. Phase' = Phase
    BY <1>3 DEF Phase, Frozen, Tainted, Inv, TypeOK, Working
  <2>2. QED  BY <1>3, <2>1 DEF Contract!vars
<1>4. QED  BY <1>1, <1>2, <1>3, StepShape

(* Whatever the environment does, an invocation of the runner either fails *)
(* as a whole or delivers what run_benchmark_tool() of benchmarks.py takes *)
(* its exit status 0 to mean.                                              *)
THEOREM ContractCorrect == Spec => ImplementsContract
<1>1. Init => Contract!Init
  BY DEF Init, Contract!Init, Phase
<1>2. Inv /\ Inv' /\ ReportFresh' /\ [Next]_vars
        => [Contract!Next]_(Contract!vars)
  BY StepImplements
<1>3. QED
  BY <1>1, <1>2, InvCorrect, ReportFreshCorrect, PTL
     DEF Spec, ImplementsContract, Contract!Spec

-----------------------------------------------------------------------------
(***************************************************************************)
(* Descriptors.                                                            *)
(***************************************************************************)
Owed(at) == IF at \in Pid THEN 1 ELSE 0

Matched == \A p \in Proc : fds[p] = Owed(ctx[p])

(* Without a stale errno, shared_events_open() opens one descriptor per    *)
(* mapping, and none when it fails.                                        *)
LEMMA OpenMatched ==
  ASSUME "stale_errno" \notin Faults,
         NEW c \in Pid, NEW at \in Pid \cup {None, Half},
         NEW o \in Open(at, Owed(at), c)
  PROVE  /\ o.fds = Owed(o.at)
         /\ o.at \in Pid \cup {None, Half}
<1>0. Owed(at) \in Nat /\ (at \in Pid => Owed(at) > 0)
  BY DEF Owed
<1>t. o.at \in Pid \cup {None, Half}
  BY <1>0, OpenOutcome
<1>1. CASE at # None
  <2>1. o = Opened("ok", at, FALSE, Owed(at))
    BY <1>1, Zenon DEF Open
  <2>2. QED  BY <1>t, <2>1, Zenon DEF Opened
<1>2. CASE at = None
  <2>0. Owed(at) = 0 /\ Owed(None) = 0 /\ Owed(Half) = 0 /\ Owed(c) = 1
    BY <1>2 DEF Owed
  <2>1. CASE o \in OpenFails(Owed(at), c)
    <3>1. \/ o = Opened("err", None, FALSE, 0)
          \/ o = Opened("err", Half, FALSE, 0)
          \/ o = Opened("crash", None, TRUE, 0)
      <4>1. StaleErrno(c) = {FALSE} /\ 0 + (IF FALSE THEN 1 ELSE 0) = 0
        BY DEF StaleErrno
      <4>. QED BY <2>0, <2>1, <4>1, Zenon DEF OpenFails
    <3>2. CASE o = Opened("err", None, FALSE, 0)
      BY <1>t, <2>0, <3>2, Zenon DEF Opened
    <3>3. CASE o = Opened("err", Half, FALSE, 0)
      BY <1>t, <2>0, <3>3, Zenon DEF Opened
    <3>4. CASE o = Opened("crash", None, TRUE, 0)
      BY <1>t, <2>0, <3>4, Zenon DEF Opened
    <3>5. QED  BY <3>1, <3>2, <3>3, <3>4
  <2>2. CASE o \notin OpenFails(Owed(at), c)
    <3>1. PICK stale \in {FALSE} :
            o = Opened("ok", c, TRUE, Owed(at) + (IF stale THEN 2 ELSE 1))
      BY <1>2, <2>2, Zenon DEF Open, StaleErrno
    <3>2. o = Opened("ok", c, TRUE, 1)
      BY <2>0, <3>1
    <3>3. QED  BY <1>t, <2>0, <3>2, Zenon DEF Opened
  <2>3. QED  BY <2>1, <2>2
<1>3. QED  BY <1>1, <1>2

(* shared_events_close() closes what shared_events_open() opened.          *)
LEMMA CloseMatched ==
  ASSUME NEW at  PROVE AfterClose(at, Owed(at)) = 0
BY DEF AfterClose, Owed

(* The step of one process changes its own context and descriptors only.   *)
LEMMA OneMatched ==
  ASSUME TypeOK, Matched, NEW q \in Proc, NEW at, NEW n,
         ctx' = [ctx EXCEPT ![q] = at],
         fds' = [fds EXCEPT ![q] = n],
         n = Owed(at)
  PROVE  Matched'
BY DEF TypeOK, LibTypeOK, Matched

LEMMA ExitMatched ==
  ASSUME TypeOK, Matched,
         \/ \E c \in Pid, how \in Ended : Exit(c, how)
         \/ \E s \in {"ok", "fail"} : RunnerExit(s)
  PROVE  Matched'
<1>1. PICK q \in Proc : /\ ctx' = [ctx EXCEPT ![q] = None]
                        /\ fds' = [fds EXCEPT ![q] = 0]
  BY DEF Exit, RunnerExit, Proc
<1>2. Owed(None) = 0
  BY DEF Owed
<1>3. QED  BY <1>1, <1>2, OneMatched

LEMMA ReturnMatched ==
  ASSUME TypeOK, Matched, NEW c \in Pid, NEW where, NEW at,
         Return(c, where, at, Owed(at))
  PROVE  Matched'
<1>1. CASE where \in Ended
  <2>1. Exit(c, where)
    BY <1>1 DEF Return
  <2>2. QED  BY <1>1, <2>1, ExitMatched
<1>2. CASE where \notin Ended
  <2>1. /\ ctx' = [ctx EXCEPT ![c] = at]
        /\ fds' = [fds EXCEPT ![c] = Owed(at)]
    BY <1>2, Zenon DEF Return
  <2>2. c \in Proc
    BY DEF Proc
  <2>3. QED  BY <2>1, <2>2, OneMatched
<1>3. QED  BY <1>1, <1>2

LEMMA NextPrintMatched ==
  ASSUME TypeOK, Matched, NEW r \in {"ok", "fail"}, NEW at,
         NextPrint(r, at, Owed(at))
  PROVE  Matched'
<1>1. RunnerProc \in Proc
  BY DEF Proc
<1>2. CASE i < NProcs
  BY <1>1, <1>2, OneMatched DEF NextPrint
<1>3. CASE ~(i < NProcs)
  BY <1>3, ExitMatched DEF NextPrint
<1>4. QED  BY <1>2, <1>3

LEMMA ChildMatched ==
  ASSUME TypeOK, Matched, "stale_errno" \notin Faults, NEW c \in Pid,
         ChildStep(c) \/ Kill(c)
  PROVE  Matched'
<1>0. /\ c \in Proc /\ ctx[c] \in Pid \cup {None, Half}
      /\ fds[c] = Owed(ctx[c])
      /\ Owed(None) = 0 /\ Owed(Half) = 0
      /\ {"ok", "fail", "signal"} \subseteq Ended
  BY DEF TypeOK, LibTypeOK, Matched, Proc, Owed, Ended
<1>1. CASE Clear(c)
  <2>1. AfterClose(ctx[c], fds[c]) = Owed(None)
    BY <1>0, CloseMatched
  <2>2. PICK o \in Open(None, Owed(None), c) :
          \/ Exit(c, "signal")
          \/ /\ ctx' = [ctx EXCEPT ![c] = o.at]
             /\ fds' = [fds EXCEPT ![c] = o.fds]
    BY <1>1, <2>1 DEF Clear
  <2>3. o.fds = Owed(o.at)
    <3>1. None \in Pid \cup {None, Half}
      OBVIOUS
    <3>2. QED  BY <3>1, OpenMatched
  <2>4. CASE Exit(c, "signal")
    BY <1>0, <2>4, ExitMatched
  <2>5. CASE /\ ctx' = [ctx EXCEPT ![c] = o.at]
             /\ fds' = [fds EXCEPT ![c] = o.fds]
    BY <1>0, <2>3, <2>5, OneMatched
  <2>6. QED  BY <2>2, <2>4, <2>5
<1>2. CASE AddFails(c) \/ Add(c)
  <2>1. PICK o \in Open(ctx[c], Owed(ctx[c]), c) :
          \/ Exit(c, "signal")
          \/ Return(c, AfterFailedAdd(ev[c]), o.at, o.fds)
          \/ /\ ctx' = [ctx EXCEPT ![c] = o.at]
             /\ fds' = [fds EXCEPT ![c] = o.fds]
    BY <1>0, <1>2 DEF AddFails, Add
  <2>2. o.fds = Owed(o.at)
    BY <1>0, OpenMatched
  <2>3. CASE Exit(c, "signal")
    BY <1>0, <2>3, ExitMatched
  <2>4. CASE Return(c, AfterFailedAdd(ev[c]), o.at, o.fds)
    BY <2>2, <2>4, ReturnMatched
  <2>5. CASE /\ ctx' = [ctx EXCEPT ![c] = o.at]
             /\ fds' = [fds EXCEPT ![c] = o.fds]
    BY <1>0, <2>2, <2>5, OneMatched
  <2>6. QED  BY <2>1, <2>3, <2>4, <2>5
<1>3. CASE AddWild(c) \/ ClockFails(c) \/ Stamp(c) \/ StampFails(c)
  <2>1. \/ Exit(c, "signal")
        \/ \E where : Return(c, where, ctx[c], fds[c])
    BY <1>3 DEF AddWild, ClockFails, Stamp, StampFails
  <2>2. QED  BY <1>0, <2>1, ExitMatched, ReturnMatched
<1>4. CASE Exec(c)
  BY <1>0, <1>4, OneMatched DEF Exec
<1>5. CASE ExecFails(c) \/ Args(c) \/ Loop(c) \/ Kill(c)
  <2>1. \/ \E how \in Ended : Exit(c, how)
        \/ UNCHANGED <<ctx, fds>>
    BY <1>0, <1>5 DEF ExecFails, Args, Loop, Kill, libVars
  <2>2. QED  BY <2>1, ExitMatched DEF Matched
<1>6. QED  BY <1>1, <1>2, <1>3, <1>4, <1>5 DEF ChildStep

LEMMA RunnerMatched ==
  ASSUME TypeOK, Matched, "stale_errno" \notin Faults,
         \/ \E c \in Pid : Reap(c) \/ Fork(c)
         \/ \E m \in Modes : Invoke(m)
         \/ ForkFails \/ WaitFails \/ RunnerStep \/ RunnerKilled
  PROVE  Matched'
<1>0. /\ RunnerProc \in Proc /\ ctx[RunnerProc] \in Pid \cup {None, Half}
      /\ fds[RunnerProc] = Owed(ctx[RunnerProc])
      /\ Owed(None) = 0 /\ Owed(Half) = 0
      /\ ret \in {"ok", "fail"}
  BY DEF TypeOK, LibTypeOK, Matched, Proc, Owed
<1>1. CASE \/ \E c \in Pid : Reap(c)
           \/ \E m \in Modes : Invoke(m)
           \/ PrintRead
  BY <1>1 DEF Reap, Invoke, PrintRead, libVars, Matched
<1>2. CASE \E c \in Pid : Fork(c)
  <2>1. PICK c \in Proc : /\ ctx' = [ctx EXCEPT ![c] = ctx[RunnerProc]]
                          /\ fds' = [fds EXCEPT ![c] = fds[RunnerProc]]
    BY <1>2 DEF Fork, Proc
  <2>2. QED  BY <1>0, <2>1, OneMatched
<1>3. CASE ForkFails \/ RunnerKilled
  BY <1>3, ExitMatched DEF ForkFails, RunnerKilled
<1>4. CASE Wait \/ WaitFails
  <2>1. \/ UNCHANGED <<ctx, fds>>
        \/ \E s \in {"ok", "fail"} : RunnerExit(s)
    BY <1>0, <1>4 DEF Wait, WaitFails, NextWait
  <2>2. QED  BY <2>1, ExitMatched DEF Matched
<1>5. CASE PrintOpen
  <2>0. PICK c \in Pid : c = kids[i] /\ PrintOpen!2!(c)!2
    BY <1>5 DEF PrintOpen
  <2>1. PICK o \in Open(ctx[RunnerProc], Owed(ctx[RunnerProc]), c) :
          \/ RunnerExit("fail")
          \/ NextPrint("fail", o.at, o.fds)
          \/ /\ ctx' = [ctx EXCEPT ![RunnerProc] = o.at]
             /\ fds' = [fds EXCEPT ![RunnerProc] = o.fds]
    BY <1>0, <2>0
  <2>2. o.fds = Owed(o.at)
    BY <1>0, OpenMatched
  <2>3. CASE RunnerExit("fail")
    BY <2>3, ExitMatched
  <2>4. CASE NextPrint("fail", o.at, o.fds)
    BY <2>2, <2>4, NextPrintMatched
  <2>5. CASE /\ ctx' = [ctx EXCEPT ![RunnerProc] = o.at]
             /\ fds' = [fds EXCEPT ![RunnerProc] = o.fds]
    BY <1>0, <2>2, <2>5, OneMatched
  <2>6. QED  BY <2>1, <2>3, <2>4, <2>5
<1>6. CASE PrintEnd
  <2>1. AfterClose(ctx[RunnerProc], fds[RunnerProc]) = Owed(None)
    BY <1>0, CloseMatched
  <2>2. NextPrint(ret, None, Owed(None))
    BY <1>6, <2>1 DEF PrintEnd
  <2>3. QED  BY <1>0, <2>2, NextPrintMatched
<1>7. CASE PrintWild
  <2>1. fds[RunnerProc] = Owed(None)
    BY <1>0, <1>7 DEF PrintWild
  <2>2. \/ RunnerExit("fail")
        \/ UNCHANGED <<ctx, fds>>
        \/ NextPrint(ret, None, Owed(None))
    BY <1>7, <2>1 DEF PrintWild
  <2>3. CASE RunnerExit("fail")
    BY <2>3, ExitMatched
  <2>4. CASE UNCHANGED <<ctx, fds>>
    BY <2>4 DEF Matched
  <2>5. CASE NextPrint(ret, None, Owed(None))
    BY <1>0, <2>5, NextPrintMatched
  <2>6. QED  BY <2>2, <2>3, <2>4, <2>5
<1>8. QED
  BY <1>1, <1>2, <1>3, <1>4, <1>5, <1>6, <1>7 DEF RunnerStep

(* shared_events_close() closes what shared_events_open() opened, and no   *)
(* more, in every process and however many buffers the runner prints, as   *)
(* long as errno is not left over from an earlier call.                    *)
THEOREM DescriptorsCorrect == Spec => []DescriptorsMatch
<1>1. CASE "stale_errno" \in Faults
  <2>1. DescriptorsMatch
    BY <1>1 DEF DescriptorsMatch
  <2>2. QED  BY <2>1, PTL
<1>2. CASE "stale_errno" \notin Faults
  <2>1. Init => Matched
    BY DEF Init, LibInit, Matched, Owed
  <2>2. TypeOK /\ Matched /\ [Next]_vars => Matched'
    <3> SUFFICES ASSUME TypeOK, Matched, [Next]_vars  PROVE Matched'
      OBVIOUS
    <3>1. CASE UNCHANGED vars
      BY <3>1 DEF vars, libVars, Matched
    <3>2. CASE \E c \in Pid : ChildStep(c) \/ Kill(c)
      BY <1>2, <3>2, ChildMatched, Zenon
    <3>3. CASE \/ \E c \in Pid : Reap(c) \/ Fork(c)
               \/ \E m \in Modes : Invoke(m)
               \/ ForkFails \/ WaitFails \/ RunnerStep \/ RunnerKilled
      BY <1>2, <3>3, RunnerMatched, Zenon
    <3>4. QED  BY <3>1, <3>2, <3>3, Zenon DEF Next, Finished
  <2>3. Matched => DescriptorsMatch
    BY DEF Matched, DescriptorsMatch, Owed
  <2>4. QED  BY <2>1, <2>2, <2>3, TypeCorrect, PTL DEF Spec
<1>3. QED  BY <1>1, <1>2

=============================================================================
