------------------------------- MODULE Runner -------------------------------
(***************************************************************************)
(* src/lttng-ust-benchmarks.c and the benchmark programs it runs           *)
(* (src/basic-benchmark.c, src/sha2-benchmark.c), over the event buffers   *)
(* of module SharedEvents.                                                 *)
(*                                                                         *)
(* One invocation of the runner forks one child per CPU, waits for all of  *)
(* them in the order it forked them and, when all have exited with status  *)
(* 0, prints the events in the buffer of each.  A child clears its buffer, *)
(* records "exec", executes the benchmark, and the benchmark records       *)
(* "main" and, when it is given a number of iterations, "start" and "end"  *)
(* around its loop.  src/benchmarks.py invokes the runner many times; the  *)
(* objects of one run, its orphans, and its pids are there in the next.    *)
(***************************************************************************)
EXTENDS SharedEvents

CONSTANTS
  NProcs,     \* get_nprocs(): the number of children of a run
  MaxRuns,    \* bound on the invocations of the runner
  Modes       \* the argument lists the benchmarks are given

ASSUME NProcsAssumption == NProcs \in Nat \ {0}
ASSUME MaxRunsAssumption == MaxRuns \in Nat
ASSUME ModesAssumption == Modes \subseteq Mode

VARIABLES
  pc,     \* where each child is, or how it ended ("free": there is none)
  ev,     \* the event each child is recording
  job,    \* the run each child belongs to and its arguments
  dirty,  \* the children that could not clear their buffer or not record
          \* "exec", which run_child() does not look at
  rpc,    \* where the runner is
  run,    \* the number of the current run
  mode,   \* the arguments of the current run
  kids,   \* pids[] of main()
  i,      \* the loop counter of main(), from 1
  ret,    \* ret of main(), and the exit status of the runner
  cur,    \* what print_events() has printed of the current buffer
  out     \* the buffers printed so far

childVars == <<pc, ev, job, dirty>>
runnerVars == <<rpc, run, mode, kids, i, ret, cur, out>>
vars == <<libVars, childVars, runnerVars>>

Ended == {"ok", "fail", "signal"}
Alive == {"clear", "add", "stamp", "execv", "args", "loop"}
Working == {"fork", "wait", "open", "read"}

Idx == 1 .. NProcs

TypeOK ==
  /\ LibTypeOK
  /\ pc \in [Pid -> {"free"} \cup Alive \cup Ended]
  /\ ev \in [Pid -> EventName]
  /\ job \in [Pid -> [run : 0 .. MaxRuns, mode : Mode]]
  /\ dirty \in SUBSET Pid
  /\ rpc \in {"off", "done"} \cup Working
  /\ run \in 0 .. MaxRuns
  /\ mode \in Mode
  /\ kids \in [Idx -> Pid \cup {None}]
  /\ i \in Idx
  /\ ret \in {"ok", "fail"}
  /\ cur \in Seq(Event)
  /\ out \in Seq(Seq(Event))

NoKids == [k \in Idx |-> None]

Init ==
  /\ LibInit
  /\ pc = [c \in Pid |-> "free"]
  /\ ev = [c \in Pid |-> "exec"]
  /\ job = [c \in Pid |-> [run |-> 0, mode |-> "startup"]]
  /\ dirty = {}
  /\ rpc = "off"
  /\ run = 0
  /\ mode = "startup"
  /\ kids = NoKids
  /\ i = 1
  /\ ret = "ok"
  /\ cur = <<>>
  /\ out = <<>>

-----------------------------------------------------------------------------
(***************************************************************************)
(* The children.                                                           *)
(***************************************************************************)

(* The end of a process: the kernel closes its descriptors and mappings.   *)
Exit(c, how) ==
  /\ pc' = [pc EXCEPT ![c] = how]
  /\ ctx' = [ctx EXCEPT ![c] = None]
  /\ fds' = [fds EXCEPT ![c] = 0]
  /\ pend' = [pend EXCEPT ![c] = 0]
  /\ UNCHANGED ev

(* run_child() before the exec: the close of an inherited context, and     *)
(* shared_events_clear(), whose result is not looked at.                   *)
Clear(c) ==
  /\ pc[c] = "clear"
  /\ \E o \in Open(None, AfterClose(ctx[c], fds[c]), c) :
       /\ shm' = [shm EXCEPT
                    ![c] = IF o.res = "ok"
                           THEN Cleared(Made(c, o.made))
                           ELSE Made(c, o.made)]
       /\ \/ /\ o.res = "crash"
             /\ Exit(c, "signal")
             /\ UNCHANGED dirty
          \/ /\ o.res # "crash"
             /\ dirty' = IF o.res = "err" THEN dirty \cup {c} ELSE dirty
             /\ ctx' = [ctx EXCEPT ![c] = o.at]
             /\ fds' = [fds EXCEPT ![c] = o.fds]
             /\ pc' = [pc EXCEPT ![c] = "add"]
             /\ ev' = [ev EXCEPT ![c] = "exec"]
             /\ UNCHANGED pend
  /\ UNCHANGED <<rptr, job, runnerVars>>

(* Where a child goes when shared_events_add() has returned 0 or -1:       *)
(* run_child() ignores the result, a benchmark exits when it is not 0.     *)
AfterAdd(e) ==
  CASE e = "exec"  -> "execv"
    [] e = "main"  -> "args"
    [] e = "start" -> "loop"
    [] e = "end"   -> "ok"

(* Mutated: a benchmark ignores the result, too.                           *)
AfterIgnoredAdd(e) == AfterAdd(e)

AfterFailedAdd(e) == IF e = "exec" THEN "execv" ELSE "fail"

(* A return from shared_events_add() that leaves the process the context   *)
(* "at" and n descriptors; the last call of a benchmark ends the process.  *)
Return(c, where, at, n) ==
  IF where \in Ended
  THEN Exit(c, where)
  ELSE /\ pc' = [pc EXCEPT ![c] = where]
       /\ ctx' = [ctx EXCEPT ![c] = at]
       /\ fds' = [fds EXCEPT ![c] = n]
       /\ pend' = [pend EXCEPT ![c] = 0]
       /\ UNCHANGED ev

(* shared_events_add() does not get as far as a slot: no context can be    *)
(* opened, or the buffer is full.                                          *)
AddFails(c) ==
  /\ pc[c] = "add"
  /\ \E o \in Open(ctx[c], fds[c], c) :
       /\ shm' = [shm EXCEPT ![c] = Made(c, o.made)]
       /\ \/ o.res = "crash" /\ Exit(c, "signal")
          \/ /\ \/ o.res = "err"
                \/ o.res = "ok" /\ o.at \in Pid /\ Full(o.at)
             /\ Return(c, AfterFailedAdd(ev[c]), o.at, o.fds)
  /\ UNCHANGED <<rptr, job, dirty, runnerVars>>

(* The first statement of shared_events_add() fails, clock_gettime(); that *)
(* there is no "exec" in its buffer, run_child() does not find out.        *)
ClockFails(c) ==
  /\ "clock" \in Faults
  /\ pc[c] = "add"
  /\ Return(c, AfterFailedAdd(ev[c]), ctx[c], fds[c])
  /\ dirty' = IF ev[c] = "exec" THEN dirty \cup {c} ELSE dirty
  /\ UNCHANGED <<shm, rptr, job, runnerVars>>

(* shared_events_add() through the events pointer of a Half context, which *)
(* nothing has assigned: the process dies, or it finds and changes memory  *)
(* that is no buffer and returns 0 or -1.                                  *)
AddWild(c) ==
  /\ pc[c] = "add"
  /\ ctx[c] = Half
  /\ \/ Exit(c, "signal")
     \/ \E where \in {AfterAdd(ev[c]), AfterFailedAdd(ev[c])} :
          Return(c, where, Half, fds[c])
  /\ UNCHANGED <<shm, rptr, job, dirty, runnerVars>>

(* shared_events_add() up to count++; the timestamp is still to be stored. *)
Add(c) ==
  /\ pc[c] = "add"
  /\ \E o \in Open(ctx[c], fds[c], c) :
       /\ o.res = "ok"
       /\ o.at \in Pid
       /\ ~Full(o.at)
       /\ shm' = [shm EXCEPT
                    ![o.at] = Appended([@ EXCEPT !.exists = TRUE],
                                       ev[c], c, job[c].run)]
       /\ ctx' = [ctx EXCEPT ![c] = o.at]
       /\ fds' = [fds EXCEPT ![c] = o.fds]
       /\ pend' = [pend EXCEPT ![c] = shm[o.at].count]
       /\ pc' = [pc EXCEPT ![c] = "stamp"]
  /\ UNCHANGED <<rptr, ev, job, dirty, runnerVars>>

(* The last assignment of shared_events_add(): the event gets its time.    *)
Stamp(c) ==
  /\ pc[c] = "stamp"
  /\ ctx[c] \in Pid
  /\ shm' = [shm EXCEPT ![ctx[c]].slot[pend[c]].stamp = job[c].run]
  /\ Return(c, AfterAdd(ev[c]), ctx[c], fds[c])
  /\ UNCHANGED <<rptr, job, dirty, runnerVars>>

(* "start" is given the time of a clock_gettime() of its own: when it      *)
(* fails the event stays, with the timestamp its slot had.                 *)
StampFails(c) ==
  /\ "stamp" \in Faults
  /\ pc[c] = "stamp"
  /\ ev[c] = "start"
  /\ Return(c, AfterFailedAdd(ev[c]), ctx[c], fds[c])
  /\ UNCHANGED <<shm, rptr, job, dirty, runnerVars>>

(* execv() replaces the program: no context, and no descriptor either      *)
(* (shm_open() sets FD_CLOEXEC).  When it fails the child exits.           *)
Exec(c) ==
  /\ pc[c] = "execv"
  /\ pc' = [pc EXCEPT ![c] = "add"]
  /\ ev' = [ev EXCEPT ![c] = "main"]
  /\ ctx' = [ctx EXCEPT ![c] = None]
  /\ fds' = [fds EXCEPT ![c] = 0]
  /\ UNCHANGED <<shm, rptr, pend, job, dirty, runnerVars>>

ExecFails(c) ==
  /\ "exec" \in Faults
  /\ pc[c] = "execv"
  /\ Exit(c, "fail")
  /\ UNCHANGED <<shm, rptr, job, dirty, runnerVars>>

(* main() of a benchmark, after "main": no argument, one that is a number  *)
(* of iterations, or anything else.                                        *)
Args(c) ==
  /\ pc[c] = "args"
  /\ \/ job[c].mode = "startup" /\ Exit(c, "ok")
     \/ job[c].mode = "usage" /\ Exit(c, "fail")
     \/ /\ job[c].mode = "loops"
        /\ pc' = [pc EXCEPT ![c] = "add"]
        /\ ev' = [ev EXCEPT ![c] = "start"]
        /\ UNCHANGED <<ctx, fds, pend>>
  /\ UNCHANGED <<shm, rptr, job, dirty, runnerVars>>

(* The loop of a benchmark ends.                                           *)
Loop(c) ==
  /\ pc[c] = "loop"
  /\ pc' = [pc EXCEPT ![c] = "add"]
  /\ ev' = [ev EXCEPT ![c] = "end"]
  /\ UNCHANGED <<libVars, job, dirty, runnerVars>>

(* A signal kills a child between any two of its steps.                    *)
Kill(c) ==
  /\ "kill" \in Faults
  /\ pc[c] \in Alive
  /\ Exit(c, "signal")
  /\ UNCHANGED <<shm, rptr, job, dirty, runnerVars>>

(* init reaps the children of a runner that is gone.                       *)
Orphan(c) == ~(rpc \in Working /\ job[c].run = run)

Reap(c) ==
  /\ pc[c] \in Ended
  /\ Orphan(c)
  /\ pc' = [pc EXCEPT ![c] = "free"]
  /\ UNCHANGED <<libVars, ev, job, dirty, runnerVars>>

ChildStep(c) ==
  \/ Clear(c) \/ Add(c) \/ AddFails(c) \/ AddWild(c) \/ ClockFails(c)
  \/ Stamp(c) \/ StampFails(c)
  \/ Exec(c) \/ ExecFails(c) \/ Args(c) \/ Loop(c)

-----------------------------------------------------------------------------
(***************************************************************************)
(* The runner.                                                             *)
(***************************************************************************)

(* The end of the runner with the exit status s.                           *)
RunnerExit(s) ==
  /\ rpc' = "done"
  /\ ret' = s
  /\ ctx' = [ctx EXCEPT ![RunnerProc] = None]
  /\ fds' = [fds EXCEPT ![RunnerProc] = 0]
  /\ rptr' = Uninit
  /\ cur' = <<>>

(* benchmarks.py starts a runner, on a program and its arguments.          *)
Invoke(m) ==
  /\ rpc \in {"off", "done"}
  /\ run < MaxRuns
  /\ run' = run + 1
  /\ mode' = m
  /\ rpc' = "fork"
  /\ kids' = NoKids
  /\ i' = 1
  /\ ret' = "ok"
  /\ out' = <<>>
  /\ UNCHANGED <<libVars, childVars, cur>>

(* run_child() in the parent: fork() copies the context of the runner.     *)
Fork(c) ==
  /\ rpc = "fork"
  /\ pc[c] = "free"
  /\ kids' = [kids EXCEPT ![i] = c]
  /\ pc' = [pc EXCEPT ![c] = "clear"]
  /\ ev' = [ev EXCEPT ![c] = "exec"]
  /\ job' = [job EXCEPT ![c] = [run |-> run, mode |-> mode]]
  /\ dirty' = dirty \ {c}
  /\ ctx' = [ctx EXCEPT ![c] = ctx[RunnerProc]]
  /\ fds' = [fds EXCEPT ![c] = fds[RunnerProc]]
  /\ rpc' = IF i = NProcs THEN "wait" ELSE "fork"
  /\ i' = IF i = NProcs THEN 1 ELSE i + 1
  /\ UNCHANGED <<shm, rptr, pend, run, mode, ret, cur, out>>

(* fork() fails: the runner exits at once, and leaves its children.        *)
ForkFails ==
  /\ "fork" \in Faults
  /\ rpc = "fork"
  /\ RunnerExit("fail")
  /\ UNCHANGED <<shm, pend, childVars, run, mode, kids, i, out>>

(* The step of the second loop of main() that leaves ret = r.              *)
NextWait(r) ==
  IF i < NProcs
  THEN /\ i' = i + 1
       /\ ret' = r
       /\ UNCHANGED <<rpc, ctx, fds, rptr, cur>>
  ELSE IF r = "ok"
       THEN /\ rpc' = "open"
            /\ i' = 1
            /\ UNCHANGED <<ret, ctx, fds, rptr, cur>>
       ELSE RunnerExit(r) /\ UNCHANGED i

(* Mutated: it waits for the good children only; it does not get the       *)
(* children that a signal has killed.                                      *)
WaitableIfOk(c) == pc[c] = "ok"
WaitableIfExited(c) == pc[c] \in {"ok", "fail"}

(* waitpid() returns a child that has terminated.                          *)
Waitable(c) == pc[c] \in Ended

(* wait_child(): only an exit with status 0 leaves ret as it was.          *)
Wait ==
  /\ rpc = "wait"
  /\ \E c \in Pid :
       /\ c = kids[i]
       /\ Waitable(c)
       /\ pc' = [pc EXCEPT ![c] = "free"]
       /\ NextWait(IF pc[c] = "ok" THEN ret ELSE "fail")
  /\ UNCHANGED <<shm, pend, ev, job, dirty, run, mode, kids, out>>

(* Mutated: a failed waitpid() counts as a child that ended well.          *)
WaitFailsUnseen ==
  /\ "waitpid" \in Faults
  /\ rpc = "wait"
  /\ NextWait(ret)
  /\ UNCHANGED <<shm, pend, childVars, run, mode, kids, out>>

WaitFails ==
  /\ "waitpid" \in Faults
  /\ rpc = "wait"
  /\ NextWait("fail")
  /\ UNCHANGED <<shm, pend, childVars, run, mode, kids, out>>

(* The step of the third loop of main() that leaves ret = r, the runner    *)
(* the context "at" and n descriptors.                                     *)
NextPrint(r, at, n) ==
  IF i < NProcs
  THEN /\ i' = i + 1
       /\ rpc' = "open"
       /\ ret' = r
       /\ ctx' = [ctx EXCEPT ![RunnerProc] = at]
       /\ fds' = [fds EXCEPT ![RunnerProc] = n]
       /\ rptr' = Uninit
       /\ cur' = <<>>
  ELSE RunnerExit(r) /\ UNCHANGED i

(* print_events(): shared_events_open(), and shared_events_rewind(), which *)
(* has a context and does not fail.                                        *)
PrintOpen ==
  /\ rpc = "open"
  /\ \E c \in Pid :
       /\ c = kids[i]
       /\ \E o \in Open(ctx[RunnerProc], fds[RunnerProc], c) :
            /\ shm' = [shm EXCEPT ![c] = Made(c, o.made)]
            /\ \/ /\ o.res = "crash"
                  /\ RunnerExit("fail")
                  /\ UNCHANGED i
               \/ /\ o.res = "err"
                  /\ NextPrint("fail", o.at, o.fds)
               \/ /\ o.res = "ok"
                  /\ ctx' = [ctx EXCEPT ![RunnerProc] = o.at]
                  /\ fds' = [fds EXCEPT ![RunnerProc] = o.fds]
                  /\ rptr' = Rewound
                  /\ rpc' = "read"
                  /\ UNCHANGED <<ret, cur, i>>
  /\ UNCHANGED <<pend, childVars, run, mode, kids, out>>

(* shared_events_read() has an event, which print_events() prints.         *)
PrintRead ==
  /\ rpc = "read"
  /\ \E d \in Pid, r \in ReadPtrs :
       /\ ctx[RunnerProc] = d
       /\ r # shm[d].count
       /\ r \in Slots
       /\ cur' = Append(cur, shm[d].slot[r])
       /\ rptr' = r + 1
  /\ UNCHANGED <<shm, ctx, fds, pend, childVars, rpc, run, mode, kids, i, ret,
                 out>>

(* shared_events_read() returns NULL: the end of print_events().           *)
PrintEnd ==
  /\ rpc = "read"
  /\ \E d \in Pid, r \in ReadPtrs : ctx[RunnerProc] = d /\ r = shm[d].count
  /\ out' = Append(out, cur)
  /\ NextPrint(ret, None, AfterClose(ctx[RunnerProc], fds[RunnerProc]))
  /\ UNCHANGED <<shm, pend, childVars, run, mode, kids>>

(* shared_events_read() through a Half context: the runner dies, or finds  *)
(* memory that looks like an event, or memory that looks like the end.     *)
PrintWild ==
  /\ rpc = "read"
  /\ ctx[RunnerProc] = Half
  /\ \/ /\ RunnerExit("fail")
        /\ UNCHANGED <<i, out>>
     \/ /\ Len(cur) < MaxEvents
        /\ cur' = Append(cur, Blank)
        /\ UNCHANGED <<rpc, i, ret, ctx, fds, rptr, out>>
     \/ /\ out' = Append(out, cur)
        /\ NextPrint(ret, None, fds[RunnerProc])
  /\ UNCHANGED <<shm, pend, childVars, run, mode, kids>>

(* A signal kills the runner; its children go on.                          *)
RunnerKilled ==
  /\ "kill" \in Faults
  /\ rpc \in Working
  /\ RunnerExit("fail")
  /\ UNCHANGED <<shm, pend, childVars, run, mode, kids, i, out>>

RunnerStep == Wait \/ PrintOpen \/ PrintRead \/ PrintEnd \/ PrintWild

(* All the runs are over: the model stops here.                            *)
Finished ==
  /\ rpc = "done"
  /\ run = MaxRuns
  /\ \A c \in Pid : pc[c] = "free"
  /\ UNCHANGED vars

Next ==
  \/ \E c \in Pid : ChildStep(c) \/ Kill(c) \/ Reap(c) \/ Fork(c)
  \/ \E m \in Modes : Invoke(m)
  \/ ForkFails \/ WaitFails \/ RunnerStep \/ RunnerKilled
  \/ Finished

Spec == Init /\ [][Next]_vars

-----------------------------------------------------------------------------
(***************************************************************************)
(* Fairness: the kernel keeps scheduling every live process, and init      *)
(* keeps reaping.  Nothing makes a failure or a signal happen.             *)
(***************************************************************************)
Fairness ==
  /\ \A c \in Pid : WF_vars(ChildStep(c)) /\ WF_vars(Reap(c))
  /\ WF_vars(\E c \in Pid : Fork(c))
  /\ WF_vars(RunnerStep)

FairSpec == Spec /\ Fairness

-----------------------------------------------------------------------------
(***************************************************************************)
(* Properties.                                                             *)
(***************************************************************************)

(* Some child of the current run has a buffer that is not cleared or does  *)
(* not start with "exec".                                                  *)
Tainted == \E k \in Idx : kids[k] \in dirty

(* A runner that exits with status 0 has printed one record per CPU, in    *)
(* the order of the forks; each is complete, has only events that this     *)
(* very child recorded in this run, and no event whose timestamp was not   *)
(* yet written: nothing is left over from an earlier process with the same *)
(* pid, and no buffer is printed twice.  main(), print_events(),           *)
(* run_child() and the benchmarks together are to guarantee it, whatever   *)
(* fails or is killed, but for the two results that run_child() ignores: a *)
(* child that could not clear its buffer, or not record "exec" in it.      *)
ReportFresh ==
  rpc = "done" /\ ret = "ok" /\ ~Tainted
    => out = [k \in Idx |-> Record(kids[k], run, mode)]

(* While the runner prints, all of its children have terminated and have   *)
(* been waited for, so nobody writes the buffers it reads (main() prints   *)
(* only when every wait_child() has returned 0).                           *)
ReportAfterReap ==
  rpc \in {"open", "read"} => \A k \in Idx : pc[kids[k]] = "free"

(* The events in the buffer of a pid change only while a child with that   *)
(* pid is alive: neither another child, nor the runner when it opens the   *)
(* buffer to print it, nor the next run before it forks that pid, disturbs *)
(* what is recorded there.                                                 *)
OwnerWrites ==
  [][\A c \in Pid :
       \/ pc[c] \in Alive
       \/ /\ shm'[c].count = shm[c].count
          /\ shm'[c].slot = shm[c].slot]_vars

(* A process holds a descriptor exactly while it has a buffer mapped:      *)
(* shared_events_close() closes what shared_events_open() opened, however  *)
(* many buffers the runner prints one after the other.  It does not hold   *)
(* when a stale errno makes the open open twice.                           *)
DescriptorsMatch ==
  "stale_errno" \notin Faults =>
    \A p \in Proc : fds[p] = (IF ctx[p] \in Pid THEN 1 ELSE 0)

(* assert(ctx->events) of shared_events_read() and shared_events_rewind(): *)
(* when the runner reads, its context has a mapping.                       *)
AssertEvents == rpc = "read" => ctx[RunnerProc] # Half

(* Every invocation comes to an end: main() waits for no child that does   *)
(* not terminate, and print_events() finds the end of every buffer.        *)
RunTerminates == rpc \in Working ~> rpc = "done"

(* Every child is reaped in the end, by its runner or, when the runner is  *)
(* gone or could not wait, by init.                                        *)
ChildrenReaped == \A c \in Pid : pc[c] # "free" ~> pc[c] = "free"

(* The runner implements the contract of module RunnerContract.            *)
Phase ==
  IF rpc = "off" THEN "idle"
  ELSE IF rpc \in Working THEN "running"
  ELSE IF ret = "fail" THEN "failed"
  ELSE IF Tainted THEN "tainted"
  ELSE "delivered"

Contract == INSTANCE RunnerContract WITH
  phase <- Phase,
  report <- IF Phase = "delivered" THEN out ELSE <<>>

(* Whatever the environment does, an invocation either fails as a whole or *)
(* delivers what benchmarks.py takes its exit status 0 to mean.            *)
ImplementsContract == Contract!Spec

=============================================================================
