-------------------------- MODULE KernelBenchmark ---------------------------
(***************************************************************************)
(* The kernel module src/kernel-benchmark/lttng_benchmark.c.               *)
(*                                                                         *)
(* A read of its file "time" (time_show()) counts the CPUs, allocates one  *)
(* record per CPU, starts one thread per CPU, lets them all go at once,    *)
(* waits for each to complete, adds up their times and frees the records.  *)
(* The threads have pointers to their record and to a completion on the    *)
(* stack of the reader, and nothing but the waits keeps these alive.       *)
(*                                                                         *)
(* Each read is a call of time_show() by some process; calls may overlap.  *)
(* A thread is named by the read that started it and its CPU.  Its time is *)
(* the number of the events it has generated, which is what it measures.   *)
(***************************************************************************)
EXTENDS Naturals

CONSTANTS
  NCpus,         \* the CPUs that can be online
  Block,         \* the memory that kmalloc() hands out
  None,          \* no memory; no read
  MaxReads,      \* bound on the reads of "time"
  MaxCount,      \* bound on event_count
  DefaultCount,  \* default_count
  Faults         \* what may go wrong

FaultKind == {"kmalloc", "kthread", "signal", "hotplug", "store"}

ASSUME NCpusAssumption == NCpus \in Nat \ {0}
ASSUME MaxReadsAssumption == MaxReads \in Nat
ASSUME CountAssumption == MaxCount \in Nat /\ DefaultCount \in 0 .. MaxCount
ASSUME NoneAssumption == None \notin Block /\ None \notin Nat
ASSUME KernelFaultsAssumption == Faults \subseteq FaultKind

Cpu == 0 .. (NCpus - 1)
Read == 1 .. MaxReads

VARIABLES
  loaded,       \* is the module loaded
  online,       \* the CPUs online
  event_count,  \* the global of that name
  rpc,          \* where each read is
  next,         \* in each read, where for_each_online_cpu() goes on
  online_cpus,  \* the local of that name of each read
  threads,      \* the array of each read
  main_start,   \* in each read, has its completion been completed
  time,         \* the local of that name of each read
  sig,          \* the reads whose process has a signal pending
  rec,          \* the records in each block
  thr,          \* the threads
  seen          \* what has disturbed a read so far

readVars == <<rpc, next, online_cpus, threads, main_start, time, sig>>
vars == <<loaded, online, event_count, readVars, rec, thr, seen>>

Active == {"count", "init", "start", "wait", "sum", "free"}

(* The points of a thread before it uses its record, or main_start, again. *)
Touching == {"born", "gate", "loop", "store", "complete"}

(* The completion "end" of a record: how often it has been completed and   *)
(* not waited for, or None when it has not been initialized.               *)
Record == [end : Nat \cup {None}, time : 0 .. MaxCount, prev : Read \cup {None}]
Thread == [pc : {"none", "exit", "lost"} \cup Touching,
           at : Block \cup {None}, prev : Read \cup {None},
           i : 0 .. MaxCount]

TypeOK ==
  /\ loaded \in BOOLEAN
  /\ online \in SUBSET Cpu
  /\ event_count \in 0 .. MaxCount
  /\ rpc \in [Read -> {"new", "done", "lost"} \cup Active]
  /\ next \in [Read -> 0 .. NCpus]
  /\ online_cpus \in [Read -> 0 .. NCpus]
  /\ threads \in [Read -> Block \cup {None}]
  /\ main_start \in [Read -> BOOLEAN]
  /\ time \in [Read -> Nat]
  /\ sig \in SUBSET Read
  /\ rec \in [Block -> [Cpu -> Record]]
  /\ thr \in [Read \X Cpu -> Thread]
  /\ seen \in SUBSET {"signal", "hotplug", "hole", "store"}

NoThread == [pc |-> "none", at |-> None, prev |-> None, i |-> 0]
LostThread == [pc |-> "lost", at |-> None, prev |-> None, i |-> 0]

(* The memory kmalloc() returns is not initialized.                        *)
Garbage == [end |-> None, time |-> 0, prev |-> None]

Init ==
  /\ loaded = FALSE
  /\ online \in {cpus \in SUBSET Cpu : 0 \in cpus}
  /\ event_count = DefaultCount
  /\ rpc = [k \in Read |-> "new"]
  /\ next = [k \in Read |-> 0]
  /\ online_cpus = [k \in Read |-> 0]
  /\ threads = [k \in Read |-> None]
  /\ main_start = [k \in Read |-> FALSE]
  /\ time = [k \in Read |-> 0]
  /\ sig = {}
  /\ rec = [b \in Block |-> [c \in Cpu |-> Garbage]]
  /\ thr = [t \in Read \X Cpu |-> NoThread]
  /\ seen = {}

Reading == \E k \in Read : rpc[k] \in Active

-----------------------------------------------------------------------------
(***************************************************************************)
(* The module, its file "count", and what is around it.                    *)
(***************************************************************************)

(* lttng_benchmark_init(); when it fails nothing is left.                  *)
Load ==
  /\ ~loaded
  /\ loaded' = TRUE
  /\ event_count' = DefaultCount
  /\ UNCHANGED <<online, readVars, rec, thr, seen>>

(* The removal of the files of a module waits for the reads that are going *)
(* on, for ever for one that has been killed in the middle.                *)
(* Mutated: it does not.                                                   *)
DrainedAtOnce == TRUE

Drained == \A k \in Read : rpc[k] \in {"new", "done"}

(* lttng_benchmark_cleanup(): nothing waits for the threads, whose code is *)
(* freed.                                                                  *)
Unload ==
  /\ loaded
  /\ Drained
  /\ loaded' = FALSE
  /\ thr' = [t \in Read \X Cpu |->
               IF thr[t].pc = "none" THEN NoThread ELSE LostThread]
  /\ UNCHANGED <<online, event_count, readVars, rec, seen>>

(* count_store(): before a read, as lttng_kernel_benchmark.py does it, or, *)
(* as a fault, at any time.                                                *)
StoreCount(v) ==
  /\ loaded
  /\ "store" \in Faults \/ ~Reading
  /\ event_count' = v
  /\ seen' = IF Reading /\ v # event_count THEN seen \cup {"store"} ELSE seen
  /\ UNCHANGED <<loaded, online, readVars, rec, thr>>

(* A CPU other than the first goes offline or comes back: between reads,   *)
(* as linux_cpu.py does it, or, as a fault, at any time.                   *)
Hotplug(c) ==
  /\ c # 0
  /\ "hotplug" \in Faults \/ ~Reading
  /\ online' = IF c \in online THEN online \ {c} ELSE online \cup {c}
  /\ seen' = IF Reading THEN seen \cup {"hotplug"} ELSE seen
  /\ UNCHANGED <<loaded, event_count, readVars, rec, thr>>

Signal(k) ==
  /\ "signal" \in Faults
  /\ rpc[k] \in Active
  /\ sig' = sig \cup {k}
  /\ UNCHANGED <<loaded, online, event_count, rpc, next, online_cpus, threads,
                 main_start, time, rec, thr, seen>>

-----------------------------------------------------------------------------
(***************************************************************************)
(* time_show().                                                            *)
(***************************************************************************)

(* for_each_online_cpu() in read k: c is its next CPU; it has no more.     *)
AtCpu(k, c) ==
  /\ c \in online
  /\ c >= next[k]
  /\ \A d \in online : d >= next[k] => d >= c

AtEnd(k) == \A d \in online : d < next[k]

Advance(k, c) == next' = [next EXCEPT ![k] = c + 1]

(* The loop of read k is over, and the next starts.                        *)
Proceed(k, where) ==
  /\ AtEnd(k)
  /\ rpc' = [rpc EXCEPT ![k] = where]
  /\ next' = [next EXCEPT ![k] = 0]

Begin(k) ==
  /\ loaded
  /\ rpc[k] = "new"
  /\ k > 1 => rpc[k - 1] # "new"
  /\ rpc' = [rpc EXCEPT ![k] = "count"]
  /\ UNCHANGED <<loaded, online, event_count, next, online_cpus, threads,
                 main_start, time, sig, rec, thr, seen>>

CountCpu(k) ==
  /\ rpc[k] = "count"
  /\ \E c \in Cpu : AtCpu(k, c) /\ Advance(k, c)
  /\ online_cpus' = [online_cpus EXCEPT ![k] = @ + 1]
  /\ UNCHANGED <<loaded, online, event_count, rpc, threads, main_start, time, sig,
                 rec, thr, seen>>

(* kmalloc() may hand out what an earlier read has freed, as it was left.  *)
Alloc(k) ==
  /\ rpc[k] = "count"
  /\ Proceed(k, "init")
  /\ \E b \in Block :
       /\ \A j \in Read : threads[j] # b
       /\ threads' = [threads EXCEPT ![k] = b]
  /\ seen' = IF online = 0 .. (online_cpus[k] - 1) THEN seen ELSE seen \cup {"hole"}
  /\ UNCHANGED <<loaded, online, event_count, online_cpus, main_start, time, sig, rec,
                 thr>>

(* kmalloc() returns NULL, and the first record written kills the reader.  *)
AllocFails(k) ==
  /\ "kmalloc" \in Faults
  /\ rpc[k] = "count"
  /\ Proceed(k, "lost")
  /\ UNCHANGED <<loaded, online, event_count, online_cpus, threads, main_start, time,
                 sig, rec, thr, seen>>

(* init_completion(), and the time.                                        *)
(* Mutated: the completion is complete from the start.                     *)
InitedDone(r) == [r EXCEPT !.end = 1, !.time = 0]

Inited(r) == [r EXCEPT !.end = 0, !.time = 0]

InitRecord(k) ==
  /\ rpc[k] = "init"
  /\ \/ \E c \in Cpu :
          /\ AtCpu(k, c)
          /\ Advance(k, c)
          /\ rec' = [rec EXCEPT ![threads[k]][c] = Inited(@)]
          /\ UNCHANGED rpc
     \/ Proceed(k, "start") /\ UNCHANGED rec
  /\ UNCHANGED <<loaded, online, event_count, online_cpus, threads, main_start, time,
                 sig, thr, seen>>

(* Mutated: the thread does not wait for main_start.                       *)
UngatedThread(b) == [pc |-> "loop", at |-> b, prev |-> None, i |-> 0]

NewThread(b) == [pc |-> "born", at |-> b, prev |-> None, i |-> 0]

(* kthread_run() starts a thread, or fails, which nobody looks at.         *)
StartThread(k) ==
  /\ rpc[k] = "start"
  /\ \E c \in Cpu :
       /\ AtCpu(k, c)
       /\ Advance(k, c)
       /\ rec' = [rec EXCEPT ![threads[k]][c].prev = k]
       /\ \/ thr' = [thr EXCEPT ![<<k, c>>] = NewThread(threads[k])]
          \/ "kthread" \in Faults /\ UNCHANGED thr
  /\ UNCHANGED <<loaded, online, event_count, rpc, online_cpus, threads, main_start,
                 time, sig, seen>>

(* Mutated: main_start is not completed.                                   *)
ReleaseNobody(k) ==
  /\ rpc[k] = "start"
  /\ Proceed(k, "wait")
  /\ UNCHANGED <<loaded, online, event_count, online_cpus, threads, main_start, time,
                 sig, rec, thr, seen>>

(* complete_all(&main_start).                                              *)
Release(k) ==
  /\ rpc[k] = "start"
  /\ Proceed(k, "wait")
  /\ main_start' = [main_start EXCEPT ![k] = TRUE]
  /\ UNCHANGED <<loaded, online, event_count, online_cpus, threads, time, sig, rec, thr,
                 seen>>

(* Mutated: the wait is not interruptible.                                 *)
NeverInterrupted(k) == FALSE

Interrupted(k) == k \in sig

(* wait_for_completion_interruptible(), whose result is not looked at: a   *)
(* pending signal ends the wait for a completion that is still to come.    *)
WaitEnd(k) ==
  /\ rpc[k] = "wait"
  /\ \/ \E c \in Cpu :
          /\ AtCpu(k, c)
          /\ Advance(k, c)
          /\ \/ /\ rec[threads[k]][c].end # 0
                /\ rec' = [rec EXCEPT ![threads[k]][c].end =
                             IF @ = None THEN None ELSE @ - 1]
                /\ UNCHANGED seen
             \/ /\ rec[threads[k]][c].end = 0
                /\ Interrupted(k)
                /\ seen' = seen \cup {"signal"}
                /\ UNCHANGED rec
          /\ UNCHANGED rpc
     \/ Proceed(k, "sum") /\ UNCHANGED <<rec, seen>>
  /\ UNCHANGED <<loaded, online, event_count, online_cpus, threads, main_start, time,
                 sig, thr>>

AddTime(k) ==
  /\ rpc[k] = "sum"
  /\ \/ \E c \in Cpu :
          /\ AtCpu(k, c)
          /\ Advance(k, c)
          /\ time' = [time EXCEPT ![k] = @ + rec[threads[k]][c].time]
          /\ UNCHANGED rpc
     \/ Proceed(k, "free") /\ UNCHANGED time
  /\ UNCHANGED <<loaded, online, event_count, online_cpus, threads, main_start, sig,
                 rec, thr, seen>>

(* kfree() and the return: the records and main_start are gone.            *)
Return(k) ==
  /\ rpc[k] = "free"
  /\ rpc' = [rpc EXCEPT ![k] = "done"]
  /\ threads' = [threads EXCEPT ![k] = None]
  /\ rec' = [rec EXCEPT ![threads[k]] = [c \in Cpu |-> [@[c] EXCEPT !.end = None]]]
  /\ next' = [next EXCEPT ![k] = 0]
  /\ online_cpus' = [online_cpus EXCEPT ![k] = 0]
  /\ time' = [time EXCEPT ![k] = 0]
  /\ sig' = sig \ {k}
  /\ UNCHANGED <<loaded, online, event_count, main_start, thr, seen>>

(* A record that the array has no room for, or whose completion has not    *)
(* been initialized: the access may hang or kill the reader, or do what it *)
(* does for a good one.                                                    *)
ReaderLost(k) ==
  /\ rpc[k] \in {"init", "start", "wait", "sum"}
  /\ \E c \in Cpu :
       /\ AtCpu(k, c)
       /\ \/ c >= online_cpus[k]
          \/ rpc[k] = "wait" /\ rec[threads[k]][c].end = None
  /\ rpc' = [rpc EXCEPT ![k] = "lost"]
  /\ UNCHANGED <<loaded, online, event_count, next, online_cpus, threads, main_start,
                 time, sig, rec, thr, seen>>

ReadStep(k) ==
  \/ CountCpu(k) \/ Alloc(k) \/ InitRecord(k) \/ StartThread(k) \/ Release(k)
  \/ WaitEnd(k) \/ AddTime(k) \/ Return(k)

-----------------------------------------------------------------------------
(***************************************************************************)
(* benchmark_thread(); t is a read and a CPU.                              *)
(***************************************************************************)
Goto(t, where) == thr' = [thr EXCEPT ![t].pc = where]

UnchangedByThreads ==
  UNCHANGED <<loaded, online, event_count, readVars, seen>>

(* It fetches thread->prev,                                                *)
FetchPrev(t) ==
  /\ thr[t].pc = "born"
  /\ thr' = [thr EXCEPT ![t].pc = "gate", ![t].prev = rec[thr[t].at][t[2]].prev]
  /\ UNCHANGED rec
  /\ UnchangedByThreads

(* waits for it; kernel threads get no signals,                            *)
PassGate(t) ==
  /\ thr[t].pc = "gate"
  /\ thr[t].prev \in Read
  /\ main_start[thr[t].prev]
  /\ thr' = [thr EXCEPT ![t].pc = "loop", ![t].prev = None]
  /\ UNCHANGED rec
  /\ UnchangedByThreads

(* Mutated: one event too many.                                            *)
OneMore(t) == thr[t].i <= event_count

More(t) == thr[t].i < event_count

(* generates events, comparing with event_count before each,               *)
Generate(t) ==
  /\ thr[t].pc = "loop"
  /\ IF More(t)
     THEN thr' = [thr EXCEPT ![t].i = @ + 1]
     ELSE Goto(t, "store")
  /\ UNCHANGED rec
  /\ UnchangedByThreads

(* stores the time they took,                                              *)
StoreTime(t) ==
  /\ thr[t].pc = "store"
  /\ rec' = [rec EXCEPT ![thr[t].at][t[2]].time = thr[t].i]
  /\ thr' = [thr EXCEPT ![t].pc = "complete", ![t].i = 0]
  /\ UnchangedByThreads

(* completes thread->end,                                                  *)
Complete(t) ==
  /\ thr[t].pc = "complete"
  /\ rec' = [rec EXCEPT ![thr[t].at][t[2]].end = IF @ = None THEN None ELSE @ + 1]
  /\ thr' = [thr EXCEPT ![t].pc = "exit", ![t].at = None]
  /\ UnchangedByThreads

(* and is gone.                                                            *)
ThreadExit(t) ==
  /\ thr[t].pc = "exit"
  /\ Goto(t, "none")
  /\ UNCHANGED rec
  /\ UnchangedByThreads

(* Thread t still has the record and the main_start it was started with.   *)
HasRecord(t) ==
  /\ rpc[t[1]] \in Active
  /\ t[2] < online_cpus[t[1]]
  /\ rec[threads[t[1]]][t[2]].end # None

(* Without them, an access may hang or kill the thread, or do what it does *)
(* for good ones, to whoever owns the memory now.                          *)
ThreadLost(t) ==
  /\ thr[t].pc \in {"born", "gate", "store", "complete"}
  /\ ~HasRecord(t)
  /\ thr' = [thr EXCEPT ![t] = LostThread]
  /\ UNCHANGED rec
  /\ UnchangedByThreads

ThreadStep(t) ==
  \/ FetchPrev(t) \/ PassGate(t) \/ Generate(t) \/ StoreTime(t) \/ Complete(t)
  \/ ThreadExit(t)

-----------------------------------------------------------------------------
Next ==
  \/ Load \/ Unload
  \/ \E v \in 0 .. MaxCount : StoreCount(v)
  \/ \E c \in Cpu : Hotplug(c)
  \/ \E k \in Read : Signal(k) \/ Begin(k) \/ ReadStep(k) \/ AllocFails(k) \/ ReaderLost(k)
  \/ \E t \in Read \X Cpu : ThreadStep(t) \/ ThreadLost(t)

Spec == Init /\ [][Next]_vars

(* The kernel schedules every reader and every thread that can run.        *)
Fairness ==
  /\ \A k \in Read : WF_vars(ReadStep(k))
  /\ \A t \in Read \X Cpu : WF_vars(ThreadStep(t))

FairSpec == Spec /\ Fairness

-----------------------------------------------------------------------------
(***************************************************************************)
(* Properties.                                                             *)
(***************************************************************************)

(* No wait was cut short, no CPU came or went during a read, and the CPUs  *)
(* online were numbered without a hole.                                    *)
Calm == seen \cap {"signal", "hotplug", "hole"} = {}

(* time_show() does not free or leave what a thread still uses: while a    *)
(* thread has yet to touch its record or main_start, they are there, the   *)
(* record is within the array and has been initialized.  Failures of       *)
(* kthread_run(), overlapping reads and stores to "count" do not change    *)
(* that.                                                                   *)
RecordsAlive ==
  Calm => \A t \in Read \X Cpu : thr[t].pc \in Touching => HasRecord(t)

(* What a read of "time" returns is the sum of the times that all the      *)
(* threads of this read took for event_count events each: no thread is     *)
(* missed or counted twice, and none reports before it has finished.       *)
TimeComplete ==
  \A k \in Read :
    rpc[k] = "free" /\ seen = {} => time[k] = online_cpus[k] * event_count

(* complete_all(&main_start) is a barrier: no thread takes a time before   *)
(* a thread has been started for every CPU.                                *)
StartTogether ==
  Calm => \A t \in Read \X Cpu :
    thr[t].pc \in {"loop", "store", "complete"} => rpc[t[1]] # "start"

(* lttng_benchmark_cleanup() does not take the code away from a thread     *)
(* that has something left to do but to return.                            *)
UnloadAfterThreads ==
  [][loaded /\ ~loaded' /\ Calm
       => \A t \in Read \X Cpu : thr[t].pc \notin Touching]_vars

(* A read waits for a thread that kthread_run() did not start.             *)
Unstarted(k) ==
  /\ rpc[k] = "wait"
  /\ \E c \in Cpu : AtCpu(k, c) /\ thr[<<k, c>>].pc = "none" /\ rec[threads[k]][c].end = 0

(* A read comes to an end, interrupted or not, whatever is stored in       *)
(* "count" meanwhile, while the CPUs stay, unless it waits for a thread    *)
(* that was never started.                                                 *)
ReadReturns ==
  \A k \in Read :
    rpc[k] \in Active
      ~> rpc[k] \notin Active \/ Unstarted(k) \/ seen \cap {"hotplug", "hole"} # {}

(* A read that gets a signal comes to an end whatever has gone wrong: it   *)
(* can be got rid of also when it waits for a thread that does not exist.  *)
SignalReturns == \A k \in Read : k \in sig ~> rpc[k] \notin Active

=============================================================================
