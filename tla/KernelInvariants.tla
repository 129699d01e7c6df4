-------------------------- MODULE KernelInvariants --------------------------
(***************************************************************************)
(* The inductive invariant of module KernelBenchmark, from which module    *)
(* KernelProofs proves its safety properties.                              *)
(***************************************************************************)
EXTENDS KernelBenchmark

Allocated == {"init", "start", "wait", "sum", "free"}

(* A read has an array from kmalloc() to kfree(), and shares it with no    *)
(* other.                                                                  *)
ArraysOK ==
  /\ \A k \in Read : rpc[k] \in Allocated => threads[k] \in Block
  /\ \A k \in Read : rpc[k] \in {"new", "count", "done"} => threads[k] = None
  /\ \A j, k \in Read : threads[j] = threads[k] /\ threads[j] # None => j = k

(* What holds in every state, whatever has happened: a read that is going  *)
(* on has the module loaded, counts each CPU once, and a thread that is    *)
(* not done points to some block.                                          *)
ShapeOK ==
  /\ \A k \in Read : rpc[k] \in Active => loaded
  /\ \A k \in Read : rpc[k] \in {"new", "count"} => online_cpus[k] <= next[k]
  /\ \A t \in Read \X Cpu : thr[t].pc \in Touching => thr[t].at \in Block

(* The CPUs online are those that read k has counted, and the loops of     *)
(* this read find one after the other.                                     *)
CpusOK(k) ==
  rpc[k] \in Allocated =>
    /\ online = 0 .. (online_cpus[k] - 1)
    /\ next[k] <= online_cpus[k]
    /\ rpc[k] = "free" => next[k] = 0

(* Where read k stands with CPU c: the record is ready, the thread of this *)
(* CPU has been started, and its completion has been waited for.           *)
IsReady(k, c) ==
  \/ rpc[k] = "init" /\ c < next[k]
  \/ rpc[k] \in {"start", "wait", "sum", "free"}

IsStarted(k, c) ==
  \/ rpc[k] = "start" /\ c < next[k]
  \/ rpc[k] = "wait" /\ c >= next[k]

(* A thread has work to do only between its start and the wait for it, and *)
(* as long as it has, its completion is not complete.                      *)
ThreadOK(k, c) ==
  /\ rpc[k] \in {"new", "count", "init"} => thr[<<k, c>>].pc = "none"
  /\ rpc[k] = "start" /\ c >= next[k] => thr[<<k, c>>].pc = "none"
  /\ rpc[k] \in Allocated /\ c < online_cpus[k] /\ IsReady(k, c)
       => /\ rec[threads[k]][c].end \in Nat
          /\ rpc[k] \in {"init", "start"} => rec[threads[k]][c].end = 0
  /\ rpc[k] \in {"new", "count", "init", "start"} => ~main_start[k]
  /\ rpc[k] = "start" => thr[<<k, c>>].pc \notin {"loop", "store", "complete"}
  /\ thr[<<k, c>>].pc \in Touching =>
       /\ IsStarted(k, c)
       /\ c < online_cpus[k]
       /\ thr[<<k, c>>].at = threads[k]
       /\ rec[threads[k]][c].end = 0
  /\ thr[<<k, c>>].pc = "born" => rec[threads[k]][c].prev = k
  /\ thr[<<k, c>>].pc = "gate" => thr[<<k, c>>].prev = k

(* What thread c of read k has measured at each of its points, and what    *)
(* the read finds when the completion is complete.                         *)
MeasureOK(k, c) ==
  /\ thr[<<k, c>>].pc \in {"born", "gate"} => thr[<<k, c>>].i = 0
  /\ thr[<<k, c>>].pc = "loop" => thr[<<k, c>>].i <= event_count
  /\ thr[<<k, c>>].pc = "store" => thr[<<k, c>>].i = event_count
  /\ rpc[k] \in Allocated /\ c < online_cpus[k] =>
       /\ thr[<<k, c>>].pc = "complete"
            => rec[threads[k]][c].time = event_count
       /\ IsReady(k, c) /\ rec[threads[k]][c].end # 0
            => rec[threads[k]][c].time = event_count
       /\ (rpc[k] = "wait" /\ c < next[k]) \/ rpc[k] \in {"sum", "free"}
            => rec[threads[k]][c].time = event_count

SumOK(k) ==
  /\ rpc[k] \in {"new", "count", "init", "start", "wait"} => time[k] = 0
  /\ rpc[k] = "sum" => time[k] = next[k] * event_count
  /\ rpc[k] = "free" => time[k] = online_cpus[k] * event_count

(* The invariant that every step keeps.                                    *)
KernelInv ==
  /\ TypeOK
  /\ ArraysOK
  /\ ShapeOK
  /\ Calm => \A k \in Read : CpusOK(k) /\ \A c \in Cpu : ThreadOK(k, c)
  /\ seen = {} => \A k \in Read : SumOK(k) /\ \A c \in Cpu : MeasureOK(k, c)

=============================================================================
