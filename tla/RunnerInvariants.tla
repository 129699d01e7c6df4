-------------------------- MODULE RunnerInvariants --------------------------
(***************************************************************************)
(* The inductive invariant of module Runner, from which module             *)
(* RunnerProofs proves that a report is complete and fresh.  TLC checks it *)
(* on the small instances.                                                 *)
(***************************************************************************)
EXTENDS Runner

(* The number of the event that a child records, and how many events the   *)
(* buffer of a clean child (one that could clear it, and record "exec")    *)
(* must hold.                                                              *)
Nth(e) ==
  CASE e = "exec"  -> 1
    [] e = "main"  -> 2
    [] e = "start" -> 3
    [] e = "end"   -> 4

Recorded(c) ==
  CASE pc[c] = "add"   -> Nth(ev[c]) - 1
    [] pc[c] = "stamp" -> Nth(ev[c])
    [] pc[c] = "execv" -> 1
    [] pc[c] = "args"  -> 2
    [] pc[c] = "loop"  -> 3
    [] pc[c] = "ok"    -> ScriptLen(job[c].mode)

(* Slot n-1 of the buffer of c has the n-th event of c in run r, of which  *)
(* the timestamp may be missing.                                           *)
Named(c, n, r) ==
  /\ shm[c].slot[n - 1].name = EventAt[n]
  /\ shm[c].slot[n - 1].by = c
  /\ shm[c].slot[n - 1].born = r

(* The buffer of c has exactly the first n events of c in run r.           *)
Holds(c, n, r) ==
  /\ shm[c].count = n
  /\ \A j \in 1 .. n : shm[c].slot[j - 1] = Genuine(j, c, r)

(* A process that has a buffer mapped has its descriptor.                  *)
FdsInv == \A p \in Proc : ctx[p] \in Pid => fds[p] > 0

(* A child has no mapping but of its own buffer; without one, or with one  *)
(* of a failed open, it is at the start of a program.                      *)
CtxOK(c) ==
  /\ ctx[c] \in {None, Half, c}
  /\ pc[c] \in {"free", "clear"} \cup Ended => ctx[c] = None
  /\ pc[c] = "stamp" => ctx[c] = c
  /\ ctx[c] = Half => c \in dirty
  /\ pc[c] = "add" /\ ev[c] = "exec" /\ c \notin dirty => ctx[c] = c

(* A child records "start" and "end" only when it has iterations to do,    *)
(* and does not end well when its arguments are wrong.                     *)
ScriptOK(c) ==
  /\ pc[c] \in {"add", "stamp"} /\ ev[c] \in {"start", "end"}
       => job[c].mode = "loops"
  /\ pc[c] = "loop" => job[c].mode = "loops"
  /\ pc[c] = "ok" => job[c].mode # "usage"

(* What the buffer of a clean child holds at each point of its program.    *)
BufferOK(c) ==
  c \notin dirty =>
    /\ pc[c] \in {"add", "execv", "args", "loop", "ok"}
         => Holds(c, Recorded(c), job[c].run)
    /\ pc[c] = "stamp"
         => /\ shm[c].count = Recorded(c)
            /\ pend[c] = Recorded(c) - 1
            /\ \A j \in 1 .. (Recorded(c) - 1) :
                 shm[c].slot[j - 1] = Genuine(j, c, job[c].run)
            /\ Named(c, Recorded(c), job[c].run)

ChildInv == \A c \in Pid : CtxOK(c) /\ ScriptOK(c) /\ BufferOK(c)

(* Child k of the current run is one that was forked and not waited for.   *)
Started(k) ==
  /\ kids[k] \in Pid
  /\ pc[kids[k]] # "free"
  /\ job[kids[k]] = [run |-> run, mode |-> mode]

(* Child k has exited with status 0, has been waited for, and its buffer,  *)
(* if it is clean, is complete.                                            *)
Finalized(k) ==
  /\ kids[k] \in Pid
  /\ pc[kids[k]] = "free"
  /\ kids[k] \notin dirty => Holds(kids[k], ScriptLen(mode), run)

(* The children of the current run at each point of main().                *)
KidsInv ==
  /\ \A j, k \in Idx : kids[j] = kids[k] /\ kids[j] # None => j = k
  /\ rpc = "fork" => /\ \A k \in Idx : k < i => Started(k)
                     /\ \A k \in Idx : k >= i => kids[k] = None
                     /\ ret = "ok"
  /\ rpc = "wait" => /\ \A k \in Idx : k >= i => Started(k)
                     /\ ret = "ok" => \A k \in Idx : k < i => Finalized(k)
                     /\ ret = "ok" /\ i > 1 => mode # "usage"
  /\ rpc \in {"open", "read"} \/ (rpc = "done" /\ ret = "ok")
       => /\ \A k \in Idx : Finalized(k)
          /\ mode # "usage"

(* The context of the runner: it has one only while it prints, that of the *)
(* child it prints unless an open has failed.                              *)
RunnerCtxInv ==
  /\ rpc \in {"off", "fork", "wait", "done"} => ctx[RunnerProc] = None
  /\ rpc = "open" => \/ ctx[RunnerProc] = None
                     \/ ctx[RunnerProc] = Half /\ ret = "fail"
  /\ rpc = "read" => \/ ctx[RunnerProc] = kids[i]
                     \/ ctx[RunnerProc] = Half /\ ret = "fail"

(* What is printed of child k is its record.                               *)
Printed(k) == kids[k] \notin dirty => out[k] = Record(kids[k], run, mode)

(* What has been printed at each point of main().                          *)
OutInv ==
  /\ rpc \in {"fork", "wait"} => out = <<>>
  /\ rpc # "read" => cur = <<>>
  /\ ret = "ok" /\ rpc \in {"open", "read"}
       => /\ Len(out) = i - 1
          /\ \A k \in 1 .. (i - 1) : Printed(k)
  /\ ret = "ok" /\ rpc = "done"
       => /\ Len(out) = NProcs
          /\ \A k \in Idx : Printed(k)
  /\ ret = "ok" /\ rpc = "read"
       => /\ rptr \in 0 .. shm[kids[i]].count
          /\ Len(cur) = rptr
          /\ \A j \in 1 .. rptr : cur[j] = shm[kids[i]].slot[j - 1]

(* The invariant that every step keeps.                                    *)
Inv ==
  /\ TypeOK
  /\ FdsInv
  /\ ChildInv
  /\ KidsInv
  /\ RunnerCtxInv
  /\ OutInv

=============================================================================
