---------------------------- MODULE SharedEvents ----------------------------
(***************************************************************************)
(* The event buffers of src/shared_events.c.                               *)
(*                                                                         *)
(* Every process that is linked with the library has one static context    *)
(* (ctx): either NULL, or a mapping of the POSIX shared-memory object      *)
(* "/shared_events_<pid>".  The objects belong to the kernel: they outlive *)
(* the processes, and nothing in the program unlinks them, so a pid that   *)
(* the kernel hands out a second time finds the object of its predecessor. *)
(*                                                                         *)
(* This module has the state of the library and what its functions do to   *)
(* it; the processes that call them are in module Runner.                  *)
(***************************************************************************)
EXTENDS BenchmarkEvents

CONSTANTS
  RunnerProc, \* the process that runs lttng-ust-benchmarks
  MaxEvents,  \* MAX_EVENT_COUNT, 256 in the code
  Half,       \* a context whose fd is -1 and whose events were never mapped
  Uninit,     \* the value of a malloc'ed field that nothing has assigned
  Faults      \* the failures of the environment that may happen

(* "clock" is the first clock_gettime() of shared_events_add(), "stamp"    *)
(* the second, "stale_errno" an ENOENT left over, and "kill" a signal; the *)
(* others are the calls that fail.                                         *)
FaultKind == {"malloc", "shm_open", "ftruncate", "mmap", "stale_errno",
              "clock", "stamp", "exec", "kill", "fork", "waitpid"}

ASSUME PidAssumption == /\ RunnerProc \notin Pid
                        /\ None \notin Pid \cup {Half}
                        /\ Half \notin Pid
ASSUME MaxEventsAssumption == MaxEvents \in Nat \ {0}
ASSUME UninitAssumption == Uninit \notin Nat
ASSUME FaultsAssumption == Faults \subseteq FaultKind

VARIABLES
  shm,   \* the object of each pid: does it exist, its count, its slots
  ctx,   \* the context of each process: the pid whose object it maps, None
         \* (a NULL ctx), or Half
  rptr,  \* ctx->rptr in the runner, the only process that reads events
  fds,   \* how many descriptors of shm objects each process holds
  pend   \* in each child, the slot shared_events_add() has yet to stamp

libVars == <<shm, ctx, rptr, fds, pend>>

Proc == Pid \cup {RunnerProc}

Slots == 0 .. (MaxEvents - 1)

Buffer == [exists : BOOLEAN, count : 0 .. MaxEvents, slot : [Slots -> Event]]

Absent == [exists |-> FALSE, count |-> 0, slot |-> [j \in Slots |-> Blank]]

LibTypeOK ==
  /\ shm \in [Pid -> Buffer]
  /\ ctx \in [Proc -> Pid \cup {None, Half}]
  /\ rptr \in (0 .. MaxEvents) \cup {Uninit}
  /\ fds \in [Proc -> Nat]
  /\ pend \in [Pid -> Slots]

LibInit ==
  /\ shm = [c \in Pid |-> Absent]
  /\ ctx = [p \in Proc |-> None]
  /\ rptr = Uninit
  /\ fds = [p \in Proc |-> 0]
  /\ pend = [c \in Pid |-> 0]

-----------------------------------------------------------------------------
(***************************************************************************)
(* shared_events_open(c), in a process whose context is "at" and that      *)
(* holds n descriptors: the set of outcomes.  "crash" is the process dying *)
(* on a signal.                                                            *)
(*                                                                         *)
(*  - With a context, nothing is opened, whatever object it maps.          *)
(*  - errno is tested without testing fd: when errno still is ENOENT from  *)
(*    an earlier call, an object that exists is opened twice, the first    *)
(*    descriptor leaks and the object counts as created here.              *)
(*  - When shm_open() fails the function returns without freeing ctx; when *)
(*    it is the second that fails after a stale errno, the descriptor of   *)
(*    the first leaks.                                                     *)
(*  - When ftruncate() or mmap() fails after a creation, the context is    *)
(*    closed, and shared_events_delete() then writes through the NULL ctx: *)
(*    the process dies and the object stays.  When it was ftruncate(),     *)
(*    shared_events_close() first unmaps an address nothing has assigned.  *)
(***************************************************************************)
Opened(res, at, made, n) == [res |-> res, at |-> at, made |-> made, fds |-> n]

StaleErrno(c) ==
  IF "stale_errno" \in Faults /\ shm[c].exists THEN BOOLEAN ELSE {FALSE}

OpenFails(n, c) ==
  {Opened("err", None, FALSE, n) : f \in Faults \cap {"malloc"}}
    \cup {Opened("err", Half, FALSE, n + (IF stale THEN 1 ELSE 0)) :
             stale \in {s \in StaleErrno(c) : "shm_open" \in Faults}}
    \cup {Opened("err", None, FALSE, n) :
             f \in {g \in Faults \cap {"ftruncate", "mmap"} : shm[c].exists}}
    \cup {Opened("crash", None, TRUE, 0) :
             f \in {g \in Faults \cap {"ftruncate", "mmap"} :
                       \/ g = "ftruncate"
                       \/ ~shm[c].exists
                       \/ TRUE \in StaleErrno(c)}}

Open(at, n, c) ==
  IF at # None
  THEN {Opened("ok", at, FALSE, n)}
  ELSE {Opened("ok", c, TRUE, n + (IF stale THEN 2 ELSE 1)) :
           stale \in StaleErrno(c)}
         \cup OpenFails(n, c)

(***************************************************************************)
(* shared_events_close(): the descriptors left to a process that held n    *)
(* with the context "at".  Closing Half fails in munmap() and close() and  *)
(* frees the context.                                                      *)
(***************************************************************************)
(* Mutated: the descriptor is not closed.                                  *)
AfterLeakyClose(at, n) == n

AfterClose(at, n) == IF at \in Pid THEN n - 1 ELSE n

(***************************************************************************)
(* What an open that made the object of c leaves in shm: ftruncate() fills *)
(* a new object with zeros and does nothing to an old one.                 *)
(***************************************************************************)
(* Mutated: opening truncates, as O_TRUNC would.                           *)
MadeTruncated(c, made) == [shm[c] EXCEPT !.exists = @ \/ made, !.count = 0]

Made(c, made) == [shm[c] EXCEPT !.exists = @ \/ made]

(* shared_events_clear(), with a context.                                  *)
(* Mutated: clearing forgets the count.                                    *)
ClearedNot(buf) == buf

Cleared(buf) == [buf EXCEPT !.count = 0]

(***************************************************************************)
(* The body of shared_events_add() up to count++: the name goes in the     *)
(* next slot, which keeps the timestamp it had.                            *)
(***************************************************************************)
(* Mutated: off by one at the end of the buffer.                           *)
FullTooLate(d) == shm[d].count > MaxEvents

Full(d) == shm[d].count = MaxEvents

Appended(buf, name, by, born) ==
  [buf EXCEPT !.count = @ + 1,
              !.slot = [@ EXCEPT ![buf.count] =
                          [name |-> name, by |-> by, born |-> born,
                           stamp |-> buf.slot[buf.count].stamp]]]

(* What shared_events_rewind() assigns to ctx->rptr.                       *)
(* Mutated: the read pointer is left as malloc() returned it.              *)
RewoundNot == Uninit

Rewound == 0

(***************************************************************************)
(* The values shared_events_read() may find in ctx->rptr: any, when        *)
(* shared_events_rewind() has not assigned it.                             *)
(***************************************************************************)
ReadPtrs == IF rptr = Uninit THEN 0 .. MaxEvents ELSE {rptr}

=============================================================================
