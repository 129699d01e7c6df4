--------------------------- MODULE Orchestration ----------------------------
(***************************************************************************)
(* The script benchmarks.py with lttng_kernel_benchmark.py, and what it    *)
(* changes on the machine: the CPUs online, a tracing session, the session *)
(* daemon and the two kernel modules.                                      *)
(*                                                                         *)
(* For each number of CPUs it runs the user-space benchmarks, each         *)
(* untraced twice and traced once, and the kernel benchmark, untraced and  *)
(* traced.  Any call may raise, and so does Ctrl-C, anywhere; what catches *)
(* the exception, and what is undone on its way, is what this is about.    *)
(***************************************************************************)
EXTENDS LinuxCpu

CONSTANTS
  UstPasses,     \* the passes of do_ust_benchmark() in do_benchmarks()
  KernelPasses,  \* those of do_kernel_benchmark()
  MaxInterrupts  \* bound on how often Ctrl-C is pressed

FaultKind == {"open", "write", "tool", "lttng", "daemon", "kernel", "rmmod", "pidfile",
              "results"}

ASSUME PassesAssumption == UstPasses \in Nat \ {0} /\ KernelPasses \in Nat \ {0}
ASSUME MaxInterruptsAssumption == MaxInterrupts \in Nat
ASSUME FaultsAssumption == Faults \subseteq FaultKind

VARIABLES
  pc,          \* where the script is
  phase,       \* "kernel" in the try block of do_benchmarks()
  cpu_count,   \* the loop variable of main()
  pass,        \* that of the loops of do_benchmarks()
  saved,       \* saved_online_cpus
  session,     \* the session: none, not started, or started in a domain
  daemon,      \* the session daemon: none, ours, or another's
  modules,     \* the kernel modules loaded
  interrupts,  \* how often Ctrl-C has been pressed
  raised,      \* has a fault or Ctrl-C left the finally block by an exception
  refused      \* was something refused in it without an exception

scriptVars == <<pc, phase, cpu_count, pass>>
traceVars == <<session, daemon, modules>>
vars == <<cpuVars, scriptVars, saved, traceVars, interrupts, raised, refused>>

Setting == {"count", "set"}
Measuring == {"base", "ust", "traced"}
Tracing == {"daemon", "create", "start", "stop"}
Finally == {"cleanup", "unload", "kill", "restore_off", "restore_on"}

TypeOK ==
  /\ CpuTypeOK
  /\ pc \in {"save", "load", "events", "reload", "results", "end"}
              \cup Setting \cup Measuring \cup Tracing \cup Finally
  /\ phase \in {"ust", "kernel"}
  /\ cpu_count \in 1 .. NCpus
  /\ pass \in 1 .. UstPasses \/ pass \in 1 .. KernelPasses
  /\ saved \in SUBSET Cpu
  /\ session \in {"none", "idle", "ust", "kernel"}
  /\ daemon \in {"none", "ours", "other"}
  /\ modules \in SUBSET {"main", "probe"}
  /\ interrupts \in 0 .. MaxInterrupts
  /\ raised \in BOOLEAN /\ refused \in BOOLEAN

Init ==
  /\ CpuInit
  /\ pc = "save" /\ phase = "ust" /\ cpu_count = 1 /\ pass = 1
  /\ saved = {}
  /\ session = "none" /\ daemon \in {"none", "other"} /\ modules = {}
  /\ interrupts = 0 /\ raised = FALSE /\ refused = FALSE

-----------------------------------------------------------------------------
(***************************************************************************)
(* The flow of control.                                                    *)
(***************************************************************************)
Goto(where) == pc' = where /\ UNCHANGED <<phase, cpu_count, pass, raised>>

(* Mutated: the loop of main() makes one turn too many.                    *)
LastTurnMissed == cpu_count = 0

LastTurn == cpu_count = 1

NextTurn ==
  /\ phase' = "ust" /\ pass' = 1
  /\ IF LastTurn
     THEN pc' = "results" /\ UNCHANGED cpu_count
     ELSE pc' = "count" /\ cpu_count' = cpu_count - 1
  /\ UNCHANGED raised

(* After a pass comes the next, the kernel benchmark, or the next number   *)
(* of CPUs.                                                                *)
NextPass ==
  \/ /\ pass < (IF phase = "ust" THEN UstPasses ELSE KernelPasses)
     /\ pc' = IF phase = "ust" THEN "base" ELSE "load"
     /\ pass' = pass + 1
     /\ UNCHANGED <<phase, cpu_count, raised>>
  \/ /\ phase = "ust" /\ pass = UstPasses
     /\ pc' = "load" /\ phase' = "kernel" /\ pass' = 1
     /\ UNCHANGED <<cpu_count, raised>>
  \/ /\ phase = "kernel" /\ pass = KernelPasses
     /\ NextTurn

(* do_benchmarks() gives up the kernel benchmark when it raises.           *)
(* Mutated: it tries again.                                                *)
RetryKernel == pc' = "load" /\ UNCHANGED <<phase, cpu_count, pass, raised>>

SkipKernel == NextTurn

(* Where an exception goes: main() catches one of the setter of            *)
(* online_count and breaks out of its loop, do_benchmarks() catches one of *)
(* the kernel benchmark and is done; all others end main(), whose finally  *)
(* block runs, or leave that block.                                        *)
Raise ==
  \/ pc \in Setting /\ Goto("results")
  \/ phase = "kernel" /\ SkipKernel
  \/ pc \in Finally /\ pc' = "end" /\ raised' = TRUE /\ UNCHANGED <<phase, cpu_count, pass>>
  \/ pc \notin Setting \cup Finally /\ phase = "ust" /\ Goto("cleanup")

UnchangedOutside == UNCHANGED <<cpuVars, saved, traceVars, interrupts, refused>>

(* A call that changes nothing here either returns, or fails and raises.   *)
ReturnOrRaise(fault, where) ==
  /\ \/ Goto(where)
     \/ fault \in Faults /\ Raise
  /\ UnchangedOutside

Interrupt ==
  /\ pc \notin {"save", "end"}
  /\ interrupts < MaxInterrupts
  /\ interrupts' = interrupts + 1
  /\ Raise
  /\ UNCHANGED <<cpuVars, saved, traceVars, refused>>

-----------------------------------------------------------------------------
(***************************************************************************)
(* main() and its CPUs.                                                    *)
(***************************************************************************)
Save ==
  /\ pc = "save"
  /\ saved' = online
  /\ cpu_count' = Cardinality(online)
  /\ pc' = "count"
  /\ UNCHANGED <<cpuVars, phase, pass, traceVars, interrupts, raised, refused>>

Count ==
  /\ pc = "count"
  /\ SetCount(cpu_count)
  /\ Goto("set")
  /\ UNCHANGED <<online, saved, traceVars, interrupts, refused>>

(* One CPU of the list: first to last in the setter of online_count, in    *)
(* any order in that of online_cpus.                                       *)
NextCpu(c) ==
  /\ c \in todo
  /\ pc = "set" => \A d \in todo : c <= d

SetOne ==
  /\ pc \in {"set", "restore_off", "restore_on"}
  /\ \E c \in todo :
       /\ NextCpu(c)
       /\ \/ SetCpu(c) /\ UNCHANGED refused
          \/ SetCpuLost(c) /\ refused' = (refused \/ pc # "set")
  /\ UNCHANGED <<scriptVars, saved, traceVars, interrupts, raised>>

SetOneFails ==
  /\ "open" \in Faults
  /\ pc \in {"set", "restore_off", "restore_on"}
  /\ todo # {}
  /\ Raise
  /\ UnchangedOutside

Counted ==
  /\ pc = "set" /\ todo = {}
  /\ \/ CountReached(cpu_count) /\ Goto("base")
     \/ ~CountReached(cpu_count) /\ Raise
  /\ UnchangedOutside

-----------------------------------------------------------------------------
(***************************************************************************)
(* do_ust_benchmark(), do_kernel_benchmark().                              *)
(***************************************************************************)

(* The untraced and the traced runs; those of the kernel benchmark read    *)
(* its file "time".                                                        *)
Measure ==
  \/ pc = "base" /\ phase = "ust" /\ ReturnOrRaise("tool", "ust")
  \/ pc = "ust" /\ ReturnOrRaise("tool", "daemon")
  \/ pc = "base" /\ phase = "kernel" /\ ReturnOrRaise("kernel", "events")
  \/ pc = "traced" /\ ReturnOrRaise(IF phase = "ust" THEN "tool" ELSE "kernel", "stop")

Events == pc = "events" /\ ReturnOrRaise("kernel", "daemon")

(* load() of both modules, in turn, before each run.                       *)
Load ==
  /\ pc \in {"load", "reload"}
  /\ \/ modules' = {"main", "probe"} /\ Goto(IF pc = "load" THEN "base" ELSE "traced")
     \/ "kernel" \in Faults /\ modules' \in {modules, modules \cup {"main"}} /\ Raise
  /\ UNCHANGED <<cpuVars, saved, session, daemon, interrupts, refused>>

-----------------------------------------------------------------------------
(***************************************************************************)
(* lttng_start(), lttng_stop().                                            *)
(***************************************************************************)
StartDaemon ==
  /\ pc = "daemon"
  /\ \/ daemon # "none" /\ Goto("create") /\ UNCHANGED daemon
     \/ daemon = "none" /\ daemon' = "ours" /\ Goto("create")
     \/ daemon = "none" /\ "daemon" \in Faults /\ Raise /\ UNCHANGED daemon
  /\ UNCHANGED <<cpuVars, saved, session, modules, interrupts, refused>>

(* lttng.destroy(), whose result is not looked at, and create_snapshot(),  *)
(* which fails when there is still a session of that name.                 *)
CreateSession ==
  /\ pc = "create"
  /\ \/ daemon # "none" /\ session' = "idle" /\ Goto("start")
     \/ daemon = "none" /\ Raise /\ UNCHANGED session
     \/ "lttng" \in Faults /\ session' \in {"none", session} /\ Raise
  /\ UNCHANGED <<cpuVars, saved, daemon, modules, interrupts, refused>>

(* The channel, the events and lttng.start().                              *)
StartSession ==
  /\ pc = "start"
  /\ \/ /\ session # "none"
        /\ session' = phase
        /\ Goto(IF phase = "ust" THEN "traced" ELSE "reload")
     \/ /\ session = "none" \/ "lttng" \in Faults
        /\ Raise
        /\ UNCHANGED session
  /\ UNCHANGED <<cpuVars, saved, daemon, modules, interrupts, refused>>

(* Mutated: lttng_stop() does not look at what lttng.stop() and destroy()  *)
(* return.                                                                 *)
AfterIgnoredStop == NextPass

AfterFailedStop == Raise

StopSession ==
  /\ pc = "stop"
  /\ \/ session # "none" /\ session' = "none" /\ NextPass
     \/ /\ session = "none" \/ "lttng" \in Faults
        /\ session' \in IF session = "none" THEN {"none"} ELSE {session, "idle"}
        /\ AfterFailedStop
  /\ UNCHANGED <<cpuVars, saved, daemon, modules, interrupts, refused>>

-----------------------------------------------------------------------------
(***************************************************************************)
(* The end: the files written, and the finally block.                      *)
(***************************************************************************)
Results == pc = "results" /\ ReturnOrRaise("results", "cleanup")

(* What lttng.stop() and lttng.destroy() return is not looked at.          *)
EndSession ==
  /\ pc = "cleanup"
  /\ \/ session' = "none" /\ UNCHANGED refused
     \/ /\ "lttng" \in Faults
        /\ session # "none"
        /\ session' \in {session, "idle"}
        /\ refused' = TRUE
  /\ Goto("unload")
  /\ UNCHANGED <<cpuVars, saved, daemon, modules, interrupts>>

(* unload() of the main module, then of the probe.  rmmod fails, and ends  *)
(* the finally block, on a module in use, as the probe is by a session     *)
(* that traces the kernel: unless cleanup() has taken things in this order *)
(* for nothing, there is none.                                             *)
Unload ==
  /\ pc = "unload"
  /\ \/ /\ session # "kernel" \/ "probe" \notin modules
        /\ modules' = {}
        /\ Goto("kill")
     \/ /\ modules # {}
        /\ modules' \in {modules, modules \ {"main"}} \ {{}}
        /\ \/ session # "none" /\ Goto("end")
           \/ "rmmod" \in Faults /\ Raise
  /\ UNCHANGED <<cpuVars, saved, session, daemon, interrupts, refused>>

(* The daemon of the pidfile is killed, which only this script's own       *)
(* writes; the pidfile may not be there yet, which is taken for no daemon, *)
(* or be there and still be empty, which raises.                           *)
KillDaemon ==
  /\ pc = "kill"
  /\ \/ /\ daemon' = IF daemon = "ours" THEN "none" ELSE daemon
        /\ session' = IF daemon = "ours" THEN "none" ELSE session
        /\ Goto("restore_off")
        /\ SetAll(online \ saved, FALSE)
        /\ UNCHANGED refused
     \/ /\ "pidfile" \in Faults /\ daemon = "ours"
        /\ UNCHANGED <<daemon, session>>
        /\ \/ /\ Goto("restore_off")
              /\ SetAll(online \ saved, FALSE)
              /\ refused' = TRUE
           \/ Raise /\ UNCHANGED <<todo, enable, refused>>
  /\ UNCHANGED <<online, saved, modules, interrupts>>

(* The setter of online_cpus writes the CPUs to take offline, then, with   *)
(* the CPUs that are offline by then, the others.                          *)
Restore ==
  /\ todo = {}
  /\ \/ /\ pc = "restore_off"
        /\ SetAll(Missing(saved), TRUE)
        /\ Goto("restore_on")
     \/ /\ pc = "restore_on"
        /\ Goto("end")
        /\ UNCHANGED <<todo, enable>>
  /\ UNCHANGED <<online, saved, traceVars, interrupts, refused>>

-----------------------------------------------------------------------------
(* The daemon may die, and its sessions with it.                           *)
DaemonDies ==
  /\ "daemon" \in Faults
  /\ daemon # "none" /\ pc # "end"
  /\ daemon' = "none" /\ session' = "none"
  /\ UNCHANGED <<cpuVars, scriptVars, saved, modules, interrupts, raised, refused>>

Step ==
  \/ Save \/ Count \/ SetOne \/ SetOneFails \/ Counted
  \/ Measure \/ Events \/ Load
  \/ StartDaemon \/ CreateSession \/ StartSession \/ StopSession
  \/ Results \/ EndSession \/ Unload \/ KillDaemon \/ Restore

Finished == pc = "end" /\ UNCHANGED vars

Next == Step \/ Interrupt \/ DaemonDies \/ Finished

Spec == Init /\ [][Next]_vars

(* Every call returns or raises.                                           *)
FairSpec == Spec /\ WF_vars(Step)

-----------------------------------------------------------------------------
(***************************************************************************)
(* Properties.                                                             *)
(***************************************************************************)

(* What main() stores as the result for cpu_count CPUs is measured on so   *)
(* many, whatever sysfs refuses: on the first of those that were online at *)
(* the start, so that no hole is added between them, which time_show() of  *)
(* the kernel benchmark could not bear.                                    *)
CpusAsLabelled == pc \in Measuring => online = Lowest(saved, cpu_count)

(* What is called traced is, unless the daemon has died, in the domain of  *)
(* the benchmark.  What is called a baseline is not, but for one case: a   *)
(* kernel benchmark that is given up leaves its session, and the first     *)
(* user-space pass with the next number of CPUs runs with it, until it     *)
(* starts a session of its own.                                            *)
TracedAsLabelled ==
  /\ pc = "traced" => session \in {phase, "none"}
  /\ pc \in {"base", "ust"} /\ session \in {"ust", "kernel"}
       => /\ session = "kernel" /\ phase = "ust"
          /\ pass = 1 /\ cpu_count < Cardinality(saved)

(* The finally block leaves the machine as it was found, wherever main()   *)
(* has been left: the CPUs are online, the session, its daemon and the     *)
(* modules are gone.  It does unless a fault or Ctrl-C raises in it (lines *)
(* 339-344 have one finally for all, so that nothing is done after that)   *)
(* or something was refused; the order of cleanup() itself makes nothing   *)
(* fail.                                                                   *)
Restored ==
  pc = "end" /\ ~raised /\ ~refused =>
    online = saved /\ session = "none" /\ modules = {} /\ daemon # "ours"

(* The script ends, also when Ctrl-C is taken for a failure of the kernel  *)
(* benchmark.                                                              *)
Ends == <>(pc = "end")

=============================================================================
