------------------------------ MODULE LinuxCpu ------------------------------
(***************************************************************************)
(* The CPUs of the machine as linux_cpu.py sees and sets them.             *)
(*                                                                         *)
(* A setter works on a list of CPUs, one write to sysfs after the other,   *)
(* and may be left in the middle.                                          *)
(***************************************************************************)
EXTENDS Integers, FiniteSets

CONSTANTS
  NCpus,   \* the CPUs of the machine
  Faults   \* what may go wrong, here "open" and "write"

ASSUME NCpusAssumption == NCpus \in Nat \ {0}

Cpu == 0 .. (NCpus - 1)

VARIABLES
  online,  \* the CPUs online
  todo,    \* the CPUs that the setter has still to write
  enable   \* what it writes: TRUE for online

cpuVars == <<online, todo, enable>>

offline == Cpu \ online

CpuTypeOK ==
  /\ online \in SUBSET Cpu
  /\ todo \in SUBSET Cpu
  /\ enable \in BOOLEAN

CpuInit ==
  /\ online \in {cpus \in SUBSET Cpu : 0 \in cpus}
  /\ todo = {}
  /\ enable = FALSE

(* sorted(S)[:k]                                                           *)
Lowest(S, k) ==
  CHOOSE T \in SUBSET S : Cardinality(T) = k /\ \A x \in T, y \in S \ T : x < y

SetAll(cpus, value) ==
  /\ todo' = cpus
  /\ enable' = value

(* The setter of online_count up to its loop, for 0 < count <= NCpus: the  *)
(* last CPUs go offline first, and the first ones come back first.         *)
SetCount(count) ==
  LET cpus_to_enable == count - Cardinality(online)
  IN  IF cpus_to_enable < 0
      THEN SetAll(online \ Lowest(online, count), FALSE)
      ELSE SetAll(Lowest(offline, cpus_to_enable), TRUE)

(* _set_cpu_online(): the file is flushed when it is collected, and an     *)
(* error of that is lost.                                                  *)
SetCpu(c) ==
  /\ online' = IF enable THEN online \cup {c} ELSE online \ {c}
  /\ todo' = todo \ {c}
  /\ UNCHANGED enable

SetCpuLost(c) ==
  /\ "write" \in Faults
  /\ todo' = todo \ {c}
  /\ UNCHANGED <<online, enable>>

(* The second half of the setter of online_cpus: CPUs that are offline by  *)
(* then and should not be.                                                 *)
(* Mutated: all that are offline.                                          *)
AllMissing(cpus) == offline

Missing(cpus) == offline \cap cpus

(* The end of the setter of online_count raises unless this holds.         *)
(* Mutated: it does not look.                                              *)
CountNotSeen(count) == TRUE

CountReached(count) == Cardinality(online) = count

=============================================================================
