\* Two runs of two children that share two pids, every failure.
CONSTANTS
  Pid = {p1, p2}
  RunnerProc = runner
  MaxEvents = 3
  None = None
  Half = Half
  Uninit = Uninit
  Faults = {"malloc", "shm_open", "ftruncate", "mmap", "stale_errno", "clock", "exec", "kill",
            "fork", "waitpid"}
  NProcs = 2
  MaxRuns = 2
  Modes = {"startup", "usage"}
SYMMETRY PidSymmetry
SPECIFICATION Spec
INVARIANTS TypeOK ReportAfterReap ReportFresh Inv
PROPERTIES OwnerWrites ImplementsContract
