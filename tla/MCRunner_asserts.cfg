\* A failed open, and the next.
CONSTANTS
  Pid = {p1, p2}
  RunnerProc = runner
  MaxEvents = 4
  None = None
  Half = Half
  Uninit = Uninit
  Faults = {"shm_open"}
  NProcs = 2
  MaxRuns = 1
  Modes = {"startup"}
SYMMETRY PidSymmetry
SPECIFICATION Spec
INVARIANTS AssertEvents
