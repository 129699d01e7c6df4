\* Two runs of the whole script of two children, in buffers that it fills; children killed,
\* never started, orphaned and never waited for; no symmetry, liveness.
CONSTANTS
  Pid = {p1, p2}
  RunnerProc = runner
  MaxEvents = 4
  None = None
  Half = Half
  Uninit = Uninit
  Faults = {"stamp", "exec", "kill", "fork", "waitpid"}
  NProcs = 2
  MaxRuns = 2
  Modes = {"loops"}
SPECIFICATION FairSpec
INVARIANTS DescriptorsMatch
PROPERTIES RunTerminates ChildrenReaped
