\* Two reads that may overlap or one that is disturbed, two CPUs, every failure; no symmetry,
\* liveness.
CONSTANTS
  NCpus = 2
  Block = {b1, b2}
  None = None
  MaxReads = 2
  MaxCount = 1
  DefaultCount = 1
  Faults = {"kmalloc", "kthread", "signal", "hotplug", "store"}
SPECIFICATION MCSpec
INVARIANTS TypeOK RecordsAlive StartTogether TimeComplete
PROPERTIES UnloadAfterThreads ReadReturns SignalReturns
