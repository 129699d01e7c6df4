\* Four CPUs, every failure, Ctrl-C up to twice; liveness.
CONSTANTS
  NCpus = 4
  UstPasses = 2
  KernelPasses = 2
  MaxInterrupts = 2
  Faults = {"open", "write", "tool", "lttng", "daemon", "kernel", "rmmod", "pidfile", "results"}
SPECIFICATION FairSpec
INVARIANTS TypeOK CpusAsLabelled TracedAsLabelled Restored
PROPERTIES Ends
