\* Two tracepoints of up to two fields, strings of two lengths.
CONSTANTS
  NumTp = 2
  MaxFields = 2
  Lengths = {2, 3}
SPECIFICATION Spec
INVARIANTS CallsMatch LengthsMatch
