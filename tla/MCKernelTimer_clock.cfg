\* Seconds of two microseconds, ints of two bits, a clock that is set at will.
CONSTANTS
  Cpus = 2
  USEC_PER_SEC = 2
  LongMod = 8
  IntMod = 4
  Counts = {1, 3}
  MaxTime = 3
SPECIFICATION Spec
INVARIANTS TypeOK TimeExact TotalExact EventsCounted
