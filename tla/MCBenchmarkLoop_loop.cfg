\* Ints of three bits, chars of one; time passes up to three times.
CONSTANTS
  IntMod = 8
  CharMod = 2
  Iterations <- MCIterations
  MaxTime = 3
SPECIFICATION FairSpec
INVARIANTS TypeOK Intervals TurnsCounted
PROPERTIES EveryTurnCounts Ends
