SPECIFICATION RFairSpec
CONSTANTS
  MAX_THREADS = 3
  Stacks = {k1, k2}
  BootStack = boot
  NoStack = null
  TimeSlice = 2
  TickWrap = 5
  WaitTicks = 2
  Rounds = 0
  MaxId = 3
  Entries = {"test", "program"}
  Results = {0, 7}
INVARIANTS OneRunning LiveStacksExclusive EoiOwed
PROPERTIES ReturnsOutcome 
