SPECIFICATION Spec
CONSTANTS
  MAX_THREADS = 3
  Stacks = {k1, k2, k3}
  BootStack = boot
  NoStack = null
  TimeSlice = 2
  TickWrap = 5
  WaitTicks = 2
  Rounds = 1
  MaxId = 3
  Entries = {"test", "program"}
SYMMETRY StackSymmetry
PROPERTY FreedOffStack
CHECK_DEADLOCK FALSE
