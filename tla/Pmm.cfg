CONSTANTS
  MAX_PAGES = 7
  PAGE_SIZE = 4
  LOW_END = 4
  KERNEL_END = 10
  MemoryMaps <- SomeMaps
  Ranges <- BootRanges
  Clients = {heap, vmm}
  Nobody = Nobody
SPECIFICATION PmmSpec
SYMMETRY ClientSymmetry
INVARIANTS CountExact ReservedKept
PROPERTY NoStealing
CHECK_DEADLOCK FALSE
