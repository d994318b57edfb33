CONSTANTS
  K = 4
  KernelFrames = {0, 1, 2, 3}
  Pml4 = 1
  Pdpt = 2
  Pd = 3
  ClientSets <- EitherSide
  ModulePages = {6, 7}
  HEAP_START_PAGE = 9
  HEAP_PAGES_MAX = 3
  MMAP_START = 12
  FixedPages <- Above
  Segments <- Programs
  PageBytes = 2
  Breaks <- SomeBreaks
SPECIFICATION SpaceSpec
INVARIANTS IdentityKept 
CHECK_DEADLOCK FALSE
