CONSTANTS
  HEAP_START = 100
  VMM_PAGE_SIZE = 12
  HEADER_SIZE = 4
  MIN_SPLIT = 4
  HEAP_INITIAL_PAGES = 1
  HEAP_MAX_PAGES = 5
  GROW_PAGES = 2
  ALIGN = 2
  Sizes = {3, 7, 17}
  FrameCounts = {0, 2, 6}
SPECIFICATION Spec
INVARIANTS Tiled  RefusedOnlyIfNoFit
PROPERTIES FreedCoalesced
CHECK_DEADLOCK FALSE
