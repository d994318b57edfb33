CONSTANTS
  MAX_SYMBOLS = 24
  MAX_LOOP_DEPTH = 3
  MAX_BREAKS = 2
  MAX_ARMS = 3
  MAX_FIXUPS = 8
  MAX_GLOBAL_INITS = 2
  MAX_TYPEDEFS = 1
  MAX_STRUCT_DEFS = 1
  MAX_STRUCT_FIELDS = 2
  CODE_MAX = 256
  KernelFuncs = {"putchar"}
  BITS = 9
  Fuel = 12
  Programs <- AllPrograms
SPECIFICATION FairSpec
INVARIANTS ResultRight Balanced 
PROPERTY Terminates
CHECK_DEADLOCK FALSE
