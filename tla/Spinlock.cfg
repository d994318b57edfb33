SPECIFICATION LockSpec
CONSTANTS
  Threads = {t0, t1}
  Boot = t0
  Irqs = {nic}
  NoIrq = none
  Locks = {vga, heap}
INVARIANT MutualExclusion
PROPERTY FlagsRestored
