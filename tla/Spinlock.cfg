\* Two of four CPUs take interrupts, a third may also use spin_trylock.
SPECIFICATION LockFairSpec
CONSTANTS
  Processors = {c0, c1, c2, c3}
  IrqCPUs = {c0, c1}
  TryLockers = {c3}
INVARIANTS
  MutualExclusion
  WordSound
  NoSelfDeadlock
PROPERTIES
  LockProgress
