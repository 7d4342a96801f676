\* Two tasks, slabs of two objects, two pages beside those the caches start with.
SPECIFICATION MemorySpec
CONSTANTS
  Callers = {a, b}
  PoolPage <- Boot
  Pages = {3, 4}
  Colors = 2
  NoAddress = null
  MaxHeld = 2
  MaxWindows = 1
SYMMETRY Symmetry
INVARIANTS
  AccountsMatch
  ObjectsOwned
  FaultsByWindow
  FaultsByOneWindow
