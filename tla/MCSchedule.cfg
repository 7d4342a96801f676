\* Three tasks, two of them interchangeable, so that one is queued between others;
\* long enough for a slice to be overdrawn and refilled.
SPECIFICATION Spec
CONSTANTS
  InitTask = t1
  Tasks = {t1, t2, t3}
  Idle = idle
  NoTask = null
  Priority = 2
  MaxVrun = 6
  MaxHits = 1
SYMMETRY Symmetry
CONSTRAINT WithinHits
INVARIANTS
  TypeOK
  CountMatchesQueue
  FaultsByWindow
  RunnableNotLost
  QueuesSound
  BoundedLag
PROPERTIES
  RefinesDispatch
