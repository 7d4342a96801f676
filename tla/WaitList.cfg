\* Three tasks at one wait queue or semaphore with one unit.
SPECIFICATION Spec
CONSTANTS
  Tasks = {t1, t2, t3}
  QueueHead = head
  Idle = idle
  Units = 1
  MaxHits = 1
\* Nothing runs after a fault, and all tasks may sleep.
CHECK_DEADLOCK FALSE
INVARIANTS
  ListSound
  UnitsKept
