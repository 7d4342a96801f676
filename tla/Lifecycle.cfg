\* The init task and two more, whose task_structs are used again after wait4; five
\* pids, so that three forks follow one another; under fair scheduling, so without
\* symmetry.
SPECIFICATION FairSpec
CONSTANTS
  InitTask = t1
  Tasks = {t1, t2, t3}
  Idle = idle
  NoTask = null
  MaxPid = 5
  MaxHits = 1
INVARIANTS
  ListSound
  FaultsByEvent
PROPERTIES
  WaitReturns
