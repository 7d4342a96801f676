\* Two tasks, requests of one and two sectors, interrupts in two kinds of window; under
\* fair scheduling, so without symmetry.
SPECIFICATION FairSpec
CONSTANTS
  Tasks = {t1, t2}
  Idle = idle
  Nodes = {n1, n2}
  NoNode = null
  NoTask = nobody
  MaxSectors = 2
  MaxCount = 2
  MaxHits = 2
INVARIANTS
  QueueSound
  FaultsByWindow
  SingleIssuer
  ReturnsDone
PROPERTIES
  TransferReturns
