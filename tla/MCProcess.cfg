\* The init task and two more; tables of one descriptor, three files and three address
\* spaces, and frames for a heap of two to be copied.
SPECIFICATION Spec
CONSTANTS
  Tasks = {1, 2, 3}
  Files = {1, 2, 3}
  Mms = {1, 2, 3}
  InitTask = 1
  NULL = null
  InitMm = init_mm
  TASK_FILE_MAX = 1
  NrFrames = 5
  MaxHeap = 2
  MaxExecs = 3
  MaxHits = 3
CONSTRAINTS
  FilesOrHeaps
  TwoInMm
  OneFrameRaced
ACTION_CONSTRAINTS
  OneKind
  NothingNew
  NoDescriptors
  Undisturbed
\* Nothing runs after a fault, and every task may exit.
CHECK_DEADLOCK FALSE
INVARIANTS
  HoldingsSound
  NothingLeaks
  SharedOnlyByVfork
