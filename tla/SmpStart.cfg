\* Four processors, as in the code, and three forks beside the last of them: with three,
\* two of the forks can be given the same pid.
SPECIFICATION Spec
CONSTANTS
  NrCpus = 4
  NrForks = 3
\* The start ends.
CHECK_DEADLOCK FALSE
INVARIANT StartSound
PROPERTY BootEnds
