\* Two tasks and two files on a volume of three clusters of two bytes; a file has at
\* most two clusters at first.
SPECIFICATION FatSpec
CONSTANTS
  Users = {a, b}
  Files = {f, g}
  NoFile = null
  Clusters = {2, 3, 4}
  ClusterSize = 2
  InitSize = 3
  MaxSize = 3
  MaxEvents = 1
SYMMETRY Symmetry
INVARIANTS
  VolumeSound
  OwnBytesOnly
  ReadsRight
