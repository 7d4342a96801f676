\* Two tasks that read for ever; a buffer of two bytes, enough bytes to go over its
\* end twice; a behaviour matters until it meets its first window or event.
SPECIFICATION FairSpec
CONSTANTS
  Tasks = {a, b}
  KB_BUF_SIZE = 2
  MaxRead = 2
  MaxKeys = 5
  MaxHits = 1
\* The keyboard may fall silent, with every task asleep.
CHECK_DEADLOCK FALSE
INVARIANTS
  BufferSound
  ReadsInOrder
PROPERTIES
  KeysRead
