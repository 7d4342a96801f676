\* A buffer of three bytes that wraps four times.
SPECIFICATION MouseSpec
CONSTANTS
  KB_BUF_SIZE = 3
  MaxBytes = 13
INVARIANTS
  MouseBufferSound
PROPERTIES
  PacketsWhole
