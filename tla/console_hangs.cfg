SPECIFICATION Spec
CONSTANTS
  Lines = 2
  LineBytes = 1
  RxFifo = 2
  Keys <- OneKey
  Typing <- TypingAlways
  Faults <- NoFaults
  MaxKeys = 1
  MaxTicks = 1
CHECK_DEADLOCK FALSE
PROPERTY BootCompletes
