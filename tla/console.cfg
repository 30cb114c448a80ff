SPECIFICATION Spec
CONSTANTS
  Lines = 2
  LineBytes = 1
  RxFifo = 3
  Keys <- AllKeys
  Typing <- TypingIdle
  Faults <- FaultsUnlocked
  MaxKeys = 4
  MaxTicks = 3
CHECK_DEADLOCK FALSE
INVARIANT HandlersNeverSpin
INVARIANT TicksCounted
PROPERTY EveryByteEchoed
PROPERTY BootCompletes
PROPERTY PanicReported
