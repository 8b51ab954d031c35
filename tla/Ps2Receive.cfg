CONSTANTS
  PS2DMABUFSIZE = 8
  PS2TIME_PRESEND = 2
  PS2TIME_RECEIVETIMEOUT = 12
  Bytes <- MCBytes
  LockByte <- MCNumLock
  Gaps = {3, 13}
  MaxBytes = 2
  MaxFlips = 1
  MaxLost = 1
  MaxCalls = 1
SPECIFICATION Spec
CHECK_DEADLOCK FALSE
INVARIANTS NoGhost Delivered Realigned
