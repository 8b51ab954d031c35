CONSTANTS
  PS2TIME_CLKDOWN = 2
  PS2TIME_PRESEND = 2
  PS2TIME_CMDTIMEOUT = 110
  PS2TIME_ACKTIMEOUT = 50
  PS2TIME_BATTIMEOUT = 5000
  PS2TIME_INIT = 5000
  PS2TIME_RECEIVETIMEOUT = 20
  FrameTicks = 8
  LockKeys = {"NUMLOCK", "SCROLL"}
  MaxBad = 0
  MaxLost = 0
  MaxSilent = 0
  MaxResend = 0
  MaxSlow = 1
SPECIFICATION FairSpec
PROPERTIES KeyArrives LedsFollowLocks
