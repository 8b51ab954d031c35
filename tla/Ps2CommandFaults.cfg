CONSTANTS
  PS2TIME_CLKDOWN = 2
  PS2TIME_PRESEND = 2
  PS2TIME_CMDTIMEOUT = 3
  PS2TIME_ACKTIMEOUT = 5
  PS2TIME_BATTIMEOUT = 6
  PS2TIME_INIT = 6
  PS2TIME_RECEIVETIMEOUT = 5
  FrameTicks = 4
  LockKeys = {"NUMLOCK"}
  MaxBad = 1
  MaxLost = 1
  MaxSilent = 0
  MaxResend = 1
  MaxSlow = 4
SPECIFICATION FairSpec
INVARIANTS IdleListens NoEcho AckMeansTaken
PROPERTIES BadKeyIsResent CommandEnds
