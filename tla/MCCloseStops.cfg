CONSTANTS
  Elements = {e1}
  NoElem = NoElem
  ReturnCodes <- MCReturnCodes
  ManualCodes <- MCManualCodes
  Noise <- MCNoNoise
  MaxConn = 1
  MaxPings = 0
  PingEnabled = FALSE
SPECIFICATION Spec
PROPERTY CloseStopsRun
