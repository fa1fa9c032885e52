CONSTANTS
  Elements = {e1}
  NoElem = NoElem
  ReturnCodes <- MCReturnCodes
  ManualCodes <- MCManualCodes
  Noise <- MCNoise
  MaxConn = 2
  MaxPings = 0
  PingEnabled = FALSE
SPECIFICATION Spec
PROPERTY ImplementsDispatchEngine
