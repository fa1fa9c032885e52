CONSTANTS
  Elements = {e1}
  NoElem = NoElem
  ReturnCodes <- MCReturnCodes
  ManualCodes <- MCManualCodes
  Noise <- MCNoise
  MaxConn = 2
  MaxPings = 1
  PingEnabled = TRUE
SPECIFICATION Spec
INVARIANTS AtMostOneOpenConnection AutoCallbackFaithful
