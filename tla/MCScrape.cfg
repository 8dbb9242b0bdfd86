CONSTANTS
  Setups <- MCSetups
  Versions = {1, 2, 3, 4, 5, 6, 7, 8}
  None = None
  TTL = 8
  MinRequeue = 1
  Interval = 2
  Settle = 1
  TLSRequeue = 1
  MaxBackoff = 3
  MaxLag = 1
SPECIFICATION Spec
INVARIANTS
  TypeOK
  TokenAlive
  Nudged
PROPERTIES
  SettleHeld
  DisabledRemoves
  OperandRemovesStale
  SettleRetried
  ScrapeConverges
