SPECIFICATION GatewayFairSpec
CONSTANTS
  EcuId = {e1, e2}
  Address = {a1, a2}
  MaxEcus = 1
  MaxRoutes = 3
  InitialBackoff = 1
  MaxBackoff = 3
  KeepAlive = 1
INVARIANTS
  TablesCurrent
  VmgLinkAgrees
PROPERTIES
  RetriesBackOff
  AttemptsContinue
CHECK_DEADLOCK FALSE
