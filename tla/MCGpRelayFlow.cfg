SPECIFICATION FairSpec
CONSTANTS
  a1 = a1
  c1 = c1
  c2 = c2
  AssetConn = {a1}
  ControllerConn = {c1, c2}
  Partner <- MCPartner
  Room = 3
  MaxSends <- MCMaxSends
  MaxTorn = 1
  MisreadKinds = {"PING", "HEARTBEAT"}
  MaxMisread = 1
  MaxFaults = 1
  None = None
CHECK_DEADLOCK FALSE
INVARIANTS WholeMessages LockOrder
PROPERTIES SendMutexComesFree ServerComesToRest Relays
