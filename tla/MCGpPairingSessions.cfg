SPECIFICATION FairSpec
CONSTANTS
  AssetConn = {a1}
  ControllerConn = {c1, c2}
  Addr = {p1, p2}
  None = None
  AssetsOverlap = FALSE
  ControllersOverlap = FALSE
CHECK_DEADLOCK FALSE
CONSTRAINTS NoLogoutMessages AssetStays NotRaced InOrder
PROPERTIES PollingFindsController CommandsReachAsset
