SPECIFICATION FairSpec
CONSTANTS
  AssetConn = {a1, a2}
  ControllerConn = {c1}
  Addr = {p1}
  None = None
  AssetsOverlap = FALSE
  ControllersOverlap = FALSE
CHECK_DEADLOCK FALSE
CONSTRAINTS NoLogoutMessages NotRaced
PROPERTIES CommandsReachAsset
