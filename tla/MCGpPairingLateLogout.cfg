SPECIFICATION FairSpec
CONSTANTS
  AssetConn = {a1}
  ControllerConn = {c1, c2}
  Addr = {p1, p2}
  None = None
  AssetsOverlap = FALSE
  ControllersOverlap = TRUE
CHECK_DEADLOCK FALSE
CONSTRAINTS NoLogoutMessages AssetStays NotRaced InOrder SecondStays
PROPERTIES PollingFindsController
