SPECIFICATION Spec
CONSTANTS
  AssetConn = {a1}
  ControllerConn = {c1}
  Addr = {p1}
  None = None
  AssetsOverlap = FALSE
  ControllersOverlap = FALSE
CHECK_DEADLOCK FALSE
CONSTRAINTS NoLogoutMessages
INVARIANTS NoUseOfDeletedController
