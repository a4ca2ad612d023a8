SPECIFICATION Spec
CONSTANTS
  AssetConn = {a1, a2}
  ControllerConn = {c1, c2}
  Addr = {p1, p2}
  None = None
  AssetsOverlap = TRUE
  ControllersOverlap = TRUE
CHECK_DEADLOCK FALSE
CONSTRAINTS FewSessions
SYMMETRY Symmetry
INVARIANTS 
  TypeOK LinkedHasOwner PairedCopyUsable DatabaseStaysOnline PairingAgreed
  NoReferenceToLoggedOutController ConfirmedOnOwnSocket ConfirmedOnlyWhenGranted
PROPERTIES DatabaseGainsLiveOwners
