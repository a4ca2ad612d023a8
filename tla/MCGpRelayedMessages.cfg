SPECIFICATION Spec
CONSTANTS
  Base = 2
  UserLen = 1
  KeyLen = 2
  Payload <- MCPayload
  Login <- MCLogin
  StartTime = 14
  EndTime = 20
  Skew = 5
  MaxInFlight = 3
  None = None
CHECK_DEADLOCK FALSE
INVARIANTS ReadAsBuilt NameAsGiven RoundTripTimeTrue
