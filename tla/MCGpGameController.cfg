SPECIFICATION Spec
CONSTANTS
  Axis = {left_x, left_y}
  Half = 4
  DeadZone = 1
  None = None
  MaxQueue = 2
  Lossy = TRUE
CHECK_DEADLOCK FALSE
INVARIANTS NoAxisIgnored AssetSeesSticks
