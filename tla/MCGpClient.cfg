SPECIFICATION FairSpec
CONSTANTS
  Socket = {s1, s2, s3}
  None = None
  SigPipe = FALSE
  Clogs = TRUE
CHECK_DEADLOCK FALSE
PROPERTIES ReturnsToService LeavesBrokenConnectionsOnly
