SPECIFICATION FairSpec
CONSTANTS
  Socket = {s1, s2, s3}
  None = None
  SigPipe = TRUE
  Clogs = FALSE
CHECK_DEADLOCK FALSE
PROPERTIES ReturnsToService
