SPECIFICATION Spec
CONSTANTS
  Messages <- MCMessages
  HeaderLen = 3
  BufferLen = 7
  Room = 6
  MaxSends = 3
CHECK_DEADLOCK FALSE
INVARIANT SentIsHandledOrUnderWay
PROPERTY ReadsWholeMessages
