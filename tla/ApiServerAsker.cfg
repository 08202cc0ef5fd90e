\* A late answer reaches a connection that asked for something else.
CONSTANTS
  BaseUrlValid = TRUE
  Conn = {c1, c2}
  MaxHttpReq = 2
  MaxPackets = 1
  MaxUnsent = 1
  None = None
SPECIFICATION Spec
PROPERTY AnswerToAsker
