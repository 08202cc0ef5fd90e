\* What ends by itself, and what ends by the idle timeout.
CONSTANTS
  BaseUrlValid = TRUE
  Conn = {c1, c2}
  MaxHttpReq = 1
  MaxPackets = 1
  MaxUnsent = 1
  None = None
SPECIFICATION FairSpec
PROPERTIES
  ClientsGetOn
  UpdaterEnds
