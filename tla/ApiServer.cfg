CONSTANTS
  BaseUrlValid = TRUE
  Conn = {c1, c2, c3}
  MaxHttpReq = 2
  MaxPackets = 2
  MaxUnsent = 1
  None = None
SPECIFICATION Spec
INVARIANTS
  SlotOwner
  ApiConnWaits
  OneOtaActivity
PROPERTIES
  NoOverwrite
  ResponseContiguous
SYMMETRY Symmetry
