CONSTANTS
  free = free
  pinned = pinned
  a = a
  b = b
  NoConfig = NoConfig
  NoBssid = NoBssid
  Configs <- MCConfigs
  Pinned <- MCPinned
  AccessPoints <- MCAccessPoints
  BetterCount = 2
  MaxEvents = 2
SPECIFICATION Spec
INVARIANTS
  RadioServes
  ScansGoOn
  ConnectedTracksLink
PROPERTY JumpsToSteadyOnly
