CONSTANTS
  home = home
  other = other
  phone = phone
  laptop = laptop
  NoConfig = NoConfig
  NoBssid = NoBssid
  Nothing = Nothing
  Configs = {home, other}
  Pinned = {}
  AccessPoints = {}
  BetterCount = 2
  Clients = {phone, laptop}
  MaxOps = 2
  MaxMissed = 1
SYMMETRY Symmetry
SPECIFICATION Spec
INVARIANTS
  Reachable
  OneCoreTask
  UserHonoured
PROPERTY IdleSparesClients
