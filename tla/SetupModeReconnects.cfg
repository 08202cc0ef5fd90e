CONSTANTS
  home = home
  other = other
  phone = phone
  laptop = laptop
  NoConfig = NoConfig
  NoBssid = NoBssid
  Nothing = Nothing
  Configs = {home}
  Pinned = {}
  AccessPoints = {}
  BetterCount = 2
  Clients = {phone}
  MaxOps = 1
  MaxMissed = 0
SPECIFICATION FairSpec
PROPERTY Reconnects
