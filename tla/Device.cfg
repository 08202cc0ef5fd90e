CONSTANTS
  MAX_UNEXP_RESET_COUNT = 3
  MAX_SLEEP_DURATION = 1800
  WordLimit = 1024
  Intervals = {10, 45, 50, 70, 100}
  Garbage = {4711, 60000}
  MaxStreak = 6
  mine = mine
  yours = yours
  Values = {mine, yours}
  Default = Default
  Erased = Erased
  Nothing = Nothing
SPECIFICATION FairDeviceSpec
INVARIANTS
  SleepsAsAnnounced
  SavedStays
PROPERTIES
  StartsAfresh
  KeptUnlessLoop
  StoreSpec
  Wakes
