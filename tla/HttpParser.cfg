CONSTANTS
  Chars <- AnyChars
  MaxPath = 1
  MaxQuery = 1
  MaxName = 2
  MaxValue = 2
  MaxBody = 3
  HeaderCounts = 3
SPECIFICATION Spec
VIEW HeadersCounted
INVARIANTS
  BodyAnnounced
PROPERTY RequestSpec
