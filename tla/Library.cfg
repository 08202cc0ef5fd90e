CONSTANTS
  Chars <- AllChars
  MaxPath = 2
  MaxQuery = 2
  MaxName = 2
  MaxValue = 2
  MaxBody = 3
  HeaderCounts = 4
  Paths <- SomePaths
  Queries <- SomeQueries
  Bodies <- SomeBodies
  OtherHeaders <- SomeHeaders
  NoMessage = NoMessage
  BUFFER_SIZE_MAX = 46
  PieceSizes = {1, 7, 20}
  Responses <- SomeResponses
  NoResponse = NoResponse
  Tokens <- SomeTokens
  Dumps <- SomeDumps
  Names <- SomeNames
  JSON_MAX_VALUE_LEN = 3
  MaxTokens = 7
  MaxHandles = 2
  MaxBlocks = 7
  MaxCalls = 4
  DNS_HEADER_SIZE = 12
  DNS_MAX_PACKET_SIZE = 26
  QUERY_STR_SIZE = 6
  Questions <- SomeQuestions
  Extras <- SomeExtras
  NoPacket = NoPacket
  Released <- SomeVersions
  OtherTexts <- SomeOthers
  NoVersion = NoVersion
  Period = 8
  Second = 2
  MaxTime = 30
SPECIFICATION LibrarySpec
CHECK_DEADLOCK FALSE
INVARIANTS
  Understood
  ResponseRead
  OneOwner
  DumpsParse
  QueriesAnswered
  VersionKept
  UptimeFollows
PROPERTY ValuesApart
