CONSTANTS
  Request = {r1, r2}
  MaxBuffer = 3
SPECIFICATION FairSpec
INVARIANTS
  AnsweredOnce
  WholeResponse
PROPERTIES
  Answered
