SPECIFICATION FairSpec
CONSTANTS
  w = w
  r1 = r1
  r2 = r2
  None = None
  Nothing = Nothing
  Threads <- ThreeThreads
  Ops <- EachRole
  Sizes <- OneOrTwo
  Offsets <- BackStayOn
  MaxWritten = 3
CHECK_DEADLOCK FALSE
INVARIANTS
  TypeOK
  NothingSleptThrough
PROPERTIES
  PipeSpec
  ReadEnds
