SPECIFICATION FairSpec
CONSTANTS
  a = a
  b = b
  None = None
  Clients <- TwoClients
  Ops <- StartAndAbort
  Impatient <- Nobody
  Tracing = FALSE
  MaxInterrupts = 0
CHECK_DEADLOCK FALSE
PROPERTIES
  LegalInAnyState
