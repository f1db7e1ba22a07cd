SPECIFICATION FairSpec
CONSTANTS
  Procs       = {p1, p2}
  None        = None
  MAX_RETRIES = 1
  Channels    = {11, 12}
  Selections  <- MCSelected
  SEED        <- MCSeed
  Viewers     = {v1}
INVARIANTS
  TypeOK
  ShowsPicked
  NothingStrays
PROPERTIES
  ViewerIsServed
CHECK_DEADLOCK FALSE
