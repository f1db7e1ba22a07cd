SPECIFICATION AllSpec
CONSTANTS
  MAX_EDITS    = 1
  MAX_FAULTS   = 2
  None         = None
  Entries      = {1, 2}
  Names        = {1, 2}
  Runs         = {1, 2, 3}
  Titles       = {m1}
  Rebuilds     = {1, 2}
  Eps          = {1, 2}
  Grabs        = {1}
  MAX_ATTEMPTS = 2
  MAX_NOW      = 2
  Troubled     = {"a"}
  STALE        = 1
  Channels     = {c1}
  MAX_K        = 2
  Versions     = {1, 2}
  REVERTS      = FALSE
  Procs        = {1, 2}
  MAX_TIMERS   = 2
  Slots        = {1}
  Feeds        = {1, 2}
  Requests     = {q1}
  ATTEMPTS     = 2
  BEHIND       = 0
  Hosts        = {1, 2}
  Users        = {1, 2}
  Passes       = {1, 2}
  Logins       = {1, 2}
  Broadcasts   = {t1}
  Polls        = {1, 2}
  Off          = Off
  Silent       = Silent
  MIN_PROBED   = 5
  MAX_PROBES   = 5
  MAX_ROUNDS   = 5
  Loops        = {1, 2}
  MAX_EXITS    = 1
  Movies       = {1}
  Shows        = {}
  Syncs        = {1, 2}
  BATCH        = 1
INVARIANTS
  TypesOK
  RecordsAreTrue
PROPERTIES
  SyncIsFaithful
  NothingWantedIsLost
  ChangesArrive
  LoopsRecover
CHECK_DEADLOCK FALSE
