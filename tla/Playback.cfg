SPECIFICATION AllSpec
CONSTANTS
  Objects       = {o1, o2, o3}
  Tabs          = {t1, t2}
  Nothing       = Nothing
  Segmenters    = {s1, s2}
  Requests      = {r1, r2}
  Nobody        = Nobody
  Players       = {v1, v2}
  OWN_CAP       = 3
  GLOBAL_CAP    = 2
  MAX_HEAD      = 3
  Subs          = {a, b, c}
  MAX_LOADS     = 2
  LENGTH        = 5
  TAILS         = {0, 2, 3, 4}
  STARTS        = {0, 1, 3}
  RATE          = 1
  MAX_TICKS     = 12
  MAX_LATE      = 3
  RING_SIZE     = 2
  MAX_BUILDS    = 3
  Tunes         = {t1}
  LAST          = 7
  ClockAt       = {0, 2, 4, 6}
  PesAt         = {1, 4, 7}
  FirstPcrs     = {0, 20, 61}
  Resets        = {4, 8}
  PCR_WRAP      = 64
  SANE_BACKWARD = 8
  MAX_SEEK      = 2
  MAX_PACKETS   = 5
  MAX_CHUNK     = 2
  GOP_CAP       = 5
  HELD_CAP      = 2
  HIST          = 3
  TARGET        = 1
  Bursts        = {1, 3}
  MAX_PUSHED    = 5
  TRIES         = 2
INVARIANTS
  TypesOK
  EverythingHasAnOwner
  ReelsAreWhole
PROPERTIES
  StreamIsGapless
  RequestsHoldTheirOwn
  UnusedEnds
CHECK_DEADLOCK FALSE
