SPECIFICATION Spec
CONSTANTS
  c1 = c1
  c2 = c2
  s1 = s1
  s2 = s2
  s3 = s3
  p1 = p1
  p2 = p2
  Channels = {c1, c2}
  Streams = {s1, s2}
  Providers = {p1}
  ChannelOf <- SoloChannelOf
  ProviderOf <- SoloProviderOf
  Quality <- SoloQuality
  DEGRADED_PENALTY = 150
  Viewers = {v1, v2}
  Muxes = {m1, m2, m3}
  None = None
  RECONNECT_MAX = 1
  OPEN_ATTEMPTS = 4
  MAX_WARM = 0
  HEADROOM = 1
  KeepWarmOutlastsNap = TRUE
  OpensOverlap = TRUE
  FlakyStreams = {}
  FlakyProviders = {}
  InitialMax <- TwoSlots
  Budgets = {0, 1, 2}
SYMMETRY MuxSymmetry
VIEW LiveView
INVARIANTS
  TypeOK
  UpstreamsAreShared
PROPERTIES
  KeepsLedger
  SlotsDecideWhoStays
