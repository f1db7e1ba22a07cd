SPECIFICATION FairSpec
CONSTANTS
  c1 = c1
  c2 = c2
  s1 = s1
  s2 = s2
  s3 = s3
  p1 = p1
  p2 = p2
  Channels = {c1, c2}
  Streams = {s1, s2}
  Providers = {p1, p2}
  ChannelOf <- RingChannelOf
  ProviderOf <- RingProviderOf
  Quality <- RingQuality
  DEGRADED_PENALTY = 150
  Viewers = {v1}
  Muxes = {m1, m2}
  None = None
  RECONNECT_MAX = 1
  OPEN_ATTEMPTS = 2
  MAX_WARM = 1
  HEADROOM = 1
  KeepWarmOutlastsNap = TRUE
  OpensOverlap = FALSE
  FlakyStreams = {}
  FlakyProviders = {}
  InitialMax <- OneSlot
  Budgets = {}
INVARIANTS
  NoSlotLeak
  ViewersKeepTheirMux
PROPERTIES
  StoppedNeverDials
  UpstreamsEnd
