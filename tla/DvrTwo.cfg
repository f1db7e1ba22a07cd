SPECIFICATION FairSpec
CONSTANTS
  p1 = p1
  p2 = p2
  Programmes = {p1, p2}
  Free = Free
  StartAt <- TwoStartAt
  EndAt <- TwoEndAt
  PAD_END = 1
  MAX_IDS = 2
  Writers = {w1, w2, w3, w4}
  Limits = {1, 2}
  DUE_LIMIT = 2
  MaxKept = 1
  LAST = 3
  MAX_REBOOTS = 1
  MAX_FAULTS = 1
INVARIANTS
  TypeOK
  WritersAreBounded
  StatusIsTrue
PROPERTIES
  EndedIsFinal
  RecordingsEnd
