SPECIFICATION Spec
CONSTANTS
  None    = None
  Listed  <- FourEntries
  Slug    <- FourSlugs
  Country <- OneCountry
  TvgId   <- NoTvgIds
  Orders  <- AllOrders
INVARIANTS
  DuplicatesAreGrouped
