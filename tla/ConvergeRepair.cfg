SPECIFICATION FairSpec
CONSTANTS
  Hosts = {main, sports}
  Groups = {sports}
  Callers = {reconciler, scheduled}
  Reconciler = reconciler
  MAX_READD_FAILURES = 2
  MIN_SCOPE_FAILURES = 2
  MaxLineup = 3
  Hash <- Reverts
VIEW PresentView
INVARIANTS
  TypeOK
  RecordIsTrue
  BreakerHolds
PROPERTIES
  TunerComesBack
