CONSTANTS
  Retries = 5
  MaxWires = 11
  MaxNotices = 2
  MaxWatchers = 2
SPECIFICATION FairSpec
CHECK_DEADLOCK FALSE
INVARIANTS
  InductiveInv
  CaptureSurvives
  CaptureReleased
  NoStrayConnection
  DemandApplied
PROPERTIES
  RetriesEnd
