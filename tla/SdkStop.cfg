CONSTANTS
  Retries = 1
  MaxWires = 3
  MaxNotices = 1
  MaxWatchers = 1
SPECIFICATION Spec
CHECK_DEADLOCK FALSE
INVARIANT
  EndedIsFinal
