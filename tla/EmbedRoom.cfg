CONSTANTS
  Null = Null
  NaN = NaN
  Devices = {"mic", "camera"}
  Pickers <- Chosen
  RequireEntireScreen = TRUE
  Mode = "meeting"
  MaxShares = 2
  MaxEnables = 2
  MaxStarts = 3
  MaxDrops = 1
SPECIFICATION Spec
CHECK_DEADLOCK FALSE
INVARIANTS
  InductiveInv
  ShareShown
  LeaveReleases
  MuteHolds
