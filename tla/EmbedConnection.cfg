CONSTANTS
  Peers = {p1}
  NoPeer = NoPeer
  Attempts = 2
  MaxConns = 3
SPECIFICATION Spec
CHECK_DEADLOCK FALSE
INVARIANTS
  InductiveInv
  OneSession
