CONSTANTS
  p1 = p1
  p2 = p2
  p3 = p3
  x1 = x1
  x2 = x2
  c1 = c1
  c2 = c2
  c3 = c3
  NoPeer = NoPeer
  NoProducer = NoProducer
  Peers <- ThreePeers
  Producers <- OneProducer
  Consumers <- TwoConsumers
  EntireScreen = TRUE
SYMMETRY Symmetry
SPECIFICATION Spec
CHECK_DEADLOCK FALSE
INVARIANTS
  InductiveInv
  DemandAccurate
  ProducersAgree
  PolicyHeld
  DepartedLeaveNothing
