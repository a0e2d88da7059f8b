---------------------------- MODULE MCMediaDemand ----------------------------
(***************************************************************************)
(* MediaDemand for TLC: peers, producers and consumers are interchangeable.*)
(***************************************************************************)
EXTENDS MediaDemand, TLC

CONSTANTS p1, p2, p3, x1, x2, c1, c2, c3

TwoPeers       == {p1, p2}
ThreePeers     == {p1, p2, p3}
OneProducer    == {x1}
TwoProducers   == {x1, x2}
TwoConsumers   == {c1, c2}
ThreeConsumers == {c1, c2, c3}

Symmetry == Permutations(Peers) \cup Permutations(Producers) \cup Permutations(Consumers)
=============================================================================
