--------------------------- MODULE MCRoomLifecycle ---------------------------
(***************************************************************************)
(* RoomLifecycle for TLC: connections and record identities are            *)
(* interchangeable, rooms are not (some are owned).                        *)
(***************************************************************************)
EXTENDS RoomLifecycle, TLC

CONSTANTS s1, s2, s3, own, demo, k1, k2

OneSocket    == {s1}
TwoSockets   == {s1, s2}
ThreeSockets == {s1, s2, s3}
OwnRoom      == {own}
BothRooms    == {own, demo}
TwoRecs      == {k1, k2}
NoSockets    == {}

Symmetry       == Permutations(Sockets) \cup Permutations(Recs)
=============================================================================
