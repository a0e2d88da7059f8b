------------------------------ MODULE RoomRecord ------------------------------
(***************************************************************************)
(* The life of one in-memory room record (meetRooms.js:36-122), as the     *)
(* handlers that work inside a room may take it for granted: it is made    *)
(* once, a peer joins it once and leaves it once, and it is over with its  *)
(* last departure, with DELETE or with the process, and never comes back.  *)
(*                                                                         *)
(* RoomLifecycle, where the records are many and handlers wait and overlap,*)
(* implements this for every record; MediaDemand, which looks inside one   *)
(* room, takes its joins and departures from here.                         *)
(***************************************************************************)
CONSTANT Peers

VARIABLES
  life,     \* "fresh", "open" (in the map) or "over"
  present,  \* room.peers, while the record is in the map
  seen      \* the peers that have joined, here or elsewhere

vars == <<life, present, seen>>

Init == life \in {"fresh", "open"} /\ present = {} /\ seen = {}

\* createMeetRoomRecord
Make ==
  /\ life = "fresh"
  /\ life' = "open"
  /\ UNCHANGED <<present, seen>>

\* room.peers.set
Join(p) ==
  /\ life = "open" /\ p \notin seen
  /\ present' = present \cup {p}
  /\ seen' = seen \cup {p}
  /\ UNCHANGED life

\* The peer joins another record, or this one when it is over.
Elsewhere(p) ==
  /\ p \notin seen
  /\ seen' = seen \cup {p}
  /\ UNCHANGED <<life, present>>

\* removePeer: the last one out takes the record with it.
Depart(p) ==
  /\ p \in present
  /\ present' = present \ {p}
  /\ life' = IF present = {p} THEN "over" ELSE life
  /\ UNCHANGED seen

\* closeMeetRoom, or the end of the process.
End ==
  /\ life = "open"
  /\ life' = "over"
  /\ present' = {}
  /\ UNCHANGED seen

Next == Make \/ End \/ \E p \in Peers : Join(p) \/ Elsewhere(p) \/ Depart(p)

Spec == Init /\ [][Next]_vars
=============================================================================
