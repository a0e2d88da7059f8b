------------------------------ MODULE RoomVisits ------------------------------
(***************************************************************************)
(* What a customer of the meeting service may rely on, whatever handlers   *)
(* overlap inside the server (server.js:298-402, 695-708, 166-196,         *)
(* httpApi.js:339-343, db.js:197-207): a participant visits one room, once;*)
(* it is admitted and let go in one step each, in which the roster of the  *)
(* room and its own usage row change together and nobody else's do; a room *)
(* that was ended is empty for good; a boot empties every room and closes  *)
(* every row.                                                              *)
(***************************************************************************)
EXTENDS Naturals

CONSTANTS
  Peers,   \* participants: one per connection
  Rooms,   \* room ids
  Owned    \* the rooms that belong to an account and are metered

VARIABLES
  roster,  \* who is in each room
  been,    \* who has been admitted, ever
  row,     \* usage row of each participant: "none", "open" or "closed"
  ended,   \* the rooms their customer has ended
  boots    \* how often the process came back

vars == <<roster, been, row, ended, boots>>

Init ==
  /\ roster = [r \in Rooms |-> {}]
  /\ been = {}
  /\ row = [s \in Peers |-> "none"]
  /\ ended = [r \in Rooms |-> FALSE]
  /\ boots = 0

\* The end of meet-join.  A room that went away while its router was being made
\* takes nobody in; the row is opened all the same.
Arrive(s, r) ==
  /\ s \notin been
  /\ been' = been \cup {s}
  /\ row' = IF r \in Owned THEN [row EXCEPT ![s] = "open"] ELSE row
  /\ \/ ~ended[r] /\ roster' = [roster EXCEPT ![r] = @ \cup {s}]
     \/ UNCHANGED roster
  /\ UNCHANGED <<ended, boots>>

\* The end of meet-leave, or of the close handler.
Depart(s) ==
  /\ s \in been
  /\ row' = IF row[s] = "open" THEN [row EXCEPT ![s] = "closed"] ELSE row
  /\ roster' = [r \in Rooms |-> roster[r] \ {s}]
  /\ UNCHANGED <<been, ended, boots>>

\* DELETE: the rows stay open until their participants depart.
End(r) ==
  /\ r \in Owned
  /\ ended' = [ended EXCEPT ![r] = TRUE]
  /\ roster' = [roster EXCEPT ![r] = {}]
  /\ UNCHANGED <<been, row, boots>>

Reboot ==
  /\ roster' = [r \in Rooms |-> {}]
  /\ row' = [s \in Peers |-> IF row[s] = "open" THEN "closed" ELSE row[s]]
  /\ boots' = boots + 1
  /\ UNCHANGED <<been, ended>>

Next ==
  \/ \E s \in Peers : Depart(s) \/ \E r \in Rooms : Arrive(s, r)
  \/ \E r \in Rooms : End(r)
  \/ Reboot

Spec == Init /\ [][Next]_vars
=============================================================================
