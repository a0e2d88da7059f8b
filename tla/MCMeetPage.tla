------------------------------- MODULE MCMeetPage -------------------------------
(* Small instances of MeetPage for TLC. *)
EXTENDS MeetPage, TLC

\* The other participants are interchangeable.
Interchangeable == Permutations(Peers)
=============================================================================
