----------------------------- MODULE MCMonitorMesh -----------------------------
(* Small instances of MonitorMesh for TLC. *)
EXTENDS MonitorMesh, TLC

\* Stations are interchangeable, and so are watchers.
Interchangeable == Permutations(Stations) \cup Permutations(Watchers)
=============================================================================
