--------------------------- MODULE MCEmbedConnection ---------------------------
(* Small instances of EmbedConnection for TLC. *)
EXTENDS EmbedConnection, TLC

\* The other participants are interchangeable.
Interchangeable == Permutations(Peers)
=============================================================================
