------------------------------ MODULE MCEmbedRoom ------------------------------
(* Small instances of EmbedRoom for TLC. *)
EXTENDS EmbedRoom

Chosen == {"monitor", "window", Null, "dismissed"}
=============================================================================
