----------------------------- MODULE UsageLedger -----------------------------
(***************************************************************************)
(* What billing may rely on in the usage_sessions table, whoever writes to *)
(* it (db.js:67-79, platformStore.js:125-158, db.js:199-207): a session is *)
(* one row; it is opened once, it is closed once, by its own departure or  *)
(* by the boot of a new process, and a closed row is never touched again.  *)
(* While a process runs, rows change one at a time; a boot closes exactly  *)
(* the rows that are open.                                                 *)
(***************************************************************************)
EXTENDS Naturals

CONSTANT Sessions

VARIABLES
  row,    \* "none", "open" (left_at NULL) or "closed"
  boots   \* how often a process took over the table

vars == <<row, boots>>

Init == row = [s \in Sessions |-> "none"] /\ boots = 0

\* openUsageSession
Open(s) ==
  /\ row[s] = "none"
  /\ row' = [row EXCEPT ![s] = "open"]
  /\ UNCHANGED boots

\* closeUsageSession
Close(s) ==
  /\ row[s] = "open"
  /\ row' = [row EXCEPT ![s] = "closed"]
  /\ UNCHANGED boots

\* reconcileOpenSessions
Reconcile ==
  /\ row' = [s \in Sessions |-> IF row[s] = "open" THEN "closed" ELSE row[s]]
  /\ boots' = boots + 1

Next == Reconcile \/ \E s \in Sessions : Open(s) \/ Close(s)

Spec == Init /\ [][Next]_vars
=============================================================================
