------------------------------ MODULE MCDashboard ------------------------------
(***************************************************************************)
(* Small instances of Dashboard for TLC, and the reports of PlatformPolicy *)
(* checked over every small table.                                         *)
(***************************************************************************)
EXTENDS Dashboard, PlatformPolicy

\* Every table of at most two samples of one account.
Samples ==
  [id : {1, 2}, user : {"u"}, peer : {"p", "q"}, identity : {"i", Absent}, at : {0, 2},
   codec : {"h264", Absent}, encoder : {"x"}, hardware : {TRUE, FALSE, Absent},
   limitedBy : {"none", "cpu", "thermal", Absent}, paused : BOOLEAN]

SampleTables ==
  {{s} : s \in Samples} \cup
  {{s, t} : s \in {x \in Samples : x.id = 1 /\ x.codec = "h264"},
            t \in {x \in Samples : x.id = 2 /\ x.peer = "q" /\ x.at = 2}}

Total(counts) == LET count(k) == counts[k] IN MapThenSumSet(count, DOMAIN counts)

\* Every sample of the window is in one group of codecs and has one limiting
\* factor, on the server and on the page (analyticsSummary, LimitingFactor).
ASSUME EverySampleCounted ==
  \A table1 \in SampleTables, since \in {0, 1} :
    LET summary == AnalyticsSummary(table1, "u", since)
        perCodec == [c \in DOMAIN summary.codecs |-> summary.codecs[c].samples]
    IN /\ Total(perCodec) = summary.samples
       /\ Total(LimitingFactor(summary.limitedBy)) = summary.samples
       /\ Pruned(table1, since) = SamplesSince(table1, "u", since)

\* The per-machine rows agree with the window: no machine is counted twice, its
\* shares are shares, and in tables too small for rounding to matter the verdict
\* is critical exactly if more than half of a machine's samples were encoded in
\* software (peerBreakdown, HealthVerdict).
ASSUME VerdictCounts ==
  \A table1 \in SampleTables :
    LET peers == PeerBreakdown(table1, "u", 0)
        named == {s \in table1 : s.identity # Absent}
        of(i) == {s \in named : s.identity = i}
    IN /\ Total([i \in DOMAIN peers |-> peers[i].samples]) = Cardinality(named)
       /\ \A i \in DOMAIN peers : peers[i].softwarePct \in 0..100 /\ peers[i].idlePct \in 0..100
       /\ (HealthVerdict(peers) = "critical") =
            \E i \in DOMAIN peers : 2 * Cardinality({s \in of(i) : s.hardware = FALSE})
                                     > Cardinality(of(i))

\* The chart adds up to the summary (usageDaily, usageSummary), and what is
\* connected is counted live though it joined before the window.
ASSUME DaysAddUp ==
  \A table1 \in SUBSET [user : {"u"}, room : {"r", "s"}, peer : {1}, joined : {0, 70000, 200000},
                         left : {210000, Absent}, bytesSent : {7, Absent}] :
    Cardinality(table1) <= 2 =>
      LET summary == UsageSummary(table1, "u", 60000, 240000)
          daily   == UsageDaily(table1, "u", 60000, 240000, 100000)
          ms      == Total([d \in DOMAIN daily |-> daily[d].totalMs])
      IN /\ Total([d \in DOMAIN daily |-> daily[d].sessions]) = summary.sessions
         /\ summary.participantMinutes = (ms + 30000) \div 60000
         /\ summary.liveParticipants = Cardinality({u \in table1 : u.left = Absent})

\* Every event a participant of an owned room reports is in one line of the
\* summary, and a demo room leaves no trace (meet-event, eventSummary).
ASSUME EventsAddUp ==
  \A owner \in {"u", Absent}, type \in {"share-failed", "resumed", Absent}, code \in {"c", Absent},
     peer \in {[id |-> 1, identity |-> "i"], Absent} :
    LET room == [id |-> "r", owner |-> owner]
        msg(n) == [id |-> n, at |-> n, event |-> type, code |-> code]
        events == MeetEvent(MeetEvent({}, room, peer, msg(1)), room, peer, msg(2))
        lines  == EventSummary(events, "u", 0)
    IN /\ Total([k \in DOMAIN lines |-> lines[k].count]) =
            (IF Absent \in {owner, type, peer} THEN 0 ELSE 2)
       /\ \A k \in DOMAIN lines : lines[k].machines = 1 /\ (k[2] = "error") = (type = "share-failed")

\* A machine is flagged live exactly if it is in one of the rooms the listing
\* returns (withLiveFlag, listRoomsForUser); a demo room's sample is not kept.
ASSUME LiveFlags ==
  \A in1, in2, in3 \in SUBSET {"i", Absent} :
    LET rooms == {[id |-> n, owner |-> IF n = 3 THEN "v" ELSE "u", at |-> n] : n \in 1..3}
        live  == [n \in 1..3 |-> <<in1, in2, in3>>[n]]
    IN /\ Cardinality(ListRooms(rooms, "u")) <= RoomLimit
       /\ WithLiveFlag({"i"}, rooms, "u", live)["i"] =
            \E r \in ListRooms(rooms, "u") : "i" \in live[r.id]
       /\ MeetStats({}, [id |-> 1, owner |-> Absent], [id |-> 1, identity |-> "i"], Absent) = {}

\* The diagnosis says that nothing is wrong exactly if it found nothing worse
\* than a remark, and it never says so of an integration that cannot mint
\* tokens or whose sessions do not name their client (diagnose).
ASSUME DiagnosisHonest ==
  \A usage \in SUBSET [client : {"sdk", Absent}, version : {"1", "2"}],
     calls \in SUBSET [method : {"GET", "POST"}, route : StatusRoutes],
     strict \in BOOLEAN, mode \in {"screen", "meeting"}, iframe \in BOOLEAN :
    LET rooms == {[mode |-> mode, requireEntireScreen |-> strict]}
        found == Diagnose(usage, calls, rooms, iframe)
    IN /\ "looks-correct" \in found =>
            /\ Called(calls, "POST", TokenRoutes) /\ mode = "screen" /\ ~iframe
            /\ \E u \in usage : u.client # Absent
       /\ "running" \in found /\ (\A f \in found : Level(f) # "error" /\ Level(f) # "warn")
            => "looks-correct" \in found
       /\ (usage = {}) = (found = {"nothing-connected"})
=============================================================================
