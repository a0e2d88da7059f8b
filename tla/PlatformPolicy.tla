---------------------------- MODULE PlatformPolicy ----------------------------
(***************************************************************************)
(* The decisions and reports of the platform that depend on nothing but    *)
(* their arguments: httpApi.js, auth.js, the queries of platformStore.js,  *)
(* and what the analytics page concludes from them.                        *)
(*                                                                         *)
(* A table is a set of rows with an id.  A percentage is rounded half up,  *)
(* as Math.round does.                                                     *)
(***************************************************************************)
EXTENDS Integers, FiniteSets, FiniteSetsExt

CONSTANTS
  Absent,               \* undefined, null and "": a value a request or a row has not
  Undefined,            \* undefined, where the code tells it from null
  NaN,                  \* what Number() makes of what is no number
  MaxMeetParticipants,  \* MAX_MEET_PARTICIPANTS
  RoomLimit             \* listRoomsForUser: how many rooms it returns

ASSUME PlatformAssumption ==
  /\ NaN \notin Int /\ Absent # Undefined /\ Absent \notin Int \cup BOOLEAN \cup STRING
  /\ MaxMeetParticipants \in Nat \ {0} /\ RoomLimit \in Nat \ {0}

Given(value, default) == IF value = Absent THEN default ELSE value

(***************************************************************************)
(* POST /api/v1/rooms                                                      *)
(***************************************************************************)
\* n is Number(maxParticipants); 0 and NaN are falsy.
RoomCap(n) ==
  IF n \in {0, NaN} \/ n > MaxMeetParticipants THEN MaxMeetParticipants ELSE n

RoomIsFull(peers, cap) == peers >= (IF cap = 0 THEN MaxMeetParticipants ELSE cap)

\* The record of the room, or Absent where the request is answered with 400.
NewRoom(body) ==
  LET mode == Given(body.mode, "meeting")
  IN IF mode \notin {"meeting", "screen"} THEN Absent
     ELSE [mode |-> mode, requireEntireScreen |-> body.requireEntireScreen,
           maxParticipants |-> RoomCap(body.maxParticipants)]

(***************************************************************************)
(* POST /api/v1/rooms/:roomId/tokens, and the token at meet-join           *)
(***************************************************************************)
Day == 24 * 60 * 60

TtlSeconds(n) == IF n \in {0, NaN} THEN Day \div 4 ELSE IF n > Day THEN Day ELSE n

Role(body) ==
  Given(body.role, IF body.canPublish = FALSE THEN "viewer" ELSE "publisher")

\* An explicit canPublish, null included, wins over the role.
CanPublish(body) ==
  IF body.canPublish = Undefined THEN Role(body) = "publisher" ELSE body.canPublish # FALSE

\* The claims, or Absent for 400 and 404.  room: the row of rooms, or Absent;
\* it may have ended.
MintToken(user, room, body, now) ==
  IF room = Absent \/ body.identity = Absent THEN Absent
  ELSE IF room.owner # user \/ Role(body) \notin {"publisher", "viewer"} THEN Absent
  ELSE [room |-> room.id, owner |-> user, sub |-> body.identity, role |-> Role(body),
        canPublish |-> CanPublish(body), canSubscribe |-> body.canSubscribe # FALSE,
        mode |-> room.mode, requireEntireScreen |-> room.requireEntireScreen,
        iat |-> now, exp |-> now + TtlSeconds(body.ttlSeconds)]

\* verifyRoomToken: a token is its claims and the key it was signed with.
VerifyRoomToken(token, key, now) ==
  IF token = Absent THEN Absent
  ELSE IF token.key # key \/ token.claims.exp < now THEN Absent ELSE token.claims

\* meet-join: whether a room admits a token.  A room without an owner asks none.
Admits(room, token, key, now) ==
  \/ room.owner = Absent
  \/ LET claims == VerifyRoomToken(token, key, now)
     IN claims # Absent /\ claims.room = room.id

(***************************************************************************)
(* Rooms and peers as the API shows them                                   *)
(***************************************************************************)
\* The newest rooms of an account; at tells them apart.
ListRooms(rooms, user) ==
  {r \in rooms : /\ r.owner = user
                 /\ Cardinality({q \in rooms : q.owner = user /\ q.at > r.at}) < RoomLimit}

\* describePeer.  A peer has the sources it produces and the state it reported.
DescribePeer(peer) ==
  [role    |-> IF peer.canPublish = FALSE THEN "viewer" ELSE "publisher",
   sharing |-> [s \in {"screen", "camera", "mic"} |-> s \in peer.producers],
   media   |-> Given(peer.mediaState,
                     [mic |-> FALSE, camera |-> FALSE, screen |-> "screen" \in peer.producers])]

\* meetRooms: the identities in each live room.
LiveIdentities(rooms, user, meetRooms) ==
  UNION {IF r.id \in DOMAIN meetRooms THEN meetRooms[r.id] \ {Absent} ELSE {} :
           r \in ListRooms(rooms, user)}

WithLiveFlag(identities, rooms, user, meetRooms) ==
  [i \in identities |-> i \in LiveIdentities(rooms, user, meetRooms)]

(***************************************************************************)
(* Usage                                                                   *)
(***************************************************************************)
\* usage_sessions: left is Absent while the peer is connected.  What is still
\* open is measured up to now, and counted live whenever it began.
UsageSummary(usage, user, since, now) ==
  LET mine     == {u \in usage : u.user = user}
      window   == {u \in mine : u.joined >= since}
      lasted(u) == Given(u.left, now) - u.joined
  IN [sessions           |-> Cardinality(window),
      rooms              |-> Cardinality({u.room : u \in window}),
      participantMinutes |-> (MapThenSumSet(lasted, window) + 30000) \div 60000,
      liveParticipants   |-> Cardinality({u \in mine : u.left = Absent})]

\* usageDaily, and bandwidthDaily with bytes for minutes: by the day joined.
UsageDaily(usage, user, since, now, day) ==
  LET window    == {u \in usage : u.user = user /\ u.joined >= since}
      lasted(u) == Given(u.left, now) - u.joined
      bytes(u)  == Given(u.bytesSent, 0)
  IN [d \in {u.joined \div day : u \in window} |->
        LET group == {u \in window : u.joined \div day = d}
        IN [sessions  |-> Cardinality(group),
            totalMs   |-> MapThenSumSet(lasted, group),
            bytesSent |-> MapThenSumSet(bytes, group)]]

(***************************************************************************)
(* Telemetry: the rollups of media_samples                                 *)
(***************************************************************************)
Pct(part, total) == IF total = 0 THEN 0 ELSE (200 * part + total) \div (2 * total)

RecordMediaSample(samples, sample) ==
  samples \cup {[sample EXCEPT !.paused = @ = TRUE]}

\* meet-stats: only a participant of an owned room is recorded, under its own
\* identity; what the browser leaves out stays absent.
MeetStats(samples, room, peer, msg) ==
  IF Absent \in {room, peer} THEN samples
  ELSE IF room.owner = Absent THEN samples
  ELSE RecordMediaSample(samples,
         [id |-> msg.id, at |-> msg.at, user |-> room.owner, room |-> room.id,
          peer |-> peer.id, identity |-> peer.identity, source |-> msg.source,
          codec |-> msg.codec, encoder |-> msg.encoder, hardware |-> msg.hardware,
          limitedBy |-> msg.limitedBy, paused |-> msg.paused])

Count(rows, P(_)) == Cardinality({r \in rows : P(r)})

SamplesSince(samples, user, since) == {s \in samples : s.user = user /\ s.at >= since}

\* analyticsSummary: per codec and encoder, per limiting factor, and idleness.
AnalyticsSummary(samples, user, since) ==
  LET window == SamplesSince(samples, user, since)
      codecOf(s) == <<Given(s.codec, "unknown"), Given(s.encoder, "unknown")>>
      limitOf(s) == Given(s.limitedBy, "unknown")
      paused(s)  == s.paused
  IN [codecs    |-> [c \in {codecOf(s) : s \in window} |->
                      LET group == {s \in window : codecOf(s) = c}
                      IN [samples  |-> Cardinality(group),
                          peers    |-> Cardinality({s.peer : s \in group}),
                          hardware |-> \E s \in group : s.hardware = TRUE]],
      limitedBy |-> [l \in {limitOf(s) : s \in window} |->
                      Cardinality({s \in window : limitOf(s) = l})],
      idleShare |-> Pct(Count(window, paused), Cardinality(window)),
      samples   |-> Cardinality(window)]

\* peerBreakdown: one row per identity; what the browser did not say about its
\* encoder counts as neither hardware nor software.
PeerBreakdown(samples, user, since) ==
  LET window == {s \in SamplesSince(samples, user, since) : s.identity # Absent}
  IN [i \in {s.identity : s \in window} |->
        LET own        == {s \in window : s.identity = i}
            total      == Cardinality(own)
            software(s) == s.hardware = FALSE
            cpu(s)     == s.limitedBy = "cpu"
            network(s) == s.limitedBy = "bandwidth"
            paused(s)  == s.paused
        IN [samples             |-> total,
            softwarePct         |-> Pct(Count(own, software), total),
            cpuLimitedPct       |-> Pct(Count(own, cpu), total),
            bandwidthLimitedPct |-> Pct(Count(own, network), total),
            idlePct             |-> Pct(Count(own, paused), total)]]

\* latestSamplesForRoom: the last sample of every peer that ever reported there
\* (its limit of 50 rows is left out).
LatestSamples(samples, room) ==
  {s \in samples : s.room = room /\ \A other \in samples :
                                      other.peer = s.peer => other.at <= s.at}

\* analyticsTimeline: hours in which nobody shared have no row.
AnalyticsTimeline(samples, user, since, hour) ==
  LET window == SamplesSince(samples, user, since)
      cpu(s) == s.limitedBy = "cpu"
  IN [h \in {s.at \div hour : s \in window} |->
        LET group == {s \in window : s.at \div hour = h}
        IN [samples |-> Cardinality(group), peers |-> Cardinality({s.peer : s \in group}),
            cpuLimited |-> Count(group, cpu)]]

\* pruneMediaSamples, pruneSessionEvents
Pruned(rows, cutoff) == {r \in rows : r.at >= cutoff}

\* HealthVerdict of the analytics page, of the rows of peerBreakdown.
HealthVerdict(peers) ==
  IF \E i \in DOMAIN peers : peers[i].softwarePct > 50 THEN "critical"
  ELSE IF \E i \in DOMAIN peers : peers[i].cpuLimitedPct > 20 THEN "warning"
  ELSE "good"

\* LimitingFactor: what is not a known kind is counted as unknown.
LimitingFactor(limitedBy) ==
  LET known    == {"none", "cpu", "bandwidth"}
      count(l) == limitedBy[l]
      kind(k)  == {l \in DOMAIN limitedBy : IF k = "unknown" THEN l \notin known ELSE l = k}
  IN [k \in known \cup {"unknown"} |-> MapThenSumSet(count, kind(k))]

(***************************************************************************)
(* Session events                                                          *)
(***************************************************************************)
EventLevel(type) ==
  CASE type \in {"share-failed", "disconnected", "publish-failed", "reconnect-failed"} -> "error"
    [] type \in {"video-stalled", "reconnecting", "share-refused"}                     -> "warn"
    [] OTHER                                                                            -> "info"

RecordSessionEvent(events, e) ==
  IF Absent \in {e.user, e.type} THEN events
  ELSE events \cup {[id |-> e.id, user |-> e.user, type |-> e.type, code |-> e.code, at |-> e.at,
                     identity |-> e.identity, level |-> EventLevel(e.type)]}

\* meet-event
MeetEvent(events, room, peer, msg) ==
  IF Absent \in {room, peer} THEN events
  ELSE IF room.owner = Absent THEN events
  ELSE RecordSessionEvent(events,
         [id |-> msg.id, at |-> msg.at, user |-> room.owner, identity |-> peer.identity,
          type |-> msg.event, code |-> msg.code])

EventSummary(events, user, since) ==
  LET window == SamplesSince(events, user, since)
      key(e) == <<e.type, e.level, e.code>>
  IN [k \in {key(e) : e \in window} |->
        LET group == {e \in window : key(e) = k}
        IN [count |-> Cardinality(group),
            machines |-> Cardinality({e.identity : e \in group} \ {Absent})]]

(***************************************************************************)
(* integrationReport                                                       *)
(***************************************************************************)
\* What normalisePath and requireApiKey leave of a call: a method and a route.
Called(calls, method, routes) == \E c \in calls : c.method = method /\ c.route \in routes

TokenRoutes  == {"/api/v1/rooms/:id/tokens"}
StatusRoutes == {"/api/v1/rooms/:id", "/api/v1/rooms/:id/tokens"}

EndpointFindings(calls, rooms) ==
  LET meeting == {r \in rooms : r.mode = "meeting"}
      screen  == {r \in rooms : r.mode = "screen"}
  IN {f \in {"no-tokens", "all-strict", "all-meeting", "never-polled"} :
        CASE f = "no-tokens"    -> ~Called(calls, "POST", TokenRoutes)
          [] f = "all-strict"   -> screen # {} /\ \A r \in screen : r.requireEntireScreen
          [] f = "all-meeting"  -> meeting # {} /\ screen = {}
          [] f = "never-polled" -> ~Called(calls, "GET", StatusRoutes)}

\* The level of a finding.
Level(f) ==
  CASE f \in {"running", "looks-correct"}                          -> "ok"
    [] f \in {"nothing-connected", "unidentified", "all-strict", "never-polled"} -> "info"
    [] f \in {"iframe-publishers", "sdk-versions", "all-meeting"}  -> "warn"
    [] f = "no-tokens"                                             -> "error"

\* diagnose.  usage: the sessions of the window; iframe: whether someone shared
\* a screen through the iframe.
Diagnose(usage, calls, rooms, iframe) ==
  LET identified == {u \in usage : u.client # Absent}
      versions   == {Given(u.version, "unknown") : u \in {v \in usage : v.client = "sdk"}}
      found      == {"running"} \cup EndpointFindings(calls, rooms)
                    \cup (IF iframe THEN {"iframe-publishers"} ELSE {})
                    \cup (IF Cardinality(versions) > 1 THEN {"sdk-versions"} ELSE {})
  IN IF usage = {} THEN {"nothing-connected"}
     ELSE IF identified = {} THEN {"unidentified"} \cup EndpointFindings(calls, rooms)
     ELSE IF \A f \in found : Level(f) \in {"ok", "info"} THEN found \cup {"looks-correct"}
     ELSE found

\* integrationReport: samples are joined to sessions by peer, and a publisher
\* without an identity is not counted.
IntegrationFindings(usage, samples, calls, rooms, user, since) ==
  LET window == {u \in usage : u.user = user /\ u.joined >= since}
      iframe == \E u \in window : /\ u.client = "embed" /\ u.identity # Absent
                                  /\ \E s \in samples : s.peer = u.peer /\ s.source = "screen"
  IN Diagnose(window, {c \in calls : c.user = user}, {r \in rooms : r.owner = user}, iframe)
=============================================================================
