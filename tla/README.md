# Verification of the live streaming platform

TLA+ models of the signaling server of this repository and of the pages and the
SDK that talk to it, the TLC configurations that check them, and TLAPS proofs
about the server, the SDK and the pages. Everything is translated from the source;
where a line of documentation or a comment promises something the code does not
do, a run whose name says so shows it.

## The system

A Node process (`signaling-server/`) serves a REST API and a WebSocket on one
port, keeps rooms in memory and accounts, rooms and usage in SQLite, and drives
a mediasoup worker (an SFU). Publishers share a screen from a host page with the
SDK (`web/sdk/index.js`); viewers and meeting participants use an iframe
(`web/app/embed`) or the demo pages. An older peer-to-peer "office monitor"
mode shares the socket.

| Component | State it keeps | Operations | Talks to |
| --- | --- | --- | --- |
| Meeting rooms (`server.js`, `meetRooms.js`) | `meetRooms` map of records (router, peers, policy); per socket `meta`, `isAlive` | meet-join, meet-leave, close, heartbeat sweep, pong; create and delete a room; boot | clients over the socket, usage table, mediasoup |
| Media plane (`server.js`, `meetRooms.js`) | per peer: transports, producers, consumers, `demand` counts | create/connect transport, produce, close-producer, consume, resume, keyframe, `notifyDemand` | mediasoup worker (awaited), clients |
| Usage and telemetry (`platformStore.js`, `db.js`) | `usage_sessions`, `session_events`, `media_samples` | open, close, reconcile at boot, record, prune, aggregate | called by both above |
| REST, accounts, tokens (`httpApi.js`, `auth.js`, `platformStore.js`) | users, sessions, api_keys, rooms | signup, login, keys, rooms, tokens, analytics | rooms map, SQLite |
| Office monitor (`server.js`, `rooms.js`, `web/app/broadcast`, `web/app/watch`) | broadcaster and viewers per room | register, relay offer/answer/candidate, close | clients, peer to peer |
| Publisher SDK (`web/sdk/index.js`) | capture track, current connection, `active`, `connected`, `watchers`, retry loop | share, openWire, adoptWire, handleDrop, stop, demand | the server over one socket at a time |
| Embed client (`web/app/embed`) | phase, transports, consume queue, producers, peers | connect, consume, publish, reconnect, mute | the server; the host page by postMessage |
| Meet demo page (`web/app/meet`) | status, one set of refs for all sessions, requests matched by order | join, produce, consume, share, leave, join again | the server |
| Dashboard (`web/app/dashboard`, `platformApi.js`) | token, the page shown and what it last loaded | sign in and out, keys, rooms (polled), analytics (ranges, polled) | REST |
| Documentation and landing pages, deployment | none | | |

Hard behaviours, and what makes each component correct:

* **Rooms.** meet-join suspends in `createRouter`, meet-leave and the close
  handler in `getStats`; other handlers, a DELETE, the close event of the same
  socket or the end of the process run in between. Correct means: membership,
  what clients were told, routers and billing rows agree at every moment; an
  ended room stays ended; nobody lingers.
* **Media.** create-transport, produce and consume suspend in the worker while
  peers come and go. Correct means: watcher counts are exact (the encoder is
  paused by them), everyone knows exactly the live tracks, nothing of a departed
  peer remains, policy holds.
* **SDK.** Five awaits to open a connection, any of which may fail, with drops,
  `stop()`, the browser's own stop bar and demand notices at each. Correct means:
  the capture lives exactly as long as the session, there is at most one
  connection, the encoder follows the last notice, the retry loop ends.
* **Embed.** Two awaits to connect and up to three to set up, a retry loop that
  awaits the same promise, a serialized consume queue racing closes, a Retry
  button beside the loop. Correct means: one session per page, a picture and a
  participant list that are the room's. Around it, captures and device prompts
  that outlive the moment they were asked for: nothing is sent that the page does
  not show, leaving releases it, muted stays muted.
* **Monitor.** Pages come, go and replace each other while offers and answers
  are being made. Correct means: at rest, who shares is connected to exactly
  those who watch, and what the watch pages say is so.
* **Demo page.** Answers are matched by order and refs are shared by all
  sessions. Correct means: a join that hangs has a known cause, tiles are honest.
* **Dashboard, REST.** Requests pass each other; sessions expire in between.
  Correct means: what a settled page shows is current, a polled page catches up.
  The decisions (caps, roles, expiry, admission) and reports (usage, samples,
  events, findings) must agree with each other for every input.

`PROJECT.json` lists every hazard at its line with the properties that cover it,
or the reason none does.

## The modules

| Module | Models |
| --- | --- |
| `RoomLifecycle` | connections, heartbeat, rooms, routers, usage rows, drop events, restart |
| `UsageLedger` | abstract: what billing may rely on in `usage_sessions` |
| `RoomVisits` | abstract: what a customer may rely on: who is in which room, together with the usage rows |
| `RoomRecord` | abstract: the life and membership of one room record, as the inside of a room may take it |
| `RoomLifecycleProofs` | theorems about `RoomLifecycle` for every value of its constants |
| `MediaDemand` | transports, producers, consumers and demand of one room |
| `MediaDemandProofs` | theorems about `MediaDemand` for every number of peers, tracks and consumers |
| `SdkSession` | one share of the publisher SDK against the server at its other end |
| `SdkSessionProofs` | theorems about `SdkSession` for every number of connections and retries |
| `EmbedConnection` | the connection of the embedded room: connect, retry loop, consume queue, participants, leave |
| `EmbedConnectionProofs` | theorems about `EmbedConnection` for every set of participants, number of connections and attempts |
| `EmbedPolicy` | the embed's decisions without state: options, stages and controls, screen settings, capture outcome, stall watchdog |
| `EmbedRoom` | screen, microphone and camera of an embedded publisher; extends `EmbedPolicy` |
| `EmbedRoomProofs` | theorems about `EmbedRoom` for every number of shares, prompts and lost connections |
| `MonitorMesh` | the office monitor: server, broadcast pages, watch pages and the messages between them |
| `MonitorMeshProofs` | theorems about `MonitorMesh` for every number of pages, viewers and sockets |
| `MeetPage` | the demo meeting page over several sessions |
| `MeetPageProofs` | theorems about `MeetPage` for every number of joins and of remote producers |
| `PlatformPolicy` | decisions of the REST API and of meet-join, the reports over usage, samples and events, the analytics page's verdicts |
| `Dashboard` | a dashboard tab, its session, and the server behind it |
| `PlatformProofs` | theorems about `PlatformPolicy` for every request and about `Dashboard` for every set of keys and ranges |
| `MC*` | small instances and symmetry for TLC; `MCDashboard` also checks `PlatformPolicy` over small tables (`SdkSession` needs none) |

`RoomLifecycle` and `MediaDemand` divide the server: the first decides who is in
a room, the second takes joins and departures as they come and looks at the
tracks. They meet in `RoomRecord`, which both implement: the first for every
record there ever is, the second for the one it looks into. `SdkSession`, `EmbedConnection` and `MeetPage` are clients of both; the
demand notices of `SdkSession` and `EmbedRoom` are those `MediaDemand` keeps
exact. `EmbedConnection` and `EmbedRoom` divide the embed: the first brings the
session up and keeps what is received, the second takes the session as live,
lost and restored, or ended, and looks at what is sent. Operators named `X_Y`,
"as if ...", stand before the definition `X` they vary: each is a plausible
mistake in that code, and the property named with it in `PROJECT.json` fails when
it takes the place of `X`.

### RoomLifecycle

Node runs one callback at a time, so code between two awaits is one action and a
handler is split at each await; what it captured before is a variable.

| State | In the code |
| --- | --- |
| `sock`, `reachable`, `isAlive` | `ws.readyState`, whether the client answers, `ws.isAlive` |
| `join`, `leave`, `close`, `joinRec`, `leaveRec`, `closeRec`, `target`, `refusal` | progress of the handlers of a socket, the `room` each captured, `msg.roomId`, the error sent |
| `registry`, `used`, `members`, `router`, `openRouters` | `meetRooms`, the room objects, `room.peers`, `room.router`, routers not closed |
| `created`, `ended`, `usage`, `dropped` | a room exists (for an owned room: its row), `rooms.ended_at`, the `usage_sessions` row, a `peer-dropped` event |
| `knows` | the other peers a client has been told of |

Records are identities because handlers keep using a room object after the map
has dropped or replaced it. `JoinRoute` / `JoinResume` / `JoinRouterFails` are
meet-join around `ensureRouter`; `JoinAtOnce` is a join to a room that has its
router (its `await` yields without any other callback of the program in
between that the properties can tell apart); `LeaveMeasure` / `LeaveFinish` and
`CloseMeasure` / `CloseFinish` surround `measureTransportBytes`, `LeaveAtOnce`
and `CloseAtOnce` are the same handlers for a peer that is not in its room;
`CloseSkip` is the close event of a socket that has not joined. `Restart` is
crash, deploy or worker death and the boot that follows.

Abstractions: a socket sends at most one meet-join and one meet-leave (every
client in the repository opens a new socket to come back); message delivery on
an open socket is immediate and in order; the verdict on a token is an outcome;
a room is created once under its own id; SQLite writes succeed.

### MediaDemand

One record while it is in the map. `CreateTransport`/`TransportCreated`,
`Produce`/`Produced`/`ProduceFailed` and `Consume`/`Consumed`/`ConsumeFailed`
are the two sides of each await; `Depart` is removePeer with the messages and
the `notifyDemand` after it; `demand` is `peer.demand`, the count last sent.
A finish is possible after the peer was removed, because the worker answers
requests in order and may have carried one out before it learnt of the close.
meet-connect-transport, meet-resume-consumer and meet-request-keyframe change
nothing these properties see. One router per room is assumed (there can be two,
see the statements below).

### SdkSession

`step[w]` is the await at which `openWire` of connection `w` stands, `loop` the
one of `handleDrop`. The socket of a connection is `"dead"` between its loss and
the delivery of the close event, which is heard only if `onclose` is installed
(`Dropped`) and not otherwise (`CloseUnheard`). `Adopt` is the return of
`openWire` together with `adoptWire`: no other callback runs in between. The
server at the other end answers, refuses, stays silent and announces demand.
`_stopping` is never true while `active` is, so `active` stands for both tests.
`raced` is history: the session was stopped while the loop was opening a
connection, which it then installs all the same.

### EmbedConnection

Callbacks of one page run one at a time, so a step is the code between two
awaits with the promise reactions it sets off: when a socket fails, `onerror`
rejects `connect()`, the retry loop runs to its next sleep, and only then does
`onclose` run (`Closed` does all three).

| State | In the code |
| --- | --- |
| `phase`, `intentional`, `cur`, `recv` | `phase`, `intentionalCloseRef`, `wsRef`, `recvTransportRef` |
| `sock`, `job`, `snap`, `via` | of each `connect()`: the socket, what it or its meet-joined handler awaits, the lists it was given, the connection its last request went out on |
| `loop`, `attempt`, `awaited` | `reconnect()`, its `attempt`, the `connect()` it awaits |
| `peers`, `tiles`, `work`, `queue` | `peersRef`, `remoteVideosRef`, the consume queue |
| `life` | the other participants themselves |
| `strays` | history: how often Retry was pressed, or a setup given up with its socket not closed; `orphaned` is whether it ever happened |
| `missed`, `unheard` | history, for the exceptions the properties name |

The ICE servers are awaited once and cached after that; the send transport has
no variable, since nothing here reads it. Everything a handler sends goes out on
the socket `wsRef` names at that moment, whichever connection the handler belongs
to: `meet-join` of an older socket may find that `wsRef` has moved on (`"mute"`)
and a transport may come to belong to a newer connection (`via`). The close of
any socket rejects the requests of all. That a browser opens its sockets to one
server in the order they were made (`Opened`) is RFC 6455, 4.1, and that
`device.load()`, and a `consume()` whose connection is gone, settle within a sleep
of the loop (`SleepOver`) is a timing assumption: both are local work, the
shortest delay is a second. The entries that a page with two connections makes
for its own second participant are left out.

### EmbedRoom and EmbedPolicy

`share[c]` is the await at which `startScreenShare` number `c` stands (the
picker, `publish`, `preferSharpness`), `enable[e]` the same for
`enableCameraAndMic`; both go on after a leave or a lost connection, as in the
code. `track` and `made` are the browser's tracks and mediasoup's producers,
`screenStream`, `screenProducer`, `sharing`, `localStream`, `ref`, `on` the
page's refs and state. `Drop` and `Rejoin` are what `reconnect()` means for
them. Which picker results become a share is `CaptureOutcome`, whether the
Enable button is there is `Buttons`, both of `EmbedPolicy`, which states the
decisions of `screenTuning.js`, `screenCapture.js`, `embedOptions.js`,
`roomToken.js` and of the rendering of `EmbedRoom.jsx` as operators.

### MonitorMesh

Each socket is FIFO both ways: `up` and `down`. The server takes a message in
one step; `startSharing` is split at the picker and the ICE servers
(`StartSharing`, `Picked`, `Fetched`, `Opened`), an offer at `createOffer`
(`ViewerJoined`, `OfferMade`), an answer at the ICE servers (`Offered`,
`AnswerMade`). `pcs[b]` is `peersRef` of a broadcast page, `pc` the connection of
a watch page, `shown` and `status` what the pages say. `register-viewer` is
handled as soon as a watch page opens: before it nothing can be seen of the page.

### MeetPage

One set of refs serves all joins, so what an earlier session left in `fifo`
(`pending.produce`), in the consume queue or in a close event still to come
meets the next one. `asked` is the request the server has not answered,
`refused` and `swallowed` remember the answers that reached nobody.

### Dashboard and PlatformPolicy

A request is three steps: sent, served, and answered or failed, in any order with
others. The keys page is a chain per operation (`chain`: the change, then the
list); the rooms page a load by the timer and one by the button; the analytics
page its `fetches`, of which the cleanup of the effect leaves one heeded.
`CarriedOut` is what becomes of changes whose page was left. `session` is what
the stored token is worth to the server.

`PlatformPolicy` has no state: a table is a set of rows, a query an operator. Its
named assumptions in `MCDashboard` relate the operators to each other and to
plain counting over every small table, and its theorems hold for every request.

## The runs

Passing runs:

| Run | Instance | Properties | Distinct states |
| --- | --- | --- | --- |
| `RoomRaces` | 3 sockets, 1 owned room, 2 records, capacity 2 | `OverbookingBounded`, `UsageSettled`, `PresenceMetered`, `PresenceAgrees`, `OccupiedHasRouter`, `EndedStaysGone`, `DropsRecorded`, `LiveRoomStays` | 570,000 |
| `RoomRestart` | 2 sockets, one of which may vanish, an owned and a demo room, 2 records, 1 restart, fairness | `InductiveInv`, `ImplementsVisits`, `VanishedLeaves` | 843,000 |
| `MediaDemand` | 3 peers, 1 track, 2 consumers, entire screen required | `InductiveInv`, `DemandAccurate`, `ProducersAgree`, `PolicyHeld`, `DepartedLeaveNothing` | 235,000 |
| `SdkSession` | 5 retries, 11 connections, counts up to 2, 2 notices in flight, fairness | `InductiveInv`, `CaptureSurvives`, `CaptureReleased`, `NoStrayConnection`, `DemandApplied`, `RetriesEnd` | 32,000 |
| `EmbedConnection` | 1 other participant, 3 connections, 2 attempts | `InductiveInv`, `OneSession` | 2,799,000 |
| `EmbedQueue` | 2 other participants, 2 connections, 2 attempts | `PictureHonest`, `PeersAgree` | 577,000 |
| `MonitorMesh` | 2 broadcast pages, 2 watch pages, 1 viewer at a time, 2 sockets of the broadcast pages | `InductiveInv`, `PeersFollowViewers`, `WatcherHonest` | 868,000 |
| `EmbedRoom` | 2 shares, 2 device prompts, 3 of either, 1 lost connection, both devices, 4 picker results | `InductiveInv`, `ShareShown`, `LeaveReleases`, `MuteHolds` | 1,777,000 |
| `MeetPage` | 2 joins, 2 remote producers | `InductiveInv`, `JoinExplained`, `TilesHonest` | 1,829,000 |
| `Dashboard` | 2 keys, 2 ranges, 3 requests, 2 changes of the rooms, fairness; `PlatformPolicy` over small tables | `InductiveInv`, `SettledIsCurrent`, `RoomsCatchUp` | 416,000 |

`InductiveInv` is the inductive invariant of the module, which its proofs rest on
and of which `TypeOK` is a part.

Why these bounds are enough. Three sockets are what a room of capacity two needs
to be full, to have a join waiting while another leaves, and to be emptied and
refilled; two records are needed for a stale one and its replacement, and for a room
recreated after the crash of the restart run, the only run in which a connection
vanishes. Two of them, or a second crash, would double that run's minutes and
meet no other handler. The room's properties relate at most two participants
and two records.
The proofs remove these bounds for safety. Three peers give a publisher, a
watcher and a newcomer; two consumers make a count that is neither zero nor one.
Two tracks at that size are beyond a run of minutes. The SDK run uses the
code's own five retries and enough connections for two full rounds of them.

`EmbedConnection` takes two attempts of the code's five: one that fails and one
that follows it; its three connections are the first, one that is lost and one
that restores the session, and the third can be lost as well; all three can also
be open at once, after Retry or setups that were given up. `EmbedQueue` needs a
first connection and the one that follows it, and two remote participants for a
consume queue with a run in progress and one behind it. `MonitorMesh` has two pages
of each kind, so that a broadcaster can be replaced by another page or by its
own next socket and a viewer can wait for another's place; at most one socket is
lost. `EmbedRoom` bounds starts of either kind by three so that two of one kind
can overlap one of the other. `MeetPage` needs two joins for one to meet what
the other left. `Dashboard` has two changes in flight on the keys page, loads of
timer and button side by side, and three requests of the analytics page, so that
answers to two cancelled ones can still come.

Deadlock is not checked: every model but `Dashboard` may stop, when all sockets
are used up, the room is over or the session has ended; `Dashboard` never does,
and its run checks it.

Violation runs. Each checks one statement of the repository that the code does
not keep, and stops at a counterexample:

| Run | Statement | What happens |
| --- | --- | --- |
| `RoomStillConnected` | `db.js:197-198` | the socket closes while its join waits for the router; the peer is admitted afterwards and stays, its row open |
| `SdkStop` | `web/lib/publisherPrompt.js:189-190` | stop() comes while a retry is opening its connection; the loop installs it on the session that has emitted "ended", and another stop() does nothing |

Other statements of the repository that the code does not keep, seen in the
same models and without a run of their own:

* `INTEGRATION.md:113`, `maxParticipants` is clamped to the server's ceiling:
  two joins pass `roomIsFull` before either is admitted, while the router of the
  room is being made (`JoinRoute` twice, then `JoinResume` twice).
  `OverbookingBounded` says how far that goes.
* `server.js:724`, a room is rehydrated when it has no live peers: a late join
  lives in a record the map has dropped; the next join builds another.
* `meetRooms.js:106`, closeMeetRoom drops the router: two overlapping joins make
  two routers, and the first is never closed (`openRouters` keeps it).
* `INTEGRATION.md:361-362`, "`leave` need no gesture and always work": while the
  retry loop of the embed sleeps, disconnect() finds no socket and returns, and
  the loop dials the next connection (`Leave`, then `SleepOver`); so does the
  first connect() when left while it waits for the ICE servers.
* `web/lib/publisherPrompt.js:173-175`, the SDK gives up after about forty
  seconds: an attempt whose socket dies before meet-joined waits for ever.
* `web/app/dashboard/analytics/page.js:748-750`, "every machine reporting in this
  window encoded in hardware": `HealthVerdict` is good also for machines whose
  browser does not say what encodes.
* `meetRooms.js:107-108`, callers of closeMeetRoom notify the peers first:
  `DELETE /api/v1/rooms/:id` (`httpApi.js:340`) tells nobody (`DeleteRoom`
  leaves `knows` alone).
* `DEPLOY.md:322-323`, "any valid link recreates its room on join": a demo room
  is gone with its last peer or a restart (`Rehydratable` needs an owned room).
* `web/lib/publisherPrompt.js:188`, "session.connected tells you the current
  state at any moment": a close delivered before `adoptWire` installs `onclose`
  is lost (`CloseUnheard`, then `Adopt`).
* `INTEGRATION.md:287-288`, "ended" fires when the user stops from the browser's
  bar: not while the first connection is being opened (`UserStops` in phase
  `"opening"`), because `track.onended` is installed after it.
* `INTEGRATION.md:112`, `requireEntireScreen` defaults to true in screen mode:
  `httpApi.js:287` makes it false unless asked for.

The passing properties are stated with exactly the exceptions the code makes.
`UsageSettled` allows an open row for a close event that came before its join had
finished, `DropsRecorded` leaves out peers admitted to a record the map no longer
holds, `RetriesEnd` leaves out the stuck attempt. In the SDK and the pages each
other exception is a history variable set by the step that causes it, so that
nothing else is let through:

| Variable | What happened | Excepted from |
| --- | --- | --- |
| `SdkSession.raced` | the session was stopped while the retry loop was opening a connection | `NoStrayConnection` allows a session that is over that one connection, and no other |
| `EmbedConnection.strays`, `orphaned` | Retry was pressed beside the loop, or a setup failed with its socket open | `OneSession` allows one connection more for each, and counts on; the picture and the list are judged until the first |
| `missed` (`EmbedConnection`, `MeetPage`) | announced while there was no receive transport, or its consume refused or given up | what is shared is shown |
| `unheard` (both) | stopped or left while nobody heard it, its list was waiting for `device.load()`, or its consume was settling (in `MeetPage` also across a leave(), on the transport of a failed join) | what is shown is shared, who is listed is here |
| `MonitorMesh.astray` | a broadcast page lost a socket, whose connections it keeps, or opened a second | nobody else is connected |
| `MonitorMesh.overtaken` | an answer was finished after the news that the broadcaster had left | live means somebody shares |
| `EmbedRoom.overlapped` | two shares under way at once | a running capture is shown or being set up |
| `EmbedRoom.woken` | a demand notice resumed a device that was off: muting and idling share `producer.paused` | off means paused |
| `EmbedRoom.late` | device prompts answered after leave() | leaving releases |
| `MeetPage.swallowed` | an answer taken for that of a request an earlier session left in line | a join that hangs waits for an answer |
| `Dashboard.overtaken` | a list older than what the page had been told was adopted last | the keys shown are current |

## Fairness

`RoomLifecycle`: weak fairness of the heartbeat timer, of the two ends of
`createRouter`, of `getStats` and of the delivery of close events. These are
callbacks of the process's own event loop and of the worker, which answers or
takes the process down with it. Nothing is assumed of clients: `Pong`,
`ClientClose` and every request may never come. `SdkSession`: timers fire, a
request is answered or times out after 15 seconds, meet-join is answered on a
socket that stays open (the server's handler always replies), close events are
delivered. Nothing is assumed of the user, the application or the network.
`Dashboard`: the timer of the rooms page fires, a load that can fail does not
stay pending for ever (a fetch settles), and, strongly fair, a load that is sent
again and again is also served and answered again and again; without that a
network that loses every answer keeps the page as it is. Nothing is assumed of
the keys and analytics pages or of the user.

## The proofs

`RoomLifecycleProofs` proves, for every set of connections (finite), rooms and
records, every capacity and any number of restarts, under the assumptions
named in `RoomLifecycle` (the null values are outside the sets they extend,
owned rooms are rooms):

* `Inductive`: `Spec => []InductiveInv`, and from it `TypeCorrect`,
  `UsageAlwaysSettled`, `PresenceAlwaysMetered`, `PresenceAlwaysAgrees`,
  `OccupiedRoomsHaveRouters`, `EndedRoomsStayGone`, `DropsAlwaysRecorded`;
* `OverbookingIsBounded`: what the await between the capacity check and
  `room.peers.set` costs. Whoever joined without making a router fits in
  `maxParticipants`, and a room is over it by fewer peers than it has open
  routers;
* the action property `LiveRoomsStay`;
* `VisitsImplemented`: `RoomLifecycle` implements `RoomVisits`, in which a join, a
  departure, a DELETE or a boot is one step of room and usage row together. The
  refinement mapping reads the roster off the map (`roster <- Roster`: the members
  of the record the map holds, nobody if it holds none), the rest off the sockets
  and the tables. Records the map has dropped, routers and waiting handlers are
  invisible (`Unseen`); a join resumed into a dropped record is an arrival that
  enters no room, and a late departure finds its peer where it captured it or
  nowhere (`RemovalDeparts`, `AbsentDeparts`);
* `VisitsKeepTheLedger` and, with it, `LedgerImplemented`: `RoomVisits`, and so
  `RoomLifecycle`, implements `UsageLedger` under `row <- usage, boots <-
  restarts`;
* `RecordsImplemented`: for every record, `RoomLifecycle` implements `RoomRecord`
  under `life <- Life(k)`, `present <- ` its members while the map holds it. A step
  moves one record at most (`Still` is said of the others), except a join, which
  the others see as `Elsewhere`, and `Restart`, which ends them all.

None of the safety properties is inductive alone. `InductiveInv` adds:
`FreshRecs`, an unallocated record is untouched and unreferenced, so a fresh one
starts empty; `ConnectionStages`, which stages of the handlers go together;
`OneHome`, a peer is in one record and the map holds a record for one room only;
`Routers`, a router belongs to one record and the router of a registered record
is open; `StillThere`, who was admitted and not let go is in some record;
`RoomsWereCreated`, only created rooms end. The heart is `Captures`: a handler
that is reading counters holds the record its peer is in and the map holds,
unless its peer is in none any more. That is why a late `removePeer` finds
either its own peer or nothing, never someone else's room, and why closing by
session id cannot touch a second row. It is preserved because a record that
still has a peer leaves the map only through DELETE or `Restart`, which remove
the peer as well, except a record a join was resumed into after that; such a
record is in no map and no handler captures it, since handlers start from the
map. The proof has one lemma per action and, under it, one step per conjunct the
action can disturb.

`OverbookingBounded` counts, so it is proved on top of `InductiveInv` with
`RouterOwners` (the router of a registered record was made by a join to its room
that went through; nobody waits for one in a room without places). What it says
of one room is `Within`, a fact about three finite sets, and four lemmas say what
each kind of step does to it: fewer peers, an empty record, a peer that was
counted (`WithinAdmit`), and a peer that was not but brings a router
(`WithinResume`, the only one that can pass the limit).

`MediaDemandProofs` proves `DemandIsAccurate`, `EveryoneKnowsTheTracks`,
`PolicyIsHeld` and `DepartedPeersLeaveNothing` for any finite set of peers and
any tracks and consumers. The first two and the last are conjuncts of
`InductiveInv`, which adds what they need of each other:

* `Membership`, `TracksOwned`: who left stays away; a track is live only with its
  owner in the room, and one finished after its owner left is `"late"`. So
  removePeer closes everything of a peer, and what comes after it counts nowhere.
* `KnownTracks`, `FeedsOfTracks`: nobody is told of, or consumes, a track that is
  not finished or is its own. So a new track starts with no watcher, and closing
  a peer's consumers changes the count of other peers' tracks only.
* `PolicyChecked`: the policy was looked at before the await and nothing it
  depends on changes during it. `PolicyHeld` follows.

The counts are cardinalities: a lemma says that opening or closing one
consumer moves the number of watchers of one track by one and leaves the others.
`MembershipIsThatOfARecord` is the other half of `RecordsImplemented`: joins,
departures and DELETE in `MediaDemand` are those of a `RoomRecord`, so its
assumption that a peer joins and departs once and that an empty room is over is
what the server does. The two are theorems only; a run over the same instances
would ask nothing that the theorems do not answer.

`SdkSessionProofs` proves `CaptureAlwaysSurvives`, `CaptureAlwaysReleased`,
`NoConnectionStrays` and `DemandIsApplied` for any number of retries,
connections, notices and watchers. `WireStages`: connections are opened one
after another, and all but the newest are over; `SessionStages`: the newest is
being opened by share() or by one round of the loop, never both. Together they
say that whoever returns from `openWire` is the only one who could, which is why
adopting a connection never loses another. `EndsCounted` is about the session
ending twice, when an attempt was under way, and says that an ended session with a
connection comes from such a race only; `NoticesInOrder` says that the last
notice in flight is what the server announced last and that a page without any
is up to date, with what it holds back between `openWire` and `adoptWire` counted
in: from it `DemandApplied`.

`EmbedConnectionProofs` proves `OneSessionAtATime`, `PictureIsHonest` and
`ParticipantsAgree`. `Counted` holds in every state. It counts what is held, and
the claim of the retry loop to one connection more: a close takes one away before
it lets the loop claim one, the loop dials only on its claim, and `AfterReject`
turns an attempt that can only fail back into a claim, so that only Retry and a
setup given up on a living socket add to the sum; `strays` counts those. The rest
of `InductiveInv` stands under `~orphaned`: what two connections of a page do to
each other's transports and lists follows no rule, and `orphaned` never becomes
false again. `Sockets` says that only the newest connection can have a
living socket and that `wsRef` names it, hence one session; `Transports` and
`QueueRuns` tie the receive transport, the page being live and a running consume
to the stage of that connection's setup. `Heard` is the easy half of the picture:
nothing is held of anybody gone that was not missed. `Picture` is the other
half: everything shared is shown, waiting in the queue, or on the list
meet-joined brought and nothing has used yet; and a tile of an older transport
is on its way to be consumed again. `PictureHonest` looks at a live page with an
empty queue, where the list is used up and nothing waits.

`EmbedRoomProofs` proves `NoSilentShare`, `LeavingReleases` and `MutedStaysSilent`.
The three are conjuncts of `InductiveInv`, with `ProducersMatch` (a producer is as
far as the call that makes it, so that one that comes up late is the one its
share or prompt is waiting for), `OneShare` (shares that never overlapped: one at
a time, and the page holds the capture that runs) and `UpWhileLive` (a lost
connection takes all producers with it).

`MeetPageProofs` proves `HangingJoinExplained` and `TilesAreHonest`. `Joins`
puts the stages of a join, its socket and `status` together; `Transports` says
which sessions' transports are closed: those that were left, and never that of a
join that failed; `Asked` is what `JoinExplained` needs of the two produce
requests of a join; `QueueRuns`, `Tiles` and `Known` are for the tiles what
`Heard` and `Picture` are in the embed. The proof is where the exception about
failed joins comes from: a consume that is settling on the transport of a join
that failed is not ended by a later leave(), which closes only the transports
the refs name, and its tile appears in the next session. Two joins do not
reach it; with three, TLC shows the run. `unheard` therefore survives a leave for
such a consume, and the invariant holds with three joins too (5,900,000 states,
one remote producer).

`MonitorMeshProofs` proves `BroadcasterReachesViewers` and `WatchPageHonest` for
any finite sets of pages, any viewer limit and any number of sockets. Both speak
of states at rest, so the invariant says what every message under way is going to
settle:

* `Sockets` and `Uplink`: a page opens its sockets one after another; what one
  carries up begins with its registration and ends with its close, the server
  takes it for the broadcaster only between the two, and before the first nothing
  goes down. So at rest a broadcaster is on an open socket.
* `Departures`: a viewer leaves once, after it has joined. So a connection dropped
  at "viewer-left" is not made again by a "viewer-joined" behind it.
* `Connected` and `Announced`: every viewer has a connection or is about to be
  announced to the page on the air, and whoever has one without watching is about
  to be announced as having left. A page that lost a socket or opened a second
  (`astray`) keeps connections of its earlier life, hence the exception.
* `Negotiated`: a viewer that does not show the picture has an announcement, an
  offer being made or an offer on its way to it, with no news behind that offer
  that the broadcaster left; and an offer that was made is going to be answered.
* `Seat` and `GoneHeard`: the answer to register-viewer comes before all else, and
  while nobody broadcasts a page that thinks otherwise is going to hear of it,
  unless an answer was finished after that news (`overtaken`).

The queues enter only through a few operators (is there such a message, is it
about this viewer, does one come before another); lemmas say how each fares when
a message is added or taken, and one lemma per action what the action does to
each variable. The assumption that null is neither a page nor a socket is needed
wherever `broadcaster` is compared with one.

`PlatformProofs` proves `SettledPagesAreCurrent` about `Dashboard`. `RowsCatchUp`:
rows that lag wait for the end of a chain; `DataOfSettled`: the data are those of
the request settled last; `NewestRequest`: the newest request is for what is
selected and no request outlives its page. The assumption that keys differ from
`"first"` and `"create"` says that `Flows` has an element per key and two more.

It also proves about `PlatformPolicy`, for every request, under
`PlatformAssumption` (the null values are not values, the limits are positive):

* `RoomCapBounded` and `NegativeCapAdmitsNobody`: a room's capacity is at most
  MAX_MEET_PARTICIPANTS, and a negative one admits nobody;
* `RoleDecides`, `TokenExpires`, `TokenAdmitsToItsRoom`: from the body of a token
  request through minting and verification to meet-join, who may publish, until
  exactly when (the last second counts, the next one does not), and where;
* `VerdictConsistent`: when the integration report says that all is well.

They are about operators, so each is a case split over the branches the code
takes; no invariant is involved.

Every proof of invariance has the same shape: a lemma per action, or per group of
actions that change the same variables, with one step per conjunct it can
disturb; a lemma for `Init`; and `Inductive`, which puts them together
(`MonitorMeshProofs` turns it round: a lemma per conjunct, with one step per
action). The
properties follow from `InductiveInv` by definitions alone. The bounds of a run
(`MaxConns`, `MaxJoins`, `MaxShares`, ...) are constants of the module, so a
theorem holds whatever they are.

Only model-checked: liveness (`VanishedLeaves`, `RetriesEnd`, `RoomsCatchUp`),
which the prover does not cover; the sums over tables in `MCDashboard`, which would need induction over finite
sets; and `EmbedPolicy`, whose large numerals and records the provers do not get
through.

## Not modelled, and why

* Documentation and landing pages, charts and wording: text and rendering.
* Deployment scripts: restarts are `Restart` wherever they come from.
* mediasoup, SQLite and the browser are external: modelled by their answers.
  SQLite writes succeed, also where the disk could be full (`server.js:340`).
* Real time: how long a backoff, a keyframe or a poll takes; only what a timer may
  overtake.
* The client's consume timeout together with the server's consumer: needs an
  embed and a media plane in one model.
* ICE candidates, list-rooms and its page; media-state relays, keyframe requests
  and resuming consumers; statistics reports of the pages (their recording is in
  `PlatformPolicy`).
* The demo page's mute buttons, and two sockets of one page at once, there and in
  the embed.
* Password hashing, CORS, routing and body parsing of the REST API; a collision
  of generated room ids (`httpApi.js:290`), which `RoomLifecycle` excludes by
  giving every creation an id of its own.

## Plan

1. Done: `UsageLedger`, `RoomLifecycle` with its proofs, `MediaDemand`,
   `SdkSession`.
2. Done: `EmbedConnection`, `EmbedRoom`, `EmbedPolicy`, `MonitorMesh`, `MeetPage`,
   `Dashboard`, `PlatformPolicy` with its proofs.
3. Done: the proofs about `MediaDemand`, `SdkSession`, `EmbedConnection`,
   `EmbedRoom`, `MonitorMesh`, `MeetPage` and `Dashboard`.
4. Done: `RoomVisits` and `RoomRecord`, the abstract specifications of the room and
   of one record, with the proofs that the server implements them.
5. Left: the consume timeout of a client composed with `MediaDemand`; liveness
   stays with TLC.
