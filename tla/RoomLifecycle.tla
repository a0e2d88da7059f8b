---------------------------- MODULE RoomLifecycle ----------------------------
(***************************************************************************)
(* Who is in a meeting room of the signaling server, and what the server   *)
(* remembers about it: server.js (meet-join, meet-leave, the close handler *)
(* and the heartbeat), meetRooms.js (the in-memory room records and their  *)
(* routers), the usage_sessions table and the rooms table.                 *)
(*                                                                         *)
(* The server is one Node process: code between two awaits is one step.    *)
(* A handler that awaits is split there, and everything it captured before *)
(* the await is a variable:                                                *)
(*   - meet-join awaits createRouter when the room has no router yet;      *)
(*   - meet-leave and the close handler await getStats of the transports   *)
(*     of a peer that is still in the room.                                *)
(* A room record is a heap object: handlers keep a reference to it after   *)
(* the map meetRooms has dropped or replaced it, so records are identities *)
(* (Recs) and `registry' is the map.                                       *)
(*                                                                         *)
(* A peer id is minted by the one meet-join of a socket, so the socket     *)
(* stands for its peer.  A client that comes back opens another socket.    *)
(***************************************************************************)
EXTENDS Naturals, FiniteSets

CONSTANTS
  Sockets,      \* WebSocket connections ever made
  Rooms,        \* room ids
  Owned,        \* the rooms created with an API key: they have a database row
  Recs,         \* identities of in-memory room records
  Capacity,     \* maxParticipants
  Flaky,        \* bound: the connections that may miss a ping or vanish
  MaxRestarts,  \* bound: how often the process may restart
  NoRec,        \* meetRooms.get(id) is undefined
  NoRoom,       \* no meet-join was sent yet
  NoSocket      \* room.router is null

ASSUME RoomsAssumption    == Owned \subseteq Rooms /\ NoRoom \notin Rooms
ASSUME RecsAssumption     == NoRec \notin Recs
ASSUME SocketsAssumption  == NoSocket \notin Sockets /\ IsFiniteSet(Sockets)
ASSUME BoundsAssumption   == Capacity \in Nat /\ MaxRestarts \in Nat

VARIABLES
  \* one per connection
  sock,         \* "new", "open", "closing" (close event not delivered), "closed"
  reachable,    \* the client still answers; FALSE after it vanished
  isAlive,      \* ws.isAlive, the heartbeat flag
  target,       \* msg.roomId of its meet-join
  join,         \* "no", "routing" (in createRouter), "joined", "refused"
  refusal,      \* why a meet-join was refused
  leave,        \* meet-leave: "no", "measuring" (in getStats), "done"
  close,        \* close handler: "no", "measuring", "done", "skipped", "lost"
  joinRec,      \* the record meet-join captured before the await
  leaveRec,     \* the record meet-leave captured before the await
  closeRec,     \* the record the close handler captured before the await
  knows,        \* the peers its client has been told are in the room
  \* server memory
  registry,     \* meetRooms
  used,         \* the records allocated so far
  members,      \* room.peers of each record
  router,       \* room.router of each record, named by the join that made it
  openRouters,  \* mediasoup routers created and not closed
  \* database
  created,      \* the room was created (for an owned room: its row exists)
  ended,        \* rooms.ended_at IS NOT NULL
  usage,        \* usage_sessions row: "none", "open" (left_at NULL), "closed"
  dropped,      \* a peer-dropped session event was recorded
  restarts      \* process restarts so far (bounded by MaxRestarts)

conn  == <<sock, reachable, isAlive>>
tasks == <<target, join, refusal, leave, close, joinRec, leaveRec, closeRec>>
heap  == <<registry, used, members, router, openRouters>>
disk  == <<created, ended, usage, dropped>>
vars  == <<conn, tasks, knows, heap, disk, restarts>>

(***************************************************************************)
(* The states the variables range over.                                    *)
(***************************************************************************)
SockStates  == {"new", "open", "closing", "closed"}
JoinStates  == {"no", "routing", "joined", "refused"}
Refusals    == {"none", "missing", "full", "token", "router"}
LeaveStates == {"no", "measuring", "done"}
CloseStates == {"no", "measuring", "done", "skipped", "lost"}
UsageStates == {"none", "open", "closed"}

TypeOK ==
  /\ sock \in [Sockets -> SockStates]
  /\ reachable \in [Sockets -> BOOLEAN]
  /\ isAlive \in [Sockets -> BOOLEAN]
  /\ target \in [Sockets -> Rooms \cup {NoRoom}]
  /\ join \in [Sockets -> JoinStates]
  /\ refusal \in [Sockets -> Refusals]
  /\ leave \in [Sockets -> LeaveStates]
  /\ close \in [Sockets -> CloseStates]
  /\ joinRec \in [Sockets -> Recs \cup {NoRec}]
  /\ leaveRec \in [Sockets -> Recs \cup {NoRec}]
  /\ closeRec \in [Sockets -> Recs \cup {NoRec}]
  /\ knows \in [Sockets -> SUBSET Sockets]
  /\ registry \in [Rooms -> Recs \cup {NoRec}]
  /\ used \subseteq Recs
  /\ members \in [Recs -> SUBSET Sockets]
  /\ router \in [Recs -> Sockets \cup {NoSocket}]
  /\ openRouters \subseteq Sockets
  /\ created \in [Rooms -> BOOLEAN]
  /\ ended \in [Rooms -> BOOLEAN]
  /\ usage \in [Sockets -> UsageStates]
  /\ dropped \in [Sockets -> BOOLEAN]
  /\ restarts \in 0..MaxRestarts

Init ==
  /\ sock = [s \in Sockets |-> "new"]
  /\ reachable = [s \in Sockets |-> TRUE]
  /\ isAlive = [s \in Sockets |-> TRUE]
  /\ target = [s \in Sockets |-> NoRoom]
  /\ join = [s \in Sockets |-> "no"]
  /\ refusal = [s \in Sockets |-> "none"]
  /\ leave = [s \in Sockets |-> "no"]
  /\ close = [s \in Sockets |-> "no"]
  /\ joinRec = [s \in Sockets |-> NoRec]
  /\ leaveRec = [s \in Sockets |-> NoRec]
  /\ closeRec = [s \in Sockets |-> NoRec]
  /\ knows = [s \in Sockets |-> {}]
  /\ registry = [r \in Rooms |-> NoRec]
  /\ used = {}
  /\ members = [k \in Recs |-> {}]
  /\ router = [k \in Recs |-> NoSocket]
  /\ openRouters = {}
  /\ created = [r \in Rooms |-> FALSE]
  /\ ended = [r \in Rooms |-> FALSE]
  /\ usage = [s \in Sockets |-> "none"]
  /\ dropped = [s \in Sockets |-> FALSE]
  /\ restarts = 0

(***************************************************************************)
(* Connections and the heartbeat.                                          *)
(***************************************************************************)
Connect(s) ==
  /\ sock[s] = "new"
  /\ sock' = [sock EXCEPT ![s] = "open"]
  /\ UNCHANGED <<reachable, isAlive, tasks, knows, heap, disk, restarts>>

\* The client closes its socket; the close event is delivered later.
ClientClose(s) ==
  /\ sock[s] = "open" /\ reachable[s]
  /\ sock' = [sock EXCEPT ![s] = "closing"]
  /\ UNCHANGED <<reachable, isAlive, tasks, knows, heap, disk, restarts>>

\* The client disappears without a close frame (sleep, lost network).
Vanish(s) ==
  /\ s \in Flaky /\ sock[s] = "open" /\ reachable[s]
  /\ reachable' = [reachable EXCEPT ![s] = FALSE]
  /\ UNCHANGED <<sock, isAlive, tasks, knows, heap, disk, restarts>>

\* As if the sweep only pinged.
SweptSock_NoTerminate(s) == sock[s]

\* One sweep of the heartbeat timer: terminate what did not answer the last
\* ping, ping the rest.
SweptSock(s) == IF sock[s] = "open" /\ ~isAlive[s] THEN "closing" ELSE sock[s]

Heartbeat ==
  /\ sock' = [s \in Sockets |-> SweptSock(s)]
  /\ isAlive' = [s \in Sockets |-> isAlive[s] /\ (sock[s] # "open" \/ s \notin Flaky)]
  /\ UNCHANGED <<reachable, tasks, knows, heap, disk, restarts>>

Pong(s) ==
  /\ sock[s] = "open" /\ reachable[s] /\ ~isAlive[s]
  /\ isAlive' = [isAlive EXCEPT ![s] = TRUE]
  /\ UNCHANGED <<sock, reachable, tasks, knows, heap, disk, restarts>>

(***************************************************************************)
(* Room records.                                                           *)
(***************************************************************************)
\* createMeetRoomRecord: a fresh record takes the room's place in the map.
CreateRecord(r, k) ==
  /\ k \in Recs \ used
  /\ used' = used \cup {k}
  /\ registry' = [registry EXCEPT ![r] = k]

\* As if rehydrateRoom did not look at ended_at.
Rehydratable_Ended(r) == r \in Owned /\ created[r]

\* rehydrateRoom finds a row, and the customer has not ended the room.
Rehydratable(r) == r \in Owned /\ created[r] /\ ~ended[r]

\* getMeetRoom(roomId) || rehydrateRoom(roomId)
FindRoom(r, k) ==
  \/ /\ k \in Recs /\ registry[r] = k
     /\ UNCHANGED <<registry, used>>
  \/ /\ registry[r] = NoRec /\ Rehydratable(r)
     /\ CreateRecord(r, k)

\* POST /api/v1/rooms (a row and a record) or POST /api/meet-rooms (a record).
CreateRoom(r, k) ==
  /\ ~created[r]
  /\ CreateRecord(r, k)
  /\ created' = [created EXCEPT ![r] = TRUE]
  /\ UNCHANGED <<conn, tasks, knows, members, router, openRouters,
                 ended, usage, dropped, restarts>>

\* DELETE /api/v1/rooms/:id: closeMeetRoom, then markRoomEnded.
DeleteRoom(r) ==
  /\ r \in Owned /\ created[r]
  /\ ended' = [ended EXCEPT ![r] = TRUE]
  /\ registry' = [registry EXCEPT ![r] = NoRec]
  /\ members' = [k \in Recs |-> IF k = registry[r] THEN {} ELSE members[k]]
  /\ openRouters' = openRouters \ {router[k] : k \in {registry[r]} \cap Recs}
  /\ UNCHANGED <<conn, tasks, knows, used, router, created, usage, dropped,
                 restarts>>

(***************************************************************************)
(* meet-join                                                               *)
(***************************************************************************)
SendsJoin(s) == sock[s] = "open" /\ reachable[s] /\ join[s] = "no"

\* As if the check let one more in.
IsFull_OffByOne(k) == Cardinality(members[k]) > Capacity

IsFull(k) == Cardinality(members[k]) >= Capacity

\* An error reply, and nothing else.
Refuse(s, r, why) ==
  /\ join' = [join EXCEPT ![s] = "refused"]
  /\ refusal' = [refusal EXCEPT ![s] = why]
  /\ target' = [target EXCEPT ![s] = r]

JoinMissing(s, r) ==
  /\ SendsJoin(s)
  /\ registry[r] = NoRec /\ ~Rehydratable(r)
  /\ Refuse(s, r, "missing")
  /\ UNCHANGED <<conn, leave, close, joinRec, leaveRec, closeRec, knows, heap,
                 disk, restarts>>

\* Room full, or an owned room and no valid token.  A record rehydrated for
\* this join stays in the map.
JoinRefused(s, r, k) ==
  /\ SendsJoin(s)
  /\ FindRoom(r, k)
  /\ \/ IsFull(k) /\ Refuse(s, r, "full")
     \/ ~IsFull(k) /\ r \in Owned /\ Refuse(s, r, "token")
  /\ UNCHANGED <<conn, leave, close, joinRec, leaveRec, closeRec, knows,
                 members, router, openRouters, disk, restarts>>

\* The room has no router: the handler suspends in createRouter.
JoinRoute(s, r, k) ==
  /\ SendsJoin(s)
  /\ FindRoom(r, k)
  /\ ~IsFull(k) /\ router[k] = NoSocket
  /\ join' = [join EXCEPT ![s] = "routing"]
  /\ joinRec' = [joinRec EXCEPT ![s] = k]
  /\ target' = [target EXCEPT ![s] = r]
  /\ UNCHANGED <<conn, refusal, leave, close, leaveRec, closeRec, knows,
                 members, router, openRouters, disk, restarts>>

\* As if the snapshot were not taken for a newcomer.
KnowsAfterJoin_NoSnapshot(s, k, t) ==
  IF t \in members[k] /\ sock[t] = "open" THEN knows[t] \cup {s} ELSE knows[t]

\* existingPeers in meet-joined, and meet-peer-joined to everyone else; a
\* message to a socket that is not OPEN is not sent.
KnowsAfterJoin(s, k, t) ==
  CASE sock[t] # "open"          -> knows[t]
    [] t = s                     -> members[k]
    [] t # s /\ t \in members[k] -> knows[t] \cup {s}
    [] OTHER                     -> knows[t]

\* As if only the first peer of a room opened a usage session.
UsageAfterJoin_FirstOnly(s, r, k) ==
  IF r \in Owned /\ members[k] = {} THEN [usage EXCEPT ![s] = "open"] ELSE usage

\* openUsageSession, for rooms that belong to an account.
UsageAfterJoin(s, r, k) ==
  IF r \in Owned THEN [usage EXCEPT ![s] = "open"] ELSE usage

\* Everything after ensureRouter returned.
Admit(s, r, k) ==
  /\ members' = [members EXCEPT ![k] = @ \cup {s}]
  /\ join' = [join EXCEPT ![s] = "joined"]
  /\ usage' = UsageAfterJoin(s, r, k)
  /\ knows' = [t \in Sockets |-> KnowsAfterJoin(s, k, t)]

\* The room has a router: the handler runs to its end.
JoinAtOnce(s, r, k) ==
  /\ SendsJoin(s)
  /\ FindRoom(r, k)
  /\ ~IsFull(k) /\ router[k] # NoSocket
  /\ target' = [target EXCEPT ![s] = r]
  /\ Admit(s, r, k)
  /\ UNCHANGED <<conn, refusal, leave, close, joinRec, leaveRec, closeRec,
                 router, openRouters, created, ended, dropped, restarts>>

\* createRouter answers: the record gets this router, whatever it had, and the
\* peer joins the record, wherever that is by now.
JoinResume(s) ==
  /\ join[s] = "routing"
  /\ router' = [router EXCEPT ![joinRec[s]] = s]
  /\ openRouters' = openRouters \cup {s}
  /\ joinRec' = [joinRec EXCEPT ![s] = NoRec]
  /\ Admit(s, target[s], joinRec[s])
  /\ UNCHANGED <<conn, target, refusal, leave, close, leaveRec, closeRec,
                 registry, used, created, ended, dropped, restarts>>

\* createRouter rejects: the client gets an error and nothing is kept.
JoinRouterFails(s) ==
  /\ join[s] = "routing"
  /\ Refuse(s, target[s], "router")
  /\ joinRec' = [joinRec EXCEPT ![s] = NoRec]
  /\ UNCHANGED <<conn, leave, close, leaveRec, closeRec, knows, heap, disk,
                 restarts>>

(***************************************************************************)
(* meet-leave and the close handler                                        *)
(***************************************************************************)
\* getMeetRoom(ws.meta.roomId); ws.meta is written when the join completes.
CurrentRoom(s) == IF join[s] = "joined" THEN registry[target[s]] ELSE NoRec

\* room?.peers.get(ws.meta.peerId)
IsPeer(s, k) == k # NoRec /\ s \in members[k]

\* As if the row were closed only for a peer that is still in its room.
UsageAfterClose_IfPeer(s, k) ==
  IF IsPeer(s, k) /\ usage[s] = "open" THEN [usage EXCEPT ![s] = "closed"] ELSE usage

\* closeUsageSession(ws.meta.usageId): once, and only a row that is open.
UsageAfterClose(s, k) ==
  IF usage[s] = "open" THEN [usage EXCEPT ![s] = "closed"] ELSE usage

\* As if removePeer had no early return.
RemovePeer_NoGuard(s, k) ==
  /\ members' = [j \in Recs |-> IF j = k THEN members[j] \ {s} ELSE members[j]]
  /\ IF k # NoRec /\ members[k] \subseteq {s}
     THEN /\ registry' = [registry EXCEPT ![target[s]] = NoRec]
          /\ openRouters' = openRouters \ {router[k]}
     ELSE UNCHANGED <<registry, openRouters>>

\* As if the room were closed when one peer is left.
RemovePeer_OneLeft(s, k) ==
  IF IsPeer(s, k)
  THEN /\ members' = [members EXCEPT ![k] = @ \ {s}]
       /\ openRouters' = IF Cardinality(members[k]) <= 2
                         THEN openRouters \ {router[k]} ELSE openRouters
       /\ registry' = IF members[k] = {s}
                      THEN [registry EXCEPT ![target[s]] = NoRec] ELSE registry
  ELSE UNCHANGED <<members, registry, openRouters>>

\* removePeer: the last one out closes the router and drops the room.
RemovePeer(s, k) ==
  IF IsPeer(s, k)
  THEN /\ members' = [members EXCEPT ![k] = @ \ {s}]
       /\ IF members[k] = {s}
          THEN /\ registry' = [registry EXCEPT ![target[s]] = NoRec]
               /\ openRouters' = openRouters \ {router[k]}
          ELSE UNCHANGED <<registry, openRouters>>
  ELSE UNCHANGED <<members, registry, openRouters>>

\* meet-peer-left to the peers that remain.
KnowsAfterLeave(s, k, t) ==
  IF k # NoRec /\ t \in members[k] \ {s} /\ sock[t] = "open"
  THEN knows[t] \ {s} ELSE knows[t]

\* The common tail of both handlers.
Depart(s, k) ==
  /\ usage' = UsageAfterClose(s, k)
  /\ RemovePeer(s, k)
  /\ knows' = [t \in Sockets |-> KnowsAfterLeave(s, k, t)]
  /\ UNCHANGED <<used, router, created, ended, restarts>>

SendsLeave(s) == sock[s] = "open" /\ reachable[s] /\ leave[s] = "no" /\ join[s] # "no"

\* The peer is in its room: suspend to read the transports' counters.
LeaveMeasure(s) ==
  /\ SendsLeave(s) /\ IsPeer(s, CurrentRoom(s))
  /\ leave' = [leave EXCEPT ![s] = "measuring"]
  /\ leaveRec' = [leaveRec EXCEPT ![s] = CurrentRoom(s)]
  /\ UNCHANGED <<conn, target, join, refusal, close, joinRec, closeRec, knows,
                 heap, disk, restarts>>

\* It is not: nothing to wait for.
LeaveAtOnce(s) ==
  /\ SendsLeave(s) /\ ~IsPeer(s, CurrentRoom(s))
  /\ leave' = [leave EXCEPT ![s] = "done"]
  /\ Depart(s, CurrentRoom(s))
  /\ UNCHANGED <<conn, target, join, refusal, close, joinRec, leaveRec, closeRec,
                 dropped>>

LeaveFinish(s) ==
  /\ leave[s] = "measuring"
  /\ leave' = [leave EXCEPT ![s] = "done"]
  /\ leaveRec' = [leaveRec EXCEPT ![s] = NoRec]
  /\ Depart(s, leaveRec[s])
  /\ UNCHANGED <<conn, target, join, refusal, close, joinRec, closeRec, dropped>>

\* The close event: not a meet socket (yet), so only the monitor branch runs.
CloseSkip(s) ==
  /\ sock[s] = "closing" /\ join[s] # "joined"
  /\ sock' = [sock EXCEPT ![s] = "closed"]
  /\ close' = [close EXCEPT ![s] = "skipped"]
  /\ UNCHANGED <<reachable, isAlive, target, join, refusal, leave, joinRec,
                 leaveRec, closeRec, knows, heap, disk, restarts>>

CloseMeasure(s) ==
  /\ sock[s] = "closing" /\ join[s] = "joined" /\ IsPeer(s, CurrentRoom(s))
  /\ sock' = [sock EXCEPT ![s] = "closed"]
  /\ close' = [close EXCEPT ![s] = "measuring"]
  /\ closeRec' = [closeRec EXCEPT ![s] = CurrentRoom(s)]
  /\ UNCHANGED <<reachable, isAlive, target, join, refusal, leave, joinRec,
                 leaveRec, knows, heap, disk, restarts>>

CloseAtOnce(s) ==
  /\ sock[s] = "closing" /\ join[s] = "joined" /\ ~IsPeer(s, CurrentRoom(s))
  /\ sock' = [sock EXCEPT ![s] = "closed"]
  /\ close' = [close EXCEPT ![s] = "done"]
  /\ Depart(s, CurrentRoom(s))
  /\ UNCHANGED <<reachable, isAlive, target, join, refusal, leave, joinRec,
                 leaveRec, closeRec, dropped>>

\* As if the event were written only while the peer is still in the room.
DroppedAfterClose_IfOthers(s) ==
  IF members[closeRec[s]] # {s} THEN [dropped EXCEPT ![s] = TRUE] ELSE dropped

\* recordSessionEvent "peer-dropped", for rooms that belong to an account.
DroppedAfterClose(s) ==
  IF target[s] \in Owned THEN [dropped EXCEPT ![s] = TRUE] ELSE dropped

CloseFinish(s) ==
  /\ close[s] = "measuring"
  /\ close' = [close EXCEPT ![s] = "done"]
  /\ closeRec' = [closeRec EXCEPT ![s] = NoRec]
  /\ dropped' = DroppedAfterClose(s)
  /\ Depart(s, closeRec[s])
  /\ UNCHANGED <<conn, target, join, refusal, leave, joinRec, leaveRec>>

(***************************************************************************)
(* The process ends (crash, deploy, or the mediasoup worker died) and comes *)
(* back: memory is gone, and boot closes the usage rows left open.         *)
(***************************************************************************)
\* As if boot did not reconcile.
UsageAfterBoot_None == usage

\* reconcileOpenSessions
UsageAfterBoot == [s \in Sockets |-> IF usage[s] = "open" THEN "closed" ELSE usage[s]]

Restart ==
  /\ restarts < MaxRestarts
  /\ restarts' = restarts + 1
  /\ sock' = [s \in Sockets |-> IF sock[s] = "new" THEN "new" ELSE "closed"]
  /\ join' = [s \in Sockets |-> IF join[s] = "routing" THEN "refused" ELSE join[s]]
  /\ leave' = [s \in Sockets |-> IF leave[s] = "measuring" THEN "done" ELSE leave[s]]
  /\ close' = [s \in Sockets |-> IF sock[s] = "new" THEN "no" ELSE "lost"]
  /\ joinRec' = [s \in Sockets |-> NoRec]
  /\ leaveRec' = [s \in Sockets |-> NoRec]
  /\ closeRec' = [s \in Sockets |-> NoRec]
  /\ registry' = [r \in Rooms |-> NoRec]
  /\ members' = [k \in Recs |-> {}]
  /\ router' = [k \in Recs |-> NoSocket]
  /\ openRouters' = {}
  /\ usage' = UsageAfterBoot
  /\ UNCHANGED <<reachable, isAlive, target, refusal, knows, used, created,
                 ended, dropped>>

(***************************************************************************)
(* The specification                                                       *)
(***************************************************************************)
ClientStep(s) == Connect(s) \/ ClientClose(s) \/ Vanish(s) \/ Pong(s)

JoinStep(s) ==
  \/ \E r \in Rooms : JoinMissing(s, r)
  \/ \E r \in Rooms, k \in Recs :
       JoinRefused(s, r, k) \/ JoinRoute(s, r, k) \/ JoinAtOnce(s, r, k)
  \/ JoinResume(s) \/ JoinRouterFails(s)

DepartStep(s) ==
  \/ LeaveMeasure(s) \/ LeaveAtOnce(s) \/ LeaveFinish(s)
  \/ CloseSkip(s) \/ CloseMeasure(s) \/ CloseAtOnce(s) \/ CloseFinish(s)

RoomStep == \E r \in Rooms : DeleteRoom(r) \/ \E k \in Recs : CreateRoom(r, k)

Next ==
  \/ \E s \in Sockets : ClientStep(s) \/ JoinStep(s) \/ DepartStep(s)
  \/ RoomStep \/ Heartbeat \/ Restart

Spec == Init /\ [][Next]_vars

(***************************************************************************)
(* What the server's scheduling justifies: createRouter and getStats       *)
(* settle, close events are delivered, the heartbeat timer fires.  Nothing *)
(* is assumed of clients.                                                  *)
(***************************************************************************)
Fairness ==
  /\ WF_vars(Heartbeat)
  /\ \A s \in Sockets :
       /\ WF_vars(JoinResume(s) \/ JoinRouterFails(s))
       /\ WF_vars(LeaveFinish(s))
       /\ WF_vars(CloseSkip(s) \/ CloseMeasure(s) \/ CloseAtOnce(s))
       /\ WF_vars(CloseFinish(s))

FairSpec == Spec /\ Fairness

-----------------------------------------------------------------------------
(***************************************************************************)
(* Safety.                                                                 *)
(***************************************************************************)
\* The peers of room r, as the map has it.
Present(r) == IF registry[r] \in Recs THEN members[registry[r]] ELSE {}

\* s is a peer of a room.
InRoom(s) == \E r \in Rooms : s \in Present(r)

\* A usage row is open only while its connection is up or its close handler
\* is still reading counters; the one exception is a connection whose close
\* event came before its join had finished (server.js:166-196, 319-352).
UsageSettled ==
  \A s \in Sockets :
    usage[s] = "open" =>
      sock[s] \in {"open", "closing"} \/ close[s] \in {"measuring", "skipped"}

\* Everyone in a room that belongs to an account is being metered: there is no
\* presence without an open usage row (server.js:339-352, 173 and 699).
PresenceMetered ==
  \A r \in Owned :
    registry[r] \in Recs =>
      \A s \in members[registry[r]] : usage[s] = "open"

\* What each connected peer has been told (the snapshot in meet-joined, then
\* meet-peer-joined and meet-peer-left) is exactly who else is in its record,
\* whatever joins, leaves and closes overlapped (server.js:354-399, 703-705).
PresenceAgrees ==
  \A k \in Recs : \A t \in members[k] :
    sock[t] = "open" => knows[t] = members[k] \ {t}

\* A room that the map holds has a live router as soon as anybody is in it
\* (meetRooms.js:63-69, 99-102): nobody is left in a room without media.
OccupiedHasRouter ==
  \A r \in Rooms :
    registry[r] \in Recs /\ members[registry[r]] # {} =>
      router[registry[r]] \in openRouters

\* The routers made for room r and not closed.
RoutersFor(r) == {s \in openRouters : target[s] = r}

\* What the await between the capacity check and room.peers.set costs
\* (server.js:298-319, meetRooms.js:63-73): the peers that joined without making
\* a router fit in maxParticipants, and a room is over its limit by fewer peers
\* than there are routers open for it, so only joins that waited in createRouter
\* together exceed it, each with a router of its own.
OverbookingBounded ==
  \A r \in Rooms : LET M == members[registry[r]] IN
    registry[r] \in Recs =>
      /\ Cardinality(M \ openRouters) <= Capacity
      /\ Cardinality(M) > Capacity =>
           Cardinality(M) < Capacity + Cardinality(RoutersFor(r))

\* "Rooms the customer explicitly ended stay gone" (server.js:730): an ended
\* room is never in the map again, across joins in flight and restarts.
EndedStaysGone == \A r \in Rooms : ended[r] => registry[r] = NoRec

\* A participant of an owned room whose connection went away without a
\* meet-leave is on record as dropped once its close handler is through,
\* unless the room was deleted or it was admitted to a record the map no
\* longer holds (server.js:166-186).
DropsRecorded ==
  \A s \in Sockets :
    /\ close[s] = "done" /\ leave[s] = "no" /\ join[s] = "joined"
    /\ target[s] \in Owned /\ ~ended[target[s]]
    /\ \A k \in Recs : s \notin members[k]
    => dropped[s]

(***************************************************************************)
(* The inductive invariant: what makes the safety properties hold.         *)
(***************************************************************************)
\* A record nobody allocated is untouched and nobody refers to it.
FreshRecs ==
  \A k \in Recs \ used :
    /\ members[k] = {} /\ router[k] = NoSocket
    /\ \A r \in Rooms : registry[r] # k
    /\ \A s \in Sockets : joinRec[s] # k /\ leaveRec[s] # k /\ closeRec[s] # k

\* A connection that has not been used, and one that is not over.
ConnectionStages ==
  \A s \in Sockets :
    /\ sock[s] = "new" => join[s] = "no"
    /\ sock[s] = "closed" <=> close[s] # "no"
    /\ join[s] \in {"routing", "joined"} => target[s] \in Rooms
    /\ join[s] = "routing" => joinRec[s] \in Recs /\ close[s] \in {"no", "skipped"}
    /\ usage[s] # "none" => join[s] = "joined"

\* A peer is in one record, and the map holds that record for its room only.
OneHome ==
  /\ \A s \in Sockets, k \in Recs : s \in members[k] => join[s] = "joined"
  /\ \A s \in Sockets, j, k \in Recs : s \in members[j] /\ s \in members[k] => j = k
  /\ \A q, r \in Rooms : registry[q] = registry[r] /\ registry[r] # NoRec => q = r
  /\ \A s \in Sockets, r \in Rooms :
       registry[r] \in Recs /\ s \in members[registry[r]] => target[s] = r
  /\ \A s \in Sockets, r \in Rooms :
       join[s] = "routing" /\ registry[r] = joinRec[s] => target[s] = r

\* A handler that is reading counters holds the record its peer is in and the
\* map holds, unless its peer has been removed meanwhile.
Captured(s, k) ==
  /\ join[s] = "joined" /\ k \in Recs
  /\ \A j \in Recs : s \in members[j] => j = k /\ registry[target[s]] = k

Captures ==
  \A s \in Sockets :
    /\ leave[s] = "measuring" => Captured(s, leaveRec[s])
    /\ close[s] = "measuring" => Captured(s, closeRec[s])

\* The routers of registered records are open and are one each.
Routers ==
  /\ \A k \in Recs : router[k] # NoSocket => join[router[k]] = "joined"
  /\ \A j, k \in Recs : router[j] = router[k] /\ router[k] # NoSocket => j = k
  /\ \A k \in Recs : members[k] # {} => router[k] # NoSocket
  /\ \A r \in Rooms :
       registry[r] \in Recs /\ router[registry[r]] # NoSocket =>
         router[registry[r]] \in openRouters

\* A router was made by a join that went through, the router of a registered
\* record by a join to its room, and nobody waits for one in a room without
\* places.  With it OverbookingBounded is inductive.
RouterOwners ==
  /\ \A s \in openRouters : join[s] = "joined"
  /\ \A r \in Rooms :
       registry[r] \in Recs /\ router[registry[r]] # NoSocket =>
         target[router[registry[r]]] = r
  /\ \A s \in Sockets : join[s] = "routing" => Capacity # 0

\* A participant that was admitted and not let go is in some record.
StillThere ==
  \A s \in Sockets :
    /\ join[s] = "joined" /\ leave[s] # "done"
    /\ close[s] \in {"no", "measuring", "skipped"}
    /\ target[s] \in Owned /\ ~ended[target[s]]
    => \E k \in Recs : s \in members[k]

\* Only a room that was created is ended or has a record.
RoomsWereCreated ==
  \A r \in Rooms : ended[r] \/ registry[r] # NoRec => created[r]

InductiveInv ==
  /\ TypeOK
  /\ FreshRecs /\ ConnectionStages /\ OneHome /\ Captures /\ Routers
  /\ StillThere /\ RoomsWereCreated
  /\ UsageSettled /\ PresenceMetered /\ PresenceAgrees /\ EndedStaysGone
  /\ DropsRecorded

(***************************************************************************)
(* Action property.                                                        *)
(***************************************************************************)
\* The map lets go of a room only when its record has become empty, when the
\* room is deleted, or when the process dies: a late removePeer of a peer that
\* is already gone never drops a room others are in (meetRooms.js:91-103).
LiveRoomStays ==
  [][\A r \in Rooms :
       registry[r] # NoRec /\ registry'[r] # registry[r] =>
         \/ members'[registry[r]] = {}  /\ members[registry[r]] # {}
         \/ ~ended[r] /\ ended'[r]
         \/ restarts' # restarts]_vars

(***************************************************************************)
(* The usage table, as the handlers drive it, is the ledger of UsageLedger: *)
(* no interleaving of joins, leaves, closes and restarts opens a row twice, *)
(* closes someone else's or touches a closed one.                          *)
(***************************************************************************)
Ledger == INSTANCE UsageLedger WITH Sessions <- Sockets, row <- usage,
                                    boots <- restarts

\* The detailed specification implements the ledger (db.js:67-69).
ImplementsLedger == Ledger!Spec

(***************************************************************************)
(* The server as a whole is RoomVisits: handlers that wait and overlap,    *)
(* records and routers are invisible, and a join, a departure, a DELETE or *)
(* a boot is one step of room and usage row together.                      *)
(***************************************************************************)
Roster == [r \in Rooms |-> Present(r)]
Been   == {s \in Sockets : join[s] = "joined"}

Visits == INSTANCE RoomVisits WITH Peers <- Sockets, roster <- Roster,
                                   been <- Been, row <- usage,
                                   boots <- restarts

\* The detailed specification implements visits (server.js:298-402, 695-708,
\* 166-196): no overlap of joins, leaves, closes, deletions and restarts takes
\* somebody else out of a room, lets a participant in twice or into an ended
\* room, or lets it go without closing its row.
ImplementsVisits == Visits!Spec

(***************************************************************************)
(* Seen from one record: what MediaDemand, which models the inside of a    *)
(* room, takes for granted of the membership of that room.                 *)
(***************************************************************************)
InMap(k) == \E r \in Rooms : registry[r] = k
Life(k)  == IF k \notin used THEN "fresh" ELSE IF InMap(k) THEN "open" ELSE "over"

Record(k) == INSTANCE RoomRecord WITH Peers <- Sockets, life <- Life(k),
               present <- IF InMap(k) THEN members[k] ELSE {}, seen <- Been

\* Every record lives as RoomRecord says (meetRooms.js:36-122): no overlap of a
\* late join, a late departure, a rehydration and a DELETE brings a record back,
\* lets a peer into two of them, or keeps one that is empty after a departure.
ImplementsRecords ==
  /\ \A k \in Recs : Record(k)!Init
  /\ [][\A k \in Recs : [Record(k)!Next]_(Record(k)!vars)]_vars

(***************************************************************************)
(* Liveness.                                                               *)
(***************************************************************************)
\* A peer that vanished without a close frame is found by the heartbeat and
\* leaves its room (server.js:101-122): it does not hold a place for ever.
VanishedLeaves ==
  \A s \in Sockets :
    ~reachable[s] /\ join[s] = "joined" /\ sock[s] # "closed" ~> ~InRoom(s)

(***************************************************************************)
(* What the repository says of the program and the code does not do.       *)
(***************************************************************************)
\* db.js:197-198: '"still connected" only ever describes live peers': an open
\* usage row belongs to a connection that exists.
StillConnectedIsLive ==
  \A s \in Sockets :
    usage[s] = "open" => sock[s] # "closed" \/ close[s] = "measuring"
=============================================================================
