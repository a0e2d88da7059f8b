---------------------------- MODULE EmbedConnection ----------------------------
(***************************************************************************)
(* The connection of the embedded room: useRoomConnection.js, and what     *)
(* EmbedRoom.jsx calls of it (startSession, Retry, leave).                 *)
(*                                                                         *)
(* Callbacks of one page run one at a time; a step is the code between two *)
(* awaits together with the promise reactions it sets off, which no other  *)
(* callback can come between.  That matters when a socket fails: onerror   *)
(* rejects connect(), the retry loop runs to its next await, and only then *)
(* does onclose run.                                                       *)
(*                                                                         *)
(* A connection is the number of its connect().  The server and the other  *)
(* participants are the environment: messages on an open socket arrive at  *)
(* once and in order, a remote participant joins, shares, stops and leaves *)
(* at most once, and its producer has its name.                            *)
(***************************************************************************)
EXTENDS Integers, Sequences, FiniteSets

CONSTANTS
  Peers,      \* the other participants
  NoPeer,     \* null
  Attempts,   \* RECONNECT_DELAYS_MS.length
  MaxConns    \* bound: calls of connect()

ASSUME EmbedAssumption ==
  /\ IsFiniteSet(Peers) /\ NoPeer \notin Peers
  /\ Attempts \in Nat \ {0} /\ MaxConns \in Nat \ {0}

Conns  == 1..MaxConns
NoConn == 0

VARIABLES
  viewer,       \* role of the token; a viewer has no send transport
  phase,        \* phase
  intentional,  \* intentionalCloseRef
  used,         \* connect() calls so far
  cur,          \* wsRef
  sock,         \* readyState; "lost" is closed or closing, close event to come
  job,          \* where connect() of a connection and its meet-joined handler are
  snap,         \* existingPeers and existingProducers of its meet-joined
  via,          \* the connection a meet-joined handler's request went out on
  recv,         \* recvTransportRef: the connection the transport was made on
  loop,         \* reconnect(): "off", "sleep" or "await" (reconnectingRef: not off)
  attempt,      \* its attempt
  awaited,      \* the connection it awaits
  peers,        \* keys of peersRef
  tiles,        \* remoteVideosRef: the connection of the consumer, or NoConn
  work,         \* the run of the consume queue in progress
  queue,        \* the runs behind it
  life,         \* the other participants themselves
  \* what happened, for the properties
  strays,       \* times Retry was pressed, or a setup failed with its socket not closed
  missed,       \* announced when there was no receive transport, or refused
  unheard       \* gone or stopped, and nothing here took notice

page   == <<viewer, phase, intentional>>
conns  == <<used, cur, sock, job, snap, via, recv, strays>>
retry  == <<loop, attempt, awaited>>
remote == <<peers, tiles, work, queue, missed, unheard>>
vars   == <<page, conns, retry, remote, life>>

Idle     == [who |-> NoPeer, stage |-> "none", on |-> NoConn]
Building == {"device", "unsent", "recv", "send"}
Nobody   == [peers |-> {}, producers |-> {}]

TypeOK ==
  /\ viewer \in BOOLEAN /\ intentional \in BOOLEAN
  /\ strays \in Nat
  /\ phase \in {"idle", "connecting", "live", "reconnecting", "ended"}
  /\ used \in 0..MaxConns
  /\ cur \in Conns \cup {NoConn} /\ recv \in Conns \cup {NoConn}
  /\ via \in [Conns -> Conns \cup {NoConn}] /\ awaited \in Conns \cup {NoConn}
  /\ sock \in [Conns -> {"none", "dialing", "open", "lost", "closed"}]
  /\ job \in [Conns -> {"none", "ice", "join", "mute", "joined", "failed"} \cup Building]
  /\ snap \in [Conns -> [peers : SUBSET Peers, producers : SUBSET Peers]]
  /\ loop \in {"off", "sleep", "await"} /\ attempt \in 0..Attempts
  /\ peers \subseteq Peers /\ missed \subseteq Peers /\ unheard \subseteq Peers
  /\ tiles \in [Peers -> Conns \cup {NoConn}]
  /\ work \in [who : Peers \cup {NoPeer}, stage : {"none", "request", "consume"},
               on : Conns \cup {NoConn}]
  /\ work.stage # "none" => work.who \in Peers
  /\ queue \in Seq(Peers)
  /\ life \in [Peers -> {"away", "here", "sharing", "quiet", "gone"}]

Present == {p \in Peers : life[p] \in {"here", "sharing", "quiet"}}
Sharing == {p \in Peers : life[p] = "sharing"}
Shown   == {p \in Peers : tiles[p] # NoConn}

\* The connections the server has admitted and can still reach.
Listening ==
  {c \in Conns : sock[c] = "open" /\ job[c] \in Building \cup {"joined", "failed"}}

\* Once the page has gone on without a connection that may still be there.
orphaned == strays > 0

Init ==
  /\ viewer \in BOOLEAN
  /\ phase = "idle" /\ intentional = FALSE
  /\ used = 0 /\ cur = NoConn /\ recv = NoConn /\ strays = 0
  /\ sock = [c \in Conns |-> "none"] /\ job = [c \in Conns |-> "none"]
  /\ snap = [c \in Conns |-> Nobody] /\ via = [c \in Conns |-> NoConn]
  /\ loop = "off" /\ attempt = 0 /\ awaited = NoConn
  /\ peers = {} /\ tiles = [p \in Peers |-> NoConn]
  /\ work = Idle /\ queue = <<>> /\ missed = {} /\ unheard = {}
  /\ life = [p \in Peers |-> "away"]

(***************************************************************************)
(* The consume queue                                                       *)
(***************************************************************************)
\* The next run starts as soon as the one before has settled: with no receive
\* transport each returns at once, otherwise the first awaits meet-consume.
Drain(pending, transport, socket) ==
  IF transport = NoConn \/ pending = <<>>
  THEN work' = Idle /\ queue' = <<>>
  ELSE /\ work' = [who |-> Head(pending), stage |-> "request",
                   on |-> IF transport = socket THEN transport ELSE NoConn]
       /\ queue' = Tail(pending)

\* consumeProducer, for each of a sequence of producers.
Enqueue(new, transport) ==
  IF work = Idle THEN Drain(queue \o new, transport, cur)
  ELSE work' = work /\ queue' = queue \o new

\* The orders in which a set may be listed.
Listings(S) == {s \in [1..Cardinality(S) -> S] : {s[i] : i \in DOMAIN s} = S}

\* meet-consume is answered; the receive transport is read again.
ConsumeAnswered ==
  /\ work.stage = "request" /\ work.on \in Listening
  /\ work.who \in Sharing
  /\ IF recv = NoConn THEN Drain(queue, recv, cur)
     ELSE work' = [work EXCEPT !.stage = "consume", !.on = recv] /\ UNCHANGED queue
  /\ UNCHANGED <<page, conns, retry, peers, tiles, missed, unheard, life>>

\* It is refused, or not answered for 15 seconds, or consume() fails: the run
\* gives up.
ConsumeRefused ==
  /\ work.stage # "none"
  /\ missed' = missed \cup {work.who}
  /\ Drain(queue, recv, cur)
  /\ UNCHANGED <<page, conns, retry, peers, tiles, unheard, life>>

\* transport.consume() settles: the entry is made without another look at
\* whether the producer is still there.
ConsumeDone ==
  /\ work.stage = "consume"
  /\ tiles' = [tiles EXCEPT ![work.who] = work.on]
  /\ Drain(queue, recv, cur)
  /\ UNCHANGED <<page, conns, retry, peers, missed, unheard, life>>

(***************************************************************************)
(* connect()                                                               *)
(***************************************************************************)
\* Only the first call waits for the ICE servers, which are cached then.
BeginConnect ==
  LET c == used + 1 IN
  /\ c \in Conns
  /\ used' = c
  /\ intentional' = FALSE /\ phase' = "connecting"
  /\ IF c = 1
     THEN job' = [job EXCEPT ![c] = "ice"] /\ UNCHANGED <<cur, sock>>
     ELSE /\ job' = [job EXCEPT ![c] = "join"]
          /\ sock' = [sock EXCEPT ![c] = "dialing"]
          /\ cur' = c

\* The page connects when it loads.
AutoJoin ==
  /\ used = 0
  /\ BeginConnect
  /\ UNCHANGED <<viewer, snap, via, recv, strays, retry, remote, life>>

\* A publisher is offered Retry while the embed reconnects.
Retry ==
  /\ ~viewer /\ phase = "reconnecting"
  /\ BeginConnect
  /\ strays' = strays + 1
  /\ UNCHANGED <<viewer, snap, via, recv, retry, remote, life>>

GotIceServers(c) ==
  /\ job[c] = "ice"
  /\ job' = [job EXCEPT ![c] = "join"]
  /\ sock' = [sock EXCEPT ![c] = "dialing"]
  /\ cur' = c
  /\ UNCHANGED <<page, used, snap, via, recv, strays, retry, remote, life>>

\* onopen: meet-join goes out on the socket wsRef names, if that is open.  It is
\* this one, or one dialed later, or none: a browser opens its sockets to a
\* server one after the other (RFC 6455, 4.1).
Opened(c) ==
  /\ sock[c] = "dialing" /\ \A d \in 1..(c - 1) : sock[d] # "dialing"
  /\ sock' = [sock EXCEPT ![c] = "open"]
  /\ job' = [job EXCEPT ![c] = IF cur = c THEN @ ELSE "mute"]
  /\ UNCHANGED <<page, used, cur, snap, via, recv, strays, retry, remote, life>>

\* meet-joined; device.load() is awaited before the lists in it are used.  An
\* error answer changes nothing but the message shown: connect() stays pending.
Joined(c) ==
  /\ sock[c] = "open" /\ job[c] = "join"
  /\ job' = [job EXCEPT ![c] = "device"]
  /\ snap' = [snap EXCEPT ![c] = [peers |-> Present, producers |-> Sharing]]
  /\ UNCHANGED <<page, used, cur, sock, via, recv, strays, retry, remote, life>>

\* createTransport, called by the setup of c: the request goes out on the
\* current socket, if that is open; the server answers once it has admitted it.
Request(c, stage) ==
  /\ job' = [job EXCEPT ![c] = IF cur \in Listening THEN stage ELSE "unsent"]
  /\ via' = [via EXCEPT ![c] = cur]

\* meet-joined goes on, and asks for a receive transport.
DeviceLoaded(c) ==
  /\ job[c] = "device"
  /\ Request(c, "recv")
  /\ peers' = peers \cup snap[c].peers
  /\ UNCHANGED <<page, used, cur, sock, snap, recv, strays, retry,
                 tiles, work, queue, missed, unheard, life>>

\* The rest of meet-joined: consume what was there, go live, settle connect().
Finish(c, transport) ==
  /\ job' = [job EXCEPT ![c] = "joined"]
  /\ snap' = [snap EXCEPT ![c] = Nobody]
  /\ phase' = "live"
  /\ IF awaited = c
     THEN loop' = "off" /\ attempt' = 0 /\ awaited' = NoConn
     ELSE UNCHANGED retry
  /\ \E listing \in Listings(snap[c].producers) : Enqueue(listing, transport)

\* The transport belongs to the connection the request went out on.
RecvReady(c) ==
  /\ job[c] = "recv" /\ via[c] \in Listening
  /\ recv' = via[c]
  /\ \/ viewer /\ Finish(c, via[c]) /\ UNCHANGED via
     \/ ~viewer /\ Request(c, "send") /\ UNCHANGED <<snap, phase, retry, work, queue>>
  /\ UNCHANGED <<viewer, intentional, used, cur, sock, strays,
                 peers, tiles, missed, unheard, life>>

SendReady(c) ==
  /\ job[c] = "send" /\ via[c] \in Listening
  /\ Finish(c, recv)
  /\ UNCHANGED <<viewer, intentional, used, cur, sock, via, recv, strays,
                 peers, tiles, missed, unheard, life>>

-----------------------------------------------------------------------------
(***************************************************************************)
(* The retry loop, as values: what a rejected connect() makes of it.       *)
(***************************************************************************)
LoopNow == [loop |-> loop, attempt |-> attempt, awaited |-> awaited, phase |-> phase]

\* As if the loop did not count its attempts.
AfterReject_NoLimit(l, C) ==
  IF l.loop # "await" \/ l.awaited \notin C THEN l
  ELSE [l EXCEPT !.loop = "sleep", !.attempt = @ + 1, !.awaited = NoConn]

\* The loop after connect() of the connections C was rejected: its next sleep,
\* or its end, where the last attempt failed or the close was our own.
AfterReject(l, C) ==
  IF l.loop # "await" \/ l.awaited \notin C THEN l
  ELSE IF intentional \/ l.attempt = Attempts
       THEN [loop |-> "off", attempt |-> 0, awaited |-> NoConn, phase |-> "ended"]
       ELSE [l EXCEPT !.loop = "sleep", !.attempt = @ + 1, !.awaited = NoConn]

\* reconnect() does something: none is running and the close was not our own.
Restarts(l) == ~intentional /\ l.loop = "off"

SetLoop(l) ==
  /\ loop' = l.loop /\ attempt' = l.attempt
  /\ awaited' = l.awaited /\ phase' = l.phase

\* The participants of lists that wait for device.load().
Pending == UNION {snap[c].peers : c \in {d \in Conns : job[d] = "device"}}

\* As if the tiles of the lost connection stayed on screen.
ClearSession_KeepsTiles ==
  /\ cur' = NoConn /\ recv' = NoConn
  /\ peers' = {} /\ missed' = {} /\ unheard' = unheard \cap Pending
  /\ UNCHANGED tiles

\* Everything of the session that is gone is let go of.
ClearSession ==
  /\ cur' = NoConn /\ recv' = NoConn
  /\ peers' = {} /\ missed' = {} /\ unheard' = unheard \cap Pending
  /\ tiles' = [p \in Peers |-> NoConn]

\* A consume() in progress on a transport that was replaced: nothing closes it.
GoesOn == work.stage = "consume" /\ work.on # recv

\* The end of connection c: onerror if the socket failed, then onclose, then
\* the reactions to the requests onclose rejected, whichever socket they were
\* sent on.
Closed(c, failed) ==
  LET requests == {d \in Conns : job[d] \in {"unsent", "recv", "send"}}
      atError  == IF failed THEN AfterReject(LoopNow, {c}) ELSE LoopNow
      restart  == Restarts(atError)
      atClose  == IF restart
                  THEN [loop |-> "sleep", attempt |-> 1, awaited |-> NoConn,
                        phase |-> "reconnecting"]
                  ELSE atError
      settled  == IF requests = {} THEN atClose
                  ELSE AfterReject([atClose EXCEPT !.phase = "idle"], requests)
  IN
  /\ \/ sock[c] = "lost"
     \/ sock[c] = "dialing" /\ failed
  /\ sock' = [sock EXCEPT ![c] = "closed"]
  /\ job' = [d \in Conns |->
               IF d \in requests \/ (d = c /\ failed /\ job[d] = "join")
               THEN "failed" ELSE job[d]]
  /\ SetLoop(settled)
  /\ snap' = [d \in Conns |-> IF d \in requests THEN Nobody ELSE snap[d]]
  /\ IF restart
     THEN /\ ClearSession
          /\ IF GoesOn THEN UNCHANGED <<work, queue>> ELSE work' = Idle /\ queue' = <<>>
     ELSE /\ UNCHANGED <<cur, recv, peers, tiles, missed, unheard>>
          /\ IF work.stage = "request"
             THEN Drain(queue, recv, cur)
             ELSE UNCHANGED <<work, queue>>
  /\ UNCHANGED <<viewer, intentional, used, via, strays, life>>

\* device.load() or a request of the setup fails, by an answer or after 15
\* seconds: the socket stays as it is.
SetupFails(c) ==
  /\ job[c] \in Building
  /\ job' = [job EXCEPT ![c] = "failed"]
  /\ snap' = [snap EXCEPT ![c] = Nobody]
  /\ SetLoop(AfterReject([LoopNow EXCEPT !.phase = "idle"], {c}))
  /\ strays' = IF sock[c] = "closed" THEN strays ELSE strays + 1
  /\ UNCHANGED <<viewer, intentional, used, cur, sock, via, recv, remote, life>>

\* device.load(), and consume() once the connection is gone, are local work,
\* shorter than any of the delays.
SleepOver ==
  /\ loop = "sleep" /\ \A c \in Conns : job[c] # "device"
  /\ work.stage = "consume" => sock[work.on] # "closed"
  /\ IF intentional
     THEN /\ SetLoop([loop |-> "off", attempt |-> 0, awaited |-> NoConn, phase |-> "ended"])
          /\ UNCHANGED <<intentional, used, cur, sock, job>>
     ELSE /\ BeginConnect
          /\ loop' = "await" /\ awaited' = used + 1 /\ UNCHANGED attempt
  /\ UNCHANGED <<viewer, snap, via, recv, strays, remote, life>>

\* The connection dies, or the server closes it.
Lose(c) ==
  /\ sock[c] = "open"
  /\ sock' = [sock EXCEPT ![c] = "lost"]
  /\ UNCHANGED <<page, used, cur, job, snap, via, recv, strays, retry, remote, life>>

\* As if leaving dropped the reference and left the socket open.
HungUp_Dropped(c) == sock

\* The sockets after wsRef.current.close().
HungUp(c) == [sock EXCEPT ![c] = IF @ \in {"dialing", "open"} THEN "lost" ELSE @]

\* leave() and unmounting: disconnect(), which does nothing without a socket.
Leave ==
  /\ used > 0
  /\ \/ cur = NoConn /\ UNCHANGED <<phase, intentional, conns, remote>>
     \/ /\ cur # NoConn
        /\ intentional' = TRUE /\ phase' = "ended"
        /\ sock' = HungUp(cur)
        /\ ClearSession
        /\ IF work.stage = "request" \/ GoesOn THEN UNCHANGED <<work, queue>>
           ELSE work' = Idle /\ queue' = <<>>
        /\ UNCHANGED <<used, job, snap, via, strays>>
  /\ UNCHANGED <<viewer, retry, life>>

-----------------------------------------------------------------------------
(***************************************************************************)
(* The other participants, and the messages about them                     *)
(***************************************************************************)
Becomes(p, new) == life' = [life EXCEPT ![p] = new]

\* meet-peer-joined
PeerJoins(p) ==
  /\ life[p] = "away" /\ Becomes(p, "here")
  /\ peers' = IF Listening = {} THEN peers ELSE peers \cup {p}
  /\ UNCHANGED <<page, conns, retry, tiles, work, queue, missed, unheard>>

\* The same producer, once for every connection the news comes on.
Announced(p) == [n \in 1..Cardinality(Listening) |-> p]

\* meet-new-producer
PeerShares(p) ==
  /\ life[p] = "here" /\ Becomes(p, "sharing")
  /\ missed' = IF Listening # {} /\ recv = NoConn THEN missed \cup {p} ELSE missed
  /\ IF Listening = {} THEN UNCHANGED <<work, queue>> ELSE Enqueue(Announced(p), recv)
  /\ UNCHANGED <<page, conns, retry, peers, tiles, unheard>>

\* A stop or a departure that finds nothing to remove, and something to come:
\* nobody hears it, a list it is on is waiting for device.load(), or its tile
\* is on the way.
Overlooked(p) ==
  \/ Listening = {} /\ (p \in peers \/ tiles[p] # NoConn)
  \/ p \in Pending
  \/ work.who = p /\ work.stage = "consume"

RemoveProducer(p) == [tiles EXCEPT ![p] = IF Listening = {} THEN @ ELSE NoConn]

\* meet-producer-closed
PeerStops(p) ==
  /\ life[p] = "sharing" /\ Becomes(p, "quiet")
  /\ tiles' = RemoveProducer(p)
  /\ unheard' = IF Overlooked(p) THEN unheard \cup {p} ELSE unheard
  /\ UNCHANGED <<page, conns, retry, peers, work, queue, missed>>

\* As if the participant list were left to the next meet-joined.
RemovePeer_TilesOnly(p) == peers

RemovePeer(p) == IF Listening = {} THEN peers ELSE peers \ {p}

\* meet-peer-left
PeerLeaves(p) ==
  /\ p \in Present /\ Becomes(p, "gone")
  /\ peers' = RemovePeer(p)
  /\ tiles' = RemoveProducer(p)
  /\ unheard' = IF Overlooked(p) THEN unheard \cup {p} ELSE unheard
  /\ UNCHANGED <<page, conns, retry, work, queue, missed>>

-----------------------------------------------------------------------------
ConnStep(c) ==
  \/ GotIceServers(c) \/ Opened(c) \/ Joined(c) \/ DeviceLoaded(c)
  \/ RecvReady(c) \/ SendReady(c) \/ SetupFails(c)
  \/ \E failed \in BOOLEAN : Closed(c, failed)
  \/ Lose(c)

PeerStep(p) == PeerJoins(p) \/ PeerShares(p) \/ PeerStops(p) \/ PeerLeaves(p)

\* Every step but leave().
PageStep ==
  \/ AutoJoin \/ Retry \/ SleepOver
  \/ ConsumeAnswered \/ ConsumeRefused \/ ConsumeDone
  \/ \E c \in Conns : ConnStep(c)
  \/ \E p \in Peers : PeerStep(p)

Next == Leave \/ PageStep

Spec == Init /\ [][Next]_vars

-----------------------------------------------------------------------------
(***************************************************************************)
(* Properties                                                              *)
(***************************************************************************)
\* reconnect() "rebuilds the session": a connection is opened for one that is
\* gone, never beside it.  However Retry, setups that time out, failing sockets
\* and the sleeping loop overlap, at most one connection is open or being opened
\* more than the times Retry was pressed or a setup was given up with its socket
\* still there; and until that happens it is the one wsRef names, so that leaving
\* closes it and the room counts this page once.
Live == {c \in Conns : sock[c] \in {"dialing", "open"}}

OneSession ==
  /\ Cardinality(Live) <= 1 + strays
  /\ ~orphaned => Live \subseteq {cur}

\* While the session is live and its socket open, the picture is the room: what
\* is shown is being shared and comes over the present transport, except what
\* stopped while its consume was settling or while nobody heard it; and once
\* the queue is empty everything shared is shown, except what was announced
\* before there was a transport, or refused.
PictureHonest ==
  phase = "live" /\ cur \in Listening /\ ~orphaned =>
    /\ Shown \subseteq Sharing \cup unheard
    /\ work = Idle =>
         /\ Sharing \subseteq Shown \cup missed
         /\ \A p \in Shown \ (missed \cup unheard) : tiles[p] = recv

\* The participant list is the room's, except those whose departure came while
\* meet-joined waited for device.load() or between two connections.
PeersAgree ==
  phase = "live" /\ cur \in Listening /\ ~orphaned =>
    /\ Present \subseteq peers
    /\ peers \subseteq Present \cup unheard

(***************************************************************************)
(* What keeps them true: the inductive invariant.                          *)
(***************************************************************************)
\* What holds a connection or is about to open one: sockets that are not closed,
\* the first connect() while it waits for the ICE servers, and the retry loop
\* when it sleeps or what it awaits can only fail.  A close lets the loop go on
\* at most once.
Held == {c \in Conns : sock[c] \in {"dialing", "open", "lost"} \/ job[c] = "ice"}

Claim == IF loop = "sleep" \/ (loop = "await" /\ sock[awaited] = "closed") THEN 1 ELSE 0

Counted ==
  /\ Cardinality(Held) + Claim <= 1 + strays
  /\ loop # "off" => used > 0
  /\ loop = "await" => awaited \in Conns
  /\ \A c \in Conns : /\ job[c] = "ice" => sock[c] = "none"
                      /\ c > used => sock[c] = "none" /\ job[c] # "ice"

\* The connections: only the newest can still have a socket that is not closed,
\* and none has while the loop sleeps; wsRef names it until it is hung up.
Socket(c) ==
  /\ sock[c] \in {"dialing", "open", "lost"} => c = used /\ loop # "sleep"
  /\ sock[c] \in {"dialing", "open"} => cur = c
  /\ sock[c] = "dialing" => job[c] = "join"
  /\ sock[c] = "none" => job[c] \in {"none", "ice"}
  /\ c > used => sock[c] = "none" /\ job[c] = "none"
  /\ job[c] = "ice" => /\ c = 1 /\ used = 1 /\ sock[c] = "none" /\ loop = "off"
                       /\ cur = NoConn /\ ~intentional
  /\ job[c] = "device" => c = used
  /\ job[c] = "unsent" => sock[c] # "open"
  /\ job[c] \in {"recv", "send"} => sock[c] \in {"open", "lost"} /\ via[c] = c
  /\ job[c] # "mute"
  /\ job[c] = "failed" => sock[c] = "closed"

Sockets ==
  /\ \A c \in Conns : Socket(c)
  /\ cur <= used /\ recv <= used /\ work.on <= used
  /\ loop # "off" => used > 0
  /\ loop = "await" => awaited = used
  /\ intentional => cur = NoConn /\ used > 0

\* The receive transport is that of a setup which has come so far, and the page
\* is live when that of the newest connection has come to its end.
Transports ==
  /\ phase = "live" => used > 0 /\ job[used] = "joined"
  /\ recv # NoConn => job[recv] \in {"send", "joined", "failed"}
  /\ \A c \in Conns : job[c] = "send" => recv = c \/ intentional

\* The consume queue: there is something in it only behind a run, there is a run
\* only while there is a transport, and what is on its way to be shown is shared
\* and comes over that of the newest connection.
QueueRuns ==
  /\ work.stage = "none" => work = Idle /\ queue = <<>>
  /\ work.stage # "none" => recv # NoConn \/ intentional
  /\ work.stage = "consume" => /\ work.on = recv /\ recv = used /\ recv # NoConn
                               /\ work.who \in Sharing \cup unheard
  /\ work.on = cur /\ cur # NoConn => recv = cur

\* Nothing is held of anybody who is gone, but what was not heard.
Heard ==
  /\ peers \subseteq Present \cup unheard
  /\ Pending \subseteq Present \cup unheard
  /\ Shown \subseteq Sharing \cup unheard

Queued  == {queue[i] : i \in DOMAIN queue}
Waiting == Queued \cup {work.who}

\* What the newest connection has been told and not used yet.
Listed(field) == IF job[cur] \in Building THEN snap[cur][field] ELSE {}

\* While the server reaches the page, everybody present and everything shared is
\* known, listed or waiting; and what is shown by an older transport is going to
\* be consumed again.
Picture ==
  cur \in Listening =>
    /\ Present \subseteq peers \cup (IF job[cur] = "device" THEN snap[cur].peers ELSE {})
    /\ Sharing \subseteq Shown \cup missed \cup Waiting \cup Listed("producers")
    /\ job[cur] \in {"device", "unsent", "recv"} =>
         Shown \subseteq unheard \cup Listed("producers")
    /\ job[cur] \in {"send", "joined"} =>
         \A p \in Shown :
           tiles[p] = recv \/ p \in missed \cup unheard \cup Waiting \cup Listed("producers")

InductiveInv ==
  /\ TypeOK /\ Counted
  /\ ~orphaned => Sockets /\ Transports /\ QueueRuns /\ Heard /\ Picture
==============================================================================
