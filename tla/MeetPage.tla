-------------------------------- MODULE MeetPage --------------------------------
(***************************************************************************)
(* The demo meeting page, meet/[roomId]/page.js: joining, the requests it  *)
(* awaits, the consume queue, the screen share, leaving and joining again. *)
(*                                                                         *)
(* The page keeps one set of refs for all of its sessions, and none of its *)
(* requests but meet-consume is given up: an answer is matched to a        *)
(* request by direction or, for meet-produce, by order.  A session is the  *)
(* number of its join().  The server and the other participants are the    *)
(* environment; a remote producer has the name of its owner.               *)
(***************************************************************************)
EXTENDS Integers, Sequences, FiniteSets

CONSTANTS
  Peers,     \* the other participants, each with one producer
  NoPeer,    \* null
  MaxJoins   \* bound: calls of join()

ASSUME MeetPageAssumption ==
  IsFiniteSet(Peers) /\ NoPeer \notin Peers /\ MaxJoins \in Nat \ {0}

Sessions  == 1..MaxJoins
None      == 0
Own       == {"mic", "camera"}

VARIABLES
  status,     \* status; joined is: not idle and not connecting
  used,       \* join() calls so far
  job,        \* what each join() and its meet-joined handler await
  tracks,     \* the tracks a join was given and has not produced
  cur,        \* wsRef
  sock,       \* readyState; "ending" is closed or closing, close event to come
  snap,       \* existingProducers of its meet-joined
  send, recv, \* sendTransportRef, recvTransportRef: the session they belong to
  shut,       \* sessions whose transports leave() has closed
  fifo,       \* pending.produce
  asked,      \* the meet-produce of each session the server has not answered
  share,      \* startScreenShare: what it awaits, and of which session
  captured,   \* whether a screen track runs
  tiles,      \* remoteVideos and remoteAudios: the session of the consumer
  work,       \* the run of the consume queue in progress
  queue,      \* the runs behind it
  life,       \* the remote producers themselves
  \* history, for the properties
  refused,    \* sessions of which a request was answered with an error
  swallowed,  \* sessions whose answer went to a request nobody waits for
  missed,     \* announced when they could not be consumed, or refused
  unheard     \* stopped, and nothing here took notice

session == <<status, used, job, tracks, snap, refused>>
wire    == <<cur, sock>>
own     == <<send, recv, shut, fifo, asked, swallowed>>
sharing == <<share, captured>>
remote  == <<tiles, work, queue, missed, unheard>>
vars    == <<session, wire, own, sharing, remote, life>>

Idle     == [who |-> NoPeer, stage |-> "none", on |-> None]
NoShare  == [stage |-> "off", of |-> None]
Awaiting == {"device", "send", "recv", "mic", "camera"}

TypeOK ==
  /\ status \in {"idle", "connecting", "live"}
  /\ used \in 0..MaxJoins /\ cur \in Sessions \cup {None}
  /\ job \in [Sessions -> {"none", "media", "dial", "join", "joined", "failed"} \cup Awaiting]
  /\ tracks \in [Sessions -> SUBSET Own]
  /\ sock \in [Sessions -> {"none", "dialing", "open", "ending", "closed"}]
  /\ snap \in [Sessions -> SUBSET Peers]
  /\ send \in Sessions \cup {None} /\ recv \in Sessions \cup {None}
  /\ shut \subseteq Sessions
  /\ fifo \in Seq(Sessions \X (Own \cup {"screen"}))
  /\ asked \in [Sessions -> Own \cup {"screen", "none"}]
  /\ share \in [stage : {"off", "picking", "producing", "on"}, of : Sessions \cup {None}]
  /\ captured \in BOOLEAN
  /\ tiles \in [Peers -> Sessions \cup {None}]
  /\ work \in [who : Peers \cup {NoPeer}, stage : {"none", "request", "consume"},
               on : Sessions \cup {None}]
  /\ queue \in Seq(Peers)
  /\ life \in [Peers -> {"away", "sharing", "gone"}]
  /\ refused \subseteq Sessions /\ swallowed \subseteq Sessions
  /\ missed \subseteq Peers /\ unheard \subseteq Peers
  \* A call is shown from the end of its setup, and only the newest.
  /\ status = "live" => cur = used /\ job[cur] = "joined"
  /\ \A n \in Sessions : job[n] \in Awaiting => n = used /\ status = "connecting"

Init ==
  /\ status = "idle" /\ used = 0 /\ cur = None
  /\ job = [n \in Sessions |-> "none"] /\ tracks = [n \in Sessions |-> {}]
  /\ sock = [n \in Sessions |-> "none"] /\ snap = [n \in Sessions |-> {}]
  /\ send = None /\ recv = None /\ shut = {}
  /\ fifo = <<>> /\ asked = [n \in Sessions |-> "none"]
  /\ share = NoShare /\ captured = FALSE
  /\ tiles = [p \in Peers |-> None] /\ work = Idle /\ queue = <<>>
  /\ life = [p \in Peers |-> "away"]
  /\ refused = {} /\ swallowed = {} /\ missed = {} /\ unheard = {}

Shown   == {p \in Peers : tiles[p] # None}
Sharing == {p \in Peers : life[p] = "sharing"}
Open    == cur # None /\ sock[cur] = "open"
\* The server has admitted the page and reaches it.
Admitted == Open /\ job[cur] \in Awaiting \cup {"joined", "failed"}

(***************************************************************************)
(* The consume queue                                                       *)
(***************************************************************************)
\* The next run: without a transport it returns at once, otherwise it awaits
\* meet-consume, which is sent if the socket is open.
Drain(pending) ==
  IF recv = None \/ pending = <<>> THEN work' = Idle /\ queue' = <<>>
  ELSE /\ work' = [who |-> Head(pending), stage |-> "request",
                   on |-> IF Open THEN recv ELSE None]
       /\ queue' = Tail(pending)

\* consumeProducer, for each of a sequence.
Enqueue(new) ==
  IF work = Idle THEN Drain(queue \o new) ELSE work' = work /\ queue' = queue \o new

Listings(S) == {s \in [1..Cardinality(S) -> S] : {s[i] : i \in DOMAIN s} = S}

ConsumeAnswered ==
  /\ work.stage = "request" /\ Admitted /\ work.on = cur /\ work.who \in Sharing
  /\ work' = [work EXCEPT !.stage = "consume", !.on = recv]
  /\ UNCHANGED <<queue, tiles, missed, unheard, session, wire, own, sharing, life>>

\* Refused, or given up after ten seconds.
ConsumeRefused ==
  /\ work.stage = "request"
  /\ missed' = missed \cup {work.who}
  /\ Drain(queue)
  /\ UNCHANGED <<tiles, unheard, session, wire, own, sharing, life>>

\* transport.consume() settles: a transport closed meanwhile throws, otherwise
\* the tile is made without another look at the producer.
ConsumeDone ==
  /\ work.stage = "consume"
  /\ IF work.on \in shut THEN UNCHANGED tiles
     ELSE tiles' = [tiles EXCEPT ![work.who] = work.on]
  /\ Drain(queue)
  /\ UNCHANGED <<missed, unheard, session, wire, own, sharing, life>>

(***************************************************************************)
(* join()                                                                  *)
(***************************************************************************)
\* Bound: a join() after a failed one waits until that one's socket is gone;
\* what two sockets of one page do to each other is not followed.
Join ==
  /\ status = "idle" /\ used < MaxJoins
  /\ \A n \in Sessions : sock[n] \notin {"dialing", "open"}
  /\ used' = used + 1 /\ status' = "connecting"
  /\ job' = [job EXCEPT ![used + 1] = "media"]
  /\ UNCHANGED <<tracks, snap, refused, wire, own, sharing, remote, life>>

\* getUserMedia for each device, then the ICE servers.
GotMedia(n, devs) ==
  /\ job[n] = "media"
  /\ IF devs = {}
     THEN /\ status' = "idle" /\ job' = [job EXCEPT ![n] = "failed"]
          /\ UNCHANGED <<tracks, wire>>
     ELSE /\ job' = [job EXCEPT ![n] = "dial"]
          /\ tracks' = [tracks EXCEPT ![n] = devs]
          /\ cur' = n /\ sock' = [sock EXCEPT ![n] = "dialing"]
          /\ UNCHANGED status
  /\ UNCHANGED <<used, snap, refused, own, sharing, remote, life>>

Opened(n) ==
  /\ sock[n] = "dialing"
  /\ sock' = [sock EXCEPT ![n] = "open"]
  /\ job' = [job EXCEPT ![n] = "join"]
  /\ UNCHANGED <<status, used, tracks, snap, refused, cur, own, sharing, remote, life>>

\* meet-joined.
Joined(n) ==
  /\ sock[n] = "open" /\ job[n] = "join" /\ n \notin refused
  /\ job' = [job EXCEPT ![n] = "device"]
  /\ snap' = [snap EXCEPT ![n] = Sharing]
  /\ UNCHANGED <<status, used, tracks, refused, wire, own, sharing, remote, life>>

\* An error answers meet-join, meet-create-transport or meet-produce: a message
\* is shown, and whoever waits goes on waiting.
Refuse(n) ==
  /\ sock[n] = "open" /\ n \notin refused
  /\ job[n] \in {"join", "send", "recv"} \/ asked[n] # "none"
  /\ refused' = refused \cup {n}
  /\ asked' = [asked EXCEPT ![n] = "none"]
  /\ UNCHANGED <<status, used, job, tracks, snap, wire, send, recv, shut, fifo, swallowed,
                 sharing, remote, life>>

\* The device is loaded and the send transport requested.
DeviceLoaded(n) ==
  /\ job[n] = "device"
  /\ job' = [job EXCEPT ![n] = "send"]
  /\ UNCHANGED <<status, used, tracks, snap, refused, wire, own, sharing, remote, life>>

SendReady(n) ==
  /\ job[n] = "send" /\ sock[n] = "open" /\ n \notin refused
  /\ job' = [job EXCEPT ![n] = "recv"]
  /\ send' = n
  /\ UNCHANGED <<status, used, tracks, snap, refused, wire, recv, shut, fifo, asked, swallowed,
                 sharing, remote, life>>

\* As if a camera alone were never produced.
NextTrack_MicFirst(devs) == IF "mic" \in devs THEN "mic" ELSE "none"

\* The track to produce next: the microphone's first.
NextTrack(devs) ==
  IF "mic" \in devs THEN "mic" ELSE IF "camera" \in devs THEN "camera" ELSE "none"

\* produce() on the send transport of a session: the request takes its place in
\* line and goes out, if the socket is open.
Produce(n, what, line) ==
  /\ fifo' = Append(line, <<n, what>>)
  /\ asked' = [asked EXCEPT ![n] = IF sock[n] = "open" THEN what ELSE "none"]

\* As if the call were shown before the devices are produced.
RecvReady_Shown(n) ==
  /\ job[n] = "recv" /\ sock[n] = "open" /\ n \notin refused
  /\ recv' = n /\ status' = "live"
  /\ job' = [job EXCEPT ![n] = NextTrack(tracks[n])]
  /\ Produce(n, NextTrack(tracks[n]), fifo)
  /\ UNCHANGED <<used, tracks, snap, refused, wire, send, shut, swallowed, sharing, remote, life>>

RecvReady(n) ==
  /\ job[n] = "recv" /\ sock[n] = "open" /\ n \notin refused
  /\ recv' = n
  /\ job' = [job EXCEPT ![n] = NextTrack(tracks[n])]
  /\ Produce(n, NextTrack(tracks[n]), fifo)
  /\ UNCHANGED <<status, used, tracks, snap, refused, wire, send, shut, swallowed,
                 sharing, remote, life>>

\* The end of meet-joined: what was there is consumed, and the call is shown.
Finish(n) ==
  /\ job' = [job EXCEPT ![n] = "joined"]
  /\ snap' = [snap EXCEPT ![n] = {}] /\ status' = "live"
  /\ missed' = missed \ snap[n]
  /\ \E listing \in Listings(snap[n]) : Enqueue(listing)
  /\ UNCHANGED <<tiles, unheard>>

\* The line after an answer.
Rest == Tail(fifo)

\* meet-produced: the first in line is taken to be answered.
Produced(n) ==
  /\ sock[n] = "open" /\ asked[n] # "none" /\ fifo # <<>>
  /\ LET first == Head(fifo)
         left  == tracks[n] \ {first[2]}
     IN
     \/ \* a track of the join
        /\ first[1] = n /\ job[n] = first[2]
        /\ tracks' = [tracks EXCEPT ![n] = left]
        /\ IF left = {}
           THEN Finish(n) /\ fifo' = Rest /\ asked' = [asked EXCEPT ![n] = "none"]
           ELSE /\ job' = [job EXCEPT ![n] = NextTrack(left)]
                /\ Produce(n, NextTrack(left), Rest)
                /\ UNCHANGED <<status, snap, remote>>
        /\ UNCHANGED <<swallowed, sharing>>
     \/ \* the screen
        /\ first = <<n, "screen">> /\ share = [stage |-> "producing", of |-> n]
        /\ share' = [share EXCEPT !.stage = "on"]
        /\ fifo' = Rest /\ asked' = [asked EXCEPT ![n] = "none"]
        /\ UNCHANGED <<status, job, tracks, snap, swallowed, captured, remote>>
     \/ \* nobody waits for it any more
        /\ job[n] # first[2] \/ first[1] # n
        /\ ~(first = <<n, "screen">> /\ share = [stage |-> "producing", of |-> n])
        /\ fifo' = Rest /\ asked' = [asked EXCEPT ![n] = "none"]
        /\ swallowed' = swallowed \cup {n}
        /\ UNCHANGED <<status, job, tracks, snap, sharing, remote>>
  /\ UNCHANGED <<used, refused, wire, send, recv, shut, life>>

\* device.load() or a local step of a transport or of produce() throws.
JoinFails(n) ==
  /\ job[n] \in {"device", "mic", "camera"}
  /\ job' = [job EXCEPT ![n] = "failed"]
  /\ status' = "idle"
  /\ UNCHANGED <<used, tracks, snap, refused, wire, own, sharing, remote, life>>

(***************************************************************************)
(* The screen share                                                        *)
(***************************************************************************)
\* Bound: one picker at a time.
StartScreenShare ==
  /\ status = "live" /\ share.stage = "off"
  /\ share' = [stage |-> "picking", of |-> cur]
  /\ UNCHANGED <<captured, session, wire, own, remote, life>>

PickerCancelled ==
  /\ share.stage = "picking"
  /\ share' = NoShare
  /\ UNCHANGED <<captured, session, wire, own, remote, life>>

\* A track: produce() on whatever transport sendTransportRef names by now,
\* which throws when that was closed.
Picked ==
  /\ share.stage = "picking"
  /\ IF send \in shut
     THEN share' = NoShare /\ captured' = FALSE /\ UNCHANGED <<fifo, asked>>
     ELSE /\ share' = [stage |-> "producing", of |-> send] /\ captured' = TRUE
          /\ Produce(send, "screen", fifo)
  /\ \A n \in Sessions : job[n] \notin Awaiting  \* bound: not into a later join()
  /\ UNCHANGED <<send, recv, shut, swallowed, session, wire, remote, life>>

\* stopScreenShare, by the button or the browser's own bar.
StopScreenShare ==
  /\ share.stage = "on"
  /\ share' = NoShare /\ captured' = FALSE
  /\ UNCHANGED <<session, wire, own, remote, life>>

(***************************************************************************)
(* The end of a session                                                    *)
(***************************************************************************)
\* leave(): a produce() in progress is rejected with its transport; its place
\* in line and the consume queue stay, and so does a consume that settles on the
\* transport of a join that failed, which no leave() closes.
Leave ==
  /\ status = "live"
  /\ status' = "idle"
  /\ sock' = [sock EXCEPT ![cur] = IF @ \in {"dialing", "open"} THEN "ending" ELSE @]
  /\ shut' = shut \cup {send, recv}
  /\ asked' = [asked EXCEPT ![cur] = "none"]
  /\ captured' = FALSE
  /\ share' = IF share.stage = "picking" THEN share ELSE NoShare
  /\ tiles' = [p \in Peers |-> None]
  /\ unheard' = IF work.stage = "consume" /\ work.on \notin shut'
                THEN unheard \cap {work.who} ELSE {}
  /\ missed' = {}
  /\ UNCHANGED <<used, job, tracks, snap, refused, cur, send, recv, fifo, swallowed,
                 work, queue, life>>

\* The connection dies; the page goes on as if it had not.
Lose(n) ==
  /\ sock[n] \in {"dialing", "open"}
  /\ sock' = [sock EXCEPT ![n] = "ending"]
  /\ asked' = [asked EXCEPT ![n] = "none"]
  /\ UNCHANGED <<cur, send, recv, shut, fifo, swallowed, session, sharing, remote, life>>

\* onclose: every consume that waits is rejected, whichever session's it is.
CloseEvent(n) ==
  /\ sock[n] = "ending"
  /\ sock' = [sock EXCEPT ![n] = "closed"]
  /\ IF work.stage = "request"
     THEN missed' = missed \cup {work.who} /\ Drain(queue)
     ELSE UNCHANGED <<missed, work, queue>>
  /\ UNCHANGED <<cur, tiles, unheard, session, own, sharing, life>>

(***************************************************************************)
(* The other participants                                                  *)
(***************************************************************************)
\* meet-new-producer
PeerShares(p) ==
  /\ life[p] = "away" /\ life' = [life EXCEPT ![p] = "sharing"]
  /\ missed' = IF Admitted /\ recv # cur THEN missed \cup {p} ELSE missed
  /\ IF Admitted THEN Enqueue(<<p>>) ELSE UNCHANGED <<work, queue>>
  /\ UNCHANGED <<tiles, unheard, session, wire, own, sharing>>

\* As if the tile were left to the next join.
Removed_Kept(p) == tiles

Removed(p) == IF Admitted THEN [tiles EXCEPT ![p] = None] ELSE tiles

\* meet-producer-closed, meet-peer-left
PeerStops(p) ==
  /\ life[p] = "sharing" /\ life' = [life EXCEPT ![p] = "gone"]
  /\ tiles' = Removed(p)
  /\ unheard' = IF ~Admitted \/ (work.who = p /\ work.stage = "consume")
                THEN unheard \cup {p} ELSE unheard
  /\ UNCHANGED <<work, queue, missed, session, wire, own, sharing>>

SessionStep(n) ==
  \/ \E devs \in SUBSET Own : GotMedia(n, devs)
  \/ Opened(n) \/ Joined(n) \/ Refuse(n) \/ DeviceLoaded(n) \/ SendReady(n) \/ RecvReady(n)
  \/ Produced(n) \/ JoinFails(n) \/ Lose(n) \/ CloseEvent(n)

Next ==
  \/ Join \/ Leave
  \/ ConsumeAnswered \/ ConsumeRefused \/ ConsumeDone
  \/ StartScreenShare \/ PickerCancelled \/ Picked \/ StopScreenShare
  \/ \E n \in Sessions : SessionStep(n)
  \/ \E p \in Peers : PeerShares(p) \/ PeerStops(p)

Spec == Init /\ [][Next]_vars

(***************************************************************************)
(* Properties                                                              *)
(***************************************************************************)
\* A join whose socket is open waits for an answer that is still to come,
\* unless a request of it was refused, or an answer of it was taken for that
\* of a request which an earlier session had left in line.
JoinExplained ==
  status = "connecting" /\ Open /\ cur = used =>
    \/ job[cur] \in {"join", "device", "send", "recv"}
    \/ asked[cur] # "none"
    \/ cur \in refused \cup swallowed

\* While the call is shown and its socket open, the tiles are the room: what is
\* shown is being shared, except what stopped while its consume was settling or
\* nobody here could hear; once the queue is empty everything shared is shown,
\* except what was announced before there was a transport, refused, or caught
\* by the close event of an earlier socket; and all of it comes over the
\* present transport, except what a join that failed had shown.
TilesHonest ==
  status = "live" /\ Open =>
    /\ Shown \subseteq Sharing \cup unheard
    /\ work = Idle => Sharing \subseteq Shown \cup missed
    /\ \A p \in Shown : tiles[p] = recv \/ job[tiles[p]] = "failed"

(***************************************************************************)
(* What keeps them true: the inductive invariant.                          *)
(***************************************************************************)
\* A join: which stages of it, of its socket and of its transports go together.
\* Only the newest is under way or can have a socket that lives.
JoinStages(n) ==
  /\ n > used => job[n] = "none" /\ sock[n] = "none"
  /\ job[n] \in {"media", "dial", "join"} \cup Awaiting => n = used /\ status = "connecting"
  /\ job[n] \in {"dial", "join", "joined"} \cup Awaiting => sock[n] # "none"
  /\ job[n] \in {"dial", "join"} \cup Awaiting => cur = n
  /\ job[n] \in {"media", "none"} => sock[n] = "none"
  /\ sock[n] \in {"dialing", "open"} => n = cur /\ n = used
  /\ sock[n] = "dialing" => job[n] = "dial"
  /\ sock[n] = "open" => job[n] # "dial"
  /\ job[n] \in {"dial", "join", "device", "send", "recv"} => tracks[n] # {}
  /\ job[n] \in {"recv", "mic", "camera"} => send = n
  /\ job[n] \in {"mic", "camera"} => recv = n
  /\ job[n] = "joined" => n \in shut \/ (status = "live" /\ n = used)

Joins ==
  /\ \A n \in Sessions : JoinStages(n)
  /\ status = "connecting" =>
       used > 0 /\ job[used] \in {"media", "dial", "join"} \cup Awaiting
  /\ status = "live" =>
       used > 0 /\ job[used] = "joined" /\ cur = used /\ send = used /\ recv = used

\* The transports: those of a session that was left are closed, no others, and
\* what is shared goes over one that has been set up.
Transports ==
  /\ \A n \in shut : job[n] = "joined" /\ ~(status = "live" /\ n = used)
  /\ send # None => job[send] \in {"recv", "mic", "camera", "joined", "failed"}
  /\ recv # None => job[recv] \in {"mic", "camera", "joined", "failed"}
  /\ share.stage # "off" => send # None
  /\ share.stage \in {"producing", "on"} =>
       share.of # None /\ job[share.of] \in {"joined", "failed"}

\* A device whose produce() is awaited on an open socket has been asked for.
Asked ==
  \A n \in Sessions : job[n] \in {"mic", "camera"} /\ sock[n] = "open" =>
    asked[n] # "none" \/ n \in refused \cup swallowed

\* The consume queue: a run that will make a tile is on the present transport,
\* or on that of a failed join, and for a producer that is there.
Settling == work.stage = "consume" /\ work.on \notin shut

QueueRuns ==
  /\ work.stage = "none" => work = Idle /\ queue = <<>>
  /\ work.stage # "none" => work.who \in Peers /\ recv # None
  /\ work.stage = "consume" => work.on # None
  /\ work.on # None => job[work.on] \in {"mic", "camera", "joined", "failed"}
  /\ work.on = cur /\ cur # None => recv = cur
  /\ Settling => /\ work.on = recv \/ job[work.on] = "failed"
                 /\ work.who \in Sharing \cup unheard

\* So are the tiles.
Tiles ==
  \A p \in Shown :
    /\ p \in Sharing \cup unheard
    /\ tiles[p] \notin shut
    /\ tiles[p] = recv \/ job[tiles[p]] = "failed"

Queued  == {queue[i] : i \in DOMAIN queue}
Waiting == Queued \cup (IF work.stage = "request" \/ Settling THEN {work.who} ELSE {})
Listed  == IF job[cur] \in Awaiting THEN snap[cur] ELSE {}

\* While the server reaches a call, everything shared is shown, waiting, listed
\* or known to be missed.
Known ==
  Admitted /\ status # "idle" => Sharing \subseteq Shown \cup missed \cup Waiting \cup Listed

InductiveInv == TypeOK /\ Joins /\ Transports /\ Asked /\ QueueRuns /\ Tiles /\ Known
=============================================================================
