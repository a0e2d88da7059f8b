----------------------------- MODULE MediaDemand -----------------------------
(***************************************************************************)
(* The media side of one meeting room while its record is in the map:      *)
(* transports, producers, consumers, what each peer has been told of the   *)
(* others' producers, and the number of watchers each publisher was last   *)
(* told (server.js: meet-create-transport, meet-produce,                   *)
(* meet-close-producer, meet-consume, notifyDemand; meetRooms.js:          *)
(* removePeer, closeMeetRoom).                                             *)
(*                                                                         *)
(* createWebRtcTransport, produce and consume await the mediasoup worker:  *)
(* each is a start and a finish, and the peer may be removed in between.   *)
(* The worker handles requests in order, so a request sent before the      *)
(* transport was closed may well succeed: finish is possible whether or    *)
(* not the peer is still there.  RoomLifecycle says who is in the room;    *)
(* here a peer joins and departs once, and the room ends with the last     *)
(* departure or with DELETE, as in RoomRecord.  One router is assumed      *)
(* (RoomLifecycle shows when there are two).                               *)
(***************************************************************************)
EXTENDS Integers, FiniteSets

CONSTANTS
  Peers, Producers, Consumers,
  NoPeer, NoProducer,
  EntireScreen    \* room.requireEntireScreen

ASSUME PeersAssumption     == NoPeer \notin Peers /\ IsFiniteSet(Consumers)
ASSUME ProducersAssumption == NoProducer \notin Producers
ASSUME PolicyAssumption    == EntireScreen \in BOOLEAN

\* What a producer carries: msg.source and msg.displaySurface.
Media == {"camera", "window", "monitor"}

Directions == {"send", "recv"}

\* peer.demand has no entry for the producer.
Undefined == -1

VARIABLES
  open,        \* the record is in meetRooms
  present,     \* room.peers
  gone,        \* peers removed from the room
  publishers,  \* peers with canPublish
  making,      \* transports being created, <<peer, direction>>
  transports,  \* peer.transports
  prod,        \* "free", "creating", "live", "late" (of a removed peer), "closed"
  owner,       \* the peer that produces it
  media,       \* appData of the producer
  cons,        \* "free", "asking", "open", "closed"
  by, of,      \* the consuming peer and the consumed producer
  demand,      \* the owner's peer.demand entry: the last count it was sent
  known        \* the producers each peer has been told of and not told closed

room == <<open, present, gone, publishers>>
wires == <<making, transports>>
tracks == <<prod, owner, media>>
feeds == <<cons, by, of>>
vars == <<room, wires, tracks, feeds, demand, known>>

ProdStates == {"free", "creating", "live", "late", "closed"}
ConsStates == {"free", "asking", "open", "closed"}

TypeOK ==
  /\ open \in BOOLEAN
  /\ present \subseteq Peers /\ gone \subseteq Peers /\ publishers \subseteq Peers
  /\ making \subseteq Peers \X Directions
  /\ transports \subseteq Peers \X Directions
  /\ prod \in [Producers -> ProdStates]
  /\ owner \in [Producers -> Peers \cup {NoPeer}]
  /\ media \in [Producers -> Media]
  /\ cons \in [Consumers -> ConsStates]
  /\ by \in [Consumers -> Peers \cup {NoPeer}]
  /\ of \in [Consumers -> Producers \cup {NoProducer}]
  /\ demand \in [Producers -> Nat \cup {Undefined}]
  /\ known \in [Peers -> SUBSET Producers]

Init ==
  /\ open = TRUE
  /\ present = {} /\ gone = {} /\ publishers = {}
  /\ making = {} /\ transports = {}
  /\ prod = [x \in Producers |-> "free"]
  /\ owner = [x \in Producers |-> NoPeer]
  /\ media = [x \in Producers |-> "camera"]
  /\ cons = [c \in Consumers |-> "free"]
  /\ by = [c \in Consumers |-> NoPeer]
  /\ of = [c \in Consumers |-> NoProducer]
  /\ demand = [x \in Producers |-> Undefined]
  /\ known = [p \in Peers |-> {}]

(***************************************************************************)
(* notifyDemand                                                            *)
(***************************************************************************)
\* peer.producers of the peers in room.peers.
LiveIn(peers, state) == {x \in Producers : state[x] = "live" /\ owner[x] \in peers}

\* Open consumers of x held by the other peers of the room.
Watchers(x, peers, state) ==
  Cardinality({c \in Consumers : /\ state[c] = "open" /\ of[c] = x
                                 /\ by[c] \in peers \ {owner[x]}})

\* The counts after a notifyDemand that sees these peers, producers, consumers.
Notified(peers, ps, cs) ==
  [x \in Producers |->
     IF x \in LiveIn(peers, ps) THEN Watchers(x, peers, cs) ELSE demand[x]]

(***************************************************************************)
(* Peers come and go.                                                      *)
(***************************************************************************)
\* existingProducers in meet-joined.
Snapshot == LiveIn(present, prod)

Join(p, canPublish) ==
  /\ open /\ p \notin present \cup gone
  /\ present' = present \cup {p}
  /\ publishers' = IF canPublish THEN publishers \cup {p} ELSE publishers
  /\ known' = [known EXCEPT ![p] = Snapshot]
  /\ UNCHANGED <<open, gone, wires, tracks, feeds, demand>>

\* The producers and consumers of a peer whose transports are closed.
ProdWithout(p) ==
  [x \in Producers |-> IF prod[x] = "live" /\ owner[x] = p THEN "closed" ELSE prod[x]]

\* removePeer closes the peer's own; the worker closes those others hold on its
\* producers and says so a moment later, before anything reads their state: a
\* closed producer is not in peer.producers, which is where counting starts.

\* As if only the consumers of the peer itself were closed.
ConsWithout_Own(p) ==
  [c \in Consumers |-> IF cons[c] = "open" /\ by[c] = p THEN "closed" ELSE cons[c]]

ConsWithout(p) ==
  [c \in Consumers |->
     IF cons[c] = "open" /\ (by[c] = p \/ (of[c] \in Producers /\ owner[of[c]] = p))
     THEN "closed" ELSE cons[c]]

\* removePeer, meet-peer-left to the rest (clients then forget its producers)
\* and notifyDemand; the last one out takes the room with it.
Depart(p) ==
  /\ p \in present
  /\ present' = present \ {p}
  /\ gone' = gone \cup {p}
  /\ open' = (open /\ present # {p})
  /\ prod' = ProdWithout(p)
  /\ cons' = ConsWithout(p)
  /\ transports' = {t \in transports : t[1] # p}
  /\ demand' = Notified(present \ {p}, prod', cons')
  /\ known' = [q \in Peers |-> IF q \in present \ {p}
                               THEN {x \in known[q] : owner[x] # p} ELSE known[q]]
  /\ UNCHANGED <<publishers, making, owner, media, by, of>>

\* closeMeetRoom: everything is closed, nobody is told.
DeleteRoom ==
  /\ open
  /\ open' = FALSE
  /\ present' = {}
  /\ gone' = gone \cup present
  /\ prod' = [x \in Producers |-> IF prod[x] = "live" THEN "closed" ELSE prod[x]]
  /\ cons' = [c \in Consumers |-> IF cons[c] = "open" THEN "closed" ELSE cons[c]]
  /\ transports' = {t \in transports : t[1] \notin present}
  /\ UNCHANGED <<publishers, making, owner, media, by, of, demand, known>>

(***************************************************************************)
(* Transports                                                              *)
(***************************************************************************)
\* Handlers look the room up in the map: currentMeetPeer.
InRoom(p) == open /\ p \in present

CreateTransport(p, d) ==
  /\ InRoom(p) /\ <<p, d>> \notin making \cup transports
  /\ making' = making \cup {<<p, d>>}
  /\ UNCHANGED <<room, transports, tracks, feeds, demand, known>>

\* The peer object keeps it, also when the peer is no longer in the room.
TransportCreated(p, d) ==
  /\ <<p, d>> \in making
  /\ making' = making \ {<<p, d>>}
  /\ transports' = transports \cup {<<p, d>>}
  /\ UNCHANGED <<room, tracks, feeds, demand, known>>

(***************************************************************************)
(* Producers                                                               *)
(***************************************************************************)
\* As if the policy looked at the source alone.
Allowed_AnyScreen(p, m) == p \in publishers

\* canPublish, then the entire-screen policy, both before anything is created.
Allowed(p, m) == p \in publishers /\ (m = "window" => ~EntireScreen)

Produce(p, x, m) ==
  /\ InRoom(p) /\ Allowed(p, m) /\ <<p, "send">> \in transports
  /\ prod[x] = "free"
  /\ prod' = [prod EXCEPT ![x] = "creating"]
  /\ owner' = [owner EXCEPT ![x] = p]
  /\ media' = [media EXCEPT ![x] = m]
  /\ UNCHANGED <<room, wires, feeds, demand, known>>

\* As if only peers that can receive yet were told.
KnownAfterProduce_Ready(x, q) ==
  IF q \in present \ {owner[x]} /\ <<q, "recv">> \in transports
  THEN known[q] \cup {x} ELSE known[q]

\* As if meet-new-producer carried the peer id where the producer id belongs.
KnownAfterProduce_PeerId(x, q) ==
  IF q \in present \ {owner[x]} THEN known[q] \cup {owner[x]} ELSE known[q]

\* meet-new-producer to everyone else in the room.
KnownAfterProduce(x, q) ==
  IF q \in present \ {owner[x]} THEN known[q] \cup {x} ELSE known[q]

Produced(x) ==
  /\ prod[x] = "creating"
  /\ prod' = [prod EXCEPT ![x] = IF owner[x] \in present THEN "live" ELSE "late"]
  /\ demand' = Notified(present, prod', cons)
  /\ known' = [q \in Peers |-> KnownAfterProduce(x, q)]
  /\ UNCHANGED <<room, wires, owner, media, feeds>>

ProduceFailed(x) ==
  /\ prod[x] = "creating"
  /\ prod' = [prod EXCEPT ![x] = "closed"]
  /\ UNCHANGED <<room, wires, owner, media, feeds, demand, known>>

\* meet-close-producer; its consumers close with it.
CloseProducer(p, x) ==
  /\ InRoom(p) /\ prod[x] = "live" /\ owner[x] = p
  /\ prod' = [prod EXCEPT ![x] = "closed"]
  /\ cons' = [c \in Consumers |-> IF of[c] = x /\ cons[c] = "open" THEN "closed" ELSE cons[c]]
  /\ known' = [q \in Peers |-> IF q \in present \ {p} THEN known[q] \ {x} ELSE known[q]]
  /\ UNCHANGED <<room, wires, owner, media, by, of, demand>>

(***************************************************************************)
(* Consumers                                                               *)
(***************************************************************************)
\* router.canConsume: the router has a producer of that id.
CanConsume(x) == prod[x] \in {"live", "late"}

Consume(q, x, c) ==
  /\ InRoom(q) /\ x \in known[q] /\ CanConsume(x) /\ <<q, "recv">> \in transports
  /\ cons[c] = "free"
  /\ cons' = [cons EXCEPT ![c] = "asking"]
  /\ by' = [by EXCEPT ![c] = q]
  /\ of' = [of EXCEPT ![c] = x]
  /\ UNCHANGED <<room, wires, tracks, demand, known>>

\* As if meet-consume left the count to the next join or leave.
DemandAfterConsume_Skipped(state) == demand

DemandAfterConsume(state) == Notified(present, prod, state)

\* The consumer is open if its producer and its peer are still there.
Consumed(c) ==
  /\ cons[c] = "asking"
  /\ cons' = [cons EXCEPT ![c] =
                IF by[c] \in present /\ prod[of[c]] = "live" THEN "open" ELSE "closed"]
  /\ demand' = DemandAfterConsume(cons')
  /\ UNCHANGED <<room, wires, tracks, by, of, known>>

ConsumeFailed(c) ==
  /\ cons[c] = "asking"
  /\ cons' = [cons EXCEPT ![c] = "closed"]
  /\ UNCHANGED <<room, wires, tracks, by, of, demand, known>>

-----------------------------------------------------------------------------
PeerStep(p) ==
  \/ \E b \in BOOLEAN : Join(p, b)
  \/ Depart(p)
  \/ \E d \in Directions : CreateTransport(p, d) \/ TransportCreated(p, d)

TrackStep(x) ==
  \/ \E p \in Peers : CloseProducer(p, x) \/ \E m \in Media : Produce(p, x, m)
  \/ Produced(x) \/ ProduceFailed(x)

FeedStep(c) ==
  \/ \E q \in Peers, x \in Producers : Consume(q, x, c)
  \/ Consumed(c) \/ ConsumeFailed(c)

Next ==
  \/ \E p \in Peers : PeerStep(p)
  \/ \E x \in Producers : TrackStep(x)
  \/ \E c \in Consumers : FeedStep(c)
  \/ DeleteRoom

Spec == Init /\ [][Next]_vars

-----------------------------------------------------------------------------
\* Each publisher in the room was last told exactly how many consumers the
\* others hold on its track, however produce, consume, close and departures
\* overlapped: nobody watches a paused track, nobody encodes for no one
\* (server.js:768-803).
DemandAccurate ==
  \A x \in Producers :
    prod[x] = "live" =>
      demand[x] = Cardinality({c \in Consumers : cons[c] = "open" /\ of[c] = x})

\* Each peer knows the live producers of the others and, of the peers that
\* are in the room, nothing else: a track that was being created while someone
\* joined or left is neither missed nor left behind (server.js:354-376,
\* 490-502, 594-601).
ProducersAgree ==
  \A q \in present :
    {x \in known[q] : owner[x] \in present} = LiveIn(present \ {q}, prod)

\* What a room carries respects the token and the room's policy, whatever
\* happened between the check and the worker's answer (server.js:435-455).
PolicyHeld ==
  \A x \in LiveIn(present, prod) :
    owner[x] \in publishers /\ (EntireScreen => media[x] # "window")

\* Nothing a departed peer owned or watched is still counted or carried: its
\* live producers and its open consumers went with it, and so did the consumers
\* others held on its producers (meetRooms.js:91-97).
DepartedLeaveNothing ==
  /\ \A x \in Producers : prod[x] = "live" => owner[x] \in present
  /\ \A c \in Consumers : cons[c] = "open" => by[c] \in present /\ prod[of[c]] = "live"

(***************************************************************************)
(* The membership of the room is that of a record of the server, as        *)
(* RoomRecord describes it and RoomLifecycle implements it.                *)
(***************************************************************************)
Record == INSTANCE RoomRecord WITH life <- IF open THEN "open" ELSE "over",
                                   seen <- present \cup gone

\* Peers come and go as in RoomRecord (meetRooms.js:91-122).
ImplementsRecord == Record!Spec

(***************************************************************************)
(* What keeps them true: the inductive invariant.                          *)
(***************************************************************************)
\* A peer is in the room or out of it for good, and an empty map has nobody.
Membership ==
  /\ present \cap gone = {}
  /\ ~open => present = {}

\* A track that was started has an owner that has joined; it is live only
\* while that owner is in the room, and late only when it is not.
TracksOwned ==
  \A x \in Producers :
    /\ prod[x] # "free" => owner[x] \in present \cup gone
    /\ prod[x] = "live" => owner[x] \in present
    /\ prod[x] = "late" => owner[x] \in gone

\* The policy was looked at before the track was created, and nothing it
\* depends on changes.
PolicyChecked ==
  \A x \in Producers :
    prod[x] \in {"creating", "live"} =>
      owner[x] \in publishers /\ (EntireScreen => media[x] # "window")

\* What a peer is told of is a finished track of somebody else who has joined.
KnownTracks ==
  \A q \in Peers : \A x \in known[q] :
    prod[x] \notin {"free", "creating"} /\ owner[x] # q

\* A consumer is of a track that was announced to somebody else than its owner.
FeedsOfTracks ==
  \A c \in Consumers :
    cons[c] \in {"asking", "open"} =>
      /\ by[c] \in Peers /\ of[c] \in Producers
      /\ prod[of[c]] \notin {"free", "creating"} /\ owner[of[c]] # by[c]

InductiveInv ==
  /\ TypeOK
  /\ Membership /\ TracksOwned /\ PolicyChecked /\ KnownTracks /\ FeedsOfTracks
  /\ DemandAccurate /\ ProducersAgree /\ DepartedLeaveNothing
=============================================================================
