--------------------------- MODULE MediaDemandProofs ---------------------------
(***************************************************************************)
(* The safety properties of MediaDemand, for any peers, tracks and         *)
(* consumers.                                                              *)
(*                                                                         *)
(* InductiveInv is shown to hold initially and to be kept by every action, *)
(* one lemma per action and one step per conjunct the action can disturb.  *)
(* The counts rest on one fact, NotifiedCounts: a notifyDemand that sees   *)
(* the room as it is tells each publisher the number of open consumers of  *)
(* its track, because an open consumer is always somebody else's who is in *)
(* the room.                                                               *)
(***************************************************************************)
EXTENDS MediaDemand, FiniteSetTheorems, TLAPS

\* The open consumers of a track, which notifyDemand counts.
OpenOf(x, cs) == {c \in Consumers : cs[c] = "open" /\ of[c] = x}

LEMMA CountsAreNaturals ==
  ASSUME NEW S, S \subseteq Consumers
  PROVE  Cardinality(S) \in Nat
  BY PeersAssumption, FS_Subset, FS_CardinalityType

\* A track of a peer in the room is recounted, and the count is that of all its
\* open consumers if each of them is held by another peer in the room.
LEMMA NotifiedCounts ==
  ASSUME NEW peers, NEW ps, NEW cs, NEW x \in Producers,
         ps[x] = "live", owner[x] \in peers,
         \A c \in OpenOf(x, cs) : by[c] \in peers \ {owner[x]}
  PROVE  Notified(peers, ps, cs)[x] = Cardinality(OpenOf(x, cs))
<1>1. x \in LiveIn(peers, ps)
  BY DEF LiveIn
<1>2. {c \in Consumers : /\ cs[c] = "open" /\ of[c] = x
                         /\ by[c] \in peers \ {owner[x]}} = OpenOf(x, cs)
  BY DEF OpenOf
<1>3. QED BY <1>1, <1>2 DEF Notified, Watchers

LEMMA NotifiedTyped ==
  ASSUME TypeOK, NEW peers, NEW ps, NEW cs
  PROVE  Notified(peers, ps, cs) \in [Producers -> Nat \cup {Undefined}]
<1> SUFFICES ASSUME NEW x \in Producers
             PROVE  Notified(peers, ps, cs)[x] \in Nat \cup {Undefined}
  BY DEF Notified
<1>1. Watchers(x, peers, cs) \in Nat
  BY CountsAreNaturals DEF Watchers
<1>2. QED BY <1>1 DEF Notified, TypeOK

LEMMA InitInductive == Init => InductiveInv
<1> SUFFICES ASSUME Init PROVE InductiveInv
  OBVIOUS
<1>1. TypeOK
  BY DEF Init, TypeOK, ProdStates, ConsStates, Media
<1>2. Membership /\ TracksOwned /\ PolicyChecked /\ KnownTracks /\ FeedsOfTracks
  BY DEF Init, Membership, TracksOwned, PolicyChecked, KnownTracks, FeedsOfTracks
<1>3. DemandAccurate /\ ProducersAgree /\ DepartedLeaveNothing
  BY DEF Init, DemandAccurate, ProducersAgree, DepartedLeaveNothing
<1>4. QED BY <1>1, <1>2, <1>3 DEF InductiveInv

(***************************************************************************)
(* Peers come and go.                                                      *)
(***************************************************************************)
LEMMA JoinKeeps ==
  ASSUME InductiveInv, NEW p \in Peers, NEW b \in BOOLEAN, Join(p, b)
  PROVE  InductiveInv'
<1> USE DEF InductiveInv
<1>1. TypeOK'
  BY DEF TypeOK, Join, Snapshot, LiveIn, wires, tracks, feeds
<1>2. Membership'
  BY DEF Membership, Join
<1>3. (TracksOwned /\ PolicyChecked /\ FeedsOfTracks)'
  BY DEF TracksOwned, PolicyChecked, FeedsOfTracks, Join, tracks, feeds
<1>4. KnownTracks'
  BY DEF KnownTracks, TypeOK, Join, Snapshot, LiveIn, tracks
<1>5. (DemandAccurate /\ DepartedLeaveNothing)'
  BY DEF DemandAccurate, DepartedLeaveNothing, Join, tracks, feeds
<1>6. ProducersAgree'
  <2> SUFFICES ASSUME NEW q \in present'
               PROVE  {x \in known'[q] : owner[x] \in present'} =
                        LiveIn(present' \ {q}, prod)
    BY DEF ProducersAgree, LiveIn, Join, tracks
  <2>1. CASE q = p
    BY <2>1 DEF Join, Snapshot, LiveIn, TypeOK
  <2>2. CASE q # p
    <3>1. q \in present /\ known'[q] = known[q]
      BY <2>2 DEF Join, TypeOK
    <3>2. {x \in known[q] : owner[x] \in present} = LiveIn(present \ {q}, prod)
      BY <3>1 DEF ProducersAgree
    <3>3. \A x \in known[q] : x \in Producers /\ owner[x] # p
      BY <3>1 DEF KnownTracks, TracksOwned, TypeOK, Join
    <3>4. \A x \in Producers : prod[x] = "live" => owner[x] # p
      BY DEF TracksOwned, Join
    <3>5. QED BY <3>1, <3>2, <3>3, <3>4 DEF LiveIn, Join
  <2>3. QED BY <2>1, <2>2
<1>7. QED BY <1>1, <1>2, <1>3, <1>4, <1>5, <1>6

LEMMA DepartKeeps ==
  ASSUME InductiveInv, NEW p \in Peers, Depart(p)
  PROVE  InductiveInv'
<1> USE DEF InductiveInv
<1>1. TypeOK'
  <2>1. demand' \in [Producers -> Nat \cup {Undefined}]
    BY NotifiedTyped DEF Depart
  <2>2. prod' \in [Producers -> ProdStates] /\ cons' \in [Consumers -> ConsStates]
    BY DEF TypeOK, Depart, ProdWithout, ConsWithout, ProdStates, ConsStates
  <2>3. known' \in [Peers -> SUBSET Producers]
    BY DEF TypeOK, Depart
  <2>4. QED BY <2>1, <2>2, <2>3 DEF TypeOK, Depart
<1>2. Membership'
  BY DEF Membership, Depart
<1>3. TracksOwned'
  BY DEF TracksOwned, TypeOK, Depart, ProdWithout
<1>4. PolicyChecked'
  BY DEF PolicyChecked, TypeOK, Depart, ProdWithout
<1>5. KnownTracks'
  BY DEF KnownTracks, TypeOK, Depart, ProdWithout
<1>6. FeedsOfTracks'
  BY DEF FeedsOfTracks, TypeOK, Depart, ProdWithout, ConsWithout
<1>7. DepartedLeaveNothing'
  BY DEF DepartedLeaveNothing, FeedsOfTracks, TypeOK, Depart, ProdWithout, ConsWithout
<1>8. DemandAccurate'
  <2> SUFFICES ASSUME NEW x \in Producers, prod'[x] = "live"
               PROVE  demand'[x] = Cardinality(OpenOf(x, cons'))
    BY DEF DemandAccurate, OpenOf, Depart
  <2>1. owner[x] \in present \ {p}
    BY <1>7 DEF DepartedLeaveNothing, Depart
  <2>2. \A c \in OpenOf(x, cons') : by[c] \in (present \ {p}) \ {owner[x]}
    BY <1>6, <1>7 DEF DepartedLeaveNothing, FeedsOfTracks, OpenOf, Depart
  <2>3. QED BY <2>1, <2>2, NotifiedCounts DEF Depart
<1>9. ProducersAgree'
  <2> SUFFICES ASSUME NEW q \in present \ {p}
               PROVE  {x \in known'[q] : owner[x] \in present \ {p}} =
                        LiveIn((present \ {p}) \ {q}, prod')
    BY DEF ProducersAgree, LiveIn, Depart
  <2>1. known'[q] = {x \in known[q] : owner[x] # p}
    BY DEF Depart, TypeOK
  <2>2. {x \in known[q] : owner[x] \in present} = LiveIn(present \ {q}, prod)
    BY DEF ProducersAgree
  <2>3. LiveIn((present \ {p}) \ {q}, prod') =
          {x \in LiveIn(present \ {q}, prod) : owner[x] # p}
    BY DEF LiveIn, Depart, ProdWithout
  <2>4. QED BY <2>1, <2>2, <2>3
<1>10. QED BY <1>1, <1>2, <1>3, <1>4, <1>5, <1>6, <1>7, <1>8, <1>9

LEMMA DeleteRoomKeeps ==
  ASSUME InductiveInv, DeleteRoom
  PROVE  InductiveInv'
<1> USE DEF InductiveInv
<1>1. TypeOK'
  BY DEF TypeOK, DeleteRoom, ProdStates, ConsStates
<1>2. (Membership /\ ProducersAgree)'
  BY DEF Membership, ProducersAgree, DeleteRoom
<1>3. \A x \in Producers : prod'[x] # "live"
  BY DEF DeleteRoom
<1>4. \A c \in Consumers : cons'[c] # "open"
  BY DEF DeleteRoom
<1>5. (TracksOwned /\ PolicyChecked)'
  BY <1>3 DEF TracksOwned, PolicyChecked, DeleteRoom
<1>6. (KnownTracks /\ FeedsOfTracks)'
  BY <1>4 DEF KnownTracks, FeedsOfTracks, TypeOK, DeleteRoom
<1>7. (DemandAccurate /\ DepartedLeaveNothing)'
  BY <1>3, <1>4 DEF DemandAccurate, DepartedLeaveNothing
<1>8. QED BY <1>1, <1>2, <1>5, <1>6, <1>7

(***************************************************************************)
(* Transports                                                              *)
(***************************************************************************)
\* Only the type invariant mentions them.
LEMMA TransportsKeep ==
  ASSUME InductiveInv, NEW p \in Peers, NEW d \in Directions,
         CreateTransport(p, d) \/ TransportCreated(p, d)
  PROVE  InductiveInv'
<1> USE DEF InductiveInv, CreateTransport, TransportCreated
<1>1. TypeOK'
  BY DEF TypeOK, room, tracks, feeds
<1>2. (Membership /\ TracksOwned /\ PolicyChecked /\ KnownTracks /\ FeedsOfTracks)'
  BY DEF Membership, TracksOwned, PolicyChecked, KnownTracks, FeedsOfTracks,
         room, tracks, feeds
<1>3. (DemandAccurate /\ ProducersAgree /\ DepartedLeaveNothing)'
  BY DEF DemandAccurate, ProducersAgree, DepartedLeaveNothing, LiveIn,
         room, tracks, feeds
<1>4. QED BY <1>1, <1>2, <1>3

(***************************************************************************)
(* Producers                                                               *)
(***************************************************************************)
LEMMA ProduceKeeps ==
  ASSUME InductiveInv, NEW p \in Peers, NEW x \in Producers, NEW m \in Media,
         Produce(p, x, m)
  PROVE  InductiveInv'
<1> USE DEF InductiveInv
<1>1. TypeOK'
  BY DEF TypeOK, Produce, ProdStates, room, wires, feeds
<1>2. Membership'
  BY DEF Membership, Produce, room
<1>3. TracksOwned'
  BY DEF TracksOwned, TypeOK, Produce, InRoom, room
<1>4. PolicyChecked'
  BY DEF PolicyChecked, TypeOK, Produce, Allowed, room
<1>5. KnownTracks'
  BY DEF KnownTracks, TypeOK, Produce
<1>6. FeedsOfTracks'
  BY DEF FeedsOfTracks, TypeOK, Produce, feeds
<1>7. DemandAccurate'
  BY DEF DemandAccurate, TypeOK, Produce, feeds
<1>8. DepartedLeaveNothing'
  BY DEF DepartedLeaveNothing, TypeOK, Produce, room, feeds
<1>9. ProducersAgree'
  <2> SUFFICES ASSUME NEW q \in present
               PROVE  {y \in known[q] : owner'[y] \in present} =
                        LiveIn(present \ {q}, prod)'
    BY DEF ProducersAgree, LiveIn, Produce, room
  <2>1. x \notin known[q]
    BY DEF KnownTracks, TypeOK, Produce
  <2>2. LiveIn(present \ {q}, prod)' = LiveIn(present \ {q}, prod)
    BY DEF LiveIn, TypeOK, Produce, room
  <2>3. {y \in known[q] : owner[y] \in present} = LiveIn(present \ {q}, prod)
    BY DEF ProducersAgree
  <2>4. \A y \in known[q] : owner'[y] = owner[y]
    BY <2>1 DEF TypeOK, Produce
  <2>5. QED BY <2>2, <2>3, <2>4
<1>10. QED BY <1>1, <1>2, <1>3, <1>4, <1>5, <1>6, <1>7, <1>8, <1>9

\* The worker answers: the track is the peer's if the peer is still there.
LEMMA ProducedKeeps ==
  ASSUME InductiveInv, NEW x \in Producers, Produced(x)
  PROVE  InductiveInv'
<1> USE DEF InductiveInv
<1>1. TypeOK'
  <2>1. demand' \in [Producers -> Nat \cup {Undefined}]
    BY NotifiedTyped DEF Produced
  <2>2. prod' \in [Producers -> ProdStates] /\ known' \in [Peers -> SUBSET Producers]
    BY DEF TypeOK, Produced, ProdStates, KnownAfterProduce
  <2>3. QED BY <2>1, <2>2 DEF TypeOK, Produced, room, wires, feeds
<1>2. Membership'
  BY DEF Membership, Produced, room
<1>3. TracksOwned'
  BY DEF TracksOwned, TypeOK, Produced, room
<1>4. PolicyChecked'
  BY DEF PolicyChecked, TypeOK, Produced, room
<1>5. KnownTracks'
  BY DEF KnownTracks, TypeOK, Produced, KnownAfterProduce
<1>6. FeedsOfTracks'
  BY DEF FeedsOfTracks, TypeOK, Produced, feeds
<1>7. DepartedLeaveNothing'
  BY DEF DepartedLeaveNothing, TypeOK, Produced, room, feeds
<1>8. DemandAccurate'
  <2> SUFFICES ASSUME NEW y \in Producers, prod'[y] = "live"
               PROVE  demand'[y] = Cardinality(OpenOf(y, cons))
    BY DEF DemandAccurate, OpenOf, Produced, feeds
  <2>1. owner[y] \in present
    BY <1>7 DEF DepartedLeaveNothing, Produced, room
  <2>2. \A c \in OpenOf(y, cons) : by[c] \in present \ {owner[y]}
    BY DEF DepartedLeaveNothing, FeedsOfTracks, OpenOf
  <2>3. Notified(present, prod', cons)[y] = Cardinality(OpenOf(y, cons))
    BY <2>1, <2>2, NotifiedCounts
  <2>4. QED BY <2>3 DEF Produced
<1>9. ProducersAgree'
  <2> SUFFICES ASSUME NEW q \in present
               PROVE  {y \in known'[q] : owner[y] \in present} =
                        LiveIn(present \ {q}, prod')
    BY DEF ProducersAgree, LiveIn, Produced, room
  <2>1. {y \in known[q] : owner[y] \in present} = LiveIn(present \ {q}, prod)
    BY DEF ProducersAgree
  <2>2. known'[q] = IF q # owner[x] THEN known[q] \cup {x} ELSE known[q]
    BY DEF Produced, KnownAfterProduce, TypeOK
  <2>3. CASE owner[x] \in present \ {q}
    <3>1. LiveIn(present \ {q}, prod') = LiveIn(present \ {q}, prod) \cup {x}
      BY <2>3 DEF LiveIn, Produced, TypeOK
    <3>2. QED BY <2>1, <2>2, <2>3, <3>1
  <2>4. CASE owner[x] \notin present \ {q}
    <3>1. LiveIn(present \ {q}, prod') = LiveIn(present \ {q}, prod)
      BY <2>4 DEF LiveIn, Produced, TypeOK
    <3>2. QED BY <2>1, <2>2, <2>4, <3>1
  <2>5. QED BY <2>3, <2>4
<1>10. QED BY <1>1, <1>2, <1>3, <1>4, <1>5, <1>6, <1>7, <1>8, <1>9

LEMMA ProduceFailedKeeps ==
  ASSUME InductiveInv, NEW x \in Producers, ProduceFailed(x)
  PROVE  InductiveInv'
<1> USE DEF InductiveInv
<1>1. TypeOK'
  BY DEF TypeOK, ProduceFailed, ProdStates, room, wires, feeds
<1>2. Membership'
  BY DEF Membership, ProduceFailed, room
<1>3. (TracksOwned /\ PolicyChecked)'
  BY DEF TracksOwned, PolicyChecked, TypeOK, ProduceFailed, room
<1>4. (KnownTracks /\ FeedsOfTracks)'
  BY DEF KnownTracks, FeedsOfTracks, TypeOK, ProduceFailed, feeds
<1>5. (DemandAccurate /\ DepartedLeaveNothing)'
  BY DEF DemandAccurate, DepartedLeaveNothing, TypeOK, ProduceFailed, room, feeds
<1>6. ProducersAgree'
  <2>1. \A q \in present : LiveIn(present \ {q}, prod)' = LiveIn(present \ {q}, prod)
    BY DEF LiveIn, TypeOK, ProduceFailed, room
  <2>2. QED BY <2>1 DEF ProducersAgree, ProduceFailed, room
<1>7. QED BY <1>1, <1>2, <1>3, <1>4, <1>5, <1>6

LEMMA CloseProducerKeeps ==
  ASSUME InductiveInv, NEW p \in Peers, NEW x \in Producers, CloseProducer(p, x)
  PROVE  InductiveInv'
<1> USE DEF InductiveInv
<1>1. TypeOK'
  BY DEF TypeOK, CloseProducer, ProdStates, ConsStates, room, wires
<1>2. Membership'
  BY DEF Membership, CloseProducer, room
<1>3. (TracksOwned /\ PolicyChecked)'
  BY DEF TracksOwned, PolicyChecked, TypeOK, CloseProducer, room
<1>4. KnownTracks'
  BY DEF KnownTracks, TypeOK, CloseProducer
<1>5. FeedsOfTracks'
  BY DEF FeedsOfTracks, TypeOK, CloseProducer
<1>6. DepartedLeaveNothing'
  BY DEF DepartedLeaveNothing, FeedsOfTracks, TypeOK, CloseProducer, room
<1>7. DemandAccurate'
  <2> SUFFICES ASSUME NEW y \in Producers, prod'[y] = "live"
               PROVE  demand[y] = Cardinality(OpenOf(y, cons'))
    BY DEF DemandAccurate, OpenOf, CloseProducer
  <2>1. y # x /\ prod[y] = "live"
    BY DEF TypeOK, CloseProducer
  <2>2. OpenOf(y, cons') = OpenOf(y, cons)
    BY <2>1 DEF OpenOf, CloseProducer
  <2>3. QED BY <2>1, <2>2 DEF DemandAccurate, OpenOf
<1>8. ProducersAgree'
  <2> SUFFICES ASSUME NEW q \in present
               PROVE  {y \in known'[q] : owner[y] \in present} =
                        LiveIn(present \ {q}, prod')
    BY DEF ProducersAgree, LiveIn, CloseProducer, room
  <2>1. {y \in known[q] : owner[y] \in present} = LiveIn(present \ {q}, prod)
    BY DEF ProducersAgree
  <2>2. LiveIn(present \ {q}, prod') = LiveIn(present \ {q}, prod) \ {x}
    BY DEF LiveIn, TypeOK, CloseProducer
  <2>3. known'[q] = IF q = p THEN known[q] ELSE known[q] \ {x}
    BY DEF CloseProducer, TypeOK
  <2>4. q = p => x \notin known[q]
    BY DEF KnownTracks, TypeOK, CloseProducer
  <2>5. QED BY <2>1, <2>2, <2>3, <2>4
<1>9. QED BY <1>1, <1>2, <1>3, <1>4, <1>5, <1>6, <1>7, <1>8

(***************************************************************************)
(* Consumers                                                               *)
(***************************************************************************)
LEMMA ConsumeKeeps ==
  ASSUME InductiveInv, NEW q \in Peers, NEW x \in Producers, NEW c \in Consumers,
         Consume(q, x, c)
  PROVE  InductiveInv'
<1> USE DEF InductiveInv
<1>1. TypeOK'
  BY DEF TypeOK, Consume, ConsStates, room, wires, tracks
<1>2. (Membership /\ TracksOwned /\ PolicyChecked /\ KnownTracks)'
  BY DEF Membership, TracksOwned, PolicyChecked, KnownTracks, Consume, room, tracks
<1>3. FeedsOfTracks'
  BY DEF FeedsOfTracks, KnownTracks, TypeOK, Consume, tracks
<1>4. DepartedLeaveNothing'
  BY DEF DepartedLeaveNothing, TypeOK, Consume, room, tracks
<1>5. DemandAccurate'
  <2>1. \A y \in Producers : OpenOf(y, cons)' = OpenOf(y, cons)
    BY DEF OpenOf, TypeOK, Consume
  <2>2. QED BY <2>1 DEF DemandAccurate, OpenOf, Consume, tracks
<1>6. ProducersAgree'
  BY DEF ProducersAgree, LiveIn, Consume, room, tracks
<1>7. QED BY <1>1, <1>2, <1>3, <1>4, <1>5, <1>6

\* The worker answers: the consumer is open if its peer and its track are still
\* there, and then it is counted at once.
LEMMA ConsumedKeeps ==
  ASSUME InductiveInv, NEW c \in Consumers, Consumed(c)
  PROVE  InductiveInv'
<1> USE DEF InductiveInv
<1>1. TypeOK'
  <2>1. demand' \in [Producers -> Nat \cup {Undefined}]
    BY NotifiedTyped DEF Consumed, DemandAfterConsume
  <2>2. QED BY <2>1 DEF TypeOK, Consumed, ConsStates, room, wires, tracks
<1>2. (Membership /\ TracksOwned /\ PolicyChecked /\ KnownTracks)'
  BY DEF Membership, TracksOwned, PolicyChecked, KnownTracks, Consumed, room, tracks
<1>3. FeedsOfTracks'
  BY DEF FeedsOfTracks, TypeOK, Consumed, tracks
<1>4. DepartedLeaveNothing'
  BY DEF DepartedLeaveNothing, TypeOK, Consumed, room, tracks
<1>5. DemandAccurate'
  <2> SUFFICES ASSUME NEW y \in Producers, prod[y] = "live"
               PROVE  demand'[y] = Cardinality(OpenOf(y, cons'))
    BY DEF DemandAccurate, OpenOf, Consumed, tracks
  <2>1. owner[y] \in present
    BY DEF DepartedLeaveNothing
  <2>2. \A d \in OpenOf(y, cons') : by[d] \in present \ {owner[y]}
    BY <1>3, <1>4 DEF DepartedLeaveNothing, FeedsOfTracks, OpenOf, Consumed, room, tracks
  <2>3. Notified(present, prod, cons')[y] = Cardinality(OpenOf(y, cons'))
    BY <2>1, <2>2, NotifiedCounts
  <2>4. QED BY <2>3 DEF Consumed, DemandAfterConsume
<1>6. ProducersAgree'
  BY DEF ProducersAgree, LiveIn, Consumed, room, tracks
<1>7. QED BY <1>1, <1>2, <1>3, <1>4, <1>5, <1>6

LEMMA ConsumeFailedKeeps ==
  ASSUME InductiveInv, NEW c \in Consumers, ConsumeFailed(c)
  PROVE  InductiveInv'
<1> USE DEF InductiveInv
<1>1. TypeOK'
  BY DEF TypeOK, ConsumeFailed, ConsStates, room, wires, tracks
<1>2. (Membership /\ TracksOwned /\ PolicyChecked /\ KnownTracks)'
  BY DEF Membership, TracksOwned, PolicyChecked, KnownTracks, ConsumeFailed, room, tracks
<1>3. (FeedsOfTracks /\ DepartedLeaveNothing)'
  BY DEF FeedsOfTracks, DepartedLeaveNothing, TypeOK, ConsumeFailed, room, tracks
<1>4. DemandAccurate'
  <2>1. \A y \in Producers : OpenOf(y, cons)' = OpenOf(y, cons)
    BY DEF OpenOf, TypeOK, ConsumeFailed
  <2>2. QED BY <2>1 DEF DemandAccurate, OpenOf, ConsumeFailed, tracks
<1>5. ProducersAgree'
  BY DEF ProducersAgree, LiveIn, ConsumeFailed, room, tracks
<1>6. QED BY <1>1, <1>2, <1>3, <1>4, <1>5

(***************************************************************************)
(* The theorems.                                                           *)
(***************************************************************************)
LEMMA StutterKeeps == InductiveInv /\ UNCHANGED vars => InductiveInv'
  BY DEF InductiveInv, TypeOK, Membership, TracksOwned, PolicyChecked,
         KnownTracks, FeedsOfTracks, DemandAccurate, ProducersAgree,
         DepartedLeaveNothing, LiveIn, vars, room, wires, tracks, feeds

LEMMA NextKeeps == InductiveInv /\ [Next]_vars => InductiveInv'
<1> SUFFICES ASSUME InductiveInv, [Next]_vars PROVE InductiveInv'
  OBVIOUS
<1>1. ASSUME NEW p \in Peers, PeerStep(p) PROVE InductiveInv'
  BY <1>1, JoinKeeps, DepartKeeps, TransportsKeep DEF PeerStep
<1>2. ASSUME NEW x \in Producers, TrackStep(x) PROVE InductiveInv'
  BY <1>2, CloseProducerKeeps, ProduceKeeps, ProducedKeeps, ProduceFailedKeeps
  DEF TrackStep
<1>3. ASSUME NEW c \in Consumers, FeedStep(c) PROVE InductiveInv'
  BY <1>3, ConsumeKeeps, ConsumedKeeps, ConsumeFailedKeeps DEF FeedStep
<1>4. QED
  BY <1>1, <1>2, <1>3, DeleteRoomKeeps, StutterKeeps DEF Next

\* The inductive invariant holds however joins, departures, tracks and
\* consumers of a room overlap in the worker (server.js:298-640).
THEOREM MediaInductive == Spec => []InductiveInv
  BY InitInductive, NextKeeps, PTL DEF Spec

\* Every reachable state is of the declared type; a count that was sent is a
\* number (server.js:768-803).
THEOREM MediaTypeCorrect == Spec => []TypeOK
<1>1. InductiveInv => TypeOK
  BY DEF InductiveInv
<1>2. QED BY <1>1, MediaInductive, PTL

\* Each publisher in the room was last told exactly how many consumers its
\* track has, for any number of participants, so an encoder is paused exactly
\* when nobody watches (server.js:768-803).
THEOREM DemandIsAccurate == Spec => []DemandAccurate
<1>1. InductiveInv => DemandAccurate
  BY DEF InductiveInv
<1>2. QED BY <1>1, MediaInductive, PTL

\* Everyone in the room knows exactly the live tracks of the others, although
\* tracks are made while peers come and go (server.js:354-376, 490-502).
THEOREM EveryoneKnowsTheTracks == Spec => []ProducersAgree
<1>1. InductiveInv => ProducersAgree
  BY DEF InductiveInv
<1>2. QED BY <1>1, MediaInductive, PTL

\* What a room carries was allowed by its publisher's token and by the room's
\* policy, although both are looked at before the worker is asked
\* (server.js:435-455).
THEOREM PolicyIsHeld == Spec => []PolicyHeld
<1>1. InductiveInv => PolicyHeld
  BY DEF InductiveInv, PolicyChecked, PolicyHeld, LiveIn
<1>2. QED BY <1>1, MediaInductive, PTL

\* A departed peer leaves no live track and no open consumer behind, its own or
\* of its tracks (meetRooms.js:91-97).
THEOREM DepartedPeersLeaveNothing == Spec => []DepartedLeaveNothing
<1>1. InductiveInv => DepartedLeaveNothing
  BY DEF InductiveInv
<1>2. QED BY <1>1, MediaInductive, PTL

(***************************************************************************)
(* The membership of the room: a step of MediaDemand is a step of          *)
(* RoomRecord or leaves the record alone.                                  *)
(***************************************************************************)
LEMMA RoomUnchanged == UNCHANGED room => UNCHANGED Record!vars
  BY DEF room, Record!vars

LEMMA PeerStepIsRecordStep ==
  ASSUME NEW p \in Peers, PeerStep(p)
  PROVE  Record!Next \/ UNCHANGED Record!vars
<1>1. CASE \E b \in BOOLEAN : Join(p, b)
  <2>1. Record!Join(p)
    BY <1>1 DEF Join, Record!Join
  <2>2. QED BY <2>1 DEF Record!Next
<1>2. CASE Depart(p)
  <2>1. Record!Depart(p)
    BY <1>2 DEF Depart, Record!Depart
  <2>2. QED BY <2>1 DEF Record!Next
<1>3. CASE \E d \in Directions : CreateTransport(p, d) \/ TransportCreated(p, d)
  BY <1>3, RoomUnchanged DEF CreateTransport, TransportCreated
<1>4. QED BY <1>1, <1>2, <1>3 DEF PeerStep

LEMMA StepIsRecordStep ==
  ASSUME [Next]_vars
  PROVE  [Record!Next]_Record!vars
<1>1. CASE \E p \in Peers : PeerStep(p)
  BY <1>1, PeerStepIsRecordStep
<1>2. CASE \E x \in Producers : TrackStep(x)
  <2>1. UNCHANGED room
    BY <1>2 DEF TrackStep, CloseProducer, Produce, Produced, ProduceFailed
  <2>2. QED BY <2>1, RoomUnchanged
<1>3. CASE \E c \in Consumers : FeedStep(c)
  <2>1. UNCHANGED room
    BY <1>3 DEF FeedStep, Consume, Consumed, ConsumeFailed
  <2>2. QED BY <2>1, RoomUnchanged
<1>4. CASE DeleteRoom
  <2>1. Record!End
    BY <1>4 DEF DeleteRoom, Record!End
  <2>2. QED BY <2>1 DEF Record!Next
<1>5. CASE UNCHANGED vars
  BY <1>5, RoomUnchanged DEF vars
<1>6. QED BY <1>1, <1>2, <1>3, <1>4, <1>5 DEF Next

\* Peers come and go in MediaDemand exactly as RoomRecord lets them, the
\* specification RoomLifecycle implements for every record: whatever order the
\* server takes joins, departures and DELETE in, the media side is ready for it
\* (meetRooms.js:36-122, server.js:322-330).
THEOREM MembershipIsThatOfARecord == Spec => ImplementsRecord
<1>1. Init => Record!Init
  BY DEF Init, Record!Init
<1>2. [Next]_vars => [Record!Next]_Record!vars
  BY StepIsRecordStep
<1>3. QED BY <1>1, <1>2, PTL DEF Spec, ImplementsRecord, Record!Spec
=============================================================================
