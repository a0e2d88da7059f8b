-------------------------- MODULE MonitorMeshProofs --------------------------
(***************************************************************************)
(* The safety properties of MonitorMesh, for any finite sets of broadcast  *)
(* and watch pages, any number of viewers and any number of sockets.       *)
(*                                                                         *)
(* What the invariant says of a queue is said by a few operators; how they *)
(* fare when a message is added or taken is shown once, then what every    *)
(* action does to each variable, then one lemma per part of InductiveInv.  *)
(***************************************************************************)
EXTENDS MonitorMesh, FiniteSetTheorems, FunctionTheorems, TLAPS

(***************************************************************************)
(* Queues                                                                  *)
(***************************************************************************)
\* A message is added.
LEMMA Added ==
  ASSUME NEW S, NEW q \in Seq(S), NEW m \in S
  PROVE  LET r == Append(q, m)
         IN /\ r \in Seq(S) /\ r # <<>> /\ Len(q) \in Nat /\ Len(r) = Len(q) + 1
            /\ DOMAIN q = 1..Len(q) /\ DOMAIN r = 1..(Len(q) + 1)
            /\ \A i \in DOMAIN q : r[i] = q[i]
            /\ r[Len(q) + 1] = m
  OBVIOUS

\* The first is taken.
LEMMA Taken ==
  ASSUME NEW S, NEW q \in Seq(S), q # <<>>
  PROVE  LET r == Tail(q)
         IN /\ r \in Seq(S) /\ Head(q) \in S /\ Head(q) = q[1]
            /\ Len(q) \in Nat \ {0} /\ Len(r) = Len(q) - 1
            /\ DOMAIN q = 1..Len(q) /\ DOMAIN r = 1..(Len(q) - 1)
            /\ \A i \in DOMAIN r : r[i] = q[i + 1]
  OBVIOUS

\* Nothing is in an empty queue.
LEMMA Empty ==
  /\ \A type : ~Has(<<>>, type) /\ OnlyFirst(<<>>, type) /\ OnlyLast(<<>>, type)
  /\ \A type, w : ~About(<<>>, type, w)
  /\ \A w : ~OffersTo(<<>>, w)
  /\ ~SaysLive(<<>>) /\ ~OfferAhead(<<>>) /\ JoinedBefore(<<>>)
  BY DEF Has, About, OffersTo, SaysLive, OnlyFirst, OnlyLast, OfferAhead, JoinedBefore

LEMMA HasAdded ==
  ASSUME NEW S, NEW q \in Seq(S), NEW m \in S, NEW type
  PROVE  /\ Has(Append(q, m), type) <=> Has(q, type) \/ m.type = type
         /\ OnlyFirst(q, type) /\ (m.type # type \/ q = <<>>) => OnlyFirst(Append(q, m), type)
         /\ ~Has(q, type) => OnlyLast(Append(q, m), type)
<1> DEFINE r == Append(q, m)
<1> HIDE DEF r
<1>1. /\ r \in Seq(S) /\ Len(q) \in Nat /\ Len(r) = Len(q) + 1
      /\ DOMAIN q = 1..Len(q) /\ DOMAIN r = 1..(Len(q) + 1)
      /\ \A i \in DOMAIN q : r[i] = q[i]
      /\ r[Len(q) + 1] = m
  BY Added DEF r
<1>2. Has(r, type) <=> Has(q, type) \/ m.type = type
  BY <1>1 DEF Has
<1>3. OnlyFirst(q, type) /\ (m.type # type \/ q = <<>>) => OnlyFirst(r, type)
  BY <1>1 DEF OnlyFirst
<1>4. ~Has(q, type) => OnlyLast(r, type)
  BY <1>1 DEF Has, OnlyLast
<1>5. QED BY <1>2, <1>3, <1>4 DEF r

LEMMA HasTaken ==
  ASSUME NEW S, NEW q \in Seq(S), q # <<>>, NEW type
  PROVE  /\ Has(q, type) <=> Head(q).type = type \/ Has(Tail(q), type)
         /\ OnlyFirst(q, type) => OnlyFirst(Tail(q), type) /\ ~Has(Tail(q), type)
         /\ OnlyLast(q, type) => /\ OnlyLast(Tail(q), type)
                                 /\ Head(q).type = type => Tail(q) = <<>>
<1> DEFINE r == Tail(q)
<1> HIDE DEF r
<1>1. /\ r \in Seq(S) /\ Head(q) = q[1]
      /\ Len(q) \in Nat \ {0} /\ Len(r) = Len(q) - 1
      /\ DOMAIN q = 1..Len(q) /\ DOMAIN r = 1..(Len(q) - 1)
      /\ \A i \in DOMAIN r : r[i] = q[i + 1]
  BY Taken DEF r
<1>2. Has(r, type) => Has(q, type)
  <2>1. SUFFICES ASSUME NEW i \in DOMAIN r, r[i].type = type PROVE Has(q, type)
    BY DEF Has
  <2>2. i + 1 \in DOMAIN q /\ q[i + 1].type = type
    BY <1>1, <2>1
  <2>3. QED BY <2>2 DEF Has
<1>3. Head(q).type = type => Has(q, type)
  BY <1>1 DEF Has
<1>4. Has(q, type) => Head(q).type = type \/ Has(r, type)
  <2>1. SUFFICES ASSUME NEW i \in DOMAIN q, q[i].type = type, i # 1 PROVE Has(r, type)
    BY <1>1 DEF Has
  <2>2. i - 1 \in DOMAIN r /\ r[i - 1] = q[(i - 1) + 1] /\ (i - 1) + 1 = i
    BY <1>1, <2>1
  <2>3. QED BY <2>1, <2>2 DEF Has
<1>5. OnlyFirst(q, type) => ~Has(r, type)
  <2>1. SUFFICES ASSUME OnlyFirst(q, type), NEW i \in DOMAIN r, r[i].type = type PROVE FALSE
    BY DEF Has
  <2>2. i + 1 \in DOMAIN q /\ q[i + 1].type = type /\ i + 1 # 1
    BY <1>1, <2>1
  <2>3. QED BY <2>1, <2>2 DEF OnlyFirst
<1>6. ~Has(r, type) => OnlyFirst(r, type)
  BY DEF Has, OnlyFirst
<1>7. OnlyLast(q, type) => OnlyLast(r, type)
  <2>1. SUFFICES ASSUME OnlyLast(q, type), NEW i \in DOMAIN r, r[i].type = type
                 PROVE  i = Len(r)
    BY DEF OnlyLast
  <2>2. i + 1 \in DOMAIN q /\ q[i + 1].type = type /\ i \in Int
    BY <1>1, <2>1
  <2>3. i + 1 = Len(q)
    BY <2>1, <2>2 DEF OnlyLast
  <2>4. QED BY <1>1, <2>2, <2>3
<1>8. OnlyLast(q, type) /\ Head(q).type = type => r = <<>>
  <2>1. SUFFICES ASSUME OnlyLast(q, type), q[1].type = type PROVE r = <<>>
    BY <1>1
  <2>2. Len(q) = 1
    BY <1>1, <2>1 DEF OnlyLast
  <2>3. QED BY <1>1, <2>2
<1>9. QED BY <1>2, <1>3, <1>4, <1>5, <1>6, <1>7, <1>8 DEF r

LEMMA AboutAdded ==
  ASSUME NEW S, NEW q \in Seq(S), NEW m \in S, NEW type, NEW w
  PROVE  About(Append(q, m), type, w) <=> About(q, type, w) \/ (m.type = type /\ m.viewer = w)
<1> DEFINE r == Append(q, m)
<1> HIDE DEF r
<1>1. /\ r \in Seq(S) /\ Len(q) \in Nat
      /\ DOMAIN q = 1..Len(q) /\ DOMAIN r = 1..(Len(q) + 1)
      /\ \A i \in DOMAIN q : r[i] = q[i]
      /\ r[Len(q) + 1] = m
  BY Added DEF r
<1>2. About(r, type, w) <=> About(q, type, w) \/ (m.type = type /\ m.viewer = w)
  BY <1>1 DEF About
<1>3. QED BY <1>2 DEF r

LEMMA AboutTaken ==
  ASSUME NEW S, NEW q \in Seq(S), q # <<>>, NEW type, NEW w
  PROVE  About(q, type, w) <=> (Head(q).type = type /\ Head(q).viewer = w) \/ About(Tail(q), type, w)
<1> DEFINE r == Tail(q)
<1> HIDE DEF r
<1>1. /\ Head(q) = q[1] /\ Len(q) \in Nat \ {0}
      /\ DOMAIN q = 1..Len(q) /\ DOMAIN r = 1..(Len(q) - 1)
      /\ \A i \in DOMAIN r : r[i] = q[i + 1]
  BY Taken DEF r
<1>2. About(r, type, w) => About(q, type, w)
  <2>1. SUFFICES ASSUME NEW i \in DOMAIN r, r[i].type = type /\ r[i].viewer = w PROVE About(q, type, w)
    BY DEF About
  <2>2. i + 1 \in DOMAIN q /\ r[i] = q[i + 1]
    BY <1>1
  <2>3. QED BY <2>1, <2>2 DEF About
<1>3. (q[1].type = type /\ q[1].viewer = w) => About(q, type, w)
  BY <1>1 DEF About
<1>4. About(q, type, w) => (q[1].type = type /\ q[1].viewer = w) \/ About(r, type, w)
  <2>1. SUFFICES ASSUME NEW i \in DOMAIN q, q[i].type = type /\ q[i].viewer = w, i # 1 PROVE About(r, type, w)
    BY DEF About
  <2>2. i - 1 \in DOMAIN r /\ r[i - 1] = q[(i - 1) + 1] /\ (i - 1) + 1 = i
    BY <1>1, <2>1
  <2>3. QED BY <2>1, <2>2 DEF About
<1>5. QED BY <1>1, <1>2, <1>3, <1>4 DEF r

LEMMA OffersToAdded ==
  ASSUME NEW S, NEW q \in Seq(S), NEW m \in S, NEW w
  PROVE  OffersTo(Append(q, m), w) <=> OffersTo(q, w) \/ (m.type = "offer" /\ m.to = w)
<1> DEFINE r == Append(q, m)
<1> HIDE DEF r
<1>1. /\ r \in Seq(S) /\ Len(q) \in Nat
      /\ DOMAIN q = 1..Len(q) /\ DOMAIN r = 1..(Len(q) + 1)
      /\ \A i \in DOMAIN q : r[i] = q[i]
      /\ r[Len(q) + 1] = m
  BY Added DEF r
<1>2. OffersTo(r, w) <=> OffersTo(q, w) \/ (m.type = "offer" /\ m.to = w)
  BY <1>1 DEF OffersTo
<1>3. QED BY <1>2 DEF r

LEMMA OffersToTaken ==
  ASSUME NEW S, NEW q \in Seq(S), q # <<>>, NEW w
  PROVE  OffersTo(q, w) <=> (Head(q).type = "offer" /\ Head(q).to = w) \/ OffersTo(Tail(q), w)
<1> DEFINE r == Tail(q)
<1> HIDE DEF r
<1>1. /\ Head(q) = q[1] /\ Len(q) \in Nat \ {0}
      /\ DOMAIN q = 1..Len(q) /\ DOMAIN r = 1..(Len(q) - 1)
      /\ \A i \in DOMAIN r : r[i] = q[i + 1]
  BY Taken DEF r
<1>2. OffersTo(r, w) => OffersTo(q, w)
  <2>1. SUFFICES ASSUME NEW i \in DOMAIN r, r[i].type = "offer" /\ r[i].to = w PROVE OffersTo(q, w)
    BY DEF OffersTo
  <2>2. i + 1 \in DOMAIN q /\ r[i] = q[i + 1]
    BY <1>1
  <2>3. QED BY <2>1, <2>2 DEF OffersTo
<1>3. (q[1].type = "offer" /\ q[1].to = w) => OffersTo(q, w)
  BY <1>1 DEF OffersTo
<1>4. OffersTo(q, w) => (q[1].type = "offer" /\ q[1].to = w) \/ OffersTo(r, w)
  <2>1. SUFFICES ASSUME NEW i \in DOMAIN q, q[i].type = "offer" /\ q[i].to = w, i # 1 PROVE OffersTo(r, w)
    BY DEF OffersTo
  <2>2. i - 1 \in DOMAIN r /\ r[i - 1] = q[(i - 1) + 1] /\ (i - 1) + 1 = i
    BY <1>1, <2>1
  <2>3. QED BY <2>1, <2>2 DEF OffersTo
<1>5. QED BY <1>1, <1>2, <1>3, <1>4 DEF r

LEMMA SaysLiveAdded ==
  ASSUME NEW S, NEW q \in Seq(S), NEW m \in S
  PROVE  SaysLive(Append(q, m)) <=> SaysLive(q) \/ (m.type = "registered" /\ m.live)
<1> DEFINE r == Append(q, m)
<1> HIDE DEF r
<1>1. /\ r \in Seq(S) /\ Len(q) \in Nat
      /\ DOMAIN q = 1..Len(q) /\ DOMAIN r = 1..(Len(q) + 1)
      /\ \A i \in DOMAIN q : r[i] = q[i]
      /\ r[Len(q) + 1] = m
  BY Added DEF r
<1>2. SaysLive(r) <=> SaysLive(q) \/ (m.type = "registered" /\ m.live)
  BY <1>1 DEF SaysLive
<1>3. QED BY <1>2 DEF r

LEMMA SaysLiveTaken ==
  ASSUME NEW S, NEW q \in Seq(S), q # <<>>
  PROVE  SaysLive(q) <=> (Head(q).type = "registered" /\ Head(q).live) \/ SaysLive(Tail(q))
<1> DEFINE r == Tail(q)
<1> HIDE DEF r
<1>1. /\ Head(q) = q[1] /\ Len(q) \in Nat \ {0}
      /\ DOMAIN q = 1..Len(q) /\ DOMAIN r = 1..(Len(q) - 1)
      /\ \A i \in DOMAIN r : r[i] = q[i + 1]
  BY Taken DEF r
<1>2. SaysLive(r) => SaysLive(q)
  <2>1. SUFFICES ASSUME NEW i \in DOMAIN r, r[i].type = "registered" /\ r[i].live PROVE SaysLive(q)
    BY DEF SaysLive
  <2>2. i + 1 \in DOMAIN q /\ r[i] = q[i + 1]
    BY <1>1
  <2>3. QED BY <2>1, <2>2 DEF SaysLive
<1>3. (q[1].type = "registered" /\ q[1].live) => SaysLive(q)
  BY <1>1 DEF SaysLive
<1>4. SaysLive(q) => (q[1].type = "registered" /\ q[1].live) \/ SaysLive(r)
  <2>1. SUFFICES ASSUME NEW i \in DOMAIN q, q[i].type = "registered" /\ q[i].live, i # 1 PROVE SaysLive(r)
    BY DEF SaysLive
  <2>2. i - 1 \in DOMAIN r /\ r[i - 1] = q[(i - 1) + 1] /\ (i - 1) + 1 = i
    BY <1>1, <2>1
  <2>3. QED BY <2>1, <2>2 DEF SaysLive
<1>5. QED BY <1>1, <1>2, <1>3, <1>4 DEF r

LEMMA OfferAheadAdded ==
  ASSUME NEW S, NEW q \in Seq(S), NEW m \in S
  PROVE  /\ m.type = "offer" => OfferAhead(Append(q, m))
         /\ m.type # "broadcaster-left" /\ OfferAhead(q) => OfferAhead(Append(q, m))
<1> DEFINE r == Append(q, m)
<1> HIDE DEF r
<1>1. /\ r \in Seq(S) /\ Len(q) \in Nat
      /\ DOMAIN q = 1..Len(q) /\ DOMAIN r = 1..(Len(q) + 1)
      /\ \A i \in DOMAIN q : r[i] = q[i]
      /\ r[Len(q) + 1] = m
  BY Added DEF r
<1>2. m.type = "offer" => OfferAhead(r)
  BY <1>1 DEF OfferAhead
<1>3. ASSUME m.type # "broadcaster-left", NEW i \in DOMAIN q, q[i].type = "offer",
             \A j \in DOMAIN q : j > i => q[j].type # "broadcaster-left"
      PROVE  OfferAhead(r)
  <2>1. i \in DOMAIN r /\ r[i].type = "offer"
    BY <1>1, <1>3
  <2>2. \A j \in DOMAIN r : j > i => r[j].type # "broadcaster-left"
    BY <1>1, <1>3
  <2>3. QED BY <2>1, <2>2 DEF OfferAhead
<1>4. QED BY <1>2, <1>3 DEF r, OfferAhead

LEMMA OfferAheadTaken ==
  ASSUME NEW S, NEW q \in Seq(S), q # <<>>, OfferAhead(q)
  PROVE  \/ OfferAhead(Tail(q))
         \/ Head(q).type = "offer" /\ ~Has(Tail(q), "broadcaster-left")
<1> DEFINE r == Tail(q)
<1> HIDE DEF r
<1>1. /\ Head(q) = q[1] /\ Len(q) \in Nat \ {0}
      /\ DOMAIN q = 1..Len(q) /\ DOMAIN r = 1..(Len(q) - 1)
      /\ \A i \in DOMAIN r : r[i] = q[i + 1]
  BY Taken DEF r
<1>2. PICK i \in DOMAIN q : /\ q[i].type = "offer"
                            /\ \A j \in DOMAIN q : j > i => q[j].type # "broadcaster-left"
  BY DEF OfferAhead
<1>3. CASE i = 1
  <2>1. \A j \in DOMAIN r : r[j].type # "broadcaster-left"
    BY <1>1, <1>2, <1>3
  <2>2. ~Has(r, "broadcaster-left")
    BY <2>1 DEF Has
  <2>3. QED BY <1>1, <1>2, <1>3, <2>2 DEF r
<1>4. CASE i # 1
  <2>1. i - 1 \in DOMAIN r /\ r[i - 1] = q[(i - 1) + 1] /\ (i - 1) + 1 = i
    BY <1>1, <1>4
  <2>2. \A j \in DOMAIN r : j > i - 1 => r[j].type # "broadcaster-left"
    BY <1>1, <1>2
  <2>3. OfferAhead(r)
    BY <1>2, <2>1, <2>2 DEF OfferAhead
  <2>4. QED BY <2>3 DEF r
<1>5. QED BY <1>3, <1>4

LEMMA JoinedBeforeAdded ==
  ASSUME NEW S, NEW q \in Seq(S), NEW m \in S, JoinedBefore(q),
         m.type = "viewer-joined" => ~About(q, "viewer-left", m.viewer)
  PROVE  JoinedBefore(Append(q, m))
<1> DEFINE r == Append(q, m)
<1> HIDE DEF r
<1>1. /\ r \in Seq(S) /\ Len(q) \in Nat
      /\ DOMAIN q = 1..Len(q) /\ DOMAIN r = 1..(Len(q) + 1)
      /\ \A i \in DOMAIN q : r[i] = q[i]
      /\ r[Len(q) + 1] = m
  BY Added DEF r
<1>2. SUFFICES ASSUME NEW i \in DOMAIN r, NEW j \in DOMAIN r,
                      r[i].type = "viewer-left", r[j].type = "viewer-joined",
                      r[i].viewer = r[j].viewer
               PROVE  j < i
  BY DEF JoinedBefore, r
<1>3. CASE i \in DOMAIN q /\ j \in DOMAIN q
  BY <1>1, <1>2, <1>3 DEF JoinedBefore
<1>4. CASE i \in DOMAIN q /\ j = Len(q) + 1
  <2>1. m.type = "viewer-joined" /\ q[i].type = "viewer-left" /\ q[i].viewer = m.viewer
    BY <1>1, <1>2, <1>4
  <2>2. QED BY <1>4, <2>1 DEF About
<1>5. CASE i = Len(q) + 1 /\ j \in DOMAIN q
  BY <1>1, <1>5
<1>6. CASE i = Len(q) + 1 /\ j = Len(q) + 1
  BY <1>1, <1>2, <1>6
<1>7. QED BY <1>1, <1>3, <1>4, <1>5, <1>6

LEMMA JoinedBeforeTaken ==
  ASSUME NEW S, NEW q \in Seq(S), q # <<>>, JoinedBefore(q)
  PROVE  /\ JoinedBefore(Tail(q))
         /\ Head(q).type = "viewer-left" => ~About(Tail(q), "viewer-joined", Head(q).viewer)
<1> DEFINE r == Tail(q)
<1> HIDE DEF r
<1>1. /\ Head(q) = q[1] /\ Len(q) \in Nat \ {0}
      /\ DOMAIN q = 1..Len(q) /\ DOMAIN r = 1..(Len(q) - 1)
      /\ \A i \in DOMAIN r : r[i] = q[i + 1]
  BY Taken DEF r
<1>2. \A i \in DOMAIN r : i \in Int /\ i + 1 \in DOMAIN q /\ i + 1 # 1 /\ r[i] = q[i + 1]
  BY <1>1
<1>3. JoinedBefore(r)
  <2>1. SUFFICES ASSUME NEW i \in DOMAIN r, NEW j \in DOMAIN r,
                        r[i].type = "viewer-left", r[j].type = "viewer-joined",
                        r[i].viewer = r[j].viewer
                 PROVE  j < i
    BY DEF JoinedBefore
  <2>2. j + 1 < i + 1
    BY <1>2, <2>1 DEF JoinedBefore
  <2>3. QED BY <1>2, <2>2
<1>4. ASSUME q[1].type = "viewer-left", NEW j \in DOMAIN r,
             r[j].type = "viewer-joined", r[j].viewer = q[1].viewer
      PROVE  FALSE
  <2>1. j + 1 < 1
    BY <1>1, <1>2, <1>4 DEF JoinedBefore
  <2>2. QED BY <1>1, <2>1
<1>5. q[1].type = "viewer-left" => ~About(r, "viewer-joined", q[1].viewer)
  BY <1>4 DEF About
<1>6. QED BY <1>1, <1>3, <1>5 DEF r

(***************************************************************************)
(* Ends, messages, and what the parts of an action do                      *)
(***************************************************************************)
LEMMA Apart ==
  /\ \A s \in Sessions : /\ s \in Ends /\ s \notin Watchers /\ s # NoSession
                         /\ s[1] \in Stations /\ s[2] \in 1..MaxShares /\ s = <<s[1], s[2]>>
  /\ \A w \in Watchers : w \in Ends /\ w \notin Sessions /\ w # NoSession
  /\ \A b \in Stations, n \in 1..MaxShares : <<b, n>> \in Sessions
  /\ MaxShares \in Nat /\ MaxViewers \in Nat
<1>1. MaxShares \in Nat /\ MaxViewers \in Nat /\ 1..MaxShares \subseteq Nat
  BY MonitorAssumption
<1>2. Sessions \subseteq Stations \X Nat
  BY <1>1 DEF Sessions
<1>3. QED BY <1>1, <1>2, MonitorAssumption DEF Sessions, Ends

LEMMA PresentSocket ==
  ASSUME TypeOK, Sockets, NEW b \in Stations
  PROVE  /\ opened[b] \in 0..MaxShares /\ opened[b] \in Nat
         /\ opened[b] > 0 => Current(b) \in Sessions
         /\ Current(b) \in Sessions => opened[b] > 0
         /\ Current(b)[1] = b /\ Current(b)[2] = opened[b]
         /\ \A a \in Stations : Current(a) = Current(b) => a = b
  BY Apart DEF TypeOK, Current, Sessions

LEMMA Listening ==
  /\ \A s \in Sessions : Listens(s) <=> sock[s] = "open"
  /\ \A w \in Watchers : Listens(w) <=> seat[w] = "open"
  BY Apart DEF Listens

LEMMA Messages ==
  /\ [type |-> "register"] \in Requests /\ [type |-> "close"] \in Requests
  /\ \A s \in Sessions, w \in Watchers : [type |-> "offer", of |-> s, to |-> w] \in Requests
  /\ \A s \in Sessions : [type |-> "answer", of |-> s] \in Requests
  /\ \A w \in Watchers : /\ [type |-> "viewer-joined", viewer |-> w] \in Notices
                         /\ [type |-> "viewer-left", viewer |-> w] \in Notices
  /\ \A s \in Sessions, w \in Watchers :
       [type |-> "answer", of |-> s, viewer |-> w] \in Notices
  /\ \A live \in BOOLEAN : [type |-> "registered", live |-> live] \in Notices
  /\ [type |-> "error"] \in Notices /\ [type |-> "broadcaster-left"] \in Notices
  /\ \A s \in Sessions : [type |-> "offer", of |-> s] \in Notices
  BY DEF Requests, Notices

LEMMA MessagesCarry ==
  /\ \A m \in Requests : /\ m.type \in {"register", "close", "offer", "answer"}
                         /\ m.type \in {"offer", "answer"} => m.of \in Sessions
                         /\ m.type = "offer" => m.to \in Watchers
  /\ \A m \in Notices :
       /\ m.type \in {"viewer-joined", "viewer-left", "answer"} => m.viewer \in Watchers
       /\ m.type = "registered" => m.live \in BOOLEAN
       /\ m.type = "offer" => m.of \in Sessions
  BY DEF Requests, Notices

LEMMA Connections ==
  /\ NoPc \in Pcs /\ NoPc.state = "none"
  /\ \A c \in Pcs : /\ c # NoPc <=> c.state \in {"offering", "offered", "answered"}
                    /\ c # NoPc => c.of \in Sessions
  /\ \A s \in Sessions : [of |-> s, state |-> "offering"] \in Pcs
  /\ \A c \in Pcs : c.state = "offering" =>
       [c EXCEPT !.state = "offered"] \in Pcs /\ [c EXCEPT !.state = "offered"].state = "offered"
  /\ \A c \in Pcs : c.state = "offered" =>
       [c EXCEPT !.state = "answered"] \in Pcs /\ [c EXCEPT !.state = "answered"].state = "answered"
  BY DEF Pcs, NoPc

LEMMA TakesDoes ==
  ASSUME TypeOK, NEW x \in Ends, NEW type, Takes(x, type)
  PROVE  /\ up[x] # <<>> /\ Head(up[x]).type = type /\ Head(up[x]) \in Requests
         /\ up'[x] = Tail(up[x]) /\ \A y \in Ends : y # x => up'[y] = up[y]
         /\ UNCHANGED <<flow, status, capture, opened, sock, pcs, astray>>
         /\ UNCHANGED <<seat, shown, pc, answering, overtaken>>
         /\ up[x] \in Seq(Requests) /\ up' \in [Ends -> Seq(Requests)]
<1>1. up[x] \in Seq(Requests) /\ up[x] # <<>>
  BY DEF TypeOK, Takes
<1>2. Head(up[x]) \in Requests /\ Tail(up[x]) \in Seq(Requests)
  BY <1>1, Taken
<1>3. QED BY <1>1, <1>2 DEF TypeOK, Takes, station, watcher

LEMMA HearsDoes ==
  ASSUME TypeOK, NEW x \in Ends, NEW type, Hears(x, type)
  PROVE  /\ Listens(x) /\ down[x] # <<>> /\ Head(down[x]).type = type
         /\ Head(down[x]) \in Notices
         /\ down'[x] = Tail(down[x]) /\ \A y \in Ends : y # x => down'[y] = down[y]
         /\ down[x] \in Seq(Notices) /\ down' \in [Ends -> Seq(Notices)]
<1>1. down[x] \in Seq(Notices) /\ down[x] # <<>>
  BY DEF TypeOK, Hears
<1>2. Head(down[x]) \in Notices /\ Tail(down[x]) \in Seq(Notices)
  BY <1>1, Taken
<1>3. QED BY <1>1, <1>2 DEF TypeOK, Hears

LEMMA ToldDoes ==
  ASSUME TypeOK, NEW to, NEW msg \in Notices, down' = Told(to, msg)
  PROVE  /\ \A x \in Ends : down'[x] = IF x \in to /\ Listens(x) THEN Append(down[x], msg)
                                       ELSE down[x]
         /\ down' \in [Ends -> Seq(Notices)]
  BY Added DEF TypeOK, Told

LEMMA AskedDoes ==
  ASSUME TypeOK, NEW x \in Ends, NEW msg \in Requests, up' = Asked(x, msg)
  PROVE  /\ up'[x] = Append(up[x], msg) /\ \A y \in Ends : y # x => up'[y] = up[y]
         /\ up' \in [Ends -> Seq(Requests)]
  BY Added DEF TypeOK, Asked

LEMMA SetPcDoes ==
  ASSUME TypeOK, NEW b \in Stations, NEW w \in Watchers, NEW new \in Pcs, SetPc(b, w, new)
  PROVE  /\ pcs' \in [Stations -> [Watchers -> Pcs]]
         /\ pcs'[b][w] = new
         /\ \A a \in Stations, v \in Watchers : a # b \/ v # w => pcs'[a][v] = pcs[a][v]
  BY DEF TypeOK, SetPc

(***************************************************************************)
(* What every action does                                                  *)
(***************************************************************************)
LEMMA RegisterDoes ==
  ASSUME InductiveInv, NEW s \in Sessions, RegisterBroadcaster(s)
  PROVE  /\ Takes(s, "register") /\ broadcaster' = s /\ viewers' = viewers
         /\ \A x \in Ends : x # s => down'[x] = down[x]
         /\ sock[s] # "open" => down'[s] = down[s]
         /\ \A type : type # "viewer-joined" => ~Has(down'[s], type)
         /\ \A w : About(down'[s], "viewer-joined", w) => w \in viewers
         /\ sock[s] = "open" => \A w \in viewers : About(down'[s], "viewer-joined", w)
         /\ down' \in [Ends -> Seq(Notices)]
<1> USE DEF InductiveInv
<1>1. s \in Ends /\ Takes(s, "register") /\ broadcaster' = s /\ viewers' = viewers
  BY Apart DEF RegisterBroadcaster
<1>2. Has(up[s], "register")
  <2>1. /\ up[s] # <<>> /\ Head(up[s]).type = "register" /\ up[s] \in Seq(Requests)
    BY <1>1, TakesDoes
  <2>2. QED BY <2>1, HasTaken
<1>3. down[s] = <<>> /\ down \in [Ends -> Seq(Notices)]
  BY <1>2 DEF Uplink, TypeOK
<1>4. PICK order \in {o \in [1..Cardinality(viewers) -> viewers] :
                        {o[i] : i \in DOMAIN o} = viewers} :
        down' = IF sock[s] = "open"
                THEN [down EXCEPT ![s] = @ \o [i \in DOMAIN order |->
                       [type |-> "viewer-joined", viewer |-> order[i]]]]
                ELSE down
  BY DEF RegisterBroadcaster
<1> DEFINE n == Cardinality(viewers)
           joined == [i \in 1..n |-> [type |-> "viewer-joined", viewer |-> order[i]]]
<1>5. n \in Nat /\ viewers \subseteq Watchers
  <2>1. IsFiniteSet(viewers)
    BY FS_Subset, MonitorAssumption DEF TypeOK
  <2>2. QED BY <2>1, FS_CardinalityType DEF TypeOK
<1>6. /\ order \in [1..n -> viewers] /\ DOMAIN order = 1..n
      /\ \A w \in viewers : \E i \in 1..n : order[i] = w
  <2>1. order \in [1..n -> viewers] /\ {order[i] : i \in DOMAIN order} = viewers
    BY <1>4
  <2>2. DOMAIN order = 1..n
    BY <2>1
  <2>3. QED BY <2>1, <2>2
<1>7. joined \in Seq(Notices) /\ Len(joined) = n
  <2>1. \A i \in 1..n : joined[i] \in Notices
    BY <1>5, <1>6, Messages
  <2>2. QED BY <1>5, <2>1
<1>8. <<>> \o joined = joined
  BY <1>7
<1>9. down' = IF sock[s] = "open" THEN [down EXCEPT ![s] = joined] ELSE down
  BY <1>3, <1>4, <1>6, <1>8
<1>10. down'[s] = (IF sock[s] = "open" THEN joined ELSE <<>>) /\ down' \in [Ends -> Seq(Notices)]
       /\ \A x \in Ends : x # s => down'[x] = down[x]
  BY <1>1, <1>3, <1>7, <1>9
<1>11. /\ \A i \in DOMAIN joined : joined[i].type = "viewer-joined" /\ joined[i].viewer \in viewers
       /\ \A w \in viewers : \E i \in DOMAIN joined : joined[i].type = "viewer-joined" /\ joined[i].viewer = w
  BY <1>6
<1> HIDE DEF joined
<1>12. /\ \A type : type # "viewer-joined" => ~Has(joined, type)
       /\ \A w : About(joined, "viewer-joined", w) => w \in viewers
       /\ \A w \in viewers : About(joined, "viewer-joined", w)
  BY <1>11 DEF Has, About
<1>13. QED BY <1>1, <1>3, <1>10, <1>12, Empty

LEMMA FirstMessage ==
  ASSUME NEW m \in Notices
  PROVE  /\ \A type : Has(<<m>>, type) <=> m.type = type
         /\ \A type : OnlyFirst(<<m>>, type)
         /\ SaysLive(<<m>>) <=> m.type = "registered" /\ m.live
         /\ <<m>> \in Seq(Notices)
  BY DEF Has, OnlyFirst, SaysLive

LEMMA RegisterViewerDoes ==
  ASSUME InductiveInv, NEW w \in Watchers, RegisterViewer(w)
  PROVE  /\ seat[w] = "none" /\ seat' = [seat EXCEPT ![w] = "open"]
         /\ viewers' = viewers \cup {w} /\ broadcaster' = broadcaster
         /\ Cardinality(viewers) < MaxViewers
         /\ UNCHANGED <<flow, status, capture, opened, sock, pcs, astray>>
         /\ UNCHANGED <<shown, pc, answering, overtaken, up>>
         /\ \A s \in Sessions :
              down'[s] = IF broadcaster = s /\ sock[s] = "open"
                         THEN Append(down[s], [type |-> "viewer-joined", viewer |-> w])
                         ELSE down[s]
         /\ \A v \in Watchers : v # w => down'[v] = down[v]
         /\ \A type : Has(down'[w], type) <=> type = "registered"
         /\ \A type : OnlyFirst(down'[w], type)
         /\ SaysLive(down'[w]) <=> broadcaster # NoSession
         /\ down' \in [Ends -> Seq(Notices)]
<1> USE DEF InductiveInv
<1> DEFINE news == [type |-> "viewer-joined", viewer |-> w]
           first == [type |-> "registered", live |-> broadcaster # NoSession]
           told == Told({broadcaster}, news)
<1>1. news \in Notices /\ first \in Notices /\ first.type = "registered"
      /\ first.live = (broadcaster # NoSession)
  BY Messages
<1>2. /\ told \in [Ends -> Seq(Notices)]
      /\ \A x \in Ends : told[x] = IF x \in {broadcaster} /\ Listens(x) THEN Append(down[x], news)
                                   ELSE down[x]
  BY <1>1, Added DEF TypeOK, Told
<1>3. down' = [told EXCEPT ![w] = <<first>>]
  BY DEF RegisterViewer
<1> HIDE DEF told, first, news
<1>4. <<first>> \in Seq(Notices)
  BY <1>1, FirstMessage
<1>5. /\ down' \in [Ends -> Seq(Notices)] /\ down'[w] = <<first>>
      /\ \A x \in Ends : x # w => down'[x] = told[x]
  BY <1>2, <1>3, <1>4, Apart
<1>6. \A s \in Sessions : down'[s] = IF broadcaster = s /\ sock[s] = "open"
                                     THEN Append(down[s], news) ELSE down[s]
  BY <1>2, <1>5, Apart, Listening
<1>7. \A v \in Watchers : v # w => down'[v] = down[v]
  <2>1. \A v \in Watchers : v \notin {broadcaster}
    BY Apart DEF TypeOK
  <2>2. QED BY <1>2, <1>5, <2>1, Apart
<1>8. /\ \A type : Has(down'[w], type) <=> type = "registered"
      /\ \A type : OnlyFirst(down'[w], type)
      /\ SaysLive(down'[w]) <=> broadcaster # NoSession
  BY <1>1, <1>5, FirstMessage
<1>9. QED BY <1>5, <1>6, <1>7, <1>8 DEF RegisterViewer, Visits, HasRoom, station, news

LEMMA RefuseViewerDoes ==
  ASSUME InductiveInv, NEW w \in Watchers, RefuseViewer(w)
  PROVE  /\ seat[w] = "none" /\ seat' = [seat EXCEPT ![w] = "open"]
         /\ UNCHANGED <<viewers, broadcaster>>
         /\ UNCHANGED <<flow, status, capture, opened, sock, pcs, astray>>
         /\ UNCHANGED <<shown, pc, answering, overtaken, up>>
         /\ \A x \in Ends : x # w => down'[x] = down[x]
         /\ \A type : Has(down'[w], type) <=> type = "error"
         /\ \A type : OnlyFirst(down'[w], type)
         /\ down' \in [Ends -> Seq(Notices)]
<1> USE DEF InductiveInv
<1> DEFINE first == [type |-> "error"]
<1>1. first \in Notices /\ first.type = "error"
  BY Messages
<1>2. down' = [down EXCEPT ![w] = <<first>>]
  BY DEF RefuseViewer
<1> HIDE DEF first
<1>3. <<first>> \in Seq(Notices)
  BY <1>1, FirstMessage
<1>4. /\ down' \in [Ends -> Seq(Notices)] /\ down'[w] = <<first>>
      /\ \A x \in Ends : x # w => down'[x] = down[x]
  BY <1>2, <1>3, Apart DEF TypeOK
<1>5. (\A type : Has(down'[w], type) <=> type = "error") /\ (\A type : OnlyFirst(down'[w], type))
  BY <1>1, <1>4, FirstMessage
<1>6. QED BY <1>4, <1>5 DEF RefuseViewer, Visits, station, server

LEMMA RelayOfferDoes ==
  ASSUME InductiveInv, NEW s \in Sessions, RelayOffer(s)
  PROVE  /\ Takes(s, "offer") /\ UNCHANGED <<broadcaster, viewers>>
         /\ \E m \in Notices :
              /\ m.type = "offer"
              /\ \A w \in Watchers :
                   down'[w] = IF w = Head(up[s]).to /\ w \in viewers /\ seat[w] = "open"
                              THEN Append(down[w], m) ELSE down[w]
         /\ \A x \in Sessions : down'[x] = down[x]
         /\ Head(up[s]).to \in Watchers
         /\ down' \in [Ends -> Seq(Notices)]
<1> USE DEF InductiveInv
<1> DEFINE m == [type |-> "offer", of |-> Head(up[s]).of]
           to == {Head(up[s]).to} \cap viewers
<1>1. Takes(s, "offer") /\ UNCHANGED <<broadcaster, viewers>> /\ down' = Told(to, m)
  BY DEF RelayOffer, server
<1>2. Head(up[s]).of \in Sessions /\ Head(up[s]).to \in Watchers
  BY <1>1, TakesDoes, MessagesCarry, Apart
<1>3. m \in Notices /\ m.type = "offer"
  BY <1>2, Messages
<1> HIDE DEF m
<1>4. to \subseteq Watchers
  BY <1>2
<1>5. \A x \in Ends : down'[x] = IF x \in to /\ Listens(x) THEN Append(down[x], m) ELSE down[x]
  BY <1>1, <1>3, ToldDoes
<1>6. down' \in [Ends -> Seq(Notices)]
  BY <1>1, <1>3, ToldDoes
<1>7. QED BY <1>1, <1>2, <1>3, <1>4, <1>5, <1>6, Apart, Listening

LEMMA RelayAnswerDoes ==
  ASSUME InductiveInv, NEW w \in Watchers, RelayAnswer(w)
  PROVE  /\ Takes(w, "answer") /\ UNCHANGED <<broadcaster, viewers>>
         /\ \E m \in Notices :
              /\ m.type = "answer" /\ m.viewer = w
              /\ \A s \in Sessions :
                   down'[s] = IF broadcaster = s /\ sock[s] = "open"
                              THEN Append(down[s], m) ELSE down[s]
         /\ \A v \in Watchers : down'[v] = down[v]
         /\ down' \in [Ends -> Seq(Notices)]
<1> USE DEF InductiveInv
<1> DEFINE m == [type |-> "answer", of |-> Head(up[w]).of, viewer |-> w]
<1>1. Takes(w, "answer") /\ UNCHANGED <<broadcaster, viewers>> /\ down' = Told({broadcaster}, m)
  BY DEF RelayAnswer, server
<1>2. Head(up[w]).of \in Sessions
  BY <1>1, TakesDoes, MessagesCarry, Apart
<1>3. m \in Notices /\ m.type = "answer" /\ m.viewer = w
  BY <1>2, Messages
<1> HIDE DEF m
<1>4. \A v \in Watchers : v \notin {broadcaster}
  BY Apart DEF TypeOK
<1>5. /\ \A x \in Ends : down'[x] = IF x \in {broadcaster} /\ Listens(x) THEN Append(down[x], m)
                                    ELSE down[x]
      /\ down' \in [Ends -> Seq(Notices)]
  BY <1>1, <1>3, ToldDoes
<1>6. QED BY <1>1, <1>3, <1>4, <1>5, Apart, Listening

LEMMA CloseBroadcasterDoes ==
  ASSUME InductiveInv, NEW s \in Sessions, CloseBroadcaster(s)
  PROVE  /\ Takes(s, "close") /\ viewers' = viewers
         /\ broadcaster # s => UNCHANGED <<broadcaster, down>>
         /\ broadcaster = s =>
              /\ broadcaster' = NoSession
              /\ \A x \in Sessions : down'[x] = down[x]
              /\ \E m \in Notices :
                   /\ m.type = "broadcaster-left"
                   /\ \A w \in Watchers :
                        down'[w] = IF w \in viewers /\ seat[w] = "open"
                                   THEN Append(down[w], m) ELSE down[w]
         /\ down' \in [Ends -> Seq(Notices)]
<1> USE DEF InductiveInv
<1> DEFINE m == [type |-> "broadcaster-left"]
<1>1. Takes(s, "close") /\ viewers' = viewers
  BY DEF CloseBroadcaster
<1>2. CASE broadcaster # s
  BY <1>1, <1>2 DEF CloseBroadcaster, TypeOK
<1>3. CASE broadcaster = s
  <2>1. broadcaster' = NoSession /\ down' = Told(viewers, m)
    BY <1>3 DEF CloseBroadcaster
  <2>2. m \in Notices /\ m.type = "broadcaster-left"
    BY Messages
  <2> HIDE DEF m
  <2>3. /\ \A x \in Ends : down'[x] = IF x \in viewers /\ Listens(x) THEN Append(down[x], m)
                                      ELSE down[x]
        /\ down' \in [Ends -> Seq(Notices)]
    BY <2>1, <2>2, ToldDoes
  <2>4. viewers \subseteq Watchers
    BY DEF TypeOK
  <2>5. QED BY <1>1, <1>3, <2>1, <2>2, <2>3, <2>4, Apart, Listening
<1>4. QED BY <1>2, <1>3

LEMMA CloseViewerDoes ==
  ASSUME InductiveInv, NEW w \in Watchers, CloseViewer(w)
  PROVE  /\ Takes(w, "close") /\ viewers' = viewers \ {w} /\ broadcaster' = broadcaster
         /\ \E m \in Notices :
              /\ m.type = "viewer-left" /\ m.viewer = w
              /\ \A s \in Sessions :
                   down'[s] = IF broadcaster = s /\ sock[s] = "open" /\ w \in viewers
                              THEN Append(down[s], m) ELSE down[s]
         /\ \A v \in Watchers : down'[v] = down[v]
         /\ down' \in [Ends -> Seq(Notices)]
<1> USE DEF InductiveInv
<1> DEFINE m == [type |-> "viewer-left", viewer |-> w]
<1>1. Takes(w, "close") /\ viewers' = viewers \ {w} /\ broadcaster' = broadcaster
  BY DEF CloseViewer
<1>2. m \in Notices /\ m.type = "viewer-left" /\ m.viewer = w
  BY Messages
<1>3. CASE w \notin viewers
  <2>1. down' = down
    BY <1>3 DEF CloseViewer
  <2>2. down' \in [Ends -> Seq(Notices)]
    BY <2>1 DEF TypeOK
  <2>3. QED BY <1>1, <1>2, <1>3, <2>1, <2>2
<1>4. CASE w \in viewers
  <2>1. down' = Told({broadcaster}, m)
    BY <1>4 DEF CloseViewer
  <2> HIDE DEF m
  <2>2. \A v \in Watchers : v \notin {broadcaster}
    BY Apart DEF TypeOK
  <2>3. /\ \A x \in Ends : down'[x] = IF x \in {broadcaster} /\ Listens(x)
                                      THEN Append(down[x], m) ELSE down[x]
        /\ down' \in [Ends -> Seq(Notices)]
    BY <1>2, <2>1, ToldDoes
  <2>4. \A s \in Sessions :
          down'[s] = IF broadcaster = s /\ sock[s] = "open" THEN Append(down[s], m) ELSE down[s]
    BY <2>3, Apart, Listening
  <2>5. \A v \in Watchers : down'[v] = down[v]
    BY <2>2, <2>3, Apart
  <2>6. QED BY <1>1, <1>2, <1>4, <2>3, <2>4, <2>5
<1>5. QED BY <1>3, <1>4

LEMMA FetchedDoes ==
  ASSUME InductiveInv, NEW b \in Stations, Fetched(b), opened[b] < MaxShares
  PROVE  /\ UNCHANGED <<broadcaster, viewers, status, capture, pcs, seat, shown, pc,
                        answering, overtaken, up, down>>
         /\ opened'[b] = opened[b] + 1 /\ Current(b)' = <<b, opened[b] + 1>>
         /\ Current(b)' \in Sessions
         /\ sock'[Current(b)'] = "opening"
         /\ \A s \in Sessions : s # Current(b)' => sock'[s] = sock[s]
         /\ \A a \in Stations : a # b => /\ Current(a)' = Current(a) /\ opened'[a] = opened[a]
                                         /\ astray'[a] = astray[a]
         /\ astray'[b] = (astray[b] \/ Dialled(b))
<1> USE DEF InductiveInv
<1>1. opened[b] \in Nat /\ <<b, opened[b] + 1>> \in Sessions
  BY PresentSocket, Apart
<1>2. UNCHANGED <<broadcaster, viewers, status, capture, pcs, seat, shown, pc,
                  answering, overtaken, up, down>>
  BY DEF Fetched, server, watcher, wire
<1>3. /\ opened' = [opened EXCEPT ![b] = opened[b] + 1]
      /\ sock' = [sock EXCEPT ![<<b, opened[b] + 1>>] = "opening"]
      /\ astray' = [astray EXCEPT ![b] = astray[b] \/ Dialled(b)]
  BY DEF Fetched
<1>4. /\ opened'[b] = opened[b] + 1 /\ \A a \in Stations : a # b => opened'[a] = opened[a]
      /\ sock'[<<b, opened[b] + 1>>] = "opening"
      /\ \A s \in Sessions : s # <<b, opened[b] + 1>> => sock'[s] = sock[s]
      /\ astray'[b] = (astray[b] \/ Dialled(b))
      /\ \A a \in Stations : a # b => astray'[a] = astray[a]
  BY <1>1, <1>3 DEF TypeOK
<1>5. QED BY <1>1, <1>2, <1>4 DEF Current

LEMMA OpenedDoes ==
  ASSUME InductiveInv, NEW s \in Sessions, Opened(s)
  PROVE  /\ sock[s] = "opening" /\ sock'[s] = "open"
         /\ \A x \in Sessions : x # s => sock'[x] = sock[x]
         /\ up'[s] = Append(up[s], [type |-> "register"])
         /\ \A x \in Ends : x # s => up'[x] = up[x]
         /\ up' \in [Ends -> Seq(Requests)] /\ [type |-> "register"] \in Requests
         /\ UNCHANGED <<broadcaster, viewers, flow, capture, opened, pcs, astray, seat, shown, pc,
                        answering, overtaken, down>>
<1>1. up' = Asked(s, [type |-> "register"])
  BY DEF Opened
<1>2. QED BY <1>1, AskedDoes, Messages, Apart DEF InductiveInv, TypeOK, Opened, server, watcher

\* The three messages a broadcast page hears change the connection to a viewer.
LEMMA HeardDoes ==
  ASSUME InductiveInv, NEW s \in Sessions, NEW type, NEW new \in Pcs,
         Hears(s, type), type \in {"viewer-joined", "viewer-left", "answer"},
         SetPc(s[1], Head(down[s]).viewer, new),
         UNCHANGED <<flow, status, capture, opened, sock, astray, server, watcher, up>>
  PROVE  /\ sock[s] = "open" /\ down[s] \in Seq(Notices) /\ down[s] # <<>>
         /\ Head(down[s]).type = type /\ Head(down[s]).viewer \in Watchers
         /\ down'[s] = Tail(down[s]) /\ \A x \in Ends : x # s => down'[x] = down[x]
         /\ down' \in [Ends -> Seq(Notices)]
         /\ pcs'[s[1]][Head(down[s]).viewer] = new
         /\ \A b \in Stations, w \in Watchers :
              b # s[1] \/ w # Head(down[s]).viewer => pcs'[b][w] = pcs[b][w]
         /\ pcs' \in [Stations -> [Watchers -> Pcs]]
         /\ UNCHANGED <<broadcaster, viewers, flow, status, capture, opened, sock, astray, seat,
                        shown, pc, answering, overtaken, up>>
<1>1. /\ Listens(s) /\ down[s] # <<>> /\ Head(down[s]).type = type /\ Head(down[s]) \in Notices
      /\ down'[s] = Tail(down[s]) /\ \A y \in Ends : y # s => down'[y] = down[y]
      /\ down[s] \in Seq(Notices) /\ down' \in [Ends -> Seq(Notices)]
  BY HearsDoes, Apart DEF InductiveInv
<1>2. Head(down[s]).viewer \in Watchers
  BY <1>1, MessagesCarry
<1>3. s[1] \in Stations
  BY Apart
<1>4. QED BY <1>1, <1>2, <1>3, SetPcDoes, Listening DEF server, watcher, InductiveInv

LEMMA ViewerJoinedDoes ==
  ASSUME InductiveInv, NEW s \in Sessions, ViewerJoined(s)
  PROVE  \E new \in Pcs :
           /\ new.state = "offering" /\ Hears(s, "viewer-joined")
           /\ SetPc(s[1], Head(down[s]).viewer, new)
           /\ UNCHANGED <<flow, status, capture, opened, sock, astray, server, watcher, up>>
<1>1. [of |-> s, state |-> "offering"] \in Pcs
  BY Connections
<1>2. QED BY <1>1 DEF ViewerJoined

LEMMA AnsweredDoes ==
  ASSUME InductiveInv, NEW s \in Sessions, Answered(s)
  PROVE  \E new \in Pcs :
           LET old == pcs[s[1]][Head(down[s]).viewer]
           IN /\ new = old \/ (old.state = "offered" /\ new.state = "answered")
              /\ old.state = "offered" => new.state = "answered"
              /\ old \in Pcs
              /\ Hears(s, "answer") /\ SetPc(s[1], Head(down[s]).viewer, new)
              /\ UNCHANGED <<flow, status, capture, opened, sock, astray, server, watcher, up>>
<1> DEFINE w == Head(down[s]).viewer
           old == pcs[s[1]][w]
           new == IF old.state = "offered" THEN [old EXCEPT !.state = "answered"] ELSE old
<1>1. Hears(s, "answer") /\ SetPc(s[1], w, new)
      /\ UNCHANGED <<flow, status, capture, opened, sock, astray, server, watcher, up>>
  BY DEF Answered
<1>2. w \in Watchers
  BY <1>1, HearsDoes, MessagesCarry, Apart DEF InductiveInv
<1>3. old \in Pcs
  BY <1>2, Apart DEF InductiveInv, TypeOK
<1> HIDE DEF old
<1>4. new \in Pcs /\ (old.state = "offered" => new.state = "answered")
      /\ (old.state # "offered" => new = old)
  BY <1>3, Connections
<1> HIDE DEF new
<1>5. QED BY <1>1, <1>3, <1>4 DEF old

LEMMA ViewerLeftDoes ==
  ASSUME InductiveInv, NEW s \in Sessions, ViewerLeft(s)
  PROVE  /\ Hears(s, "viewer-left") /\ SetPc(s[1], Head(down[s]).viewer, NoPc)
         /\ UNCHANGED <<flow, status, capture, opened, sock, astray, server, watcher, up>>
  BY DEF ViewerLeft

LEMMA OfferMadeDoes ==
  ASSUME InductiveInv, NEW b \in Stations, NEW w \in Watchers, OfferMade(b, w)
  PROVE  /\ pcs[b][w].state = "offering" /\ pcs'[b][w].state = "offered"
         /\ \A a \in Stations, v \in Watchers : a # b \/ v # w => pcs'[a][v] = pcs[a][v]
         /\ pcs' \in [Stations -> [Watchers -> Pcs]]
         /\ Current(b) \in Sessions
         /\ \A x \in Ends : x # Current(b) => up'[x] = up[x]
         /\ sock[Current(b)] # "open" => up' = up
         /\ sock[Current(b)] = "open" =>
              \E m \in Requests : /\ m.type = "offer" /\ m.to = w
                                  /\ up'[Current(b)] = Append(up[Current(b)], m)
         /\ up' \in [Ends -> Seq(Requests)]
         /\ UNCHANGED <<broadcaster, viewers, flow, status, capture, opened, sock, astray, seat,
                        shown, pc, answering, overtaken, down>>
<1> USE DEF InductiveInv
<1> DEFINE old == pcs[b][w]
           m == [type |-> "offer", of |-> old.of, to |-> w]
<1>1. /\ old.state = "offering" /\ SetPc(b, w, [old EXCEPT !.state = "offered"])
      /\ up' = IF sock[Current(b)] = "open" THEN Asked(Current(b), m) ELSE up
      /\ UNCHANGED <<broadcaster, viewers, flow, status, capture, opened, sock, astray, seat,
                     shown, pc, answering, overtaken, down>>
  BY DEF OfferMade, server, watcher
<1>2. old \in Pcs /\ old # NoPc
  BY <1>1, Connections DEF TypeOK
<1> HIDE DEF old
<1>3. /\ [old EXCEPT !.state = "offered"] \in Pcs /\ old.of \in Sessions
      /\ [old EXCEPT !.state = "offered"].state = "offered"
  BY <1>1, <1>2, Connections
<1>4. m \in Requests /\ m.type = "offer" /\ m.to = w
  BY <1>3, Messages
<1>5. Current(b) \in Sessions
  <2>1. CASE astray[b]
    BY <2>1, PresentSocket DEF Sockets
  <2>2. CASE ~astray[b]
    BY <1>2, <2>2 DEF Connected, old
  <2>3. QED BY <2>1, <2>2
<1>6. /\ pcs' \in [Stations -> [Watchers -> Pcs]] /\ pcs'[b][w].state = "offered"
      /\ \A a \in Stations, v \in Watchers : a # b \/ v # w => pcs'[a][v] = pcs[a][v]
      /\ pcs[b][w].state = "offering"
  <2> DEFINE new == [old EXCEPT !.state = "offered"]
  <2>1. SetPc(b, w, new) /\ new \in Pcs /\ new.state = "offered"
    BY <1>1, <1>3
  <2> HIDE DEF new
  <2>2. /\ pcs' \in [Stations -> [Watchers -> Pcs]] /\ pcs'[b][w] = new
        /\ \A a \in Stations, v \in Watchers : a # b \/ v # w => pcs'[a][v] = pcs[a][v]
    BY <2>1, SetPcDoes
  <2>3. QED BY <1>1, <2>1, <2>2 DEF old
<1> HIDE DEF m
<1>7. CASE sock[Current(b)] = "open"
  <2>1. up' = Asked(Current(b), m) /\ Current(b) \in Ends
    BY <1>1, <1>5, <1>7, Apart
  <2>2. /\ up'[Current(b)] = Append(up[Current(b)], m)
        /\ \A x \in Ends : x # Current(b) => up'[x] = up[x]
        /\ up' \in [Ends -> Seq(Requests)]
    BY <1>4, <2>1, AskedDoes
  <2>3. \E r \in Requests : /\ r.type = "offer" /\ r.to = w
                            /\ up'[Current(b)] = Append(up[Current(b)], r)
    BY <1>4, <2>2
  <2>4. QED BY <1>1, <1>7, <1>6, <1>5, <2>2, <2>3
<1>8. CASE sock[Current(b)] # "open"
  <2>1. up' = up
    BY <1>1, <1>8
  <2>2. up' \in [Ends -> Seq(Requests)]
    BY <2>1 DEF TypeOK
  <2>3. QED BY <1>1, <1>5, <1>8, <1>6, <2>1, <2>2
<1>9. QED BY <1>7, <1>8

LEMMA StopSharingDoes ==
  ASSUME InductiveInv, NEW b \in Stations, StopSharing(b)
  PROVE  /\ UNCHANGED <<broadcaster, viewers, flow, opened, astray, seat, shown, pc, answering,
                        overtaken>>
         /\ \A a \in Stations, w \in Watchers :
              pcs'[a][w] = IF a = b THEN NoPc ELSE pcs[a][w]
         /\ Dialled(b) =>
              /\ Current(b) \in Sessions /\ sock'[Current(b)] = "closing"
              /\ sock[Current(b)] = "open" =>
                   up'[Current(b)] = Append(up[Current(b)], [type |-> "close"])
              /\ sock[Current(b)] # "open" => up' = up
              /\ down'[Current(b)] = <<>>
              /\ \A x \in Ends : x # Current(b) => up'[x] = up[x] /\ down'[x] = down[x]
              /\ \A s \in Sessions : s # Current(b) => sock'[s] = sock[s]
         /\ ~Dialled(b) => UNCHANGED <<sock, up, down>>
         /\ up' \in [Ends -> Seq(Requests)] /\ down' \in [Ends -> Seq(Notices)]
         /\ pcs' \in [Stations -> [Watchers -> Pcs]] /\ [type |-> "close"] \in Requests
<1> USE DEF InductiveInv
<1>1. UNCHANGED <<broadcaster, viewers, flow, opened, astray, seat, shown, pc, answering, overtaken>>
      /\ pcs' = [pcs EXCEPT ![b] = [w \in Watchers |-> NoPc]]
  BY DEF StopSharing, server, watcher
<1>2. /\ \A a \in Stations, w \in Watchers : pcs'[a][w] = IF a = b THEN NoPc ELSE pcs[a][w]
      /\ pcs' \in [Stations -> [Watchers -> Pcs]]
  BY <1>1, Connections DEF TypeOK
<1>3. [type |-> "close"] \in Requests
  BY Messages
<1>4. CASE ~Dialled(b)
  <2>1. UNCHANGED <<sock, up, down>>
    BY <1>4 DEF StopSharing
  <2>2. QED BY <1>1, <1>2, <1>3, <1>4, <2>1 DEF TypeOK
<1>5. CASE Dialled(b)
  <2>1. Current(b) \in Sessions /\ Current(b) \in Ends
    BY <1>5, PresentSocket, Apart DEF Dialled
  <2>2. /\ sock' = [sock EXCEPT ![Current(b)] = "closing"]
        /\ up' = IF sock[Current(b)] = "open" THEN Asked(Current(b), [type |-> "close"]) ELSE up
        /\ down' = [down EXCEPT ![Current(b)] = <<>>]
    BY <1>5 DEF StopSharing
  <2>3. /\ down'[Current(b)] = <<>> /\ \A x \in Ends : x # Current(b) => down'[x] = down[x]
        /\ down' \in [Ends -> Seq(Notices)]
        /\ sock'[Current(b)] = "closing"
        /\ \A s \in Sessions : s # Current(b) => sock'[s] = sock[s]
    BY <2>1, <2>2 DEF TypeOK
  <2>4. CASE sock[Current(b)] = "open"
    <3>1. /\ up'[Current(b)] = Append(up[Current(b)], [type |-> "close"])
          /\ \A x \in Ends : x # Current(b) => up'[x] = up[x]
          /\ up' \in [Ends -> Seq(Requests)]
      BY <1>3, <2>1, <2>2, <2>4, AskedDoes
    <3>2. QED BY <1>1, <1>2, <1>3, <1>5, <2>1, <2>3, <2>4, <3>1
  <2>5. CASE sock[Current(b)] # "open"
    <3>1. up' = up /\ up' \in [Ends -> Seq(Requests)]
      BY <2>2, <2>5 DEF TypeOK
    <3>2. QED BY <1>1, <1>2, <1>3, <1>5, <2>1, <2>3, <2>5, <3>1
  <2>6. QED BY <2>4, <2>5
<1>6. QED BY <1>4, <1>5

LEMMA LostDoes ==
  ASSUME InductiveInv, NEW s \in Sessions, Lost(s)
  PROVE  /\ UNCHANGED <<broadcaster, viewers, flow, capture, opened, pcs, seat, shown, pc,
                        answering, overtaken>>
         /\ sock[s] = "open" /\ sock'[s] = "closed"
         /\ \A x \in Sessions : x # s => sock'[x] = sock[x]
         /\ astray'[s[1]] /\ \A b \in Stations : b # s[1] => astray'[b] = astray[b]
         /\ up'[s] = Append(up[s], [type |-> "close"]) /\ [type |-> "close"] \in Requests
         /\ down'[s] = <<>>
         /\ \A x \in Ends : x # s => up'[x] = up[x] /\ down'[x] = down[x]
         /\ up' \in [Ends -> Seq(Requests)] /\ down' \in [Ends -> Seq(Notices)]
<1>1. up' = Asked(s, [type |-> "close"])
  BY DEF Lost
<1>2. QED BY <1>1, AskedDoes, Messages, Apart DEF InductiveInv, TypeOK, Lost, server, watcher

\* A watch page hears something.
LEMMA WatcherHears ==
  ASSUME InductiveInv, NEW w \in Watchers, NEW type, Hears(w, type)
  PROVE  /\ seat[w] = "open" /\ down[w] \in Seq(Notices) /\ down[w] # <<>>
         /\ Head(down[w]) \in Notices /\ Head(down[w]).type = type
         /\ down'[w] = Tail(down[w]) /\ \A x \in Ends : x # w => down'[x] = down[x]
         /\ down' \in [Ends -> Seq(Notices)]
  BY HearsDoes, Listening, Apart DEF InductiveInv

LEMMA AnswerMadeDoes ==
  ASSUME InductiveInv, NEW w \in Watchers, NEW s \in Sessions, AnswerMade(w, s)
  PROVE  /\ s \in answering[w]
         /\ UNCHANGED <<broadcaster, viewers, flow, status, capture, opened, sock, pcs, astray,
                        seat, down>>
         /\ shown'[w] = "live" /\ \A v \in Watchers : v # w => shown'[v] = shown[v]
         /\ \A v \in Watchers : v # w => answering'[v] = answering[v] /\ overtaken'[v] = overtaken[v]
         /\ overtaken'[w] = (overtaken[w] \/ (shown[w] = "offline" /\ broadcaster # s))
         /\ \A x \in Ends : x # w => up'[x] = up[x]
         /\ seat[w] # "open" => up'[w] = up[w]
         /\ seat[w] = "open" => \E m \in Requests : m.type = "answer" /\ up'[w] = Append(up[w], m)
         /\ up' \in [Ends -> Seq(Requests)]
<1> USE DEF InductiveInv
<1> DEFINE m == [type |-> "answer", of |-> s]
<1>1. /\ s \in answering[w] /\ up' = IF seat[w] = "open" THEN Asked(w, m) ELSE up
      /\ UNCHANGED <<broadcaster, viewers, flow, status, capture, opened, sock, pcs, astray,
                     seat, down>>
      /\ shown'[w] = "live" /\ \A v \in Watchers : v # w => shown'[v] = shown[v]
      /\ \A v \in Watchers : v # w => answering'[v] = answering[v] /\ overtaken'[v] = overtaken[v]
      /\ overtaken'[w] = (overtaken[w] \/ (shown[w] = "offline" /\ broadcaster # s))
  BY DEF AnswerMade, server, station, TypeOK
<1>2. m \in Requests /\ m.type = "answer"
  BY Messages
<1> HIDE DEF m
<1>3. CASE seat[w] = "open"
  <2>1. up' = Asked(w, m) /\ w \in Ends
    BY <1>1, <1>3, Apart
  <2>2. /\ up'[w] = Append(up[w], m) /\ \A x \in Ends : x # w => up'[x] = up[x]
        /\ up' \in [Ends -> Seq(Requests)]
    BY <1>2, <2>1, AskedDoes
  <2>3. QED BY <1>1, <1>2, <1>3, <2>2
<1>4. CASE seat[w] # "open"
  BY <1>1, <1>4 DEF TypeOK
<1>5. QED BY <1>3, <1>4

LEMMA CloseSeatDoes ==
  ASSUME InductiveInv, NEW w \in Watchers, NEW how \in {"lost", "left"}, CloseSeat(w, how)
  PROVE  /\ seat[w] = "open" /\ seat'[w] = how /\ \A v \in Watchers : v # w => seat'[v] = seat[v]
         /\ UNCHANGED <<broadcaster, viewers, flow, status, capture, opened, sock, pcs, astray>>
         /\ down'[w] = <<>>
         /\ \A x \in Ends : x # w => up'[x] = up[x] /\ down'[x] = down[x]
         /\ up' \in [Ends -> Seq(Requests)] /\ down' \in [Ends -> Seq(Notices)]
<1>1. up' = Asked(w, [type |-> "close"])
  BY DEF CloseSeat
<1>2. QED BY <1>1, AskedDoes, Messages, Apart DEF InductiveInv, TypeOK, CloseSeat, server, station

(***************************************************************************)
(* The bound on sockets, and types                                         *)
(***************************************************************************)
Used    == {s \in Sessions : sock[s] # "none"}
Flowing == {b \in Stations : flow[b] # "none"}

LEMMA FiniteSets ==
  /\ IsFiniteSet(Sessions) /\ IsFiniteSet(Stations)
  /\ \A S \in SUBSET Sessions : IsFiniteSet(S) /\ Cardinality(S) \in Nat
  /\ \A S \in SUBSET Stations : IsFiniteSet(S) /\ Cardinality(S) \in Nat
  /\ \A S \in SUBSET Watchers : IsFiniteSet(S) /\ Cardinality(S) \in Nat
<1>1. IsFiniteSet(Stations) /\ IsFiniteSet(Watchers)
  BY MonitorAssumption
<1>2. IsFiniteSet(1..MaxShares)
  BY FS_Interval, Apart
<1>3. IsFiniteSet(Sessions)
  BY <1>1, <1>2, FS_Product DEF Sessions
<1>4. QED BY <1>1, <1>3, FS_Subset, FS_CardinalityType

LEMMA OneMoreOrLess ==
  ASSUME NEW S, IsFiniteSet(S), Cardinality(S) \in Nat, NEW x
  PROVE  /\ Cardinality(S \cup {x}) \in Nat /\ Cardinality(S \cup {x}) <= Cardinality(S) + 1
         /\ Cardinality(S \ {x}) \in Nat /\ Cardinality(S \ {x}) <= Cardinality(S)
<1>1. IsFiniteSet(S \cup {x}) /\ IsFiniteSet(S \ {x})
  BY FS_AddElement, FS_RemoveElement
<1>2. Cardinality(S \cup {x}) \in Nat /\ Cardinality(S \ {x}) \in Nat
  BY <1>1, FS_CardinalityType
<1>3. CASE x \in S
  <2>1. S \cup {x} = S /\ S \ {x} \in SUBSET S
    BY <1>3
  <2>2. QED BY <1>2, <2>1, FS_Subset
<1>4. CASE x \notin S
  <2>1. S \ {x} = S
    BY <1>4
  <2>2. Cardinality(S \cup {x}) = Cardinality(S) + 1
    BY <1>4, FS_AddElement
  <2>3. QED BY <1>2, <2>1, <2>2
<1>5. QED BY <1>3, <1>4

\* A page that is about to open a socket has not opened all of them.
LEMMA NextSocketFits ==
  ASSUME TypeOK, Sockets, NEW b \in Stations, flow[b] # "none"
  PROVE  opened[b] < MaxShares
<1> DEFINE n == opened[b]
           f == [k \in 1..n |-> <<b, k>>]
<1>1. n \in 0..MaxShares /\ MaxShares \in Nat
  BY Apart DEF TypeOK
<1>2. f \in Injection(1..n, Used)
  <2>1. \A k \in 1..n : <<b, k>> \in Used
    <3>1. SUFFICES ASSUME NEW k \in 1..n PROVE <<b, k>> \in Used
      OBVIOUS
    <3>2. <<b, k>> \in Sessions /\ ~(k > n)
      BY <1>1, Apart
    <3>3. <<b, k>>[1] = b /\ <<b, k>>[2] = k
      OBVIOUS
    <3>4. sock[<<b, k>>] # "none"
      BY <3>2, <3>3 DEF Sockets
    <3>5. QED BY <3>2, <3>4 DEF Used
  <2>2. f \in [1..n -> Used] /\ \A i, j \in 1..n : f[i] = f[j] => i = j
    BY <2>1
  <2>3. QED BY <2>2 DEF Injection, IsInjective
<1>3. IsFiniteSet(Used) /\ Cardinality(Used) \in Nat
      /\ IsFiniteSet(Flowing) /\ Cardinality(Flowing) \in Nat
  BY FiniteSets DEF Used, Flowing
<1>4. Cardinality(1..n) <= Cardinality(Used)
  BY <1>2, <1>3, FS_Injection
<1>5. Cardinality(1..n) = n
  BY <1>1, FS_Interval
<1>6. Cardinality(Flowing) # 0
  <2>1. b \in Flowing
    BY DEF Flowing
  <2>2. QED BY <1>3, <2>1, FS_EmptySet
<1>7. Cardinality(Used) + Cardinality(Flowing) <= MaxShares
  BY DEF Sockets, Used, Flowing
<1>8. QED BY <1>1, <1>3, <1>4, <1>5, <1>6, <1>7

LEMMA SocketsKept ==
  ASSUME InductiveInv, Next
  PROVE  Sockets'
<1> USE DEF InductiveInv
<1>0. /\ Used \subseteq Sessions /\ IsFiniteSet(Used) /\ Cardinality(Used) \in Nat
      /\ Flowing \subseteq Stations /\ IsFiniteSet(Flowing) /\ Cardinality(Flowing) \in Nat
      /\ Cardinality(Used) + Cardinality(Flowing) <= MaxShares /\ MaxShares \in Nat
  BY FiniteSets, Apart DEF Used, Flowing, Sockets
<1>1. ASSUME UNCHANGED opened,
             \A s \in Sessions : /\ sock'[s] = "none" <=> sock[s] = "none"
                                 /\ sock'[s] \in {"opening", "open"} => sock[s] \in {"opening", "open"},
             \A b \in Stations : /\ astray[b] => astray'[b]
                                 /\ astray'[b] => astray[b] \/ opened[b] > 0,
             Cardinality(Flowing') <= Cardinality(Flowing)
             \/ Cardinality(Used) + Cardinality(Flowing') <= MaxShares,
             Cardinality(Flowing') \in Nat
      PROVE  Sockets'
  <2>1. Used' = Used
    BY <1>1 DEF Used
  <2>2. Cardinality(Used') + Cardinality(Flowing') <= MaxShares
    BY <1>0, <1>1, <2>1
  <2>3. \A b \in Stations : opened'[b] = opened[b] /\ Current(b)' = Current(b)
    BY <1>1 DEF Current
  <2>4. \A s \in Sessions : s[1] \in Stations
    BY Apart
  <2>5. QED BY <1>1, <2>2, <2>3, <2>4 DEF Sockets, Used, Flowing
<1>2. ASSUME UNCHANGED <<flow, opened, sock, astray>> PROVE Sockets'
  <2>1. Flowing' = Flowing
    BY <1>2 DEF Flowing
  <2>2. QED BY <1>0, <1>1, <1>2, <2>1
<1>3. CASE ServerStep
  <2>1. UNCHANGED <<flow, opened, sock, astray>>
    BY <1>3 DEF ServerStep, RegisterBroadcaster, RelayOffer, CloseBroadcaster, RegisterViewer,
                RefuseViewer, RelayAnswer, CloseViewer, Takes, Visits, station
  <2>2. QED BY <1>2, <2>1
<1>4. CASE WatcherStep
  <2>1. UNCHANGED <<flow, opened, sock, astray>>
    BY <1>4 DEF WatcherStep, Registered, Refused, Offered, BroadcasterLeft, Leave, LoseSeat,
                CloseSeat, AnswerMade, station
  <2>2. QED BY <1>2, <2>1
<1>5. ASSUME NEW b \in Stations, StartSharing(b) PROVE Sockets'
  <2>1. /\ flow' = [flow EXCEPT ![b] = "picking"] /\ UNCHANGED <<opened, sock, astray>>
        /\ Cardinality(Used) + Cardinality(Flowing) < MaxShares
    BY <1>5 DEF StartSharing, Used, Flowing
  <2>2. Flowing' = Flowing \cup {b}
    BY <2>1 DEF Flowing, TypeOK
  <2>3. Cardinality(Flowing') \in Nat /\ Cardinality(Flowing') <= Cardinality(Flowing) + 1
    BY <1>0, <2>2, OneMoreOrLess
  <2>4. Cardinality(Used) + Cardinality(Flowing') <= MaxShares
    BY <1>0, <2>1, <2>3
  <2>5. QED BY <1>1, <2>1, <2>3, <2>4
<1>6. ASSUME NEW b \in Stations, PickerCancelled(b) PROVE Sockets'
  <2>1. flow' = [flow EXCEPT ![b] = "none"] /\ UNCHANGED <<opened, sock, astray>>
    BY <1>6 DEF PickerCancelled
  <2>2. Flowing' \subseteq Flowing
    BY <2>1 DEF Flowing, TypeOK
  <2>3. Cardinality(Flowing') \in Nat /\ Cardinality(Flowing') <= Cardinality(Flowing)
    BY <1>0, <2>2, FS_Subset, FiniteSets
  <2>4. QED BY <1>0, <1>1, <2>1, <2>3
<1>7. ASSUME NEW b \in Stations, Picked(b) PROVE Sockets'
  <2>1. /\ flow[b] = "picking" /\ flow' = [flow EXCEPT ![b] = "fetching"]
        /\ UNCHANGED <<opened, sock, astray>>
    BY <1>7 DEF Picked
  <2>2. Flowing' = Flowing
    BY <2>1 DEF Flowing, TypeOK
  <2>3. QED BY <1>0, <1>1, <2>1, <2>2
<1>8. ASSUME NEW b \in Stations, Fetched(b) PROVE Sockets'
  <2>1. /\ flow[b] = "fetching" /\ flow' = [flow EXCEPT ![b] = "none"]
    BY <1>8 DEF Fetched
  <2>2. opened[b] < MaxShares
    BY <2>1, NextSocketFits
  <2> DEFINE t == <<b, opened[b] + 1>>
  <2>3. /\ opened'[b] = opened[b] + 1 /\ Current(b)' = t /\ t \in Sessions
        /\ sock'[t] = "opening"
        /\ \A s \in Sessions : s # t => sock'[s] = sock[s]
        /\ \A a \in Stations : a # b => /\ Current(a)' = Current(a) /\ opened'[a] = opened[a]
                                        /\ astray'[a] = astray[a]
        /\ astray'[b] = (astray[b] \/ Dialled(b))
    BY <1>8, <2>2, FetchedDoes
  <2>4. /\ opened[b] \in Nat /\ t[1] = b /\ t[2] = opened[b] + 1
        /\ \A s \in Sessions : s[1] \in Stations /\ s[2] \in Nat /\ s = <<s[1], s[2]>>
        /\ opened[b] > 0 => Current(b) \in Sessions
    BY PresentSocket, Apart
  <2>5. sock[t] = "none"
    BY <2>3, <2>4 DEF Sockets
  <2>6. Used' = Used \cup {t} /\ t \notin Used
    BY <2>3, <2>5 DEF Used
  <2>7. Flowing' = Flowing \ {b} /\ b \in Flowing
    BY <2>1 DEF Flowing, TypeOK
  <2>8. Cardinality(Used') = Cardinality(Used) + 1
    BY <1>0, <2>6, FS_AddElement
  <2>9. Cardinality(Flowing') = Cardinality(Flowing) - 1
    BY <1>0, <2>7, FS_RemoveElement
  <2>10. Cardinality(Used') + Cardinality(Flowing') <= MaxShares
    BY <1>0, <2>8, <2>9
  <2> HIDE DEF t
  <2>11. \A s \in Sessions : sock'[s] = "none" <=> s[2] > opened'[s[1]]
    <3>1. SUFFICES ASSUME NEW s \in Sessions PROVE sock'[s] = "none" <=> s[2] > opened'[s[1]]
      OBVIOUS
    <3>2. CASE s = t
      BY <2>3, <2>4, <3>2
    <3>3. CASE s # t /\ s[1] = b
      <4>1. s[2] # opened[b] + 1
        BY <2>4, <3>3 DEF t
      <4>2. QED BY <2>3, <2>4, <3>3, <4>1 DEF Sockets
    <3>4. CASE s[1] # b
      <4>1. s # t
        BY <2>4, <3>4
      <4>2. QED BY <2>3, <2>4, <3>4, <4>1 DEF Sockets
    <3>5. QED BY <3>2, <3>3, <3>4
  <2>12. \A s \in Sessions :
           sock'[s] \in {"opening", "open"} => s = Current(s[1])' \/ astray'[s[1]]
    <3>1. SUFFICES ASSUME NEW s \in Sessions, sock'[s] \in {"opening", "open"}
                   PROVE  s = Current(s[1])' \/ astray'[s[1]]
      OBVIOUS
    <3>2. CASE s = t
      BY <2>3, <2>4, <3>2
    <3>3. CASE s # t /\ s[1] = b
      <4>1. sock[s] \in {"opening", "open"} /\ (s = Current(b) \/ astray[b])
        BY <2>3, <3>1, <3>3 DEF Sockets
      <4>2. s = Current(b) => Dialled(b)
        <5>1. s = Current(b) => opened[b] > 0
          BY PresentSocket
        <5>2. QED BY <4>1, <5>1 DEF Dialled
      <4>3. QED BY <2>3, <3>3, <4>1, <4>2
    <3>4. CASE s[1] # b
      <4>1. s # t
        BY <2>4, <3>4
      <4>2. QED BY <2>3, <2>4, <3>1, <3>4, <4>1 DEF Sockets
    <3>5. QED BY <3>2, <3>3, <3>4
  <2>13. \A a \in Stations : astray'[a] => opened'[a] > 0
    BY <2>3, <2>4 DEF Sockets
  <2>14. QED BY <2>10, <2>11, <2>12, <2>13 DEF Sockets, Used, Flowing
<1>9. ASSUME NEW b \in Stations, StopSharing(b) PROVE Sockets'
  <2>1. Flowing' = Flowing
    BY <1>9, StopSharingDoes DEF Flowing
  <2>2. \A s \in Sessions : /\ sock'[s] = "none" <=> sock[s] = "none"
                            /\ sock'[s] \in {"opening", "open"} => sock[s] \in {"opening", "open"}
    <3>1. CASE Dialled(b)
      <4>1. /\ sock'[Current(b)] = "closing"
            /\ \A s \in Sessions : s # Current(b) => sock'[s] = sock[s]
        BY <1>9, <3>1, StopSharingDoes
      <4>2. sock[Current(b)] \in {"opening", "open"}
        BY <3>1 DEF Dialled
      <4>3. QED BY <4>1, <4>2
    <3>2. CASE ~Dialled(b)
      BY <1>9, <3>2, StopSharingDoes
    <3>3. QED BY <3>1, <3>2
  <2>3. QED BY <1>0, <1>1, <1>9, <2>1, <2>2, StopSharingDoes
<1>10. ASSUME NEW b \in Stations, NEW w \in Watchers, OfferMade(b, w) PROVE Sockets'
  BY <1>2, <1>10 DEF OfferMade
<1>11. ASSUME NEW s \in Sessions, Opened(s) \/ Closed(s) PROVE Sockets'
  <2>1. UNCHANGED <<flow, opened, astray>>
    BY <1>11 DEF Opened, Closed
  <2>2. \A x \in Sessions : /\ sock'[x] = "none" <=> sock[x] = "none"
                            /\ sock'[x] \in {"opening", "open"} => sock[x] \in {"opening", "open"}
    BY <1>11 DEF Opened, Closed, TypeOK
  <2>3. Flowing' = Flowing
    BY <2>1 DEF Flowing
  <2>4. QED BY <1>0, <1>1, <2>1, <2>2, <2>3
<1>12. ASSUME NEW s \in Sessions, ViewerJoined(s) \/ Answered(s) \/ ViewerLeft(s) PROVE Sockets'
  BY <1>2, <1>12 DEF ViewerJoined, Answered, ViewerLeft
<1>13. ASSUME NEW s \in Sessions, Lost(s) PROVE Sockets'
  <2>1. /\ UNCHANGED <<flow, opened>> /\ sock[s] = "open" /\ sock'[s] = "closed"
        /\ \A x \in Sessions : x # s => sock'[x] = sock[x]
        /\ \A b \in Stations : b # s[1] => astray'[b] = astray[b]
        /\ astray'[s[1]]
    BY <1>13, LostDoes
  <2>2. opened[s[1]] > 0
    BY <2>1, Apart, PresentSocket DEF Sockets
  <2>3. Flowing' = Flowing
    BY <2>1 DEF Flowing
  <2>4. QED BY <1>0, <1>1, <2>1, <2>2, <2>3
<1>14. QED BY <1>3, <1>4, <1>5, <1>6, <1>7, <1>8, <1>9, <1>10, <1>11, <1>12, <1>13
           DEF Next, StationStep

LEMMA TypeKept ==
  ASSUME InductiveInv, Next
  PROVE  TypeOK'
<1> USE DEF InductiveInv
\* What a request taken from the wire leaves to show.
<1>0. ASSUME NEW x \in Ends, NEW type, Takes(x, type),
             broadcaster' \in Sessions \cup {NoSession}, viewers' \subseteq Watchers,
             Cardinality(viewers') <= MaxViewers, down' \in [Ends -> Seq(Notices)]
      PROVE  TypeOK'
  <2>1. /\ UNCHANGED <<flow, status, capture, opened, sock, pcs, astray>>
        /\ UNCHANGED <<seat, shown, pc, answering, overtaken>>
        /\ up' \in [Ends -> Seq(Requests)]
    BY <1>0, TakesDoes
  <2>2. QED BY <1>0, <2>1 DEF TypeOK
<1>1. ASSUME NEW s \in Sessions, RegisterBroadcaster(s) PROVE TypeOK'
  <2>1. /\ Takes(s, "register") /\ broadcaster' = s /\ viewers' = viewers
        /\ down' \in [Ends -> Seq(Notices)]
    BY <1>1, RegisterDoes
  <2>2. s \in Ends /\ viewers \subseteq Watchers /\ Cardinality(viewers) <= MaxViewers
    BY Apart DEF TypeOK
  <2>3. QED BY <1>0, <2>1, <2>2
<1>2. ASSUME NEW s \in Sessions, RelayOffer(s) PROVE TypeOK'
  <2>1. /\ Takes(s, "offer") /\ UNCHANGED <<broadcaster, viewers>>
        /\ down' \in [Ends -> Seq(Notices)]
    BY <1>2, RelayOfferDoes
  <2>2. /\ s \in Ends /\ viewers \subseteq Watchers /\ Cardinality(viewers) <= MaxViewers
        /\ broadcaster \in Sessions \cup {NoSession}
    BY Apart DEF TypeOK
  <2>3. QED BY <1>0, <2>1, <2>2
<1>3. ASSUME NEW s \in Sessions, CloseBroadcaster(s) PROVE TypeOK'
  <2>1. /\ Takes(s, "close") /\ viewers' = viewers /\ down' \in [Ends -> Seq(Notices)]
        /\ broadcaster' = broadcaster \/ broadcaster' = NoSession
    BY <1>3, CloseBroadcasterDoes
  <2>2. /\ s \in Ends /\ viewers \subseteq Watchers /\ Cardinality(viewers) <= MaxViewers
        /\ broadcaster \in Sessions \cup {NoSession}
    BY Apart DEF TypeOK
  <2>3. QED BY <1>0, <2>1, <2>2
<1>4. ASSUME NEW w \in Watchers, RegisterViewer(w) PROVE TypeOK'
  <2>1. /\ seat' = [seat EXCEPT ![w] = "open"] /\ viewers' = viewers \cup {w}
        /\ broadcaster' = broadcaster /\ Cardinality(viewers) < MaxViewers
        /\ UNCHANGED <<flow, status, capture, opened, sock, pcs, astray>>
        /\ UNCHANGED <<shown, pc, answering, overtaken, up>>
        /\ down' \in [Ends -> Seq(Notices)]
    BY <1>4, RegisterViewerDoes
  <2>2. IsFiniteSet(viewers) /\ Cardinality(viewers) \in Nat /\ MaxViewers \in Nat
    BY FiniteSets, Apart DEF TypeOK
  <2>3. Cardinality(viewers') <= MaxViewers
    <3>1. Cardinality(viewers \cup {w}) \in Nat
          /\ Cardinality(viewers \cup {w}) <= Cardinality(viewers) + 1
      BY <2>2, OneMoreOrLess
    <3>2. QED BY <2>1, <2>2, <3>1
  <2>4. viewers' \subseteq Watchers /\ seat' \in [Watchers -> {"none", "open", "lost", "left"}]
    BY <2>1 DEF TypeOK
  <2>5. QED BY <2>1, <2>3, <2>4 DEF TypeOK
<1>5. ASSUME NEW w \in Watchers, RefuseViewer(w) PROVE TypeOK'
  <2>1. /\ seat' = [seat EXCEPT ![w] = "open"] /\ UNCHANGED <<viewers, broadcaster>>
        /\ UNCHANGED <<flow, status, capture, opened, sock, pcs, astray>>
        /\ UNCHANGED <<shown, pc, answering, overtaken, up>>
        /\ down' \in [Ends -> Seq(Notices)]
    BY <1>5, RefuseViewerDoes
  <2>2. seat' \in [Watchers -> {"none", "open", "lost", "left"}]
    BY <2>1 DEF TypeOK
  <2>3. QED BY <2>1, <2>2 DEF TypeOK
<1>6. ASSUME NEW w \in Watchers, RelayAnswer(w) PROVE TypeOK'
  <2>1. /\ Takes(w, "answer") /\ UNCHANGED <<broadcaster, viewers>>
        /\ down' \in [Ends -> Seq(Notices)]
    BY <1>6, RelayAnswerDoes
  <2>2. /\ up' \in [Ends -> Seq(Requests)]
        /\ UNCHANGED <<flow, status, capture, opened, sock, pcs, astray>>
        /\ UNCHANGED <<seat, shown, pc, answering, overtaken>>
    BY <2>1, TakesDoes, Apart
  <2>3. QED BY <2>1, <2>2 DEF TypeOK
<1>7. ASSUME NEW w \in Watchers, CloseViewer(w) PROVE TypeOK'
  <2>1. /\ Takes(w, "close") /\ viewers' = viewers \ {w} /\ broadcaster' = broadcaster
        /\ down' \in [Ends -> Seq(Notices)]
    BY <1>7, CloseViewerDoes
  <2>2. IsFiniteSet(viewers) /\ Cardinality(viewers) \in Nat /\ MaxViewers \in Nat
    BY FiniteSets, Apart DEF TypeOK
  <2>3. Cardinality(viewers') <= MaxViewers
    <3>1. Cardinality(viewers \ {w}) \in Nat
          /\ Cardinality(viewers \ {w}) <= Cardinality(viewers)
      BY <2>2, OneMoreOrLess
    <3>2. QED BY <2>1, <2>2, <3>1 DEF TypeOK
  <2>4. w \in Ends /\ viewers' \subseteq Watchers /\ broadcaster \in Sessions \cup {NoSession}
    BY <2>1, Apart DEF TypeOK
  <2>5. QED BY <1>0, <2>1, <2>3, <2>4
<1>8. ASSUME NEW b \in Stations, StartSharing(b) \/ PickerCancelled(b) \/ Picked(b) PROVE TypeOK'
  <2>1. UNCHANGED <<opened, sock, pcs, astray, server, watcher, wire>>
    BY <1>8 DEF StartSharing, PickerCancelled, Picked
  <2>2. /\ \E f \in {"none", "picking", "fetching"} : flow' = [flow EXCEPT ![b] = f]
        /\ \/ status' = status
           \/ \E c \in {"idle", "connecting"} : status' = [status EXCEPT ![b] = c]
        /\ capture' = capture \/ capture' = [capture EXCEPT ![b] = TRUE]
    BY <1>8 DEF StartSharing, PickerCancelled, Picked
  <2>3. flow' \in [Stations -> {"none", "picking", "fetching"}]
    BY <2>2 DEF TypeOK
  <2>4. status' \in [Stations -> {"idle", "connecting", "live"}]
    BY <2>2 DEF TypeOK
  <2>5. capture' \in [Stations -> BOOLEAN]
    BY <2>2 DEF TypeOK
  <2>6. QED BY <2>1, <2>3, <2>4, <2>5 DEF server, watcher, wire, TypeOK
<1>9. ASSUME NEW b \in Stations, Fetched(b) PROVE TypeOK'
  <2>1. opened[b] < MaxShares
    BY <1>9, NextSocketFits DEF Fetched
  <2>2. opened[b] + 1 \in 0..MaxShares
    BY <2>1, Apart DEF TypeOK
  <2>3. /\ flow' = [flow EXCEPT ![b] = "none"] /\ opened' = [opened EXCEPT ![b] = opened[b] + 1]
        /\ sock' = [sock EXCEPT ![<<b, opened[b] + 1>>] = "opening"]
        /\ astray' = [astray EXCEPT ![b] = astray[b] \/ Dialled(b)]
        /\ UNCHANGED <<broadcaster, viewers, status, capture, pcs, seat, shown, pc,
                       answering, overtaken, up, down>>
    BY <1>9 DEF Fetched, server, watcher, wire
  <2>4. (astray[b] \/ Dialled(b)) \in BOOLEAN
    OBVIOUS
  <2>5. QED BY <2>2, <2>3, <2>4 DEF TypeOK
<1>10. ASSUME NEW b \in Stations, StopSharing(b) PROVE TypeOK'
  <2>1. /\ UNCHANGED <<broadcaster, viewers, flow, opened, astray, seat, shown, pc, answering,
                       overtaken>>
        /\ up' \in [Ends -> Seq(Requests)] /\ down' \in [Ends -> Seq(Notices)]
        /\ pcs' \in [Stations -> [Watchers -> Pcs]]
    BY <1>10, StopSharingDoes
  <2>2. /\ capture' = [capture EXCEPT ![b] = FALSE] /\ status' = [status EXCEPT ![b] = "idle"]
        /\ sock' = [sock EXCEPT ![Current(b)] = "closing"] \/ sock' = sock
    BY <1>10 DEF StopSharing
  <2>3. QED BY <2>1, <2>2 DEF TypeOK
<1>11. ASSUME NEW b \in Stations, NEW w \in Watchers, OfferMade(b, w) PROVE TypeOK'
  <2>1. /\ pcs' \in [Stations -> [Watchers -> Pcs]] /\ up' \in [Ends -> Seq(Requests)]
        /\ UNCHANGED <<broadcaster, viewers, flow, status, capture, opened, sock, astray, seat,
                       shown, pc, answering, overtaken, down>>
    BY <1>11, OfferMadeDoes
  <2>2. QED BY <2>1 DEF TypeOK
<1>12. ASSUME NEW s \in Sessions, Opened(s) PROVE TypeOK'
  <2>1. /\ up' \in [Ends -> Seq(Requests)]
        /\ UNCHANGED <<broadcaster, viewers, flow, capture, opened, pcs, astray, seat, shown, pc,
                       answering, overtaken, down>>
    BY <1>12, OpenedDoes
  <2>2. /\ sock' = [sock EXCEPT ![s] = "open"] /\ status' = [status EXCEPT ![s[1]] = "live"]
    BY <1>12 DEF Opened
  <2>3. QED BY <2>1, <2>2 DEF TypeOK
<1>13. ASSUME NEW s \in Sessions, NEW type \in {"viewer-joined", "viewer-left", "answer"},
              NEW new \in Pcs, Hears(s, type), SetPc(s[1], Head(down[s]).viewer, new),
              UNCHANGED <<flow, status, capture, opened, sock, astray, server, watcher, up>>
       PROVE  TypeOK'
  <2>1. /\ down' \in [Ends -> Seq(Notices)] /\ pcs' \in [Stations -> [Watchers -> Pcs]]
        /\ UNCHANGED <<broadcaster, viewers, flow, status, capture, opened, sock, astray, seat,
                       shown, pc, answering, overtaken, up>>
    BY <1>13, HeardDoes
  <2>2. QED BY <2>1 DEF TypeOK
<1>14. ASSUME NEW s \in Sessions, ViewerJoined(s) \/ Answered(s) \/ ViewerLeft(s) PROVE TypeOK'
  BY <1>13, <1>14, ViewerJoinedDoes, AnsweredDoes, ViewerLeftDoes, Connections
<1>15. ASSUME NEW s \in Sessions, Closed(s) PROVE TypeOK'
  BY <1>15 DEF Closed, server, watcher, wire, TypeOK
<1>16. ASSUME NEW s \in Sessions, Lost(s) PROVE TypeOK'
  <2>1. /\ UNCHANGED <<broadcaster, viewers, flow, capture, opened, pcs, seat, shown, pc,
                       answering, overtaken>>
        /\ up' \in [Ends -> Seq(Requests)] /\ down' \in [Ends -> Seq(Notices)]
    BY <1>16, LostDoes
  <2>2. /\ sock' = [sock EXCEPT ![s] = "closed"] /\ status' = [status EXCEPT ![s[1]] = "idle"]
        /\ astray' = [astray EXCEPT ![s[1]] = TRUE]
    BY <1>16 DEF Lost
  <2>3. QED BY <2>1, <2>2 DEF TypeOK
<1>17. ASSUME NEW w \in Watchers, NEW type, Hears(w, type),
              shown' \in [Watchers -> {"connecting", "waiting", "offline", "live", "error"}],
              pc' \in [Watchers -> Sessions \cup {NoSession}],
              answering' \in [Watchers -> SUBSET Sessions],
              UNCHANGED <<seat, overtaken, server, station, up>>
       PROVE  TypeOK'
  <2>1. down' \in [Ends -> Seq(Notices)]
    BY <1>17, WatcherHears
  <2>2. QED BY <1>17, <2>1 DEF TypeOK, server, station
<1>18. ASSUME NEW w \in Watchers, Registered(w) PROVE TypeOK'
  BY <1>17, <1>18 DEF Registered, TypeOK
<1>19. ASSUME NEW w \in Watchers, Refused(w) PROVE TypeOK'
  BY <1>17, <1>19 DEF Refused, TypeOK
<1>20. ASSUME NEW w \in Watchers, Offered(w) PROVE TypeOK'
  <2>1. Head(down[w]).of \in Sessions
    BY <1>20, WatcherHears, MessagesCarry DEF Offered
  <2>2. QED BY <1>17, <1>20, <2>1 DEF Offered, TypeOK
<1>21. ASSUME NEW w \in Watchers, BroadcasterLeft(w) PROVE TypeOK'
  BY <1>17, <1>21 DEF BroadcasterLeft, TypeOK
<1>22. ASSUME NEW w \in Watchers, NEW s \in Sessions, AnswerMade(w, s) PROVE TypeOK'
  <2>1. /\ UNCHANGED <<broadcaster, viewers, flow, status, capture, opened, sock, pcs, astray,
                       seat, down>>
        /\ up' \in [Ends -> Seq(Requests)]
    BY <1>22, AnswerMadeDoes DEF AnswerMade, station
  <2>2. /\ answering' = [answering EXCEPT ![w] = @ \ {s}] /\ pc' = [pc EXCEPT ![w] = s]
        /\ shown' = [shown EXCEPT ![w] = "live"]
    BY <1>22 DEF AnswerMade
  <2>3. overtaken' \in [Watchers -> BOOLEAN]
    BY <1>22 DEF AnswerMade, TypeOK
  <2>4. QED BY <2>1, <2>2, <2>3 DEF TypeOK
<1>23. ASSUME NEW w \in Watchers, NEW how \in {"lost", "left"}, CloseSeat(w, how),
              shown' \in [Watchers -> {"connecting", "waiting", "offline", "live", "error"}],
              pc' \in [Watchers -> Sessions \cup {NoSession}],
              answering' \in [Watchers -> SUBSET Sessions],
              overtaken' \in [Watchers -> BOOLEAN]
       PROVE  TypeOK'
  <2>1. /\ UNCHANGED <<broadcaster, viewers, flow, status, capture, opened, sock, pcs, astray>>
        /\ up' \in [Ends -> Seq(Requests)] /\ down' \in [Ends -> Seq(Notices)]
    BY <1>23, CloseSeatDoes
  <2>2. seat' = [seat EXCEPT ![w] = how]
    BY <1>23 DEF CloseSeat
  <2>3. QED BY <1>23, <2>1, <2>2 DEF TypeOK
<1>24. ASSUME NEW w \in Watchers, Leave(w) PROVE TypeOK'
  BY <1>23, <1>24 DEF Leave, TypeOK
<1>25. ASSUME NEW w \in Watchers, LoseSeat(w) PROVE TypeOK'
  BY <1>23, <1>25 DEF LoseSeat, TypeOK
<1>26. QED
  BY <1>1, <1>2, <1>3, <1>4, <1>5, <1>6, <1>7, <1>8, <1>9, <1>10, <1>11, <1>12, <1>14, <1>15,
     <1>16, <1>18, <1>19, <1>20, <1>21, <1>22, <1>24, <1>25
     DEF Next, ServerStep, StationStep, WatcherStep

(***************************************************************************)
(* Uplink                                                                  *)
(***************************************************************************)
LEMMA UplinkKept ==
  ASSUME InductiveInv, Next, NEW s \in Sessions
  PROVE  Uplink(s)'
<1> USE DEF InductiveInv
<1>0. /\ up[s] \in Seq(Requests) /\ down[s] \in Seq(Notices) /\ Uplink(s)
      /\ s \in Ends /\ s \notin Watchers /\ s # NoSession
      /\ \A w \in Watchers : w \in Ends /\ w # s
      /\ sock[s] \in {"none", "opening", "open", "closing", "closed"}
      /\ \A x \in Sessions : x \in Ends
  BY Apart DEF TypeOK
<1>1. ASSUME up'[s] = up[s], sock'[s] = sock[s], broadcaster' = s => broadcaster = s,
             down'[s] = down[s] \/ (sock[s] = "open" /\ broadcaster = s)
      PROVE  Uplink(s)'
  BY <1>0, <1>1 DEF Uplink
<1>2. ASSUME UNCHANGED <<broadcaster, sock, up>>, down'[s] = down[s]
      PROVE  Uplink(s)'
  BY <1>1, <1>2
<1>3. ASSUME NEW x \in Sessions, RegisterBroadcaster(x) PROVE Uplink(s)'
  <2>1. /\ Takes(x, "register") /\ broadcaster' = x
        /\ \A y \in Ends : y # x => down'[y] = down[y]
        /\ sock[x] # "open" => down'[x] = down[x]
    BY <1>3, RegisterDoes
  <2>2. /\ up[x] # <<>> /\ Head(up[x]).type = "register" /\ up'[x] = Tail(up[x])
        /\ \A y \in Ends : y # x => up'[y] = up[y]
        /\ sock' = sock
    BY <1>0, <2>1, TakesDoes
  <2>3. CASE x # s
    BY <1>0, <1>1, <2>1, <2>2, <2>3
  <2>4. CASE x = s
    <3>1. /\ OnlyFirst(up'[s], "register") /\ ~Has(up'[s], "register") /\ OnlyLast(up'[s], "close")
          /\ Has(up'[s], "close") <=> Has(up[s], "close")
      BY <1>0, <2>2, <2>4, HasTaken DEF Uplink
    <3>2. down[s] = <<>>
      BY <1>0, <2>2, <2>4, HasTaken DEF Uplink
    <3>3. down'[s] # <<>> => sock[s] = "open"
      BY <2>1, <2>4, <3>2
    <3>4. QED BY <1>0, <2>1, <2>2, <2>4, <3>1, <3>3 DEF Uplink
  <2>5. QED BY <2>3, <2>4
<1>4. ASSUME NEW x \in Sessions, RelayOffer(x) PROVE Uplink(s)'
  <2>1. /\ Takes(x, "offer") /\ broadcaster' = broadcaster /\ down'[s] = down[s]
    BY <1>4, RelayOfferDoes
  <2>2. /\ up[x] # <<>> /\ Head(up[x]).type = "offer" /\ up'[x] = Tail(up[x])
        /\ \A y \in Ends : y # x => up'[y] = up[y]
        /\ sock' = sock
    BY <1>0, <2>1, TakesDoes
  <2>3. CASE x # s
    BY <1>0, <1>1, <2>1, <2>2, <2>3
  <2>4. CASE x = s
    <3>1. /\ OnlyFirst(up'[s], "register") /\ ~Has(up'[s], "register") /\ OnlyLast(up'[s], "close")
          /\ Has(up'[s], "close") <=> Has(up[s], "close")
      BY <1>0, <2>2, <2>4, HasTaken DEF Uplink
    <3>2. QED BY <1>0, <2>1, <2>2, <2>4, <3>1 DEF Uplink
  <2>5. QED BY <2>3, <2>4
<1>5. ASSUME NEW x \in Sessions, CloseBroadcaster(x) PROVE Uplink(s)'
  <2>1. /\ Takes(x, "close") /\ down'[s] = down[s]
        /\ IF broadcaster = x THEN broadcaster' = NoSession ELSE broadcaster' = broadcaster
    BY <1>5, CloseBroadcasterDoes
  <2>2. /\ up[x] # <<>> /\ Head(up[x]).type = "close" /\ up'[x] = Tail(up[x])
        /\ \A y \in Ends : y # x => up'[y] = up[y]
        /\ sock' = sock
    BY <1>0, <2>1, TakesDoes
  <2>3. CASE x # s
    BY <1>0, <1>1, <2>1, <2>2, <2>3
  <2>4. CASE x = s
    <3>1. up'[s] = <<>>
      BY <1>0, <2>2, <2>4, HasTaken DEF Uplink
    <3>2. broadcaster' # s
      BY <1>0, <2>1, <2>4
    <3>3. QED BY <1>0, <2>1, <2>2, <3>1, <3>2, Empty DEF Uplink
  <2>5. QED BY <2>3, <2>4
<1>6. ASSUME NEW w \in Watchers, RegisterViewer(w) PROVE Uplink(s)'
  <2>1. /\ UNCHANGED <<broadcaster, sock, up>>
        /\ down'[s] = down[s] \/ (sock[s] = "open" /\ broadcaster = s)
    BY <1>6, RegisterViewerDoes
  <2>2. QED BY <1>1, <2>1
<1>7. ASSUME NEW w \in Watchers, RefuseViewer(w) PROVE Uplink(s)'
  BY <1>0, <1>2, <1>7, RefuseViewerDoes
<1>8. ASSUME NEW w \in Watchers, RelayAnswer(w) PROVE Uplink(s)'
  <2>1. /\ Takes(w, "answer") /\ broadcaster' = broadcaster
        /\ down'[s] = down[s] \/ (sock[s] = "open" /\ broadcaster = s)
    BY <1>8, RelayAnswerDoes
  <2>2. up'[s] = up[s] /\ sock' = sock
    BY <1>0, <2>1, TakesDoes
  <2>3. QED BY <1>1, <2>1, <2>2
<1>9. ASSUME NEW w \in Watchers, CloseViewer(w) PROVE Uplink(s)'
  <2>1. /\ Takes(w, "close") /\ broadcaster' = broadcaster
        /\ down'[s] = down[s] \/ (sock[s] = "open" /\ broadcaster = s)
    BY <1>9, CloseViewerDoes
  <2>2. up'[s] = up[s] /\ sock' = sock
    BY <1>0, <2>1, TakesDoes
  <2>3. QED BY <1>1, <2>1, <2>2
<1>10. ASSUME NEW b \in Stations, StartSharing(b) \/ PickerCancelled(b) \/ Picked(b) PROVE Uplink(s)'
  BY <1>2, <1>10 DEF StartSharing, PickerCancelled, Picked, server, wire
<1>11. ASSUME NEW b \in Stations, Fetched(b) PROVE Uplink(s)'
  <2>1. opened[b] < MaxShares
    BY <1>11, NextSocketFits DEF Fetched
  <2>2. /\ UNCHANGED <<broadcaster, up, down>> /\ Current(b)' \in Sessions
        /\ sock'[Current(b)'] = "opening"
        /\ \A x \in Sessions : x # Current(b)' => sock'[x] = sock[x]
        /\ Current(b)' = <<b, opened[b] + 1>>
    BY <1>11, <2>1, FetchedDoes
  <2>3. CASE s # Current(b)'
    BY <1>2, <2>2, <2>3, <1>1
  <2>4. CASE s = Current(b)'
    <3>1. s[2] > opened[s[1]]
      BY <2>2, <2>4, PresentSocket
    <3>2. sock[s] = "none"
      BY <3>1 DEF Sockets
    <3>3. QED BY <1>0, <2>2, <2>4, <3>2 DEF Uplink
  <2>5. QED BY <2>3, <2>4
<1>12. ASSUME NEW b \in Stations, StopSharing(b) PROVE Uplink(s)'
  <2>1. broadcaster' = broadcaster
    BY <1>12, StopSharingDoes
  <2>2. CASE ~Dialled(b) \/ s # Current(b)
    <3>1. up'[s] = up[s] /\ down'[s] = down[s] /\ sock'[s] = sock[s]
      BY <1>0, <1>12, <2>2, StopSharingDoes
    <3>2. QED BY <1>1, <2>1, <3>1
  <2>3. CASE Dialled(b) /\ s = Current(b) /\ sock[s] = "open"
    <3>1. /\ sock'[s] = "closing" /\ down'[s] = <<>>
          /\ up'[s] = Append(up[s], [type |-> "close"]) /\ [type |-> "close"] \in Requests
      BY <1>12, <2>3, StopSharingDoes
    <3>2. /\ Has(up'[s], "close") /\ OnlyLast(up'[s], "close") /\ OnlyFirst(up'[s], "register")
          /\ Has(up'[s], "register") <=> Has(up[s], "register")
      BY <1>0, <2>3, <3>1, HasAdded DEF Uplink
    <3>3. QED BY <1>0, <2>1, <3>1, <3>2 DEF Uplink
  <2>4. CASE Dialled(b) /\ s = Current(b) /\ sock[s] # "open"
    <3>1. sock'[s] = "closing" /\ down'[s] = <<>> /\ up'[s] = up[s]
      BY <1>12, <2>4, StopSharingDoes
    <3>2. sock[s] = "opening"
      BY <2>4 DEF Dialled
    <3>3. QED BY <1>0, <2>1, <3>1, <3>2, Empty DEF Uplink
  <2>5. QED BY <2>2, <2>3, <2>4
<1>13. ASSUME NEW b \in Stations, NEW w \in Watchers, OfferMade(b, w) PROVE Uplink(s)'
  <2>1. UNCHANGED <<broadcaster, down, sock>>
    BY <1>13, OfferMadeDoes
  <2>2. CASE sock[Current(b)] # "open" \/ s # Current(b)
    <3>1. up'[s] = up[s]
      BY <1>0, <1>13, <2>2, OfferMadeDoes
    <3>2. QED BY <1>1, <2>1, <3>1
  <2>3. CASE sock[Current(b)] = "open" /\ s = Current(b)
    <3>1. PICK m \in Requests : m.type = "offer" /\ up'[s] = Append(up[s], m)
      BY <1>13, <2>3, OfferMadeDoes
    <3>2. ~Has(up[s], "close")
      BY <1>0, <2>3 DEF Uplink
    <3>3. /\ ~Has(up'[s], "close") /\ OnlyLast(up'[s], "close") /\ OnlyFirst(up'[s], "register")
          /\ Has(up'[s], "register") <=> Has(up[s], "register")
      BY <1>0, <3>1, <3>2, HasAdded DEF Uplink
    <3>4. QED BY <1>0, <2>1, <2>3, <3>3 DEF Uplink
  <2>4. QED BY <2>2, <2>3
<1>14. ASSUME NEW x \in Sessions, Opened(x) PROVE Uplink(s)'
  <2>1. UNCHANGED <<broadcaster, down>>
    BY <1>14, OpenedDoes
  <2>2. CASE x # s
    <3>1. up'[s] = up[s] /\ sock'[s] = sock[s]
      BY <1>0, <1>14, <2>2, OpenedDoes
    <3>2. QED BY <1>1, <2>1, <3>1
  <2>3. CASE x = s
    <3>1. /\ sock[s] = "opening" /\ sock'[s] = "open"
          /\ up'[s] = Append(up[s], [type |-> "register"]) /\ [type |-> "register"] \in Requests
      BY <1>14, <2>3, OpenedDoes
    <3>2. up[s] = <<>> /\ broadcaster # s /\ down[s] = <<>>
      BY <1>0, <3>1 DEF Uplink
    <3>3. ~Has(up'[s], "close") /\ OnlyLast(up'[s], "close") /\ OnlyFirst(up'[s], "register")
      <4> DEFINE m == [type |-> "register"]
      <4>1. m \in Requests /\ m.type = "register" /\ up'[s] = Append(up[s], m)
        BY <3>1
      <4> HIDE DEF m
      <4>2. ~Has(up[s], "close") /\ OnlyFirst(up[s], "register")
        BY <3>2, Empty
      <4>3. ~Has(up'[s], "close") /\ OnlyLast(up'[s], "close")
        BY <1>0, <4>1, <4>2, HasAdded
      <4>4. OnlyFirst(up'[s], "register")
        <5>1. up'[s] = <<m>>
          BY <3>2, <4>1
        <5>2. QED BY <5>1 DEF OnlyFirst
      <4>5. QED BY <4>3, <4>4
    <3>4. QED BY <1>0, <2>1, <3>1, <3>2, <3>3 DEF Uplink
  <2>4. QED BY <2>2, <2>3
<1>15. ASSUME NEW x \in Sessions, ViewerJoined(x) \/ Answered(x) \/ ViewerLeft(x) PROVE Uplink(s)'
  <2>1. UNCHANGED <<broadcaster, up, sock>>
    BY <1>15 DEF ViewerJoined, Answered, ViewerLeft, server
  <2>2. Hears(x, "viewer-joined") \/ Hears(x, "answer") \/ Hears(x, "viewer-left")
    BY <1>15 DEF ViewerJoined, Answered, ViewerLeft
  <2>3. /\ x # s => down'[s] = down[s]
        /\ x = s => sock[s] = "open" /\ down[s] # <<>>
    BY <1>0, <2>2, HearsDoes, Listening
  <2>4. CASE x # s
    BY <1>1, <2>1, <2>3, <2>4
  <2>5. CASE x = s
    BY <1>0, <2>1, <2>3, <2>5 DEF Uplink
  <2>6. QED BY <2>4, <2>5
<1>16. ASSUME NEW x \in Sessions, Closed(x) PROVE Uplink(s)'
  <2>1. /\ UNCHANGED <<broadcaster, up, down>> /\ sock[x] = "closing"
        /\ sock' = [sock EXCEPT ![x] = "closed"]
    BY <1>16 DEF Closed, server, wire
  <2>2. sock'[s] = sock[s] \/ (sock[s] = "closing" /\ sock'[s] = "closed")
    BY <2>1 DEF TypeOK
  <2>3. QED BY <1>0, <2>1, <2>2 DEF Uplink
<1>17. ASSUME NEW x \in Sessions, Lost(x) PROVE Uplink(s)'
  <2>1. broadcaster' = broadcaster
    BY <1>17, LostDoes
  <2>2. CASE x # s
    <3>1. up'[s] = up[s] /\ down'[s] = down[s] /\ sock'[s] = sock[s]
      BY <1>0, <1>17, <2>2, LostDoes
    <3>2. QED BY <1>1, <2>1, <3>1
  <2>3. CASE x = s
    <3>1. /\ sock[s] = "open" /\ sock'[s] = "closed" /\ down'[s] = <<>>
          /\ up'[s] = Append(up[s], [type |-> "close"]) /\ [type |-> "close"] \in Requests
      BY <1>17, <2>3, LostDoes
    <3>2. /\ Has(up'[s], "close") /\ OnlyLast(up'[s], "close") /\ OnlyFirst(up'[s], "register")
          /\ Has(up'[s], "register") <=> Has(up[s], "register")
      BY <1>0, <3>1, HasAdded DEF Uplink
    <3>3. QED BY <1>0, <2>1, <3>1, <3>2 DEF Uplink
  <2>4. QED BY <2>2, <2>3
<1>18. ASSUME NEW w \in Watchers,
              Registered(w) \/ Refused(w) \/ Offered(w) \/ BroadcasterLeft(w) PROVE Uplink(s)'
  <2>1. UNCHANGED <<broadcaster, up, sock>>
    BY <1>18 DEF Registered, Refused, Offered, BroadcasterLeft, server, station
  <2>2. \E type : Hears(w, type)
    BY <1>18 DEF Registered, Refused, Offered, BroadcasterLeft
  <2>3. down'[s] = down[s]
    BY <1>0, <2>2, WatcherHears
  <2>4. QED BY <1>2, <2>1, <2>3
<1>19. ASSUME NEW w \in Watchers, NEW x \in Sessions, AnswerMade(w, x) PROVE Uplink(s)'
  <2>1. UNCHANGED <<broadcaster, down, sock>> /\ up'[s] = up[s]
    BY <1>0, <1>19, AnswerMadeDoes
  <2>2. QED BY <1>1, <2>1
<1>20. ASSUME NEW w \in Watchers, Leave(w) \/ LoseSeat(w) PROVE Uplink(s)'
  <2>1. \E how \in {"lost", "left"} : CloseSeat(w, how)
    BY <1>20 DEF Leave, LoseSeat
  <2>2. UNCHANGED <<broadcaster, sock>> /\ up'[s] = up[s] /\ down'[s] = down[s]
    BY <1>0, <2>1, CloseSeatDoes
  <2>3. QED BY <1>1, <2>2
<1>21. QED
  BY <1>3, <1>4, <1>5, <1>6, <1>7, <1>8, <1>9, <1>10, <1>11, <1>12, <1>13, <1>14, <1>15, <1>16,
     <1>17, <1>18, <1>19, <1>20 DEF Next, ServerStep, StationStep, WatcherStep

(***************************************************************************)
(* Seat                                                                    *)
(***************************************************************************)
LEMMA SeatKept ==
  ASSUME InductiveInv, Next, NEW v \in Watchers
  PROVE  Seat(v)'
<1> USE DEF InductiveInv
<1>0. /\ down[v] \in Seq(Notices) /\ Seat(v) /\ v \in Ends /\ v \notin Sessions
      /\ \A s \in Sessions : s \in Ends /\ s # v
      /\ \A w \in Watchers : w \in Ends
  BY Apart DEF TypeOK
<1>1. ASSUME seat'[v] = seat[v], shown'[v] = shown[v], answering'[v] = answering[v],
             v \in viewers' => v \in viewers,
             \/ down'[v] = down[v]
             \/ \E m \in Notices : /\ m.type \notin {"registered", "error"}
                                   /\ down'[v] = Append(down[v], m)
      PROVE  Seat(v)'
  <2>1. CASE down'[v] = down[v]
    BY <1>0, <1>1, <2>1 DEF Seat
  <2>2. CASE \E m \in Notices : /\ m.type \notin {"registered", "error"}
                                /\ down'[v] = Append(down[v], m)
    <3>1. /\ OnlyFirst(down'[v], "registered") /\ OnlyFirst(down'[v], "error")
          /\ Has(down'[v], "registered") <=> Has(down[v], "registered")
          /\ Has(down'[v], "error") <=> Has(down[v], "error")
      BY <1>0, <2>2, HasAdded DEF Seat
    <3>2. QED BY <1>0, <1>1, <3>1 DEF Seat
  <2>3. QED BY <1>1, <2>1, <2>2
<1>2. ASSUME UNCHANGED <<viewers, seat, shown, answering>>, down'[v] = down[v]
      PROVE  Seat(v)'
  BY <1>1, <1>2
<1>3. ASSUME NEW s \in Sessions, RegisterBroadcaster(s) PROVE Seat(v)'
  <2>1. Takes(s, "register") /\ viewers' = viewers /\ down'[v] = down[v]
    BY <1>0, <1>3, RegisterDoes
  <2>2. UNCHANGED <<seat, shown, answering>>
    BY <1>0, <2>1, TakesDoes
  <2>3. QED BY <1>2, <2>1, <2>2
<1>4. ASSUME NEW s \in Sessions, RelayOffer(s) PROVE Seat(v)'
  <2>1. /\ Takes(s, "offer") /\ viewers' = viewers
        /\ down'[v] = down[v] \/ \E m \in Notices : /\ m.type = "offer"
                                                    /\ down'[v] = Append(down[v], m)
    BY <1>4, RelayOfferDoes
  <2>2. UNCHANGED <<seat, shown, answering>>
    BY <1>0, <2>1, TakesDoes
  <2>3. QED BY <1>1, <2>1, <2>2
<1>5. ASSUME NEW s \in Sessions, CloseBroadcaster(s) PROVE Seat(v)'
  <2>1. Takes(s, "close") /\ viewers' = viewers
    BY <1>5, CloseBroadcasterDoes
  <2>2. down'[v] = down[v] \/ \E m \in Notices : /\ m.type = "broadcaster-left"
                                                 /\ down'[v] = Append(down[v], m)
    <3>1. CASE broadcaster # s
      BY <1>5, <3>1, CloseBroadcasterDoes
    <3>2. CASE broadcaster = s
      BY <1>5, <3>2, CloseBroadcasterDoes
    <3>3. QED BY <3>1, <3>2
  <2>3. UNCHANGED <<seat, shown, answering>>
    BY <1>0, <2>1, TakesDoes
  <2>4. QED BY <1>1, <2>1, <2>2, <2>3
<1>6. ASSUME NEW w \in Watchers, RegisterViewer(w) PROVE Seat(v)'
  <2>1. CASE w # v
    <3>1. /\ viewers' = viewers \cup {w} /\ down'[v] = down[v] /\ UNCHANGED <<shown, answering>>
          /\ seat' = [seat EXCEPT ![w] = "open"]
      BY <1>6, <2>1, RegisterViewerDoes
    <3>2. seat'[v] = seat[v]
      BY <2>1, <3>1 DEF TypeOK
    <3>3. QED BY <1>1, <2>1, <3>1, <3>2
  <2>2. CASE w = v
    <3>1. /\ seat[v] = "none" /\ seat' = [seat EXCEPT ![v] = "open"] /\ UNCHANGED <<shown, answering>>
          /\ Has(down'[v], "registered") /\ ~Has(down'[v], "error")
          /\ OnlyFirst(down'[v], "registered") /\ OnlyFirst(down'[v], "error")
      BY <1>6, <2>2, RegisterViewerDoes
    <3>2. seat'[v] = "open" /\ shown'[v] = "connecting" /\ answering'[v] = {}
      BY <1>0, <3>1 DEF Seat, TypeOK
    <3>3. QED BY <3>1, <3>2 DEF Seat
  <2>3. QED BY <2>1, <2>2
<1>7. ASSUME NEW w \in Watchers, RefuseViewer(w) PROVE Seat(v)'
  <2>1. CASE w # v
    <3>1. /\ viewers' = viewers /\ down'[v] = down[v] /\ UNCHANGED <<shown, answering>>
          /\ seat' = [seat EXCEPT ![w] = "open"]
      BY <1>0, <1>7, <2>1, RefuseViewerDoes
    <3>2. seat'[v] = seat[v]
      BY <2>1, <3>1 DEF TypeOK
    <3>3. QED BY <1>1, <3>1, <3>2
  <2>2. CASE w = v
    <3>1. /\ seat[v] = "none" /\ seat' = [seat EXCEPT ![v] = "open"] /\ UNCHANGED <<viewers, shown, answering>>
          /\ OnlyFirst(down'[v], "registered") /\ OnlyFirst(down'[v], "error")
      BY <1>7, <2>2, RefuseViewerDoes
    <3>2. seat'[v] = "open" /\ v \notin viewers'
      BY <1>0, <3>1 DEF Seat, TypeOK
    <3>3. QED BY <3>1, <3>2 DEF Seat
  <2>3. QED BY <2>1, <2>2
<1>8. ASSUME NEW w \in Watchers, RelayAnswer(w) PROVE Seat(v)'
  <2>1. Takes(w, "answer") /\ viewers' = viewers /\ down'[v] = down[v]
    BY <1>8, RelayAnswerDoes
  <2>2. UNCHANGED <<seat, shown, answering>>
    BY <1>0, <2>1, TakesDoes
  <2>3. QED BY <1>2, <2>1, <2>2
<1>9. ASSUME NEW w \in Watchers, CloseViewer(w) PROVE Seat(v)'
  <2>1. Takes(w, "close") /\ viewers' \subseteq viewers /\ down'[v] = down[v]
    BY <1>9, CloseViewerDoes
  <2>2. UNCHANGED <<seat, shown, answering>>
    BY <1>0, <2>1, TakesDoes
  <2>3. QED BY <1>1, <2>1, <2>2
<1>10. ASSUME NEW b \in Stations, StartSharing(b) \/ PickerCancelled(b) \/ Picked(b) \/ Fetched(b)
       PROVE  Seat(v)'
  BY <1>2, <1>10 DEF StartSharing, PickerCancelled, Picked, Fetched, server, watcher, wire
<1>11. ASSUME NEW b \in Stations, StopSharing(b) PROVE Seat(v)'
  <2>1. UNCHANGED <<viewers, seat, shown, answering>>
    BY <1>11, StopSharingDoes
  <2>2. down'[v] = down[v]
    <3>1. CASE Dialled(b)
      BY <1>0, <1>11, <3>1, StopSharingDoes
    <3>2. CASE ~Dialled(b)
      BY <1>11, <3>2, StopSharingDoes
    <3>3. QED BY <3>1, <3>2
  <2>3. QED BY <1>2, <2>1, <2>2
<1>12. ASSUME NEW b \in Stations, NEW w \in Watchers, OfferMade(b, w) PROVE Seat(v)'
  BY <1>2, <1>12, OfferMadeDoes
<1>13. ASSUME NEW s \in Sessions, Opened(s) \/ Closed(s) PROVE Seat(v)'
  BY <1>2, <1>13 DEF Opened, Closed, server, watcher, wire
<1>14. ASSUME NEW s \in Sessions, ViewerJoined(s) \/ Answered(s) \/ ViewerLeft(s) PROVE Seat(v)'
  <2>1. UNCHANGED <<viewers, seat, shown, answering>>
    BY <1>14 DEF ViewerJoined, Answered, ViewerLeft, server, watcher
  <2>2. Hears(s, "viewer-joined") \/ Hears(s, "answer") \/ Hears(s, "viewer-left")
    BY <1>14 DEF ViewerJoined, Answered, ViewerLeft
  <2>3. down'[v] = down[v]
    BY <1>0, <2>2, HearsDoes
  <2>4. QED BY <1>2, <2>1, <2>3
<1>15. ASSUME NEW s \in Sessions, Lost(s) PROVE Seat(v)'
  BY <1>0, <1>2, <1>15, LostDoes
<1>16. ASSUME NEW w \in Watchers, w # v, NEW type, Hears(w, type), UNCHANGED <<server, seat>>,
              shown'[v] = shown[v], answering'[v] = answering[v]
       PROVE  Seat(v)'
  <2>1. down'[v] = down[v] /\ viewers' = viewers
    BY <1>0, <1>16, WatcherHears DEF server
  <2>2. QED BY <1>1, <1>16, <2>1
<1>17. ASSUME NEW type, Hears(v, type)
       PROVE  /\ seat[v] = "open" /\ Has(down[v], type)
              /\ Has(down[v], "registered") <=> type = "registered"
              /\ ~Has(down'[v], "registered") /\ ~Has(down'[v], "error")
              /\ OnlyFirst(down'[v], "registered") /\ OnlyFirst(down'[v], "error")
  <2>1. /\ seat[v] = "open" /\ down[v] # <<>> /\ Head(down[v]).type = type
        /\ down'[v] = Tail(down[v])
    BY <1>17, WatcherHears
  <2>2. QED BY <1>0, <2>1, HasTaken DEF Seat
<1>18. ASSUME NEW w \in Watchers, Registered(w) PROVE Seat(v)'
  <2>1. /\ Hears(w, "registered") /\ UNCHANGED <<server, seat, answering>>
        /\ shown'[w] \in {"waiting", "offline"} /\ \A u \in Watchers : u # w => shown'[u] = shown[u]
    BY <1>18 DEF Registered, TypeOK
  <2>2. CASE w # v
    BY <1>16, <2>1, <2>2
  <2>3. CASE w = v
    BY <1>0, <1>17, <2>1, <2>3 DEF Seat, server
  <2>4. QED BY <2>2, <2>3
<1>19. ASSUME NEW w \in Watchers, Refused(w) PROVE Seat(v)'
  <2>1. /\ Hears(w, "error") /\ UNCHANGED <<server, seat, answering>>
        /\ shown'[w] = "error" /\ \A u \in Watchers : u # w => shown'[u] = shown[u]
    BY <1>19 DEF Refused, TypeOK
  <2>2. CASE w # v
    BY <1>16, <2>1, <2>2
  <2>3. CASE w = v
    <3>1. v \notin viewers
      BY <1>0, <1>17, <2>1, <2>3 DEF Seat
    <3>2. QED BY <1>0, <1>17, <2>1, <2>3, <3>1 DEF Seat, server
  <2>4. QED BY <2>2, <2>3
<1>20. ASSUME NEW w \in Watchers, Offered(w) PROVE Seat(v)'
  <2>1. /\ Hears(w, "offer") /\ UNCHANGED <<server, seat, shown>>
        /\ \A u \in Watchers : u # w => answering'[u] = answering[u]
    BY <1>20 DEF Offered, TypeOK
  <2>2. CASE w # v
    BY <1>16, <2>1, <2>2
  <2>3. CASE w = v
    BY <1>0, <1>17, <2>1, <2>3 DEF Seat, server
  <2>4. QED BY <2>2, <2>3
<1>21. ASSUME NEW w \in Watchers, BroadcasterLeft(w) PROVE Seat(v)'
  <2>1. /\ Hears(w, "broadcaster-left") /\ UNCHANGED <<server, seat, answering>>
        /\ shown'[w] = "offline" /\ \A u \in Watchers : u # w => shown'[u] = shown[u]
    BY <1>21 DEF BroadcasterLeft, TypeOK
  <2>2. CASE w # v
    BY <1>16, <2>1, <2>2
  <2>3. CASE w = v
    BY <1>0, <1>17, <2>1, <2>3 DEF Seat, server
  <2>4. QED BY <2>2, <2>3
<1>22. ASSUME NEW w \in Watchers, NEW s \in Sessions, AnswerMade(w, s) PROVE Seat(v)'
  <2>1. /\ s \in answering[w] /\ UNCHANGED <<viewers, seat, down>>
        /\ shown'[w] = "live" /\ \A u \in Watchers : u # w => shown'[u] = shown[u]
        /\ \A u \in Watchers : u # w => answering'[u] = answering[u]
    BY <1>22, AnswerMadeDoes
  <2>2. CASE w # v
    BY <1>1, <2>1, <2>2
  <2>3. CASE w = v
    BY <1>0, <2>1, <2>3 DEF Seat
  <2>4. QED BY <2>2, <2>3
<1>23. ASSUME NEW w \in Watchers, Leave(w) \/ LoseSeat(w) PROVE Seat(v)'
  <2>1. PICK how \in {"lost", "left"} : CloseSeat(w, how)
    BY <1>23 DEF Leave, LoseSeat
  <2>2. /\ seat'[w] = how /\ \A u \in Watchers : u # w => seat'[u] = seat[u]
        /\ viewers' = viewers /\ down'[w] = <<>> /\ \A x \in Ends : x # w => down'[x] = down[x]
    BY <2>1, CloseSeatDoes
  <2>3. /\ \A u \in Watchers : u # w => shown'[u] = shown[u] /\ answering'[u] = answering[u]
        /\ shown'[w] \in {"connecting", shown[w]}
    BY <1>23 DEF Leave, LoseSeat, TypeOK
  <2>4. CASE w # v
    BY <1>0, <1>1, <2>2, <2>3, <2>4
  <2>5. CASE w = v
    BY <1>0, <2>2, <2>3, <2>5, Empty DEF Seat
  <2>6. QED BY <2>4, <2>5
<1>24. QED
  BY <1>3, <1>4, <1>5, <1>6, <1>7, <1>8, <1>9, <1>10, <1>11, <1>12, <1>13, <1>14, <1>15, <1>18,
     <1>19, <1>20, <1>21, <1>22, <1>23 DEF Next, ServerStep, StationStep, WatcherStep

(***************************************************************************)
(* Departures                                                              *)
(***************************************************************************)
\* What holds of a queue without any message of a kind.
LEMMA NoneAbout ==
  ASSUME NEW q
  PROVE  /\ \A type : ~Has(q, type) => \A w : ~About(q, type, w)
         /\ ~Has(q, "viewer-left") => JoinedBefore(q)
  BY DEF Has, About, JoinedBefore

LEMMA DeparturesKept ==
  ASSUME InductiveInv, Next, NEW s \in Sessions
  PROVE  Departures(s)'
<1> USE DEF InductiveInv
<1>0. /\ down[s] \in Seq(Notices) /\ Departures(s) /\ s \in Ends /\ s \notin Watchers
      /\ \A w \in Watchers : w \in Ends /\ w # s
      /\ \A x \in Sessions : x \in Ends
  BY Apart DEF TypeOK
<1>1. ASSUME viewers' \subseteq viewers, \A w \in Watchers : seat'[w] = "none" => seat[w] = "none",
             \/ down'[s] = down[s] \/ down'[s] = <<>>
             \/ down[s] # <<>> /\ down'[s] = Tail(down[s])
             \/ \E m \in Notices : /\ m.type \notin {"viewer-joined", "viewer-left"}
                                   /\ down'[s] = Append(down[s], m)
      PROVE  Departures(s)'
  <2>1. JoinedBefore(down'[s]) /\ \A w \in Watchers : About(down'[s], "viewer-left", w)
                                                      => About(down[s], "viewer-left", w)
    <3>1. CASE down'[s] = down[s] \/ down'[s] = <<>>
      BY <1>0, <3>1, Empty DEF Departures
    <3>2. CASE down[s] # <<>> /\ down'[s] = Tail(down[s])
      BY <1>0, <3>2, JoinedBeforeTaken, AboutTaken DEF Departures
    <3>3. CASE \E m \in Notices : /\ m.type \notin {"viewer-joined", "viewer-left"}
                                  /\ down'[s] = Append(down[s], m)
      BY <1>0, <3>3, JoinedBeforeAdded, AboutAdded DEF Departures
    <3>4. QED BY <1>1, <3>1, <3>2, <3>3
  <2>2. QED BY <1>0, <1>1, <2>1 DEF Departures
<1>2. ASSUME UNCHANGED <<viewers, seat>>, down'[s] = down[s]
      PROVE  Departures(s)'
  BY <1>1, <1>2
<1>3. ASSUME NEW x \in Sessions, RegisterBroadcaster(x) PROVE Departures(s)'
  <2>1. /\ Takes(x, "register") /\ viewers' = viewers
        /\ \A y \in Ends : y # x => down'[y] = down[y]
        /\ ~Has(down'[x], "viewer-left")
    BY <1>3, RegisterDoes
  <2>2. seat' = seat
    BY <1>0, <2>1, TakesDoes
  <2>3. CASE x # s
    BY <1>0, <1>2, <2>1, <2>2, <2>3
  <2>4. CASE x = s
    BY <2>1, <2>4, NoneAbout DEF Departures
  <2>5. QED BY <2>3, <2>4
<1>4. ASSUME NEW x \in Sessions, RelayOffer(x) PROVE Departures(s)'
  <2>1. Takes(x, "offer") /\ viewers' = viewers /\ down'[s] = down[s]
    BY <1>4, RelayOfferDoes
  <2>2. QED BY <1>0, <1>2, <2>1, TakesDoes
<1>5. ASSUME NEW x \in Sessions, CloseBroadcaster(x) PROVE Departures(s)'
  <2>1. Takes(x, "close") /\ viewers' = viewers /\ down'[s] = down[s]
    BY <1>5, CloseBroadcasterDoes
  <2>2. QED BY <1>0, <1>2, <2>1, TakesDoes
<1>6. ASSUME NEW w \in Watchers, RegisterViewer(w) PROVE Departures(s)'
  <2> DEFINE m == [type |-> "viewer-joined", viewer |-> w]
  <2>1. /\ seat[w] = "none" /\ seat' = [seat EXCEPT ![w] = "open"] /\ viewers' = viewers \cup {w}
        /\ down'[s] = down[s] \/ down'[s] = Append(down[s], m)
    BY <1>6, RegisterViewerDoes
  <2>2. m \in Notices /\ m.type = "viewer-joined" /\ m.viewer = w
    BY Messages
  <2> HIDE DEF m
  <2>3. ~About(down[s], "viewer-left", w)
    BY <1>0, <2>1 DEF Departures
  <2>4. /\ JoinedBefore(down'[s])
        /\ \A u \in Watchers : About(down'[s], "viewer-left", u) => About(down[s], "viewer-left", u)
    <3>1. JoinedBefore(down[s])
      BY <1>0 DEF Departures
    <3>2. JoinedBefore(Append(down[s], m))
      BY <1>0, <2>2, <2>3, <3>1, JoinedBeforeAdded
    <3>3. \A u \in Watchers : About(Append(down[s], m), "viewer-left", u)
                              => About(down[s], "viewer-left", u)
      BY <1>0, <2>2, AboutAdded
    <3>4. QED BY <2>1, <3>1, <3>2, <3>3
  <2>5. \A u \in Watchers : u # w => seat'[u] = seat[u]
    BY <2>1 DEF TypeOK
  <2>6. QED BY <1>0, <2>1, <2>3, <2>4, <2>5 DEF Departures
<1>7. ASSUME NEW w \in Watchers, RefuseViewer(w) PROVE Departures(s)'
  <2>1. /\ seat' = [seat EXCEPT ![w] = "open"] /\ viewers' = viewers /\ down'[s] = down[s]
    BY <1>0, <1>7, RefuseViewerDoes
  <2>2. QED BY <1>1, <2>1 DEF TypeOK
<1>8. ASSUME NEW w \in Watchers, RelayAnswer(w) PROVE Departures(s)'
  <2>1. /\ Takes(w, "answer") /\ viewers' = viewers
        /\ \/ down'[s] = down[s]
           \/ \E m \in Notices : m.type = "answer" /\ down'[s] = Append(down[s], m)
    BY <1>8, RelayAnswerDoes
  <2>2. seat' = seat
    BY <1>0, <2>1, TakesDoes
  <2>3. QED BY <1>1, <2>1, <2>2
<1>9. ASSUME NEW w \in Watchers, CloseViewer(w) PROVE Departures(s)'
  <2>1. Takes(w, "close") /\ viewers' = viewers \ {w}
    BY <1>9, CloseViewerDoes
  <2>2. seat' = seat
    BY <1>0, <2>1, TakesDoes
  <2>3. CASE down'[s] = down[s]
    BY <1>1, <2>1, <2>2, <2>3
  <2>4. CASE down'[s] # down[s]
    <3>1. PICK m \in Notices : /\ m.type = "viewer-left" /\ m.viewer = w
                               /\ down'[s] = Append(down[s], m) /\ w \in viewers
      BY <1>9, <2>4, CloseViewerDoes
    <3>2. /\ JoinedBefore(down'[s])
          /\ \A u \in Watchers : About(down'[s], "viewer-left", u)
                                 => About(down[s], "viewer-left", u) \/ u = w
      BY <1>0, <3>1, JoinedBeforeAdded, AboutAdded DEF Departures
    <3>3. seat[w] # "none"
      BY <3>1 DEF Seat
    <3>4. QED BY <1>0, <2>1, <2>2, <3>2, <3>3 DEF Departures
  <2>5. QED BY <2>3, <2>4
<1>10. ASSUME NEW b \in Stations, StartSharing(b) \/ PickerCancelled(b) \/ Picked(b) \/ Fetched(b)
       PROVE  Departures(s)'
  BY <1>2, <1>10 DEF StartSharing, PickerCancelled, Picked, Fetched, server, watcher, wire
<1>11. ASSUME NEW b \in Stations, StopSharing(b) PROVE Departures(s)'
  <2>1. UNCHANGED <<viewers, seat>>
    BY <1>11, StopSharingDoes
  <2>2. down'[s] = down[s] \/ down'[s] = <<>>
    <3>1. CASE Dialled(b)
      BY <1>0, <1>11, <3>1, StopSharingDoes
    <3>2. CASE ~Dialled(b)
      BY <1>11, <3>2, StopSharingDoes
    <3>3. QED BY <3>1, <3>2
  <2>3. QED BY <1>1, <2>1, <2>2
<1>12. ASSUME NEW b \in Stations, NEW w \in Watchers, OfferMade(b, w) PROVE Departures(s)'
  BY <1>2, <1>12, OfferMadeDoes
<1>13. ASSUME NEW x \in Sessions, Opened(x) \/ Closed(x) PROVE Departures(s)'
  BY <1>2, <1>13 DEF Opened, Closed, server, watcher, wire
<1>14. ASSUME NEW x \in Sessions, ViewerJoined(x) \/ Answered(x) \/ ViewerLeft(x)
       PROVE  Departures(s)'
  <2>1. UNCHANGED <<viewers, seat>>
    BY <1>14 DEF ViewerJoined, Answered, ViewerLeft, server, watcher
  <2>2. Hears(x, "viewer-joined") \/ Hears(x, "answer") \/ Hears(x, "viewer-left")
    BY <1>14 DEF ViewerJoined, Answered, ViewerLeft
  <2>3. down'[s] = down[s] \/ (down[s] # <<>> /\ down'[s] = Tail(down[s]))
    BY <1>0, <2>2, HearsDoes
  <2>4. QED BY <1>1, <2>1, <2>3
<1>15. ASSUME NEW x \in Sessions, Lost(x) PROVE Departures(s)'
  <2>1. UNCHANGED <<viewers, seat>> /\ (down'[s] = down[s] \/ down'[s] = <<>>)
    BY <1>0, <1>15, LostDoes
  <2>2. QED BY <1>1, <2>1
<1>16. ASSUME NEW w \in Watchers,
              Registered(w) \/ Refused(w) \/ Offered(w) \/ BroadcasterLeft(w) PROVE Departures(s)'
  <2>1. UNCHANGED <<viewers, seat>>
    BY <1>16 DEF Registered, Refused, Offered, BroadcasterLeft, server
  <2>2. \E type : Hears(w, type)
    BY <1>16 DEF Registered, Refused, Offered, BroadcasterLeft
  <2>3. down'[s] = down[s]
    BY <1>0, <2>2, WatcherHears
  <2>4. QED BY <1>2, <2>1, <2>3
<1>17. ASSUME NEW w \in Watchers, NEW x \in Sessions, AnswerMade(w, x) PROVE Departures(s)'
  BY <1>2, <1>17, AnswerMadeDoes
<1>18. ASSUME NEW w \in Watchers, Leave(w) \/ LoseSeat(w) PROVE Departures(s)'
  <2>1. PICK how \in {"lost", "left"} : CloseSeat(w, how)
    BY <1>18 DEF Leave, LoseSeat
  <2>2. /\ viewers' = viewers /\ seat'[w] = how /\ \A u \in Watchers : u # w => seat'[u] = seat[u]
        /\ down'[s] = down[s]
    BY <1>0, <2>1, CloseSeatDoes
  <2>3. QED BY <1>1, <2>2
<1>19. QED
  BY <1>3, <1>4, <1>5, <1>6, <1>7, <1>8, <1>9, <1>10, <1>11, <1>12, <1>13, <1>14, <1>15, <1>16,
     <1>17, <1>18 DEF Next, ServerStep, StationStep, WatcherStep

(***************************************************************************)
(* Connected                                                               *)
(***************************************************************************)
LEMMA ConnectedKept ==
  ASSUME InductiveInv, Next, NEW b \in Stations
  PROVE  Connected(b)'
<1> USE DEF InductiveInv
<1> DEFINE c == Current(b)
<1>0. /\ Connected(b) /\ \A x \in Sessions : x \in Ends /\ x \notin Watchers /\ x[1] \in Stations
      /\ \A w \in Watchers : w \in Ends
      /\ c \in Sessions => up[c] \in Seq(Requests)
  BY Apart DEF TypeOK
<1>1. ASSUME opened'[b] = opened[b], astray[b] => astray'[b],
             \A w \in Watchers : pcs'[b][w] # NoPc => pcs[b][w] # NoPc,
             c \in Sessions => /\ sock[c] = "open" => sock'[c] = "open"
                               /\ Has(up'[c], "register") => Has(up[c], "register")
      PROVE  Connected(b)'
  <2>1. Current(b)' = c
    BY <1>1 DEF Current
  <2>2. QED BY <1>0, <1>1, <2>1 DEF Connected
<1>2. ASSUME UNCHANGED <<opened, astray, pcs, sock>>, \A x \in Sessions : up'[x] = up[x]
      PROVE  Connected(b)'
  BY <1>1, <1>2
<1>3. ASSUME NEW x \in Ends, NEW type, Takes(x, type) PROVE Connected(b)'
  <2>1. /\ UNCHANGED <<opened, astray, pcs, sock>>
        /\ up[x] # <<>> /\ up'[x] = Tail(up[x]) /\ \A y \in Ends : y # x => up'[y] = up[y]
    BY <1>3, TakesDoes
  <2>2. c \in Sessions => (Has(up'[c], "register") => Has(up[c], "register"))
    BY <1>0, <2>1, HasTaken
  <2>3. QED BY <1>1, <2>1, <2>2
<1>4. ASSUME NEW x \in Sessions, RegisterBroadcaster(x) \/ RelayOffer(x) \/ CloseBroadcaster(x)
      PROVE  Connected(b)'
  BY <1>0, <1>3, <1>4 DEF RegisterBroadcaster, RelayOffer, CloseBroadcaster
<1>5. ASSUME NEW w \in Watchers, RelayAnswer(w) \/ CloseViewer(w) PROVE Connected(b)'
  BY <1>0, <1>3, <1>5 DEF RelayAnswer, CloseViewer
<1>6. ASSUME NEW w \in Watchers, RegisterViewer(w) \/ RefuseViewer(w) PROVE Connected(b)'
  BY <1>2, <1>6 DEF RegisterViewer, RefuseViewer, Visits, station
<1>7. ASSUME NEW a \in Stations, StartSharing(a) \/ PickerCancelled(a) \/ Picked(a)
      PROVE  Connected(b)'
  BY <1>2, <1>7 DEF StartSharing, PickerCancelled, Picked, wire
<1>8. ASSUME NEW a \in Stations, Fetched(a) PROVE Connected(b)'
  <2>1. opened[a] < MaxShares
    BY <1>8, NextSocketFits DEF Fetched
  <2>2. CASE a # b
    <3>1. /\ UNCHANGED <<pcs, up>> /\ Current(a)' \in Sessions /\ Current(a)' = <<a, opened[a] + 1>>
          /\ \A x \in Sessions : x # Current(a)' => sock'[x] = sock[x]
          /\ opened'[b] = opened[b] /\ astray'[b] = astray[b]
      BY <1>8, <2>1, <2>2, FetchedDoes
    <3>2. c # Current(a)'
      BY <2>2, <3>1, PresentSocket
    <3>3. QED BY <1>1, <3>1, <3>2
  <2>3. CASE a = b
    <3>1. UNCHANGED pcs /\ astray'[b] = (astray[b] \/ Dialled(b))
      BY <1>8, <2>1, <2>3, FetchedDoes
    <3>2. ASSUME ~astray'[b], NEW w \in Watchers, pcs[b][w] # NoPc PROVE FALSE
      <4>1. c \in Sessions /\ sock[c] = "open"
        BY <1>0, <3>1, <3>2 DEF Connected
      <4>2. Dialled(b)
        BY <4>1, PresentSocket DEF Dialled
      <4>3. QED BY <3>1, <3>2, <4>2
    <3>3. QED BY <3>1, <3>2 DEF Connected
  <2>4. QED BY <2>2, <2>3
<1>9. ASSUME NEW a \in Stations, StopSharing(a) PROVE Connected(b)'
  <2>1. /\ UNCHANGED <<opened, astray>>
        /\ \A w \in Watchers : pcs'[b][w] = IF b = a THEN NoPc ELSE pcs[b][w]
    BY <1>9, StopSharingDoes
  <2>2. CASE a = b
    BY <2>1, <2>2 DEF Connected
  <2>3. CASE a # b
    <3>1. c # Current(a)
      BY <2>3, PresentSocket
    <3>2. c \in Sessions => sock'[c] = sock[c] /\ up'[c] = up[c]
      <4>1. CASE Dialled(a)
        BY <1>0, <1>9, <3>1, <4>1, StopSharingDoes
      <4>2. CASE ~Dialled(a)
        BY <1>9, <4>2, StopSharingDoes
      <4>3. QED BY <4>1, <4>2
    <3>3. QED BY <1>1, <2>1, <2>3, <3>2
  <2>4. QED BY <2>2, <2>3
<1>10. ASSUME NEW a \in Stations, NEW w \in Watchers, OfferMade(a, w) PROVE Connected(b)'
  <2>1. /\ UNCHANGED <<opened, astray, sock>> /\ pcs[a][w].state = "offering"
        /\ \A d \in Stations, v \in Watchers : d # a \/ v # w => pcs'[d][v] = pcs[d][v]
    BY <1>10, OfferMadeDoes
  <2>2. \A v \in Watchers : pcs'[b][v] # NoPc => pcs[b][v] # NoPc
    BY <2>1, Connections
  <2>3. c \in Sessions => (Has(up'[c], "register") => Has(up[c], "register"))
    <3>1. CASE sock[Current(a)] # "open" \/ c # Current(a)
      BY <1>0, <1>10, <3>1, OfferMadeDoes
    <3>2. CASE sock[Current(a)] = "open" /\ c = Current(a)
      <4>1. PICK m \in Requests : m.type = "offer" /\ up'[c] = Append(up[c], m)
        BY <1>10, <3>2, OfferMadeDoes
      <4>2. QED BY <1>0, <4>1, HasAdded
    <3>3. QED BY <3>1, <3>2
  <2>4. QED BY <1>1, <2>1, <2>2, <2>3
<1>11. ASSUME NEW x \in Sessions, Opened(x) PROVE Connected(b)'
  <2>1. /\ UNCHANGED <<opened, astray, pcs>> /\ sock[x] = "opening"
        /\ \A y \in Sessions : y # x => sock'[y] = sock[y] /\ up'[y] = up[y]
    BY <1>0, <1>11, OpenedDoes
  <2>2. CASE x = c
    <3>1. Current(b)' = c
      BY <2>1 DEF Current
    <3>2. QED BY <1>0, <2>1, <2>2, <3>1 DEF Connected
  <2>3. CASE x # c
    BY <1>1, <2>1, <2>3
  <2>4. QED BY <2>2, <2>3
<1>12. ASSUME NEW x \in Sessions, ViewerJoined(x) \/ Answered(x) \/ ViewerLeft(x)
       PROVE  Connected(b)'
  <2>1. UNCHANGED <<opened, astray, sock, up>>
    BY <1>12 DEF ViewerJoined, Answered, ViewerLeft
  <2>2. Hears(x, "viewer-joined") \/ Hears(x, "answer") \/ Hears(x, "viewer-left")
    BY <1>12 DEF ViewerJoined, Answered, ViewerLeft
  <2>3. sock[x] = "open" /\ down[x] # <<>>
    BY <1>0, <2>2, HearsDoes, Listening
  <2>4. CASE x[1] = b
    <3>1. x = c \/ astray[b]
      BY <2>3, <2>4 DEF Sockets
    <3>2. ~Has(up[x], "register")
      BY <2>3 DEF Uplink
    <3>3. Current(b)' = c
      BY <2>1 DEF Current
    <3>4. QED BY <2>1, <2>3, <3>1, <3>2, <3>3 DEF Connected
  <2>5. CASE x[1] # b
    <3>1. \E w, new : SetPc(x[1], w, new)
      BY <1>12 DEF ViewerJoined, Answered, ViewerLeft
    <3>2. pcs'[b] = pcs[b]
      BY <2>5, <3>1 DEF SetPc, TypeOK
    <3>3. QED BY <1>1, <2>1, <3>2
  <2>6. QED BY <2>4, <2>5
<1>13. ASSUME NEW x \in Sessions, Closed(x) PROVE Connected(b)'
  <2>1. /\ UNCHANGED <<opened, astray, pcs, up>> /\ sock[x] = "closing"
        /\ sock' = [sock EXCEPT ![x] = "closed"]
    BY <1>13 DEF Closed, wire
  <2>2. c \in Sessions => (sock[c] = "open" => sock'[c] = "open")
    BY <2>1 DEF TypeOK
  <2>3. QED BY <1>1, <2>1, <2>2
<1>14. ASSUME NEW x \in Sessions, Lost(x) PROVE Connected(b)'
  <2>1. /\ UNCHANGED <<opened, pcs>> /\ astray'[x[1]]
        /\ \A a \in Stations : a # x[1] => astray'[a] = astray[a]
        /\ \A y \in Sessions : y # x => sock'[y] = sock[y] /\ up'[y] = up[y]
    BY <1>0, <1>14, LostDoes
  <2>2. CASE x[1] = b
    BY <2>1, <2>2 DEF Connected
  <2>3. CASE x[1] # b
    <3>1. c # x
      BY <2>3, PresentSocket
    <3>2. QED BY <1>1, <2>1, <2>3, <3>1
  <2>4. QED BY <2>2, <2>3
<1>15. ASSUME NEW w \in Watchers,
              Registered(w) \/ Refused(w) \/ Offered(w) \/ BroadcasterLeft(w) PROVE Connected(b)'
  BY <1>2, <1>15 DEF Registered, Refused, Offered, BroadcasterLeft, station
<1>16. ASSUME NEW w \in Watchers, NEW x \in Sessions, AnswerMade(w, x) PROVE Connected(b)'
  <2>1. UNCHANGED <<opened, astray, pcs, sock>> /\ \A y \in Sessions : up'[y] = up[y]
    BY <1>0, <1>16, AnswerMadeDoes
  <2>2. QED BY <1>2, <2>1
<1>17. ASSUME NEW w \in Watchers, Leave(w) \/ LoseSeat(w) PROVE Connected(b)'
  <2>1. PICK how \in {"lost", "left"} : CloseSeat(w, how)
    BY <1>17 DEF Leave, LoseSeat
  <2>2. UNCHANGED <<opened, astray, pcs, sock>> /\ \A y \in Sessions : up'[y] = up[y]
    BY <1>0, <2>1, CloseSeatDoes
  <2>3. QED BY <1>2, <2>2
<1>18. QED
  BY <1>4, <1>5, <1>6, <1>7, <1>8, <1>9, <1>10, <1>11, <1>12, <1>13, <1>14, <1>15, <1>16, <1>17
     DEF Next, ServerStep, StationStep, WatcherStep

(***************************************************************************)
(* Announced                                                               *)
(***************************************************************************)
\* A page that is on the air is so on a socket of its own.
LEMMA AirSocket ==
  ASSUME TypeOK, Sockets, NEW b \in Stations
  PROVE  /\ Current(b) # NoSession
         /\ OnAir(b) => Current(b) \in Sessions /\ Dialled(b)
<1>1. Current(b) # NoSession
  <2>1. Current(b) \in Stations \X Nat
    BY PresentSocket DEF Current
  <2>2. QED BY <2>1, MonitorAssumption
<1>2. QED BY <1>1, PresentSocket DEF OnAir, Dialled, TypeOK

\* What a broadcast page hears on x of a viewer w, and what it does to the
\* connections of b.
HeardAt(b, x, w) ==
  /\ sock[x] = "open" /\ down[x] \in Seq(Notices) /\ down[x] # <<>>
  /\ down'[x] = Tail(down[x]) /\ \A y \in Ends : y # x => down'[y] = down[y]
  /\ w \in Watchers
  /\ UNCHANGED <<broadcaster, viewers, flow, status, capture, opened, sock, astray, seat,
                 shown, pc, answering, overtaken, up>>
  /\ \A v \in Watchers : b # x[1] \/ v # w => pcs'[b][v] = pcs[b][v]
  /\ x # Current(b) => b # x[1] \/ astray[b]
  /\ Current(b)' = Current(b)
  /\ ViewerJoined(x) => /\ Head(down[x]).type = "viewer-joined"
                        /\ b = x[1] => pcs'[b][w].state = "offering"
  /\ ViewerLeft(x) => /\ Head(down[x]).type = "viewer-left"
                      /\ b = x[1] => pcs'[b][w] = NoPc
  /\ Answered(x) =>
       /\ Head(down[x]).type = "answer"
       /\ b = x[1] =>
            /\ \/ pcs'[b][w] = pcs[b][w]
               \/ pcs[b][w].state = "offered" /\ pcs'[b][w].state = "answered"
            /\ pcs[b][w].state = "offered" => pcs'[b][w].state = "answered"
  /\ pcs' \in [Stations -> [Watchers -> Pcs]]

LEMMA StationHears ==
  ASSUME InductiveInv, NEW b \in Stations, NEW x \in Sessions,
         ViewerJoined(x) \/ Answered(x) \/ ViewerLeft(x)
  PROVE  HeardAt(b, x, Head(down[x]).viewer)
<1> USE DEF InductiveInv
<1> DEFINE w == Head(down[x]).viewer
           Heard(type, new) ==
             /\ sock[x] = "open" /\ down[x] \in Seq(Notices) /\ down[x] # <<>>
             /\ Head(down[x]).type = type
             /\ down'[x] = Tail(down[x]) /\ \A y \in Ends : y # x => down'[y] = down[y]
             /\ w \in Watchers
             /\ UNCHANGED <<broadcaster, viewers, flow, status, capture, opened, sock, astray, seat,
                            shown, pc, answering, overtaken, up>>
             /\ \A v \in Watchers : b # x[1] \/ v # w => pcs'[b][v] = pcs[b][v]
             /\ b = x[1] => pcs'[b][w] = new
             /\ pcs' \in [Stations -> [Watchers -> Pcs]]
<1>1. Current(b)' = Current(b)
  BY DEF ViewerJoined, Answered, ViewerLeft, Current
<1>2. ASSUME sock[x] = "open", x # Current(b) PROVE b # x[1] \/ astray[b]
  BY <1>2 DEF Sockets
<1>3. CASE ViewerJoined(x)
  <2>1. PICK new \in Pcs : /\ new.state = "offering" /\ Hears(x, "viewer-joined")
                           /\ SetPc(x[1], w, new)
                           /\ UNCHANGED <<flow, status, capture, opened, sock, astray, server,
                                          watcher, up>>
    BY <1>3, ViewerJoinedDoes
  <2>2. Heard("viewer-joined", new)
    <3>1. Hears(x, "viewer-joined") /\ SetPc(x[1], w, new)
      BY <2>1
    <3>2. UNCHANGED <<flow, status, capture, opened, sock, astray, server, watcher, up>>
      BY <2>1
    <3>3. UNCHANGED <<broadcaster, viewers, flow, status, capture, opened, sock, astray, seat,
                      shown, pc, answering, overtaken, up>>
      BY <3>2 DEF server, watcher
    <3>4. QED BY <3>1, <3>2, <3>3, HeardDoes
  <2>3. ~ViewerLeft(x) /\ ~Answered(x)
    BY <2>2 DEF ViewerLeft, Answered, Hears
  <2>4. QED BY <1>1, <1>2, <2>1, <2>2, <2>3 DEF HeardAt
<1>4. CASE ViewerLeft(x)
  <2>1. Heard("viewer-left", NoPc)
    BY <1>4, ViewerLeftDoes, HeardDoes, Connections
  <2>2. ~ViewerJoined(x) /\ ~Answered(x)
    BY <2>1 DEF ViewerJoined, Answered, Hears
  <2>3. QED BY <1>1, <1>2, <2>1, <2>2 DEF HeardAt
<1>5. CASE Answered(x)
  <2> DEFINE old == pcs[x[1]][w]
  <2>1. PICK new \in Pcs : /\ new = old \/ (old.state = "offered" /\ new.state = "answered")
                           /\ old.state = "offered" => new.state = "answered"
                           /\ Hears(x, "answer") /\ SetPc(x[1], w, new)
                           /\ UNCHANGED <<flow, status, capture, opened, sock, astray, server,
                                          watcher, up>>
    BY <1>5, AnsweredDoes
  <2>2. Heard("answer", new)
    <3>1. Hears(x, "answer") /\ SetPc(x[1], w, new)
      BY <2>1
    <3>2. UNCHANGED <<flow, status, capture, opened, sock, astray, server, watcher, up>>
      BY <2>1
    <3>3. UNCHANGED <<broadcaster, viewers, flow, status, capture, opened, sock, astray, seat,
                      shown, pc, answering, overtaken, up>>
      BY <3>2 DEF server, watcher
    <3>4. QED BY <3>1, <3>2, <3>3, HeardDoes
  <2>3. ~ViewerJoined(x) /\ ~ViewerLeft(x)
    BY <2>2 DEF ViewerJoined, ViewerLeft, Hears
  <2>4. QED BY <1>1, <1>2, <2>1, <2>2, <2>3 DEF HeardAt
<1>6. QED BY <1>3, <1>4, <1>5

\* The same of its own socket, message by message, with the viewer it names.
LEMMA OwnHears ==
  ASSUME InductiveInv, NEW b \in Stations, NEW c \in Sessions, c[1] = b,
         ViewerJoined(c) \/ Answered(c) \/ ViewerLeft(c)
  PROVE  \E w \in Watchers :
           /\ w = Head(down[c]).viewer
           /\ UNCHANGED <<viewers, astray>>
           /\ down[c] \in Seq(Notices) /\ down[c] # <<>> /\ down'[c] = Tail(down[c])
           /\ \A v \in Watchers : v # w => pcs'[b][v] = pcs[b][v]
           /\ ViewerJoined(c) =>
                Head(down[c]).type = "viewer-joined" /\ pcs'[b][w] # NoPc
           /\ Answered(c) =>
                Head(down[c]).type = "answer" /\ (pcs'[b][w] = NoPc <=> pcs[b][w] = NoPc)
           /\ ViewerLeft(c) =>
                Head(down[c]).type = "viewer-left" /\ pcs'[b][w] = NoPc
<1> DEFINE w == Head(down[c]).viewer
<1>1. HeardAt(b, c, w)
  BY StationHears
<1> SUFFICES ASSUME NEW u, u = w, HeardAt(b, c, u)
             PROVE  /\ u \in Watchers
                    /\ UNCHANGED <<viewers, astray>>
                    /\ down[c] \in Seq(Notices) /\ down[c] # <<>> /\ down'[c] = Tail(down[c])
                    /\ \A v \in Watchers : v # u => pcs'[b][v] = pcs[b][v]
                    /\ ViewerJoined(c) =>
                         Head(down[c]).type = "viewer-joined" /\ pcs'[b][u] # NoPc
                    /\ Answered(c) =>
                         Head(down[c]).type = "answer" /\ (pcs'[b][u] = NoPc <=> pcs[b][u] = NoPc)
                    /\ ViewerLeft(c) =>
                         Head(down[c]).type = "viewer-left" /\ pcs'[b][u] = NoPc
  BY <1>1
<1> HIDE DEF w
<1>2. NoPc.state = "none"
  BY Connections
<1>3. QED BY <1>2 DEF HeardAt

\* What the other steps leave of a page that stays on the air.
LEMMA StillOnAir ==
  ASSUME InductiveInv, Next, NEW b \in Stations, OnAir(b)',
         ~(\E x \in Sessions : RegisterBroadcaster(x))
  PROVE  /\ OnAir(b) /\ Current(b)' = Current(b) /\ Current(b) \in Sessions
         /\ sock'[Current(b)] = "open" /\ broadcaster' = broadcaster
         /\ astray[b] => astray'[b]
<1> USE DEF InductiveInv
<1> DEFINE c == Current(b)
<1>0. /\ \A x \in Sessions : x \in Ends /\ x \notin Watchers /\ x[1] \in Stations
      /\ \A w \in Watchers : w \in Ends
      /\ Current(b)' = <<b, opened'[b]>> /\ broadcaster' = Current(b)'
      /\ sock'[Current(b)'] = "open" /\ c # NoSession
  BY Apart, AirSocket DEF OnAir, Current
<1>1. broadcaster' = broadcaster /\ Current(b)' = c => c \in Sessions
  <2>1. broadcaster \in Sessions \cup {NoSession}
    BY DEF TypeOK
  <2>2. QED BY <1>0, <2>1
<1>2. ASSUME UNCHANGED <<broadcaster, opened>>, sock'[c] = "open" => sock[c] = "open",
             astray[b] => astray'[b]
      PROVE  OnAir(b) /\ Current(b)' = c /\ c \in Sessions
             /\ sock'[c] = "open" /\ broadcaster' = broadcaster /\ (astray[b] => astray'[b])
  <2>1. Current(b)' = c
    BY <1>2 DEF Current
  <2>2. OnAir(b)
    BY <1>0, <1>2, <2>1 DEF OnAir
  <2>3. QED BY <1>0, <1>2, <2>1, <2>2, AirSocket
<1> DEFINE Goal == OnAir(b) /\ Current(b)' = c /\ c \in Sessions
                   /\ sock'[c] = "open" /\ broadcaster' = broadcaster /\ (astray[b] => astray'[b])
<1> HIDE DEF Goal
<1>3. ASSUME UNCHANGED <<broadcaster, opened, sock, astray>> PROVE Goal
  BY <1>2, <1>3 DEF Goal
<1>4. ASSUME NEW x \in Sessions, RelayOffer(x) PROVE Goal
  BY <1>3, <1>4 DEF RelayOffer, Takes, station, server
<1>5. ASSUME NEW x \in Sessions, CloseBroadcaster(x) PROVE Goal
  <2>1. UNCHANGED <<opened, sock, astray>>
    BY <1>5 DEF CloseBroadcaster, Takes, station
  <2>2. Current(b)' = c
    BY <2>1 DEF Current
  <2>3. broadcaster' = broadcaster \/ broadcaster' = NoSession
    BY <1>5 DEF CloseBroadcaster
  <2>4. QED BY <1>0, <1>3, <2>1, <2>2, <2>3
<1>6. ASSUME NEW w \in Watchers, RelayAnswer(w) \/ CloseViewer(w) PROVE Goal
  BY <1>3, <1>6 DEF RelayAnswer, CloseViewer, Takes, station, server
<1>7. ASSUME NEW w \in Watchers, RegisterViewer(w) \/ RefuseViewer(w) PROVE Goal
  BY <1>3, <1>7 DEF RegisterViewer, RefuseViewer, Visits, station, server
<1>8. ASSUME NEW a \in Stations, StartSharing(a) \/ PickerCancelled(a) \/ Picked(a) PROVE Goal
  BY <1>3, <1>8 DEF StartSharing, PickerCancelled, Picked, server
<1>9. ASSUME NEW a \in Stations, Fetched(a) PROVE Goal
  <2>1. opened[a] < MaxShares
    BY <1>9, NextSocketFits DEF Fetched
  <2>2. /\ broadcaster' = broadcaster /\ sock'[Current(a)'] = "opening"
        /\ Current(a)' \in Sessions /\ Current(a)' = <<a, opened[a] + 1>>
        /\ \A x \in Sessions : x # Current(a)' => sock'[x] = sock[x]
        /\ \A d \in Stations : d # a => opened'[d] = opened[d] /\ astray'[d] = astray[d]
    BY <1>9, <2>1, FetchedDoes
  <2>3. a # b
    BY <1>0, <2>2
  <2>4. Current(b)' = c /\ opened'[b] = opened[b] /\ astray'[b] = astray[b]
    BY <2>2, <2>3 DEF Current
  <2>5. c \in Sessions
    BY <1>1, <2>2, <2>4
  <2>6. c # Current(a)'
    BY <2>2, <2>3, PresentSocket
  <2>7. sock'[c] = sock[c]
    BY <2>2, <2>5, <2>6
  <2>8. OnAir(b)
    BY <1>0, <2>2, <2>4, <2>7 DEF OnAir
  <2>9. QED BY <1>0, <2>2, <2>4, <2>5, <2>8 DEF Goal
<1>10. ASSUME NEW a \in Stations, StopSharing(a) PROVE Goal
  <2>1. UNCHANGED <<broadcaster, opened, astray>>
    BY <1>10, StopSharingDoes
  <2>2. Current(b)' = c /\ c \in Sessions
    BY <1>1, <2>1 DEF Current
  <2>3. sock'[c] = "open" => sock[c] = "open"
    <3>1. CASE Dialled(a)
      <4>1. /\ sock'[Current(a)] = "closing"
            /\ \A x \in Sessions : x # Current(a) => sock'[x] = sock[x]
        BY <1>10, <3>1, StopSharingDoes
      <4>2. QED BY <2>2, <4>1
    <3>2. CASE ~Dialled(a)
      BY <1>10, <3>2, StopSharingDoes
    <3>3. QED BY <3>1, <3>2
  <2>4. QED BY <1>2, <2>1, <2>3 DEF Goal
<1>11. ASSUME NEW a \in Stations, NEW w \in Watchers, OfferMade(a, w) PROVE Goal
  BY <1>3, <1>11, OfferMadeDoes
<1>12. ASSUME NEW x \in Sessions, Opened(x) PROVE Goal
  <2>1. /\ UNCHANGED <<broadcaster, opened, astray>> /\ sock[x] = "opening"
        /\ \A y \in Sessions : y # x => sock'[y] = sock[y]
    BY <1>12, OpenedDoes
  <2>2. broadcaster # x
    BY <2>1 DEF Uplink
  <2>3. Current(b)' = c /\ c \in Sessions
    BY <1>1, <2>1 DEF Current
  <2>4. sock'[c] = sock[c]
    BY <1>0, <2>1, <2>2, <2>3
  <2>5. QED BY <1>2, <2>1, <2>4 DEF Goal
<1>13. ASSUME NEW x \in Sessions, ViewerJoined(x) \/ Answered(x) \/ ViewerLeft(x) PROVE Goal
  BY <1>3, <1>13, StationHears DEF HeardAt
<1>14. ASSUME NEW x \in Sessions, Closed(x) PROVE Goal
  <2>1. UNCHANGED <<broadcaster, opened, astray>> /\ sock' = [sock EXCEPT ![x] = "closed"]
    BY <1>14 DEF Closed, server
  <2>2. Current(b)' = c /\ c \in Sessions
    BY <1>1, <2>1 DEF Current
  <2>3. sock'[c] = "open" => sock[c] = "open"
    BY <2>1, <2>2 DEF TypeOK
  <2>4. QED BY <1>2, <2>1, <2>3 DEF Goal
<1>15. ASSUME NEW x \in Sessions, Lost(x) PROVE Goal
  <2>1. /\ UNCHANGED <<broadcaster, opened>> /\ sock'[x] = "closed"
        /\ \A y \in Sessions : y # x => sock'[y] = sock[y]
        /\ astray'[x[1]] /\ \A a \in Stations : a # x[1] => astray'[a] = astray[a]
    BY <1>15, LostDoes
  <2>2. Current(b)' = c /\ c \in Sessions
    BY <1>1, <2>1 DEF Current
  <2>3. (sock'[c] = "open" => sock[c] = "open") /\ (astray[b] => astray'[b])
    BY <2>1, <2>2
  <2>4. QED BY <1>2, <2>1, <2>3 DEF Goal
<1>16. ASSUME NEW w \in Watchers,
              Registered(w) \/ Refused(w) \/ Offered(w) \/ BroadcasterLeft(w) PROVE Goal
  BY <1>3, <1>16 DEF Registered, Refused, Offered, BroadcasterLeft, station, server
<1>17. ASSUME NEW w \in Watchers, NEW x \in Sessions, AnswerMade(w, x) PROVE Goal
  BY <1>3, <1>17, AnswerMadeDoes
<1>18. ASSUME NEW w \in Watchers, Leave(w) \/ LoseSeat(w) PROVE Goal
  BY <1>3, <1>18 DEF Leave, LoseSeat, CloseSeat, server, station
<1>19. Goal
  BY <1>4, <1>5, <1>6, <1>7, <1>8, <1>9, <1>10, <1>11, <1>12, <1>13, <1>14, <1>15, <1>16, <1>17,
     <1>18 DEF Next, ServerStep, StationStep, WatcherStep
<1>20. QED BY <1>19 DEF Goal

LEMMA AnnouncedKept ==
  ASSUME InductiveInv, Next, NEW b \in Stations
  PROVE  Announced(b)'
<1> USE DEF InductiveInv
<1> DEFINE c == Current(b)
           Told1 == \A w \in viewers' : pcs'[b][w] = NoPc => About(down'[c], "viewer-joined", w)
           Told2 == ~astray'[b] => \A w \in Watchers \ viewers' :
                      pcs'[b][w] # NoPc \/ About(down'[c], "viewer-joined", w)
                        => About(down'[c], "viewer-left", w)
<1>0. /\ Announced(b) /\ viewers \subseteq Watchers
      /\ \A x \in Sessions : x \in Ends /\ x \notin Watchers /\ x[1] \in Stations
      /\ \A w \in Watchers : w \in Ends
  BY Apart DEF TypeOK
<1>1. ASSUME NEW x \in Sessions, RegisterBroadcaster(x), OnAir(b)' PROVE Announced(b)'
  <2>1. /\ Takes(x, "register") /\ broadcaster' = x /\ viewers' = viewers
        /\ \A w : About(down'[x], "viewer-joined", w) => w \in viewers
        /\ sock[x] = "open" => \A w \in viewers : About(down'[x], "viewer-joined", w)
    BY <1>1, RegisterDoes
  <2>2. /\ UNCHANGED <<sock, opened, pcs, astray>> /\ up[x] \in Seq(Requests)
        /\ up[x] # <<>> /\ Head(up[x]).type = "register"
    BY <1>0, <2>1, TakesDoes
  <2>3. Current(b)' = c /\ c = x /\ sock[x] = "open"
    BY <1>1, <2>1, <2>2 DEF OnAir, Current
  <2>4. Has(up[x], "register")
    BY <2>2, HasTaken
  <2>5. ~astray[b] => \A w \in Watchers : pcs[b][w] = NoPc
    BY <2>3, <2>4 DEF Connected
  <2>6. Told1 /\ Told2
    BY <2>1, <2>2, <2>3, <2>5
  <2>7. QED BY <2>3, <2>6 DEF Announced, News
<1>2. ASSUME OnAir(b)', ~(\E x \in Sessions : RegisterBroadcaster(x)) PROVE Announced(b)'
  <2>0. /\ OnAir(b) /\ Current(b)' = c /\ c \in Sessions /\ sock[c] = "open" /\ broadcaster = c
        /\ astray[b] => astray'[b]
        /\ down[c] \in Seq(Notices)
    BY <1>0, <1>2, StillOnAir DEF OnAir, TypeOK
  <2>1. /\ \A w \in viewers : pcs[b][w] = NoPc => About(down[c], "viewer-joined", w)
        /\ ~astray[b] => \A w \in Watchers \ viewers :
             pcs[b][w] # NoPc \/ About(down[c], "viewer-joined", w)
               => About(down[c], "viewer-left", w)
    BY <1>0, <2>0 DEF Announced, News
  <2>22. ASSUME viewers' = viewers, \A w \in Watchers : pcs'[b][w] = NoPc <=> pcs[b][w] = NoPc,
                \A w : /\ About(down'[c], "viewer-joined", w) <=> About(down[c], "viewer-joined", w)
                       /\ About(down'[c], "viewer-left", w) <=> About(down[c], "viewer-left", w)
         PROVE  Told1 /\ Told2
    BY <1>0, <2>0, <2>1, <2>22
  <2>2. ASSUME viewers' = viewers, \A w \in Watchers : pcs'[b][w] = NoPc <=> pcs[b][w] = NoPc,
               \/ down'[c] = down[c]
               \/ \E m \in Notices : /\ m.type \notin {"viewer-joined", "viewer-left"}
                                     /\ down'[c] = Append(down[c], m)
        PROVE  Told1 /\ Told2
    <3>1. \A w : /\ About(down'[c], "viewer-joined", w) <=> About(down[c], "viewer-joined", w)
                 /\ About(down'[c], "viewer-left", w) <=> About(down[c], "viewer-left", w)
      <4>1. CASE down'[c] = down[c]
        BY <4>1
      <4>2. CASE \E m \in Notices : /\ m.type \notin {"viewer-joined", "viewer-left"}
                                    /\ down'[c] = Append(down[c], m)
        BY <2>0, <4>2, AboutAdded
      <4>3. QED BY <2>2, <4>1, <4>2
    <3>2. QED BY <2>22, <2>2, <3>1
  <2>3. ASSUME UNCHANGED <<viewers, pcs>>, down'[c] = down[c] PROVE Told1 /\ Told2
    BY <2>2, <2>3
  <2>4. ASSUME NEW x \in Sessions, RelayOffer(x) PROVE Told1 /\ Told2
    <3>1. Takes(x, "offer") /\ viewers' = viewers /\ down'[c] = down[c]
      BY <2>0, <2>4, RelayOfferDoes
    <3>2. QED BY <1>0, <2>3, <3>1, TakesDoes
  <2>5. ASSUME NEW x \in Sessions, CloseBroadcaster(x) PROVE Told1 /\ Told2
    <3>1. Takes(x, "close") /\ viewers' = viewers /\ down'[c] = down[c]
      BY <2>0, <2>5, CloseBroadcasterDoes
    <3>2. QED BY <1>0, <2>3, <3>1, TakesDoes
  <2>6. ASSUME NEW w \in Watchers, RegisterViewer(w) PROVE Told1 /\ Told2
    <3> DEFINE m == [type |-> "viewer-joined", viewer |-> w]
    <3>1. pcs' = pcs /\ viewers' = viewers \cup {w} /\ down'[c] = Append(down[c], m)
      BY <2>0, <2>6, RegisterViewerDoes
    <3>2. m \in Notices /\ m.type = "viewer-joined" /\ m.viewer = w
      BY Messages
    <3> HIDE DEF m
    <3>3. \A u : /\ About(down'[c], "viewer-joined", u)
                      <=> About(down[c], "viewer-joined", u) \/ u = w
                 /\ About(down'[c], "viewer-left", u) <=> About(down[c], "viewer-left", u)
      BY <2>0, <3>1, <3>2, AboutAdded
    <3>4. QED BY <2>0, <2>1, <3>1, <3>3
  <2>7. ASSUME NEW w \in Watchers, RefuseViewer(w) PROVE Told1 /\ Told2
    <3>1. UNCHANGED <<viewers, pcs>> /\ down'[c] = down[c]
      BY <1>0, <2>0, <2>7, RefuseViewerDoes
    <3>2. QED BY <2>3, <3>1
  <2>8. ASSUME NEW w \in Watchers, RelayAnswer(w) PROVE Told1 /\ Told2
    <3>1. PICK m \in Notices : m.type = "answer" /\ down'[c] = Append(down[c], m)
      BY <2>0, <2>8, RelayAnswerDoes
    <3>2. Takes(w, "answer") /\ viewers' = viewers
      BY <2>8, RelayAnswerDoes
    <3>3. pcs' = pcs
      BY <1>0, <3>2, TakesDoes
    <3>4. QED BY <2>2, <3>1, <3>2, <3>3
  <2>9. ASSUME NEW w \in Watchers, CloseViewer(w) PROVE Told1 /\ Told2
    <3>1. PICK m \in Notices :
            /\ m.type = "viewer-left" /\ m.viewer = w
            /\ down'[c] = IF w \in viewers THEN Append(down[c], m) ELSE down[c]
      BY <2>0, <2>9, CloseViewerDoes
    <3>2. Takes(w, "close") /\ viewers' = viewers \ {w}
      BY <2>9, CloseViewerDoes
    <3>3. pcs' = pcs
      BY <1>0, <3>2, TakesDoes
    <3>4. CASE w \notin viewers
      BY <2>3, <3>1, <3>2, <3>3, <3>4
    <3>5. CASE w \in viewers
      <4>1. \A u : /\ About(down'[c], "viewer-joined", u) <=> About(down[c], "viewer-joined", u)
                   /\ About(down'[c], "viewer-left", u)
                        <=> About(down[c], "viewer-left", u) \/ u = w
        BY <2>0, <3>1, <3>5, AboutAdded
      <4>2. QED BY <2>0, <2>1, <3>2, <3>3, <4>1
    <3>6. QED BY <3>4, <3>5
  <2>10. ASSUME NEW a \in Stations, StartSharing(a) \/ PickerCancelled(a) \/ Picked(a) \/ Fetched(a)
         PROVE  Told1 /\ Told2
    BY <2>3, <2>10 DEF StartSharing, PickerCancelled, Picked, Fetched, server, wire
  <2>11. ASSUME NEW a \in Stations, StopSharing(a) PROVE Told1 /\ Told2
    <3>1. /\ UNCHANGED <<viewers, opened>>
          /\ \A w \in Watchers : pcs'[b][w] = IF b = a THEN NoPc ELSE pcs[b][w]
      BY <2>11, StopSharingDoes
    <3>2. a # b
      <4>1. SUFFICES ASSUME a = b PROVE FALSE
        OBVIOUS
      <4>2. Dialled(b)
        BY <2>0, AirSocket
      <4>3. sock'[c] = "closing"
        BY <2>11, <4>1, <4>2, StopSharingDoes
      <4>4. QED BY <1>2, <2>0, <4>3 DEF OnAir
    <3>3. c # Current(a)
      BY <3>2, PresentSocket
    <3>4. down'[c] = down[c]
      <4>1. CASE Dialled(a)
        BY <1>0, <2>0, <2>11, <3>3, <4>1, StopSharingDoes
      <4>2. CASE ~Dialled(a)
        BY <2>11, <4>2, StopSharingDoes
      <4>3. QED BY <4>1, <4>2
    <3>5. QED BY <2>2, <3>1, <3>2, <3>4
  <2>12. ASSUME NEW a \in Stations, NEW w \in Watchers, OfferMade(a, w) PROVE Told1 /\ Told2
    <3>1. /\ UNCHANGED <<viewers, down>>
          /\ pcs[a][w].state = "offering" /\ pcs'[a][w].state = "offered"
          /\ \A d \in Stations, v \in Watchers : d # a \/ v # w => pcs'[d][v] = pcs[d][v]
      BY <2>12, OfferMadeDoes
    <3>2. \A v \in Watchers : pcs'[b][v] = NoPc <=> pcs[b][v] = NoPc
      BY <3>1, Connections
    <3>3. QED BY <2>2, <3>1, <3>2
  <2>13. ASSUME NEW x \in Sessions, Opened(x) \/ Closed(x) PROVE Told1 /\ Told2
    BY <2>3, <2>13 DEF Opened, Closed, server, wire
  <2>14. ASSUME NEW x \in Sessions, Lost(x) PROVE Told1 /\ Told2
    <3>1. UNCHANGED <<viewers, pcs>> /\ sock'[x] = "closed"
          /\ \A y \in Ends : y # x => down'[y] = down[y]
      BY <2>14, LostDoes
    <3>2. x # c
      BY <1>2, <2>0, <3>1 DEF OnAir
    <3>3. QED BY <1>0, <2>0, <2>3, <3>1, <3>2
  <2>15. ASSUME NEW x \in Sessions, ViewerJoined(x) \/ Answered(x) \/ ViewerLeft(x), x # c
         PROVE  Told1 /\ Told2
    <3>0. PICK w : w = Head(down[x]).viewer /\ HeardAt(b, x, w)
      BY <2>15, StationHears
    <3>1. /\ viewers' = viewers /\ down'[c] = down[c] /\ w \in Watchers /\ astray' = astray
          /\ \A v \in Watchers : b # x[1] \/ v # w => pcs'[b][v] = pcs[b][v]
          /\ b # x[1] \/ astray[b]
      <4>1. c \in Ends /\ c # x /\ x # Current(b)
        BY <1>0, <2>0, <2>15
      <4>2. QED BY <3>0, <4>1 DEF HeardAt
    <3>2. CASE b # x[1]
      BY <2>2, <3>1, <3>2
    <3>3. CASE b = x[1]
      <4>1. astray'[b]
        BY <3>1, <3>3
      <4>2. CASE pcs'[b][w] # NoPc
        BY <1>0, <2>1, <3>1, <4>1, <4>2
      <4>3. CASE Answered(x) /\ pcs'[b][w] = NoPc
        <5>1. LET old == pcs[b][w]
                  new == pcs'[b][w]
              IN new = old \/ (old.state = "offered" /\ new.state = "answered")
          BY <3>0, <3>3, <4>3 DEF HeardAt
        <5>2. pcs[b][w] = NoPc
          BY <4>3, <5>1, Connections
        <5>3. QED BY <1>0, <2>1, <3>1, <4>1, <4>3, <5>2
      <4>4. CASE ViewerLeft(x)
        <5>1. Head(down[x]).type = "viewer-left" /\ down[x] \in Seq(Notices) /\ down[x] # <<>>
          BY <3>0, <4>4 DEF HeardAt
        <5>2. w \notin viewers
          <6>1. About(down[x], "viewer-left", w)
            BY <3>0, <5>1, AboutTaken
          <6>2. QED BY <3>1, <6>1 DEF Departures
        <5>3. QED BY <1>0, <2>1, <3>1, <4>1, <5>2
      <4>5. CASE ViewerJoined(x)
        <5>1. pcs'[b][w].state = "offering"
          BY <3>0, <3>3, <4>5 DEF HeardAt
        <5>2. pcs'[b][w] # NoPc
          BY <5>1, Connections
        <5>3. QED BY <4>2, <5>2
      <4>6. QED BY <2>15, <4>2, <4>3, <4>4, <4>5
    <3>4. QED BY <3>2, <3>3
  <2>16. ASSUME ViewerJoined(c) \/ Answered(c) \/ ViewerLeft(c)
         PROVE  Told1 /\ Told2
    <3>0. c[1] = b
      BY PresentSocket
    <3>1. PICK w \in Watchers :
            /\ w = Head(down[c]).viewer
            /\ UNCHANGED <<viewers, astray>>
            /\ down[c] \in Seq(Notices) /\ down[c] # <<>> /\ down'[c] = Tail(down[c])
            /\ \A v \in Watchers : v # w => pcs'[b][v] = pcs[b][v]
            /\ ViewerJoined(c) =>
                 Head(down[c]).type = "viewer-joined" /\ pcs'[b][w] # NoPc
            /\ Answered(c) =>
                 Head(down[c]).type = "answer" /\ (pcs'[b][w] = NoPc <=> pcs[b][w] = NoPc)
            /\ ViewerLeft(c) =>
                 Head(down[c]).type = "viewer-left" /\ pcs'[b][w] = NoPc
      BY <2>0, <2>16, <3>0, OwnHears
    <3>2. \A type, v : About(down[c], type, v)
             <=> (Head(down[c]).type = type /\ w = v) \/ About(down'[c], type, v)
      BY <3>1, AboutTaken
    <3>3. CASE ViewerJoined(c)
      <4>1. Head(down[c]).type = "viewer-joined" /\ pcs'[b][w] # NoPc
        BY <3>1, <3>3
      <4>2. Told1
        BY <1>0, <2>1, <3>1, <3>2, <4>1
      <4>3. Told2
        BY <2>1, <3>1, <3>2, <4>1
      <4>4. QED BY <4>2, <4>3
    <3>4. CASE Answered(c)
      <4>1. /\ Head(down[c]).type = "answer"
            /\ \A v \in Watchers : pcs'[b][v] = NoPc <=> pcs[b][v] = NoPc
        BY <3>1, <3>4
      <4>2. \A v : /\ About(down'[c], "viewer-joined", v) <=> About(down[c], "viewer-joined", v)
                   /\ About(down'[c], "viewer-left", v) <=> About(down[c], "viewer-left", v)
        BY <3>2, <4>1
      <4>3. QED BY <2>22, <3>1, <4>1, <4>2
    <3>5. CASE ViewerLeft(c)
      <4>1. Head(down[c]).type = "viewer-left" /\ pcs'[b][w] = NoPc
        BY <3>1, <3>5
      <4>2. w \notin viewers
        BY <2>0, <3>2, <4>1 DEF Departures
      <4>3. ~About(down'[c], "viewer-joined", w)
        <5>1. JoinedBefore(down[c])
          BY <2>0 DEF Departures
        <5>2. QED BY <3>1, <4>1, <5>1, JoinedBeforeTaken
      <4>4. Told1
        BY <1>0, <2>1, <3>1, <3>2, <4>1, <4>2
      <4>5. Told2
        BY <2>1, <3>1, <3>2, <4>1, <4>3
      <4>6. QED BY <4>4, <4>5
    <3>6. QED BY <2>16, <3>3, <3>4, <3>5
  <2>17. ASSUME NEW w \in Watchers,
                Registered(w) \/ Refused(w) \/ Offered(w) \/ BroadcasterLeft(w)
         PROVE  Told1 /\ Told2
    <3>1. UNCHANGED <<viewers, pcs>>
      BY <2>17 DEF Registered, Refused, Offered, BroadcasterLeft, server, station
    <3>2. \E type : Hears(w, type)
      BY <2>17 DEF Registered, Refused, Offered, BroadcasterLeft
    <3>3. down'[c] = down[c]
      BY <1>0, <2>0, <3>2, WatcherHears
    <3>4. QED BY <2>3, <3>1, <3>3
  <2>18. ASSUME NEW w \in Watchers, NEW x \in Sessions, AnswerMade(w, x) PROVE Told1 /\ Told2
    BY <2>3, <2>18, AnswerMadeDoes
  <2>19. ASSUME NEW w \in Watchers, Leave(w) \/ LoseSeat(w) PROVE Told1 /\ Told2
    <3>1. PICK how \in {"lost", "left"} : CloseSeat(w, how)
      BY <2>19 DEF Leave, LoseSeat
    <3>2. UNCHANGED <<viewers, pcs>> /\ down'[c] = down[c]
      BY <1>0, <2>0, <3>1, CloseSeatDoes
    <3>3. QED BY <2>3, <3>2
  <2>20. Told1 /\ Told2
    BY <1>2, <2>4, <2>5, <2>6, <2>7, <2>8, <2>9, <2>10, <2>11, <2>12, <2>13, <2>14, <2>15, <2>16,
       <2>17, <2>18, <2>19 DEF Next, ServerStep, StationStep, WatcherStep
  <2>21. QED BY <2>0, <2>20 DEF Announced, News
<1>3. CASE ~OnAir(b)'
  BY <1>3 DEF Announced
<1>4. QED BY <1>1, <1>2, <1>3

(***************************************************************************)
(* Negotiated                                                              *)
(***************************************************************************)
LEMMA NegotiatedKept ==
  ASSUME InductiveInv, Next, NEW b \in Stations, NEW v \in Watchers
  PROVE  Negotiated(b, v)'
<1> USE DEF InductiveInv
<1> DEFINE c == Current(b)
           Coming0 == \/ About(down[c], "viewer-joined", v) \/ pcs[b][v].state = "offering"
                      \/ OffersTo(up[c], v)
           Coming1 == \/ About(down'[c], "viewer-joined", v) \/ pcs'[b][v].state = "offering"
                      \/ OffersTo(up'[c], v)
           Answer0 == \/ Has(down[v], "offer") \/ answering[v] # {}
                      \/ Has(up[v], "answer") \/ About(down[c], "answer", v)
           Answer1 == \/ Has(down'[v], "offer") \/ answering'[v] # {}
                      \/ Has(up'[v], "answer") \/ About(down'[c], "answer", v)
           Seen0 == \/ OfferAhead(down[v])
                    \/ /\ answering[v] # {} \/ shown[v] = "live"
                       /\ ~Has(down[v], "broadcaster-left")
           Seen1 == \/ OfferAhead(down'[v])
                    \/ /\ answering'[v] # {} \/ shown'[v] = "live"
                       /\ ~Has(down'[v], "broadcaster-left")
           Goal == /\ pcs'[b][v].state = "offered" => Coming1 \/ Answer1
                   /\ Coming1 \/ Seen1
<1>0. /\ v \in Ends /\ v \notin Sessions /\ Seat(v)
      /\ \A x \in Sessions : x \in Ends /\ x \notin Watchers /\ x[1] \in Stations /\ x # v
      /\ \A w \in Watchers : w \in Ends
      /\ up[v] \in Seq(Requests) /\ down[v] \in Seq(Notices)
  BY Apart DEF TypeOK
<1>1. SUFFICES ASSUME v \in viewers', OnAir(b)', seat'[v] = "open", Current(b)' = c PROVE Goal
  <2>1. Current(b)' = c \/ ~OnAir(b)'
    <3>1. CASE \E x \in Sessions : RegisterBroadcaster(x)
      BY <3>1 DEF RegisterBroadcaster, Takes, station, Current
    <3>2. CASE ~\E x \in Sessions : RegisterBroadcaster(x)
      BY <3>2, StillOnAir
    <3>3. QED BY <3>1, <3>2
  <2>2. QED BY <2>1 DEF Negotiated, Coming, News
<1>2. ASSUME NEW x \in Sessions, RegisterBroadcaster(x) PROVE Goal
  <2>1. /\ Takes(x, "register") /\ broadcaster' = x /\ viewers' = viewers
        /\ sock[x] = "open" => \A w \in viewers : About(down'[x], "viewer-joined", w)
    BY <1>2, RegisterDoes
  <2>2. sock' = sock
    BY <1>0, <2>1, TakesDoes
  <2>3. c = x /\ sock[x] = "open"
    BY <1>1, <2>1, <2>2 DEF OnAir
  <2>4. QED BY <1>1, <2>1, <2>3
<1>3. ASSUME ~(\E x \in Sessions : RegisterBroadcaster(x)) PROVE Goal
  <2>0. /\ OnAir(b) /\ c \in Sessions /\ sock[c] = "open" /\ broadcaster = c /\ broadcaster' = c
        /\ sock'[c] = "open"
        /\ down[c] \in Seq(Notices) /\ up[c] \in Seq(Requests) /\ c \in Ends /\ c # v
    BY <1>0, <1>1, <1>3, StillOnAir DEF OnAir, TypeOK
  <2>1. ASSUME RegisterViewer(v) PROVE Goal
    <3> DEFINE m == [type |-> "viewer-joined", viewer |-> v]
    <3>1. down'[c] = Append(down[c], m)
      BY <2>0, <2>1, RegisterViewerDoes
    <3>2. m \in Notices /\ m.type = "viewer-joined" /\ m.viewer = v
      BY Messages
    <3> HIDE DEF m
    <3>3. About(down'[c], "viewer-joined", v)
      BY <2>0, <3>1, <3>2, AboutAdded
    <3>4. QED BY <3>3
  <2>2. ASSUME RefuseViewer(v) PROVE Goal
    <3>1. v \notin viewers /\ viewers' = viewers
      BY <1>0, <2>2, RefuseViewerDoes DEF Seat
    <3>2. QED BY <1>1, <3>1
  <2>3. ASSUME v \in viewers, seat[v] = "open"
        PROVE  /\ pcs[b][v].state = "offered" => Coming0 \/ Answer0
               /\ Coming0 \/ Seen0
    BY <2>0, <2>3 DEF Negotiated, Coming, News
  <2> HIDE DEF Coming0, Coming1, Answer0, Answer1, Seen0, Seen1
  \* Steps that leave what the page and the connection have.
  <2>4. ASSUME v \in viewers, seat[v] = "open",
               pcs'[b][v] = pcs[b][v], answering'[v] = answering[v], shown'[v] = shown[v],
               down'[v] = down[v], Has(up[v], "answer") => Has(up'[v], "answer"),
               \A type \in {"viewer-joined", "answer"} :
                 About(down[c], type, v) => About(down'[c], type, v),
               OffersTo(up[c], v) => OffersTo(up'[c], v)
        PROVE  Goal
    <3>1. (Coming0 => Coming1) /\ (Answer0 => Answer1) /\ (Seen0 => Seen1)
      BY <2>4 DEF Coming0, Coming1, Answer0, Answer1, Seen0, Seen1
    <3>2. QED BY <2>3, <2>4, <3>1
  <2>5. ASSUME v \in viewers, seat[v] = "open", UNCHANGED <<pcs, answering, shown>>,
               down'[v] = down[v], down'[c] = down[c], up'[v] = up[v], up'[c] = up[c]
        PROVE  Goal
    BY <2>4, <2>5
  <2>6. ASSUME NEW x \in Sessions, RelayOffer(x) PROVE Goal
    <3>1. /\ Takes(x, "offer") /\ viewers' = viewers /\ down'[c] = down[c]
      BY <2>0, <2>6, RelayOfferDoes
    <3>2. /\ UNCHANGED <<pcs, answering, shown, seat>> /\ up[x] # <<>> /\ Head(up[x]).type = "offer"
          /\ up'[x] = Tail(up[x]) /\ up'[v] = up[v]
          /\ x # c => up'[c] = up[c]
      BY <1>0, <2>0, <3>1, TakesDoes
    <3>3. CASE Head(up[x]).to = v
      <4>1. PICK m \in Notices : m.type = "offer" /\ down'[v] = Append(down[v], m)
        BY <1>1, <2>6, <3>1, <3>2, <3>3, RelayOfferDoes
      <4>2. Has(down'[v], "offer") /\ OfferAhead(down'[v])
        BY <1>0, <4>1, HasAdded, OfferAheadAdded
      <4>3. QED BY <4>2 DEF Answer1, Seen1
    <3>4. CASE Head(up[x]).to # v
      <4>1. down'[v] = down[v]
        BY <2>6, <3>4, RelayOfferDoes
      <4>2. OffersTo(up[c], v) => OffersTo(up'[c], v)
        <5>1. CASE x # c
          BY <3>2, <5>1
        <5>2. CASE x = c
          <6>1. OffersTo(up[c], v) <=> (Head(up[c]).type = "offer" /\ Head(up[c]).to = v)
                                       \/ OffersTo(Tail(up[c]), v)
            BY <2>0, <3>2, <5>2, OffersToTaken
          <6>2. QED BY <3>2, <3>4, <5>2, <6>1
        <5>3. QED BY <5>1, <5>2
      <4>3. v \in viewers /\ seat[v] = "open" /\ pcs'[b][v] = pcs[b][v] /\ up'[v] = up[v]
            /\ answering'[v] = answering[v] /\ shown'[v] = shown[v]
        BY <1>1, <3>1, <3>2
      <4>4. QED BY <2>4, <3>1, <4>1, <4>2, <4>3
    <3>5. QED BY <3>3, <3>4
  <2>7. ASSUME NEW x \in Sessions, CloseBroadcaster(x) PROVE Goal
    <3>1. Takes(x, "close") /\ viewers' = viewers
      BY <2>7, CloseBroadcasterDoes
    <3>2. x # c
      <4>1. SUFFICES ASSUME x = c PROVE FALSE
        OBVIOUS
      <4>2. broadcaster' = NoSession
        BY <2>0, <2>7, <4>1, CloseBroadcasterDoes
      <4>3. QED BY <2>0, <4>2, Apart
    <3>3. down' = down
      BY <2>0, <2>7, <3>2, CloseBroadcasterDoes
    <3>4. UNCHANGED <<pcs, answering, shown, seat>> /\ up'[v] = up[v] /\ up'[c] = up[c]
      BY <1>0, <2>0, <3>1, <3>2, TakesDoes
    <3>5. QED BY <1>1, <2>5, <3>1, <3>3, <3>4
  <2>8. ASSUME NEW w \in Watchers, w # v, RegisterViewer(w) PROVE Goal
    <3> DEFINE m == [type |-> "viewer-joined", viewer |-> w]
    <3>1. /\ UNCHANGED <<pcs, answering, shown, up>> /\ viewers' = viewers \cup {w}
          /\ seat' = [seat EXCEPT ![w] = "open"]
          /\ down'[c] = Append(down[c], m) /\ down'[v] = down[v]
      BY <2>0, <2>8, RegisterViewerDoes
    <3>2. m \in Notices
      BY Messages
    <3> HIDE DEF m
    <3>3. \A type : About(down[c], type, v) => About(down'[c], type, v)
      BY <2>0, <3>1, <3>2, AboutAdded
    <3>4. v \in viewers /\ seat[v] = "open"
      BY <1>1, <2>8, <3>1 DEF TypeOK
    <3>5. QED BY <2>4, <3>1, <3>3, <3>4
  <2>9. ASSUME NEW w \in Watchers, w # v, RefuseViewer(w) PROVE Goal
    <3>1. /\ UNCHANGED <<pcs, answering, shown, up, viewers>>
          /\ seat' = [seat EXCEPT ![w] = "open"]
          /\ down'[c] = down[c] /\ down'[v] = down[v]
      BY <1>0, <2>0, <2>9, RefuseViewerDoes
    <3>2. v \in viewers /\ seat[v] = "open"
      BY <1>1, <2>9, <3>1 DEF TypeOK
    <3>3. QED BY <2>5, <3>1, <3>2
  <2>10. ASSUME NEW w \in Watchers, RelayAnswer(w) PROVE Goal
    <3>1. PICK m \in Notices : m.type = "answer" /\ m.viewer = w /\ down'[c] = Append(down[c], m)
      BY <2>0, <2>10, RelayAnswerDoes
    <3>2. Takes(w, "answer") /\ viewers' = viewers /\ down'[v] = down[v]
      BY <2>10, RelayAnswerDoes
    <3>3. /\ UNCHANGED <<pcs, answering, shown, seat>> /\ up'[c] = up[c]
          /\ w # v => up'[v] = up[v]
      BY <1>0, <2>0, <3>2, TakesDoes
    <3>4. /\ \A type : About(down[c], type, v) => About(down'[c], type, v)
          /\ w = v => About(down'[c], "answer", v)
      BY <2>0, <3>1, AboutAdded
    <3>5. CASE w # v
      BY <1>1, <2>4, <3>2, <3>3, <3>4, <3>5
    <3>6. CASE w = v
      <4>1. Answer1
        BY <3>4, <3>6 DEF Answer1
      <4>2. (Coming0 => Coming1) /\ (Seen0 => Seen1)
        BY <3>2, <3>3, <3>4 DEF Coming0, Coming1, Seen0, Seen1
      <4>3. QED BY <1>1, <2>3, <3>2, <3>3, <4>1, <4>2
    <3>7. QED BY <3>5, <3>6
  <2>11. ASSUME NEW w \in Watchers, CloseViewer(w) PROVE Goal
    <3>1. PICK m \in Notices :
            down'[c] = IF w \in viewers THEN Append(down[c], m) ELSE down[c]
      BY <2>0, <2>11, CloseViewerDoes
    <3>2. Takes(w, "close") /\ viewers' = viewers \ {w} /\ down'[v] = down[v]
      BY <2>11, CloseViewerDoes
    <3>3. v \in viewers /\ w # v
      BY <1>1, <3>2
    <3>4. UNCHANGED <<pcs, answering, shown, seat>> /\ up'[c] = up[c] /\ up'[v] = up[v]
      BY <1>0, <2>0, <3>2, <3>3, TakesDoes
    <3>5. \A type : About(down[c], type, v) => About(down'[c], type, v)
      BY <2>0, <3>1, AboutAdded
    <3>6. QED BY <1>1, <2>4, <3>2, <3>3, <3>4, <3>5
  <2>12. ASSUME NEW a \in Stations, StartSharing(a) \/ PickerCancelled(a) \/ Picked(a) \/ Fetched(a)
         PROVE  Goal
    <3>1. UNCHANGED <<viewers, seat, pcs, answering, shown, up, down>>
      BY <2>12 DEF StartSharing, PickerCancelled, Picked, Fetched, server, watcher, wire
    <3>2. QED BY <1>1, <2>5, <3>1
  <2>13. ASSUME NEW a \in Stations, StopSharing(a) PROVE Goal
    <3>1. /\ UNCHANGED <<viewers, seat, answering, shown>>
          /\ \A w \in Watchers : pcs'[b][w] = IF b = a THEN NoPc ELSE pcs[b][w]
      BY <2>13, StopSharingDoes
    <3>2. a # b
      <4>1. SUFFICES ASSUME a = b PROVE FALSE
        OBVIOUS
      <4>2. Dialled(b)
        BY <2>0, AirSocket
      <4>3. sock'[c] = "closing"
        BY <2>13, <4>1, <4>2, StopSharingDoes
      <4>4. QED BY <2>0, <4>3
    <3>3. c # Current(a)
      BY <3>2, PresentSocket
    <3>4. down'[c] = down[c] /\ up'[c] = up[c] /\ down'[v] = down[v] /\ up'[v] = up[v]
      <4>1. CASE Dialled(a)
        <5>1. Current(a) # v
          BY <1>0, <2>13, <4>1, StopSharingDoes
        <5>2. QED BY <1>0, <2>0, <2>13, <3>3, <4>1, <5>1, StopSharingDoes
      <4>2. CASE ~Dialled(a)
        BY <2>13, <4>2, StopSharingDoes
      <4>3. QED BY <4>1, <4>2
    <3>5. QED BY <1>1, <2>4, <3>1, <3>2, <3>4
  <2>14. ASSUME NEW a \in Stations, NEW w \in Watchers, OfferMade(a, w) PROVE Goal
    <3>1. /\ UNCHANGED <<viewers, seat, answering, shown, down>>
          /\ a # b \/ w # v => pcs'[b][v] = pcs[b][v]
          /\ Current(a) \in Sessions /\ up'[v] = up[v]
      BY <1>0, <2>14, OfferMadeDoes
    <3>2. CASE a = b
      <4>1. PICK m \in Requests : m.type = "offer" /\ m.to = w /\ up'[c] = Append(up[c], m)
        BY <2>0, <2>14, <3>2, OfferMadeDoes
      <4>2. /\ OffersTo(up[c], v) => OffersTo(up'[c], v)
            /\ w = v => OffersTo(up'[c], v)
        BY <2>0, <4>1, OffersToAdded
      <4>3. CASE w = v
        BY <4>2, <4>3 DEF Coming1
      <4>4. CASE w # v
        BY <1>1, <2>4, <3>1, <4>2, <4>4
      <4>5. QED BY <4>3, <4>4
    <3>3. CASE a # b
      <4>1. c # Current(a)
        BY <3>3, PresentSocket
      <4>2. up'[c] = up[c]
        BY <2>0, <2>14, <4>1, OfferMadeDoes
      <4>3. QED BY <1>1, <2>4, <3>1, <3>3, <4>2
    <3>4. QED BY <3>2, <3>3
  <2>15. ASSUME NEW x \in Sessions, Opened(x) PROVE Goal
    <3>1. /\ UNCHANGED <<viewers, seat, pcs, answering, shown, down>> /\ sock[x] = "opening"
          /\ \A y \in Ends : y # x => up'[y] = up[y]
      BY <2>15, OpenedDoes
    <3>2. up'[c] = up[c] /\ up'[v] = up[v]
      BY <1>0, <2>0, <3>1
    <3>3. QED BY <1>1, <2>5, <3>1, <3>2
  <2>16. ASSUME NEW x \in Sessions, Closed(x) PROVE Goal
    <3>1. UNCHANGED <<viewers, seat, pcs, answering, shown, up, down>>
      BY <2>16 DEF Closed, server, watcher, wire
    <3>2. QED BY <1>1, <2>5, <3>1
  <2>17. ASSUME NEW x \in Sessions, Lost(x) PROVE Goal
    <3>1. /\ UNCHANGED <<viewers, seat, pcs, answering, shown>> /\ sock'[x] = "closed"
          /\ \A y \in Ends : y # x => up'[y] = up[y] /\ down'[y] = down[y]
      BY <2>17, LostDoes
    <3>2. up'[c] = up[c] /\ up'[v] = up[v] /\ down'[c] = down[c] /\ down'[v] = down[v]
      BY <1>0, <2>0, <3>1
    <3>3. QED BY <1>1, <2>5, <3>1, <3>2
  <2>18. ASSUME NEW x \in Sessions, ViewerJoined(x) \/ Answered(x) \/ ViewerLeft(x) PROVE Goal
    <3>0. PICK w : w = Head(down[x]).viewer /\ HeardAt(b, x, w)
      BY <2>18, StationHears
    <3>1. /\ UNCHANGED <<viewers, seat, answering, shown, up>>
          /\ down[x] \in Seq(Notices) /\ down[x] # <<>> /\ down'[x] = Tail(down[x])
          /\ \A y \in Ends : y # x => down'[y] = down[y]
          /\ b # x[1] \/ v # w => pcs'[b][v] = pcs[b][v]
      BY <3>0 DEF HeardAt
    <3>2. down'[v] = down[v] /\ (x # c => down'[c] = down[c]) /\ (x = c => b = x[1])
      BY <1>0, <2>0, <3>1, PresentSocket
    <3>3. \A type, u : About(down[x], type, u)
             <=> (Head(down[x]).type = type /\ w = u) \/ About(down'[x], type, u)
      BY <3>0, <3>1, AboutTaken
    <3>4. CASE b # x[1] \/ v # w
      <4>1. \A type : About(down[c], type, v) => About(down'[c], type, v)
        BY <3>2, <3>3, <3>4
      <4>2. QED BY <1>1, <2>4, <3>1, <3>2, <3>4, <4>1
    <3>5. CASE b = x[1] /\ v = w /\ ViewerJoined(x)
      <4>1. pcs'[b][v].state = "offering"
        BY <3>0, <3>5 DEF HeardAt
      <4>2. QED BY <4>1 DEF Coming1
    <3>6. CASE b = x[1] /\ v = w /\ ViewerLeft(x)
      <4>1. Head(down[x]).type = "viewer-left"
        BY <3>0, <3>6 DEF HeardAt
      <4>2. v \notin viewers
        BY <3>3, <3>6, <4>1 DEF Departures
      <4>3. QED BY <1>1, <3>1, <4>2
    <3>7. CASE b = x[1] /\ v = w /\ Answered(x)
      <4>1. /\ Head(down[x]).type = "answer"
            /\ LET old == pcs[b][v]
                   new == pcs'[b][v]
               IN /\ new = old \/ (old.state = "offered" /\ new.state = "answered")
                  /\ old.state = "offered" => new.state = "answered"
        BY <3>0, <3>7 DEF HeardAt
      <4>2. About(down[c], "viewer-joined", v) => About(down'[c], "viewer-joined", v)
        BY <3>2, <3>3, <4>1
      <4>3. pcs'[b][v].state # "offered"
            /\ (pcs[b][v].state = "offering" => pcs'[b][v].state = "offering")
        BY <4>1
      <4>4. (Coming0 => Coming1) /\ (Seen0 => Seen1)
        BY <3>1, <3>2, <4>2, <4>3 DEF Coming0, Coming1, Seen0, Seen1
      <4>5. QED BY <1>1, <2>3, <3>1, <4>3, <4>4
    <3>8. QED BY <2>18, <3>4, <3>5, <3>6, <3>7
  \* What the page itself hears.
  <2>19. ASSUME NEW w \in Watchers, w # v, NEW type, Hears(w, type), UNCHANGED <<server, station, seat, up>>,
                answering'[v] = answering[v], shown'[v] = shown[v]
         PROVE  Goal
    <3>1. down'[v] = down[v] /\ down'[c] = down[c]
      BY <1>0, <2>0, <2>19, WatcherHears
    <3>2. QED BY <1>1, <2>4, <2>19, <3>1 DEF server, station
  <2>20. ASSUME NEW type, Hears(v, type), UNCHANGED <<server, station, seat, up>>
         PROVE  /\ v \in viewers /\ seat[v] = "open"
                /\ Coming0 <=> Coming1
                /\ pcs'[b][v] = pcs[b][v] /\ down'[c] = down[c] /\ up'[v] = up[v]
                /\ down[v] # <<>> /\ Head(down[v]).type = type /\ down'[v] = Tail(down[v])
                /\ \A t : Has(down[v], t) <=> type = t \/ Has(down'[v], t)
                /\ OfferAhead(down[v]) =>
                     \/ OfferAhead(down'[v])
                     \/ type = "offer" /\ ~Has(down'[v], "broadcaster-left")
    <3>1. /\ seat[v] = "open" /\ down[v] # <<>> /\ Head(down[v]).type = type
          /\ down'[v] = Tail(down[v]) /\ \A x \in Ends : x # v => down'[x] = down[x]
      BY <2>20, WatcherHears
    <3>2. /\ v \in viewers /\ pcs'[b][v] = pcs[b][v] /\ down'[c] = down[c]
          /\ up'[v] = up[v] /\ up'[c] = up[c]
      BY <1>1, <2>0, <2>20, <3>1 DEF server, station
    <3>3. Coming0 <=> Coming1
      BY <3>2 DEF Coming0, Coming1
    <3>4. \A t : Has(down[v], t) <=> type = t \/ Has(down'[v], t)
      BY <1>0, <3>1, HasTaken
    <3>5. OfferAhead(down[v]) => \/ OfferAhead(down'[v])
                                 \/ type = "offer" /\ ~Has(down'[v], "broadcaster-left")
      BY <1>0, <3>1, OfferAheadTaken
    <3>6. QED BY <3>1, <3>2, <3>3, <3>4, <3>5
  <2>21. ASSUME NEW w \in Watchers, Registered(w) PROVE Goal
    <3>1. /\ Hears(w, "registered") /\ UNCHANGED <<server, station, seat, up, answering>>
          /\ \A u \in Watchers : u # w => shown'[u] = shown[u]
      BY <2>21 DEF Registered, TypeOK
    <3>2. CASE w # v
      BY <2>19, <3>1, <3>2
    <3>3. CASE w = v
      <4>1. v \in viewers /\ seat[v] = "open" /\ Has(down[v], "registered")
        BY <2>20, <3>1, <3>3
      <4>2. shown[v] = "connecting" /\ answering[v] = {}
        BY <1>0, <4>1 DEF Seat
      <4>3. Seen0 => Seen1
        BY <2>20, <3>1, <3>3, <4>2 DEF Seen0, Seen1
      <4>4. Answer0 => Answer1
        BY <2>20, <3>1, <3>3 DEF Answer0, Answer1
      <4>5. QED BY <2>3, <2>20, <3>1, <3>3, <4>1, <4>3, <4>4
    <3>4. QED BY <3>2, <3>3
  <2>22. ASSUME NEW w \in Watchers, Refused(w) PROVE Goal
    <3>1. /\ Hears(w, "error") /\ UNCHANGED <<server, station, seat, up, answering>>
          /\ \A u \in Watchers : u # w => shown'[u] = shown[u]
      BY <2>22 DEF Refused, TypeOK
    <3>2. CASE w # v
      BY <2>19, <3>1, <3>2
    <3>3. CASE w = v
      <4>1. v \in viewers /\ Has(down[v], "error")
        BY <2>20, <3>1, <3>3
      <4>2. QED BY <1>0, <4>1 DEF Seat
    <3>4. QED BY <3>2, <3>3
  <2>23. ASSUME NEW w \in Watchers, Offered(w) PROVE Goal
    <3>1. /\ Hears(w, "offer") /\ UNCHANGED <<server, station, seat, up, shown>>
          /\ answering'[w] # {} /\ \A u \in Watchers : u # w => answering'[u] = answering[u]
      BY <2>23 DEF Offered, TypeOK
    <3>2. CASE w # v
      BY <2>19, <3>1, <3>2
    <3>3. CASE w = v
      <4>1. Seen0 => Seen1
        BY <2>20, <3>1, <3>3 DEF Seen0, Seen1
      <4>2. Answer1
        BY <3>1, <3>3 DEF Answer1
      <4>3. QED BY <2>3, <2>20, <3>1, <3>3, <4>1, <4>2
    <3>4. QED BY <3>2, <3>3
  <2>24. ASSUME NEW w \in Watchers, BroadcasterLeft(w) PROVE Goal
    <3>1. /\ Hears(w, "broadcaster-left") /\ UNCHANGED <<server, station, seat, up, answering>>
          /\ \A u \in Watchers : u # w => shown'[u] = shown[u]
      BY <2>24 DEF BroadcasterLeft, TypeOK
    <3>2. CASE w # v
      BY <2>19, <3>1, <3>2
    <3>3. CASE w = v
      <4>1. Seen0 => Seen1
        BY <2>20, <3>1, <3>3 DEF Seen0, Seen1
      <4>2. Answer0 => Answer1
        BY <2>20, <3>1, <3>3 DEF Answer0, Answer1
      <4>3. QED BY <2>3, <2>20, <3>1, <3>3, <4>1, <4>2
    <3>4. QED BY <3>2, <3>3
  <2>25. ASSUME NEW w \in Watchers, NEW x \in Sessions, AnswerMade(w, x) PROVE Goal
    <3>1. /\ x \in answering[w] /\ UNCHANGED <<viewers, seat, pcs, down>> /\ up'[c] = up[c]
          /\ shown'[w] = "live"
          /\ w # v => shown'[v] = shown[v] /\ answering'[v] = answering[v] /\ up'[v] = up[v]
      BY <1>0, <2>0, <2>25, AnswerMadeDoes
    <3>2. CASE w # v
      BY <1>1, <2>4, <3>1, <3>2
    <3>3. CASE w = v
      <4>1. PICK m \in Requests : m.type = "answer" /\ up'[v] = Append(up[v], m)
        BY <1>1, <2>25, <3>1, <3>3, AnswerMadeDoes
      <4>2. Has(up'[v], "answer")
        BY <1>0, <4>1, HasAdded
      <4>3. (Coming0 => Coming1) /\ (Seen0 => Seen1) /\ Answer1
        BY <3>1, <3>3, <4>2 DEF Coming0, Coming1, Seen0, Seen1, Answer1
      <4>4. QED BY <1>1, <2>3, <3>1, <4>3
    <3>4. QED BY <3>2, <3>3
  <2>26. ASSUME NEW w \in Watchers, Leave(w) \/ LoseSeat(w) PROVE Goal
    <3>1. PICK how \in {"lost", "left"} : CloseSeat(w, how)
      BY <2>26 DEF Leave, LoseSeat
    <3>2. /\ UNCHANGED <<viewers, pcs>> /\ seat'[w] = how
          /\ \A u \in Watchers : u # w => seat'[u] = seat[u]
          /\ \A x \in Ends : x # w => up'[x] = up[x] /\ down'[x] = down[x]
      BY <3>1, CloseSeatDoes
    <3>3. \A u \in Watchers : u # w => shown'[u] = shown[u] /\ answering'[u] = answering[u]
      BY <2>26 DEF Leave, LoseSeat, TypeOK
    <3>4. w # v
      BY <1>1, <3>2
    <3>5. c # w
      BY <1>0, <2>0
    <3>6. QED BY <1>0, <1>1, <2>0, <2>4, <3>2, <3>3, <3>4, <3>5
  <2>27. QED
    BY <1>3, <2>1, <2>2, <2>6, <2>7, <2>8, <2>9, <2>10, <2>11, <2>12, <2>13, <2>14, <2>15, <2>16,
       <2>17, <2>18, <2>21, <2>22, <2>23, <2>24, <2>25, <2>26
       DEF Next, ServerStep, StationStep, WatcherStep
<1>4. QED BY <1>2, <1>3

(***************************************************************************)
(* GoneHeard                                                               *)
(***************************************************************************)
LEMMA GoneHeardKept ==
  ASSUME InductiveInv, Next, NEW v \in Watchers
  PROVE  GoneHeard(v)'
<1> USE DEF InductiveInv
<1> DEFINE Goal == \/ Has(down'[v], "broadcaster-left")
                   \/ shown'[v] \notin {"waiting", "live"} /\ ~SaysLive(down'[v])
<1>0. /\ v \in Ends /\ v \notin Sessions /\ Seat(v) /\ GoneHeard(v)
      /\ \A x \in Sessions : x \in Ends /\ x # v /\ x # NoSession
      /\ \A w \in Watchers : w \in Ends
      /\ down[v] \in Seq(Notices)
      /\ shown[v] \in {"connecting", "waiting", "offline", "live", "error"}
  BY Apart DEF TypeOK
<1>1. SUFFICES ASSUME v \in viewers', broadcaster' = NoSession, seat'[v] = "open", ~overtaken'[v]
               PROVE  Goal
  BY DEF GoneHeard
<1>2. ASSUME viewers' \subseteq viewers, broadcaster' = broadcaster,
             seat'[v] = seat[v], shown'[v] = shown[v], overtaken'[v] = overtaken[v],
             \/ down'[v] = down[v]
             \/ \E m \in Notices : m.type = "offer" /\ down'[v] = Append(down[v], m)
      PROVE  Goal
  <2>1. /\ Has(down[v], "broadcaster-left") => Has(down'[v], "broadcaster-left")
        /\ SaysLive(down'[v]) => SaysLive(down[v])
    <3>1. CASE down'[v] = down[v]
      BY <3>1
    <3>2. CASE \E m \in Notices : m.type = "offer" /\ down'[v] = Append(down[v], m)
      BY <1>0, <3>2, HasAdded, SaysLiveAdded
    <3>3. QED BY <1>2, <3>1, <3>2
  <2>2. QED BY <1>0, <1>1, <1>2, <2>1 DEF GoneHeard
<1>3. ASSUME NEW x \in Sessions, RegisterBroadcaster(x) PROVE Goal
  BY <1>0, <1>1, <1>3, RegisterDoes
<1>4. ASSUME NEW x \in Sessions, RelayOffer(x) PROVE Goal
  <2>1. /\ Takes(x, "offer") /\ viewers' = viewers /\ broadcaster' = broadcaster
        /\ down'[v] = down[v] \/ \E m \in Notices : /\ m.type = "offer"
                                                    /\ down'[v] = Append(down[v], m)
    BY <1>4, RelayOfferDoes
  <2>2. UNCHANGED <<seat, shown, overtaken>>
    BY <1>0, <2>1, TakesDoes
  <2>3. QED BY <1>2, <2>1, <2>2
<1>5. ASSUME NEW x \in Sessions, CloseBroadcaster(x) PROVE Goal
  <2>1. Takes(x, "close") /\ viewers' = viewers
    BY <1>5, CloseBroadcasterDoes
  <2>2. UNCHANGED <<seat, shown, overtaken>>
    BY <1>0, <2>1, TakesDoes
  <2>3. CASE broadcaster # x
    <3>1. broadcaster' = broadcaster /\ down' = down
      BY <1>5, <2>3, CloseBroadcasterDoes
    <3>2. QED BY <1>2, <2>1, <2>2, <3>1
  <2>4. CASE broadcaster = x
    <3>1. PICK m \in Notices : m.type = "broadcaster-left" /\ down'[v] = Append(down[v], m)
      BY <1>1, <1>5, <2>1, <2>2, <2>4, CloseBroadcasterDoes
    <3>2. Has(down'[v], "broadcaster-left")
      BY <1>0, <3>1, HasAdded
    <3>3. QED BY <3>2
  <2>5. QED BY <2>3, <2>4
<1>6. ASSUME NEW w \in Watchers, RegisterViewer(w) PROVE Goal
  <2>1. CASE w # v
    <3>1. /\ viewers' = viewers \cup {w} /\ broadcaster' = broadcaster
          /\ UNCHANGED <<shown, overtaken>> /\ down'[v] = down[v]
          /\ seat' = [seat EXCEPT ![w] = "open"]
      BY <1>6, <2>1, RegisterViewerDoes
    <3>2. seat'[v] = seat[v] /\ v \in viewers
      BY <1>1, <2>1, <3>1 DEF TypeOK
    <3>3. QED BY <1>0, <1>1, <3>1, <3>2 DEF GoneHeard
  <2>2. CASE w = v
    <3>1. /\ seat[v] = "none" /\ broadcaster' = broadcaster /\ shown' = shown
          /\ SaysLive(down'[v]) <=> broadcaster # NoSession
      BY <1>6, <2>2, RegisterViewerDoes
    <3>2. shown'[v] = "connecting"
      BY <1>0, <3>1 DEF Seat
    <3>3. QED BY <1>1, <3>1, <3>2
  <2>3. QED BY <2>1, <2>2
<1>7. ASSUME NEW w \in Watchers, RefuseViewer(w) PROVE Goal
  <2>1. /\ seat[w] = "none" /\ seat' = [seat EXCEPT ![w] = "open"]
        /\ UNCHANGED <<viewers, broadcaster, shown, overtaken>>
        /\ w # v => down'[v] = down[v]
    BY <1>0, <1>7, RefuseViewerDoes
  <2>2. w # v
    BY <1>0, <1>1, <2>1 DEF Seat
  <2>3. seat'[v] = seat[v]
    BY <2>1, <2>2 DEF TypeOK
  <2>4. QED BY <1>2, <2>1, <2>2, <2>3
<1>8. ASSUME NEW w \in Watchers, RelayAnswer(w) PROVE Goal
  <2>1. Takes(w, "answer") /\ viewers' = viewers /\ broadcaster' = broadcaster /\ down'[v] = down[v]
    BY <1>8, RelayAnswerDoes
  <2>2. UNCHANGED <<seat, shown, overtaken>>
    BY <1>0, <2>1, TakesDoes
  <2>3. QED BY <1>2, <2>1, <2>2
<1>9. ASSUME NEW w \in Watchers, CloseViewer(w) PROVE Goal
  <2>1. /\ Takes(w, "close") /\ viewers' \subseteq viewers /\ broadcaster' = broadcaster
        /\ down'[v] = down[v]
    BY <1>9, CloseViewerDoes
  <2>2. UNCHANGED <<seat, shown, overtaken>>
    BY <1>0, <2>1, TakesDoes
  <2>3. QED BY <1>2, <2>1, <2>2
<1>10. ASSUME UNCHANGED <<server, watcher>>, down'[v] = down[v] PROVE Goal
  BY <1>2, <1>10 DEF server, watcher
<1>11. ASSUME NEW b \in Stations, StartSharing(b) \/ PickerCancelled(b) \/ Picked(b) \/ Fetched(b)
       PROVE  Goal
  BY <1>10, <1>11 DEF StartSharing, PickerCancelled, Picked, Fetched, wire
<1>12. ASSUME NEW b \in Stations, StopSharing(b) PROVE Goal
  <2>1. down'[v] = down[v]
    <3>1. CASE Dialled(b)
      BY <1>0, <1>12, <3>1, StopSharingDoes
    <3>2. CASE ~Dialled(b)
      BY <1>12, <3>2, StopSharingDoes
    <3>3. QED BY <3>1, <3>2
  <2>2. QED BY <1>10, <1>12, <2>1 DEF StopSharing
<1>13. ASSUME NEW b \in Stations, NEW w \in Watchers, OfferMade(b, w) PROVE Goal
  BY <1>10, <1>13 DEF OfferMade
<1>14. ASSUME NEW x \in Sessions, Opened(x) \/ Closed(x) PROVE Goal
  BY <1>10, <1>14 DEF Opened, Closed, wire
<1>15. ASSUME NEW x \in Sessions, ViewerJoined(x) \/ Answered(x) \/ ViewerLeft(x) PROVE Goal
  <2>1. UNCHANGED <<server, watcher>>
    BY <1>15 DEF ViewerJoined, Answered, ViewerLeft
  <2>2. Hears(x, "viewer-joined") \/ Hears(x, "answer") \/ Hears(x, "viewer-left")
    BY <1>15 DEF ViewerJoined, Answered, ViewerLeft
  <2>3. down'[v] = down[v]
    BY <1>0, <2>2, HearsDoes
  <2>4. QED BY <1>10, <2>1, <2>3
<1>16. ASSUME NEW x \in Sessions, Lost(x) PROVE Goal
  <2>1. down'[v] = down[v]
    BY <1>0, <1>16, LostDoes
  <2>2. QED BY <1>10, <1>16, <2>1 DEF Lost
\* What the page itself hears.
<1>17. ASSUME NEW w \in Watchers, w # v, NEW type, Hears(w, type),
              UNCHANGED <<server, seat, overtaken>>, shown'[v] = shown[v]
       PROVE  Goal
  <2>1. down'[v] = down[v]
    BY <1>0, <1>17, WatcherHears
  <2>2. QED BY <1>2, <1>17, <2>1 DEF server
<1>18. ASSUME NEW type, Hears(v, type), UNCHANGED <<server, seat, overtaken>>
       PROVE  /\ \/ Has(down[v], "broadcaster-left")
                 \/ shown[v] \notin {"waiting", "live"} /\ ~SaysLive(down[v])
              /\ down[v] # <<>> /\ Head(down[v]).type = type
              /\ Has(down[v], "broadcaster-left")
                   <=> type = "broadcaster-left" \/ Has(down'[v], "broadcaster-left")
              /\ SaysLive(down[v]) <=> (type = "registered" /\ Head(down[v]).live) \/ SaysLive(down'[v])
              /\ ~SaysLive(down'[v])
  <2>1. /\ seat[v] = "open" /\ down[v] # <<>> /\ Head(down[v]).type = type
        /\ down'[v] = Tail(down[v])
    BY <1>18, WatcherHears
  <2>2. \/ Has(down[v], "broadcaster-left")
        \/ shown[v] \notin {"waiting", "live"} /\ ~SaysLive(down[v])
    BY <1>0, <1>1, <1>18, <2>1 DEF GoneHeard, server
  <2>3. /\ Has(down[v], "broadcaster-left")
             <=> type = "broadcaster-left" \/ Has(down'[v], "broadcaster-left")
        /\ ~Has(down'[v], "registered")
             \/ (type # "registered" /\ ~Has(down[v], "registered"))
    BY <1>0, <2>1, HasTaken DEF Seat
  <2>4. SaysLive(down[v]) <=> (type = "registered" /\ Head(down[v]).live) \/ SaysLive(down'[v])
    BY <1>0, <2>1, SaysLiveTaken
  <2>5. \A q : ~Has(q, "registered") => ~SaysLive(q)
    BY DEF Has, SaysLive
  <2>6. ~SaysLive(down'[v])
    BY <2>3, <2>4, <2>5
  <2>7. QED BY <2>1, <2>2, <2>3, <2>4, <2>6
<1>19. ASSUME NEW w \in Watchers, Registered(w) PROVE Goal
  <2>1. /\ Hears(w, "registered") /\ UNCHANGED <<server, seat, overtaken>>
        /\ shown'[w] = IF Head(down[w]).live THEN "waiting" ELSE "offline"
        /\ \A u \in Watchers : u # w => shown'[u] = shown[u]
    BY <1>19 DEF Registered, TypeOK
  <2>2. CASE w # v
    BY <1>17, <2>1, <2>2
  <2>3. CASE w = v
    BY <1>18, <2>1, <2>3
  <2>4. QED BY <2>2, <2>3
<1>20. ASSUME NEW w \in Watchers, Refused(w) \/ BroadcasterLeft(w) PROVE Goal
  <2>1. /\ UNCHANGED <<server, seat, overtaken>> /\ shown'[w] \in {"error", "offline"}
        /\ \A u \in Watchers : u # w => shown'[u] = shown[u]
    BY <1>20 DEF Refused, BroadcasterLeft, TypeOK
  <2>2. Hears(w, "error") \/ Hears(w, "broadcaster-left")
    BY <1>20 DEF Refused, BroadcasterLeft
  <2>3. CASE w # v
    BY <1>17, <2>1, <2>2, <2>3
  <2>4. CASE w = v
    BY <1>18, <2>1, <2>2, <2>4
  <2>5. QED BY <2>3, <2>4
<1>21. ASSUME NEW w \in Watchers, Offered(w) PROVE Goal
  <2>1. Hears(w, "offer") /\ UNCHANGED <<server, seat, overtaken, shown>>
    BY <1>21 DEF Offered
  <2>2. CASE w # v
    BY <1>17, <2>1, <2>2
  <2>3. CASE w = v
    BY <1>18, <2>1, <2>3
  <2>4. QED BY <2>2, <2>3
<1>22. ASSUME NEW w \in Watchers, NEW x \in Sessions, AnswerMade(w, x) PROVE Goal
  <2>1. /\ x \in answering[w] /\ UNCHANGED <<viewers, broadcaster, seat, down>>
        /\ w # v => shown'[v] = shown[v] /\ overtaken'[v] = overtaken[v]
        /\ overtaken'[w] = (overtaken[w] \/ (shown[w] = "offline" /\ broadcaster # x))
    BY <1>22, AnswerMadeDoes
  <2>2. CASE w # v
    BY <1>2, <2>1, <2>2
  <2>3. CASE w = v
    <3>1. ~overtaken[v] /\ shown[v] # "offline"
      BY <1>0, <1>1, <2>1, <2>3
    <3>2. shown[v] # "connecting" /\ shown[v] # "error"
      BY <1>0, <1>1, <2>1, <2>3 DEF Seat
    <3>3. Has(down[v], "broadcaster-left")
      BY <1>0, <1>1, <2>1, <3>1, <3>2 DEF GoneHeard
    <3>4. QED BY <2>1, <3>3
  <2>4. QED BY <2>2, <2>3
<1>23. ASSUME NEW w \in Watchers, Leave(w) \/ LoseSeat(w) PROVE Goal
  <2>1. PICK how \in {"lost", "left"} : CloseSeat(w, how)
    BY <1>23 DEF Leave, LoseSeat
  <2>2. /\ UNCHANGED <<viewers, broadcaster>> /\ seat'[w] = how
        /\ \A u \in Watchers : u # w => seat'[u] = seat[u]
        /\ \A x \in Ends : x # w => down'[x] = down[x]
    BY <2>1, CloseSeatDoes
  <2>3. \A u \in Watchers : u # w => shown'[u] = shown[u] /\ overtaken'[u] = overtaken[u]
    BY <1>23 DEF Leave, LoseSeat, TypeOK
  <2>4. w # v
    BY <1>1, <2>2
  <2>5. QED BY <1>0, <1>2, <2>2, <2>3, <2>4
<1>24. QED
  BY <1>3, <1>4, <1>5, <1>6, <1>7, <1>8, <1>9, <1>11, <1>12, <1>13, <1>14, <1>15, <1>16, <1>19,
     <1>20, <1>21, <1>22, <1>23 DEF Next, ServerStep, StationStep, WatcherStep

(***************************************************************************)
(* The invariant and the properties                                        *)
(***************************************************************************)
LEMMA InitInductive == Init => InductiveInv
<1> SUFFICES ASSUME Init PROVE InductiveInv
  OBVIOUS
<1> USE DEF Init
<1>1. /\ NoPc \in Pcs /\ MaxShares \in Nat /\ MaxViewers \in Nat
      /\ IsFiniteSet({}) /\ Cardinality({}) = 0
  BY Connections, Apart, FS_EmptySet
<1>2. TypeOK
  BY <1>1 DEF TypeOK
<1>3. Sockets
  <2>1. Used = {} /\ Flowing = {}
    BY DEF Used, Flowing
  <2>2. \A s \in Sessions : s[2] > opened[s[1]] /\ sock[s] = "none"
    BY Apart
  <2>3. Cardinality(Used) + Cardinality(Flowing) <= MaxShares
    <3>1. 0 + 0 <= MaxShares
      BY <1>1
    <3>2. QED BY <1>1, <2>1, <3>1
  <2>4. \A b \in Stations : ~astray[b]
    OBVIOUS
  <2>5. QED BY <2>2, <2>3, <2>4 DEF Sockets, Used, Flowing
<1>4. ASSUME NEW s \in Sessions PROVE Uplink(s) /\ Departures(s)
  <2>1. up[s] = <<>> /\ down[s] = <<>> /\ sock[s] = "none" /\ broadcaster # s
    BY Apart
  <2>2. QED BY <2>1, Empty DEF Uplink, Departures
<1>5. ASSUME NEW w \in Watchers PROVE Seat(w) /\ GoneHeard(w)
  <2>1. down[w] = <<>> /\ seat[w] = "none"
    BY Apart
  <2>2. QED BY <2>1, Empty DEF Seat, GoneHeard
<1>6. ASSUME NEW b \in Stations PROVE Connected(b) /\ Announced(b)
  <2>1. \A w \in Watchers : pcs[b][w] = NoPc
    OBVIOUS
  <2>2. ~OnAir(b)
    BY <1>2, <1>3, AirSocket DEF OnAir
  <2>3. QED BY <2>1, <2>2 DEF Connected, Announced
<1>7. ASSUME NEW b \in Stations, NEW w \in Watchers PROVE Negotiated(b, w)
  BY DEF Negotiated
<1>8. QED BY <1>2, <1>3, <1>4, <1>5, <1>6, <1>7 DEF InductiveInv

LEMMA StutterKeeps ==
  ASSUME InductiveInv, UNCHANGED vars
  PROVE  InductiveInv'
  BY DEF vars, server, station, watcher, wire, InductiveInv, TypeOK, Sockets, Uplink, Departures,
         Seat, GoneHeard, Connected, Announced, Negotiated, Coming, News, OnAir, Current

LEMMA NextKeeps ==
  ASSUME InductiveInv, Next
  PROVE  InductiveInv'
<1>1. TypeOK' /\ Sockets'
  BY TypeKept, SocketsKept
<1>2. (\A s \in Sessions : Uplink(s) /\ Departures(s))'
  BY UplinkKept, DeparturesKept
<1>3. (\A w \in Watchers : Seat(w) /\ GoneHeard(w))'
  BY SeatKept, GoneHeardKept
<1>4. (\A b \in Stations : Connected(b) /\ Announced(b))'
  BY ConnectedKept, AnnouncedKept
<1>5. (\A b \in Stations, w \in Watchers : Negotiated(b, w))'
  BY NegotiatedKept
<1>6. QED BY <1>1, <1>2, <1>3, <1>4, <1>5 DEF InductiveInv

\* The parts of the invariant hold of every reachable state: what a socket
\* carries, who is about to be announced, which offers are on their way, and
\* who has yet to hear that the broadcaster left (server.js handleMonitorMessage
\* and its close handler, the broadcast page and the watch page).
THEOREM MonitorMeshInductive == Spec => []InductiveInv
<1>1. Init => InductiveInv
  BY InitInductive
<1>2. InductiveInv /\ [Next]_vars => InductiveInv'
  BY NextKeeps, StutterKeeps
<1>3. QED BY <1>1, <1>2, PTL DEF Spec

\* Every variable keeps its type; the room never holds more viewers than
\* MAX_VIEWERS_PER_ROOM.
THEOREM MonitorMeshTypeCorrect == Spec => []TypeOK
<1>1. InductiveInv => TypeOK
  BY DEF InductiveInv
<1>2. QED BY <1>1, MonitorMeshInductive, PTL

\* A page that broadcasts at rest is on the air, and nothing is under way to it.
LEMMA RestOnAir ==
  ASSUME InductiveInv, AtRest, NEW b \in Stations, broadcaster = Current(b)
  PROVE  /\ OnAir(b) /\ up[Current(b)] = <<>> /\ News(b) = <<>>
         /\ \A w \in Watchers : ~Coming(b, w)
<1> USE DEF InductiveInv
<1> DEFINE c == Current(b)
<1>1. c \in Sessions /\ c \in Ends
  <2>1. c # NoSession /\ broadcaster \in Sessions \cup {NoSession}
    BY AirSocket DEF TypeOK
  <2>2. QED BY <2>1, Apart
<1>2. up[c] = <<>> /\ down[c] = <<>>
  BY <1>1 DEF AtRest
<1>3. sock[c] = "open"
  <2>1. broadcaster = c => sock[c] = "open" \/ Has(up[c], "close")
    BY <1>1 DEF Uplink
  <2>2. QED BY <1>2, <2>1, Empty
<1>4. ASSUME NEW w \in Watchers PROVE ~Coming(b, w)
  <2>1. pcs[b][w].state # "offering"
    BY DEF AtRest
  <2>2. QED BY <1>2, <2>1, Empty DEF Coming, News
<1>5. QED BY <1>2, <1>3, <1>4 DEF OnAir, News

\* However often the broadcaster was replaced or went away, and whoever
\* registered first: at rest the page on the air has a connection for everyone
\* who watches, answered if the viewer is still there, and for nobody else
\* unless it went astray (RegisterBroadcaster's replay in server.js and
\* createPeerForViewer in the broadcast page).
THEOREM BroadcasterReachesViewers == Spec => []PeersFollowViewers
<1>1. InductiveInv => PeersFollowViewers
  <2>1. SUFFICES ASSUME InductiveInv, AtRest, NEW b \in Stations, broadcaster = Current(b)
                 PROVE  LET connected == {w \in Watchers : pcs[b][w] # NoPc}
                        IN /\ viewers \subseteq connected
                           /\ connected = viewers \/ astray[b]
                           /\ \A w \in viewers : seat[w] = "open" => pcs[b][w].state = "answered"
    BY DEF PeersFollowViewers
  <2> USE DEF InductiveInv
  <2>2. OnAir(b) /\ News(b) = <<>> /\ \A w \in Watchers : ~Coming(b, w)
    BY <2>1, RestOnAir
  <2>3. viewers \subseteq Watchers
    BY <2>1 DEF TypeOK
  <2>4. \A w \in viewers : pcs[b][w] # NoPc
    BY <2>1, <2>2, Empty DEF Announced
  <2>5. ~astray[b] => \A w \in Watchers \ viewers : pcs[b][w] = NoPc
    BY <2>1, <2>2, Empty DEF Announced
  <2>6. ASSUME NEW w \in viewers, seat[w] = "open" PROVE pcs[b][w].state = "answered"
    <3>1. w \in Watchers /\ w \in Ends /\ pcs[b][w] \in Pcs
      BY <2>1, <2>3, Apart DEF TypeOK
    <3>2. up[w] = <<>> /\ down[w] = <<>> /\ answering[w] = {} /\ pcs[b][w].state # "offering"
      BY <2>1, <3>1 DEF AtRest
    <3>3. pcs[b][w].state # "offered"
      BY <2>1, <2>2, <2>6, <3>1, <3>2, Empty DEF Negotiated
    <3>4. QED BY <2>4, <3>1, <3>2, <3>3, Connections
  <2>7. QED BY <2>3, <2>4, <2>5, <2>6
<1>2. QED BY <1>1, MonitorMeshInductive, PTL

\* What a watch page says at rest is true, but for an answer finished after the
\* news that the broadcaster had left (the message handler of the watch page).
THEOREM WatchPageHonest == Spec => []WatcherHonest
<1>1. InductiveInv => WatcherHonest
  <2>1. SUFFICES ASSUME InductiveInv, AtRest, NEW w \in viewers, seat[w] = "open"
                 PROVE  /\ shown[w] = "offline" => \A b \in Stations : broadcaster # Current(b)
                        /\ shown[w] \in {"waiting", "live"} => broadcaster # NoSession \/ overtaken[w]
    BY DEF WatcherHonest
  <2> USE DEF InductiveInv
  <2>2. w \in Watchers /\ w \in Ends
    BY <2>1, Apart DEF TypeOK
  <2>3. up[w] = <<>> /\ down[w] = <<>> /\ answering[w] = {}
    BY <2>1, <2>2 DEF AtRest
  <2>4. ASSUME NEW b \in Stations, broadcaster = Current(b) PROVE shown[w] = "live"
    <3>1. OnAir(b) /\ ~Coming(b, w)
      BY <2>1, <2>2, <2>4, RestOnAir
    <3>2. QED BY <2>1, <2>2, <2>3, <3>1, Empty DEF Negotiated
  <2>5. shown[w] \in {"waiting", "live"} => broadcaster # NoSession \/ overtaken[w]
    BY <2>1, <2>2, <2>3, Empty DEF GoneHeard
  <2>6. QED BY <2>4, <2>5
<1>2. QED BY <1>1, MonitorMeshInductive, PTL
==============================================================================
