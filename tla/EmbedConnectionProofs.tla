------------------------- MODULE EmbedConnectionProofs -------------------------
(***************************************************************************)
(* The safety properties of EmbedConnection, for any number of other       *)
(* participants, of attempts of the retry loop and of connections.         *)
(*                                                                         *)
(* InductiveInv is shown part by part: each part has a lemma with one step *)
(* per action.  Only what the consume queue does is stated apart, once.    *)
(***************************************************************************)
EXTENDS EmbedConnection, FiniteSetTheorems, TLAPS

Works == [who : Peers \cup {NoPeer}, stage : {"none", "request", "consume"},
          on : Conns \cup {NoConn}]

Elements(s) == {s[i] : i \in DOMAIN s}

LEMMA NoConnIsNone == NoConn \notin Conns /\ Conns \subseteq Nat
  BY EmbedAssumption DEF Conns, NoConn

LEMMA ListingsAre ==
  ASSUME NEW S \in SUBSET Peers, NEW s \in Listings(S)
  PROVE  s \in Seq(Peers) /\ Elements(s) = S
<1>1. IsFiniteSet(S)
  BY EmbedAssumption, FS_Subset
<1>2. Cardinality(S) \in Nat
  BY <1>1, FS_CardinalityType
<1>3. s \in [1..Cardinality(S) -> S] /\ Elements(s) = S
  BY DEF Listings, Elements
<1>4. s \in Seq(S)
  BY <1>2, <1>3
<1>5. QED BY <1>3, <1>4

LEMMA ElementsOfBoth ==
  ASSUME NEW s \in Seq(Peers), NEW t \in Seq(Peers)
  PROVE  s \o t \in Seq(Peers) /\ Elements(s \o t) = Elements(s) \cup Elements(t)
<1>1. s \o t \in Seq(Peers)
  OBVIOUS
<1>2. Elements(s \o t) \subseteq Elements(s) \cup Elements(t)
  BY DEF Elements
<1>3. Elements(s) \subseteq Elements(s \o t)
  BY DEF Elements
<1>4. ASSUME NEW i \in DOMAIN t
      PROVE  t[i] \in Elements(s \o t)
  <2>1. Len(s) + i \in DOMAIN (s \o t) /\ (s \o t)[Len(s) + i] = t[i]
    BY <1>4
  <2>2. QED BY <2>1 DEF Elements
<1>5. QED BY <1>1, <1>2, <1>3, <1>4 DEF Elements

LEMMA ListeningIsFinite == IsFiniteSet(Listening) /\ Cardinality(Listening) \in Nat
<1>1. IsFiniteSet(Conns)
  BY EmbedAssumption, FS_Interval DEF Conns
<1>2. Listening \subseteq Conns
  BY DEF Listening
<1>3. QED BY <1>1, <1>2, FS_Subset, FS_CardinalityType

LEMMA AnnouncedIs ==
  ASSUME NEW p \in Peers
  PROVE  /\ Announced(p) \in Seq(Peers)
         /\ Listening # {} => Elements(Announced(p)) = {p}
<1>1. Announced(p) \in Seq(Peers)
  BY ListeningIsFinite DEF Announced
<1>2. ASSUME Listening # {}
      PROVE  1 \in 1..Cardinality(Listening)
  BY <1>2, ListeningIsFinite, FS_EmptySet
<1>3. QED BY <1>1, <1>2 DEF Announced, Elements

LEMMA EmptyHasNone == <<>> \in Seq(Peers) /\ Elements(<<>>) = {}
  BY DEF Elements

LEMMA HeadAndTail ==
  ASSUME NEW s \in Seq(Peers), s # <<>>
  PROVE  /\ Head(s) \in Peers /\ Tail(s) \in Seq(Peers)
         /\ Elements(s) = {Head(s)} \cup Elements(Tail(s))
<1>1. Head(s) \in Peers /\ Tail(s) \in Seq(Peers)
  OBVIOUS
<1>2. {Head(s)} \cup Elements(Tail(s)) \subseteq Elements(s)
  BY DEF Elements
<1>3. ASSUME NEW i \in DOMAIN s
      PROVE  s[i] \in {Head(s)} \cup Elements(Tail(s))
  <2>1. CASE i = 1
    BY <2>1
  <2>2. CASE i # 1
    <3>1. i - 1 \in DOMAIN Tail(s) /\ Tail(s)[i - 1] = s[i]
      BY <1>3, <2>2
    <3>2. QED BY <3>1 DEF Elements
  <2>3. QED BY <2>1, <2>2
<1>4. QED BY <1>1, <1>2, <1>3 DEF Elements

(***************************************************************************)
(* The consume queue                                                       *)
(***************************************************************************)
LEMMA IdleIs == /\ Idle \in Works /\ Idle.stage = "none" /\ Idle.who = NoPeer
                /\ Idle.on = NoConn
  BY DEF Idle, Works

\* The next run, if there is a transport and something in the queue.
LEMMA DrainGives ==
  ASSUME NEW pending \in Seq(Peers), NEW transport \in Conns \cup {NoConn}, NEW socket,
         Drain(pending, transport, socket)
  PROVE  /\ work' \in Works /\ queue' \in Seq(Peers)
         /\ \/ /\ work' = Idle /\ queue' = <<>>
               /\ transport = NoConn \/ pending = <<>>
            \/ /\ work'.stage = "request" /\ work'.who \in Peers /\ transport # NoConn
               /\ work'.on = IF transport = socket THEN transport ELSE NoConn
               /\ Elements(pending) = {work'.who} \cup Elements(queue')
<1>1. CASE transport = NoConn \/ pending = <<>>
  BY <1>1, IdleIs, EmptyHasNone DEF Drain
<1>2. CASE ~(transport = NoConn \/ pending = <<>>)
  <2>1. /\ work' = [who |-> Head(pending), stage |-> "request",
                    on |-> IF transport = socket THEN transport ELSE NoConn]
        /\ queue' = Tail(pending)
    BY <1>2 DEF Drain
  <2>2. work' \in Works /\ queue' \in Seq(Peers)
    BY <1>2, <2>1, HeadAndTail DEF Works
  <2>3. QED BY <1>2, <2>1, <2>2, HeadAndTail
<1>3. QED BY <1>1, <1>2

\* What is new waits, unless there is no transport.
LEMMA EnqueueGives ==
  ASSUME TypeOK, QueueRuns, NEW new \in Seq(Peers), NEW transport \in Conns \cup {NoConn},
         Enqueue(new, transport)
  PROVE  /\ work' \in Works /\ queue' \in Seq(Peers)
         /\ \/ /\ work = Idle /\ work' = Idle /\ queue' = <<>>
               /\ transport = NoConn \/ Elements(new) = {}
            \/ /\ work = Idle /\ work'.stage = "request" /\ work'.who \in Peers
               /\ transport # NoConn
               /\ work'.on = IF transport = cur THEN transport ELSE NoConn
               /\ Elements(new) = {work'.who} \cup Elements(queue')
            \/ /\ work # Idle /\ work' = work
               /\ Elements(queue') = Elements(queue) \cup Elements(new)
<1>1. CASE work = Idle
  <2>1. queue = <<>>
    BY <1>1, IdleIs DEF QueueRuns
  <2>2. Drain(new, transport, cur)
    BY <1>1, <2>1 DEF Enqueue
  <2>3. QED BY <1>1, <2>2, DrainGives, EmptyHasNone
<1>2. CASE work # Idle
  <2>1. work' = work /\ queue' = queue \o new
    BY <1>2 DEF Enqueue
  <2>2. work \in Works /\ queue \in Seq(Peers)
    BY DEF TypeOK, Works
  <2>3. queue' \in Seq(Peers) /\ Elements(queue') = Elements(queue) \cup Elements(new)
    BY <2>1, <2>2, ElementsOfBoth
  <2>4. QED BY <1>2, <2>1, <2>2, <2>3
<1>3. QED BY <1>1, <1>2

Runs == {w \in Works : w.stage # "none" => w.who \in Peers}

LEMMA DrainTyped ==
  ASSUME NEW pending \in Seq(Peers), NEW transport \in Conns \cup {NoConn}, NEW socket,
         Drain(pending, transport, socket)
  PROVE  work' \in Runs /\ queue' \in Seq(Peers)
BY DrainGives, IdleIs DEF Runs

LEMMA EnqueueTyped ==
  ASSUME TypeOK, NEW new \in Seq(Peers), NEW transport \in Conns \cup {NoConn},
         Enqueue(new, transport)
  PROVE  work' \in Runs /\ queue' \in Seq(Peers)
<1>1. queue \o new \in Seq(Peers) /\ work \in Runs
  BY DEF TypeOK, Runs, Works
<1>2. CASE work = Idle
  BY <1>1, <1>2, DrainTyped DEF Enqueue
<1>3. CASE work # Idle
  BY <1>1, <1>3 DEF Enqueue
<1>4. QED BY <1>2, <1>3

LEMMA InitInductive == Init => InductiveInv
<1> SUFFICES ASSUME Init PROVE InductiveInv
  OBVIOUS
<1> USE NoConnIsNone
<1>1. TypeOK
  <2>1. /\ sock \in [Conns -> {"none", "dialing", "open", "lost", "closed"}]
        /\ job \in [Conns -> {"none", "ice", "join", "mute", "joined", "failed"} \cup Building]
        /\ tiles \in [Peers -> Conns \cup {NoConn}]
        /\ life \in [Peers -> {"away", "here", "sharing", "quiet", "gone"}]
        /\ via \in [Conns -> Conns \cup {NoConn}]
    BY DEF Init
  <2>2. snap \in [Conns -> [peers : SUBSET Peers, producers : SUBSET Peers]]
    BY DEF Init, Nobody
  <2>3. 0 \in 0..MaxConns /\ 0 \in 0..Attempts /\ 0 \in Nat
    BY EmbedAssumption
  <2>4. work \in Works /\ work.stage = "none" /\ queue \in Seq(Peers)
    BY IdleIs, EmptyHasNone DEF Init
  <2>5. QED BY <2>1, <2>2, <2>3, <2>4 DEF Init, TypeOK, Works
<1>2. Sockets /\ Transports
  BY IdleIs DEF Init, Sockets, Socket, Transports, NoConn, Conns
<1>3. QueueRuns
  BY IdleIs DEF Init, QueueRuns
<1>4. Heard
  <2>1. Pending = {} /\ Shown = {}
    BY DEF Init, Pending, Shown
  <2>2. QED BY <2>1 DEF Init, Heard
<1>5. Picture
  BY DEF Init, Picture, Listening
<1>6. Counted
  <2>1. Held = {}
    BY DEF Init, Held
  <2>2. Cardinality(Held) = 0
    BY <2>1, FS_EmptySet
  <2>3. QED BY <2>2 DEF Init, Counted, Claim
<1>7. QED BY <1>1, <1>2, <1>3, <1>4, <1>5, <1>6 DEF InductiveInv

(***************************************************************************)
(* What the actions that several parts depend on amount to                 *)
(***************************************************************************)
LEMMA BeginConnectGives ==
  ASSUME TypeOK, BeginConnect
  PROVE  /\ used' = used + 1 /\ used' \in Conns /\ intentional' = FALSE
         /\ phase' = "connecting"
         /\ \/ used = 0 /\ job' = [job EXCEPT ![used + 1] = "ice"] /\ UNCHANGED <<cur, sock>>
            \/ /\ used > 0 /\ job' = [job EXCEPT ![used + 1] = "join"]
               /\ sock' = [sock EXCEPT ![used + 1] = "dialing"] /\ cur' = used + 1
         /\ cur' \in Conns \cup {NoConn}
         /\ job' \in [Conns -> {"none", "ice", "join", "mute", "joined", "failed"} \cup Building]
         /\ sock' \in [Conns -> {"none", "dialing", "open", "lost", "closed"}]
<1>1. used \in Nat
  BY EmbedAssumption DEF TypeOK
<1>2. /\ used' = used + 1 /\ used' \in Conns /\ intentional' = FALSE
      /\ phase' = "connecting"
  BY DEF BeginConnect
<1>3. CASE used = 0
  <2>1. job' = [job EXCEPT ![used + 1] = "ice"] /\ UNCHANGED <<cur, sock>>
    BY <1>1, <1>3 DEF BeginConnect
  <2>2. job' \in [Conns -> {"none", "ice", "join", "mute", "joined", "failed"} \cup Building]
    BY <2>1 DEF TypeOK
  <2>3. QED BY <1>2, <1>3, <2>1, <2>2 DEF TypeOK
<1>4. CASE used # 0
  <2>1. used > 0 /\ used + 1 # 1
    BY <1>1, <1>4
  <2>2. /\ job' = [job EXCEPT ![used + 1] = "join"]
        /\ sock' = [sock EXCEPT ![used + 1] = "dialing"] /\ cur' = used + 1
    BY <2>1 DEF BeginConnect
  <2>3. /\ job' \in [Conns -> {"none", "ice", "join", "mute", "joined", "failed"} \cup Building]
        /\ sock' \in [Conns -> {"none", "dialing", "open", "lost", "closed"}]
    BY <2>2 DEF TypeOK
  <2>4. QED BY <1>2, <2>1, <2>2, <2>3
<1>5. QED BY <1>3, <1>4

LoopStates ==
  [loop : {"off", "sleep", "await"}, attempt : 0..Attempts, awaited : Conns \cup {NoConn},
   phase : {"idle", "connecting", "live", "reconnecting", "ended"}]

LEMMA AfterRejectGives ==
  ASSUME NEW l \in LoopStates, NEW C
  PROVE  /\ AfterReject(l, C) \in LoopStates
         /\ \/ AfterReject(l, C) = l
            \/ /\ l.loop = "await" /\ l.awaited \in C
               /\ AfterReject(l, C).loop # "await"
               /\ AfterReject(l, C).phase \in {l.phase, "ended"}
<1>1. CASE l.loop # "await" \/ l.awaited \notin C
  BY <1>1 DEF AfterReject
<1>2. CASE /\ ~(l.loop # "await" \/ l.awaited \notin C)
           /\ intentional \/ l.attempt = Attempts
  <2>1. AfterReject(l, C) = [loop |-> "off", attempt |-> 0, awaited |-> NoConn, phase |-> "ended"]
    BY <1>2 DEF AfterReject
  <2>2. 0 \in 0..Attempts
    BY EmbedAssumption
  <2>3. QED BY <1>2, <2>1, <2>2 DEF LoopStates
<1>3. CASE /\ ~(l.loop # "await" \/ l.awaited \notin C)
           /\ ~(intentional \/ l.attempt = Attempts)
  <2>1. AfterReject(l, C) = [l EXCEPT !.loop = "sleep", !.attempt = l.attempt + 1,
                                      !.awaited = NoConn]
    BY <1>3 DEF AfterReject
  <2>2. l.attempt + 1 \in 0..Attempts
    BY <1>3, EmbedAssumption DEF LoopStates
  <2>3. AfterReject(l, C) \in LoopStates
    BY <2>1, <2>2 DEF LoopStates
  <2>4. AfterReject(l, C).loop = "sleep" /\ AfterReject(l, C).phase = l.phase
    BY <2>1 DEF LoopStates
  <2>5. QED BY <1>3, <2>3, <2>4
<1>4. QED BY <1>1, <1>2, <1>3

LEMMA LoopNowIs ==
  ASSUME TypeOK
  PROVE  /\ LoopNow \in LoopStates /\ [LoopNow EXCEPT !.phase = "idle"] \in LoopStates
         /\ LoopNow.loop = loop /\ LoopNow.awaited = awaited /\ LoopNow.phase = phase
         /\ [LoopNow EXCEPT !.phase = "idle"].loop = loop
         /\ [LoopNow EXCEPT !.phase = "idle"].awaited = awaited
         /\ [LoopNow EXCEPT !.phase = "idle"].phase = "idle"
BY DEF TypeOK, LoopNow, LoopStates

LEMMA SetupFailsGives ==
  ASSUME TypeOK, NEW c \in Conns, SetupFails(c)
  PROVE  /\ job[c] \in Building /\ job' = [job EXCEPT ![c] = "failed"]
         /\ snap' = [snap EXCEPT ![c] = Nobody]
         /\ loop' \in {"off", "sleep", "await"} /\ attempt' \in 0..Attempts
         /\ awaited' \in Conns \cup {NoConn} /\ phase' \in {"idle", "ended"}
         /\ \/ loop' = loop /\ awaited' = awaited
            \/ loop = "await" /\ awaited = c /\ loop' # "await"
         /\ strays' = IF sock[c] = "closed" THEN strays ELSE strays + 1
         /\ UNCHANGED <<viewer, intentional, used, cur, sock, via, recv, remote, life>>
<1> DEFINE l == [LoopNow EXCEPT !.phase = "idle"]
           m == AfterReject(l, {c})
<1>1. /\ job[c] \in Building /\ job' = [job EXCEPT ![c] = "failed"]
      /\ snap' = [snap EXCEPT ![c] = Nobody] /\ SetLoop(m)
      /\ strays' = IF sock[c] = "closed" THEN strays ELSE strays + 1
      /\ UNCHANGED <<viewer, intentional, used, cur, sock, via, recv, remote, life>>
  BY DEF SetupFails
<1>2. /\ l \in LoopStates /\ l.loop = loop /\ l.awaited = awaited /\ l.phase = "idle"
  BY LoopNowIs
<1> HIDE DEF l
<1>3. /\ m \in LoopStates
      /\ \/ m = l
         \/ /\ l.loop = "await" /\ l.awaited \in {c}
            /\ m.loop # "await" /\ m.phase \in {l.phase, "ended"}
  BY <1>2, AfterRejectGives
<1> HIDE DEF m
<1>4. /\ loop' = m.loop /\ attempt' = m.attempt /\ awaited' = m.awaited /\ phase' = m.phase
  BY <1>1 DEF SetLoop
<1>5. QED BY <1>1, <1>2, <1>3, <1>4 DEF LoopStates

Requests == {d \in Conns : job[d] \in {"unsent", "recv", "send"}}

LEMMA ClosedGives ==
  ASSUME TypeOK, NEW c \in Conns, NEW failed \in BOOLEAN, Closed(c, failed)
  PROVE  /\ sock[c] \in {"lost", "dialing"} /\ sock' = [sock EXCEPT ![c] = "closed"]
         /\ job' = [d \in Conns |->
                      IF d \in Requests \/ (d = c /\ failed /\ job[d] = "join")
                      THEN "failed" ELSE job[d]]
         /\ snap' = [d \in Conns |-> IF d \in Requests THEN Nobody ELSE snap[d]]
         /\ loop' \in {"off", "sleep", "await"} /\ attempt' \in 0..Attempts
         /\ awaited' \in Conns \cup {NoConn}
         /\ phase' \in {"idle", "connecting", "live", "reconnecting", "ended"}
         /\ loop' = "await" => loop = "await" /\ awaited' = awaited
         /\ phase' = "live" => phase = "live"
         /\ \/ /\ ~intentional /\ ClearSession
               /\ IF GoesOn THEN UNCHANGED <<work, queue>> ELSE work' = Idle /\ queue' = <<>>
            \/ /\ UNCHANGED <<cur, recv, peers, tiles, missed, unheard>>
               /\ \/ work.stage = "request" /\ Drain(queue, recv, cur)
                  \/ work.stage # "request" /\ UNCHANGED <<work, queue>>
         /\ UNCHANGED <<viewer, intentional, used, via, strays, life>>
<1> DEFINE atError == IF failed THEN AfterReject(LoopNow, {c}) ELSE LoopNow
           restart == Restarts(atError)
           atClose == IF restart
                      THEN [loop |-> "sleep", attempt |-> 1, awaited |-> NoConn,
                            phase |-> "reconnecting"]
                      ELSE atError
           idled   == [atClose EXCEPT !.phase = "idle"]
           settled == IF Requests = {} THEN atClose ELSE AfterReject(idled, Requests)
<1>1. /\ sock[c] \in {"lost", "dialing"} /\ sock' = [sock EXCEPT ![c] = "closed"]
      /\ job' = [d \in Conns |->
                   IF d \in Requests \/ (d = c /\ failed /\ job[d] = "join")
                   THEN "failed" ELSE job[d]]
      /\ snap' = [d \in Conns |-> IF d \in Requests THEN Nobody ELSE snap[d]]
      /\ SetLoop(settled)
      /\ IF restart
         THEN /\ ClearSession
              /\ IF GoesOn THEN UNCHANGED <<work, queue>> ELSE work' = Idle /\ queue' = <<>>
         ELSE /\ UNCHANGED <<cur, recv, peers, tiles, missed, unheard>>
              /\ IF work.stage = "request"
                 THEN Drain(queue, recv, cur)
                 ELSE UNCHANGED <<work, queue>>
      /\ UNCHANGED <<viewer, intentional, used, via, strays, life>>
  BY DEF Closed, Requests
<1>2. /\ LoopNow \in LoopStates /\ LoopNow.loop = loop /\ LoopNow.awaited = awaited
      /\ LoopNow.phase = phase
  BY LoopNowIs
<1>3. /\ atError \in LoopStates
      /\ atError.loop = "await" => loop = "await" /\ atError.awaited = awaited
      /\ atError.phase \in {phase, "ended"}
  BY <1>2, AfterRejectGives
<1>4. restart => ~intentional
  BY DEF Restarts
<1> HIDE DEF atError, restart
<1>5. /\ atClose \in LoopStates
      /\ atClose.loop = "await" => loop = "await" /\ atClose.awaited = awaited
      /\ atClose.phase \in {phase, "ended", "reconnecting"}
  <2>1. 1 \in 0..Attempts
    BY EmbedAssumption
  <2>2. CASE restart
    BY <2>1, <2>2 DEF LoopStates
  <2>3. CASE ~restart
    BY <1>3, <2>3
  <2>4. QED BY <2>2, <2>3
<1> HIDE DEF atClose
<1>6. /\ idled \in LoopStates /\ idled.loop = atClose.loop /\ idled.awaited = atClose.awaited
      /\ idled.phase = "idle"
  BY <1>5 DEF LoopStates
<1> HIDE DEF idled
<1>7. /\ settled \in LoopStates
      /\ settled.loop = "await" => loop = "await" /\ settled.awaited = awaited
      /\ settled.phase \in {phase, "ended", "reconnecting", "idle"}
  <2>1. CASE Requests = {}
    BY <1>5, <2>1
  <2>2. CASE Requests # {}
    <3>1. settled = AfterReject(idled, Requests)
      BY <2>2
    <3>2. /\ settled \in LoopStates
          /\ \/ settled = idled
             \/ settled.loop # "await" /\ settled.phase \in {idled.phase, "ended"}
      BY <1>6, <3>1, AfterRejectGives
    <3> HIDE DEF settled
    <3>3. QED BY <1>5, <1>6, <3>2
  <2>3. QED BY <2>1, <2>2
<1> HIDE DEF settled
<1>8. /\ loop' = settled.loop /\ attempt' = settled.attempt
      /\ awaited' = settled.awaited /\ phase' = settled.phase
  BY <1>1 DEF SetLoop
<1>9. /\ loop' \in {"off", "sleep", "await"} /\ attempt' \in 0..Attempts
      /\ awaited' \in Conns \cup {NoConn}
      /\ phase' \in {"idle", "connecting", "live", "reconnecting", "ended"}
      /\ loop' = "await" => loop = "await" /\ awaited' = awaited
      /\ phase' = "live" => phase = "live"
  BY <1>7, <1>8 DEF LoopStates
<1>10. QED BY <1>1, <1>4, <1>9

LEMMA FinishTyped ==
  ASSUME TypeOK, NEW c \in Conns, NEW transport \in Conns \cup {NoConn},
         Finish(c, transport)
  PROVE  /\ job' = [job EXCEPT ![c] = "joined"] /\ snap' = [snap EXCEPT ![c] = Nobody]
         /\ phase' = "live"
         /\ loop' \in {"off", loop} /\ attempt' \in 0..Attempts
         /\ awaited' \in Conns \cup {NoConn} /\ (loop' = "await" => awaited' = awaited)
         /\ work' \in Runs /\ queue' \in Seq(Peers)
<1>1. PICK listing \in Listings(snap[c].producers) : Enqueue(listing, transport)
  BY DEF Finish
<1>2. snap[c].producers \in SUBSET Peers
  BY DEF TypeOK
<1>3. listing \in Seq(Peers)
  BY <1>1, <1>2, ListingsAre
<1>4. work' \in Runs /\ queue' \in Seq(Peers)
  BY <1>1, <1>3, EnqueueTyped
<1>5. /\ job' = [job EXCEPT ![c] = "joined"] /\ snap' = [snap EXCEPT ![c] = Nobody]
      /\ phase' = "live"
      /\ loop' \in {"off", loop} /\ attempt' \in 0..Attempts
      /\ awaited' \in Conns \cup {NoConn} /\ (loop' = "await" => awaited' = awaited)
  BY EmbedAssumption DEF Finish, retry, TypeOK
<1>6. QED BY <1>4, <1>5

LEMMA FinishGives ==
  ASSUME TypeOK, QueueRuns, NEW c \in Conns, cur \in Conns, Finish(c, cur)
  PROVE  /\ job' = [job EXCEPT ![c] = "joined"] /\ snap' = [snap EXCEPT ![c] = Nobody]
         /\ phase' = "live"
         /\ loop' \in {"off", loop} /\ attempt' \in 0..Attempts
         /\ awaited' \in Conns \cup {NoConn} /\ (loop' = "await" => awaited' = awaited)
         /\ work' \in Works /\ queue' \in Seq(Peers)
         /\ \/ /\ work = Idle /\ work' = Idle /\ queue' = <<>> /\ snap[c].producers = {}
            \/ /\ work = Idle /\ work'.stage = "request" /\ work'.who \in Peers
               /\ work'.on = cur
               /\ snap[c].producers = {work'.who} \cup Elements(queue')
            \/ /\ work # Idle /\ work' = work
               /\ Elements(queue') = Elements(queue) \cup snap[c].producers
<1>1. PICK listing \in Listings(snap[c].producers) : Enqueue(listing, cur)
  BY DEF Finish
<1>2. snap[c].producers \in SUBSET Peers
  BY DEF TypeOK
<1>3. listing \in Seq(Peers) /\ Elements(listing) = snap[c].producers
  BY <1>1, <1>2, ListingsAre
<1>4. /\ work' \in Works /\ queue' \in Seq(Peers)
      /\ \/ /\ work = Idle /\ work' = Idle /\ queue' = <<>> /\ snap[c].producers = {}
         \/ /\ work = Idle /\ work'.stage = "request" /\ work'.who \in Peers
            /\ work'.on = cur
            /\ snap[c].producers = {work'.who} \cup Elements(queue')
         \/ /\ work # Idle /\ work' = work
            /\ Elements(queue') = Elements(queue) \cup snap[c].producers
  BY <1>1, <1>3, EnqueueGives, NoConnIsNone
<1>5. /\ job' = [job EXCEPT ![c] = "joined"] /\ snap' = [snap EXCEPT ![c] = Nobody]
      /\ phase' = "live"
      /\ loop' \in {"off", loop} /\ attempt' \in 0..Attempts
      /\ awaited' \in Conns \cup {NoConn} /\ (loop' = "await" => awaited' = awaited)
  BY EmbedAssumption DEF Finish, retry, TypeOK
<1>6. QED BY <1>4, <1>5

(***************************************************************************)
(* Types                                                                   *)
(***************************************************************************)
\* Strays are only ever counted up.
LEMMA RetryLeavesAStray ==
  ASSUME TypeOK, ~orphaned'
  PROVE  ~Retry
BY DEF TypeOK, Retry, orphaned

LEMMA TypeKept ==
  ASSUME TypeOK, Next
  PROVE  TypeOK'
<1> USE NoConnIsNone DEF page, conns, retry, remote
<1>0. /\ work \in Runs /\ NoConn \in Conns \cup {NoConn}
      /\ Nobody \in [peers : SUBSET Peers, producers : SUBSET Peers]
      /\ Present \subseteq Peers /\ Sharing \subseteq Peers
      /\ strays \in Nat /\ strays + 1 \in Nat
  BY DEF TypeOK, Works, Runs, Nobody, Present, Sharing
<1>1. CASE AutoJoin
  <2>1. UNCHANGED <<viewer, snap, via, recv, strays, retry, remote, life>>
    BY <1>1 DEF AutoJoin
  <2>2. BeginConnect
    BY <1>1 DEF AutoJoin
  <2>3. used' \in 0..MaxConns
    BY <2>2, BeginConnectGives DEF Conns
  <2>4. /\ intentional' = FALSE /\ phase' = "connecting" /\ cur' \in Conns \cup {NoConn}
        /\ job' \in [Conns -> {"none", "ice", "join", "mute", "joined", "failed"} \cup Building]
        /\ sock' \in [Conns -> {"none", "dialing", "open", "lost", "closed"}]
    BY <2>2, BeginConnectGives
  <2>5. QED BY <1>0, <2>1, <2>3, <2>4 DEF TypeOK
<1>2. CASE Retry
  <2>1. UNCHANGED <<viewer, snap, via, recv, retry, remote, life>> /\ strays' = strays + 1
    BY <1>2 DEF Retry
  <2>2. BeginConnect
    BY <1>2 DEF Retry
  <2>3. used' \in 0..MaxConns
    BY <2>2, BeginConnectGives DEF Conns
  <2>4. /\ intentional' = FALSE /\ phase' = "connecting" /\ cur' \in Conns \cup {NoConn}
        /\ job' \in [Conns -> {"none", "ice", "join", "mute", "joined", "failed"} \cup Building]
        /\ sock' \in [Conns -> {"none", "dialing", "open", "lost", "closed"}]
    BY <2>2, BeginConnectGives
  <2>5. QED BY <1>0, <2>1, <2>3, <2>4 DEF TypeOK
<1>3. CASE SleepOver
  <2>1. UNCHANGED <<viewer, snap, via, recv, strays, remote, life>>
    BY <1>3 DEF SleepOver
  <2>2. CASE intentional
    <3>1. /\ loop' = "off" /\ attempt' = 0 /\ awaited' = NoConn /\ phase' = "ended"
          /\ UNCHANGED <<intentional, used, cur, sock, job>>
      BY <1>3, <2>2 DEF SleepOver, SetLoop
    <3>2. 0 \in 0..Attempts
      BY EmbedAssumption
    <3>3. QED BY <2>1, <3>1, <3>2 DEF TypeOK
  <2>3. CASE ~intentional
    <3>1. BeginConnect /\ loop' = "await" /\ awaited' = used + 1 /\ attempt' = attempt
      BY <1>3, <2>3 DEF SleepOver
    <3>2. used' \in 0..MaxConns
      BY <3>1, BeginConnectGives DEF Conns
    <3>3. QED BY <2>1, <3>1, <3>2, BeginConnectGives DEF TypeOK
  <2>4. QED BY <2>2, <2>3 DEF TypeOK
<1>4. CASE Leave
  <2>1. CASE cur = NoConn
    BY <1>4, <2>1 DEF Leave, TypeOK
  <2>2. CASE cur # NoConn
    <3>1. /\ intentional' = TRUE /\ phase' = "ended" /\ sock' = HungUp(cur) /\ ClearSession
          /\ \/ UNCHANGED <<work, queue>>
             \/ work' = Idle /\ queue' = <<>>
          /\ UNCHANGED <<used, job, snap, via, strays, viewer, retry, life>>
      BY <1>4, <2>2 DEF Leave
    <3>2. sock' \in [Conns -> {"none", "dialing", "open", "lost", "closed"}]
      BY <3>1, <2>2 DEF HungUp, TypeOK
    <3>3. work' \in Runs /\ queue' \in Seq(Peers)
      BY <1>0, <3>1, IdleIs, EmptyHasNone DEF TypeOK, Runs
    <3>4. QED BY <3>1, <3>2, <3>3 DEF TypeOK, Works, Runs, ClearSession
  <2>3. QED BY <2>1, <2>2
<1>5. CASE ConsumeAnswered
  <2>1. CASE recv = NoConn
    BY <1>5, <2>1, DrainTyped DEF ConsumeAnswered, TypeOK, Works, Runs
  <2>2. CASE recv # NoConn
    <3>1. work' = [work EXCEPT !.stage = "consume", !.on = recv] /\ queue' = queue
      BY <1>5, <2>2 DEF ConsumeAnswered
    <3>2. work.stage = "request"
      BY <1>5 DEF ConsumeAnswered
    <3>3. work' \in Runs
      BY <1>0, <3>1, <3>2 DEF TypeOK, Works, Runs
    <3>4. QED BY <1>5, <3>1, <3>3 DEF ConsumeAnswered, TypeOK, Works, Runs
  <2>3. QED BY <2>1, <2>2
<1>6. CASE ConsumeRefused
  BY <1>6, DrainTyped DEF ConsumeRefused, TypeOK, Works, Runs
<1>7. CASE ConsumeDone
  <2>1. Drain(queue, recv, cur) /\ tiles' = [tiles EXCEPT ![work.who] = work.on]
    BY <1>7 DEF ConsumeDone
  <2>2. work' \in Runs /\ queue' \in Seq(Peers)
    BY <2>1, DrainTyped DEF TypeOK
  <2>3. tiles' \in [Peers -> Conns \cup {NoConn}]
    BY <1>0, <2>1 DEF TypeOK, Works, Runs
  <2>4. QED BY <1>7, <2>2, <2>3 DEF ConsumeDone, TypeOK, Works, Runs
<1>8. ASSUME NEW c \in Conns, ConnStep(c)
      PROVE  TypeOK'
  <2>1. CASE GotIceServers(c)
    BY <2>1 DEF GotIceServers, TypeOK
  <2>2. CASE Opened(c)
    BY <2>2 DEF Opened, TypeOK
  <2>3. CASE Joined(c)
    <3>1. [peers |-> Present, producers |-> Sharing]
            \in [peers : SUBSET Peers, producers : SUBSET Peers]
      BY <1>0
    <3>2. job' = [job EXCEPT ![c] = "device"]
          /\ snap' = [snap EXCEPT ![c] = [peers |-> Present, producers |-> Sharing]]
      BY <2>3 DEF Joined
    <3>3. /\ job' \in [Conns -> {"none", "ice", "join", "mute", "joined", "failed"} \cup Building]
          /\ snap' \in [Conns -> [peers : SUBSET Peers, producers : SUBSET Peers]]
      BY <3>1, <3>2 DEF TypeOK, Building
    <3>4. QED BY <2>3, <3>3 DEF Joined, TypeOK
  <2>4. CASE DeviceLoaded(c)
    <3>1. /\ job' \in [Conns -> {"none", "ice", "join", "mute", "joined", "failed"} \cup Building]
          /\ via' \in [Conns -> Conns \cup {NoConn}]
      BY <2>4 DEF DeviceLoaded, Request, TypeOK, Building
    <3>2. peers' \subseteq Peers
      BY <2>4 DEF DeviceLoaded, TypeOK
    <3>3. QED BY <2>4, <3>1, <3>2 DEF DeviceLoaded, TypeOK
  <2>5. ASSUME NEW transport \in Conns \cup {NoConn}, Finish(c, transport),
               UNCHANGED <<viewer, intentional, used, cur, sock, via, strays,
                           peers, tiles, missed, unheard, life>>,
               recv' \in Conns \cup {NoConn}
        PROVE  TypeOK'
    <3>1. /\ job' \in [Conns -> {"none", "ice", "join", "mute", "joined", "failed"} \cup Building]
          /\ snap' \in [Conns -> [peers : SUBSET Peers, producers : SUBSET Peers]]
          /\ loop' \in {"off", "sleep", "await"} /\ attempt' \in 0..Attempts
          /\ awaited' \in Conns \cup {NoConn} /\ phase' = "live"
          /\ work' \in Runs /\ queue' \in Seq(Peers)
      <4>1. /\ job' = [job EXCEPT ![c] = "joined"] /\ snap' = [snap EXCEPT ![c] = Nobody]
            /\ phase' = "live" /\ loop' \in {"off", loop} /\ attempt' \in 0..Attempts
            /\ awaited' \in Conns \cup {NoConn} /\ work' \in Runs /\ queue' \in Seq(Peers)
        BY <2>5, FinishTyped
      <4>2. Nobody \in [peers : SUBSET Peers, producers : SUBSET Peers]
        BY DEF Nobody
      <4>3. QED BY <4>1, <4>2 DEF TypeOK
    <3>2. QED BY <2>5, <3>1 DEF TypeOK, Works, Runs
  <2>6. CASE RecvReady(c)
    <3>1. via[c] \in Conns /\ recv' = via[c]
      BY <2>6 DEF RecvReady, Listening
    <3>2. CASE Finish(c, via[c]) /\ UNCHANGED via
      BY <2>5, <2>6, <3>1, <3>2 DEF RecvReady
    <3>3. CASE Request(c, "send") /\ UNCHANGED <<snap, phase, retry, work, queue>>
      <4>1. /\ job' \in [Conns -> {"none", "ice", "join", "mute", "joined", "failed"} \cup Building]
            /\ via' \in [Conns -> Conns \cup {NoConn}]
        BY <3>3 DEF Request, TypeOK, Building
      <4>2. QED BY <2>6, <3>1, <3>3, <4>1 DEF RecvReady, TypeOK
    <3>4. QED BY <2>6, <3>2, <3>3 DEF RecvReady
  <2>7. CASE SendReady(c)
    <3>1. recv \in Conns \cup {NoConn} /\ recv' = recv /\ Finish(c, recv)
      BY <2>7 DEF SendReady, TypeOK
    <3>2. QED BY <2>5, <2>7, <3>1 DEF SendReady
  <2>8. CASE SetupFails(c)
    <3>1. strays' \in Nat
      BY <1>0, <2>8, SetupFailsGives
    <3>2. Nobody \in [peers : SUBSET Peers, producers : SUBSET Peers]
      BY DEF Nobody
    <3>3. /\ job' \in [Conns -> {"none", "ice", "join", "mute", "joined", "failed"} \cup Building]
          /\ snap' \in [Conns -> [peers : SUBSET Peers, producers : SUBSET Peers]]
      <4>1. job' = [job EXCEPT ![c] = "failed"] /\ snap' = [snap EXCEPT ![c] = Nobody]
        BY <2>8, SetupFailsGives
      <4>2. /\ job \in [Conns -> {"none", "ice", "join", "mute", "joined", "failed"} \cup Building]
            /\ snap \in [Conns -> [peers : SUBSET Peers, producers : SUBSET Peers]]
        BY DEF TypeOK
      <4>3. QED BY <3>2, <4>1, <4>2
    <3>4. /\ loop' \in {"off", "sleep", "await"} /\ attempt' \in 0..Attempts
          /\ awaited' \in Conns \cup {NoConn} /\ phase' \in {"idle", "ended"}
          /\ UNCHANGED <<viewer, intentional, used, cur, sock, via, recv, remote, life>>
      BY <2>8, SetupFailsGives
    <3>5. QED BY <3>1, <3>3, <3>4 DEF TypeOK
  <2>9. ASSUME NEW failed \in BOOLEAN, Closed(c, failed)
        PROVE  TypeOK'
    <3>1. /\ job' \in [Conns -> {"none", "ice", "join", "mute", "joined", "failed"} \cup Building]
          /\ snap' \in [Conns -> [peers : SUBSET Peers, producers : SUBSET Peers]]
          /\ sock' \in [Conns -> {"none", "dialing", "open", "lost", "closed"}]
      <4>1. /\ sock' = [sock EXCEPT ![c] = "closed"]
            /\ job' = [d \in Conns |->
                         IF d \in Requests \/ (d = c /\ failed /\ job[d] = "join")
                         THEN "failed" ELSE job[d]]
            /\ snap' = [d \in Conns |-> IF d \in Requests THEN Nobody ELSE snap[d]]
        BY <2>9, ClosedGives
      <4>2. sock' \in [Conns -> {"none", "dialing", "open", "lost", "closed"}]
        BY <4>1 DEF TypeOK
      <4>3. job' \in [Conns -> {"none", "ice", "join", "mute", "joined", "failed"} \cup Building]
        BY <4>1 DEF TypeOK
      <4>4. snap' \in [Conns -> [peers : SUBSET Peers, producers : SUBSET Peers]]
        BY <1>0, <4>1 DEF TypeOK
      <4>5. QED BY <4>2, <4>3, <4>4
    <3>2. /\ loop' \in {"off", "sleep", "await"} /\ attempt' \in 0..Attempts
          /\ awaited' \in Conns \cup {NoConn}
          /\ phase' \in {"idle", "connecting", "live", "reconnecting", "ended"}
          /\ UNCHANGED <<viewer, intentional, used, via, strays, life>>
      BY <2>9, ClosedGives
    <3>3. /\ work' \in Runs /\ queue' \in Seq(Peers)
      <4>1. \/ work' = Idle /\ queue' = <<>>
            \/ UNCHANGED <<work, queue>>
            \/ Drain(queue, recv, cur)
        BY <2>9, ClosedGives
      <4>2. queue \in Seq(Peers) /\ recv \in Conns \cup {NoConn}
        BY DEF TypeOK
      <4>3. Drain(queue, recv, cur) => work' \in Runs /\ queue' \in Seq(Peers)
        BY <4>2, DrainTyped
      <4>4. QED BY <1>0, <4>1, <4>2, <4>3, IdleIs, EmptyHasNone DEF Runs
    <3>4. /\ cur' \in Conns \cup {NoConn} /\ recv' \in Conns \cup {NoConn}
          /\ peers' \subseteq Peers /\ missed' \subseteq Peers /\ unheard' \subseteq Peers
          /\ tiles' \in [Peers -> Conns \cup {NoConn}]
      BY <2>9, ClosedGives DEF TypeOK, ClearSession
    <3>5. QED BY <3>1, <3>2, <3>3, <3>4 DEF TypeOK, Works, Runs
  <2>10. CASE Lose(c)
    BY <2>10 DEF Lose, TypeOK
  <2>11. QED
    BY <1>8, <2>1, <2>2, <2>3, <2>4, <2>6, <2>7, <2>8, <2>9, <2>10 DEF ConnStep
<1>9. ASSUME NEW p \in Peers, PeerStep(p)
      PROVE  TypeOK'
  <2>1. CASE PeerJoins(p)
    BY <2>1 DEF PeerJoins, Becomes, TypeOK
  <2>2. CASE PeerShares(p)
    <3>1. work' \in Runs /\ queue' \in Seq(Peers)
      BY <1>0, <2>2, AnnouncedIs, EnqueueTyped DEF PeerShares, TypeOK
    <3>2. QED BY <2>2, <3>1 DEF PeerShares, Becomes, TypeOK, Works, Runs
  <2>3. CASE PeerStops(p)
    BY <2>3 DEF PeerStops, Becomes, RemoveProducer, TypeOK
  <2>4. CASE PeerLeaves(p)
    BY <2>4 DEF PeerLeaves, Becomes, RemovePeer, RemoveProducer, TypeOK
  <2>5. QED BY <1>9, <2>1, <2>2, <2>3, <2>4 DEF PeerStep
<1>10. QED
  BY <1>1, <1>2, <1>3, <1>4, <1>5, <1>6, <1>7, <1>8, <1>9 DEF Next, PageStep

(***************************************************************************)
(* The connections                                                         *)
(***************************************************************************)
\* What a step may do to the run of the queue, whatever it is.
LEMMA WorkStays ==
  ASSUME TypeOK, QueueRuns, Sockets, NEW new \in Seq(Peers), NEW transport \in {recv, cur},
         Drain(queue, recv, cur) \/ Enqueue(new, transport)
  PROVE  work' \in Works /\ work'.on <= used
<1>1. /\ recv \in Conns \cup {NoConn} /\ cur \in Conns \cup {NoConn} /\ queue \in Seq(Peers)
      /\ used \in Nat /\ recv <= used /\ cur <= used /\ work.on <= used /\ NoConn <= used
      /\ work \in Works
  BY EmbedAssumption DEF TypeOK, Sockets, Works, NoConn
<1>2. transport \in Conns \cup {NoConn} /\ transport <= used
  BY <1>1
<1>3. Drain(queue, recv, cur) => work' \in Works /\ work'.on <= used
  BY <1>1, DrainGives, IdleIs
<1>4. Enqueue(new, transport) => work' \in Works /\ work'.on <= used
  BY <1>1, <1>2, EnqueueGives, IdleIs
<1>5. QED BY <1>3, <1>4

LEMMA OnlyCurrentListens ==
  ASSUME TypeOK, Sockets
  PROVE  /\ \A c \in Listening : c \in Conns /\ c = cur /\ c = used /\ sock[c] = "open"
         /\ Listening # {} => ~intentional /\ cur \in Listening
         /\ \A c \in Conns : job[c] \in {"recv", "send", "device"} => c = used
<1>1. \A c \in Listening : c \in Conns /\ c = cur /\ c = used /\ sock[c] = "open"
  BY DEF Listening, Sockets, Socket
<1>2. \A c \in Conns : job[c] \in {"recv", "send", "device"} => c = used
  BY DEF Sockets, Socket
<1>3. cur # NoConn => ~intentional
  BY DEF Sockets
<1>4. QED BY <1>1, <1>2, <1>3, NoConnIsNone

\* The request of a setup goes out on its own connection.
LEMMA CurrentRequest ==
  ASSUME TypeOK, Sockets, NEW c \in Conns, job[c] \in {"recv", "send"}, via[c] \in Listening
  PROVE  via[c] = c /\ c = cur /\ c = used /\ cur \in Listening /\ sock[c] = "open" /\ ~intentional
<1>1. via[c] = c
  BY DEF Sockets, Socket
<1>2. QED BY <1>1, OnlyCurrentListens

\* A socket that opens is the current one: its meet-join goes out.
LEMMA OpenedKeepsJobs ==
  ASSUME TypeOK, Sockets, NEW c \in Conns, Opened(c)
  PROVE  job' = job
<1>1. cur = c
  BY DEF Opened, Sockets, Socket
<1>2. QED BY <1>1 DEF Opened, TypeOK

LEMMA SocketsKept ==
  ASSUME TypeOK, QueueRuns, Sockets, Transports, Next, ~orphaned'
  PROVE  Sockets'
<1> USE NoConnIsNone
<1>0. /\ used \in Nat /\ used \in 0..MaxConns /\ NoConn <= used /\ NoConn = 0
      /\ work \in Works /\ Idle.on = NoConn /\ Conns = 1..MaxConns
  BY EmbedAssumption, IdleIs DEF TypeOK, Works, NoConn, Conns
<1> HIDE NoConnIsNone
<1>a. cur \in Nat /\ recv \in Nat /\ work.on \in Nat
  BY <1>0, EmbedAssumption DEF TypeOK, Works
<1>b. cur <= used /\ recv <= used /\ work.on <= used
  BY DEF Sockets
<1> USE NoConnIsNone
<1>1. ASSUME UNCHANGED <<used, cur, recv, sock, job, via, loop, awaited, intentional>>,
             work' = work \/ work'.on <= used
      PROVE  Sockets'
  BY <1>1 DEF Sockets, Socket
<1>2. ASSUME BeginConnect, ~intentional, UNCHANGED <<recv, via, work>>,
             \/ used = 0 /\ UNCHANGED <<loop, awaited>>
             \/ /\ loop = "sleep" /\ loop' = "await" /\ awaited' = used + 1
                /\ \A c \in Conns : job[c] # "device"
      PROVE  Sockets'
  <2>1. /\ used' = used + 1 /\ used' \in Conns /\ intentional' = FALSE
        /\ \/ used = 0 /\ job' = [job EXCEPT ![used + 1] = "ice"] /\ UNCHANGED <<cur, sock>>
           \/ /\ used > 0 /\ job' = [job EXCEPT ![used + 1] = "join"]
              /\ sock' = [sock EXCEPT ![used + 1] = "dialing"] /\ cur' = used + 1
    BY <1>2, BeginConnectGives
  <2>2. CASE used = 0
    <3>1. job' = [job EXCEPT ![used + 1] = "ice"] /\ UNCHANGED <<cur, sock>>
      BY <2>1, <2>2
    <3>2. loop = "off" /\ loop' = "off"
      BY <1>2, <2>2 DEF Sockets, Socket, TypeOK
    <3>3. \A c \in Conns : sock[c] = "none" /\ job[c] = "none"
      BY <1>0, <2>2 DEF Sockets, Socket
    <3>4. cur = NoConn /\ recv = NoConn /\ work.on <= 0
      BY <1>0, <2>2 DEF Sockets, Socket, TypeOK
    <3>5. \A c \in Conns : job'[c] = IF c = used + 1 THEN "ice" ELSE "none"
      BY <2>1, <3>1, <3>3 DEF TypeOK
    <3>6. \A c \in Conns : Socket(c)'
      BY <1>0, <2>1, <2>2, <3>1, <3>2, <3>3, <3>4, <3>5 DEF Socket
    <3>7. QED BY <1>0, <1>a, <1>b, <1>2, <2>1, <2>2, <3>1, <3>2, <3>4, <3>6 DEF Sockets
  <2>3. CASE used > 0
    <3>1. /\ job' = [job EXCEPT ![used + 1] = "join"]
          /\ sock' = [sock EXCEPT ![used + 1] = "dialing"] /\ cur' = used + 1
      BY <2>1, <2>3, <1>0
    <3>2. loop = "sleep" /\ loop' = "await" /\ awaited' = used'
      BY <1>0, <1>2, <2>1, <2>3
    <3>3. \A c \in Conns : /\ job'[c] = IF c = used + 1 THEN "join" ELSE job[c]
                           /\ sock'[c] = IF c = used + 1 THEN "dialing" ELSE sock[c]
      BY <2>1, <3>1 DEF TypeOK
    <3>4. \A c \in Conns : /\ sock[c] \notin {"dialing", "open", "lost"}
                           /\ job[c] \notin {"ice", "recv", "send"}
      BY <3>2 DEF Sockets, Socket
    <3>5. \A c \in Conns : job[c] # "device"
      BY <1>2, <2>3
    <3>6. \A c \in Conns : Socket(c)'
      BY <1>0, <2>1, <3>1, <3>2, <3>3, <3>4, <3>5 DEF Sockets, Socket
    <3>7. QED BY <1>0, <1>a, <1>b, <1>2, <2>1, <2>3, <3>1, <3>2, <3>6 DEF Sockets
  <2>4. QED BY <1>0, <2>2, <2>3
<1>3. CASE AutoJoin
  <2>1. /\ BeginConnect /\ used = 0
        /\ UNCHANGED <<viewer, snap, recv, via, loop, awaited, work, life>>
    BY <1>3 DEF AutoJoin, retry, remote
  <2>2. ~intentional
    BY <2>1 DEF Sockets
  <2>3. QED BY <1>2, <2>1, <2>2
<1>4. ~Retry
  BY RetryLeavesAStray
<1>5. CASE SleepOver
  <2>1. CASE intentional
    <3>1. loop = "sleep" /\ loop' = "off" /\ intentional' = intentional
          /\ UNCHANGED <<used, cur, sock, job, via, recv, work>>
      BY <1>5, <2>1 DEF SleepOver, SetLoop, remote
    <3>2. QED BY <3>1 DEF Sockets, Socket
  <2>2. CASE ~intentional
    BY <1>2, <1>5, <2>2 DEF SleepOver, remote
  <2>3. QED BY <2>1, <2>2 DEF TypeOK
<1>6. CASE Leave
  <2>1. CASE cur = NoConn
    BY <1>1, <1>6, <2>1 DEF Leave, conns, remote, retry
  <2>2. CASE cur # NoConn
    <3>1. /\ intentional' = TRUE /\ sock' = HungUp(cur) /\ used > 0
          /\ cur' = NoConn /\ recv' = NoConn
          /\ work' = work \/ work' = Idle
          /\ UNCHANGED <<used, job, via, loop, awaited>>
      BY <1>6, <2>2 DEF Leave, ClearSession, retry
    <3>2. cur \in Conns /\ \A c \in Conns : sock'[c] =
            IF c = cur /\ sock[c] \in {"dialing", "open"} THEN "lost" ELSE sock[c]
      BY <2>2, <3>1 DEF HungUp, TypeOK
    <3>3. \A c \in Conns : Socket(c)'
      BY <3>1, <3>2 DEF Sockets, Socket
    <3>4. QED BY <1>0, <1>a, <1>b, <3>1, <3>3 DEF Sockets
  <2>3. QED BY <2>1, <2>2
<1>7. CASE ConsumeAnswered \/ ConsumeRefused \/ ConsumeDone
  <2>1. Drain(queue, recv, cur) => work'.on <= used
    BY WorkStays, EmptyHasNone
  <2>2. work' = [work EXCEPT !.stage = "consume", !.on = recv] => work'.on <= used
    BY <1>0, <1>b DEF Works
  <2>3. UNCHANGED <<used, cur, recv, sock, job, via, loop, awaited, intentional>>
    BY <1>7 DEF ConsumeAnswered, ConsumeRefused, ConsumeDone, page, conns, retry
  <2>4. QED BY <1>1, <1>7, <2>1, <2>2, <2>3
            DEF ConsumeAnswered, ConsumeRefused, ConsumeDone
<1>8. ASSUME NEW c \in Conns, ConnStep(c)
      PROVE  Sockets'
  <2>1. CASE GotIceServers(c)
    <3>1. /\ job[c] = "ice" /\ job' = [job EXCEPT ![c] = "join"]
          /\ sock' = [sock EXCEPT ![c] = "dialing"] /\ cur' = c
          /\ UNCHANGED <<used, via, recv, loop, awaited, intentional, work>>
      BY <2>1 DEF GotIceServers, page, retry, remote
    <3>2. c = used /\ loop = "off" /\ sock[c] = "none"
      BY <3>1 DEF Sockets, Socket
    <3>3. \A d \in Conns : /\ job'[d] = IF d = c THEN "join" ELSE job[d]
                           /\ sock'[d] = IF d = c THEN "dialing" ELSE sock[d]
      BY <3>1 DEF TypeOK
    <3>4. ~intentional
      BY <3>1 DEF Sockets, Socket
    <3>5. \A d \in Conns : Socket(d)'
      BY <1>0, <3>1, <3>2, <3>3 DEF Sockets, Socket
    <3>6. QED BY <1>0, <1>a, <1>b, <3>1, <3>2, <3>4, <3>5 DEF Sockets
  <2>2. CASE Opened(c)
    <3>1. /\ sock[c] = "dialing" /\ sock' = [sock EXCEPT ![c] = "open"]
          /\ UNCHANGED <<used, cur, recv, job, via, loop, awaited, intentional, work>>
      BY <2>2, OpenedKeepsJobs DEF Opened, page, retry, remote
    <3>2. \A d \in Conns : sock'[d] = IF d = c THEN "open" ELSE sock[d]
      BY <3>1 DEF TypeOK
    <3>3. \A d \in Conns : Socket(d)'
      BY <3>1, <3>2 DEF Sockets, Socket
    <3>4. QED BY <3>1, <3>3 DEF Sockets
  <2>3. CASE Joined(c)
    <3>1. /\ sock[c] = "open" /\ job[c] = "join" /\ job' = [job EXCEPT ![c] = "device"]
          /\ UNCHANGED <<used, cur, recv, sock, via, loop, awaited, intentional, work>>
      BY <2>3 DEF Joined, page, retry, remote
    <3>2. \A d \in Conns : job'[d] = IF d = c THEN "device" ELSE job[d]
      BY <3>1 DEF TypeOK
    <3>3. \A d \in Conns : Socket(d)'
      BY <3>1, <3>2 DEF Sockets, Socket
    <3>4. QED BY <3>1, <3>3 DEF Sockets
  <2>4. CASE DeviceLoaded(c)
    <3>1. /\ job[c] = "device"
          /\ job' = [job EXCEPT ![c] = IF cur \in Listening THEN "recv" ELSE "unsent"]
          /\ via' = [via EXCEPT ![c] = cur]
          /\ UNCHANGED <<used, cur, recv, sock, loop, awaited, intentional, work>>
      BY <2>4 DEF DeviceLoaded, Request, page, retry
    <3>2. \A d \in Conns : job'[d] = IF d = c THEN (IF cur \in Listening THEN "recv" ELSE "unsent")
                                      ELSE job[d]
      BY <3>1 DEF TypeOK
    <3>c. \A d \in Conns : via'[d] = IF d = c THEN cur ELSE via[d]
      BY <3>1 DEF TypeOK
    <3>3. /\ cur \in Listening <=> sock[c] = "open"
          /\ cur \in Listening => cur = c
      <4>1. cur \in Listening => cur \in Conns /\ sock[cur] = "open" /\ cur = used
        BY DEF Listening, Sockets, Socket
      <4>2. c = used /\ (sock[c] = "open" => cur = c)
        BY <3>1 DEF Sockets, Socket
      <4>3. QED BY <3>1, <4>1, <4>2 DEF Listening, Building
    <3>4. sock[c] \notin {"none", "dialing"}
      BY <3>1 DEF Sockets, Socket
    <3>5. \A d \in Conns : Socket(d)'
      BY <3>1, <3>2, <3>c, <3>3, <3>4 DEF Sockets, Socket
    <3>6. QED BY <3>1, <3>5 DEF Sockets
  <2>5. ASSUME job[c] \in {"recv", "send"}, cur = c, sock[c] = "open",
               \/ job' = [job EXCEPT ![c] = "send"] /\ via' = [via EXCEPT ![c] = cur]
               \/ job' = [job EXCEPT ![c] = "joined"] /\ via' = via,
               loop' \in {"off", loop}, loop' = "await" => awaited' = awaited,
               recv' \in {recv, cur}, work'.on <= used,
               UNCHANGED <<used, cur, sock, intentional>>
        PROVE  Sockets'
    <3>1. \A d \in Conns : d # c => job'[d] = job[d] /\ via'[d] = via[d]
      BY <2>5 DEF TypeOK
    <3>2. \/ job'[c] = "send" /\ via'[c] = c
          \/ job'[c] = "joined"
      BY <2>5 DEF TypeOK
    <3>3. \A d \in Conns : Socket(d)'
      BY <2>5, <3>1, <3>2 DEF Sockets, Socket
    <3>4. QED BY <1>0, <1>a, <1>b, <2>5, <3>3 DEF Sockets
  <2>6. ASSUME Finish(c, cur), cur \in Conns
        PROVE  /\ job' = [job EXCEPT ![c] = "joined"] /\ loop' \in {"off", loop}
               /\ loop' = "await" => awaited' = awaited
               /\ work'.on <= used
    <3>1. /\ job' = [job EXCEPT ![c] = "joined"] /\ loop' \in {"off", loop}
          /\ loop' = "await" => awaited' = awaited
          /\ work' = Idle \/ work'.on = cur \/ work' = work
      BY <2>6, FinishGives
    <3>2. QED BY <1>0, <1>b, <3>1
  <2>7. CASE RecvReady(c)
    <3>1. /\ job[c] = "recv" /\ via[c] = c /\ c = cur /\ cur \in Listening /\ recv' = cur
          /\ sock[c] = "open" /\ UNCHANGED <<used, cur, sock, intentional>>
      BY <2>7, CurrentRequest DEF RecvReady
    <3>2. CASE Finish(c, cur) /\ UNCHANGED via
      BY <2>5, <2>6, <3>1, <3>2
    <3>3. CASE Request(c, "send") /\ UNCHANGED <<snap, phase, retry, work, queue>>
      <4>1. job' = [job EXCEPT ![c] = "send"] /\ via' = [via EXCEPT ![c] = cur]
        BY <3>1, <3>3 DEF Request
      <4>2. QED BY <1>b, <2>5, <3>1, <3>3, <4>1 DEF retry
    <3>4. QED BY <2>7, <3>1, <3>2, <3>3 DEF RecvReady
  <2>8. CASE SendReady(c)
    <3>1. /\ job[c] = "send" /\ c = cur /\ sock[c] = "open" /\ recv = cur
          /\ UNCHANGED <<used, cur, recv, via, sock, intentional>>
      BY <2>8, CurrentRequest DEF SendReady, Transports
    <3>2. Finish(c, cur)
      BY <2>8, <3>1 DEF SendReady
    <3>3. QED BY <2>5, <2>6, <3>1, <3>2
  <2>9. CASE SetupFails(c)
    <3>1. /\ job[c] \in Building /\ job' = [job EXCEPT ![c] = "failed"]
          /\ loop' \in {"off", "sleep", "await"}
          /\ \/ loop' = loop /\ awaited' = awaited
             \/ loop = "await" /\ awaited = c /\ loop' # "await"
          /\ strays' = IF sock[c] = "closed" THEN strays ELSE strays + 1
          /\ UNCHANGED <<intentional, used, cur, sock, via, recv, work>>
      BY <2>9, SetupFailsGives DEF remote
    <3>2. sock[c] = "closed"
      BY <3>1 DEF TypeOK, orphaned
    <3>3. \A d \in Conns : job'[d] = IF d = c THEN "failed" ELSE job[d]
      BY <3>1 DEF TypeOK
    <3>4. loop' # loop => c = used /\ \A d \in Conns : sock[d] \notin {"dialing", "open", "lost"}
      BY <3>1, <3>2 DEF Sockets, Socket
    <3>5. loop' # "off" => loop # "off"
      BY <3>1
    <3>6. \A d \in Conns : Socket(d)'
      BY <3>1, <3>2, <3>3, <3>4, <3>5 DEF Sockets, Socket
    <3>7. QED BY <3>1, <3>5, <3>6 DEF Sockets
  <2>10. ASSUME NEW failed \in BOOLEAN, Closed(c, failed)
         PROVE  Sockets'
    <3>1. /\ sock[c] \in {"lost", "dialing"} /\ sock' = [sock EXCEPT ![c] = "closed"]
          /\ job' = [d \in Conns |->
                       IF d \in Requests \/ (d = c /\ failed /\ job[d] = "join")
                       THEN "failed" ELSE job[d]]
          /\ loop' = "await" => loop = "await" /\ awaited' = awaited
          /\ UNCHANGED <<intentional, used, via>>
      BY <2>10, ClosedGives
    <3>2. /\ cur' = cur \/ (cur' = NoConn /\ ~intentional)
          /\ recv' = recv \/ recv' = NoConn
          /\ work' = Idle \/ work' = work \/ Drain(queue, recv, cur)
      BY <2>10, ClosedGives DEF ClearSession
    <3>3. work'.on <= used
      BY <1>0, <1>b, <3>2, WorkStays, EmptyHasNone
    <3>4. c = used /\ \A d \in Conns \ {c} : sock[d] \notin {"dialing", "open", "lost"}
      BY <3>1 DEF Sockets, Socket
    <3>5. \A d \in Conns : sock'[d] = IF d = c THEN "closed" ELSE sock[d]
      BY <3>1 DEF TypeOK
    <3>6. \A d \in Conns : sock'[d] \notin {"dialing", "open", "lost"}
      BY <3>4, <3>5
    <3>7. \A d \in Conns :
            job'[d] = IF d \in Requests \/ (d = c /\ failed /\ job[d] = "join")
                      THEN "failed" ELSE job[d]
      BY <3>1
    <3>8. \A d \in Conns : job[d] # "ice"
      BY <3>1, <3>4 DEF Sockets, Socket
    <3>9. ASSUME NEW d \in Conns, job'[d] = "failed"
          PROVE  sock'[d] = "closed"
      <4>1. CASE d = c
        BY <3>5, <4>1
      <4>2. CASE d # c
        <5>1. job[d] \in {"failed", "unsent", "recv", "send"}
          BY <3>7, <3>9, <4>2 DEF Requests
        <5>2. sock[d] \notin {"none", "dialing", "open", "lost"}
          BY <3>4, <4>2, <5>1 DEF Sockets, Socket
        <5>3. QED BY <3>5, <4>2, <5>2 DEF TypeOK
      <4>3. QED BY <4>1, <4>2
    <3>10. \A d \in Conns : /\ job'[d] \notin {"recv", "send", "ice", "mute"}
                            /\ job'[d] = "device" => job[d] = "device"
      BY <3>7, <3>8 DEF Requests, Sockets, Socket
    <3>11. \A d \in Conns : sock'[d] = "none" => sock[d] = "none" /\ job'[d] = job[d]
      BY <3>4, <3>5, <3>7 DEF Requests, Sockets, Socket
    <3>12. \A d \in Conns : d > used => sock'[d] = "none" /\ job'[d] = "none"
      BY <1>0, <3>4, <3>5, <3>7 DEF Requests, Sockets, Socket
    <3>13. \A d \in Conns : Socket(d)'
      BY <3>1, <3>6, <3>9, <3>10, <3>11, <3>12 DEF Sockets, Socket
    <3>14. QED BY <1>0, <1>a, <1>b, <3>1, <3>2, <3>3, <3>4, <3>13 DEF Sockets
  <2>11. CASE Lose(c)
    <3>1. /\ sock[c] = "open" /\ sock' = [sock EXCEPT ![c] = "lost"]
          /\ UNCHANGED <<used, cur, recv, job, via, loop, awaited, intentional, work>>
      BY <2>11 DEF Lose, page, retry, remote
    <3>2. \A d \in Conns : sock'[d] = IF d = c THEN "lost" ELSE sock[d]
      BY <3>1 DEF TypeOK
    <3>3. \A d \in Conns : Socket(d)'
      BY <3>1, <3>2 DEF Sockets, Socket
    <3>4. QED BY <3>1, <3>3 DEF Sockets
  <2>12. QED
    BY <1>8, <2>1, <2>2, <2>3, <2>4, <2>7, <2>8, <2>9, <2>10, <2>11 DEF ConnStep
<1>9. ASSUME NEW p \in Peers, PeerStep(p)
      PROVE  Sockets'
  <2>1. UNCHANGED <<used, cur, recv, sock, job, via, loop, awaited, intentional>>
    BY <1>9 DEF PeerStep, PeerJoins, PeerShares, PeerStops, PeerLeaves, page, conns, retry
  <2>2. work' = work \/ Enqueue(Announced(p), recv)
    BY <1>9 DEF PeerStep, PeerJoins, PeerShares, PeerStops, PeerLeaves
  <2>3. work' = work \/ work'.on <= used
    BY <2>2, WorkStays, AnnouncedIs
  <2>4. QED BY <1>1, <2>1, <2>3
<1>10. QED
  BY <1>3, <1>4, <1>5, <1>6, <1>7, <1>8, <1>9 DEF Next, PageStep

(***************************************************************************)
(* The transports                                                          *)
(***************************************************************************)
LEMMA TransportsKept ==
  ASSUME TypeOK, QueueRuns, Sockets, Transports, Next, ~orphaned'
  PROVE  Transports'
<1> USE NoConnIsNone
<1>0. /\ used \in Nat /\ used <= MaxConns /\ recv <= used /\ NoConn = 0 /\ Conns = 1..MaxConns
      /\ recv \in Conns \cup {NoConn} /\ cur \in Conns \cup {NoConn} /\ MaxConns \in Nat
  BY EmbedAssumption DEF TypeOK, Sockets, NoConn, Conns
<1>1. ASSUME UNCHANGED <<used, recv, job, intentional>>, phase' = phase \/ phase' # "live"
      PROVE  Transports'
  BY <1>1 DEF Transports
<1>2. ASSUME BeginConnect, recv' = recv, used = 0 \/ loop = "sleep"
      PROVE  Transports'
  <2>1. /\ used' = used + 1 /\ used' \in Conns /\ phase' = "connecting"
        /\ job' = [job EXCEPT ![used + 1] = "ice"] \/ job' = [job EXCEPT ![used + 1] = "join"]
    BY <1>2, BeginConnectGives
  <2>2. \A c \in Conns : c # used + 1 => job'[c] = job[c]
    BY <2>1 DEF TypeOK
  <2>3. \A c \in Conns : job[c] # "send"
    BY <1>0, <1>2 DEF Sockets, Socket
  <2>4. job'[used + 1] # "send"
    BY <2>1 DEF TypeOK
  <2>5. recv # used + 1
    BY <1>0
  <2>6. \A c \in Conns : job'[c] # "send"
    BY <2>2, <2>3, <2>4
  <2>7. recv' # NoConn => job'[recv'] \in {"send", "joined", "failed"}
    BY <1>0, <1>2, <2>2, <2>5 DEF Transports
  <2>8. QED BY <2>1, <2>6, <2>7 DEF Transports
<1>3. CASE AutoJoin
  BY <1>2, <1>3 DEF AutoJoin
<1>4. ~Retry
  BY RetryLeavesAStray
<1>5. CASE SleepOver
  BY <1>1, <1>2, <1>5 DEF SleepOver, SetLoop
<1>6. CASE Leave
  <2>1. CASE cur = NoConn
    BY <1>1, <1>6, <2>1 DEF Leave, conns
  <2>2. CASE cur # NoConn
    BY <1>6, <2>2 DEF Leave, ClearSession, Transports
  <2>3. QED BY <2>1, <2>2
<1>7. CASE ConsumeAnswered \/ ConsumeRefused \/ ConsumeDone
  BY <1>1, <1>7 DEF ConsumeAnswered, ConsumeRefused, ConsumeDone, page, conns
<1>8. ASSUME NEW c \in Conns, ConnStep(c)
      PROVE  Transports'
  <2>0. ASSUME NEW to \in {"join", "device", "recv", "unsent"},
               job[c] \in {"ice", "join", "device"}, job' = [job EXCEPT ![c] = to],
               UNCHANGED <<used, recv, intentional, phase>>
        PROVE  Transports'
    <3>1. \A d \in Conns : job'[d] = IF d = c THEN to ELSE job[d]
      BY <2>0 DEF TypeOK
    <3>2. (phase = "live" => used # c) /\ recv # c
      BY <2>0 DEF Transports
    <3>3. phase = "live" => used \in Conns
      BY <1>0 DEF Transports
    <3>4. QED BY <1>0, <2>0, <3>1, <3>2, <3>3 DEF Transports
  <2>1. CASE GotIceServers(c)
    BY <2>0, <2>1 DEF GotIceServers, page
  <2>2. CASE Opened(c)
    BY <1>1, <2>2, OpenedKeepsJobs DEF Opened, page
  <2>3. CASE Joined(c)
    BY <2>0, <2>3 DEF Joined, page
  <2>4. CASE DeviceLoaded(c)
    BY <2>0, <2>4 DEF DeviceLoaded, Request, page
  <2>5. ASSUME job[c] \in {"recv", "send"}, cur \in Listening
        PROVE  /\ c = used /\ c = cur /\ ~intentional
               /\ \A d \in Conns : job[d] = "send" => d = c
               /\ phase # "live"
    <3>1. c = used /\ cur = used /\ ~intentional
      BY <2>5, OnlyCurrentListens
    <3>2. \A d \in Conns : job[d] = "send" => d = c
      BY <3>1, OnlyCurrentListens
    <3>3. QED BY <2>5, <3>1, <3>2 DEF Transports
  <2>6. ASSUME job[c] \in {"recv", "send"}, cur \in Listening, Finish(c, cur),
               UNCHANGED <<used, intentional>>, recv' = cur
        PROVE  Transports'
    <3>1. job' = [job EXCEPT ![c] = "joined"]
      BY <2>6 DEF Finish
    <3>2. \A d \in Conns : job'[d] = IF d = c THEN "joined" ELSE job[d]
      BY <3>1 DEF TypeOK
    <3>3. c = used /\ c = cur /\ \A d \in Conns : job[d] = "send" => d = c
      BY <2>5, <2>6
    <3>4. QED BY <1>0, <2>6, <3>2, <3>3 DEF Transports
  <2>7. CASE RecvReady(c)
    <3>1. /\ job[c] = "recv" /\ via[c] = cur /\ cur \in Listening /\ recv' = cur
          /\ UNCHANGED <<used, intentional>>
      BY <2>7, CurrentRequest DEF RecvReady
    <3>2. CASE Finish(c, cur)
      BY <2>6, <3>1, <3>2
    <3>3. CASE Request(c, "send") /\ UNCHANGED <<snap, phase, retry, work, queue>>
      <4>1. job' = [job EXCEPT ![c] = "send"] /\ phase' = phase
        BY <3>1, <3>3 DEF Request
      <4>2. \A d \in Conns : job'[d] = IF d = c THEN "send" ELSE job[d]
        BY <4>1 DEF TypeOK
      <4>3. /\ c = cur /\ \A d \in Conns : job[d] = "send" => d = c
            /\ phase # "live"
        BY <2>5, <3>1
      <4>4. QED BY <3>1, <4>1, <4>2, <4>3 DEF Transports
    <3>4. QED BY <2>7, <3>1, <3>2, <3>3 DEF RecvReady
  <2>8. CASE SendReady(c)
    <3>1. /\ job[c] = "send" /\ c = cur /\ cur \in Listening /\ recv = cur
          /\ UNCHANGED <<used, intentional, recv>>
      BY <2>8, CurrentRequest DEF SendReady, Transports
    <3>2. Finish(c, cur)
      BY <2>8, <3>1 DEF SendReady
    <3>3. QED BY <2>6, <3>1, <3>2
  <2>9. CASE SetupFails(c)
    <3>1. /\ job[c] \in Building /\ job' = [job EXCEPT ![c] = "failed"]
          /\ phase' # "live" /\ UNCHANGED <<intentional, used, recv>>
      BY <2>9, SetupFailsGives
    <3>2. \A d \in Conns : job'[d] = IF d = c THEN "failed" ELSE job[d]
      BY <3>1 DEF TypeOK
    <3>3. QED BY <1>0, <3>1, <3>2 DEF Transports
  <2>10. ASSUME NEW failed \in BOOLEAN, Closed(c, failed)
         PROVE  Transports'
    <3>1. /\ job' = [d \in Conns |->
                       IF d \in Requests \/ (d = c /\ failed /\ job[d] = "join")
                       THEN "failed" ELSE job[d]]
          /\ phase' = "live" => phase = "live"
          /\ UNCHANGED <<intentional, used>>
      BY <2>10, ClosedGives
    <3>2. recv' = recv \/ recv' = NoConn
      BY <2>10, ClosedGives DEF ClearSession
    <3>3. \A d \in Conns :
            /\ job'[d] # "send"
            /\ job[d] \in {"send", "joined", "failed"} => job'[d] \in {"joined", "failed"}
            /\ job[d] = "joined" => job'[d] = "joined"
      BY <3>1 DEF Requests
    <3>4. phase = "live" => used \in Conns
      BY <1>0 DEF Transports
    <3>5. QED BY <1>0, <3>1, <3>2, <3>3, <3>4 DEF Transports
  <2>11. CASE Lose(c)
    BY <1>1, <2>11 DEF Lose, page
  <2>12. QED
    BY <1>8, <2>1, <2>2, <2>3, <2>4, <2>7, <2>8, <2>9, <2>10, <2>11 DEF ConnStep
<1>9. ASSUME NEW p \in Peers, PeerStep(p)
      PROVE  Transports'
  BY <1>1, <1>9 DEF PeerStep, PeerJoins, PeerShares, PeerStops, PeerLeaves, page, conns
<1>10. QED
  BY <1>3, <1>4, <1>5, <1>6, <1>7, <1>8, <1>9 DEF Next, PageStep

(***************************************************************************)
(* The queue                                                               *)
(***************************************************************************)
\* Before a connection has its receive transport, nothing is being consumed.
LEMMA NothingInFlight ==
  ASSUME TypeOK, Sockets, Transports, QueueRuns, NEW c \in Conns, c = used,
         job[c] \notin {"send", "joined", "failed"}
  PROVE  work.stage # "consume"
BY DEF Transports, QueueRuns

LEMMA QueueRunsKept ==
  ASSUME TypeOK, QueueRuns, Sockets, Transports, Next, ~orphaned'
  PROVE  QueueRuns'
<1> USE NoConnIsNone, IdleIs
<1>0. /\ used \in Nat /\ work.on \in Nat /\ work.on <= used /\ recv <= used /\ recv \in Nat
      /\ NoConn = 0 /\ queue \in Seq(Peers) /\ work \in Works
      /\ recv \in Conns \cup {NoConn} /\ cur \in Conns \cup {NoConn}
  BY EmbedAssumption DEF TypeOK, Sockets, Works, NoConn, Conns
<1>1. ASSUME UNCHANGED <<used, cur, recv, work, queue>>, intentional => intentional',
             Sharing \subseteq Sharing' \cup unheard', unheard \subseteq unheard'
      PROVE  QueueRuns'
  BY <1>1 DEF QueueRuns
<1>2. ASSUME Drain(queue, recv, cur), UNCHANGED <<used, cur, recv>>
      PROVE  QueueRuns'
  <2>1. \/ work' = Idle /\ queue' = <<>>
        \/ /\ work'.stage = "request" /\ work'.who \in Peers /\ recv # NoConn
           /\ work'.on = IF recv = cur THEN recv ELSE NoConn
    BY <1>0, <1>2, DrainGives
  <2>2. QED BY <1>2, <2>1 DEF QueueRuns
<1>3. ASSUME BeginConnect, ~intentional, UNCHANGED <<recv, work, queue, life, unheard>>,
             work.stage # "consume"
      PROVE  QueueRuns'
  <2>1. UNCHANGED cur \/ cur' = used + 1
    BY <1>3, BeginConnectGives
  <2>2. Sharing' = Sharing
    BY <1>3 DEF Sharing
  <2>3. work.on # used + 1
    BY <1>0
  <2>4. QED BY <1>3, <2>1, <2>2, <2>3 DEF QueueRuns
<1>4. CASE AutoJoin
  <2>1. ~intentional /\ work.stage # "consume"
    BY <1>0, <1>4 DEF AutoJoin, Sockets, QueueRuns
  <2>2. QED BY <1>3, <1>4, <2>1 DEF AutoJoin, remote
<1>5. ~Retry
  BY RetryLeavesAStray
<1>6. CASE SleepOver
  <2>1. CASE intentional
    <3>1. UNCHANGED <<used, cur, recv, work, queue, unheard, life, intentional>>
      BY <1>6, <2>1 DEF SleepOver, remote
    <3>2. QED BY <1>1, <3>1 DEF Sharing
  <2>2. CASE ~intentional
    <3>1. ASSUME work.stage = "consume"
          PROVE  FALSE
      <4>1. loop = "sleep" /\ sock[work.on] # "closed"
        BY <1>6, <3>1 DEF SleepOver
      <4>2. recv \in Conns /\ work.on = recv
        BY <1>0, <3>1 DEF QueueRuns
      <4>3. sock[recv] \notin {"none", "dialing", "open", "lost"}
        BY <1>0, <4>1, <4>2 DEF Transports, Sockets, Socket
      <4>4. QED BY <4>1, <4>2, <4>3 DEF TypeOK
    <3>2. QED BY <1>3, <1>6, <2>2, <3>1 DEF SleepOver, remote
  <2>3. QED BY <2>1, <2>2
<1>7. CASE Leave
  <2>1. CASE cur = NoConn
    <3>1. UNCHANGED <<used, cur, recv, work, queue, unheard, life, intentional>>
      BY <1>7, <2>1 DEF Leave, conns, remote
    <3>2. QED BY <1>1, <3>1 DEF Sharing
  <2>2. CASE cur # NoConn
    <3>1. /\ intentional' = TRUE /\ cur' = NoConn
          /\ IF work.stage = "request" THEN UNCHANGED <<work, queue>>
             ELSE work' = Idle /\ queue' = <<>>
      BY <1>7, <2>2 DEF Leave, ClearSession, GoesOn, QueueRuns
    <3>2. QED BY <3>1 DEF QueueRuns
  <2>3. QED BY <2>1, <2>2
<1>8. CASE ConsumeAnswered
  <2>1. UNCHANGED <<used, cur, recv, life, unheard, intentional>> /\ work.who \in Sharing
        /\ work.stage = "request" /\ work.on \in Listening
    BY <1>8 DEF ConsumeAnswered, page, conns
  <2>c. recv = used
    BY <2>1, OnlyCurrentListens DEF QueueRuns
  <2>2. CASE recv = NoConn
    BY <1>2, <1>8, <2>1, <2>2 DEF ConsumeAnswered
  <2>3. CASE recv # NoConn
    <3>1. work' = [work EXCEPT !.stage = "consume", !.on = recv]
      BY <1>8, <2>3 DEF ConsumeAnswered
    <3>2. work'.stage = "consume" /\ work'.on = recv /\ work'.who = work.who
      BY <1>0, <3>1 DEF Works
    <3>3. Sharing' = Sharing
      BY <2>1 DEF Sharing
    <3>4. QED BY <2>1, <2>c, <2>3, <3>2, <3>3 DEF QueueRuns
  <2>4. QED BY <2>2, <2>3
<1>9. CASE ConsumeRefused \/ ConsumeDone
  BY <1>2, <1>9 DEF ConsumeRefused, ConsumeDone, conns
<1>10. ASSUME NEW c \in Conns, ConnStep(c)
       PROVE  QueueRuns'
  <2>1. CASE GotIceServers(c)
    <3>1. /\ job[c] = "ice" /\ cur' = c
          /\ UNCHANGED <<recv, work, queue, life, unheard, intentional>>
      BY <2>1 DEF GotIceServers, page, remote
    <3>2. c = 1 /\ used = 1 /\ ~intentional
      BY <3>1 DEF Sockets, Socket
    <3>3. recv # c
      BY <3>1 DEF Transports
    <3>4. recv = NoConn
      BY <1>0, <3>2, <3>3
    <3>5. work = Idle /\ queue = <<>>
      BY <1>0, <3>2, <3>4 DEF QueueRuns, Works
    <3>6. QED BY <3>1, <3>5 DEF QueueRuns
  <2>2. CASE Opened(c) \/ Joined(c) \/ Lose(c) \/ DeviceLoaded(c)
    <3>1. UNCHANGED <<used, cur, recv, work, queue, life, unheard, intentional>>
      BY <2>2 DEF Opened, Joined, Lose, DeviceLoaded, page, remote
    <3>2. QED BY <1>1, <3>1 DEF Sharing
  <2>3. ASSUME Finish(c, cur), cur \in Listening, UNCHANGED <<used, cur, life, unheard, intentional>>,
               recv' = cur, work.stage = "consume" => recv = cur
        PROVE  QueueRuns'
    <3>1. cur \in Conns
      BY <2>3 DEF Listening
    <3>2. \/ work' = Idle /\ queue' = <<>>
          \/ /\ work'.stage = "request" /\ work'.who \in Peers /\ work'.on = cur
          \/ work # Idle /\ work' = work
      BY <2>3, <3>1, FinishGives
    <3>3. Sharing' = Sharing
      BY <2>3 DEF Sharing
    <3>4. QED BY <1>0, <2>3, <3>1, <3>2, <3>3 DEF QueueRuns
  <2>4. CASE RecvReady(c)
    <3>1. /\ job[c] = "recv" /\ via[c] = cur /\ cur \in Listening /\ cur \in Conns /\ recv' = cur
          /\ c = used /\ UNCHANGED <<used, cur, life, unheard, intentional>>
      BY <2>4, CurrentRequest DEF RecvReady
    <3>0. work.stage # "consume"
      BY <3>1, NothingInFlight
    <3>2. CASE Finish(c, cur)
      BY <2>3, <3>0, <3>1, <3>2
    <3>3. CASE Request(c, "send") /\ UNCHANGED <<snap, phase, retry, work, queue>>
      <4>1. Sharing' = Sharing
        BY <3>1 DEF Sharing
      <4>2. QED BY <1>0, <3>0, <3>1, <3>3, <4>1 DEF QueueRuns
    <3>4. QED BY <2>4, <3>1, <3>2, <3>3 DEF RecvReady
  <2>5. CASE SendReady(c)
    <3>1. /\ job[c] = "send" /\ c = cur /\ cur \in Listening /\ recv = cur
          /\ UNCHANGED <<used, cur, recv, life, unheard, intentional>>
      BY <2>5, CurrentRequest DEF SendReady, Transports
    <3>2. Finish(c, cur)
      BY <2>5, <3>1 DEF SendReady
    <3>3. QED BY <2>3, <3>1, <3>2
  <2>6. CASE SetupFails(c)
    <3>1. UNCHANGED <<used, cur, recv, work, queue, life, unheard, intentional>>
      BY <2>6 DEF SetupFails, remote
    <3>2. QED BY <1>1, <3>1 DEF Sharing
  <2>7. ASSUME NEW failed \in BOOLEAN, Closed(c, failed)
        PROVE  QueueRuns'
    <3>1. \/ work' = Idle /\ queue' = <<>>
          \/ /\ UNCHANGED <<cur, recv, unheard>>
             /\ Drain(queue, recv, cur) \/ UNCHANGED <<work, queue>>
      BY <2>7, ClosedGives DEF GoesOn, QueueRuns
    <3>2. Sharing' = Sharing /\ UNCHANGED <<used, intentional>>
      BY <2>7, ClosedGives DEF Sharing
    <3>3. CASE work' = Idle /\ queue' = <<>>
      <4>1. cur' = cur \/ cur' = NoConn
        BY <2>7, ClosedGives DEF ClearSession
      <4>2. QED BY <3>3, <4>1 DEF QueueRuns
    <3>4. QED BY <1>1, <1>2, <3>1, <3>2, <3>3
  <2>8. QED
    BY <1>10, <2>1, <2>2, <2>4, <2>5, <2>6, <2>7 DEF ConnStep
<1>11. ASSUME NEW p \in Peers, PeerStep(p)
       PROVE  QueueRuns'
  <2>1. UNCHANGED <<used, cur, recv, intentional>>
    BY <1>11 DEF PeerStep, PeerJoins, PeerShares, PeerStops, PeerLeaves, page, conns
  <2>2. CASE PeerJoins(p)
    <3>1. life' = [life EXCEPT ![p] = "here"] /\ life[p] = "away"
          /\ UNCHANGED <<work, queue, unheard>>
      BY <2>2 DEF PeerJoins, Becomes
    <3>2. Sharing' = Sharing
      BY <3>1 DEF Sharing, TypeOK
    <3>3. QED BY <1>1, <2>1, <3>1, <3>2
  <2>3. CASE PeerShares(p)
    <3>1. /\ life' = [life EXCEPT ![p] = "sharing"] /\ unheard' = unheard
          /\ UNCHANGED <<work, queue>> \/ Enqueue(Announced(p), recv)
      BY <2>3 DEF PeerShares, Becomes
    <3>2. Sharing \subseteq Sharing'
      BY <3>1 DEF Sharing, TypeOK
    <3>3. CASE Enqueue(Announced(p), recv)
      <4>1. \/ work' = Idle /\ queue' = <<>>
            \/ /\ work'.stage = "request" /\ work'.who \in Peers /\ recv # NoConn
               /\ work'.on = IF recv = cur THEN recv ELSE NoConn
            \/ work # Idle /\ work' = work
        BY <1>0, <3>3, AnnouncedIs, EnqueueGives
      <4>2. QED BY <1>0, <2>1, <3>1, <3>2, <4>1 DEF QueueRuns
    <3>4. QED BY <1>1, <2>1, <3>1, <3>2, <3>3
  <2>4. CASE PeerStops(p) \/ PeerLeaves(p)
    <3>1. /\ life' = [life EXCEPT ![p] = "quiet"] \/ life' = [life EXCEPT ![p] = "gone"]
          /\ unheard' = IF Overlooked(p) THEN unheard \cup {p} ELSE unheard
          /\ UNCHANGED <<work, queue>>
      BY <2>4 DEF PeerStops, PeerLeaves, Becomes
    <3>2. \A q \in Sharing : q \in Sharing' \/ q = p
      BY <3>1 DEF Sharing, TypeOK
    <3>3. work.stage = "consume" /\ work.who = p => p \in unheard'
      BY <3>1 DEF Overlooked
    <3>4. QED BY <2>1, <3>1, <3>2, <3>3 DEF QueueRuns
  <2>5. QED BY <1>11, <2>2, <2>3, <2>4 DEF PeerStep
<1>12. QED
  BY <1>4, <1>5, <1>6, <1>7, <1>8, <1>9, <1>10, <1>11 DEF Next, PageStep

(***************************************************************************)
(* What is known of the others                                             *)
(***************************************************************************)
LEMMA PendingIs ==
  ASSUME NEW p
  PROVE  p \in Pending <=> \E d \in Conns : job[d] = "device" /\ p \in snap[d].peers
BY DEF Pending

\* A list waits no longer, or as before.
LEMMA FewerPending ==
  ASSUME \A d \in Conns : job'[d] = "device" => job[d] = "device" /\ snap'[d] = snap[d]
  PROVE  Pending' \subseteq Pending
BY DEF Pending

LEMMA HeardKept ==
  ASSUME TypeOK, QueueRuns, Sockets, Heard, Next, ~orphaned'
  PROVE  Heard'
<1> USE NoConnIsNone, IdleIs
<1>0. used \in Nat /\ work \in Works /\ queue \in Seq(Peers) /\ recv \in Conns \cup {NoConn}
  BY EmbedAssumption DEF TypeOK, Works
<1>1. ASSUME UNCHANGED <<peers, tiles, unheard, life>>, Pending' \subseteq Pending
      PROVE  Heard'
  <2>1. Present' = Present /\ Sharing' = Sharing /\ Shown' = Shown
    BY <1>1 DEF Present, Sharing, Shown
  <2>2. QED BY <1>1, <2>1 DEF Heard
<1>2. ASSUME ClearSession, life' = life, Pending' \subseteq Pending
      PROVE  Heard'
  <2>1. Present' = Present /\ Shown' = {}
    BY <1>2 DEF ClearSession, Present, Shown
  <2>2. peers' = {} /\ unheard' = unheard \cap Pending
    BY <1>2 DEF ClearSession
  <2>3. QED BY <1>2, <2>1, <2>2 DEF Heard
<1>3. ASSUME BeginConnect, UNCHANGED <<peers, tiles, unheard, life, snap>>
      PROVE  Heard'
  <2>1. \/ job' = [job EXCEPT ![used + 1] = "ice"]
        \/ job' = [job EXCEPT ![used + 1] = "join"]
    BY <1>3, BeginConnectGives
  <2>2. \A d \in Conns : job'[d] = "device" => job[d] = "device"
    BY <2>1 DEF TypeOK
  <2>3. Pending' \subseteq Pending
    BY <1>3, <2>2, FewerPending
  <2>4. QED BY <1>1, <1>3, <2>3
<1>4. CASE AutoJoin
  BY <1>3, <1>4 DEF AutoJoin, remote
<1>5. ~Retry
  BY RetryLeavesAStray
<1>6. CASE SleepOver
  <2>1. CASE intentional
    <3>1. UNCHANGED <<peers, tiles, unheard, life, snap, job>>
      BY <1>6, <2>1 DEF SleepOver, remote
    <3>2. Pending' \subseteq Pending
      BY <3>1, FewerPending
    <3>3. QED BY <1>1, <3>1, <3>2
  <2>2. CASE ~intentional
    BY <1>3, <1>6, <2>2 DEF SleepOver, remote
  <2>3. QED BY <2>1, <2>2
<1>7. CASE Leave
  <2>1. UNCHANGED <<job, snap, life>> /\ (ClearSession \/ UNCHANGED <<peers, tiles, unheard>>)
    BY <1>7 DEF Leave, conns, remote
  <2>2. Pending' \subseteq Pending
    BY <2>1, FewerPending
  <2>3. QED BY <1>1, <1>2, <2>1, <2>2
<1>8. CASE ConsumeAnswered \/ ConsumeRefused
  <2>1. UNCHANGED <<job, snap, life, peers, tiles, unheard>>
    BY <1>8 DEF ConsumeAnswered, ConsumeRefused, conns
  <2>2. Pending' \subseteq Pending
    BY <2>1, FewerPending
  <2>3. QED BY <1>1, <2>1, <2>2
<1>9. CASE ConsumeDone
  <2>1. /\ work.stage = "consume" /\ tiles' = [tiles EXCEPT ![work.who] = work.on]
        /\ UNCHANGED <<job, snap, life, peers, unheard>>
    BY <1>9 DEF ConsumeDone, conns
  <2>2. work.who \in Sharing \cup unheard
    BY <2>1 DEF QueueRuns
  <2>3. Pending' \subseteq Pending
    BY <2>1, FewerPending
  <2>4. Shown' \subseteq Shown \cup {work.who}
    BY <2>1 DEF Shown, TypeOK
  <2>5. Present' = Present /\ Sharing' = Sharing
    BY <2>1 DEF Present, Sharing
  <2>6. QED BY <2>1, <2>2, <2>3, <2>4, <2>5 DEF Heard
<1>10. ASSUME NEW c \in Conns, ConnStep(c)
       PROVE  Heard'
  <2>0. ASSUME UNCHANGED <<peers, tiles, unheard, life>>,
               NEW to, to # "device", job' = [job EXCEPT ![c] = to],
               \A d \in Conns \ {c} : snap'[d] = snap[d]
        PROVE  Heard'
    <3>1. \A d \in Conns : job'[d] = "device" => d # c /\ job[d] = "device"
      BY <2>0 DEF TypeOK
    <3>2. Pending' \subseteq Pending
      BY <2>0, <3>1, FewerPending
    <3>3. QED BY <1>1, <2>0, <3>2
  <2>1. CASE GotIceServers(c)
    <3>1. job' = [job EXCEPT ![c] = "join"] /\ UNCHANGED <<snap, peers, tiles, unheard, life>>
      BY <2>1 DEF GotIceServers, remote
    <3>2. QED BY <2>0, <3>1
  <2>2. CASE Opened(c) \/ Lose(c)
    <3>1. UNCHANGED <<job, snap, peers, tiles, unheard, life>>
      BY <2>2, OpenedKeepsJobs DEF Opened, Lose, conns, remote
    <3>2. Pending' \subseteq Pending
      BY <3>1, FewerPending
    <3>3. QED BY <1>1, <3>1, <3>2
  <2>3. CASE Joined(c)
    <3>1. /\ job' = [job EXCEPT ![c] = "device"]
          /\ snap' = [snap EXCEPT ![c] = [peers |-> Present, producers |-> Sharing]]
          /\ UNCHANGED <<peers, tiles, unheard, life>>
      BY <2>3 DEF Joined, remote
    <3>2. \A d \in Conns : /\ d # c => job'[d] = job[d] /\ snap'[d] = snap[d]
                           /\ snap'[c].peers = Present
      BY <3>1 DEF TypeOK
    <3>3. ASSUME NEW p \in Pending'
          PROVE  p \in Pending \cup Present
      <4>1. PICK d \in Conns : job'[d] = "device" /\ p \in snap'[d].peers
        BY <3>3 DEF Pending
      <4>2. CASE d = c
        BY <3>2, <4>1, <4>2
      <4>3. CASE d # c
        BY <3>2, <4>1, <4>3, PendingIs
      <4>4. QED BY <4>2, <4>3
    <3>4. Present' = Present /\ Sharing' = Sharing /\ Shown' = Shown
      BY <3>1 DEF Present, Sharing, Shown
    <3>5. QED BY <3>1, <3>3, <3>4 DEF Heard
  <2>4. CASE DeviceLoaded(c)
    <3>1. /\ job[c] = "device" /\ peers' = peers \cup snap[c].peers
          /\ job' = [job EXCEPT ![c] = IF cur \in Listening THEN "recv" ELSE "unsent"]
          /\ UNCHANGED <<snap, tiles, unheard, life>>
      BY <2>4 DEF DeviceLoaded, Request
    <3>2. snap[c].peers \subseteq Pending
      BY <3>1, PendingIs
    <3>3. \A d \in Conns : job'[d] = "device" => job[d] = "device"
      BY <3>1 DEF TypeOK
    <3>4. Pending' \subseteq Pending
      BY <3>1, <3>3, FewerPending
    <3>5. Present' = Present /\ Sharing' = Sharing /\ Shown' = Shown
      BY <3>1 DEF Present, Sharing, Shown
    <3>6. QED BY <3>1, <3>2, <3>4, <3>5 DEF Heard
  <2>5. ASSUME NEW transport, Finish(c, transport), UNCHANGED <<peers, tiles, unheard, life>>
        PROVE  Heard'
    <3>1. job' = [job EXCEPT ![c] = "joined"] /\ snap' = [snap EXCEPT ![c] = Nobody]
      BY <2>5 DEF Finish
    <3>2. \A d \in Conns \ {c} : snap'[d] = snap[d]
      BY <3>1 DEF TypeOK
    <3>3. QED BY <2>0, <2>5, <3>1, <3>2
  <2>6. CASE RecvReady(c)
    <3>1. CASE Finish(c, via[c])
      BY <2>5, <2>6, <3>1 DEF RecvReady
    <3>2. CASE Request(c, "send") /\ UNCHANGED <<snap, phase, retry, work, queue>>
      <4>1. /\ job' = [job EXCEPT ![c] = IF cur \in Listening THEN "send" ELSE "unsent"]
            /\ UNCHANGED <<snap, peers, tiles, unheard, life>>
        BY <2>6, <3>2 DEF RecvReady, Request
      <4>2. QED BY <2>0, <4>1
    <3>3. QED BY <2>6, <3>1, <3>2 DEF RecvReady
  <2>7. CASE SendReady(c)
    BY <2>5, <2>7 DEF SendReady
  <2>8. CASE SetupFails(c)
    <3>1. /\ job' = [job EXCEPT ![c] = "failed"] /\ snap' = [snap EXCEPT ![c] = Nobody]
          /\ UNCHANGED <<peers, tiles, unheard, life>>
      BY <2>8 DEF SetupFails, remote
    <3>2. \A d \in Conns \ {c} : snap'[d] = snap[d]
      BY <3>1 DEF TypeOK
    <3>3. QED BY <2>0, <3>1, <3>2
  <2>9. ASSUME NEW failed \in BOOLEAN, Closed(c, failed)
        PROVE  Heard'
    <3>1. /\ job' = [d \in Conns |->
                       IF d \in Requests \/ (d = c /\ failed /\ job[d] = "join")
                       THEN "failed" ELSE job[d]]
          /\ snap' = [d \in Conns |-> IF d \in Requests THEN Nobody ELSE snap[d]]
          /\ life' = life
          /\ ClearSession \/ UNCHANGED <<peers, tiles, unheard>>
      BY <2>9, ClosedGives
    <3>2. \A d \in Conns : job'[d] = "device" => job[d] = "device" /\ snap'[d] = snap[d]
      BY <3>1 DEF Requests
    <3>3. Pending' \subseteq Pending
      BY <3>2, FewerPending
    <3>4. QED BY <1>1, <1>2, <3>1, <3>3
  <2>10. QED
    BY <1>10, <2>1, <2>2, <2>3, <2>4, <2>6, <2>7, <2>8, <2>9 DEF ConnStep
<1>11. ASSUME NEW p \in Peers, PeerStep(p)
       PROVE  Heard'
  <2>1. UNCHANGED <<job, snap>>
    BY <1>11 DEF PeerStep, PeerJoins, PeerShares, PeerStops, PeerLeaves, conns
  <2>2. Pending' = Pending
    BY <2>1 DEF Pending
  <2>3. CASE PeerJoins(p)
    <3>1. /\ life' = [life EXCEPT ![p] = "here"] /\ life[p] = "away"
          /\ peers' = peers \/ peers' = peers \cup {p}
          /\ UNCHANGED <<tiles, unheard>>
      BY <2>3 DEF PeerJoins, Becomes
    <3>2. Present' = Present \cup {p} /\ Sharing' = Sharing /\ Shown' = Shown
      BY <3>1 DEF Present, Sharing, Shown, TypeOK
    <3>3. QED BY <2>2, <3>1, <3>2 DEF Heard
  <2>4. CASE PeerShares(p)
    <3>1. /\ life' = [life EXCEPT ![p] = "sharing"] /\ life[p] = "here"
          /\ UNCHANGED <<peers, tiles, unheard>>
      BY <2>4 DEF PeerShares, Becomes
    <3>2. Present' = Present /\ Sharing' = Sharing \cup {p} /\ Shown' = Shown
      BY <3>1 DEF Present, Sharing, Shown, TypeOK
    <3>3. QED BY <2>2, <3>1, <3>2 DEF Heard
  <2>5. CASE PeerStops(p) \/ PeerLeaves(p)
    <3>1. /\ tiles' = RemoveProducer(p)
          /\ unheard' = IF Overlooked(p) THEN unheard \cup {p} ELSE unheard
      BY <2>5 DEF PeerStops, PeerLeaves
    <3>2. /\ Sharing' = Sharing \ {p}
          /\ Present' \subseteq Present /\ Present \ {p} \subseteq Present'
      BY <2>5 DEF PeerStops, PeerLeaves, Becomes, Sharing, Present, TypeOK
    <3>3. /\ peers' \subseteq peers
          /\ p \in Present' \/ peers' = IF Listening = {} THEN peers ELSE peers \ {p}
      <4>1. CASE PeerStops(p)
        BY <4>1 DEF PeerStops, Becomes, Present, TypeOK
      <4>2. CASE PeerLeaves(p)
        BY <4>2 DEF PeerLeaves, RemovePeer
      <4>3. QED BY <2>5, <4>1, <4>2
    <3>4. Shown' = IF Listening = {} THEN Shown ELSE Shown \ {p}
      BY <3>1 DEF RemoveProducer, Shown, TypeOK
    <3>5. p \in Pending \/ (Listening = {} /\ p \in peers \cup Shown) => p \in unheard'
      BY <3>1 DEF Overlooked, Shown
    <3>6. unheard \subseteq unheard'
      BY <3>1
    <3>7. QED BY <2>2, <3>2, <3>3, <3>4, <3>5, <3>6 DEF Heard
  <2>6. QED BY <1>11, <2>3, <2>4, <2>5 DEF PeerStep
<1>12. QED
  BY <1>4, <1>5, <1>6, <1>7, <1>8, <1>9, <1>10, <1>11 DEF Next, PageStep

(***************************************************************************)
(* The picture                                                             *)
(***************************************************************************)
LEMMA PictureKept ==
  ASSUME TypeOK, QueueRuns, Sockets, Transports, Heard, Picture, Next, ~orphaned'
  PROVE  Picture'
<1> USE NoConnIsNone, IdleIs
<1>0. /\ used \in Nat /\ work \in Works /\ queue \in Seq(Peers)
      /\ recv \in Conns \cup {NoConn} /\ cur \in Conns \cup {NoConn} /\ cur <= used
      /\ Sharing \subseteq Peers /\ NoPeer \notin Peers /\ Queued = Elements(queue)
  BY EmbedAssumption DEF TypeOK, Sockets, Works, Sharing, Queued, Elements
<1>1. ASSUME UNCHANGED <<cur, recv, peers, tiles, work, queue, missed, unheard, life>>,
             cur' \in Listening' =>
               cur \in Listening /\ job'[cur] = job[cur] /\ snap'[cur] = snap[cur]
      PROVE  Picture'
  <2>1. Present' = Present /\ Sharing' = Sharing /\ Shown' = Shown /\ Waiting' = Waiting
        /\ Queued' = Queued
    BY <1>1 DEF Present, Sharing, Shown, Waiting, Queued
  <2>2. cur' \in Listening' => Listed("producers")' = Listed("producers")
    BY <1>1 DEF Listed
  <2>3. QED BY <1>1, <2>1, <2>2 DEF Picture
<1>2. ASSUME cur' \notin Listening'
      PROVE  Picture'
  BY <1>2 DEF Picture
<1>3. cur \in Listening =>
        /\ ~intentional /\ cur \in Conns /\ cur = used /\ sock[cur] = "open"
        /\ Listening = {cur} /\ job[cur] # "failed"
  BY OnlyCurrentListens DEF Sockets, Socket
\* The queue goes on: nothing that waits behind the run is dropped.
<1>4. ASSUME cur \in Listening, work.stage # "none", Drain(queue, recv, cur)
      PROVE  /\ Queued \subseteq Waiting'
             /\ Waiting \subseteq Waiting' \cup {work.who}
  <2>1. recv # NoConn
    BY <1>3, <1>4 DEF QueueRuns
  <2>2. \/ work' = Idle /\ queue = <<>>
        \/ /\ work'.stage = "request"
           /\ Elements(queue) = {work'.who} \cup Elements(queue')
    BY <1>0, <1>4, <2>1, DrainGives
  <2>3. Queued' = Elements(queue')
    BY DEF Queued, Elements
  <2>4. Queued \subseteq Waiting'
    BY <1>0, <2>2, <2>3, EmptyHasNone DEF Waiting
  <2>5. QED BY <2>4 DEF Waiting
<1>5. ASSUME BeginConnect
      PROVE  Picture'
  <2>1. CASE used = 0
    <3>1. cur' = cur
      BY <1>5, <2>1, BeginConnectGives
    <3>2. cur = NoConn
      BY <1>0, <2>1 DEF NoConn, Conns
    <3>3. QED BY <1>2, <3>1, <3>2 DEF Listening
  <2>2. CASE used # 0
    <3>1. sock' = [sock EXCEPT ![used + 1] = "dialing"] /\ cur' = used + 1 /\ used + 1 \in Conns
      BY <1>5, <2>2, BeginConnectGives
    <3>2. sock'[cur'] # "open"
      BY <3>1 DEF TypeOK
    <3>3. QED BY <1>2, <3>2 DEF Listening
  <2>3. QED BY <2>1, <2>2
<1>6. CASE AutoJoin
  BY <1>5, <1>6 DEF AutoJoin
<1>7. ~Retry
  BY RetryLeavesAStray
<1>8. CASE SleepOver
  <2>1. CASE intentional
    <3>1. UNCHANGED <<cur, recv, peers, tiles, work, queue, missed, unheard, life, job, snap, sock>>
      BY <1>8, <2>1 DEF SleepOver, remote
    <3>2. QED BY <1>1, <3>1 DEF Listening
  <2>2. CASE ~intentional
    BY <1>5, <1>8, <2>2 DEF SleepOver
  <2>3. QED BY <2>1, <2>2
<1>9. CASE Leave
  <2>1. CASE cur = NoConn
    <3>1. UNCHANGED <<cur, recv, peers, tiles, work, queue, missed, unheard, life, job, snap, sock>>
      BY <1>9, <2>1 DEF Leave, conns, remote
    <3>2. QED BY <1>1, <3>1 DEF Listening
  <2>2. CASE cur # NoConn
    BY <1>2, <1>9, <2>2 DEF Leave, ClearSession, Listening
  <2>3. QED BY <2>1, <2>2
<1>10. CASE ConsumeAnswered
  <2>1. /\ work.stage = "request" /\ work.on \in Listening
        /\ UNCHANGED <<cur, recv, peers, tiles, missed, unheard, life, job, snap, sock>>
    BY <1>10 DEF ConsumeAnswered, conns
  <2>2. work.on = cur /\ cur \in Listening /\ recv = cur
    BY <2>1, OnlyCurrentListens DEF QueueRuns
  <2>3. job[cur] \in {"send", "joined"}
    BY <1>3, <2>2 DEF Transports
  <2>4. work' = [work EXCEPT !.stage = "consume", !.on = recv] /\ queue' = queue
    BY <1>3, <1>10, <2>2 DEF ConsumeAnswered
  <2>5. work'.stage = "consume" /\ work'.on = recv /\ work'.who = work.who
    BY <1>0, <2>4 DEF Works
  <2>6. /\ Present' = Present /\ Sharing' = Sharing /\ Shown' = Shown
        /\ Queued' = Queued /\ Waiting' = Waiting /\ Listed("producers")' = Listed("producers")
    BY <2>1, <2>4, <2>5 DEF Present, Sharing, Shown, Queued, Waiting, Listed
  <2>7. Listening' = Listening
    BY <2>1 DEF Listening
  <2>8. QED BY <2>1, <2>2, <2>6, <2>7 DEF Picture
<1>11. CASE ConsumeRefused
  <2>1. /\ work.stage # "none" /\ missed' = missed \cup {work.who} /\ Drain(queue, recv, cur)
        /\ UNCHANGED <<cur, recv, peers, tiles, unheard, life, job, snap, sock>>
    BY <1>11 DEF ConsumeRefused, conns
  <2>2. /\ Present' = Present /\ Sharing' = Sharing /\ Shown' = Shown
        /\ Listed("producers")' = Listed("producers") /\ Listening' = Listening
    BY <2>1 DEF Present, Sharing, Shown, Listed, Listening
  <2>3. cur \in Listening => Waiting \subseteq Waiting' \cup missed'
    BY <1>4, <2>1
  <2>4. QED BY <2>1, <2>2, <2>3 DEF Picture
<1>12. CASE ConsumeDone
  <2>1. /\ work.stage = "consume" /\ tiles' = [tiles EXCEPT ![work.who] = work.on]
        /\ Drain(queue, recv, cur)
        /\ UNCHANGED <<cur, recv, peers, missed, unheard, life, job, snap, sock>>
    BY <1>12 DEF ConsumeDone, conns
  <2>2. /\ Present' = Present /\ Sharing' = Sharing
        /\ Listed("producers")' = Listed("producers") /\ Listening' = Listening
    BY <2>1 DEF Present, Sharing, Listed, Listening
  <2>3. work.on # NoConn /\ work.on = recv /\ recv = used /\ work.who \in Peers
    BY <2>1 DEF QueueRuns, TypeOK
  <2>c. cur \in Listening => job[cur] \in {"send", "joined"}
    BY <1>3, <2>3 DEF Transports
  <2>4. \A p \in Peers : tiles'[p] = IF p = work.who THEN work.on ELSE tiles[p]
    BY <2>1 DEF TypeOK
  <2>5. Shown' = Shown \cup {work.who}
    BY <2>3, <2>4 DEF Shown
  <2>6. cur \in Listening => /\ Queued \subseteq Waiting'
                             /\ Waiting \subseteq Waiting' \cup {work.who}
    BY <1>4, <2>1
  <2>7. ASSUME cur \in Listening, job[cur] \in {"send", "joined"}, NEW p \in Shown'
        PROVE  tiles'[p] = recv \/ p \in missed \cup unheard \cup Waiting' \cup Listed("producers")
    <3>1. CASE p = work.who
      BY <2>1, <2>3, <2>4, <2>6, <2>7, <3>1 DEF Picture
    <3>2. CASE p # work.who
      <4>1. p \in Shown /\ tiles'[p] = tiles[p]
        BY <2>4, <2>5, <2>7, <3>2 DEF Shown
      <4>2. QED BY <2>6, <2>7, <3>2, <4>1 DEF Picture
    <3>3. QED BY <3>1, <3>2
  <2>8. QED BY <2>1, <2>2, <2>c, <2>5, <2>6, <2>7 DEF Picture
<1>13. ASSUME NEW c \in Conns, ConnStep(c)
       PROVE  Picture'
  <2>1. CASE GotIceServers(c)
    <3>1. cur' = c /\ sock' = [sock EXCEPT ![c] = "dialing"]
      BY <2>1 DEF GotIceServers
    <3>2. sock'[c] # "open"
      BY <3>1 DEF TypeOK
    <3>3. QED BY <1>2, <3>1, <3>2 DEF Listening
  <2>2. CASE Opened(c)
    <3>1. sock[c] = "dialing" /\ UNCHANGED <<cur, job>>
      BY <2>2, OpenedKeepsJobs DEF Opened
    <3>2. job[c] = "join" /\ cur = c
      BY <3>1 DEF Sockets, Socket
    <3>3. QED BY <1>2, <3>1, <3>2 DEF Listening, Building
  <2>3. CASE Joined(c)
    <3>1. /\ sock[c] = "open" /\ job' = [job EXCEPT ![c] = "device"]
          /\ snap' = [snap EXCEPT ![c] = [peers |-> Present, producers |-> Sharing]]
          /\ UNCHANGED <<cur, recv, peers, tiles, work, queue, missed, unheard, life>>
      BY <2>3 DEF Joined, remote
    <3>2. cur = c
      BY <3>1 DEF Sockets, Socket
    <3>3. job'[c] = "device" /\ snap'[c].peers = Present /\ snap'[c].producers = Sharing
      BY <3>1 DEF TypeOK
    <3>4. Listed("producers")' = Sharing
      BY <3>1, <3>2, <3>3 DEF Listed, Building
    <3>5. Present' = Present /\ Sharing' = Sharing /\ Shown' = Shown
      BY <3>1 DEF Present, Sharing, Shown
    <3>6. Shown \subseteq Sharing \cup unheard
      BY DEF Heard
    <3>7. QED BY <3>1, <3>2, <3>3, <3>4, <3>5, <3>6 DEF Picture
  <2>4. CASE DeviceLoaded(c)
    <3>1. /\ job[c] = "device" /\ peers' = peers \cup snap[c].peers
          /\ job' = [job EXCEPT ![c] = IF cur \in Listening THEN "recv" ELSE "unsent"]
          /\ UNCHANGED <<cur, recv, sock, snap, tiles, work, queue, missed, unheard, life>>
      BY <2>4 DEF DeviceLoaded, Request
    <3>2. /\ Present' = Present /\ Sharing' = Sharing /\ Shown' = Shown
          /\ Waiting' = Waiting
      BY <3>1 DEF Present, Sharing, Shown, Waiting, Queued
    <3>3. \A d \in Conns : job'[d] = IF d # c THEN job[d]
                                     ELSE IF cur \in Listening THEN "recv" ELSE "unsent"
      BY <3>1 DEF TypeOK
    <3>4. cur \in Listening' => cur \in Listening
      BY <3>1, <3>3 DEF Listening, Building
    <3>5. cur \in Listening => cur = c
      BY <1>3, <3>1 DEF Sockets, Socket
    <3>6. cur \in Listening => Listed("producers")' = Listed("producers") /\ job'[cur] = "recv"
      BY <1>3, <3>1, <3>3, <3>5 DEF Listed, Building
    <3>7. QED BY <3>1, <3>2, <3>4, <3>5, <3>6 DEF Picture
  <2>5. ASSUME cur \in Listening, job[c] \in {"recv", "send"}, Finish(c, cur), recv' = cur,
               UNCHANGED <<cur, sock, peers, tiles, missed, unheard, life>>,
               job[c] = "send" => recv = cur
        PROVE  Picture'
    <3>1. cur = c /\ c \in Conns /\ cur \in Conns
      BY <1>3, <2>5, OnlyCurrentListens
    <3>2. /\ job' = [job EXCEPT ![c] = "joined"]
          /\ \/ /\ work = Idle /\ work' = Idle /\ queue' = <<>> /\ snap[c].producers = {}
             \/ /\ work = Idle /\ work'.stage = "request"
                /\ snap[c].producers = {work'.who} \cup Elements(queue')
             \/ /\ work # Idle /\ work' = work
                /\ Elements(queue') = Elements(queue) \cup snap[c].producers
      BY <2>5, <3>1, FinishGives
    <3>3. Queued' = Elements(queue')
      BY DEF Queued, Elements
    <3>4. job'[c] = "joined"
      BY <3>2 DEF TypeOK
    <3>5. Listed("producers") = snap[c].producers
      BY <2>5, <3>1 DEF Listed, Building
    <3>6. work = Idle => Queued = {} /\ Waiting = {NoPeer}
      BY <1>0, EmptyHasNone DEF QueueRuns, Waiting
    <3>7. /\ Waiting \subseteq Waiting' \cup {NoPeer}
          /\ Listed("producers") \subseteq Waiting'
      BY <1>0, <3>2, <3>3, <3>5, <3>6 DEF Waiting
    <3>8. Present' = Present /\ Sharing' = Sharing /\ Shown' = Shown
      BY <2>5 DEF Present, Sharing, Shown
    <3>9. Sharing \subseteq Shown \cup missed \cup Waiting'
      BY <1>0, <2>5, <3>7 DEF Picture
    <3>10. Present \subseteq peers
      BY <2>5, <3>1 DEF Picture
    <3>11. \A p \in Shown : tiles[p] = cur \/ p \in missed \cup unheard \cup Waiting'
      <4>1. CASE job[c] = "recv"
        <5>1. Shown \subseteq unheard \cup Listed("producers")
          BY <2>5, <3>1, <4>1 DEF Picture
        <5>2. QED BY <3>7, <5>1
      <4>2. CASE job[c] = "send"
        <5>1. \A p \in Shown :
                tiles[p] = cur \/ p \in missed \cup unheard \cup Waiting \cup Listed("producers")
          BY <2>5, <3>1, <4>2 DEF Picture
        <5>2. NoPeer \notin Shown
          BY <1>0 DEF Shown
        <5>3. QED BY <3>7, <5>1, <5>2
      <4>3. QED BY <2>5, <4>1, <4>2
    <3>12. QED BY <2>5, <3>1, <3>4, <3>8, <3>9, <3>10, <3>11 DEF Picture
  <2>6. CASE RecvReady(c)
    <3>1. /\ cur \in Listening /\ job[c] = "recv" /\ recv' = cur /\ cur = c /\ via[c] = cur
          /\ UNCHANGED <<cur, sock, peers, tiles, missed, unheard, life>>
      BY <2>6, CurrentRequest DEF RecvReady
    <3>2. CASE Finish(c, cur)
      BY <2>5, <3>1, <3>2
    <3>3. CASE Request(c, "send") /\ UNCHANGED <<snap, phase, retry, work, queue>>
      <4>1. job' = [job EXCEPT ![c] = "send"] /\ UNCHANGED <<snap, work, queue>>
        BY <3>1, <3>3 DEF Request
      <4>2. job'[c] = "send"
        BY <4>1 DEF TypeOK
      <4>3. /\ Present' = Present /\ Sharing' = Sharing /\ Shown' = Shown
            /\ Waiting' = Waiting
            /\ Listed("producers")' = Listed("producers")
        BY <3>1, <4>1, <4>2 DEF Present, Sharing, Shown, Waiting, Queued, Listed, Building
      <4>4. QED BY <3>1, <4>1, <4>2, <4>3 DEF Picture
    <3>4. QED BY <2>6, <3>1, <3>2, <3>3 DEF RecvReady
  <2>7. CASE SendReady(c)
    <3>1. /\ cur \in Listening /\ job[c] = "send" /\ c = cur /\ recv = cur
          /\ UNCHANGED <<cur, recv, sock, peers, tiles, missed, unheard, life>>
      BY <2>7, CurrentRequest DEF SendReady, Transports
    <3>2. Finish(c, cur)
      BY <2>7, <3>1 DEF SendReady
    <3>3. QED BY <2>5, <3>1, <3>2
  <2>8. CASE SetupFails(c)
    <3>1. /\ sock[c] = "closed" /\ job' = [job EXCEPT ![c] = "failed"]
          /\ snap' = [snap EXCEPT ![c] = Nobody]
          /\ UNCHANGED <<cur, recv, sock, remote, life>>
      BY <2>8, SetupFailsGives DEF TypeOK, orphaned
    <3>2. \A d \in Conns \ {c} : job'[d] = job[d] /\ snap'[d] = snap[d]
      BY <3>1 DEF TypeOK
    <3>3. cur' \in Listening' => cur # c /\ cur \in Conns /\ cur \in Listening
      BY <3>1, <3>2 DEF Listening
    <3>4. QED BY <1>1, <3>1, <3>2, <3>3 DEF remote
  <2>9. ASSUME NEW failed \in BOOLEAN, Closed(c, failed)
        PROVE  Picture'
    <3>1. /\ sock[c] \in {"lost", "dialing"} /\ sock' = [sock EXCEPT ![c] = "closed"]
          /\ cur' = cur \/ cur' = NoConn
      BY <2>9, ClosedGives DEF ClearSession
    <3>2. c = used
      BY <3>1 DEF Sockets, Socket
    <3>3. \A d \in Conns : sock'[d] = "open" => sock[d] = "open" /\ d # c
      BY <3>1 DEF TypeOK
    <3>4. \A d \in Conns : sock[d] = "open" => d = used
      BY DEF Sockets, Socket
    <3>5. QED BY <1>2, <3>2, <3>3, <3>4 DEF Listening
  <2>10. CASE Lose(c)
    <3>1. sock[c] = "open" /\ sock' = [sock EXCEPT ![c] = "lost"] /\ cur' = cur
      BY <2>10 DEF Lose
    <3>2. cur = c /\ sock'[c] = "lost"
      BY <3>1 DEF Sockets, Socket, TypeOK
    <3>3. QED BY <1>2, <3>1, <3>2 DEF Listening
  <2>11. QED
    BY <1>13, <2>1, <2>2, <2>3, <2>4, <2>6, <2>7, <2>8, <2>9, <2>10 DEF ConnStep
<1>14. ASSUME NEW p \in Peers, PeerStep(p)
       PROVE  Picture'
  <2>1. UNCHANGED <<cur, recv, job, snap, sock>>
    BY <1>14 DEF PeerStep, PeerJoins, PeerShares, PeerStops, PeerLeaves, conns
  <2>2. Listening' = Listening /\ Listed("producers")' = Listed("producers")
    BY <2>1 DEF Listening, Listed
  <2>3. CASE cur \notin Listening
    BY <1>2, <2>1, <2>2, <2>3
  <2>4. CASE PeerJoins(p) /\ cur \in Listening
    <3>1. /\ life' = [life EXCEPT ![p] = "here"] /\ life[p] = "away"
          /\ peers' = peers \cup {p} /\ UNCHANGED <<tiles, work, queue, missed, unheard>>
      BY <2>4 DEF PeerJoins, Becomes
    <3>2. Present' = Present \cup {p} /\ Sharing' = Sharing /\ Shown' = Shown
      BY <3>1 DEF Present, Sharing, Shown, TypeOK
    <3>3. Waiting' = Waiting /\ Queued' = Queued
      BY <3>1 DEF Waiting, Queued
    <3>4. QED BY <2>1, <2>2, <3>1, <3>2, <3>3 DEF Picture
  <2>5. CASE PeerShares(p) /\ cur \in Listening
    <3>1. /\ life' = [life EXCEPT ![p] = "sharing"] /\ life[p] = "here"
          /\ missed' = IF recv = NoConn THEN missed \cup {p} ELSE missed
          /\ Enqueue(Announced(p), recv) /\ UNCHANGED <<peers, tiles, unheard>>
      BY <2>5 DEF PeerShares, Becomes
    <3>2. Present' = Present /\ Sharing' = Sharing \cup {p} /\ Shown' = Shown
      BY <3>1 DEF Present, Sharing, Shown, TypeOK
    <3>3. Announced(p) \in Seq(Peers) /\ Elements(Announced(p)) = {p}
      BY <2>5, AnnouncedIs
    <3>4. \/ work = Idle /\ work' = Idle /\ (recv = NoConn \/ Elements(Announced(p)) = {})
          \/ /\ work = Idle /\ work'.stage = "request"
             /\ Elements(Announced(p)) = {work'.who} \cup Elements(queue')
          \/ /\ work # Idle /\ work' = work
             /\ Elements(queue') = Elements(queue) \cup Elements(Announced(p))
      BY <1>0, <3>1, <3>3, EnqueueGives
    <3>5. work = Idle => Waiting = {NoPeer}
      BY <1>0, EmptyHasNone DEF QueueRuns, Waiting
    <3>6. Queued' = Elements(queue')
      BY DEF Queued, Elements
    <3>7. /\ Waiting \subseteq Waiting' \cup {NoPeer} /\ p \in Waiting' \cup missed'
      BY <1>0, <3>1, <3>3, <3>4, <3>5, <3>6 DEF Waiting
    <3>8. NoPeer \notin Sharing /\ NoPeer \notin Shown /\ missed \subseteq missed'
      BY <1>0, <3>1 DEF Shown
    <3>9. Picture /\ cur \in Listening
      BY <2>5
    <3>10. Sharing' \subseteq Shown' \cup missed' \cup Waiting' \cup Listed("producers")'
      BY <2>2, <3>2, <3>7, <3>8, <3>9 DEF Picture
    <3>11. Present' \subseteq peers' \cup (IF job'[cur] = "device" THEN snap'[cur].peers ELSE {})
      BY <2>1, <3>1, <3>2, <3>9 DEF Picture
    <3>12. job'[cur] \in {"device", "unsent", "recv"} =>
             Shown' \subseteq unheard' \cup Listed("producers")'
      BY <2>1, <2>2, <3>1, <3>2, <3>7, <3>9 DEF Picture
    <3>13. job'[cur] \in {"send", "joined"} =>
             \A q \in Shown' :
               tiles'[q] = recv' \/ q \in missed' \cup unheard' \cup Waiting' \cup Listed("producers")'
      BY <2>1, <2>2, <3>1, <3>2, <3>7, <3>8, <3>9 DEF Picture
    <3>14. QED BY <2>1, <3>10, <3>11, <3>12, <3>13 DEF Picture
  <2>6. CASE (PeerStops(p) \/ PeerLeaves(p)) /\ cur \in Listening
    <3>1. /\ tiles' = [tiles EXCEPT ![p] = NoConn] /\ unheard \subseteq unheard'
          /\ UNCHANGED <<work, queue, missed>>
      BY <2>6 DEF PeerStops, PeerLeaves, RemoveProducer
    <3>2. Sharing' = Sharing \ {p}
      BY <2>6 DEF PeerStops, PeerLeaves, Becomes, Sharing, TypeOK
    <3>3. /\ Present' \subseteq Present /\ peers \ {p} \subseteq peers'
          /\ p \notin Present' \/ peers' = peers
      BY <2>6 DEF PeerStops, PeerLeaves, RemovePeer, Becomes, Present, TypeOK
    <3>4. Shown' = Shown \ {p} /\ \A q \in Shown' : tiles'[q] = tiles[q]
      BY <3>1 DEF Shown, TypeOK
    <3>5. Waiting' = Waiting /\ Queued' = Queued
      BY <3>1 DEF Waiting, Queued
    <3>6. QED BY <2>1, <2>2, <2>6, <3>1, <3>2, <3>3, <3>4, <3>5 DEF Picture
  <2>7. QED BY <1>14, <2>3, <2>4, <2>5, <2>6 DEF PeerStep
<1>15. QED
  BY <1>6, <1>7, <1>8, <1>9, <1>10, <1>11, <1>12, <1>13, <1>14 DEF Next, PageStep

(***************************************************************************)
(* How many connections there are                                          *)
(***************************************************************************)
LEMMA HeldIsFinite == IsFiniteSet(Held) /\ Cardinality(Held) \in Nat
<1>1. IsFiniteSet(Conns)
  BY EmbedAssumption, FS_Interval DEF Conns
<1>2. Held \subseteq Conns
  BY DEF Held
<1>3. QED BY <1>1, <1>2, FS_Subset, FS_CardinalityType

LEMMA OneMore ==
  ASSUME NEW S, NEW T, IsFiniteSet(S), NEW c, T \subseteq S \cup {c}
  PROVE  Cardinality(T) \in Nat /\ Cardinality(T) <= Cardinality(S) + 1
<1>1. IsFiniteSet(S \cup {c}) /\ Cardinality(S \cup {c}) \in Nat
      /\ Cardinality(S \cup {c}) <= Cardinality(S) + 1
  BY FS_AddElement, FS_CardinalityType
<1>2. Cardinality(S) \in Nat
  BY FS_CardinalityType
<1>3. IsFiniteSet(T) /\ Cardinality(T) <= Cardinality(S \cup {c})
  BY <1>1, FS_Subset
<1>4. QED BY <1>1, <1>2, <1>3, FS_CardinalityType

LEMMA OneLess ==
  ASSUME NEW S, NEW T, IsFiniteSet(S), NEW c \in S, T \subseteq S \ {c}
  PROVE  Cardinality(T) \in Nat /\ Cardinality(T) <= Cardinality(S) - 1
<1>1. IsFiniteSet(S \ {c}) /\ Cardinality(S \ {c}) = Cardinality(S) - 1
  BY FS_RemoveElement
<1>2. IsFiniteSet(T) /\ Cardinality(T) <= Cardinality(S \ {c})
  BY <1>1, FS_Subset
<1>3. QED BY <1>1, <1>2, FS_CardinalityType

\* Of the count before (h and c) and after (i and d), where s becomes t.
LEMMA SumAfterStep ==
  ASSUME NEW s \in Nat, NEW t \in Nat, NEW c \in Nat, NEW d \in Nat, NEW h \in Nat, NEW i \in Nat,
         h + c <= 1 + s, i <= h, d <= c + (t - s)
  PROVE  i + d <= 1 + t
OBVIOUS

LEMMA SumAfterConnect ==
  ASSUME NEW s \in Nat, NEW t \in Nat, NEW c \in {0, 1}, NEW d \in {0, 1},
         NEW h \in Nat, NEW i \in Nat, h + c <= 1 + s, i <= h + 1,
         (c = 1 /\ d = 0 /\ t = s) \/ (t = s + 1 /\ (d = 1 => c = 1))
  PROVE  i + d <= 1 + t
OBVIOUS

LEMMA CountedKept ==
  ASSUME TypeOK, TypeOK', Counted, Next
  PROVE  Counted'
<1> USE NoConnIsNone
<1>0. /\ used \in Nat /\ strays \in Nat /\ strays' \in Nat
      /\ Claim \in {0, 1} /\ Claim' \in {0, 1} /\ Claim \in Nat /\ Claim' \in Nat
      /\ IsFiniteSet(Held) /\ Cardinality(Held) \in Nat /\ Cardinality(Held) + Claim <= 1 + strays
      /\ 0 \notin Conns /\ Conns \subseteq Nat
  BY EmbedAssumption, HeldIsFinite DEF TypeOK, Claim, Conns, Counted
\* Nothing new is held, and the loop claims nothing new.
<1>1. ASSUME \A c \in Conns : /\ sock'[c] \in {"dialing", "open", "lost"} => c \in Held
                              /\ job'[c] = "ice" => job[c] = "ice" /\ sock'[c] = sock[c]
                              /\ sock[c] = "none" => sock'[c] = "none" \/ job[c] = "ice",
             used' = used, loop' # "off" => loop # "off", loop' = "await" => awaited' \in Conns,
             Claim' <= Claim + (strays' - strays)
      PROVE  Counted'
  <2>1. Held' \subseteq Held
    BY <1>1 DEF Held
  <2>2. Cardinality(Held') \in Nat /\ Cardinality(Held') <= Cardinality(Held)
    BY <1>0, <2>1, FS_Subset, FS_CardinalityType
  <2>3. Cardinality(Held') + Claim' <= 1 + strays'
    <3>1. Claim' <= Claim + (strays' - strays)
      BY <1>1
    <3>2. QED BY <1>0, <2>2, <3>1, SumAfterStep
  <2>4. QED BY <1>1, <2>3 DEF Counted
\* A connect() begins: it takes the place of a claim, or there was nothing, or it
\* is a stray.
<1>2. ASSUME BeginConnect, loop' # "off" => used = 0 \/ loop # "off", loop' = "await" => awaited' \in Conns,
             \/ (Claim = 1 /\ Claim' = 0 /\ strays' = strays)
             \/ (strays' = strays + 1 /\ (Claim' = 1 => Claim = 1))
             \/ (used = 0 /\ Claim' = 0 /\ strays' = strays)
      PROVE  Counted'
  <2>1. /\ used' = used + 1 /\ used' \in Conns
        /\ \/ used = 0 /\ job' = [job EXCEPT ![used + 1] = "ice"] /\ UNCHANGED <<cur, sock>>
           \/ /\ used > 0 /\ job' = [job EXCEPT ![used + 1] = "join"]
              /\ sock' = [sock EXCEPT ![used + 1] = "dialing"] /\ cur' = used + 1
    BY <1>2, BeginConnectGives
  <2>2. \A c \in Conns : c # used + 1 => job'[c] = job[c] /\ sock'[c] = sock[c]
    BY <2>1 DEF TypeOK
  <2>3. Held' \subseteq Held \cup {used + 1}
    BY <2>2 DEF Held
  <2>4. Cardinality(Held') \in Nat /\ Cardinality(Held') <= Cardinality(Held) + 1
    BY <1>0, <2>3, OneMore
  <2>5. used = 0 => Held = {}
    BY <1>0 DEF Counted, Held, Conns
  <2>6. Cardinality(Held') + Claim' <= 1 + strays'
    <3>1. CASE \/ Claim = 1 /\ Claim' = 0 /\ strays' = strays
               \/ strays' = strays + 1 /\ (Claim' = 1 => Claim = 1)
      BY <1>0, <2>4, <3>1, SumAfterConnect
    <3>2. CASE used = 0 /\ Claim' = 0 /\ strays' = strays
      BY <1>0, <2>4, <2>5, <3>2, FS_EmptySet
    <3>3. QED BY <1>2, <3>1, <3>2
  <2>7. \A c \in Conns : c > used + 1 => c # used + 1 /\ c > used
    BY <1>0
  <2>8. job'[used + 1] = "ice" => sock'[used + 1] = "none"
    BY <1>0, <2>1 DEF Counted, TypeOK
  <2>9. \A c \in Conns : /\ job'[c] = "ice" => sock'[c] = "none"
                         /\ c > used' => sock'[c] = "none" /\ job'[c] # "ice"
    BY <2>1, <2>2, <2>7, <2>8 DEF Counted
  <2>10. used' > 0
    BY <1>0, <2>1
  <2>11. QED BY <1>2, <2>6, <2>9, <2>10 DEF Counted
<1>3. CASE AutoJoin
  <2>1. BeginConnect /\ used = 0 /\ UNCHANGED <<strays, loop, awaited>>
    BY <1>3 DEF AutoJoin, retry
  <2>2. loop = "off"
    BY <2>1 DEF Counted, TypeOK
  <2>3. Claim' = 0
    BY <2>1, <2>2 DEF Claim
  <2>4. QED BY <1>2, <2>1, <2>2, <2>3
<1>4. CASE Retry
  <2>1. BeginConnect /\ strays' = strays + 1 /\ UNCHANGED <<loop, awaited>>
    BY <1>4 DEF Retry, retry
  <2>2. loop = "await" => awaited \in Conns
    BY DEF Counted
  <2>3. \A c \in Conns : sock'[c] = "closed" => sock[c] = "closed"
    BY <2>1, BeginConnectGives DEF TypeOK
  <2>4. Claim' = 1 => Claim = 1
    BY <2>1, <2>2, <2>3 DEF Claim
  <2>6. loop' # "off" => used = 0 \/ loop # "off"
    BY <2>1
  <2>7. loop' = "await" => awaited' \in Conns
    BY <2>1, <2>2
  <2>8. QED BY <1>2, <2>1, <2>4, <2>6, <2>7
<1>5. CASE SleepOver
  <2>1. loop = "sleep" /\ Claim = 1 /\ strays' = strays
    BY <1>5 DEF SleepOver, Claim
  <2>2. CASE intentional
    <3>1. loop' = "off" /\ UNCHANGED <<used, sock, job>>
      BY <1>5, <2>2 DEF SleepOver, SetLoop
    <3>2. Claim' = 0
      BY <3>1 DEF Claim
    <3>3. QED BY <1>0, <1>1, <2>1, <3>1, <3>2 DEF Held
  <2>3. CASE ~intentional
    <3>1. BeginConnect /\ loop' = "await" /\ awaited' = used + 1
      BY <1>5, <2>3 DEF SleepOver
    <3>2. used + 1 \in Conns /\ sock'[used + 1] # "closed"
      <4>1. /\ used + 1 \in Conns /\ used + 1 > used
            /\ sock' = sock \/ sock' = [sock EXCEPT ![used + 1] = "dialing"]
        BY <1>0, <3>1, BeginConnectGives
      <4>2. sock[used + 1] = "none"
        BY <4>1 DEF Counted
      <4>3. QED BY <4>1, <4>2 DEF TypeOK
    <3>3. Claim' = 0
      BY <3>1, <3>2 DEF Claim
    <3>4. QED BY <1>0, <1>2, <2>1, <3>1, <3>2, <3>3
  <2>4. QED BY <2>2, <2>3
<1>6. ASSUME UNCHANGED <<used, sock, loop, awaited, strays>>,
             \A c \in Conns : job'[c] = "ice" => job[c] = "ice"
      PROVE  Counted'
  <2>1. Claim' = Claim
    BY <1>6 DEF Claim
  <2>2. QED BY <1>0, <1>1, <1>6, <2>1 DEF Held, Counted
<1>7. CASE Leave
  <2>1. CASE cur = NoConn
    BY <1>6, <1>7, <2>1 DEF Leave, conns, retry
  <2>2. CASE cur # NoConn
    <3>1. sock' = HungUp(cur) /\ cur \in Conns /\ UNCHANGED <<used, job, loop, awaited, strays>>
      BY <1>7, <2>2 DEF Leave, retry, TypeOK
    <3>2. \A c \in Conns : sock'[c] = IF c = cur /\ sock[c] \in {"dialing", "open"} THEN "lost" ELSE sock[c]
      BY <3>1 DEF HungUp, TypeOK
    <3>3. \A c \in Conns : (sock'[c] = "closed") <=> (sock[c] = "closed")
      BY <3>2
    <3>4. Claim' = Claim
      BY <3>1, <3>3 DEF Claim, Counted
    <3>5. QED BY <1>0, <1>1, <3>1, <3>2, <3>4 DEF Held, Counted
  <2>3. QED BY <2>1, <2>2
<1>8. CASE ConsumeAnswered \/ ConsumeRefused \/ ConsumeDone
  BY <1>6, <1>8 DEF ConsumeAnswered, ConsumeRefused, ConsumeDone, conns, retry
<1>9. ASSUME NEW c \in Conns, ConnStep(c)
      PROVE  Counted'
  <2>1. CASE GotIceServers(c)
    <3>1. /\ job[c] = "ice" /\ job' = [job EXCEPT ![c] = "join"]
          /\ sock' = [sock EXCEPT ![c] = "dialing"] /\ UNCHANGED <<used, strays, loop, awaited>>
      BY <2>1 DEF GotIceServers, retry
    <3>2. \A d \in Conns : /\ job'[d] = IF d = c THEN "join" ELSE job[d]
                           /\ sock'[d] = IF d = c THEN "dialing" ELSE sock[d]
      BY <3>1 DEF TypeOK
    <3>3. Claim' <= Claim
      BY <3>1, <3>2 DEF Claim, Counted
    <3>4. QED BY <1>0, <1>1, <3>1, <3>2, <3>3 DEF Held, Counted
  <2>2. CASE Opened(c)
    <3>1. /\ sock[c] = "dialing" /\ sock' = [sock EXCEPT ![c] = "open"]
          /\ \E j : j # "ice" /\ job' = [job EXCEPT ![c] = j]
          /\ UNCHANGED <<used, strays, loop, awaited>>
      BY <2>2 DEF Opened, Counted, retry
    <3>2. \A d \in Conns : /\ job'[d] = "ice" => d # c /\ job[d] = "ice"
                           /\ sock'[d] = IF d = c THEN "open" ELSE sock[d]
      BY <3>1 DEF TypeOK
    <3>3. Claim' <= Claim
      BY <3>1, <3>2 DEF Claim, Counted
    <3>4. QED BY <1>0, <1>1, <3>1, <3>2, <3>3 DEF Held, Counted
  <2>3. CASE Joined(c)
    <3>1. job' = [job EXCEPT ![c] = "device"] /\ UNCHANGED <<used, sock, loop, awaited, strays>>
      BY <2>3 DEF Joined, retry
    <3>2. QED BY <1>6, <3>1 DEF TypeOK
  <2>4. ASSUME NEW to, to # "ice", job' = [job EXCEPT ![c] = to], UNCHANGED <<used, sock, strays>>,
               loop' \in {"off", loop}, loop' = "await" => awaited' = awaited
        PROVE  Counted'
    <3>1. \A d \in Conns : job'[d] = "ice" => job[d] = "ice"
      BY <2>4 DEF TypeOK
    <3>2. Claim' <= Claim
      BY <2>4 DEF Claim
    <3>3. QED BY <1>0, <1>1, <2>4, <3>1, <3>2 DEF Held, Counted
  <2>5. CASE DeviceLoaded(c)
    BY <2>4, <2>5 DEF DeviceLoaded, Request, retry
  <2>6. ASSUME NEW transport \in Conns \cup {NoConn}, Finish(c, transport),
               UNCHANGED <<used, sock, strays>>
        PROVE  Counted'
    <3>1. /\ job' = [job EXCEPT ![c] = "joined"] /\ loop' \in {"off", loop}
          /\ loop' = "await" => awaited' = awaited
      BY <2>6, FinishTyped
    <3>2. QED BY <2>4, <2>6, <3>1
  <2>7. CASE RecvReady(c)
    <3>1. UNCHANGED <<used, sock, strays>> /\ via[c] \in Conns
      BY <2>7 DEF RecvReady, Listening
    <3>2. CASE Finish(c, via[c])
      BY <2>6, <3>1, <3>2
    <3>3. CASE Request(c, "send") /\ UNCHANGED <<snap, phase, retry, work, queue>>
      <4>1. /\ \E to : to # "ice" /\ job' = [job EXCEPT ![c] = to]
            /\ loop' \in {"off", loop} /\ awaited' = awaited
        <5>1. /\ job' = [job EXCEPT ![c] = "send"] \/ job' = [job EXCEPT ![c] = "unsent"]
              /\ loop' = loop /\ awaited' = awaited
          BY <3>3 DEF Request, retry
        <5>2. QED BY <5>1
      <4>2. QED BY <2>4, <3>1, <4>1
    <3>4. QED BY <2>7, <3>2, <3>3 DEF RecvReady
  <2>8. CASE SendReady(c)
    <3>1. UNCHANGED <<used, sock, strays>> /\ recv \in Conns \cup {NoConn} /\ Finish(c, recv)
      BY <2>8 DEF SendReady, TypeOK
    <3>2. QED BY <2>6, <3>1
  <2>9. CASE SetupFails(c)
    <3>1. /\ job' = [job EXCEPT ![c] = "failed"] /\ UNCHANGED <<used, sock>>
          /\ awaited' \in Conns \cup {NoConn}
          /\ \/ loop' = loop /\ awaited' = awaited
             \/ loop = "await" /\ awaited = c /\ loop' # "await"
          /\ strays' = IF sock[c] = "closed" THEN strays ELSE strays + 1
      BY <2>9, SetupFailsGives
    <3>2. \A d \in Conns : job'[d] = "ice" => job[d] = "ice"
      BY <3>1 DEF TypeOK
    <3>3. Claim' <= Claim + (strays' - strays)
      <4>1. CASE loop' = loop /\ awaited' = awaited
        BY <1>0, <3>1, <4>1 DEF Claim
      <4>2. CASE loop = "await" /\ awaited = c /\ sock[c] = "closed"
        BY <1>0, <3>1, <4>2 DEF Claim
      <4>3. CASE sock[c] # "closed"
        BY <1>0, <3>1, <4>3
      <4>4. QED BY <3>1, <4>1, <4>2, <4>3
    <3>4. QED BY <1>0, <1>1, <3>1, <3>2, <3>3 DEF Held, Counted
  <2>10. ASSUME NEW failed \in BOOLEAN, Closed(c, failed)
         PROVE  Counted'
    <3>1. /\ sock[c] \in {"lost", "dialing"} /\ sock' = [sock EXCEPT ![c] = "closed"]
          /\ job' = [d \in Conns |->
                       IF d \in Requests \/ (d = c /\ failed /\ job[d] = "join")
                       THEN "failed" ELSE job[d]]
          /\ loop' = "await" => loop = "await" /\ awaited' = awaited
          /\ UNCHANGED <<used, strays>>
      BY <2>10, ClosedGives
    <3>2. \A d \in Conns : /\ sock'[d] = IF d = c THEN "closed" ELSE sock[d]
                           /\ job'[d] = "ice" => job[d] = "ice"
      BY <3>1 DEF TypeOK
    <3>3. c \in Held /\ job[c] # "ice" /\ used > 0 /\ ~(c > used)
      BY <1>0, <3>1 DEF Held, Counted
    <3>4. Held' \subseteq Held \ {c}
      BY <3>2, <3>3 DEF Held
    <3>5. Cardinality(Held') \in Nat /\ Cardinality(Held') <= Cardinality(Held) - 1
      BY <1>0, <3>3, <3>4, OneLess
    <3>6. Cardinality(Held') + Claim' <= 1 + strays'
      BY <1>0, <3>1, <3>5
    <3>7. \A d \in Conns : /\ job'[d] = "ice" => sock'[d] = "none"
                           /\ d > used' => sock'[d] = "none" /\ job'[d] # "ice"
      BY <3>1, <3>2, <3>3 DEF Counted
    <3>8. QED BY <3>1, <3>3, <3>6, <3>7 DEF Counted
  <2>11. CASE Lose(c)
    <3>1. /\ sock[c] = "open" /\ sock' = [sock EXCEPT ![c] = "lost"]
          /\ UNCHANGED <<used, job, strays, loop, awaited>>
      BY <2>11 DEF Lose, retry
    <3>2. \A d \in Conns : sock'[d] = IF d = c THEN "lost" ELSE sock[d]
      BY <3>1 DEF TypeOK
    <3>3. Claim' <= Claim
      BY <3>1, <3>2 DEF Claim, Counted
    <3>4. QED BY <1>0, <1>1, <3>1, <3>2, <3>3 DEF Held, Counted
  <2>12. QED
    BY <1>9, <2>1, <2>2, <2>3, <2>5, <2>7, <2>8, <2>9, <2>10, <2>11 DEF ConnStep
<1>10. ASSUME NEW p \in Peers, PeerStep(p)
       PROVE  Counted'
  BY <1>6, <1>10 DEF PeerStep, PeerJoins, PeerShares, PeerStops, PeerLeaves, conns, retry
<1>11. QED
  BY <1>3, <1>4, <1>5, <1>7, <1>8, <1>9, <1>10 DEF Next, PageStep

(***************************************************************************)
(* The theorems                                                            *)
(***************************************************************************)
LEMMA StutterKeeps ==
  ASSUME InductiveInv, UNCHANGED vars
  PROVE  InductiveInv'
<1> USE DEF page, conns, retry, remote, vars
<1>1. TypeOK' /\ Counted'
  BY DEF InductiveInv, TypeOK, Counted, Held, Claim
<1>2. orphaned' = orphaned
  BY DEF orphaned
<1>3. CASE orphaned
  BY <1>1, <1>2, <1>3 DEF InductiveInv
<1>4. CASE ~orphaned
  <2>1. Sockets /\ Transports /\ QueueRuns /\ Heard /\ Picture
    BY <1>4 DEF InductiveInv
  <2>2. /\ Present' = Present /\ Sharing' = Sharing /\ Shown' = Shown /\ Pending' = Pending
        /\ Listening' = Listening
    BY DEF Present, Sharing, Shown, Pending, Listening
  <2>3. Sockets'
    BY <2>1 DEF Sockets, Socket
  <2>4. Transports'
    BY <2>1 DEF Transports
  <2>5. QueueRuns'
    BY <2>1, <2>2 DEF QueueRuns
  <2>6. Heard'
    BY <2>1, <2>2 DEF Heard
  <2>7. Picture'
    BY <2>1, <2>2 DEF Picture, Waiting, Queued, Listed
  <2>8. QED BY <1>1, <2>3, <2>4, <2>5, <2>6, <2>7 DEF InductiveInv
<1>5. QED BY <1>3, <1>4

LEMMA StraysStay ==
  ASSUME TypeOK, Next
  PROVE  orphaned => orphaned'
<1>1. strays' \in {strays, strays + 1}
  BY SetupFailsGives, ClosedGives
     DEF Next, PageStep, AutoJoin, Retry, SleepOver, Leave, ConsumeAnswered, ConsumeRefused,
         ConsumeDone, ConnStep, GotIceServers, Opened, Joined, DeviceLoaded, RecvReady,
         SendReady, Lose, PeerStep, PeerJoins, PeerShares, PeerStops, PeerLeaves, conns
<1>2. QED BY <1>1 DEF TypeOK, orphaned

\* The count is kept whatever happens, the rest until the page goes on without a
\* connection that may still be there.
LEMMA NextKeeps ==
  ASSUME InductiveInv, Next
  PROVE  InductiveInv'
<1>1. TypeOK /\ Counted
  BY DEF InductiveInv
<1>2. TypeOK' /\ Counted'
  BY <1>1, TypeKept, CountedKept
<1>3. CASE orphaned'
  BY <1>2, <1>3 DEF InductiveInv
<1>4. CASE ~orphaned'
  <2>0. Sockets /\ Transports /\ QueueRuns /\ Heard /\ Picture
    BY <1>1, <1>4, StraysStay DEF InductiveInv
  <2>1. Sockets'
    BY <1>1, <1>4, <2>0, SocketsKept
  <2>2. Transports'
    BY <1>1, <1>4, <2>0, TransportsKept
  <2>3. QueueRuns'
    BY <1>1, <1>4, <2>0, QueueRunsKept
  <2>4. Heard'
    BY <1>1, <1>4, <2>0, HeardKept
  <2>5. Picture'
    BY <1>1, <1>4, <2>0, PictureKept
  <2>6. QED BY <1>2, <2>1, <2>2, <2>3, <2>4, <2>5 DEF InductiveInv
<1>5. QED BY <1>3, <1>4

\* The connections, the transports, the consume queue and the picture keep to
\* one another, whatever connect(), the retry loop, leave() and the server do.
THEOREM EmbedConnectionInductive == Spec => []InductiveInv
<1>1. Init => InductiveInv
  BY InitInductive
<1>2. InductiveInv /\ [Next]_vars => InductiveInv'
  BY NextKeeps, StutterKeeps
<1>3. QED BY <1>1, <1>2, PTL DEF Spec

\* Every variable of useRoomConnection.js keeps its type.
THEOREM EmbedConnectionTypeCorrect == Spec => []TypeOK
<1>1. InductiveInv => TypeOK
  BY DEF InductiveInv
<1>2. QED BY <1>1, EmbedConnectionInductive, PTL

\* However often Retry is pressed and setups are given up, at most that many
\* connections more than one are open or being opened; before, it is the one
\* that leave() closes.
THEOREM OneSessionAtATime == Spec => []OneSession
<1>1. ASSUME InductiveInv
      PROVE  OneSession
  <2>1. TypeOK /\ Counted /\ IsFiniteSet(Held)
    BY <1>1, HeldIsFinite DEF InductiveInv
  <2>2. Live \subseteq Held
    BY DEF Live, Held
  <2>3. IsFiniteSet(Live) /\ Cardinality(Live) \in Nat /\ Cardinality(Live) <= Cardinality(Held)
    BY <2>1, <2>2, FS_Subset, FS_CardinalityType
  <2>4. Cardinality(Live) <= 1 + strays
    BY <2>1, <2>3, HeldIsFinite DEF Counted, Claim, TypeOK
  <2>5. ~orphaned => Live \subseteq {cur}
    BY <1>1 DEF InductiveInv, Live, Sockets, Socket
  <2>6. QED BY <2>4, <2>5 DEF OneSession
<1>2. QED BY <1>1, EmbedConnectionInductive, PTL

\* When the page is live, its connection is the newest, and has used up what
\* meet-joined listed.
LEMMA LiveHasUsedTheLists ==
  ASSUME TypeOK, Sockets, Transports, phase = "live", cur \in Listening
  PROVE  cur \in Conns /\ job[cur] = "joined" /\ Listed("producers") = {}
<1>1. cur \in Conns /\ cur = used
  BY OnlyCurrentListens
<1>2. job[cur] = "joined"
  BY <1>1 DEF Transports
<1>3. QED BY <1>1, <1>2 DEF Listed, Building

\* What a live page shows is being shared, and what is shared is shown.
THEOREM PictureIsHonest == Spec => []PictureHonest
<1>1. ASSUME InductiveInv, phase = "live", cur \in Listening, ~orphaned
      PROVE  /\ Shown \subseteq Sharing \cup unheard
             /\ work = Idle =>
                  /\ Sharing \subseteq Shown \cup missed
                  /\ \A p \in Shown \ (missed \cup unheard) : tiles[p] = recv
  <2>1. TypeOK /\ Sockets /\ Transports /\ QueueRuns /\ Heard /\ Picture
    BY <1>1 DEF InductiveInv
  <2>2. job[cur] = "joined" /\ Listed("producers") = {}
    BY <1>1, <2>1, LiveHasUsedTheLists
  <2>3. ASSUME work = Idle
        PROVE  Waiting = {NoPeer}
    BY <2>1, <2>3, IdleIs DEF QueueRuns, Waiting, Queued
  <2>4. NoPeer \notin Sharing /\ NoPeer \notin Shown
    BY EmbedAssumption DEF Sharing, Shown
  <2>5. /\ Sharing \subseteq Shown \cup missed \cup Waiting
        /\ \A p \in Shown : tiles[p] = recv \/ p \in missed \cup unheard \cup Waiting
    BY <1>1, <2>1, <2>2 DEF Picture
  <2>6. QED BY <2>1, <2>3, <2>4, <2>5 DEF Heard
<1>2. InductiveInv => PictureHonest
  BY <1>1 DEF PictureHonest
<1>3. QED BY <1>2, EmbedConnectionInductive, PTL

\* The participants a live page lists are those of the room.
THEOREM ParticipantsAgree == Spec => []PeersAgree
<1>1. ASSUME InductiveInv, phase = "live", cur \in Listening, ~orphaned
      PROVE  Present \subseteq peers /\ peers \subseteq Present \cup unheard
  <2>1. TypeOK /\ Sockets /\ Transports /\ QueueRuns /\ Heard /\ Picture
    BY <1>1 DEF InductiveInv
  <2>2. job[cur] = "joined"
    BY <1>1, <2>1, LiveHasUsedTheLists
  <2>3. QED BY <1>1, <2>1, <2>2 DEF Picture, Heard
<1>2. InductiveInv => PeersAgree
  BY <1>1 DEF PeersAgree
<1>3. QED BY <1>2, EmbedConnectionInductive, PTL
==============================================================================
