----------------------------- MODULE MeetPageProofs -----------------------------
(***************************************************************************)
(* The safety properties of MeetPage, for any number of other participants *)
(* and of joins.                                                           *)
(*                                                                         *)
(* InductiveInv is shown part by part: each part has a lemma with one step *)
(* per action.  What the consume queue and an answer to meet-produce do is *)
(* stated apart, once.                                                     *)
(***************************************************************************)
EXTENDS MeetPage, FiniteSetTheorems, TLAPS

Works == [who : Peers \cup {NoPeer}, stage : {"none", "request", "consume"},
          on : Sessions \cup {None}]
Lines == Seq(Sessions \X (Own \cup {"screen"}))
Jobs  == {"none", "media", "dial", "join", "joined", "failed"} \cup Awaiting

Elements(s) == {s[i] : i \in DOMAIN s}

LEMMA NoneIsNot == None \notin Sessions /\ None = 0 /\ Sessions \subseteq Nat
  BY MeetPageAssumption DEF Sessions, None

LEMMA ListingsAre ==
  ASSUME NEW S \in SUBSET Peers, NEW s \in Listings(S)
  PROVE  s \in Seq(Peers) /\ Elements(s) = S
<1>1. IsFiniteSet(S)
  BY MeetPageAssumption, FS_Subset
<1>2. Cardinality(S) \in Nat
  BY <1>1, FS_CardinalityType
<1>3. s \in [1..Cardinality(S) -> S] /\ Elements(s) = S
  BY DEF Listings, Elements
<1>4. s \in Seq(S)
  BY <1>2, <1>3
<1>5. QED BY <1>3, <1>4

\* What is in the queue when sequences are joined, taken apart, or short.
LEMMA ElementsOf ==
  ASSUME NEW s \in Seq(Peers), NEW t \in Seq(Peers)
  PROVE  s \o t \in Seq(Peers) /\ Elements(s \o t) = Elements(s) \cup Elements(t)
<1>1. /\ s \o t \in Seq(Peers) /\ Elements(s \o t) \subseteq Elements(s) \cup Elements(t)
      /\ Elements(s) \subseteq Elements(s \o t)
  BY DEF Elements
<1>2. ASSUME NEW i \in DOMAIN t
      PROVE  t[i] \in Elements(s \o t)
  <2>1. Len(s) + i \in DOMAIN (s \o t) /\ (s \o t)[Len(s) + i] = t[i]
    BY <1>2
  <2>2. QED BY <2>1 DEF Elements
<1>3. QED BY <1>1, <1>2 DEF Elements

LEMMA HeadAndTail ==
  ASSUME NEW s \in Seq(Peers), s # <<>>
  PROVE  /\ Head(s) \in Peers /\ Tail(s) \in Seq(Peers)
         /\ Elements(s) = {Head(s)} \cup Elements(Tail(s))
<1>1. /\ Head(s) \in Peers /\ Tail(s) \in Seq(Peers)
      /\ {Head(s)} \cup Elements(Tail(s)) \subseteq Elements(s)
  BY DEF Elements
<1>2. ASSUME NEW i \in DOMAIN s
      PROVE  s[i] \in {Head(s)} \cup Elements(Tail(s))
  <2>1. CASE i = 1
    BY <2>1
  <2>2. CASE i # 1
    <3>1. i - 1 \in DOMAIN Tail(s) /\ Tail(s)[i - 1] = s[i]
      BY <1>2, <2>2
    <3>2. QED BY <3>1 DEF Elements
  <2>3. QED BY <2>1, <2>2
<1>3. QED BY <1>1, <1>2 DEF Elements

LEMMA ShortQueues ==
  /\ <<>> \in Seq(Peers) /\ Elements(<<>>) = {}
  /\ \A p \in Peers : <<p>> \in Seq(Peers) /\ Elements(<<p>>) = {p}
BY DEF Elements

(***************************************************************************)
(* The consume queue                                                       *)
(***************************************************************************)
LEMMA IdleIs == /\ Idle \in Works /\ Idle.stage = "none" /\ Idle.who = NoPeer
                /\ Idle.on = None
  BY DEF Idle, Works

\* The next run, if there is a transport and something in the queue.
LEMMA DrainGives ==
  ASSUME TypeOK, NEW pending \in Seq(Peers), Drain(pending)
  PROVE  /\ work' \in Works /\ queue' \in Seq(Peers)
         /\ \/ work' = Idle /\ queue' = <<>> /\ (recv = None \/ pending = <<>>)
            \/ /\ work'.stage = "request" /\ work'.who \in Peers /\ recv # None
               /\ work'.on \in {recv, None}
               /\ Elements(pending) = {work'.who} \cup Elements(queue')
<1>1. CASE recv = None \/ pending = <<>>
  BY <1>1, IdleIs, ShortQueues DEF Drain
<1>2. CASE ~(recv = None \/ pending = <<>>)
  <2>1. /\ work' = [who |-> Head(pending), stage |-> "request",
                    on |-> IF Open THEN recv ELSE None]
        /\ queue' = Tail(pending)
    BY <1>2 DEF Drain
  <2>2. recv \in Sessions \cup {None} /\ Head(pending) \in Peers
    BY <1>2, HeadAndTail DEF TypeOK
  <2>3. work' \in Works
    BY <2>1, <2>2 DEF Works
  <2>4. QED BY <1>2, <2>1, <2>2, <2>3, HeadAndTail
<1>3. QED BY <1>1, <1>2

\* What is new waits, unless there is no transport.
LEMMA EnqueueGives ==
  ASSUME TypeOK, QueueRuns, NEW new \in Seq(Peers), Enqueue(new)
  PROVE  /\ work' \in Works /\ queue' \in Seq(Peers)
         /\ \/ /\ work = Idle /\ work' = Idle /\ queue' = <<>>
               /\ recv = None \/ Elements(new) = {}
            \/ /\ work = Idle /\ work'.stage = "request" /\ work'.who \in Peers
               /\ recv # None /\ work'.on \in {recv, None}
               /\ Elements(new) = {work'.who} \cup Elements(queue')
            \/ /\ work # Idle /\ work' = work
               /\ Elements(queue') = Elements(queue) \cup Elements(new)
<1>1. CASE work = Idle
  <2>1. queue = <<>>
    BY <1>1, IdleIs DEF QueueRuns
  <2>2. Drain(new)
    BY <1>1, <2>1 DEF Enqueue
  <2>3. QED BY <1>1, <2>2, DrainGives, ShortQueues
<1>2. CASE work # Idle
  <2>1. work' = work /\ queue' = queue \o new
    BY <1>2 DEF Enqueue
  <2>2. work \in Works /\ queue \in Seq(Peers)
    BY DEF TypeOK, Works
  <2>3. queue' \in Seq(Peers) /\ Elements(queue') = Elements(queue) \cup Elements(new)
    BY <2>1, <2>2, ElementsOf
  <2>4. QED BY <1>2, <2>1, <2>2, <2>3
<1>3. QED BY <1>1, <1>2

\* While a run is in progress, nothing behind it is dropped.
LEMMA DrainKeeps ==
  ASSUME TypeOK, QueueRuns, work.stage # "none", Drain(queue)
  PROVE  /\ work' \in Works /\ queue' \in Seq(Peers)
         /\ \/ work' = Idle /\ queue' = <<>>
            \/ /\ work'.stage = "request" /\ work'.who \in Peers
               /\ work'.on \in {recv, None}
         /\ work'.stage # "consume" /\ Queued \subseteq Waiting'
<1>1. recv # None /\ queue \in Seq(Peers)
  BY DEF QueueRuns, TypeOK
<1>2. /\ work' \in Works /\ queue' \in Seq(Peers)
      /\ \/ work' = Idle /\ queue' = <<>> /\ queue = <<>>
         \/ /\ work'.stage = "request" /\ work'.who \in Peers
            /\ work'.on \in {recv, None}
            /\ Elements(queue) = {work'.who} \cup Elements(queue')
  BY <1>1, DrainGives
<1>3. Queued = Elements(queue) /\ Queued' = Elements(queue')
  BY DEF Queued, Elements
<1>4. Queued \subseteq Waiting' /\ work'.stage # "consume"
  BY <1>2, <1>3, IdleIs, ShortQueues DEF Waiting
<1>5. QED BY <1>2, <1>4

LEMMA InitInductive == Init => InductiveInv
<1> SUFFICES ASSUME Init PROVE InductiveInv
  OBVIOUS
<1> USE NoneIsNot
<1>1. TypeOK
  <2>1. /\ job \in [Sessions -> Jobs] /\ tracks \in [Sessions -> SUBSET Own]
        /\ sock \in [Sessions -> {"none", "dialing", "open", "ending", "closed"}]
        /\ snap \in [Sessions -> SUBSET Peers] /\ asked \in [Sessions -> Own \cup {"screen", "none"}]
        /\ tiles \in [Peers -> Sessions \cup {None}]
        /\ life \in [Peers -> {"away", "sharing", "gone"}]
    BY DEF Init, Jobs
  <2>2. share \in [stage : {"off", "picking", "producing", "on"}, of : Sessions \cup {None}]
    BY DEF Init, NoShare
  <2>3. 0 \in 0..MaxJoins /\ fifo \in Lines
    BY MeetPageAssumption DEF Init, Lines
  <2>4. work \in Works /\ queue \in Seq(Peers)
    BY IdleIs, ShortQueues DEF Init
  <2>5. \A n \in Sessions : job[n] \notin Awaiting
    BY DEF Init, Awaiting
  <2>6. QED BY <2>1, <2>2, <2>3, <2>4, <2>5 DEF Init, TypeOK, Works, Lines, Jobs
<1>2. Joins /\ Transports /\ Asked
  BY DEF Init, Joins, JoinStages, Transports, Asked, Awaiting, NoShare
<1>3. QueueRuns
  BY IdleIs DEF Init, QueueRuns, Settling
<1>4. Tiles /\ Known
  BY DEF Init, Tiles, Shown, Known
<1>5. QED BY <1>1, <1>2, <1>3, <1>4 DEF InductiveInv

(***************************************************************************)
(* What the actions that several parts depend on amount to                 *)
(***************************************************************************)
\* A device is next if there is one.
LEMMA NextTrackIs ==
  ASSUME NEW devs \in SUBSET Own, devs # {}
  PROVE  NextTrack(devs) \in {"mic", "camera"}
BY DEF NextTrack, Own

LEMMA LineGrows ==
  ASSUME NEW line \in Lines, NEW n \in Sessions, NEW what \in Own \cup {"screen"}
  PROVE  Append(line, <<n, what>>) \in Lines
<1>1. <<n, what>> \in Sessions \X (Own \cup {"screen"})
  OBVIOUS
<1>2. QED BY <1>1 DEF Lines

\* Only the newest join has a socket that lives, and wsRef names it.
LEMMA OpenIsNewest ==
  ASSUME TypeOK, Joins
  PROVE  /\ \A n \in Sessions : sock[n] \in {"dialing", "open"} => n = cur /\ n = used
         /\ Open => cur \in Sessions /\ cur = used /\ sock[cur] = "open"
         /\ \A n \in Sessions : sock[n] = "open" => Open
         /\ \A n \in Sessions : job[n] \in Awaiting => n = used /\ n = cur /\ status = "connecting"
         /\ Admitted => Open /\ job[cur] \in Awaiting \cup {"joined", "failed"}
<1>1. \A n \in Sessions : sock[n] \in {"dialing", "open"} => n = cur /\ n = used
  BY DEF Joins, JoinStages
<1>2. Open => cur \in Sessions /\ cur = used /\ sock[cur] = "open"
  BY <1>1 DEF Open, TypeOK
<1>3. \A n \in Sessions : sock[n] = "open" => Open
  BY <1>1, NoneIsNot DEF Open
<1>4. \A n \in Sessions : job[n] \in Awaiting => n = used /\ n = cur /\ status = "connecting"
  BY DEF Joins, JoinStages
<1>5. QED BY <1>1, <1>2, <1>3, <1>4 DEF Admitted

\* The end of a setup: what was listed goes into the queue.
LEMMA FinishGives ==
  ASSUME TypeOK, QueueRuns, NEW n \in Sessions, recv # None, Finish(n)
  PROVE  /\ job' = [job EXCEPT ![n] = "joined"] /\ snap' = [snap EXCEPT ![n] = {}]
         /\ status' = "live" /\ missed' = missed \ snap[n] /\ UNCHANGED <<tiles, unheard>>
         /\ work' \in Works /\ queue' \in Seq(Peers)
         /\ \/ /\ work = Idle /\ work' = Idle /\ queue' = <<>> /\ snap[n] = {}
            \/ /\ work = Idle /\ work'.stage = "request" /\ work'.who \in Peers
               /\ work'.on \in {recv, None}
               /\ snap[n] = {work'.who} \cup Elements(queue')
            \/ /\ work # Idle /\ work' = work
               /\ Elements(queue') = Elements(queue) \cup snap[n]
<1>1. /\ job' = [job EXCEPT ![n] = "joined"] /\ snap' = [snap EXCEPT ![n] = {}]
      /\ status' = "live" /\ missed' = missed \ snap[n] /\ UNCHANGED <<tiles, unheard>>
  BY DEF Finish
<1>2. PICK listing \in Listings(snap[n]) : Enqueue(listing)
  BY DEF Finish
<1>3. snap[n] \in SUBSET Peers
  BY DEF TypeOK
<1>4. listing \in Seq(Peers) /\ Elements(listing) = snap[n]
  BY <1>2, <1>3, ListingsAre
<1>5. /\ work' \in Works /\ queue' \in Seq(Peers)
      /\ \/ /\ work = Idle /\ work' = Idle /\ queue' = <<>> /\ Elements(listing) = {}
         \/ /\ work = Idle /\ work'.stage = "request" /\ work'.who \in Peers
            /\ work'.on \in {recv, None}
            /\ Elements(listing) = {work'.who} \cup Elements(queue')
         \/ /\ work # Idle /\ work' = work
            /\ Elements(queue') = Elements(queue) \cup Elements(listing)
  BY <1>2, <1>4, EnqueueGives
<1>6. QED BY <1>1, <1>4, <1>5

\* meet-produced is taken for the answer to a device's produce(), the last or
\* not; for that to the screen's; or for nothing.
TrackAnswered(n) ==
  /\ job[n] \in {"mic", "camera"}
  /\ UNCHANGED <<swallowed, share, captured>>
  /\ \/ Finish(n) /\ asked' = [asked EXCEPT ![n] = "none"]
     \/ \E next \in {"mic", "camera"} :
          /\ job' = [job EXCEPT ![n] = next] /\ asked' = [asked EXCEPT ![n] = next]
          /\ UNCHANGED <<status, snap, remote>>

ScreenAnswered(n) ==
  /\ share = [stage |-> "producing", of |-> n] /\ share' = [share EXCEPT !.stage = "on"]
  /\ asked' = [asked EXCEPT ![n] = "none"]
  /\ UNCHANGED <<status, job, tracks, snap, swallowed, captured, remote>>

NobodyAnswered(n) ==
  /\ asked' = [asked EXCEPT ![n] = "none"] /\ swallowed' = swallowed \cup {n}
  /\ UNCHANGED <<status, job, tracks, snap, share, captured, remote>>

LEMMA ProducedGives ==
  ASSUME TypeOK, Joins, NEW n \in Sessions, Produced(n)
  PROVE  /\ sock[n] = "open" /\ n = cur /\ n = used
         /\ UNCHANGED <<used, refused, wire, send, recv, shut, life>>
         /\ tracks' \in [Sessions -> SUBSET Own] /\ fifo' \in Lines
         /\ \A m \in Sessions : m # n => tracks'[m] = tracks[m]
         /\ TrackAnswered(n) \/ ScreenAnswered(n) \/ NobodyAnswered(n)
<1> DEFINE first == Head(fifo)
           left  == tracks[n] \ {first[2]}
<1>1. /\ sock[n] = "open" /\ fifo # <<>>
      /\ UNCHANGED <<used, refused, wire, send, recv, shut, life>>
  BY DEF Produced
<1>2. n = cur /\ n = used
  BY <1>1, OpenIsNewest
<1>3. Tail(fifo) \in Lines /\ left \in SUBSET Own /\ fifo \in Lines
  BY <1>1 DEF TypeOK, Lines
<1>4. \/ /\ first[1] = n /\ job[n] = first[2] /\ tracks' = [tracks EXCEPT ![n] = left]
         /\ IF left = {}
            THEN Finish(n) /\ fifo' = Tail(fifo) /\ asked' = [asked EXCEPT ![n] = "none"]
            ELSE /\ job' = [job EXCEPT ![n] = NextTrack(left)]
                 /\ fifo' = Append(Tail(fifo), <<n, NextTrack(left)>>)
                 /\ asked' = [asked EXCEPT ![n] = NextTrack(left)]
                 /\ UNCHANGED <<status, snap, remote>>
         /\ UNCHANGED <<swallowed, share, captured>>
      \/ /\ share = [stage |-> "producing", of |-> n] /\ share' = [share EXCEPT !.stage = "on"]
         /\ fifo' = Tail(fifo) /\ asked' = [asked EXCEPT ![n] = "none"]
         /\ UNCHANGED <<status, job, tracks, snap, swallowed, captured, remote>>
      \/ /\ fifo' = Tail(fifo) /\ asked' = [asked EXCEPT ![n] = "none"]
         /\ swallowed' = swallowed \cup {n}
         /\ UNCHANGED <<status, job, tracks, snap, share, captured, remote>>
  BY <1>1 DEF Produced, Rest, Produce, sharing
<1>5. CASE /\ first[1] = n /\ job[n] = first[2] /\ tracks' = [tracks EXCEPT ![n] = left]
           /\ IF left = {}
              THEN Finish(n) /\ fifo' = Tail(fifo) /\ asked' = [asked EXCEPT ![n] = "none"]
              ELSE /\ job' = [job EXCEPT ![n] = NextTrack(left)]
                   /\ fifo' = Append(Tail(fifo), <<n, NextTrack(left)>>)
                   /\ asked' = [asked EXCEPT ![n] = NextTrack(left)]
                   /\ UNCHANGED <<status, snap, remote>>
           /\ UNCHANGED <<swallowed, share, captured>>
  <2>1. first[2] \in Own \cup {"screen"}
    BY <1>1, <1>3 DEF Lines
  <2>2. job[n] \in {"mic", "camera"}
    <3>1. job[n] \in {"mic", "camera", "screen"} /\ job[n] # "screen"
      BY <1>5, <2>1 DEF Own, TypeOK, Awaiting
    <3>2. QED BY <3>1
  <2>3. tracks' \in [Sessions -> SUBSET Own] /\ \A m \in Sessions : m # n => tracks'[m] = tracks[m]
    BY <1>3, <1>5 DEF TypeOK
  <2>4. CASE left = {}
    <3>1. /\ Finish(n) /\ asked' = [asked EXCEPT ![n] = "none"] /\ fifo' = Tail(fifo)
          /\ UNCHANGED <<swallowed, share, captured>>
      BY <1>5, <2>4
    <3>2. TrackAnswered(n)
      BY <2>2, <3>1 DEF TrackAnswered
    <3>3. fifo' \in Lines
      BY <1>3, <3>1
    <3>4. QED BY <1>1, <1>2, <2>3, <3>2, <3>3
  <2>5. CASE left # {}
    <3>1. NextTrack(left) \in {"mic", "camera"}
      BY <1>3, <2>5, NextTrackIs
    <3>2. fifo' \in Lines
      <4>1. fifo' = Append(Tail(fifo), <<n, NextTrack(left)>>)
        BY <1>5, <2>5
      <4>2. NextTrack(left) \in Own
        BY <3>1 DEF Own
      <4>3. QED BY <1>3, <4>1, <4>2, LineGrows
    <3>3. QED BY <1>1, <1>2, <1>5, <2>2, <2>3, <2>5, <3>1, <3>2 DEF TrackAnswered
  <2>6. QED BY <2>4, <2>5
<1>6. CASE /\ share = [stage |-> "producing", of |-> n] /\ share' = [share EXCEPT !.stage = "on"]
           /\ fifo' = Tail(fifo) /\ asked' = [asked EXCEPT ![n] = "none"]
           /\ UNCHANGED <<status, job, tracks, snap, swallowed, captured, remote>>
  <2>1. tracks' \in [Sessions -> SUBSET Own] /\ fifo' \in Lines
    BY <1>3, <1>6 DEF TypeOK
  <2>2. QED BY <1>1, <1>2, <1>6, <2>1 DEF ScreenAnswered
<1>7. CASE /\ fifo' = Tail(fifo) /\ asked' = [asked EXCEPT ![n] = "none"]
           /\ swallowed' = swallowed \cup {n}
           /\ UNCHANGED <<status, job, tracks, snap, share, captured, remote>>
  <2>1. tracks' \in [Sessions -> SUBSET Own] /\ fifo' \in Lines
    BY <1>3, <1>7 DEF TypeOK
  <2>2. QED BY <1>1, <1>2, <1>7, <2>1 DEF NobodyAnswered
<1>8. QED BY <1>4, <1>5, <1>6, <1>7

(***************************************************************************)
(* The joins                                                               *)
(***************************************************************************)
LEMMA JoinsKept ==
  ASSUME TypeOK, QueueRuns, Joins, Transports, Next
  PROVE  Joins'
<1> USE NoneIsNot
<1>0. /\ used \in Nat /\ MaxJoins \in Nat /\ Sessions = 1..MaxJoins
      /\ used > 0 => used \in Sessions
  BY MeetPageAssumption DEF TypeOK, Sessions
<1>1. ASSUME UNCHANGED <<status, used, job, tracks, cur, sock, send, recv, shut>>
      PROVE  Joins'
  BY <1>1 DEF Joins, JoinStages
<1>2. CASE Join
  <2>1. /\ status = "idle" /\ used < MaxJoins /\ used' = used + 1 /\ status' = "connecting"
        /\ job' = [job EXCEPT ![used + 1] = "media"]
        /\ \A n \in Sessions : sock[n] \notin {"dialing", "open"}
        /\ UNCHANGED <<tracks, cur, sock, send, recv, shut>>
    BY <1>2 DEF Join, wire, own
  <2>2. used + 1 \in Sessions /\ used + 1 > used
    BY <1>0, <2>1
  <2>3. \A n \in Sessions : job'[n] = IF n = used + 1 THEN "media" ELSE job[n]
    BY <2>1 DEF TypeOK
  <2>4. \A n \in Sessions : job[n] \notin {"media", "dial", "join"} \cup Awaiting
    BY <2>1 DEF Joins, JoinStages
  <2>5. job[used + 1] = "none" /\ sock[used + 1] = "none"
    BY <2>2 DEF Joins, JoinStages
  <2>6. ASSUME NEW n \in Sessions
        PROVE  JoinStages(n)'
    <3>1. n > used' => n > used /\ n # used + 1
      BY <1>0, <2>1
    <3>2. CASE n = used + 1
      BY <2>1, <2>2, <2>3, <2>5, <3>2 DEF JoinStages, Awaiting
    <3>3. CASE n # used + 1
      BY <2>1, <2>3, <2>4, <3>1, <3>3 DEF Joins, JoinStages, Awaiting
    <3>4. QED BY <3>2, <3>3
  <2>7. QED BY <1>0, <2>1, <2>2, <2>3, <2>6 DEF Joins
<1>3. CASE Leave
  <2>1. /\ status = "live" /\ status' = "idle" /\ shut' = shut \cup {send, recv}
        /\ sock' = [sock EXCEPT ![cur] = IF @ \in {"dialing", "open"} THEN "ending" ELSE @]
        /\ UNCHANGED <<used, job, tracks, cur, send, recv>>
    BY <1>3 DEF Leave
  <2>2. cur = used /\ send = used /\ recv = used
    BY <2>1 DEF Joins
  <2>3. \A n \in Sessions : \/ sock'[n] = sock[n] /\ sock[n] \notin {"dialing", "open"}
                            \/ sock'[n] = "ending" /\ sock[n] \in {"dialing", "open"}
    BY <2>1, OpenIsNewest DEF TypeOK
  <2>4. \A n \in Sessions : job[n] \notin {"media", "dial", "join"} \cup Awaiting
    BY <2>1 DEF Joins, JoinStages
  <2>5. QED BY <2>1, <2>2, <2>3, <2>4 DEF Joins, JoinStages
<1>4. CASE ConsumeAnswered \/ ConsumeRefused \/ ConsumeDone
  BY <1>1, <1>4 DEF ConsumeAnswered, ConsumeRefused, ConsumeDone, session, wire, own
<1>5. CASE StartScreenShare \/ PickerCancelled \/ Picked \/ StopScreenShare
  BY <1>1, <1>5 DEF StartScreenShare, PickerCancelled, Picked, StopScreenShare,
                    session, wire, own
<1>6. ASSUME NEW n \in Sessions, SessionStep(n)
      PROVE  Joins'
  \* A join fails: the page is idle.
  <2>0. ASSUME job[n] \in {"media"} \cup Awaiting, job' = [job EXCEPT ![n] = "failed"],
               status' = "idle", UNCHANGED <<used, tracks, cur, sock, send, recv, shut>>
        PROVE  Joins'
    <3>1. \A m \in Sessions : job'[m] = IF m = n THEN "failed" ELSE job[m]
      BY <2>0 DEF TypeOK
    <3>2. n = used /\ status = "connecting"
      BY <2>0 DEF Joins, JoinStages
    <3>3. \A m \in Sessions \ {n} : job[m] \notin {"media", "dial", "join"} \cup Awaiting
      BY <3>2 DEF Joins, JoinStages
    <3>4. QED BY <1>0, <2>0, <3>1, <3>2, <3>3 DEF Joins, JoinStages, Awaiting
  \* It goes from one wait to the next.
  <2>1. ASSUME NEW from \in {"dial", "join"} \cup Awaiting,
               NEW to \in {"join"} \cup Awaiting,
               job[n] = from, job' = [job EXCEPT ![n] = to],
               NEW at \in {"dialing", "open", "ending", "closed"}, sock[n] = at,
               at = "dialing" => sock' = [sock EXCEPT ![n] = "open"],
               at # "dialing" => UNCHANGED sock,
               UNCHANGED <<status, used, cur, shut>>,
               \A m \in Sessions : m # n => tracks'[m] = tracks[m],
               tracks' = tracks \/ to \in {"mic", "camera"},
               from \in {"mic", "camera"} => to \in {"mic", "camera"},
               send' = IF to = "recv" THEN n ELSE send, to = "recv" \/ to \notin {"mic", "camera"} \/ send = n,
               to \in {"mic", "camera"} => recv' = n,
               to \notin {"mic", "camera"} => recv' = recv
        PROVE  Joins'
    <3>1. n = used /\ status = "connecting" /\ cur = n
      BY <2>1 DEF Joins, JoinStages
    <3>2. \A m \in Sessions : job'[m] = IF m = n THEN to ELSE job[m]
      BY <2>1 DEF TypeOK
    <3>3. \A m \in Sessions \ {n} :
            /\ job[m] \notin {"media", "dial", "join"} \cup Awaiting
            /\ sock[m] \notin {"dialing", "open"} /\ sock'[m] = sock[m]
      BY <2>1, <3>1 DEF Joins, JoinStages, TypeOK
    <3>4. sock'[n] = IF at = "dialing" THEN "open" ELSE at
      BY <2>1 DEF TypeOK
    <3>5. ASSUME NEW m \in Sessions
          PROVE  JoinStages(m)'
      <4>1. CASE m = n
        BY <2>1, <3>1, <3>2, <3>4, <4>1 DEF Joins, JoinStages, Awaiting
      <4>2. CASE m # n
        BY <2>1, <3>2, <3>3, <4>2 DEF Joins, JoinStages, Awaiting
      <4>3. QED BY <4>1, <4>2
    <3>6. QED BY <1>0, <2>1, <3>1, <3>2, <3>5 DEF Joins
  <2>2. ASSUME NEW devs \in SUBSET Own, GotMedia(n, devs)
        PROVE  Joins'
    <3>1. CASE devs = {}
      BY <2>0, <2>2, <3>1 DEF GotMedia, wire, own
    <3>2. CASE devs # {}
      <4>1. /\ job[n] = "media" /\ job' = [job EXCEPT ![n] = "dial"]
            /\ tracks' = [tracks EXCEPT ![n] = devs] /\ cur' = n
            /\ sock' = [sock EXCEPT ![n] = "dialing"]
            /\ UNCHANGED <<status, used, send, recv, shut>>
        BY <2>2, <3>2 DEF GotMedia, own
      <4>2. n = used /\ status = "connecting" /\ sock[n] = "none"
        BY <4>1 DEF Joins, JoinStages
      <4>3. \A m \in Sessions :
              /\ job'[m] = IF m = n THEN "dial" ELSE job[m]
              /\ tracks'[m] = IF m = n THEN devs ELSE tracks[m]
              /\ sock'[m] = IF m = n THEN "dialing" ELSE sock[m]
        BY <4>1 DEF TypeOK
      <4>4. \A m \in Sessions \ {n} :
              /\ job[m] \notin {"media", "dial", "join"} \cup Awaiting
              /\ sock[m] \notin {"dialing", "open"}
        BY <4>2 DEF Joins, JoinStages
      <4>5. ASSUME NEW m \in Sessions
            PROVE  JoinStages(m)'
        <5>1. CASE m = n
          BY <3>2, <4>1, <4>2, <4>3, <5>1, <1>0 DEF Joins, JoinStages, Awaiting
        <5>2. CASE m # n
          BY <4>1, <4>3, <4>4, <5>2 DEF Joins, JoinStages, Awaiting
        <5>3. QED BY <5>1, <5>2
      <4>6. QED BY <1>0, <4>1, <4>2, <4>3, <4>5 DEF Joins
    <3>3. QED BY <3>1, <3>2
  <2>3. CASE Opened(n)
    <3>1. /\ sock[n] = "dialing" /\ sock' = [sock EXCEPT ![n] = "open"]
          /\ job' = [job EXCEPT ![n] = "join"]
          /\ UNCHANGED <<status, used, tracks, cur, send, recv, shut>>
      BY <2>3 DEF Opened, own
    <3>2. job[n] = "dial"
      BY <3>1 DEF Joins, JoinStages
    <3>3. QED BY <2>1, <3>1, <3>2 DEF Awaiting
  <2>4. CASE Joined(n)
    <3>1. /\ sock[n] = "open" /\ job[n] = "join" /\ job' = [job EXCEPT ![n] = "device"]
          /\ UNCHANGED <<status, used, tracks, cur, sock, send, recv, shut>>
      BY <2>4 DEF Joined, wire, own
    <3>2. QED BY <2>1, <3>1 DEF Awaiting
  <2>5. CASE Refuse(n)
    BY <1>1, <2>5 DEF Refuse, wire
  <2>6. CASE DeviceLoaded(n)
    <3>1. /\ job[n] = "device" /\ job' = [job EXCEPT ![n] = "send"]
          /\ UNCHANGED <<status, used, tracks, cur, sock, send, recv, shut>>
      BY <2>6 DEF DeviceLoaded, wire, own
    <3>2. sock[n] \in {"dialing", "open", "ending", "closed"}
      BY <3>1 DEF Joins, JoinStages, TypeOK, Awaiting
    <3>3. sock[n] # "dialing"
      BY <3>1 DEF Joins, JoinStages
    <3>4. QED BY <2>1, <3>1, <3>2, <3>3 DEF Awaiting
  <2>7. CASE SendReady(n)
    <3>1. /\ job[n] = "send" /\ sock[n] = "open" /\ job' = [job EXCEPT ![n] = "recv"]
          /\ send' = n /\ UNCHANGED <<status, used, tracks, cur, sock, recv, shut>>
      BY <2>7 DEF SendReady, wire
    <3>2. QED BY <2>1, <3>1 DEF Awaiting
  <2>8. CASE RecvReady(n)
    <3>1. /\ job[n] = "recv" /\ sock[n] = "open" /\ job' = [job EXCEPT ![n] = NextTrack(tracks[n])]
          /\ recv' = n /\ UNCHANGED <<status, used, tracks, cur, sock, send, shut>>
      BY <2>8 DEF RecvReady, wire
    <3>2. tracks[n] \in SUBSET Own /\ tracks[n] # {} /\ send = n
      BY <3>1 DEF TypeOK, Joins, JoinStages
    <3>3. NextTrack(tracks[n]) \in {"mic", "camera"}
      BY <3>2, NextTrackIs
    <3>4. QED BY <2>1, <3>1, <3>2, <3>3 DEF Awaiting
  <2>9. CASE Produced(n)
    <3>1. /\ sock[n] = "open" /\ n = cur /\ n = used
          /\ UNCHANGED <<used, cur, sock, send, recv, shut>>
          /\ \A m \in Sessions : m # n => tracks'[m] = tracks[m]
          /\ TrackAnswered(n) \/ ScreenAnswered(n) \/ NobodyAnswered(n)
      BY <2>9, ProducedGives DEF wire
    <3>2. CASE TrackAnswered(n)
      <4>1. job[n] \in {"mic", "camera"} /\ send = n /\ recv = n
        BY <3>2 DEF TrackAnswered, Joins, JoinStages
      <4>2. CASE Finish(n)
        <5>1. job' = [job EXCEPT ![n] = "joined"] /\ status' = "live"
          BY <4>2 DEF Finish
        <5>2. \A m \in Sessions : job'[m] = IF m = n THEN "joined" ELSE job[m]
          BY <5>1 DEF TypeOK
        <5>3. status = "connecting" /\ \A m \in Sessions \ {n} :
                job[m] \notin {"media", "dial", "join"} \cup Awaiting
          BY <3>1, <4>1 DEF Joins, JoinStages, Awaiting
        <5>4. \A m \in Sessions \ {n} : job[m] = "joined" => m \in shut
          BY <3>1 DEF Joins, JoinStages
        <5>5. ASSUME NEW m \in Sessions
              PROVE  JoinStages(m)'
          <6>1. CASE m = n
            <7>1. /\ sock'[m] = "open" /\ job'[m] = "joined" /\ m = cur' /\ m = used'
                  /\ status' = "live"
              BY <3>1, <5>1, <5>2, <6>1
            <7>2. ~(m > used')
              BY <1>0, <7>1
            <7>3. QED BY <7>1, <7>2 DEF JoinStages, Awaiting
          <6>2. CASE m # n
            BY <3>1, <5>1, <5>2, <5>3, <5>4, <6>2 DEF Joins, JoinStages, Awaiting
          <6>3. QED BY <6>1, <6>2
        <5>6. /\ used' > 0 /\ job'[used'] = "joined" /\ cur' = used' /\ send' = used'
              /\ recv' = used'
          <6>1. used > 0
            BY <1>0, <3>1
          <6>2. QED BY <3>1, <4>1, <5>2, <6>1
        <5>7. QED BY <5>1, <5>5, <5>6 DEF Joins
      <4>3. ASSUME NEW next \in {"mic", "camera"}, job' = [job EXCEPT ![n] = next],
                   UNCHANGED status
            PROVE  Joins'
        BY <2>1, <3>1, <4>1, <4>3 DEF Awaiting
      <4>4. QED BY <3>2, <4>2, <4>3 DEF TrackAnswered
    <3>3. CASE ScreenAnswered(n) \/ NobodyAnswered(n)
      BY <1>1, <3>1, <3>3 DEF ScreenAnswered, NobodyAnswered
    <3>4. QED BY <3>1, <3>2, <3>3
  <2>10. CASE JoinFails(n)
    BY <2>0, <2>10 DEF JoinFails, Awaiting, wire, own
  <2>11. CASE Lose(n) \/ CloseEvent(n)
    <3>1. /\ \/ sock[n] \in {"dialing", "open"} /\ sock' = [sock EXCEPT ![n] = "ending"]
             \/ sock[n] = "ending" /\ sock' = [sock EXCEPT ![n] = "closed"]
          /\ UNCHANGED <<status, used, job, tracks, cur, send, recv, shut>>
      BY <2>11 DEF Lose, CloseEvent, session, own
    <3>2. \A m \in Sessions : \/ sock'[m] = sock[m]
                              \/ sock'[m] \in {"ending", "closed"} /\ sock[m] # "none"
      BY <3>1 DEF TypeOK
    <3>3. QED BY <3>1, <3>2 DEF Joins, JoinStages
  <2>12. QED
    BY <1>6, <2>2, <2>3, <2>4, <2>5, <2>6, <2>7, <2>8, <2>9, <2>10, <2>11 DEF SessionStep
<1>7. ASSUME NEW p \in Peers, PeerShares(p) \/ PeerStops(p)
      PROVE  Joins'
  BY <1>1, <1>7 DEF PeerShares, PeerStops, session, wire, own
<1>8. QED
  BY <1>2, <1>3, <1>4, <1>5, <1>6, <1>7 DEF Next

(***************************************************************************)
(* The transports                                                          *)
(***************************************************************************)
LEMMA TransportsKept ==
  ASSUME TypeOK, QueueRuns, Joins, Transports, Next
  PROVE  Transports'
<1> USE NoneIsNot
<1>0. /\ used \in Nat /\ Sessions = 1..MaxJoins /\ MaxJoins \in Nat
      /\ used > 0 => used \in Sessions
      /\ send \in Sessions \cup {None} /\ recv \in Sessions \cup {None}
      /\ share.of \in Sessions \cup {None}
  BY MeetPageAssumption DEF TypeOK, Sessions
<1>1. ASSUME UNCHANGED <<status, used, job, send, recv, shut, share>>
      PROVE  Transports'
  BY <1>1 DEF Transports
\* A join goes on from a stage at which it has not been left, and no transport
\* of it is lost sight of.
<1>2. ASSUME NEW n \in Sessions, NEW to \in Jobs, job[n] \notin {"joined", "failed"},
             job' = [job EXCEPT ![n] = to],
             job[n] \in {"recv", "mic", "camera"} => to \in {"mic", "camera", "joined", "failed"},
             status' = "live" => n = used' \/ (status = "live" /\ used' = used),
             send' = send \/ (send' = n /\ to = "recv"),
             recv' = recv \/ (recv' = n /\ to \in {"mic", "camera"}),
             UNCHANGED <<shut, share>>
      PROVE  Transports'
  <2>1. \A m \in Sessions : job'[m] = IF m = n THEN to ELSE job[m]
    BY <1>2 DEF TypeOK
  <2>2. \A m \in shut : m \in Sessions /\ m # n
    BY <1>2 DEF Transports, TypeOK
  <2>3. \A m \in shut' : job'[m] = "joined" /\ ~(status' = "live" /\ m = used')
    BY <1>2, <2>1, <2>2 DEF Transports
  <2>4. send' # None => job'[send'] \in {"recv", "mic", "camera", "joined", "failed"}
    BY <1>0, <1>2, <2>1 DEF Transports
  <2>5. recv' # None => job'[recv'] \in {"mic", "camera", "joined", "failed"}
    BY <1>0, <1>2, <2>1 DEF Transports
  <2>6. share.stage \in {"producing", "on"} => job'[share.of] \in {"joined", "failed"}
    BY <1>0, <1>2, <2>1 DEF Transports
  <2>7. QED BY <1>2, <2>3, <2>4, <2>5, <2>6 DEF Transports
<1>3. CASE Join
  <2>1. /\ used < MaxJoins /\ status' = "connecting" /\ job' = [job EXCEPT ![used + 1] = "media"]
        /\ UNCHANGED <<send, recv, shut, share>>
    BY <1>3 DEF Join, own, sharing
  <2>2. used + 1 \in Sessions /\ used + 1 > used
    BY <1>0, <2>1
  <2>3. job[used + 1] = "none"
    BY <2>2 DEF Joins, JoinStages
  <2>4. QED BY <1>2, <2>1, <2>2, <2>3 DEF Jobs
<1>4. CASE Leave
  <2>1. /\ status = "live" /\ status' = "idle" /\ shut' = shut \cup {send, recv}
        /\ (share' = share /\ share.stage = "picking") \/ share' = NoShare
        /\ UNCHANGED <<used, job, send, recv>>
    BY <1>4 DEF Leave
  <2>2. send = used /\ recv = used /\ job[used] = "joined"
    BY <2>1 DEF Joins
  <2>3. QED BY <2>1, <2>2 DEF Transports, NoShare
<1>5. CASE ConsumeAnswered \/ ConsumeRefused \/ ConsumeDone
  BY <1>1, <1>5 DEF ConsumeAnswered, ConsumeRefused, ConsumeDone, session, own, sharing
<1>6. CASE StartScreenShare
  <2>1. /\ status = "live" /\ share' = [stage |-> "picking", of |-> cur]
        /\ UNCHANGED <<status, used, job, send, recv, shut>>
    BY <1>6 DEF StartScreenShare, session, own
  <2>2. send # None
    BY <1>0, <2>1 DEF Joins
  <2>3. QED BY <2>1, <2>2 DEF Transports
<1>7. CASE PickerCancelled \/ StopScreenShare
  <2>1. share' = NoShare /\ UNCHANGED <<status, used, job, send, recv, shut>>
    BY <1>7 DEF PickerCancelled, StopScreenShare, session, own
  <2>2. QED BY <2>1 DEF Transports, NoShare
<1>8. CASE Picked
  <2>1. /\ share' = NoShare \/ share' = [stage |-> "producing", of |-> send]
        /\ \A n \in Sessions : job[n] \notin Awaiting
        /\ share.stage = "picking"
        /\ UNCHANGED <<status, used, job, send, recv, shut>>
    BY <1>8 DEF Picked, session
  <2>2. send # None /\ job[send] \in {"joined", "failed"}
    BY <1>0, <2>1 DEF Transports, Awaiting
  <2>3. QED BY <2>1, <2>2 DEF Transports, NoShare
<1>9. ASSUME NEW n \in Sessions, SessionStep(n)
      PROVE  Transports'
  <2>1. ASSUME NEW devs \in SUBSET Own, GotMedia(n, devs)
        PROVE  Transports'
    <3>1. /\ job[n] = "media" /\ UNCHANGED <<used, send, recv, shut, share>>
          /\ \/ job' = [job EXCEPT ![n] = "failed"] /\ status' = "idle"
             \/ job' = [job EXCEPT ![n] = "dial"] /\ status' = status
      BY <2>1 DEF GotMedia, own, sharing
    <3>2. QED BY <1>2, <3>1 DEF Jobs
  <2>2. CASE Opened(n)
    <3>1. /\ sock[n] = "dialing" /\ job' = [job EXCEPT ![n] = "join"]
          /\ UNCHANGED <<status, used, send, recv, shut, share>>
      BY <2>2 DEF Opened, own, sharing
    <3>2. job[n] = "dial"
      BY <3>1 DEF Joins, JoinStages
    <3>3. QED BY <1>2, <3>1, <3>2 DEF Jobs
  <2>3. CASE Joined(n) \/ DeviceLoaded(n)
    <3>1. /\ \/ job[n] = "join" /\ job' = [job EXCEPT ![n] = "device"]
             \/ job[n] = "device" /\ job' = [job EXCEPT ![n] = "send"]
          /\ UNCHANGED <<status, used, send, recv, shut, share>>
      BY <2>3 DEF Joined, DeviceLoaded, own, sharing
    <3>2. QED BY <1>2, <3>1 DEF Jobs, Awaiting
  <2>4. CASE Refuse(n)
    BY <1>1, <2>4 DEF Refuse, sharing
  <2>5. CASE SendReady(n)
    <3>1. /\ job[n] = "send" /\ job' = [job EXCEPT ![n] = "recv"] /\ send' = n
          /\ UNCHANGED <<status, used, recv, shut, share>>
      BY <2>5 DEF SendReady, sharing
    <3>2. QED BY <1>2, <3>1 DEF Jobs, Awaiting
  <2>6. CASE RecvReady(n)
    <3>1. /\ job[n] = "recv" /\ job' = [job EXCEPT ![n] = NextTrack(tracks[n])]
          /\ recv' = n /\ UNCHANGED <<status, used, send, shut, share>>
      BY <2>6 DEF RecvReady, sharing
    <3>2. tracks[n] \in SUBSET Own /\ tracks[n] # {}
      BY <3>1 DEF TypeOK, Joins, JoinStages
    <3>3. NextTrack(tracks[n]) \in {"mic", "camera"}
      BY <3>2, NextTrackIs
    <3>4. QED BY <1>2, <3>1, <3>3 DEF Jobs, Awaiting
  <2>7. CASE Produced(n)
    <3>1. /\ n = used /\ UNCHANGED <<used, send, recv, shut>>
          /\ TrackAnswered(n) \/ ScreenAnswered(n) \/ NobodyAnswered(n)
      BY <2>7, ProducedGives
    <3>2. CASE TrackAnswered(n)
      <4>1. /\ job[n] \in {"mic", "camera"} /\ UNCHANGED share
            /\ \/ job' = [job EXCEPT ![n] = "joined"]
               \/ UNCHANGED status /\ job' = [job EXCEPT ![n] = "mic"]
               \/ UNCHANGED status /\ job' = [job EXCEPT ![n] = "camera"]
        BY <3>2 DEF TrackAnswered, Finish
      <4>2. QED BY <1>2, <3>1, <4>1 DEF Jobs, Awaiting
    <3>3. CASE ScreenAnswered(n)
      <4>1. /\ share = [stage |-> "producing", of |-> n] /\ share' = [share EXCEPT !.stage = "on"]
            /\ UNCHANGED <<status, job>>
        BY <3>3 DEF ScreenAnswered
      <4>2. share' = [stage |-> "on", of |-> n]
        BY <4>1
      <4>3. QED BY <3>1, <4>1, <4>2 DEF Transports
    <3>4. CASE NobodyAnswered(n)
      BY <1>1, <3>1, <3>4 DEF NobodyAnswered
    <3>5. QED BY <3>1, <3>2, <3>3, <3>4
  <2>8. CASE JoinFails(n)
    <3>1. /\ job[n] \in {"device", "mic", "camera"} /\ job' = [job EXCEPT ![n] = "failed"]
          /\ status' = "idle" /\ UNCHANGED <<used, send, recv, shut, share>>
      BY <2>8 DEF JoinFails, own, sharing
    <3>2. QED BY <1>2, <3>1 DEF Jobs
  <2>9. CASE Lose(n) \/ CloseEvent(n)
    BY <1>1, <2>9 DEF Lose, CloseEvent, session, own, sharing
  <2>10. QED
    BY <1>9, <2>1, <2>2, <2>3, <2>4, <2>5, <2>6, <2>7, <2>8, <2>9 DEF SessionStep
<1>10. ASSUME NEW p \in Peers, PeerShares(p) \/ PeerStops(p)
       PROVE  Transports'
  BY <1>1, <1>10 DEF PeerShares, PeerStops, session, own, sharing
<1>11. QED
  BY <1>3, <1>4, <1>5, <1>6, <1>7, <1>8, <1>9, <1>10 DEF Next

(***************************************************************************)
(* The requests                                                            *)
(***************************************************************************)
LEMMA AskedKept ==
  ASSUME TypeOK, QueueRuns, Joins, Transports, Asked, Next
  PROVE  Asked'
<1>1. ASSUME UNCHANGED <<job, sock, asked, refused, swallowed>>
      PROVE  Asked'
  BY <1>1 DEF Asked
\* What is awaited next is no device.
<1>2. ASSUME NEW n \in Sessions, NEW to, to \notin {"mic", "camera"},
             job' = [job EXCEPT ![n] = to], UNCHANGED <<asked, refused, swallowed>>,
             \A m \in Sessions : m # n => sock'[m] = sock[m]
      PROVE  Asked'
  <2>1. \A m \in Sessions : job'[m] = IF m = n THEN to ELSE job[m]
    BY <1>2 DEF TypeOK
  <2>2. QED BY <1>2, <2>1 DEF Asked
<1>3. CASE Join
  <2>1. /\ used < MaxJoins /\ job' = [job EXCEPT ![used + 1] = "media"]
        /\ UNCHANGED <<sock, asked, refused, swallowed>>
    BY <1>3 DEF Join, wire, own
  <2>2. used + 1 \in Sessions
    BY <2>1, MeetPageAssumption DEF TypeOK, Sessions
  <2>3. QED BY <1>2, <2>1, <2>2
<1>4. CASE Leave
  <2>1. /\ status = "live" /\ asked' = [asked EXCEPT ![cur] = "none"]
        /\ sock' = [sock EXCEPT ![cur] = IF @ \in {"dialing", "open"} THEN "ending" ELSE @]
        /\ UNCHANGED <<job, refused, swallowed>>
    BY <1>4 DEF Leave
  <2>2. job[cur] = "joined"
    BY <2>1 DEF Joins
  <2>3. \A m \in Sessions : m # cur => asked'[m] = asked[m] /\ sock'[m] = sock[m]
    BY <2>1 DEF TypeOK
  <2>4. QED BY <2>1, <2>2, <2>3 DEF Asked
<1>5. CASE ConsumeAnswered \/ ConsumeRefused \/ ConsumeDone
  BY <1>1, <1>5 DEF ConsumeAnswered, ConsumeRefused, ConsumeDone, session, wire, own
<1>6. CASE StartScreenShare \/ PickerCancelled \/ StopScreenShare
  BY <1>1, <1>6 DEF StartScreenShare, PickerCancelled, StopScreenShare, session, wire, own
<1>7. CASE Picked
  <2>1. UNCHANGED job /\ \A n \in Sessions : job[n] \notin Awaiting
    BY <1>7 DEF Picked, session
  <2>2. QED BY <2>1 DEF Asked, Awaiting
<1>8. ASSUME NEW n \in Sessions, SessionStep(n)
      PROVE  Asked'
  <2>1. ASSUME NEW devs \in SUBSET Own, GotMedia(n, devs)
        PROVE  Asked'
    <3>1. /\ \/ job' = [job EXCEPT ![n] = "failed"] /\ UNCHANGED sock
             \/ job' = [job EXCEPT ![n] = "dial"] /\ sock' = [sock EXCEPT ![n] = "dialing"]
          /\ UNCHANGED <<asked, refused, swallowed>>
      BY <2>1 DEF GotMedia, wire, own
    <3>2. \A m \in Sessions : m # n => sock'[m] = sock[m]
      BY <3>1 DEF TypeOK
    <3>3. QED BY <1>2, <3>1, <3>2
  <2>2. CASE Opened(n)
    <3>1. /\ job' = [job EXCEPT ![n] = "join"] /\ sock' = [sock EXCEPT ![n] = "open"]
          /\ UNCHANGED <<asked, refused, swallowed>>
      BY <2>2 DEF Opened, own
    <3>2. \A m \in Sessions : m # n => sock'[m] = sock[m]
      BY <3>1 DEF TypeOK
    <3>3. QED BY <1>2, <3>1, <3>2
  <2>3. CASE Joined(n) \/ DeviceLoaded(n) \/ SendReady(n) \/ JoinFails(n)
    <3>1. /\ \/ job' = [job EXCEPT ![n] = "device"] \/ job' = [job EXCEPT ![n] = "send"]
             \/ job' = [job EXCEPT ![n] = "recv"] \/ job' = [job EXCEPT ![n] = "failed"]
          /\ UNCHANGED <<sock, asked, refused, swallowed>>
      BY <2>3 DEF Joined, DeviceLoaded, SendReady, JoinFails, wire, own
    <3>2. QED BY <1>2, <3>1
  <2>4. CASE Refuse(n)
    <3>1. /\ refused' = refused \cup {n} /\ asked' = [asked EXCEPT ![n] = "none"]
          /\ UNCHANGED <<job, sock, swallowed>>
      BY <2>4 DEF Refuse, wire
    <3>2. \A m \in Sessions : m # n => asked'[m] = asked[m]
      BY <3>1 DEF TypeOK
    <3>3. QED BY <3>1, <3>2 DEF Asked
  <2>5. ASSUME NEW next \in {"mic", "camera"}, job' = [job EXCEPT ![n] = next],
               asked' = [asked EXCEPT ![n] = next], UNCHANGED <<sock, refused, swallowed>>
        PROVE  Asked'
    <3>1. /\ asked'[n] = next /\ next # "none"
          /\ \A m \in Sessions : m # n => job'[m] = job[m] /\ asked'[m] = asked[m]
      BY <2>5 DEF TypeOK
    <3>2. QED BY <2>5, <3>1 DEF Asked
  <2>6. CASE RecvReady(n)
    <3>1. /\ job[n] = "recv" /\ sock[n] = "open"
          /\ job' = [job EXCEPT ![n] = NextTrack(tracks[n])]
          /\ asked' = [asked EXCEPT ![n] = NextTrack(tracks[n])]
          /\ UNCHANGED <<sock, refused, swallowed>>
      BY <2>6 DEF RecvReady, Produce, wire
    <3>2. tracks[n] \in SUBSET Own /\ tracks[n] # {}
      BY <3>1 DEF TypeOK, Joins, JoinStages
    <3>3. QED BY <2>5, <3>1, <3>2, NextTrackIs
  <2>7. CASE Produced(n)
    <3>1. /\ sock[n] = "open" /\ UNCHANGED <<sock, refused>>
          /\ TrackAnswered(n) \/ ScreenAnswered(n) \/ NobodyAnswered(n)
      BY <2>7, ProducedGives DEF wire
    <3>2. ASSUME asked' = [asked EXCEPT ![n] = "none"], swallowed \subseteq swallowed',
                 NEW to, job' = [job EXCEPT ![n] = to],
                 to \notin {"mic", "camera"} \/ n \in swallowed'
          PROVE  Asked'
      <4>1. \A m \in Sessions : m # n => job'[m] = job[m] /\ asked'[m] = asked[m]
        BY <3>2 DEF TypeOK
      <4>2. job'[n] = to
        BY <3>2 DEF TypeOK
      <4>3. QED BY <3>1, <3>2, <4>1, <4>2 DEF Asked
    <3>3. job = [job EXCEPT ![n] = job[n]]
      BY DEF TypeOK
    <3>4. CASE TrackAnswered(n)
      <4>1. CASE Finish(n) /\ asked' = [asked EXCEPT ![n] = "none"]
        BY <3>2, <3>4, <4>1 DEF TrackAnswered, Finish
      <4>2. QED BY <2>5, <3>1, <3>4, <4>1 DEF TrackAnswered
    <3>5. CASE ScreenAnswered(n)
      <4>1. /\ share = [stage |-> "producing", of |-> n] /\ asked' = [asked EXCEPT ![n] = "none"]
            /\ UNCHANGED <<job, swallowed>>
        BY <3>5 DEF ScreenAnswered
      <4>2. job[n] \in {"joined", "failed"}
        BY <4>1 DEF Transports
      <4>3. QED BY <3>2, <3>3, <4>1, <4>2
    <3>6. CASE NobodyAnswered(n)
      BY <3>2, <3>3, <3>6 DEF NobodyAnswered
    <3>7. QED BY <3>1, <3>4, <3>5, <3>6
  <2>8. CASE Lose(n)
    <3>1. /\ sock' = [sock EXCEPT ![n] = "ending"] /\ asked' = [asked EXCEPT ![n] = "none"]
          /\ UNCHANGED <<job, refused, swallowed>>
      BY <2>8 DEF Lose, session
    <3>2. /\ sock'[n] = "ending"
          /\ \A m \in Sessions : m # n => sock'[m] = sock[m] /\ asked'[m] = asked[m]
      BY <3>1 DEF TypeOK
    <3>3. QED BY <3>1, <3>2 DEF Asked
  <2>9. CASE CloseEvent(n)
    <3>1. sock' = [sock EXCEPT ![n] = "closed"] /\ UNCHANGED <<job, asked, refused, swallowed>>
      BY <2>9 DEF CloseEvent, session, own
    <3>2. \A m \in Sessions : sock'[m] = sock[m] \/ sock'[m] = "closed"
      BY <3>1 DEF TypeOK
    <3>3. QED BY <3>1, <3>2 DEF Asked
  <2>10. QED
    BY <1>8, <2>1, <2>2, <2>3, <2>4, <2>6, <2>7, <2>8, <2>9 DEF SessionStep
<1>9. ASSUME NEW p \in Peers, PeerShares(p) \/ PeerStops(p)
      PROVE  Asked'
  BY <1>1, <1>9 DEF PeerShares, PeerStops, session, wire, own
<1>10. QED
  BY <1>3, <1>4, <1>5, <1>6, <1>7, <1>8, <1>9 DEF Next

(***************************************************************************)
(* The types                                                               *)
(***************************************************************************)
LEMMA ShareShapes ==
  /\ NoShare \in [stage : {"off", "picking", "producing", "on"}, of : Sessions \cup {None}]
  /\ \A at \in {"picking", "producing"}, n \in Sessions \cup {None} :
       [stage |-> at, of |-> n]
         \in [stage : {"off", "picking", "producing", "on"}, of : Sessions \cup {None}]
BY DEF NoShare

LEMMA TypeKept ==
  ASSUME TypeOK, QueueRuns, Joins, Transports, Joins', Next
  PROVE  TypeOK'
<1> USE NoneIsNot
\* What the stages of a join say of the types, the joins themselves say.
<1>0. /\ status' = "live" => cur' = used' /\ job'[cur'] = "joined"
      /\ \A n \in Sessions : job'[n] \in Awaiting => n = used' /\ status' = "connecting"
  BY DEF Joins, JoinStages
\* The rest goes variable by variable.
<1> DEFINE Page(st, us, jo, tr, cu, so, sn, re) ==
             /\ st \in {"idle", "connecting", "live"} /\ us \in 0..MaxJoins
             /\ jo \in [Sessions -> Jobs] /\ tr \in [Sessions -> SUBSET Own]
             /\ cu \in Sessions \cup {None}
             /\ so \in [Sessions -> {"none", "dialing", "open", "ending", "closed"}]
             /\ sn \in [Sessions -> SUBSET Peers] /\ re \subseteq Sessions
           Media(se, rc, sh, fi, ak, sw, pi, ca) ==
             /\ se \in Sessions \cup {None} /\ rc \in Sessions \cup {None} /\ sh \subseteq Sessions
             /\ fi \in Lines /\ ak \in [Sessions -> Own \cup {"screen", "none"}]
             /\ sw \subseteq Sessions
             /\ pi \in [stage : {"off", "picking", "producing", "on"}, of : Sessions \cup {None}]
             /\ ca \in BOOLEAN
           Remotes(ti, wo, qu, li, mi, un) ==
             /\ ti \in [Peers -> Sessions \cup {None}] /\ wo \in Works /\ qu \in Seq(Peers)
             /\ li \in [Peers -> {"away", "sharing", "gone"}]
             /\ mi \subseteq Peers /\ un \subseteq Peers
<1> DEFINE PageOK    == Page(status, used, job, tracks, cur, sock, snap, refused)
           MediaOK   == Media(send, recv, shut, fifo, asked, swallowed, share, captured)
           RemotesOK == Remotes(tiles, work, queue, life, missed, unheard)
<1>1. PageOK /\ MediaOK /\ RemotesOK
  BY DEF TypeOK, Jobs, Lines, Works
<1>2. ASSUME PageOK', MediaOK', RemotesOK'
      PROVE  TypeOK'
  BY <1>0, <1>2 DEF TypeOK, Jobs, Lines, Works
<1>3. UNCHANGED <<session, wire>> => PageOK'
  BY <1>1 DEF session, wire
<1>4. UNCHANGED <<own, sharing>> => MediaOK'
  BY <1>1 DEF own, sharing
<1>5. UNCHANGED <<remote, life>> => RemotesOK'
  BY <1>1 DEF remote
<1>6. ASSUME work.stage # "none", Drain(queue)
      PROVE  work' \in Works /\ queue' \in Seq(Peers)
  BY <1>6, DrainKeeps
<1>7. work.stage # "none" => work.who \in Peers
  BY DEF QueueRuns
<1>8. CASE Join
  <2>1. PageOK'
    BY <1>1, <1>8, MeetPageAssumption DEF Join, wire, Jobs, Sessions
  <2>2. QED BY <1>2, <1>4, <1>5, <1>8, <2>1 DEF Join
<1>9. CASE Leave
  <2>1. PageOK'
    BY <1>1, <1>9 DEF Leave
  <2>2. MediaOK'
    <3>1. send \in Sessions /\ recv \in Sessions
      BY <1>1, <1>9 DEF Leave, Joins
    <3>2. share' \in {share, NoShare}
      BY <1>9 DEF Leave
    <3>3. asked' \in [Sessions -> Own \cup {"screen", "none"}] /\ captured' \in BOOLEAN
      BY <1>1, <1>9 DEF Leave
    <3>4. QED BY <1>1, <1>9, <3>1, <3>2, <3>3, ShareShapes DEF Leave
  <2>3. RemotesOK'
    BY <1>1, <1>9 DEF Leave
  <2>4. QED BY <1>2, <2>1, <2>2, <2>3
<1>10. CASE ConsumeAnswered
  <2>1. RemotesOK'
    BY <1>1, <1>10 DEF ConsumeAnswered, Works
  <2>2. QED BY <1>2, <1>3, <1>4, <1>10, <2>1 DEF ConsumeAnswered
<1>11. CASE ConsumeRefused
  <2>1. RemotesOK'
    BY <1>1, <1>6, <1>7, <1>11 DEF ConsumeRefused
  <2>2. QED BY <1>2, <1>3, <1>4, <1>11, <2>1 DEF ConsumeRefused
<1>12. CASE ConsumeDone
  <2>1. work.on \in Sessions \cup {None} /\ tiles' \in [Peers -> Sessions \cup {None}]
    BY <1>1, <1>12 DEF ConsumeDone, Works
  <2>2. RemotesOK'
    BY <1>1, <1>6, <1>12, <2>1 DEF ConsumeDone
  <2>3. QED BY <1>2, <1>3, <1>4, <1>12, <2>2 DEF ConsumeDone
<1>13. CASE StartScreenShare \/ PickerCancelled \/ StopScreenShare
  <2>1. share' \in {NoShare, [stage |-> "picking", of |-> cur]} /\ captured' \in {captured, FALSE}
    BY <1>13 DEF StartScreenShare, PickerCancelled, StopScreenShare
  <2>2. UNCHANGED own
    BY <1>13 DEF StartScreenShare, PickerCancelled, StopScreenShare
  <2>3. share' \in [stage : {"off", "picking", "producing", "on"}, of : Sessions \cup {None}]
    BY <1>1, <2>1, ShareShapes
  <2>4. captured' \in BOOLEAN
    BY <1>1, <2>1
  <2>5. MediaOK'
    BY <1>1, <2>2, <2>3, <2>4 DEF own
  <2>6. QED BY <1>2, <1>3, <1>5, <1>13, <2>5 DEF StartScreenShare, PickerCancelled, StopScreenShare
<1>14. CASE Picked
  <2>1. send \in Sessions
    BY <1>1, <1>14 DEF Picked, Transports
  <2>2. Append(fifo, <<send, "screen">>) \in Lines
    BY <1>1, <2>1, LineGrows
  <2>3. share' \in {NoShare, [stage |-> "producing", of |-> send]} /\ captured' \in {FALSE, TRUE}
    BY <1>14 DEF Picked
  <2>4. fifo' \in Lines /\ asked' \in [Sessions -> Own \cup {"screen", "none"}]
    BY <1>1, <1>14, <2>1, <2>2 DEF Picked, Produce
  <2>5. MediaOK'
    <3>1. UNCHANGED <<send, recv, shut, swallowed>>
      BY <1>14 DEF Picked
    <3>2. share' \in [stage : {"off", "picking", "producing", "on"}, of : Sessions \cup {None}]
      BY <2>1, <2>3, ShareShapes
    <3>3. QED BY <1>1, <2>3, <2>4, <3>1, <3>2
  <2>6. QED BY <1>2, <1>3, <1>5, <1>14, <2>5 DEF Picked
<1>15. ASSUME NEW n \in Sessions, SessionStep(n)
       PROVE  TypeOK'
  <2>1. ASSUME NEW devs \in SUBSET Own, GotMedia(n, devs)
        PROVE  TypeOK'
    <3>1. UNCHANGED <<used, snap, refused>>
      BY <2>1 DEF GotMedia
    <3>2. status' \in {status, "idle"} /\ cur' \in {cur, n}
      BY <2>1 DEF GotMedia, wire
    <3>3. \E j \in {"failed", "dial"} : job' = [job EXCEPT ![n] = j]
      BY <2>1 DEF GotMedia
    <3>4. tracks' \in {tracks, [tracks EXCEPT ![n] = devs]}
      BY <2>1 DEF GotMedia
    <3>5. sock' \in {sock, [sock EXCEPT ![n] = "dialing"]}
      BY <2>1 DEF GotMedia, wire
    <3>6. job' \in [Sessions -> Jobs]
      BY <1>1, <3>3 DEF Jobs, Awaiting
    <3>7. tracks' \in [Sessions -> SUBSET Own]
      BY <1>1, <3>4
    <3>8. sock' \in [Sessions -> {"none", "dialing", "open", "ending", "closed"}]
      BY <1>1, <3>5
    <3>9. PageOK'
      BY <1>1, <3>1, <3>2, <3>6, <3>7, <3>8
    <3>10. QED BY <1>2, <1>4, <1>5, <2>1, <3>9 DEF GotMedia
  <2>2. CASE Opened(n) \/ DeviceLoaded(n) \/ JoinFails(n)
    <3>1. /\ UNCHANGED <<used, tracks, snap, refused, cur, own, sharing, remote, life>>
          /\ status' \in {status, "idle"}
          /\ sock' \in {sock, [sock EXCEPT ![n] = "open"]}
      BY <2>2 DEF Opened, DeviceLoaded, JoinFails, wire
    <3>2. \E j \in {"join", "send", "failed"} : job' = [job EXCEPT ![n] = j]
      BY <2>2 DEF Opened, DeviceLoaded, JoinFails
    <3>3. status' \in {"idle", "connecting", "live"}
      BY <1>1, <3>1
    <3>4. job' \in [Sessions -> Jobs]
      BY <1>1, <3>2 DEF Jobs, Awaiting
    <3>5. sock' \in [Sessions -> {"none", "dialing", "open", "ending", "closed"}]
      BY <1>1, <3>1
    <3>6. PageOK'
      BY <1>1, <3>1, <3>3, <3>4, <3>5
    <3>7. QED BY <1>2, <1>4, <1>5, <3>1, <3>6
  <2>3. CASE Joined(n)
    <3>1. /\ UNCHANGED <<status, used, tracks, refused, cur, sock, own, sharing, remote, life>>
          /\ job' = [job EXCEPT ![n] = "device"] /\ snap' = [snap EXCEPT ![n] = Sharing]
      BY <2>3 DEF Joined, wire
    <3>2. job' \in [Sessions -> Jobs] /\ snap' \in [Sessions -> SUBSET Peers]
      BY <1>1, <3>1 DEF Jobs, Awaiting, Sharing
    <3>3. PageOK'
      BY <1>1, <3>1, <3>2
    <3>4. QED BY <1>2, <1>4, <1>5, <3>1, <3>3
  <2>4. CASE Refuse(n)
    <3>1. PageOK' /\ MediaOK'
      BY <1>1, <2>4 DEF Refuse, wire, sharing
    <3>2. QED BY <1>2, <1>5, <2>4, <3>1 DEF Refuse
  <2>5. CASE SendReady(n)
    <3>1. PageOK' /\ MediaOK'
      BY <1>1, <2>5 DEF SendReady, wire, sharing, Jobs, Awaiting
    <3>2. QED BY <1>2, <1>5, <2>5, <3>1 DEF SendReady
  <2>6. CASE RecvReady(n)
    <3>1. tracks[n] \in SUBSET Own /\ tracks[n] # {}
      BY <1>1, <2>6 DEF RecvReady, Joins, JoinStages
    <3>2. NextTrack(tracks[n]) \in {"mic", "camera"}
      BY <3>1, NextTrackIs
    <3>3. NextTrack(tracks[n]) \in Own /\ NextTrack(tracks[n]) \in Jobs
      BY <3>2 DEF Own, Jobs, Awaiting
    <3>4. Append(fifo, <<n, NextTrack(tracks[n])>>) \in Lines
      BY <1>1, <3>3, LineGrows
    <3>5. /\ job' = [job EXCEPT ![n] = NextTrack(tracks[n])]
          /\ fifo' = Append(fifo, <<n, NextTrack(tracks[n])>>)
          /\ asked' = [asked EXCEPT ![n] = NextTrack(tracks[n])]
          /\ recv' = n
          /\ UNCHANGED <<status, used, tracks, snap, refused, cur, sock, send, shut, swallowed,
                         share, captured, remote, life>>
      BY <2>6 DEF RecvReady, Produce, wire, sharing
    <3>6. PageOK'
      BY <1>1, <3>3, <3>5
    <3>7. MediaOK'
      BY <1>1, <3>3, <3>4, <3>5
    <3>8. QED BY <1>2, <1>5, <3>5, <3>6, <3>7
  <2>7. CASE Produced(n)
    <3>1. /\ tracks' \in [Sessions -> SUBSET Own] /\ fifo' \in Lines
          /\ UNCHANGED <<used, refused, cur, sock, send, recv, shut, life>>
          /\ TrackAnswered(n) \/ ScreenAnswered(n) \/ NobodyAnswered(n)
      BY <2>7, ProducedGives DEF wire
    <3>2. CASE TrackAnswered(n)
      <4>1. job[n] \in {"mic", "camera"} /\ UNCHANGED <<swallowed, share, captured>>
        BY <3>2 DEF TrackAnswered
      <4>2. CASE Finish(n) /\ asked' = [asked EXCEPT ![n] = "none"]
        <5>1. recv # None
          BY <4>1 DEF Joins, JoinStages
        <5>2. /\ job' = [job EXCEPT ![n] = "joined"] /\ snap' = [snap EXCEPT ![n] = {}]
              /\ status' = "live" /\ missed' = missed \ snap[n] /\ UNCHANGED <<tiles, unheard>>
              /\ work' \in Works /\ queue' \in Seq(Peers)
          BY <4>2, <5>1, FinishGives
        <5>3. PageOK'
          BY <1>1, <3>1, <5>2 DEF Jobs
        <5>4. MediaOK'
          BY <1>1, <3>1, <4>1, <4>2
        <5>5. RemotesOK'
          BY <1>1, <3>1, <5>2
        <5>6. QED BY <1>2, <5>3, <5>4, <5>5
      <4>3. ASSUME NEW next \in {"mic", "camera"},
                   job' = [job EXCEPT ![n] = next], asked' = [asked EXCEPT ![n] = next],
                   UNCHANGED <<status, snap, remote>>
            PROVE  TypeOK'
        <5>1. next \in Jobs /\ next \in Own
          BY DEF Jobs, Awaiting, Own
        <5>2. PageOK'
          BY <1>1, <3>1, <4>3, <5>1
        <5>3. MediaOK'
          BY <1>1, <3>1, <4>1, <4>3, <5>1
        <5>4. QED BY <1>2, <1>5, <3>1, <4>3, <5>2, <5>3
      <4>4. QED BY <3>2, <4>2, <4>3 DEF TrackAnswered
    <3>3. CASE ScreenAnswered(n)
      <4>1. PageOK'
        BY <1>1, <3>1, <3>3 DEF ScreenAnswered
      <4>2. MediaOK'
        BY <1>1, <3>1, <3>3 DEF ScreenAnswered
      <4>3. QED BY <1>2, <1>5, <3>1, <3>3, <4>1, <4>2 DEF ScreenAnswered
    <3>4. CASE NobodyAnswered(n)
      <4>1. PageOK'
        BY <1>1, <3>1, <3>4 DEF NobodyAnswered
      <4>2. MediaOK'
        BY <1>1, <3>1, <3>4 DEF NobodyAnswered
      <4>3. QED BY <1>2, <1>5, <3>1, <3>4, <4>1, <4>2 DEF NobodyAnswered
    <3>5. QED BY <3>1, <3>2, <3>3, <3>4
  <2>8. CASE Lose(n)
    <3>1. PageOK' /\ MediaOK'
      BY <1>1, <2>8 DEF Lose, session, sharing
    <3>2. QED BY <1>2, <1>5, <2>8, <3>1 DEF Lose
  <2>9. CASE CloseEvent(n)
    <3>1. PageOK'
      BY <1>1, <2>9 DEF CloseEvent, session
    <3>2. RemotesOK'
      BY <1>1, <1>6, <1>7, <2>9 DEF CloseEvent
    <3>3. QED BY <1>2, <1>4, <2>9, <3>1, <3>2 DEF CloseEvent
  <2>10. QED
    BY <1>15, <2>1, <2>2, <2>3, <2>4, <2>5, <2>6, <2>7, <2>8, <2>9 DEF SessionStep
<1>16. ASSUME NEW p \in Peers, PeerShares(p)
       PROVE  TypeOK'
  <2>1. ASSUME Enqueue(<<p>>)
        PROVE  work' \in Works /\ queue' \in Seq(Peers)
    BY <2>1, EnqueueGives, ShortQueues
  <2>2. RemotesOK'
    BY <1>1, <1>16, <2>1 DEF PeerShares
  <2>3. QED BY <1>2, <1>3, <1>4, <1>16, <2>2 DEF PeerShares
<1>17. ASSUME NEW p \in Peers, PeerStops(p)
       PROVE  TypeOK'
  <2>1. RemotesOK'
    BY <1>1, <1>17 DEF PeerStops, Removed
  <2>2. QED BY <1>2, <1>3, <1>4, <1>17, <2>1 DEF PeerStops
<1>18. QED
  BY <1>8, <1>9, <1>10, <1>11, <1>12, <1>13, <1>14, <1>15, <1>16, <1>17 DEF Next

(***************************************************************************)
(* The queue                                                               *)
(***************************************************************************)
LEMMA QueueRunsKept ==
  ASSUME TypeOK, QueueRuns, Joins, Transports, Transports', Next
  PROVE  QueueRuns'
<1> USE NoneIsNot
<1>0. /\ used \in Nat /\ Sessions = 1..MaxJoins /\ MaxJoins \in Nat
      /\ recv \in Sessions \cup {None} /\ cur \in Sessions \cup {None}
      /\ work.on \in Sessions \cup {None}
  BY MeetPageAssumption DEF TypeOK, Sessions
\* The run goes on: its session stays where it was or goes on.
<1>1. ASSUME work' = work, work.stage = "none" => queue' = queue,
             UNCHANGED <<cur, recv, shut>>,
             work.on # None =>
               /\ job'[work.on] \in {"mic", "camera", "joined", "failed"}
               /\ job[work.on] = "failed" => job'[work.on] = "failed",
             Settling => work.who \in Sharing' \cup unheard'
      PROVE  QueueRuns'
  <2>1. Settling' = Settling
    BY <1>1 DEF Settling
  <2>2. Settling => work.on # None
    BY DEF Settling, QueueRuns
  <2>3. QED BY <1>1, <2>1, <2>2 DEF QueueRuns
\* The next one begins, or none does.
<1>2. ASSUME \/ work' = Idle /\ queue' = <<>>
             \/ /\ work'.stage = "request" /\ work'.who \in Peers
                /\ work'.on \in {recv, None} /\ recv # None,
             UNCHANGED <<cur, recv>>
      PROVE  QueueRuns'
  <2>1. CASE work' = Idle /\ queue' = <<>>
    BY <2>1, IdleIs DEF QueueRuns, Settling
  <2>2. CASE /\ work'.stage = "request" /\ work'.who \in Peers
             /\ work'.on \in {recv, None} /\ recv # None
    BY <1>2, <2>2 DEF QueueRuns, Settling, Transports
  <2>3. QED BY <1>2, <2>1, <2>2
<1>3. ASSUME work.stage # "none", Drain(queue), UNCHANGED <<cur, recv>>
      PROVE  QueueRuns'
  <2>1. recv # None
    BY <1>3 DEF QueueRuns
  <2>2. \/ work' = Idle /\ queue' = <<>>
        \/ work'.stage = "request" /\ work'.who \in Peers /\ work'.on \in {recv, None}
    BY <1>3, DrainKeeps
  <2>3. QED BY <1>2, <1>3, <2>1, <2>2
<1>4. /\ Settling => work.who \in Sharing \cup unheard
      /\ work.on # None => job[work.on] \in {"mic", "camera", "joined", "failed"}
  BY DEF QueueRuns
<1>5. ASSUME UNCHANGED <<work, queue, cur, recv, shut, life, unheard>>,
             NEW n \in Sessions, NEW to, job' = [job EXCEPT ![n] = to],
             job[n] \notin {"joined", "failed"},
             job[n] \in {"mic", "camera"} => to \in {"mic", "camera", "joined", "failed"}
      PROVE  QueueRuns'
  <2>1. \A m \in Sessions : job'[m] = IF m = n THEN to ELSE job[m]
    BY <1>5 DEF TypeOK
  <2>2. Sharing' = Sharing
    BY <1>5 DEF Sharing
  <2>3. QED BY <1>0, <1>1, <1>4, <1>5, <2>1, <2>2
<1>6. ASSUME UNCHANGED <<work, queue, cur, recv, shut, life, unheard, job>>
      PROVE  QueueRuns'
  BY <1>1, <1>4, <1>6 DEF Sharing
<1>7. CASE Join
  <2>1. /\ used < MaxJoins /\ job' = [job EXCEPT ![used + 1] = "media"]
        /\ UNCHANGED <<work, queue, cur, recv, shut, life, unheard>>
    BY <1>7 DEF Join, wire, own, remote
  <2>2. used + 1 \in Sessions /\ used + 1 > used
    BY <1>0, <2>1
  <2>3. job[used + 1] = "none"
    BY <2>2 DEF Joins, JoinStages
  <2>4. QED BY <1>5, <2>1, <2>2, <2>3
<1>8. CASE Leave
  <2>1. /\ shut' = shut \cup {send, recv} /\ UNCHANGED <<work, queue, cur, recv, life, job>>
        /\ unheard' = IF work.stage = "consume" /\ work.on \notin shut'
                      THEN unheard \cap {work.who} ELSE {}
    BY <1>8 DEF Leave
  <2>2. Settling' => Settling /\ (work.who \in unheard => work.who \in unheard')
    BY <2>1 DEF Settling
  <2>3. Sharing' = Sharing
    BY <2>1 DEF Sharing
  <2>4. QED BY <2>1, <2>2, <2>3 DEF QueueRuns
<1>9. CASE ConsumeAnswered
  <2>1. /\ work.stage = "request" /\ Open /\ work.on = cur /\ work.who \in Sharing
        /\ work' = [work EXCEPT !.stage = "consume", !.on = recv]
        /\ UNCHANGED <<queue, unheard, life, job, cur, recv, shut>>
    BY <1>9 DEF ConsumeAnswered, Admitted, session, wire, own
  <2>2. recv = cur /\ cur # None /\ work.who \in Peers
    BY <2>1 DEF QueueRuns, Open
  <2>3. /\ work'.stage = "consume" /\ work'.on = recv /\ work'.who = work.who
    BY <2>1 DEF TypeOK
  <2>4. work.who \in Sharing' /\ job[recv] \in {"mic", "camera", "joined", "failed"}
    BY <2>1, <2>2 DEF Sharing, Transports
  <2>5. QED BY <2>1, <2>2, <2>3, <2>4 DEF QueueRuns
<1>10. CASE ConsumeRefused \/ ConsumeDone
  <2>1. work.stage # "none" /\ Drain(queue) /\ UNCHANGED <<cur, recv>>
    BY <1>10 DEF ConsumeRefused, ConsumeDone, wire, own
  <2>2. QED BY <1>3, <2>1
<1>11. CASE StartScreenShare \/ PickerCancelled \/ Picked \/ StopScreenShare
  BY <1>6, <1>11 DEF StartScreenShare, PickerCancelled, Picked, StopScreenShare,
                     session, wire, own, remote
<1>12. ASSUME NEW n \in Sessions, SessionStep(n)
       PROVE  QueueRuns'
  <2>1. ASSUME NEW devs \in SUBSET Own, GotMedia(n, devs)
        PROVE  QueueRuns'
    <3>1. /\ job[n] = "media" /\ UNCHANGED <<work, queue, recv, shut, life, unheard>>
          /\ \/ job' = [job EXCEPT ![n] = "failed"] /\ cur' = cur
             \/ job' = [job EXCEPT ![n] = "dial"] /\ cur' = n
      BY <2>1 DEF GotMedia, wire, own, remote
    <3>2. CASE cur' = n /\ job' = [job EXCEPT ![n] = "dial"]
      <4>1. work.on # n
        BY <1>4, <3>1
      <4>2. work.on # None => job'[work.on] = job[work.on]
        BY <1>0, <3>2, <4>1 DEF TypeOK
      <4>3. Sharing' = Sharing /\ Settling' = Settling
        BY <3>1 DEF Sharing, Settling
      <4>4. Settling => work.on # None
        BY DEF Settling, QueueRuns
      <4>5. QED BY <3>1, <3>2, <4>1, <4>2, <4>3, <4>4 DEF QueueRuns
    <3>3. QED BY <1>5, <3>1, <3>2
  <2>2. CASE Opened(n)
    <3>1. /\ sock[n] = "dialing" /\ job' = [job EXCEPT ![n] = "join"]
          /\ UNCHANGED <<work, queue, cur, recv, shut, life, unheard>>
      BY <2>2 DEF Opened, own, remote
    <3>2. job[n] = "dial"
      BY <3>1 DEF Joins, JoinStages
    <3>3. QED BY <1>5, <3>1, <3>2
  <2>3. CASE Joined(n) \/ DeviceLoaded(n) \/ SendReady(n)
    <3>1. /\ job[n] \in {"join", "device", "send"}
          /\ \/ job' = [job EXCEPT ![n] = "device"] \/ job' = [job EXCEPT ![n] = "send"]
             \/ job' = [job EXCEPT ![n] = "recv"]
          /\ UNCHANGED <<work, queue, cur, recv, shut, life, unheard>>
      BY <2>3 DEF Joined, DeviceLoaded, SendReady, wire, own, remote
    <3>2. QED BY <1>5, <3>1
  <2>4. CASE JoinFails(n)
    <3>1. /\ job[n] \in {"device", "mic", "camera"} /\ job' = [job EXCEPT ![n] = "failed"]
          /\ UNCHANGED <<work, queue, cur, recv, shut, life, unheard>>
      BY <2>4 DEF JoinFails, wire, own, remote
    <3>2. QED BY <1>5, <3>1
  <2>5. CASE RecvReady(n)
    <3>1. /\ job[n] = "recv" /\ recv' = n /\ job' = [job EXCEPT ![n] = NextTrack(tracks[n])]
          /\ UNCHANGED <<work, queue, cur, shut, life, unheard>>
      BY <2>5 DEF RecvReady, wire, remote
    <3>2. n = cur /\ n = used /\ status = "connecting"
      BY <3>1 DEF Joins, JoinStages, Awaiting
    <3>3. work.on # n /\ (work.on # None => job'[work.on] = job[work.on])
      BY <1>0, <1>4, <3>1 DEF TypeOK
    \* A run on the transport this one replaces: that was left, or the join failed.
    <3>4. Settling => job[work.on] = "failed"
      <4>1. Settling => work.on \in Sessions /\ work.on \notin shut
        BY <1>0 DEF Settling, QueueRuns
      <4>2. Settling => job[work.on] \notin {"mic", "camera", "joined"}
        BY <3>2, <3>3, <4>1 DEF Joins, JoinStages, Awaiting
      <4>3. QED BY <1>4, <4>1, <4>2
    <3>5. Sharing' = Sharing /\ Settling' = Settling
      BY <3>1 DEF Sharing, Settling
    <3>6. Settling => work.on # None
      BY DEF Settling, QueueRuns
    <3>7. QED BY <3>1, <3>2, <3>3, <3>4, <3>5, <3>6 DEF QueueRuns
  <2>6. CASE Produced(n)
    <3>1. /\ UNCHANGED <<cur, recv, shut, life>>
          /\ TrackAnswered(n) \/ ScreenAnswered(n) \/ NobodyAnswered(n)
      BY <2>6, ProducedGives DEF wire
    <3>2. CASE TrackAnswered(n)
      <4>1. job[n] \in {"mic", "camera"}
        BY <3>2 DEF TrackAnswered
      <4>2. CASE Finish(n)
        <5>1. recv # None
          BY <4>1 DEF Joins, JoinStages
        <5>2. /\ job' = [job EXCEPT ![n] = "joined"] /\ UNCHANGED unheard
              /\ \/ work' = Idle /\ queue' = <<>>
                 \/ /\ work'.stage = "request" /\ work'.who \in Peers
                    /\ work'.on \in {recv, None}
                 \/ work # Idle /\ work' = work
          BY <4>2, <5>1, FinishGives
        <5>3. CASE work # Idle /\ work' = work
          <6>1. \A m \in Sessions : job'[m] = IF m = n THEN "joined" ELSE job[m]
            BY <5>2 DEF TypeOK
          <6>2. Sharing' = Sharing /\ work.stage # "none"
            BY <3>1, <5>3 DEF Sharing, QueueRuns
          <6>3. QED BY <1>0, <1>1, <1>4, <3>1, <4>1, <5>2, <5>3, <6>1, <6>2
        <5>4. QED BY <1>2, <3>1, <5>1, <5>2, <5>3
      <4>3. ASSUME NEW next \in {"mic", "camera"}, job' = [job EXCEPT ![n] = next],
                   UNCHANGED remote
            PROVE  QueueRuns'
        BY <1>5, <3>1, <4>1, <4>3 DEF remote
      <4>4. QED BY <3>2, <4>2, <4>3 DEF TrackAnswered
    <3>3. CASE ScreenAnswered(n) \/ NobodyAnswered(n)
      BY <1>6, <3>1, <3>3 DEF ScreenAnswered, NobodyAnswered, remote
    <3>4. QED BY <3>1, <3>2, <3>3
  <2>7. CASE Refuse(n) \/ Lose(n)
    BY <1>6, <2>7 DEF Refuse, Lose, session, wire, remote
  <2>8. CASE CloseEvent(n)
    <3>1. /\ UNCHANGED <<cur, recv, shut, job, life, unheard>>
          /\ IF work.stage = "request" THEN Drain(queue) ELSE UNCHANGED <<work, queue>>
      BY <2>8 DEF CloseEvent, session, own
    <3>2. QED BY <1>3, <1>6, <3>1
  <2>9. QED
    BY <1>12, <2>1, <2>2, <2>3, <2>4, <2>5, <2>6, <2>7, <2>8 DEF SessionStep
<1>13. ASSUME NEW p \in Peers, PeerShares(p)
       PROVE  QueueRuns'
  <2>1. /\ life' = [life EXCEPT ![p] = "sharing"]
        /\ IF Admitted THEN Enqueue(<<p>>) ELSE UNCHANGED <<work, queue>>
        /\ UNCHANGED <<unheard, job, cur, recv, shut>>
    BY <1>13 DEF PeerShares, session, wire, own
  <2>2. Sharing \subseteq Sharing'
    BY <2>1 DEF Sharing, TypeOK
  <2>3. CASE Admitted
    <3>1. /\ \/ work' = Idle /\ queue' = <<>>
             \/ /\ work'.stage = "request" /\ work'.who \in Peers /\ recv # None
                /\ work'.on \in {recv, None}
             \/ work # Idle /\ work' = work
      BY <2>1, <2>3, EnqueueGives, ShortQueues
    <3>2. work # Idle => work.stage # "none"
      BY DEF QueueRuns
    <3>3. CASE work # Idle /\ work' = work
      BY <1>1, <1>4, <2>1, <2>2, <3>2, <3>3
    <3>4. QED BY <1>2, <2>1, <3>1, <3>3
  <2>4. CASE ~Admitted
    BY <1>1, <1>4, <2>1, <2>2, <2>4
  <2>5. QED BY <2>3, <2>4
<1>14. ASSUME NEW p \in Peers, PeerStops(p)
       PROVE  QueueRuns'
  <2>1. /\ life' = [life EXCEPT ![p] = "gone"]
        /\ unheard' = IF ~Admitted \/ (work.who = p /\ work.stage = "consume")
                      THEN unheard \cup {p} ELSE unheard
        /\ UNCHANGED <<work, queue, job, cur, recv, shut>>
    BY <1>14 DEF PeerStops, session, wire, own
  <2>2. Sharing \ {p} \subseteq Sharing' /\ unheard \subseteq unheard'
    BY <2>1 DEF Sharing, TypeOK
  <2>3. Settling /\ work.who = p => p \in unheard'
    BY <2>1 DEF Settling
  <2>4. QED BY <1>1, <1>4, <2>1, <2>2, <2>3
<1>15. QED
  BY <1>7, <1>8, <1>9, <1>10, <1>11, <1>12, <1>13, <1>14 DEF Next

(***************************************************************************)
(* The tiles                                                               *)
(***************************************************************************)
\* A join that has failed is not taken up again.
LEMMA FailedStays ==
  ASSUME TypeOK, Joins, Next
  PROVE  \A m \in Sessions : job[m] = "failed" => job'[m] = "failed"
<1> USE NoneIsNot
<1>0. /\ used \in Nat /\ Sessions = 1..MaxJoins /\ MaxJoins \in Nat
  BY MeetPageAssumption DEF TypeOK, Sessions
<1> DEFINE Stays == \A m \in Sessions : job[m] = "failed" => job'[m] = "failed"
<1>1. ASSUME NEW n \in Sessions, job[n] # "failed", NEW to, job' = [job EXCEPT ![n] = to]
      PROVE  Stays
  BY <1>1 DEF TypeOK
<1>2. UNCHANGED job => Stays
  OBVIOUS
<1>3. CASE Join
  <2>1. used + 1 \in Sessions /\ used + 1 > used /\ job' = [job EXCEPT ![used + 1] = "media"]
    BY <1>0, <1>3 DEF Join
  <2>2. job[used + 1] # "failed"
    BY <2>1 DEF Joins, JoinStages
  <2>3. QED BY <1>1, <2>1, <2>2
<1>4. CASE Leave \/ ConsumeAnswered \/ ConsumeRefused \/ ConsumeDone
  BY <1>2, <1>4 DEF Leave, ConsumeAnswered, ConsumeRefused, ConsumeDone, session
<1>5. CASE StartScreenShare \/ PickerCancelled \/ Picked \/ StopScreenShare
  BY <1>2, <1>5 DEF StartScreenShare, PickerCancelled, Picked, StopScreenShare, session
<1>6. ASSUME NEW n \in Sessions, SessionStep(n)
      PROVE  Stays
  <2>1. ASSUME NEW devs \in SUBSET Own, GotMedia(n, devs)
        PROVE  Stays
    <3>1. /\ job[n] = "media"
          /\ job' = [job EXCEPT ![n] = "failed"] \/ job' = [job EXCEPT ![n] = "dial"]
      BY <2>1 DEF GotMedia
    <3>2. QED BY <1>1, <3>1
  <2>2. CASE Opened(n)
    <3>1. sock[n] = "dialing" /\ job' = [job EXCEPT ![n] = "join"]
      BY <2>2 DEF Opened
    <3>2. job[n] = "dial"
      BY <3>1 DEF Joins, JoinStages
    <3>3. QED BY <1>1, <3>1, <3>2
  <2>3. CASE Joined(n) \/ DeviceLoaded(n) \/ SendReady(n) \/ JoinFails(n)
    <3>1. /\ job[n] \in {"join", "device", "send", "mic", "camera"}
          /\ \/ job' = [job EXCEPT ![n] = "device"] \/ job' = [job EXCEPT ![n] = "send"]
             \/ job' = [job EXCEPT ![n] = "recv"] \/ job' = [job EXCEPT ![n] = "failed"]
      BY <2>3 DEF Joined, DeviceLoaded, SendReady, JoinFails
    <3>2. QED BY <1>1, <3>1
  <2>4. CASE RecvReady(n)
    BY <1>1, <2>4 DEF RecvReady
  <2>5. CASE Produced(n)
    <3>1. TrackAnswered(n) \/ ScreenAnswered(n) \/ NobodyAnswered(n)
      BY <2>5, ProducedGives
    <3>2. CASE TrackAnswered(n)
      <4>1. /\ job[n] \in {"mic", "camera"}
            /\ \/ job' = [job EXCEPT ![n] = "joined"] \/ job' = [job EXCEPT ![n] = "mic"]
               \/ job' = [job EXCEPT ![n] = "camera"]
        BY <3>2 DEF TrackAnswered, Finish
      <4>2. QED BY <1>1, <4>1
    <3>3. QED BY <1>2, <3>1, <3>2 DEF ScreenAnswered, NobodyAnswered
  <2>6. CASE Refuse(n) \/ Lose(n) \/ CloseEvent(n)
    BY <1>2, <2>6 DEF Refuse, Lose, CloseEvent, session
  <2>7. QED
    BY <1>6, <2>1, <2>2, <2>3, <2>4, <2>5, <2>6 DEF SessionStep
<1>7. ASSUME NEW p \in Peers, PeerShares(p) \/ PeerStops(p)
      PROVE  Stays
  BY <1>2, <1>7 DEF PeerShares, PeerStops, session
<1>8. QED BY <1>3, <1>4, <1>5, <1>6, <1>7 DEF Next

LEMMA TilesKept ==
  ASSUME TypeOK, QueueRuns, Joins, Transports, Tiles, Next
  PROVE  Tiles'
<1> USE NoneIsNot
<1>0. /\ \A m \in Sessions : job[m] = "failed" => job'[m] = "failed"
      /\ tiles \in [Peers -> Sessions \cup {None}]
  BY FailedStays DEF TypeOK
\* No tile is made, none moves to another transport.
<1>1. ASSUME \A p \in Peers : tiles'[p] # None =>
               tiles'[p] = tiles[p] /\ (p \in Sharing \cup unheard => p \in Sharing' \cup unheard'),
             UNCHANGED <<recv, shut>>
      PROVE  Tiles'
  BY <1>0, <1>1 DEF Tiles, Shown
<1>2. UNCHANGED <<tiles, life, unheard, recv, shut>> => Tiles'
  BY <1>1 DEF Sharing
<1>3. CASE Leave
  <2>1. \A p \in Peers : tiles'[p] = None
    BY <1>3 DEF Leave
  <2>2. QED BY <2>1 DEF Tiles, Shown
<1>4. CASE ConsumeDone
  <2>1. /\ work.stage = "consume" /\ UNCHANGED <<life, unheard, recv, shut>>
        /\ IF work.on \in shut THEN tiles' = tiles
           ELSE tiles' = [tiles EXCEPT ![work.who] = work.on]
    BY <1>4 DEF ConsumeDone, own
  <2>2. CASE work.on \in shut
    BY <1>2, <2>1, <2>2
  <2>3. CASE work.on \notin shut
    <3>1. /\ work.who \in Peers /\ work.who \in Sharing \cup unheard
          /\ work.on = recv \/ job[work.on] = "failed"
          /\ work.on \in Sessions
      BY <2>1, <2>3 DEF QueueRuns, Settling, TypeOK
    <3>2. \A p \in Peers : tiles'[p] = IF p = work.who THEN work.on ELSE tiles[p]
      BY <1>0, <2>1, <2>3
    <3>3. Sharing' = Sharing
      BY <2>1 DEF Sharing
    <3>4. QED BY <1>0, <2>1, <2>3, <3>1, <3>2, <3>3 DEF Tiles, Shown
  <2>4. QED BY <2>2, <2>3
<1>5. CASE Join \/ ConsumeAnswered \/ ConsumeRefused
  BY <1>2, <1>5 DEF Join, ConsumeAnswered, ConsumeRefused, own, remote
<1>6. CASE StartScreenShare \/ PickerCancelled \/ Picked \/ StopScreenShare
  BY <1>2, <1>6 DEF StartScreenShare, PickerCancelled, Picked, StopScreenShare, own, remote
<1>7. ASSUME NEW n \in Sessions, SessionStep(n)
      PROVE  Tiles'
  \* A tile on the transport this one replaces: that was left, or the join failed.
  <2>1. CASE RecvReady(n)
    <3>1. /\ job[n] = "recv" /\ recv' = n /\ UNCHANGED <<tiles, life, unheard, shut>>
      BY <2>1 DEF RecvReady, remote
    <3>2. n = used /\ status = "connecting"
      BY <3>1 DEF Joins, JoinStages, Awaiting
    <3>3. ASSUME NEW p \in Peers, tiles[p] # None
          PROVE  job[tiles[p]] = "failed"
      <4>1. tiles[p] \in Sessions /\ tiles[p] \notin shut
        BY <1>0, <3>3 DEF Tiles, Shown
      <4>2. CASE tiles[p] = recv
        <5>1. job[recv] \in {"mic", "camera", "joined", "failed"}
          BY <3>3, <4>2 DEF Transports
        <5>2. job[recv] \notin {"mic", "camera", "joined"}
          BY <3>1, <3>2, <4>1, <4>2 DEF Joins, JoinStages, Awaiting
        <5>3. QED BY <4>2, <5>1, <5>2
      <4>3. QED BY <3>3, <4>1, <4>2 DEF Tiles, Shown
    <3>4. Sharing' = Sharing
      BY <3>1 DEF Sharing
    <3>5. QED BY <1>0, <3>1, <3>3, <3>4 DEF Tiles, Shown
  <2>2. CASE Produced(n)
    <3>1. /\ UNCHANGED <<recv, shut, life>>
          /\ TrackAnswered(n) \/ ScreenAnswered(n) \/ NobodyAnswered(n)
      BY <2>2, ProducedGives
    <3>2. UNCHANGED <<tiles, unheard>>
      BY <3>1 DEF TrackAnswered, ScreenAnswered, NobodyAnswered, Finish, remote
    <3>3. QED BY <1>2, <3>1, <3>2
  <2>3. ASSUME NEW devs \in SUBSET Own, GotMedia(n, devs)
        PROVE  Tiles'
    BY <1>2, <2>3 DEF GotMedia, own, remote
  <2>4. CASE Opened(n) \/ Joined(n) \/ Refuse(n) \/ DeviceLoaded(n) \/ SendReady(n)
    BY <1>2, <2>4 DEF Opened, Joined, Refuse, DeviceLoaded, SendReady, own, remote
  <2>5. CASE JoinFails(n) \/ Lose(n) \/ CloseEvent(n)
    BY <1>2, <2>5 DEF JoinFails, Lose, CloseEvent, own, remote
  <2>6. QED BY <1>7, <2>1, <2>2, <2>3, <2>4, <2>5 DEF SessionStep
<1>8. ASSUME NEW p \in Peers, PeerShares(p)
      PROVE  Tiles'
  <2>1. /\ life' = [life EXCEPT ![p] = "sharing"] /\ UNCHANGED <<tiles, unheard, recv, shut>>
    BY <1>8 DEF PeerShares, own
  <2>2. Sharing \subseteq Sharing'
    BY <2>1 DEF Sharing, TypeOK
  <2>3. QED BY <1>1, <2>1, <2>2
<1>9. ASSUME NEW p \in Peers, PeerStops(p)
      PROVE  Tiles'
  <2>1. /\ life' = [life EXCEPT ![p] = "gone"] /\ tiles' = Removed(p)
        /\ unheard \subseteq unheard' /\ (~Admitted => p \in unheard')
        /\ UNCHANGED <<recv, shut>>
    BY <1>9 DEF PeerStops, own
  <2>2. Sharing \ {p} \subseteq Sharing'
    BY <2>1 DEF Sharing, TypeOK
  <2>3. \A q \in Peers : tiles'[q] = IF Admitted /\ q = p THEN None ELSE tiles[q]
    BY <1>0, <2>1 DEF Removed
  <2>4. QED BY <1>1, <2>1, <2>2, <2>3
<1>10. QED
  BY <1>3, <1>4, <1>5, <1>6, <1>7, <1>8, <1>9 DEF Next

(***************************************************************************)
(* What the page knows of the room                                         *)
(***************************************************************************)
Covered == Shown \cup missed \cup Waiting \cup Listed

\* What an enqueued sequence adds to what waits.
LEMMA EnqueueKeeps ==
  ASSUME TypeOK, QueueRuns, UNCHANGED shut, NEW S,
         \/ /\ work = Idle /\ work' = Idle /\ queue' = <<>>
            /\ recv = None \/ S = {}
         \/ /\ work = Idle /\ work'.stage = "request"
            /\ S = {work'.who} \cup Elements(queue')
         \/ /\ work # Idle /\ work' = work
            /\ Elements(queue') = Elements(queue) \cup S
  PROVE  /\ Waiting \subseteq Waiting'
         /\ recv # None => S \subseteq Waiting'
<1>1. Queued = Elements(queue) /\ Queued' = Elements(queue')
  BY DEF Queued, Elements
<1>2. CASE work = Idle
  <2>1. Waiting = {}
    BY <1>1, <1>2, IdleIs, ShortQueues DEF QueueRuns, Waiting, Settling
  <2>2. recv # None => S \subseteq Waiting'
    BY <1>1, <1>2 DEF Waiting
  <2>3. QED BY <2>1, <2>2
<1>3. CASE work # Idle
  BY <1>1, <1>3 DEF Waiting, Settling
<1>4. QED BY <1>2, <1>3

LEMMA KnownKept ==
  ASSUME TypeOK, QueueRuns, Joins, Transports, Known, Next
  PROVE  Known'
<1> USE NoneIsNot
<1>0. /\ cur \in Sessions \cup {None} /\ tiles \in [Peers -> Sessions \cup {None}]
      /\ Known <=> (Admitted /\ status # "idle" => Sharing \subseteq Covered)
      /\ Known' <=> (Admitted' /\ status' # "idle" => Sharing' \subseteq Covered')
  BY DEF TypeOK, Known, Covered
<1>1. ASSUME Admitted' /\ status' # "idle" =>
               /\ Admitted /\ status # "idle"
               /\ Sharing' \subseteq Sharing /\ Sharing' \cap Covered \subseteq Covered'
      PROVE  Known'
  BY <1>0, <1>1
<1>2. Open' \/ Admitted' => cur' # None /\ sock'[cur'] = "open"
  BY DEF Open, Admitted
<1>3. ASSUME UNCHANGED <<status, job, cur, sock, life, tiles, missed, snap, work, queue, shut>>
      PROVE  Known'
  BY <1>1, <1>3 DEF Admitted, Open, Sharing, Covered, Shown, Waiting, Queued, Settling, Listed
\* A join goes from one wait to the next.
<1>4. ASSUME NEW n \in Sessions, job[n] \in Awaiting, NEW to \in Awaiting,
             job' = [job EXCEPT ![n] = to],
             UNCHANGED <<status, cur, sock, life, tiles, missed, snap, work, queue, shut>>
      PROVE  Known'
  <2>1. n = cur /\ job'[n] = to
    BY <1>4, OpenIsNewest DEF TypeOK
  <2>2. Listed' = Listed /\ (Admitted' => Admitted)
    BY <1>4, <2>1 DEF Listed, Admitted, Open
  <2>3. Covered' = Covered /\ Sharing' = Sharing
    BY <1>4, <2>2 DEF Covered, Shown, Waiting, Queued, Settling, Sharing
  <2>4. QED BY <1>1, <1>4, <2>2, <2>3
\* A run ends: it made a tile, or was missed, or was on a transport that is closed.
<1>5. ASSUME work.stage # "none", Drain(queue),
             work.stage = "request" \/ Settling => work.who \in Shown' \cup missed',
             Shown \subseteq Shown', missed \subseteq missed',
             Open' => Open, UNCHANGED <<status, job, cur, life, snap>>
      PROVE  Known'
  <2>1. Queued \subseteq Waiting'
    BY <1>5, DrainKeeps
  <2>2. Waiting \subseteq Waiting' \cup Shown' \cup missed'
    BY <1>5, <2>1 DEF Waiting
  <2>3. Listed' = Listed /\ Sharing' = Sharing /\ (Admitted' => Admitted)
    BY <1>5 DEF Listed, Sharing, Admitted
  <2>4. Covered \subseteq Covered'
    BY <1>5, <2>2, <2>3 DEF Covered
  <2>5. QED BY <1>1, <1>5, <2>3, <2>4
<1>6. CASE Join
  <2>1. (\A n \in Sessions : sock[n] # "open") /\ UNCHANGED <<cur, sock>>
    BY <1>6 DEF Join, wire
  <2>2. QED BY <1>0, <1>2, <2>1
<1>7. CASE Leave
  BY <1>0, <1>7 DEF Leave
<1>8. CASE ConsumeAnswered
  <2>1. /\ work.stage = "request" /\ Admitted /\ work.on = cur
        /\ work' = [work EXCEPT !.stage = "consume", !.on = recv]
        /\ UNCHANGED <<status, used, job, cur, sock, life, tiles, missed, snap, queue, shut>>
    BY <1>8 DEF ConsumeAnswered, session, wire, own
  <2>2. cur # None /\ cur \in Sessions /\ cur = used /\ recv = cur
    BY <2>1, OpenIsNewest DEF QueueRuns
  <2>3. status # "idle" => cur \notin shut
    BY <2>1, <2>2 DEF Transports, Joins, Awaiting, TypeOK
  <2>4. work'.stage = "consume" /\ work'.on = recv /\ work'.who = work.who
    BY <2>1 DEF TypeOK
  <2>5. status # "idle" => Waiting \subseteq Waiting'
    BY <2>1, <2>2, <2>3, <2>4 DEF Waiting, Queued, Settling
  <2>6. Listed' = Listed /\ Sharing' = Sharing /\ Shown' = Shown
    BY <2>1 DEF Listed, Sharing, Shown
  <2>7. QED BY <1>1, <2>1, <2>5, <2>6 DEF Covered
<1>9. CASE ConsumeRefused
  <2>1. /\ work.stage # "none" /\ Drain(queue) /\ missed' = missed \cup {work.who}
        /\ UNCHANGED <<status, job, cur, sock, life, snap, tiles>>
    BY <1>9 DEF ConsumeRefused, session, wire
  <2>2. QED BY <1>5, <2>1 DEF Open, Shown
<1>10. CASE ConsumeDone
  <2>1. /\ work.stage = "consume" /\ Drain(queue)
        /\ IF work.on \in shut THEN tiles' = tiles
           ELSE tiles' = [tiles EXCEPT ![work.who] = work.on]
        /\ UNCHANGED <<status, job, cur, sock, life, snap, missed>>
    BY <1>10 DEF ConsumeDone, session, wire
  <2>2. work.who \in Peers /\ work.on # None
    BY <2>1 DEF QueueRuns
  <2>3. Shown \subseteq Shown' /\ (Settling => work.who \in Shown')
    BY <1>0, <2>1, <2>2 DEF Shown, Settling
  <2>4. QED BY <1>5, <2>1, <2>3 DEF Open
<1>11. CASE StartScreenShare \/ PickerCancelled \/ Picked \/ StopScreenShare
  BY <1>3, <1>11 DEF StartScreenShare, PickerCancelled, Picked, StopScreenShare,
                     session, wire, own, remote
<1>12. ASSUME NEW n \in Sessions, SessionStep(n)
       PROVE  Known'
  <2>1. ASSUME NEW devs \in SUBSET Own, GotMedia(n, devs)
        PROVE  Known'
    <3>1. \/ status' = "idle"
          \/ cur' = n /\ sock' = [sock EXCEPT ![n] = "dialing"]
      BY <2>1 DEF GotMedia
    <3>2. CASE cur' = n /\ sock' = [sock EXCEPT ![n] = "dialing"]
      <4>1. sock'[cur'] = "dialing"
        BY <3>2 DEF TypeOK
      <4>2. QED BY <1>0, <1>2, <4>1
    <3>3. QED BY <1>0, <3>1, <3>2
  <2>2. CASE Opened(n)
    <3>1. sock[n] = "dialing" /\ job' = [job EXCEPT ![n] = "join"] /\ UNCHANGED cur
      BY <2>2 DEF Opened
    <3>2. n = cur /\ job'[n] = "join"
      BY <3>1, OpenIsNewest DEF TypeOK
    <3>3. ~Admitted'
      BY <3>1, <3>2 DEF Admitted, Awaiting
    <3>4. QED BY <1>0, <3>3
  <2>3. CASE Joined(n)
    <3>1. /\ sock[n] = "open" /\ job' = [job EXCEPT ![n] = "device"]
          /\ snap' = [snap EXCEPT ![n] = Sharing] /\ UNCHANGED <<cur, life>>
      BY <2>3 DEF Joined, wire
    <3>2. n = cur /\ job'[n] = "device" /\ snap'[n] = Sharing
      <4>1. n = cur
        BY <3>1, OpenIsNewest
      <4>2. QED BY <3>1, <4>1 DEF TypeOK
    <3>3. Listed' = Sharing /\ Sharing' = Sharing
      BY <3>1, <3>2 DEF Listed, Sharing, Awaiting
    <3>4. QED BY <1>0, <3>3 DEF Covered
  <2>4. CASE DeviceLoaded(n) \/ SendReady(n)
    <3>1. /\ \/ job[n] = "device" /\ job' = [job EXCEPT ![n] = "send"]
             \/ job[n] = "send" /\ job' = [job EXCEPT ![n] = "recv"]
          /\ UNCHANGED <<status, cur, sock, life, tiles, missed, snap, work, queue, shut>>
      BY <2>4 DEF DeviceLoaded, SendReady, wire, own, remote
    <3>2. QED BY <1>4, <3>1 DEF Awaiting
  <2>5. CASE RecvReady(n)
    <3>1. /\ job[n] = "recv" /\ job' = [job EXCEPT ![n] = NextTrack(tracks[n])]
          /\ UNCHANGED <<status, cur, sock, life, tiles, missed, snap, work, queue, shut>>
      BY <2>5 DEF RecvReady, wire, remote
    <3>2. tracks[n] \in SUBSET Own /\ tracks[n] # {}
      BY <3>1 DEF TypeOK, Joins, JoinStages
    <3>3. NextTrack(tracks[n]) \in Awaiting /\ job[n] \in Awaiting
      BY <3>1, <3>2, NextTrackIs DEF Awaiting
    <3>4. QED BY <1>4, <3>1, <3>3
  <2>6. CASE Produced(n)
    <3>1. /\ n = cur /\ UNCHANGED <<cur, sock, shut, life>>
          /\ TrackAnswered(n) \/ ScreenAnswered(n) \/ NobodyAnswered(n)
      BY <2>6, ProducedGives DEF wire
    <3>2. CASE TrackAnswered(n)
      <4>1. job[n] \in {"mic", "camera"} /\ job[n] \in Awaiting
        BY <3>2 DEF TrackAnswered, Awaiting
      <4>2. CASE Finish(n)
        <5>1. recv # None /\ status # "idle"
          BY <4>1 DEF Joins, JoinStages
        <5>2. /\ missed' = missed \ snap[n] /\ UNCHANGED tiles
              /\ \/ /\ work = Idle /\ work' = Idle /\ queue' = <<>> /\ snap[n] = {}
                 \/ /\ work = Idle /\ work'.stage = "request"
                    /\ snap[n] = {work'.who} \cup Elements(queue')
                 \/ /\ work # Idle /\ work' = work
                    /\ Elements(queue') = Elements(queue) \cup snap[n]
          BY <4>2, <5>1, FinishGives
        <5>3. Waiting \subseteq Waiting' /\ snap[n] \subseteq Waiting'
          BY <3>1, <5>1, <5>2, EnqueueKeeps
        <5>4. Listed = snap[n] /\ Shown' = Shown /\ Sharing' = Sharing
          BY <3>1, <4>1, <5>2 DEF Listed, Shown, Sharing
        <5>5. Covered \subseteq Covered'
          BY <5>2, <5>3, <5>4 DEF Covered
        <5>6. Admitted' => Admitted
          BY <3>1, <4>1 DEF Admitted, Open
        <5>7. QED BY <1>1, <5>1, <5>4, <5>5, <5>6
      <4>3. ASSUME NEW next \in {"mic", "camera"}, job' = [job EXCEPT ![n] = next],
                   UNCHANGED <<status, snap, remote>>
            PROVE  Known'
        BY <1>4, <3>1, <4>1, <4>3 DEF remote, Awaiting
      <4>4. QED BY <3>2, <4>2, <4>3 DEF TrackAnswered
    <3>3. CASE ScreenAnswered(n) \/ NobodyAnswered(n)
      BY <1>3, <3>1, <3>3 DEF ScreenAnswered, NobodyAnswered, remote
    <3>4. QED BY <3>1, <3>2, <3>3
  <2>7. CASE JoinFails(n)
    BY <1>0, <2>7 DEF JoinFails
  <2>8. CASE Refuse(n)
    BY <1>3, <2>8 DEF Refuse, wire, remote
  <2>9. CASE Lose(n)
    <3>1. /\ sock' = [sock EXCEPT ![n] = "ending"]
          /\ UNCHANGED <<status, job, cur, life, tiles, missed, snap, work, queue, shut>>
      BY <2>9 DEF Lose, session, remote
    <3>2. Open' => Open
      BY <1>0, <3>1 DEF Open, TypeOK
    <3>3. QED
      BY <1>1, <3>1, <3>2 DEF Admitted, Sharing, Covered, Shown, Waiting, Queued, Settling, Listed
  <2>10. CASE CloseEvent(n)
    <3>1. /\ sock' = [sock EXCEPT ![n] = "closed"]
          /\ UNCHANGED <<status, job, cur, life, tiles, snap, shut>>
      BY <2>10 DEF CloseEvent, session, own
    <3>2. Open' => Open
      BY <1>0, <3>1 DEF Open, TypeOK
    <3>3. CASE work.stage = "request"
      <4>1. missed' = missed \cup {work.who} /\ Drain(queue)
        BY <2>10, <3>3 DEF CloseEvent
      <4>2. QED BY <1>5, <3>1, <3>2, <3>3, <4>1 DEF Shown
    <3>4. CASE work.stage # "request"
      <4>1. UNCHANGED <<missed, work, queue>>
        BY <2>10, <3>4 DEF CloseEvent
      <4>2. QED
        BY <1>1, <3>1, <3>2, <4>1
           DEF Admitted, Sharing, Covered, Shown, Waiting, Queued, Settling, Listed
    <3>5. QED BY <3>3, <3>4
  <2>11. QED
    BY <1>12, <2>1, <2>2, <2>3, <2>4, <2>5, <2>6, <2>7, <2>8, <2>9, <2>10 DEF SessionStep
<1>13. ASSUME NEW p \in Peers, PeerShares(p)
       PROVE  Known'
  <2>1. /\ life' = [life EXCEPT ![p] = "sharing"]
        /\ missed' = IF Admitted /\ recv # cur THEN missed \cup {p} ELSE missed
        /\ IF Admitted THEN Enqueue(<<p>>) ELSE UNCHANGED <<work, queue>>
        /\ UNCHANGED <<status, job, cur, sock, tiles, snap, recv, shut>>
    BY <1>13 DEF PeerShares, session, wire, own
  <2>2. Admitted' = Admitted /\ Shown' = Shown /\ Listed' = Listed
    BY <2>1 DEF Admitted, Open, Shown, Listed
  <2>3. Sharing' \subseteq Sharing \cup {p}
    BY <2>1 DEF Sharing, TypeOK
  <2>4. ASSUME Admitted
        PROVE  Waiting \subseteq Waiting' /\ p \in missed' \cup Waiting'
    <3>1. cur # None
      BY <2>4 DEF Admitted, Open
    <3>2. \/ /\ work = Idle /\ work' = Idle /\ queue' = <<>>
             /\ recv = None \/ {p} = {}
          \/ /\ work = Idle /\ work'.stage = "request"
             /\ {p} = {work'.who} \cup Elements(queue')
          \/ /\ work # Idle /\ work' = work
             /\ Elements(queue') = Elements(queue) \cup {p}
      BY <2>1, <2>4, EnqueueGives, ShortQueues
    <3>3. Waiting \subseteq Waiting' /\ (recv # None => {p} \subseteq Waiting')
      BY <2>1, <3>2, EnqueueKeeps
    <3>4. QED BY <2>1, <2>4, <3>1, <3>3
  <2>5. QED BY <1>0, <2>1, <2>2, <2>3, <2>4 DEF Covered
<1>14. ASSUME NEW p \in Peers, PeerStops(p)
       PROVE  Known'
  <2>1. /\ life' = [life EXCEPT ![p] = "gone"] /\ tiles' = Removed(p)
        /\ UNCHANGED <<status, job, cur, sock, missed, snap, work, queue, shut>>
    BY <1>14 DEF PeerStops, session, wire, own
  <2>2. Sharing' = Sharing \ {p}
    BY <2>1 DEF Sharing, TypeOK
  <2>3. Shown \ {p} \subseteq Shown'
    BY <1>0, <2>1 DEF Shown, Removed
  <2>4. Waiting' = Waiting /\ Listed' = Listed /\ Admitted' = Admitted
    BY <2>1 DEF Waiting, Queued, Settling, Listed, Admitted, Open
  <2>5. QED BY <1>1, <2>1, <2>2, <2>3, <2>4 DEF Covered
<1>15. QED
  BY <1>6, <1>7, <1>8, <1>9, <1>10, <1>11, <1>12, <1>13, <1>14 DEF Next

(***************************************************************************)
(* The theorems                                                            *)
(***************************************************************************)
LEMMA NextKeeps == InductiveInv /\ [Next]_vars => InductiveInv'
<1> SUFFICES ASSUME InductiveInv, [Next]_vars PROVE InductiveInv'
  OBVIOUS
<1>1. TypeOK /\ Joins /\ Transports /\ Asked /\ QueueRuns /\ Tiles /\ Known
  BY DEF InductiveInv
<1>2. CASE Next
  <2>1. Joins' /\ Transports' /\ Asked'
    BY <1>1, <1>2, JoinsKept, TransportsKept, AskedKept
  <2>2. TypeOK' /\ QueueRuns'
    BY <1>1, <1>2, <2>1, TypeKept, QueueRunsKept
  <2>3. Tiles' /\ Known'
    BY <1>1, <1>2, TilesKept, KnownKept
  <2>4. QED BY <2>1, <2>2, <2>3 DEF InductiveInv
<1>3. CASE UNCHANGED vars
  <2>1. UNCHANGED <<session, wire, own, sharing, remote, life>>
    BY <1>3 DEF vars
  <2>2. TypeOK'
    BY <1>1, <2>1 DEF TypeOK, session, wire, own, sharing, remote
  <2>3. Joins' /\ Transports' /\ Asked'
    BY <1>1, <2>1 DEF Joins, JoinStages, Transports, Asked, session, wire, own, sharing
  <2>4. QueueRuns' /\ Tiles' /\ Known'
    <3>1. QueueRuns'
      BY <1>1, <2>1 DEF QueueRuns, Settling, Sharing, session, wire, own, remote
    <3>2. Tiles'
      BY <1>1, <2>1 DEF Tiles, Shown, Sharing, session, own, remote
    <3>3. Known'
      BY <1>1, <2>1 DEF Known, Admitted, Open, Sharing, Shown, Waiting, Queued, Settling, Listed,
                        session, wire, own, remote
    <3>4. QED BY <3>1, <3>2, <3>3
  <2>5. QED BY <2>2, <2>3, <2>4 DEF InductiveInv
<1>4. QED BY <1>2, <1>3

\* Which stages of a join, of its socket, of its transports and of the consume
\* queue go together holds in every reachable state, whatever is lost, refused,
\* left or joined again.
THEOREM MeetPageInductive == Spec => []InductiveInv
<1>1. QED BY InitInductive, NextKeeps, PTL DEF Spec

\* The types of the page's refs; a call is shown only from the end of its setup.
THEOREM MeetPageTypeCorrect == Spec => []TypeOK
<1>1. InductiveInv => TypeOK
  BY DEF InductiveInv
<1>2. QED BY <1>1, MeetPageInductive, PTL

\* A join that stands still on an open socket has been refused, or lost its
\* answer to a request an earlier session left in line.
THEOREM HangingJoinExplained == Spec => []JoinExplained
<1>1. ASSUME InductiveInv
      PROVE  JoinExplained
  <2>1. SUFFICES ASSUME status = "connecting", Open, cur = used,
                        job[cur] \notin {"join", "device", "send", "recv"}
                 PROVE  asked[cur] # "none" \/ cur \in refused \cup swallowed
    BY DEF JoinExplained
  <2>2. cur \in Sessions /\ sock[cur] = "open"
    BY <1>1, <2>1, OpenIsNewest DEF InductiveInv
  <2>3. job[cur] \in {"mic", "camera"}
    BY <1>1, <2>1, <2>2 DEF InductiveInv, Joins, JoinStages, Awaiting
  <2>4. QED BY <1>1, <2>2, <2>3 DEF InductiveInv, Asked
<1>2. QED BY <1>1, MeetPageInductive, PTL

\* While the call is shown and connected, the tiles are the room's, up to the
\* three gaps the code leaves: a consume that settles for a producer that is
\* gone, one that was refused or not yet possible, and the tiles of a failed join.
THEOREM TilesAreHonest == Spec => []TilesHonest
<1>1. ASSUME InductiveInv
      PROVE  TilesHonest
  <2>1. SUFFICES ASSUME status = "live", Open
                 PROVE  /\ Shown \subseteq Sharing \cup unheard
                        /\ work = Idle => Sharing \subseteq Shown \cup missed
                        /\ \A p \in Shown : tiles[p] = recv \/ job[tiles[p]] = "failed"
    BY DEF TilesHonest
  <2>2. /\ Shown \subseteq Sharing \cup unheard
        /\ \A p \in Shown : tiles[p] = recv \/ job[tiles[p]] = "failed"
    BY <1>1 DEF InductiveInv, Tiles
  <2>3. Admitted /\ Listed = {}
    BY <1>1, <2>1 DEF InductiveInv, TypeOK, Admitted, Listed, Awaiting
  <2>4. work = Idle => Waiting = {}
    BY <1>1, IdleIs, ShortQueues DEF InductiveInv, QueueRuns, Waiting, Queued, Settling
  <2>5. Sharing \subseteq Shown \cup missed \cup Waiting \cup Listed
    BY <1>1, <2>1, <2>3 DEF InductiveInv, Known
  <2>6. QED BY <2>2, <2>3, <2>4, <2>5
<1>2. QED BY <1>1, MeetPageInductive, PTL
==============================================================================
