--------------------------- MODULE SdkSessionProofs ---------------------------
(***************************************************************************)
(* The safety properties of SdkSession, for any number of retries,         *)
(* connections, notices under way and watchers.                            *)
(*                                                                         *)
(* InductiveInv is shown to hold initially and to be kept by every action, *)
(* one lemma per action.  The actions that end an attempt share            *)
(* WireFailsKeeps, those that let go of the session's connection share     *)
(* DropWireEffect.                                                         *)
(***************************************************************************)
EXTENDS SdkSession, TLAPS

\* The conjuncts about the connections and the session they belong to, and
\* those about the capture.
Stages  == WireStages /\ SessionStages /\ EndsCounted
Capture == CaptureSurvives /\ CaptureReleased
Demand  == NoticesInOrder /\ DemandApplied

LEMMA NoNoticesTyped == <<>> \in Seq(Counts)
  OBVIOUS

LEMMA InitInductive == Init => InductiveInv
<1> SUFFICES ASSUME Init PROVE InductiveInv
  OBVIOUS
<1>1. TypeOK
  <2>1. 0 \in Counts /\ 0 \in 0..Retries /\ 0 \in 0..MaxWires /\ 0 \in 0..2
    BY BoundsAssumption DEF Counts
  <2>2. /\ socket \in [Wires -> SocketStates] /\ step \in [Wires -> Steps]
        /\ notices \in Seq(Counts)
    BY NoNoticesTyped DEF Init, SocketStates, Steps
  <2>3. QED BY <2>1, <2>2 DEF Init, TypeOK
<1>2. Stages
  BY DEF Init, Stages, WireStages, SessionStages, EndsCounted, Wires, NoWire, Opening
<1>3. Capture /\ Demand
  BY DEF Init, Capture, CaptureSurvives, CaptureReleased, Demand, NoticesInOrder,
         DemandApplied, Wires
<1>4. QED BY <1>1, <1>2, <1>3 DEF InductiveInv, Stages, Capture, Demand

(***************************************************************************)
(* Lemmas about the state.                                                 *)
(***************************************************************************)
\* Only the newest connection is being opened, and only while the session has
\* none.
LEMMA OpeningIsNewest ==
  ASSUME InductiveInv, NEW w \in Wires, step[w] \in Opening
  PROVE  /\ w = opened /\ wire = NoWire
         /\ phase = "opening" \/ (phase = "sharing" /\ loop = "opening")
         /\ \A v \in Wires \ {w} : step[v] \in {"none", "over"}
<1>1. w = opened
  BY DEF InductiveInv, TypeOK, WireStages, Wires, Opening
<1>2. \A v \in Wires \ {w} : step[v] \in {"none", "over"}
  BY <1>1 DEF InductiveInv, TypeOK, WireStages, Wires
<1>3. wire = NoWire
  BY <1>2 DEF InductiveInv, TypeOK, WireStages, Opening
<1>4. QED BY <1>1, <1>2, <1>3 DEF InductiveInv, SessionStages

\* The session's connection is the newest.
LEMMA WireIsNewest ==
  ASSUME InductiveInv, wire # NoWire
  PROVE  /\ wire \in Wires /\ wire = opened /\ step[wire] = "adopted"
         /\ phase = "sharing" /\ loop = "off"
         /\ \A v \in Wires \ {wire} : step[v] \in {"none", "over"}
<1>1. wire \in Wires /\ step[wire] = "adopted"
  BY DEF InductiveInv, TypeOK, WireStages
<1>2. wire = opened
  BY <1>1 DEF InductiveInv, TypeOK, WireStages, Wires
<1>3. QED BY <1>1, <1>2 DEF InductiveInv, TypeOK, WireStages, SessionStages, Wires

\* Between two attempts every connection is over.
LEMMA SleepingHasNone ==
  ASSUME InductiveInv, loop = "sleeping"
  PROVE  /\ wire = NoWire /\ phase = "sharing"
         /\ \A w \in Wires : step[w] \in {"none", "over"}
  BY DEF InductiveInv, TypeOK, WireStages, SessionStages, Wires, NoWire, Steps, Opening

\* The server has announced something of a connection that has its producer,
\* and what it announces is a count.
LEMMA ToldIsCount ==
  ASSUME InductiveInv, told # Unknown
  PROVE  told \in Counts
  BY DEF InductiveInv, TypeOK

(***************************************************************************)
(* share()                                                                 *)
(***************************************************************************)
LEMMA RefusedKeeps ==
  ASSUME InductiveInv, Refused
  PROVE  InductiveInv'
<1>1. TypeOK'
  BY DEF InductiveInv, TypeOK, Refused, retry, wires, demand
<1>2. Stages'
  BY DEF InductiveInv, TypeOK, Stages, WireStages, SessionStages, EndsCounted,
         Refused, retry, wires, Wires, NoWire, Opening
<1>3. (Capture /\ Demand)'
  BY DEF InductiveInv, Capture, CaptureSurvives, CaptureReleased, Demand,
         NoticesInOrder, DemandApplied, Refused, retry, wires, demand
<1>4. QED BY <1>1, <1>2, <1>3 DEF InductiveInv, Stages, Capture, Demand

LEMMA PickedKeeps ==
  ASSUME InductiveInv, Picked
  PROVE  InductiveInv'
<1>1. TypeOK'
  BY BoundsAssumption
  DEF InductiveInv, TypeOK, Picked, OpenWire, SocketStates, Steps, Opening, Wires,
      retry, demand
<1>2. opened = 0 /\ \A w \in Wires : step[w] = "none"
  BY DEF InductiveInv, WireStages, SessionStages, Picked, Wires
<1>3. wire = NoWire
  BY <1>2 DEF InductiveInv, TypeOK, WireStages
<1>4. Stages'
  <2>1. WireStages'
    BY <1>2, <1>3 DEF InductiveInv, TypeOK, WireStages, Picked, OpenWire, Wires, NoWire
  <2>2. (SessionStages /\ EndsCounted)'
    BY <1>2, <1>3
    DEF InductiveInv, TypeOK, SessionStages, EndsCounted, Picked, OpenWire, retry
  <2>3. QED BY <2>1, <2>2 DEF Stages
<1>5. (Capture /\ Demand)'
  BY <1>2, <1>3
  DEF InductiveInv, TypeOK, Capture, CaptureSurvives, CaptureReleased, SessionStages,
      Demand, NoticesInOrder, DemandApplied, Picked, OpenWire, retry, demand
<1>6. QED BY <1>1, <1>4, <1>5 DEF InductiveInv, Stages, Capture, Demand

\* An attempt fails: share() rejects, or the loop sleeps again or gives up.
LEMMA WireFailsKeeps ==
  ASSUME InductiveInv, NEW w \in Wires, step[w] \in Opening, WireFails(w)
  PROVE  InductiveInv'
<1> USE OpeningIsNewest
<1>1. /\ socket' = [socket EXCEPT ![w] = "closed"]
      /\ step' = [step EXCEPT ![w] = "over"]
      /\ ForgetDemand /\ UNCHANGED <<connected, wire, watchers, opened>>
  BY DEF WireFails, FailedSocket
<1>2. \/ /\ phase = "opening" /\ phase' = "rejected" /\ track' = Released
         /\ UNCHANGED <<active, retry>>
      \/ /\ phase = "sharing" /\ loop = "opening" /\ attempt < Retries
         /\ NextAttempt(attempt + 1) /\ UNCHANGED <<phase, track>>
      \/ /\ phase = "sharing" /\ loop = "opening" /\ GiveUp /\ UNCHANGED phase
  BY DEF WireFails
<1>3. TypeOK'
  <2>1. attempt' \in 0..Retries /\ ends' \in 0..2 /\ track' \in {"none", "live", "ended", "stopped"}
    BY <1>2, BoundsAssumption
    DEF InductiveInv, TypeOK, EndsCounted, NextAttempt, GiveUp, Released, retry
  <2>2. /\ phase' \in {"picking", "opening", "sharing", "rejected"}
        /\ active' \in BOOLEAN /\ loop' \in {"off", "sleeping", "opening"}
        /\ raced' \in BOOLEAN
    BY <1>2 DEF InductiveInv, TypeOK, NextAttempt, GiveUp, retry
  <2>3. QED
    BY <1>1, <2>1, <2>2, NoNoticesTyped
    DEF InductiveInv, TypeOK, ForgetDemand, SocketStates, Steps
<1>4. \A v \in Wires : step'[v] \in {"none", "over"}
  BY <1>1 DEF InductiveInv, TypeOK
<1>5. WireStages'
  BY <1>1, <1>4 DEF InductiveInv, TypeOK, WireStages, Wires, NoWire, Opening
<1>6. SessionStages'
  BY <1>1, <1>2, <1>4
  DEF InductiveInv, TypeOK, SessionStages, NextAttempt, GiveUp, Opening, retry
<1>7. EndsCounted'
  BY <1>1, <1>2 DEF InductiveInv, TypeOK, EndsCounted, NextAttempt, GiveUp, retry
<1>8. Capture'
  BY <1>2
  DEF InductiveInv, TypeOK, Capture, CaptureSurvives, CaptureReleased, SessionStages,
      NextAttempt, GiveUp, Released, retry
<1>9. Demand'
  BY <1>1, <1>4 DEF Demand, NoticesInOrder, DemandApplied, ForgetDemand
<1>10. QED BY <1>3, <1>5, <1>6, <1>7, <1>8, <1>9 DEF InductiveInv, Stages, Capture, Demand

(***************************************************************************)
(* openWire                                                                *)
(***************************************************************************)
\* The awaits before the producer: nothing else of the session changes.
LEMMA EarlyStepsKeep ==
  ASSUME InductiveInv, NEW w \in Wires,
         SocketOpens(w) \/ Joined(w) \/ TransportReady(w)
  PROVE  InductiveInv'
<1>1. PICK s \in {"open", "closed", "dead"}, t \in {"joining", "transport", "producing"} :
        /\ step[w] \in {"connecting", "joining", "transport"}
        /\ socket' = [socket EXCEPT ![w] = s] /\ step' = [step EXCEPT ![w] = t]
        /\ UNCHANGED <<session, retry, opened, demand>>
  <2>1. CASE SocketOpens(w)
    BY <2>1 DEF SocketOpens
  <2>2. CASE Joined(w) \/ TransportReady(w)
    <3>1. socket' = [socket EXCEPT ![w] = "open"]
      BY <2>2 DEF InductiveInv, TypeOK, Joined, TransportReady
    <3>2. QED BY <2>2, <3>1 DEF Joined, TransportReady
  <2>3. QED BY <2>1, <2>2
<1>2. TypeOK'
  BY <1>1
  DEF InductiveInv, TypeOK, SocketStates, Steps, Opening, session, retry, demand
<1>3. WireStages'
  BY <1>1 DEF InductiveInv, TypeOK, WireStages, session, Wires, NoWire
<1>4. (SessionStages /\ EndsCounted)'
  BY <1>1
  DEF InductiveInv, TypeOK, SessionStages, EndsCounted, Opening, session, retry
<1>5. (Capture /\ Demand)'
  BY <1>1
  DEF InductiveInv, TypeOK, Capture, CaptureSurvives, CaptureReleased, Demand,
      NoticesInOrder, DemandApplied, session, demand
<1>6. QED BY <1>2, <1>3, <1>4, <1>5 DEF InductiveInv, Stages, Capture, Demand

LEMMA ProducedKeeps ==
  ASSUME InductiveInv, NEW w \in Wires, Produced(w)
  PROVE  InductiveInv'
<1>1. wire = NoWire
  BY OpeningIsNewest DEF Produced, Opening
<1>2. TypeOK'
  BY BoundsAssumption
  DEF InductiveInv, TypeOK, Produced, Steps, Opening, Counts, session, retry
<1>3. WireStages'
  BY DEF InductiveInv, TypeOK, WireStages, Produced, session, Wires
<1>4. (SessionStages /\ EndsCounted)'
  BY DEF InductiveInv, TypeOK, SessionStages, EndsCounted, Produced, Opening, session, retry
<1>5. Capture'
  BY DEF InductiveInv, Capture, CaptureSurvives, CaptureReleased, Produced, session
<1>6. Demand'
  BY <1>1 DEF Demand, NoticesInOrder, DemandApplied, Produced, session, Unknown
<1>7. QED BY <1>2, <1>3, <1>4, <1>5, <1>6 DEF InductiveInv, Stages, Capture, Demand

\* The connection becomes the session's, and a count that came before it did is
\* applied.
LEMMA AdoptKeeps ==
  ASSUME InductiveInv, NEW w \in Wires, Adopt(w)
  PROVE  InductiveInv'
<1>1. /\ w = opened /\ wire = NoWire /\ step[w] = "sharpening"
      /\ phase = "opening" \/ (phase = "sharing" /\ loop = "opening")
      /\ \A v \in Wires \ {w} : step[v] \in {"none", "over"}
  BY OpeningIsNewest DEF Adopt, Opening
<1>2. TypeOK'
  <2>1. watchers' \in Counts /\ paused' \in BOOLEAN
    BY DEF InductiveInv, TypeOK, Adopt, AdoptDemand, ApplyDemand
  <2>2. QED BY <2>1 DEF InductiveInv, TypeOK, Adopt, Steps
<1>3. WireStages'
  BY <1>1 DEF InductiveInv, TypeOK, WireStages, Adopt, Wires, NoWire
<1>4. SessionStages'
  BY <1>1 DEF InductiveInv, TypeOK, SessionStages, Adopt, Opening
<1>5. (EndsCounted /\ Capture)'
  BY <1>1
  DEF InductiveInv, TypeOK, SessionStages, EndsCounted, Capture, CaptureSurvives,
      CaptureReleased, Adopt
<1>6. told # Unknown
  BY <1>1 DEF InductiveInv, NoticesInOrder
<1>7. NoticesInOrder'
  BY <1>1, <1>6 DEF InductiveInv, TypeOK, NoticesInOrder, Adopt, NoWire, Wires
<1>8. DemandApplied'
  <2> SUFFICES ASSUME notices = <<>>
               PROVE  watchers' = told /\ paused' = (told = 0)
    BY DEF DemandApplied, Adopt
  <2>1. held = told
    BY <1>1 DEF InductiveInv, NoticesInOrder
  <2>2. QED BY <1>6, <2>1 DEF Adopt, AdoptDemand, ApplyDemand
<1>9. QED BY <1>2, <1>3, <1>4, <1>5, <1>7, <1>8 DEF InductiveInv, Stages, Capture, Demand

(***************************************************************************)
(* The server announces demand.                                            *)
(***************************************************************************)
LEMMA AnnounceKeeps ==
  ASSUME InductiveInv, NEW w \in Wires, NEW n \in Counts, Announce(w, n)
  PROVE  InductiveInv'
<1>1. n # Unknown /\ notices' = Append(notices, n)
  BY BoundsAssumption DEF Announce, Counts, Unknown
<1>2. TypeOK'
  BY DEF InductiveInv, TypeOK, Announce, session, retry, wires
<1>3. Stages'
  BY DEF InductiveInv, Stages, WireStages, SessionStages, EndsCounted, Announce,
         session, retry, wires
<1>4. Capture'
  BY DEF InductiveInv, Capture, CaptureSurvives, CaptureReleased, Announce, session
<1>5. Demand'
  <2>1. notices' # <<>> /\ notices'[Len(notices')] = n
    BY <1>1 DEF InductiveInv, TypeOK
  <2>2. QED
    BY <1>1, <2>1 DEF Demand, NoticesInOrder, DemandApplied, Announce, wires
<1>6. QED BY <1>2, <1>3, <1>4, <1>5 DEF InductiveInv, Stages, Capture, Demand

\* A notice is taken in the order it was sent: the last of them leaves the page,
\* or what it holds back, with the last count.
LEMMA NoticeKeeps ==
  ASSUME InductiveInv, NEW w \in Wires, Notice(w)
  PROVE  InductiveInv'
<1>1. /\ notices \in Seq(Counts) /\ notices # <<>> /\ notices' = Tail(notices)
      /\ Head(notices) \in Counts /\ notices' \in Seq(Counts)
  BY DEF InductiveInv, TypeOK, Notice
<1>2. TypeOK'
  <2>1. UNCHANGED <<phase, track, active, connected, wire, retry, wires, told>>
    BY DEF Notice
  <2>2. \/ watchers' = Head(notices) /\ paused' \in BOOLEAN /\ held' = held
        \/ held' = Head(notices) /\ watchers' = watchers /\ paused' = paused
    BY DEF Notice, ApplyDemand
  <2>3. QED BY <1>1, <2>1, <2>2 DEF InductiveInv, TypeOK, retry, wires
<1>3. Stages'
  BY DEF InductiveInv, Stages, WireStages, SessionStages, EndsCounted, Notice,
         retry, wires
<1>4. Capture'
  BY DEF InductiveInv, Capture, CaptureSurvives, CaptureReleased, Notice
<1>5. told # Unknown /\ notices[Len(notices)] = told
  BY <1>1 DEF InductiveInv, NoticesInOrder
<1>6. notices' # <<>> => notices'[Len(notices')] = told
  BY <1>1, <1>5
<1>7. notices' = <<>> => Head(notices) = told
  <2>1. Len(notices') = Len(notices) - 1 /\ Head(notices) = notices[1]
    BY <1>1
  <2>2. notices' = <<>> => Len(notices') = 0
    OBVIOUS
  <2>3. QED BY <1>1, <1>5, <2>1, <2>2
<1>8. w = opened /\ (wire # NoWire => wire = w)
  BY WireIsNewest DEF Notice
<1>9. Demand'
  <2>1. NoticesInOrder'
    <3>1. CASE wire = w
      BY <1>5, <1>6, <3>1
      DEF InductiveInv, NoticesInOrder, Notice, wires, Wires, NoWire
    <3>2. CASE wire # w
      BY <1>5, <1>6, <1>7, <1>8, <3>2
      DEF InductiveInv, NoticesInOrder, Notice, wires
    <3>3. QED BY <3>1, <3>2
  <2>2. DemandApplied'
    BY <1>7, <1>8 DEF DemandApplied, Notice, ApplyDemand
  <2>3. QED BY <2>1, <2>2 DEF Demand
<1>10. QED BY <1>2, <1>3, <1>4, <1>9 DEF InductiveInv, Stages, Capture, Demand

(***************************************************************************)
(* Drops and retries                                                       *)
(***************************************************************************)
\* The loss of a socket, and a close event nobody listens to.
LEMMA SocketGoesKeeps ==
  ASSUME InductiveInv, NEW w \in Wires, Dies(w) \/ CloseUnheard(w)
  PROVE  InductiveInv'
<1>1. PICK s \in {"dead", "closed"} :
        /\ socket[w] \in {"open", "dead"} /\ socket' = [socket EXCEPT ![w] = s]
        /\ UNCHANGED <<session, retry, opened, step, demand>>
  BY DEF Dies, CloseUnheard
<1>2. TypeOK'
  BY <1>1 DEF InductiveInv, TypeOK, SocketStates, session, retry, demand
<1>3. WireStages'
  BY <1>1 DEF InductiveInv, TypeOK, WireStages, session
<1>4. (SessionStages /\ EndsCounted)'
  BY <1>1 DEF InductiveInv, SessionStages, EndsCounted, session, retry
<1>5. (Capture /\ Demand)'
  BY <1>1
  DEF InductiveInv, Capture, CaptureSurvives, CaptureReleased, Demand,
      NoticesInOrder, DemandApplied, session, demand
<1>6. QED BY <1>2, <1>3, <1>4, <1>5 DEF InductiveInv, Stages, Capture, Demand

\* Letting go of the session's connection ends it, if there is one, and leaves
\* a connection that is being opened alone.
LEMMA DropWireEffect ==
  ASSUME InductiveInv, NEW capture \in {"none", "live", "ended", "stopped"},
         DropWire(capture), UNCHANGED opened
  PROVE  /\ wire' = NoWire /\ connected' = FALSE /\ track' = capture
         /\ socket' \in [Wires -> SocketStates] /\ step' \in [Wires -> Steps]
         /\ paused' \in BOOLEAN /\ notices' \in Seq(Counts)
         /\ held' \in Counts \cup {Unknown} /\ told' \in Counts \cup {Unknown}
         /\ WireStages'
         /\ \A w \in Wires : step'[w] \in Opening => step[w] = step'[w]
         /\ Demand'
<1>1. wire' = NoWire /\ connected' = FALSE /\ track' = capture
  BY DEF DropWire
<1>2. /\ socket' \in [Wires -> SocketStates] /\ step' \in [Wires -> Steps]
      /\ paused' \in BOOLEAN /\ notices' \in Seq(Counts)
      /\ held' \in Counts \cup {Unknown} /\ told' \in Counts \cup {Unknown}
  BY NoNoticesTyped
  DEF InductiveInv, TypeOK, DropWire, ForgetDemand, SocketStates, Steps, demand
<1>3. CASE wire = NoWire
  <2>1. UNCHANGED <<socket, step, demand, wire>>
    BY <1>3 DEF InductiveInv, TypeOK, DropWire, Wires, NoWire
  <2>2. QED
    BY <1>1, <1>2, <1>3, <2>1
    DEF InductiveInv, WireStages, Demand, NoticesInOrder, DemandApplied, demand
<1>4. CASE wire # NoWire
  <2>1. \A w \in Wires : step'[w] \in {"none", "over"}
    BY <1>4, WireIsNewest DEF DropWire
  <2>2. WireStages'
    BY <1>4, <2>1, WireIsNewest
    DEF InductiveInv, TypeOK, WireStages, DropWire, Wires, NoWire
  <2>3. Demand'
    BY <1>4, <2>1 DEF Demand, NoticesInOrder, DemandApplied, DropWire, ForgetDemand
  <2>4. QED BY <1>1, <1>2, <2>1, <2>2, <2>3 DEF Opening
<1>5. QED BY <1>3, <1>4

LEMMA DroppedKeeps ==
  ASSUME InductiveInv, NEW w \in Wires, Dropped(w)
  PROVE  InductiveInv'
<1>1. wire = w /\ wire # NoWire
  BY DEF InductiveInv, WireStages, Dropped, Wires, NoWire
<1>2. DropWire(track) /\ track \in {"none", "live", "ended", "stopped"} /\ UNCHANGED opened
  BY DEF InductiveInv, TypeOK, Dropped
<1>3. TypeOK'
  <2>1. 1 \in 0..Retries
    BY BoundsAssumption
  <2>2. /\ wire' = NoWire /\ connected' = FALSE /\ track' = track
        /\ socket' \in [Wires -> SocketStates] /\ step' \in [Wires -> Steps]
        /\ paused' \in BOOLEAN /\ notices' \in Seq(Counts)
        /\ held' \in Counts \cup {Unknown} /\ told' \in Counts \cup {Unknown}
    BY <1>2, DropWireEffect
  <2>3. QED BY <2>1, <2>2 DEF InductiveInv, TypeOK, Dropped, NextAttempt
<1>4. \A v \in Wires : step'[v] \notin Opening
  BY <1>1, WireIsNewest DEF Dropped, DropWire, Opening
<1>5. SessionStages'
  BY <1>1, <1>2, <1>4, WireIsNewest
  DEF InductiveInv, SessionStages, Dropped, DropWire, NextAttempt
<1>6. (EndsCounted /\ Capture)'
  BY <1>2
  DEF InductiveInv, EndsCounted, Capture, CaptureSurvives, CaptureReleased, Dropped,
      DropWire, NextAttempt
<1>7. QED
  BY <1>2, <1>3, <1>5, <1>6, DropWireEffect DEF InductiveInv, Stages, Capture, Demand

LEMMA SleepOverKeeps ==
  ASSUME InductiveInv, SleepOver
  PROVE  InductiveInv'
<1>1. /\ wire = NoWire /\ phase = "sharing" /\ loop = "sleeping"
      /\ \A w \in Wires : step[w] \in {"none", "over"}
  BY SleepingHasNone DEF SleepOver
<1>2. CASE ~active /\ loop' = "off" /\ UNCHANGED <<session, attempt, ends, raced, wires, demand>>
  <2>1. TypeOK'
    BY <1>2 DEF InductiveInv, TypeOK, session, wires, demand
  <2>2. Stages'
    BY <1>1, <1>2
    DEF InductiveInv, Stages, WireStages, SessionStages, EndsCounted, session, wires,
        Opening
  <2>3. (Capture /\ Demand)'
    BY <1>2
    DEF InductiveInv, Capture, CaptureSurvives, CaptureReleased, Demand,
        NoticesInOrder, DemandApplied, session, wires, demand
  <2>4. QED BY <2>1, <2>2, <2>3 DEF InductiveInv, Stages, Capture, Demand
<1>3. CASE /\ active /\ track # "live" /\ GiveUp
           /\ UNCHANGED <<phase, connected, wire, watchers, wires, demand>>
  <2>1. TypeOK'
    <3>1. ends' \in 0..2
      BY <1>3 DEF InductiveInv, EndsCounted, GiveUp
    <3>2. track' \in {"none", "live", "ended", "stopped"}
      BY <1>3 DEF InductiveInv, TypeOK, GiveUp, Released
    <3>3. QED BY <1>3, <3>1, <3>2 DEF InductiveInv, TypeOK, GiveUp, wires, demand
  <2>2. Stages'
    BY <1>1, <1>3
    DEF InductiveInv, TypeOK, Stages, WireStages, SessionStages, EndsCounted, GiveUp,
        wires, Opening
  <2>3. (Capture /\ Demand)'
    BY <1>3
    DEF InductiveInv, Capture, CaptureSurvives, CaptureReleased, Demand,
        NoticesInOrder, DemandApplied, GiveUp, Released, wires, demand
  <2>4. QED BY <2>1, <2>2, <2>3 DEF InductiveInv, Stages, Capture, Demand
<1>4. CASE /\ active /\ track = "live" /\ loop' = "opening" /\ OpenWire(opened + 1)
           /\ UNCHANGED <<session, attempt, ends, raced, demand>>
  <2>1. TypeOK'
    BY <1>4
    DEF InductiveInv, TypeOK, OpenWire, SocketStates, Steps, Opening, Wires, session,
        demand
  <2>2. WireStages'
    BY <1>1, <1>4
    DEF InductiveInv, TypeOK, WireStages, OpenWire, Wires, NoWire, session
  <2>3. (SessionStages /\ EndsCounted)'
    BY <1>1, <1>4
    DEF InductiveInv, TypeOK, SessionStages, EndsCounted, OpenWire, session
  <2>4. Capture'
    BY <1>4 DEF InductiveInv, Capture, CaptureSurvives, CaptureReleased, session
  <2>5. Demand'
    BY <1>1, <1>4
    DEF InductiveInv, TypeOK, Demand, NoticesInOrder, DemandApplied, OpenWire, session,
        demand
  <2>6. QED BY <2>1, <2>2, <2>3, <2>4, <2>5 DEF InductiveInv, Stages, Capture, Demand
<1>5. QED BY <1>2, <1>3, <1>4 DEF SleepOver, session

(***************************************************************************)
(* The end                                                                 *)
(***************************************************************************)
\* stop() and the browser's bar, on a session that is active.
LEMMA StopSessionKeeps ==
  ASSUME InductiveInv, phase = "sharing", active,
         NEW capture \in {"none", "ended", "stopped"}, StopSession(capture)
  PROVE  InductiveInv'
<1>1. DropWire(capture) /\ UNCHANGED opened
  BY DEF StopSession
<1>2. /\ wire' = NoWire /\ connected' = FALSE /\ track' = capture
      /\ socket' \in [Wires -> SocketStates] /\ step' \in [Wires -> Steps]
      /\ paused' \in BOOLEAN /\ notices' \in Seq(Counts)
      /\ held' \in Counts \cup {Unknown} /\ told' \in Counts \cup {Unknown}
      /\ WireStages' /\ Demand'
      /\ \A w \in Wires : step'[w] \in Opening => step[w] = step'[w]
  BY <1>1, DropWireEffect
<1>3. ends' = 1 /\ ends' \in 0..2
  BY DEF InductiveInv, EndsCounted, StopSession
<1>4. TypeOK'
  BY <1>2, <1>3 DEF InductiveInv, TypeOK, StopSession
<1>5. SessionStages'
  BY <1>2 DEF InductiveInv, SessionStages, StopSession
<1>6. (EndsCounted /\ Capture)'
  <2>1. raced' = (loop = "opening") /\ UNCHANGED <<phase, loop>> /\ active' = FALSE
    BY DEF StopSession
  <2>2. ~raced' => loop' # "opening" /\ wire' = NoWire
    BY <1>2, <2>1
  <2>3. QED
    BY <1>2, <1>3, <2>1, <2>2
    DEF InductiveInv, EndsCounted, Capture, CaptureSurvives, CaptureReleased
<1>7. QED BY <1>2, <1>4, <1>5, <1>6 DEF InductiveInv, Stages, Capture, Demand

LEMMA StopKeeps ==
  ASSUME InductiveInv, Stop
  PROVE  InductiveInv'
<1>1. Released \in {"none", "ended", "stopped"}
  BY DEF InductiveInv, TypeOK, Released
<1>2. QED BY <1>1, StopSessionKeeps DEF Stop

LEMMA UserStopsKeeps ==
  ASSUME InductiveInv, UserStops
  PROVE  InductiveInv'
<1>1. active
  BY DEF InductiveInv, CaptureReleased, UserStops, TypeOK
<1>2. CASE phase = "sharing" /\ StopSession("ended")
  BY <1>1, <1>2, StopSessionKeeps
<1>3. CASE /\ phase = "opening" /\ track' = "ended"
           /\ UNCHANGED <<phase, active, connected, wire, watchers, retry, wires, demand>>
  <2>1. TypeOK'
    BY <1>3 DEF InductiveInv, TypeOK, retry, wires, demand
  <2>2. Stages'
    BY <1>3
    DEF InductiveInv, Stages, WireStages, SessionStages, EndsCounted, retry, wires
  <2>3. (Capture /\ Demand)'
    BY <1>3
    DEF InductiveInv, Capture, CaptureSurvives, CaptureReleased, Demand,
        NoticesInOrder, DemandApplied, wires, demand
  <2>4. QED BY <2>1, <2>2, <2>3 DEF InductiveInv, Stages, Capture, Demand
<1>4. QED BY <1>2, <1>3 DEF UserStops

(***************************************************************************)
(* The theorems.                                                           *)
(***************************************************************************)
LEMMA StutterKeeps == InductiveInv /\ UNCHANGED vars => InductiveInv'
  BY DEF InductiveInv, TypeOK, WireStages, SessionStages, EndsCounted, NoticesInOrder,
         CaptureSurvives, CaptureReleased, DemandApplied, vars, session, retry, wires,
         demand

LEMMA NextKeeps == InductiveInv /\ [Next]_vars => InductiveInv'
<1> SUFFICES ASSUME InductiveInv, [Next]_vars PROVE InductiveInv'
  OBVIOUS
<1>1. ASSUME NEW w \in Wires, Settles(w) PROVE InductiveInv'
  <2>1. CASE SocketFails(w) \/ JoinRefused(w) \/ TrackGone(w) \/ RequestFails(w)
    BY <2>1, WireFailsKeeps
    DEF SocketFails, JoinRefused, TrackGone, RequestFails, Opening
  <2>2. CASE SocketOpens(w) \/ Joined(w) \/ TransportReady(w)
    BY <2>2, EarlyStepsKeep
  <2>3. QED BY <1>1, <2>1, <2>2, ProducedKeeps, AdoptKeeps DEF Settles
<1>2. ASSUME NEW w \in Wires, WireStep(w) PROVE InductiveInv'
  BY <1>1, <1>2, DroppedKeeps, SocketGoesKeeps, NoticeKeeps, AnnounceKeeps
  DEF WireStep, Closes
<1>3. QED
  BY <1>2, RefusedKeeps, PickedKeeps, SleepOverKeeps, StopKeeps, UserStopsKeeps,
     StutterKeeps
  DEF Next

\* The inductive invariant holds however drops, retries, stops and notices
\* overlap (web/sdk/index.js:171-405).
THEOREM SdkInductive == Spec => []InductiveInv
  BY InitInductive, NextKeeps, PTL DEF Spec

\* Every reachable state is of the declared type; among it, "ended" is emitted
\* at most twice (web/sdk/index.js:404).
THEOREM SdkTypeCorrect == Spec => []TypeOK
<1>1. InductiveInv => TypeOK
  BY DEF InductiveInv
<1>2. QED BY <1>1, SdkInductive, PTL

\* No drop, and no number of failed retries, costs the user the capture of a
\* session that goes on (web/sdk/index.js:14-17).
THEOREM CaptureAlwaysSurvives == Spec => []CaptureSurvives
<1>1. InductiveInv => CaptureSurvives
  BY DEF InductiveInv
<1>2. QED BY <1>1, SdkInductive, PTL

\* When the session is over or share() has rejected, nothing is captured,
\* whichever path led there (web/sdk/index.js:401-404).
THEOREM CaptureAlwaysReleased == Spec => []CaptureReleased
<1>1. InductiveInv => CaptureReleased
  BY DEF InductiveInv
<1>2. QED BY <1>1, SdkInductive, PTL

\* There is never more than one connection, it is the session's or is being
\* opened, and a session that is over has one only if it was stopped while the
\* retry loop was opening it (web/sdk/index.js:171-187, 326-333, 383-396).
THEOREM NoConnectionStrays == Spec => []NoStrayConnection
<1>1. InductiveInv => NoStrayConnection
  <2> SUFFICES ASSUME InductiveInv, NEW w \in Wires, Up(w)
               PROVE  /\ \A v \in Wires : Up(v) => v = w
                      /\ w = wire \/ step[w] \in Opening
                      /\ phase # "rejected"
                      /\ active \/ raced
    BY DEF NoStrayConnection
  <2>1. \A v \in Wires : Up(v) => v = wire \/ step[v] \in Opening
    BY DEF InductiveInv, TypeOK, WireStages, Up, Steps, Opening
  <2>2. \A v \in Wires : Up(v) => v = opened
    BY <2>1, OpeningIsNewest, WireIsNewest DEF Wires, NoWire
  <2>3. phase # "rejected" /\ (active \/ raced)
    <3>1. CASE wire # NoWire
      BY <3>1 DEF InductiveInv, SessionStages, EndsCounted
    <3>2. CASE wire = NoWire
      <4>1. step[w] \in Opening
        BY <2>1, <3>2 DEF Wires, NoWire
      <4>2. QED BY <4>1 DEF InductiveInv, SessionStages, EndsCounted
    <3>3. QED BY <3>1, <3>2
  <2>4. QED BY <2>1, <2>2, <2>3
<1>2. QED BY <1>1, SdkInductive, PTL

\* Whatever came before the connection was installed, the encoder follows the
\* last notice once all have arrived (web/sdk/index.js:258-263, 343-350).
THEOREM DemandIsApplied == Spec => []DemandApplied
<1>1. InductiveInv => DemandApplied
  BY DEF InductiveInv
<1>2. QED BY <1>1, SdkInductive, PTL
=============================================================================
