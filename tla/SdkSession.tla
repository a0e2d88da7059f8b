------------------------------ MODULE SdkSession ------------------------------
(***************************************************************************)
(* One GravStream.share() of the publisher SDK (web/sdk/index.js): the     *)
(* capture the user granted, the connections opened around it one after    *)
(* another, the retry loop and the demand notices that pause the encoder.  *)
(*                                                                         *)
(* The page is single-threaded: code between two awaits is one step.       *)
(* openWire awaits the socket, meet-joined, the transport, the producer    *)
(* and setParameters; each is a value of `step', and the socket may die,   *)
(* the user may end the capture and the application may call stop() at     *)
(* any of them.  The server is the other side of the socket: it answers,   *)
(* refuses or stays silent, and announces demand for the producer.         *)
(*                                                                         *)
(* session._stopping is never true while session.active is, so it is not a *)
(* variable.  A connection is named by its number.                         *)
(***************************************************************************)
EXTENDS Integers, Sequences, FiniteSets

CONSTANTS
  Retries,      \* RETRY_DELAYS_MS.length
  MaxWires,     \* bound: connections ever opened
  MaxNotices,   \* bound: demand notices in flight
  MaxWatchers   \* bound: the largest count announced

ASSUME BoundsAssumption ==
  /\ Retries \in Nat \ {0} /\ MaxWires \in Nat \ {0}
  /\ MaxNotices \in Nat \ {0} /\ MaxWatchers \in Nat \ {0}

Wires    == 1..MaxWires
NoWire   == 0
Unknown  == -1      \* no demand was announced yet

VARIABLES
  phase,      \* share(): "picking", "opening" (first openWire), "sharing", "rejected"
  track,      \* "none", "live", "ended" (by the user), "stopped" (by the SDK)
  active,     \* session.active
  connected,  \* session.connected
  wire,       \* session._wire
  watchers,   \* session.watchers
  loop,       \* handleDrop: "off", "sleeping", "opening"
  attempt,    \* its attempt number
  ends,       \* "ended" events emitted
  raced,      \* history: the session was stopped while the loop was opening
  \* one per connection
  socket,     \* "none", "connecting", "open", "dead" (close event pending), "closed"
  step,       \* where its openWire is
  \* of the newest connection, the only one that is not over
  opened,     \* its number
  paused,     \* producer.paused
  held,       \* heldDemand
  told,       \* the count the server announced last
  notices     \* announcements under way

session == <<phase, track, active, connected, wire, watchers>>
retry   == <<loop, attempt, ends, raced>>
wires   == <<opened, socket, step>>
demand  == <<paused, held, told, notices>>
vars    == <<session, retry, wires, demand>>

SocketStates == {"none", "connecting", "open", "dead", "closed"}
Opening      == {"connecting", "joining", "transport", "producing", "sharpening"}
Steps        == Opening \cup {"none", "adopted", "over"}
Counts       == 0..MaxWatchers

TypeOK ==
  /\ phase \in {"picking", "opening", "sharing", "rejected"}
  /\ track \in {"none", "live", "ended", "stopped"}
  /\ active \in BOOLEAN /\ connected \in BOOLEAN
  /\ wire \in Wires \cup {NoWire}
  /\ watchers \in Counts
  /\ loop \in {"off", "sleeping", "opening"}
  /\ attempt \in 0..Retries /\ ends \in 0..2 /\ raced \in BOOLEAN
  /\ opened \in 0..MaxWires
  /\ socket \in [Wires -> SocketStates]
  /\ step \in [Wires -> Steps]
  /\ paused \in BOOLEAN
  /\ held \in Counts \cup {Unknown} /\ told \in Counts \cup {Unknown}
  /\ notices \in Seq(Counts)

Init ==
  /\ phase = "picking" /\ track = "none"
  /\ active = TRUE /\ connected = FALSE
  /\ wire = NoWire /\ watchers = 0
  /\ loop = "off" /\ attempt = 0 /\ ends = 0 /\ raced = FALSE
  /\ opened = 0
  /\ socket = [w \in Wires |-> "none"]
  /\ step = [w \in Wires |-> "none"]
  /\ paused = FALSE /\ held = Unknown /\ told = Unknown /\ notices = <<>>

(***************************************************************************)
(* Parts of the handlers.                                                  *)
(***************************************************************************)
\* openWire up to its first await.
OpenWire(w) ==
  /\ w = opened + 1 /\ w \in Wires
  /\ opened' = w
  /\ socket' = [socket EXCEPT ![w] = "connecting"]
  /\ step' = [step EXCEPT ![w] = "connecting"]

\* What the page and the server keep of a connection goes with it.
ForgetDemand == paused' = FALSE /\ held' = Unknown /\ told' = Unknown /\ notices' = <<>>

\* As if the tracks were stopped only when the share was still connected.
Released_IfConnected == IF track = "live" /\ connected THEN "stopped" ELSE track

\* The track after _releaseCapture, or after stream.getTracks() in share().
Released == IF track = "live" THEN "stopped" ELSE track

\* As if closing the producer stopped its track.
DropWire_StopsTrack(capture) ==
  /\ wire' = NoWire /\ connected' = FALSE
  /\ socket' = [w \in Wires |-> IF w = wire THEN "closed" ELSE socket[w]]
  /\ step' = [w \in Wires |-> IF w = wire THEN "over" ELSE step[w]]
  /\ track' = IF capture = "live" THEN "stopped" ELSE capture
  /\ IF wire # NoWire THEN ForgetDemand ELSE UNCHANGED demand

\* _dropWire: handlers off, producer, transport and socket closed; stopTracks
\* is false, so the capture stays what the caller makes of it.
DropWire(capture) ==
  /\ wire' = NoWire /\ connected' = FALSE
  /\ socket' = [w \in Wires |-> IF w = wire THEN "closed" ELSE socket[w]]
  /\ step' = [w \in Wires |-> IF w = wire THEN "over" ELSE step[w]]
  /\ track' = capture
  /\ IF wire # NoWire THEN ForgetDemand ELSE UNCHANGED demand

\* The end of handleDrop.
GiveUp ==
  /\ loop' = "off"
  /\ active' = FALSE
  /\ track' = Released
  /\ ends' = ends + 1
  /\ UNCHANGED <<attempt, raced>>

\* The head of the loop: another attempt, unless the session is over.
NextAttempt(n) ==
  /\ loop' = IF active THEN "sleeping" ELSE "off"
  /\ attempt' = n
  /\ UNCHANGED <<active, ends, raced>>

\* _applyDemand
ApplyDemand(n) == watchers' = n /\ paused' = (n = 0)

(***************************************************************************)
(* share()                                                                 *)
(***************************************************************************)
\* The picker is dismissed, or the surface is refused and its tracks stopped.
Refused ==
  /\ phase = "picking"
  /\ phase' = "rejected"
  /\ track' \in {"none", "stopped"}
  /\ UNCHANGED <<active, connected, wire, watchers, retry, wires, demand>>

Picked ==
  /\ phase = "picking"
  /\ phase' = "opening" /\ track' = "live"
  /\ OpenWire(1)
  /\ UNCHANGED <<active, connected, wire, watchers, retry, demand>>

\* As if openWire left the socket open when it fails.
FailedSocket_Open(w) == socket[w]

\* The catch of openWire closes the socket.
FailedSocket(w) == "closed"

\* openWire throws: share() releases the capture and rejects; handleDrop goes
\* on to its next attempt, or gives up without looking at session.active.
WireFails(w) ==
  /\ socket' = [socket EXCEPT ![w] = FailedSocket(w)]
  /\ step' = [step EXCEPT ![w] = "over"]
  /\ ForgetDemand
  /\ \/ /\ phase = "opening"
        /\ phase' = "rejected" /\ track' = Released
        /\ UNCHANGED <<active, retry>>
     \/ /\ phase = "sharing" /\ attempt < Retries
        /\ NextAttempt(attempt + 1)
        /\ UNCHANGED <<phase, track>>
     \/ /\ phase = "sharing" /\ attempt = Retries
        /\ GiveUp
        /\ UNCHANGED phase
  /\ UNCHANGED <<connected, wire, watchers, opened>>

(***************************************************************************)
(* openWire                                                                *)
(***************************************************************************)
SocketOpens(w) ==
  /\ step[w] = "connecting"
  /\ socket' = [socket EXCEPT ![w] = "open"]
  /\ step' = [step EXCEPT ![w] = "joining"]
  /\ UNCHANGED <<session, retry, opened, demand>>

\* onerror, or 15 seconds.
SocketFails(w) == step[w] = "connecting" /\ WireFails(w)

\* meet-joined; there is no timeout on it.
Joined(w) ==
  /\ step[w] = "joining" /\ socket[w] = "open"
  /\ step' = [step EXCEPT ![w] = "transport"]
  /\ UNCHANGED <<session, retry, opened, socket, demand>>

JoinRefused(w) == step[w] = "joining" /\ socket[w] = "open" /\ WireFails(w)

\* meet-transport-created, then produce() with a track that has not ended.
TransportReady(w) ==
  /\ step[w] = "transport" /\ socket[w] = "open" /\ track = "live"
  /\ step' = [step EXCEPT ![w] = "producing"]
  /\ UNCHANGED <<session, retry, opened, socket, demand>>

\* produce() throws on a track that has ended.
TrackGone(w) ==
  /\ step[w] = "transport" /\ socket[w] = "open" /\ track # "live"
  /\ WireFails(w)

\* As if a request had no timeout: only an answer rejects it.
RequestFails_NoTimeout(w) ==
  step[w] \in {"transport", "producing"} /\ socket[w] = "open" /\ WireFails(w)

\* An error answer, or 15 seconds without one.
RequestFails(w) == step[w] \in {"transport", "producing"} /\ WireFails(w)

\* meet-produced, which the server follows with a first count of zero.
Produced(w) ==
  /\ step[w] = "producing" /\ socket[w] = "open"
  /\ step' = [step EXCEPT ![w] = "sharpening"]
  /\ told' = 0 /\ notices' = <<0>>
  /\ UNCHANGED <<session, retry, opened, socket, paused, held>>

\* As if a count announced before the connection was installed were dropped.
AdoptDemand_Ignored == UNCHANGED <<watchers, paused>>

\* As if it were applied without a look at whether one was.
AdoptDemand_Unchecked == ApplyDemand(held)

AdoptDemand ==
  IF held # Unknown THEN ApplyDemand(held) ELSE UNCHANGED <<watchers, paused>>

\* setParameters settles: openWire returns and its caller installs the wire,
\* whatever happened to the session or to the socket meanwhile.
Adopt(w) ==
  /\ step[w] = "sharpening"
  /\ step' = [step EXCEPT ![w] = "adopted"]
  /\ wire' = w /\ connected' = TRUE
  /\ AdoptDemand
  /\ phase' = "sharing" /\ loop' = "off"
  /\ UNCHANGED <<track, active, attempt, ends, raced, opened, socket, held, told, notices>>

(***************************************************************************)
(* The server announces demand.                                            *)
(***************************************************************************)
Announce(w, n) ==
  /\ w = opened /\ socket[w] = "open"
  /\ told # Unknown /\ n # told /\ Len(notices) < MaxNotices
  /\ told' = n /\ notices' = Append(notices, n)
  /\ UNCHANGED <<session, retry, wires, paused, held>>

\* onmessage: applied if the producer is the session's, held otherwise.
Notice(w) ==
  /\ w = opened /\ socket[w] \in {"open", "dead"} /\ notices # <<>>
  /\ notices' = Tail(notices)
  /\ IF wire = w
     THEN ApplyDemand(Head(notices)) /\ UNCHANGED held
     ELSE held' = Head(notices) /\ UNCHANGED <<watchers, paused>>
  /\ UNCHANGED <<phase, track, active, connected, wire, retry, wires, told>>

(***************************************************************************)
(* Drops and retries                                                       *)
(***************************************************************************)
\* The connection is lost.  Bound: one whose loss can reach handleDrop only
\* while a full round of retries can still be numbered.
Dies(w) ==
  /\ socket[w] = "open"
  /\ step[w] \in {"sharpening", "adopted"} => opened + Retries <= MaxWires
  /\ socket' = [socket EXCEPT ![w] = "dead"]
  /\ UNCHANGED <<session, retry, opened, step, demand>>

\* The close event of the session's connection: handleDrop up to its sleep.
Dropped(w) ==
  /\ socket[w] = "dead" /\ step[w] = "adopted" /\ active
  /\ DropWire(track)
  /\ NextAttempt(1)
  /\ UNCHANGED <<phase, watchers, opened>>

\* The close event of a connection openWire is still working on, which has no
\* onclose handler, or of one installed on a session that is over.
CloseUnheard(w) ==
  /\ socket[w] = "dead" /\ (step[w] # "adopted" \/ ~active)
  /\ socket' = [socket EXCEPT ![w] = "closed"]
  /\ UNCHANGED <<session, retry, opened, step, demand>>

SleepOver ==
  /\ loop = "sleeping"
  /\ \/ /\ ~active
        /\ loop' = "off"
        /\ UNCHANGED <<session, attempt, ends, raced, wires>>
     \/ /\ active /\ track # "live"
        /\ GiveUp
        /\ UNCHANGED <<phase, connected, wire, watchers, wires>>
     \/ /\ active /\ track = "live"
        /\ loop' = "opening"
        /\ OpenWire(opened + 1)
        /\ UNCHANGED <<session, attempt, ends, raced>>
  /\ UNCHANGED demand

(***************************************************************************)
(* The end                                                                 *)
(***************************************************************************)
\* stop(), with what the capture has become.
StopSession(capture) ==
  /\ active' = FALSE
  /\ DropWire(capture)
  /\ ends' = ends + 1
  /\ raced' = (loop = "opening")
  /\ UNCHANGED <<phase, watchers, loop, attempt, opened>>

\* session.stop(): share() has returned the session.
Stop == phase = "sharing" /\ active /\ StopSession(Released)

\* The browser's "Stop sharing" bar; track.onended is set when share() returns.
UserStops ==
  /\ track = "live"
  /\ \/ phase = "sharing" /\ StopSession("ended")
     \/ /\ phase = "opening" /\ track' = "ended"
        /\ UNCHANGED <<phase, active, connected, wire, watchers, retry, wires, demand>>

-----------------------------------------------------------------------------
Settles(w) ==
  \/ SocketOpens(w) \/ SocketFails(w)
  \/ Joined(w) \/ JoinRefused(w)
  \/ TransportReady(w) \/ TrackGone(w) \/ Produced(w) \/ RequestFails(w)
  \/ Adopt(w)

Closes(w) == Dropped(w) \/ CloseUnheard(w)

WireStep(w) ==
  \/ Settles(w) \/ Closes(w) \/ Dies(w) \/ Notice(w)
  \/ \E n \in Counts : Announce(w, n)

Next == Refused \/ Picked \/ SleepOver \/ Stop \/ UserStops \/ \E w \in Wires : WireStep(w)

Spec == Init /\ [][Next]_vars

(***************************************************************************)
(* Timers fire, close events are delivered, and a request on an open       *)
(* socket is answered or times out; meet-join is answered on a socket that *)
(* stays open.  Nothing is assumed of the user, the application or the     *)
(* network.                                                                *)
(***************************************************************************)
Fairness ==
  /\ WF_vars(SleepOver)
  /\ \A w \in Wires : WF_vars(Settles(w)) /\ WF_vars(Closes(w))

FairSpec == Spec /\ Fairness

-----------------------------------------------------------------------------
\* A lost connection never costs the user the capture: the SDK stops the track
\* only when the session is over or share() has rejected, however many drops,
\* retries and stops overlapped (web/sdk/index.js:14-17).
CaptureSurvives ==
  track = "stopped" => phase = "rejected" \/ ~active

\* ... and when it is over, by whichever path, nothing is being captured.
CaptureReleased ==
  phase = "rejected" \/ ~active => track # "live"

\* A connection that is up or coming up.
Up(w) == socket[w] \in {"connecting", "open"}

\* There is never more than one connection, so a publisher is in its room only
\* once, and it is the session's or is being opened.  After share() has rejected
\* there is none; after the session has ended there is none either, unless it
\* was stopped while the retry loop was opening one, which the loop keeps
\* without looking at the session (web/sdk/index.js:171-187, 326-333, 383-396).
NoStrayConnection ==
  \A w \in Wires : Up(w) =>
    /\ \A v \in Wires : Up(v) => v = w
    /\ w = wire \/ step[w] \in Opening
    /\ phase # "rejected"
    /\ active \/ raced

\* Only "ended" is final: once it was emitted the session has no connection
\* (web/lib/publisherPrompt.js:189-190).  adoptWire does not ask, so that the
\* code does not keep it (web/sdk/index.js:383-396).
EndedIsFinal == ends > 0 => wire = NoWire

\* Once the notices have arrived the encoder runs exactly if somebody is
\* watching, also when the first ones came before the connection was installed
\* (web/sdk/index.js:258-263, 343-344, 350).
DemandApplied ==
  wire # NoWire /\ notices = <<>> =>
    watchers = told /\ paused = (told = 0)

\* An openWire that waits for meet-joined on a socket that is gone.
Stuck == \E w \in Wires : step[w] = "joining" /\ socket[w] \in {"dead", "closed"}

\* The retry loop ends, with a connection or with the session, unless an
\* attempt is stuck on meet-joined (web/sdk/index.js:361-405).
RetriesEnd == loop # "off" ~> loop = "off" \/ Stuck

(***************************************************************************)
(* What keeps them true: the inductive invariant.                          *)
(***************************************************************************)
\* Connections are opened one after another: those before the newest are over,
\* and only an adopted one is the session's.
WireStages ==
  \A w \in Wires :
    /\ w > opened <=> step[w] = "none"
    /\ w < opened => step[w] = "over"
    /\ step[w] = "adopted" <=> w = wire
    /\ step[w] = "none" => socket[w] = "none"
    /\ step[w] = "connecting" <=> socket[w] = "connecting"
    /\ step[w] = "over" => socket[w] = "closed"

\* A connection is being opened by share() or by one round of the retry loop,
\* which runs only while the session has none.
SessionStages ==
  /\ phase = "picking" => opened = 0 /\ track = "none"
  /\ phase \in {"picking", "opening"} => active
  /\ wire # NoWire \/ loop # "off" => phase = "sharing"
  /\ wire # NoWire => loop = "off"
  /\ \A w \in Wires :
       step[w] \in Opening =>
         phase = "opening" \/ (phase = "sharing" /\ loop = "opening")

\* The session ends once, and once more if an attempt was under way; a session
\* that has ended has a connection, or is opening one, only after such a race.
EndsCounted ==
  /\ active => ends = 0
  /\ loop # "off" => ends <= 1
  /\ ~active /\ ~raced => loop # "opening" /\ wire = NoWire

\* The last notice under way is what the server announced last, and without
\* one the page, or what it holds back, has it.
NoticesInOrder ==
  /\ told = Unknown => notices = <<>>
  /\ notices # <<>> => notices[Len(notices)] = told
  /\ wire = NoWire /\ notices = <<>> => held = told
  /\ \A w \in Wires : step[w] \in {"sharpening", "adopted"} => told # Unknown

InductiveInv ==
  /\ TypeOK
  /\ WireStages /\ SessionStages /\ EndsCounted /\ NoticesInOrder
  /\ CaptureSurvives /\ CaptureReleased /\ DemandApplied
=============================================================================
