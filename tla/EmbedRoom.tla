------------------------------- MODULE EmbedRoom -------------------------------
(***************************************************************************)
(* The publishing side of the embedded room: what EmbedRoom.jsx does with  *)
(* the screen, the microphone and the camera, with publish(), unpublish()  *)
(* and the demand notices of useRoomConnection.js.                         *)
(*                                                                         *)
(* The connection itself is EmbedConnection's; here it is live, lost and   *)
(* restored, or ended.  A screen producer has the name of its capture, a   *)
(* device producer that of the enableCameraAndMic that made it, both       *)
(* numbered in the order they were started.  A step is the code between    *)
(* two awaits.                                                             *)
(***************************************************************************)
EXTENDS EmbedPolicy, FiniteSets

CONSTANTS
  Devices,              \* "mic" and "camera", or one of them
  Pickers,              \* what the screen picker may bring
  RequireEntireScreen,  \* the token's policy
  Mode,                 \* the room's mode
  MaxShares,            \* bound: startScreenShare calls
  MaxEnables,           \* bound: enableCameraAndMic calls
  MaxStarts,            \* bound: calls of either
  MaxDrops              \* bound: lost connections

ASSUME EmbedRoomAssumption ==
  /\ Devices \subseteq {"mic", "camera"} /\ Mode \in {"screen", "meeting"}
  /\ Pickers \subseteq Surfaces \cup {"dismissed", "denied", "no-video"}
  /\ RequireEntireScreen \in BOOLEAN
  /\ MaxShares \in Nat /\ MaxEnables \in Nat
  /\ MaxStarts \in Nat /\ MaxDrops \in Nat

Shares    == 1..MaxShares
Enables   == 1..MaxEnables
None      == 0
Producers == ({"screen"} \X Shares) \cup (Devices \X Enables)
Screen(c) == <<"screen", c>>

VARIABLES
  phase,       \* phase of the connection
  drops,       \* lost connections so far
  \* screen
  share,       \* where each startScreenShare is
  track,       \* the track of each capture
  hooked,      \* captures whose track.onended is set
  screenStream,    \* screenStreamRef
  screenProducer,  \* screenProducerRef
  sharing,     \* sharing
  \* microphone and camera
  enable,      \* what each enableCameraAndMic awaits
  granted,     \* tracks it was given and has not published, while they run
  localStream, \* localStreamRef
  ref,         \* micProducerRef, cameraProducerRef
  on,          \* micOn, cameraOn
  \* producers
  made,        \* each producer: "none", "producing", "up" or "closed"
  paused,      \* its paused
  pending,     \* pendingDemandRef: those of whom it last heard that nobody watches
  \* history, for the properties
  overlapped,  \* a share was started while another was under way
  woken,       \* devices resumed by a demand notice while off
  late         \* enables answered after the page was left

screen  == <<share, track, hooked, screenStream, screenProducer, sharing>>
devices == <<enable, granted, localStream, ref, on>>
media   == <<made, paused, pending>>
history == <<overlapped, woken, late>>
vars    == <<phase, drops, screen, devices, media, history>>

TypeOK ==
  /\ phase \in {"live", "reconnecting", "ended"} /\ drops \in 0..MaxDrops
  /\ overlapped \in BOOLEAN
  /\ share \in [Shares -> {"none", "picking", "publishing", "tuning", "done"}]
  /\ track \in [Shares -> {"none", "running", "stopped"}]
  /\ hooked \subseteq Shares
  /\ screenStream \in Shares \cup {None} /\ screenProducer \in Shares \cup {None}
  /\ sharing \in Shares \cup {None}
  /\ enable \in [Enables -> {"none", "asking", "mic", "camera", "done"}]
  /\ granted \in [Enables -> SUBSET Devices] /\ localStream \in Enables \cup {None}
  /\ ref \in [Devices -> Enables \cup {None}] /\ on \in [Devices -> BOOLEAN]
  /\ made \in [Producers -> {"none", "producing", "up", "closed"}]
  /\ paused \in [Producers -> BOOLEAN]
  /\ pending \subseteq Producers
  /\ woken \subseteq Devices /\ late \subseteq Enables
  \* A producer the page shows or holds has been made.
  /\ screenProducer # None => made[Screen(screenProducer)] \in {"up", "closed"}
  /\ \A d \in Devices : ref[d] # None => made[<<d, ref[d]>>] \in {"up", "closed"}

Init ==
  /\ phase = "live" /\ drops = 0
  /\ share = [c \in Shares |-> "none"] /\ track = [c \in Shares |-> "none"]
  /\ hooked = {} /\ screenStream = None /\ screenProducer = None /\ sharing = None
  /\ enable = [e \in Enables |-> "none"] /\ granted = [e \in Enables |-> {}]
  /\ localStream = None
  /\ ref = [d \in Devices |-> None] /\ on = [d \in Devices |-> FALSE]
  /\ made = [p \in Producers |-> "none"] /\ paused = [p \in Producers |-> FALSE]
  /\ pending = {}
  /\ overlapped = FALSE /\ woken = {} /\ late = {}

\* The page as it is rendered, for a publisher with all of its controls.  busy
\* is left out: it disables buttons whose message from the host page works.
Page == [valid |-> TRUE, expired |-> FALSE, phase |-> phase, isViewer |-> FALSE,
         mode |-> Mode, sharing |-> sharing # None, feeds |-> FALSE,
         selfPreview |-> FALSE, controls |-> TRUE, busy |-> FALSE,
         hasMic |-> "mic" \in Devices /\ ref["mic"] # None,
         hasCamera |-> "camera" \in Devices /\ ref["camera"] # None]

SharesUnderWay == {c \in Shares : share[c] \in {"picking", "publishing", "tuning"}}

MayStart == Cardinality({c \in Shares : share[c] # "none"})
            + Cardinality({e \in Enables : enable[e] # "none"}) < MaxStarts

(***************************************************************************)
(* publish() and unpublish()                                               *)
(***************************************************************************)
\* The producer exists; a notice that nobody watches may have come first.
Up(p) ==
  /\ made[p] = "producing" /\ phase = "live"
  /\ made' = [made EXCEPT ![p] = "up"]
  /\ paused' = [paused EXCEPT ![p] = p \in pending]
  /\ pending' = pending \ {p}

\* produce() is refused, not answered in time, or loses its transport.
Down(p) ==
  /\ made[p] = "producing"
  /\ made' = [made EXCEPT ![p] = "closed"]
  /\ UNCHANGED <<paused, pending>>

Unpublished(p) == [made EXCEPT ![p] = IF @ = "up" THEN "closed" ELSE @]

\* meet-producer-demand, whatever the page shows of the producer.
Demand(p, watchers) ==
  /\ made[p] \in {"producing", "up"} /\ phase = "live"
  /\ IF made[p] = "up"
     THEN /\ paused' = [paused EXCEPT ![p] = (watchers = "idle")]
          /\ UNCHANGED pending
     ELSE /\ pending' = IF watchers = "idle" THEN pending \cup {p} ELSE pending \ {p}
          /\ UNCHANGED paused
  /\ woken' = IF p[1] \in Devices /\ made[p] = "up" /\ paused[p] /\ watchers = "watched"
                 /\ ~on[p[1]]
              THEN woken \cup {p[1]} ELSE woken
  /\ UNCHANGED <<phase, drops, screen, devices, made, overlapped, late>>

(***************************************************************************)
(* Screen sharing                                                          *)
(***************************************************************************)
\* startScreenShare: its button is disabled while busy, the message of the host
\* page asks only that no share has come to be shown.
StartScreenShare(c) ==
  /\ share[c] = "none" /\ (\A a \in 1..(c - 1) : share[a] # "none") /\ MayStart
  /\ sharing = None
  /\ share' = [share EXCEPT ![c] = "picking"]
  /\ overlapped' = (overlapped \/ SharesUnderWay # {})
  /\ UNCHANGED <<phase, drops, track, hooked, screenStream, screenProducer, sharing,
                 devices, media, woken, late>>

Fail(c) == share' = [share EXCEPT ![c] = "done"]

\* captureScreen throws: what the picker had brought is stopped.
CaptureRefused(c, picker) ==
  /\ share[c] = "picking"
  /\ CaptureOutcome(TRUE, picker, RequireEntireScreen) # "ok"
  /\ Fail(c)
  /\ track' = IF picker \in Surfaces THEN [track EXCEPT ![c] = "stopped"] ELSE track
  /\ UNCHANGED <<phase, drops, hooked, screenStream, screenProducer, sharing, devices,
                 media, history>>

\* As if the producer were taken for made when it is asked for.
Captured_Assigned(c, picker) ==
  /\ share[c] = "picking" /\ phase = "live"
  /\ CaptureOutcome(TRUE, picker, RequireEntireScreen) = "ok"
  /\ share' = [share EXCEPT ![c] = "publishing"]
  /\ track' = [track EXCEPT ![c] = "running"]
  /\ screenStream' = c /\ screenProducer' = c
  /\ made' = [made EXCEPT ![Screen(c)] = "producing"]
  /\ UNCHANGED <<phase, drops, hooked, sharing, devices, paused, pending, history>>

\* It returns a track; publish() goes as far as produce(), or throws because
\* there is no transport to send on.
Captured(c, picker) ==
  /\ share[c] = "picking"
  /\ CaptureOutcome(TRUE, picker, RequireEntireScreen) = "ok"
  /\ IF phase = "live"
     THEN /\ share' = [share EXCEPT ![c] = "publishing"]
          /\ track' = [track EXCEPT ![c] = "running"]
          /\ screenStream' = c
          /\ made' = [made EXCEPT ![Screen(c)] = "producing"]
     ELSE /\ Fail(c)
          /\ track' = [track EXCEPT ![c] = "stopped"]
          /\ screenStream' = None
          /\ made' = made
  /\ UNCHANGED <<phase, drops, hooked, screenProducer, sharing, devices, paused, pending,
                 history>>

\* As if a share that cannot be published kept its track.
PublishFails_Running(c) ==
  /\ share[c] = "publishing"
  /\ Down(Screen(c))
  /\ Fail(c)
  /\ screenStream' = None
  /\ UNCHANGED <<phase, drops, track, hooked, screenProducer, sharing, devices, history>>

PublishFails(c) ==
  /\ share[c] = "publishing"
  /\ Down(Screen(c))
  /\ Fail(c)
  /\ track' = [track EXCEPT ![c] = "stopped"]
  /\ screenStream' = None
  /\ UNCHANGED <<phase, drops, hooked, screenProducer, sharing, devices, history>>

Published(c) ==
  /\ share[c] = "publishing"
  /\ Up(Screen(c))
  /\ share' = [share EXCEPT ![c] = "tuning"]
  /\ screenProducer' = c
  /\ UNCHANGED <<phase, drops, track, hooked, screenStream, sharing, devices, history>>

\* preferSharpness has settled: only now does the page say that it shares, and
\* listen to the end of the track.
Shared(c) ==
  /\ share[c] = "tuning"
  /\ share' = [share EXCEPT ![c] = "done"]
  /\ sharing' = c /\ hooked' = hooked \cup {c}
  /\ UNCHANGED <<phase, drops, track, screenStream, screenProducer, devices, media, history>>

\* stopScreenShare.
StopScreen ==
  /\ made' = IF screenProducer = None THEN made ELSE Unpublished(Screen(screenProducer))
  /\ track' = IF screenStream = None THEN track ELSE [track EXCEPT ![screenStream] = "stopped"]
  /\ screenProducer' = None /\ screenStream' = None /\ sharing' = None

StopScreenShare ==
  /\ sharing # None
  /\ StopScreen
  /\ UNCHANGED <<phase, drops, share, hooked, devices, paused, pending, history>>

\* The browser's own bar ends a track.
BrowserStops(c) ==
  /\ track[c] = "running"
  /\ IF c \in hooked
     THEN /\ made' = IF screenProducer = None THEN made
                     ELSE Unpublished(Screen(screenProducer))
          /\ track' = [a \in Shares |-> IF a \in {c, screenStream} THEN "stopped" ELSE track[a]]
          /\ screenProducer' = None /\ screenStream' = None /\ sharing' = None
     ELSE /\ track' = [track EXCEPT ![c] = "stopped"]
          /\ UNCHANGED <<made, screenProducer, screenStream, sharing>>
  /\ UNCHANGED <<phase, drops, share, hooked, devices, paused, pending, history>>

(***************************************************************************)
(* Microphone and camera                                                   *)
(***************************************************************************)
\* enableCameraAndMic: once startSession has connected, and by its button,
\* which busy does not disable.
EnableCameraAndMic(e) ==
  /\ enable[e] = "none" /\ (\A a \in 1..(e - 1) : enable[a] # "none") /\ MayStart
  /\ Mode # "screen" /\ phase = "live"
  /\ e = 1 \/ "enable" \in Buttons(Page)
  /\ enable' = [enable EXCEPT ![e] = "asking"]
  /\ UNCHANGED <<phase, drops, screen, granted, localStream, ref, on, media, history>>

\* The device published after d, if its track was granted: the microphone first.
NextDevice(devs) ==
  IF "mic" \in devs THEN "mic" ELSE IF "camera" \in devs THEN "camera" ELSE "done"

\* Begin publishing a device, or give up for want of a transport.
Proceed(e, devs) ==
  /\ enable' = [enable EXCEPT ![e] = IF phase = "live" THEN NextDevice(devs) ELSE "done"]
  /\ granted' = [granted EXCEPT ![e] = devs]

\* The prompts are answered, with a track or without, for each device.
Answered(e, devs) ==
  /\ enable[e] = "asking"
  /\ Proceed(e, devs)
  /\ localStream' = IF devs = {} THEN localStream ELSE e
  /\ late' = IF phase = "ended" THEN late \cup {e} ELSE late
  /\ made' = IF NextDevice(devs) = "done" \/ phase # "live" THEN made
             ELSE [made EXCEPT ![<<NextDevice(devs), e>>] = "producing"]
  /\ UNCHANGED <<phase, drops, screen, ref, on, paused, pending, overlapped, woken>>

DevicePublished(e, d) ==
  /\ enable[e] = d
  /\ made[<<d, e>>] = "producing" /\ phase = "live"
  /\ LET rest == granted[e] \ {d}
         up   == [made EXCEPT ![<<d, e>>] = "up"]
     IN /\ Proceed(e, rest)
        /\ made' = IF NextDevice(rest) = "done" THEN up
                   ELSE [up EXCEPT ![<<NextDevice(rest), e>>] = "producing"]
  /\ paused' = [paused EXCEPT ![<<d, e>>] = <<d, e>> \in pending]
  /\ pending' = pending \ {<<d, e>>}
  /\ ref' = [ref EXCEPT ![d] = e] /\ on' = [on EXCEPT ![d] = TRUE]
  /\ woken' = woken \ {d}
  /\ UNCHANGED <<phase, drops, screen, localStream, overlapped, late>>

\* The devices behind it are not published, and their tracks run on.
DeviceFails(e, d) ==
  /\ enable[e] = d
  /\ Down(<<d, e>>)
  /\ enable' = [enable EXCEPT ![e] = "done"]
  /\ granted' = [granted EXCEPT ![e] = @ \ {d}]
  /\ UNCHANGED <<phase, drops, screen, localStream, ref, on, history>>

\* toggleMic, toggleCamera: by what the producer does, not by what is shown.
Toggled(d) == paused[<<d, ref[d]>>]

\* As if only the label changed.
Toggle_Label(d) ==
  /\ ref[d] # None
  /\ on' = [on EXCEPT ![d] = ~@]
  /\ woken' = woken \ {d}
  /\ UNCHANGED <<phase, drops, screen, enable, granted, localStream, ref, media,
                 overlapped, late>>

Toggle(d) ==
  /\ ref[d] # None
  /\ on' = [on EXCEPT ![d] = Toggled(d)]
  /\ paused' = IF made[<<d, ref[d]>>] = "up"
               THEN [paused EXCEPT ![<<d, ref[d]>>] = ~Toggled(d)] ELSE paused
  /\ woken' = woken \ {d}
  /\ UNCHANGED <<phase, drops, screen, enable, granted, localStream, ref, made, pending,
                 overlapped, late>>

(***************************************************************************)
(* The connection                                                          *)
(***************************************************************************)
\* The transports are closed, and with them the producers.  A screen track is
\* not the transport's to stop.
Closed == [p \in Producers |-> IF made[p] = "up" THEN "closed" ELSE made[p]]

Drop ==
  /\ phase = "live" /\ drops < MaxDrops
  /\ phase' = "reconnecting" /\ drops' = drops + 1
  /\ made' = Closed
  /\ UNCHANGED <<screen, devices, paused, pending, history>>

\* Nothing is published again.  What the lost transports were producing has been
\* rejected by then, with their closing.
Rejoin ==
  /\ phase = "reconnecting"
  /\ \A p \in Producers : made[p] # "producing"
  /\ phase' = "live"
  /\ UNCHANGED <<drops, screen, devices, media, history>>

\* As if the local tracks were left to the transport.
Leave_Devices ==
  /\ phase # "ended" /\ phase' = "ended"
  /\ StopScreen
  /\ UNCHANGED <<drops, share, hooked, devices, paused, pending, history>>

\* leave: between two sockets disconnect() finds nothing to close.
Leave ==
  /\ phase # "ended"
  /\ track' = IF screenStream = None THEN track ELSE [track EXCEPT ![screenStream] = "stopped"]
  /\ screenProducer' = None /\ screenStream' = None /\ sharing' = None
  /\ \/ phase' = "ended"
     \/ phase = "reconnecting" /\ phase' = phase
  /\ made' = Closed
  /\ granted' = [e \in Enables |-> IF e = localStream THEN {} ELSE granted[e]]
  /\ UNCHANGED <<drops, share, hooked, enable, localStream, ref, on, paused, pending, history>>

Next ==
  \/ \E c \in Shares :
       \/ StartScreenShare(c) \/ Published(c) \/ PublishFails(c) \/ Shared(c)
       \/ BrowserStops(c)
       \/ \E picker \in Pickers : CaptureRefused(c, picker) \/ Captured(c, picker)
  \/ StopScreenShare
  \/ \E e \in Enables :
       \/ EnableCameraAndMic(e)
       \/ \E devs \in SUBSET Devices : Answered(e, devs)
       \/ \E d \in Devices : DevicePublished(e, d) \/ DeviceFails(e, d)
  \/ \E d \in Devices : Toggle(d)
  \/ \E p \in Producers, watchers \in {"idle", "watched"} : Demand(p, watchers)
  \/ Drop \/ Rejoin \/ Leave

Spec == Init /\ [][Next]_vars

(***************************************************************************)
(* Properties                                                              *)
(***************************************************************************)
\* A screen is never shared in silence: a capture that runs and a producer that
\* sends it are being set up or are what the page says it shares, unless two
\* shares were under way at once.  And what the page says is so, until a
\* connection has been lost, after which it goes on saying it.
ShareShown ==
  /\ \A c \in Shares :
       track[c] = "running" \/ made[Screen(c)] = "up" =>
         share[c] \in {"publishing", "tuning"} \/ sharing = c \/ overlapped
  /\ phase = "live" /\ drops = 0 /\ ~overlapped /\ sharing # None =>
       made[Screen(sharing)] = "up"

\* The page has been left: no screen is captured, and of the microphone and the
\* camera last asked for nothing that had not been answered by then.
LeaveReleases ==
  phase = "ended" =>
    /\ ~overlapped => \A c \in Shares : track[c] # "running"
    /\ localStream # None => granted[localStream] = {} \/ localStream \in late

\* A device the page shows as off sends nothing from the producer it controls,
\* unless a demand notice has resumed it.
MuteHolds ==
  \A d \in Devices :
    phase = "live" /\ ref[d] # None /\ ~on[d] /\ made[<<d, ref[d]>>] = "up" =>
      paused[<<d, ref[d]>>] \/ d \in woken

(***************************************************************************)
(* What keeps them true: the inductive invariant.                          *)
(***************************************************************************)
\* A producer is as far as the share or the enable that makes it, and a device
\* that was granted and is not being published has none yet.
ProducersMatch ==
  /\ \A c \in Shares :
       /\ share[c] \in {"none", "picking"} =>
            made[Screen(c)] = "none" /\ track[c] = "none" /\ screenStream # c
       /\ share[c] = "publishing" <=> made[Screen(c)] = "producing"
       /\ share[c] = "tuning" => made[Screen(c)] \in {"up", "closed"}
       /\ c \in hooked => share[c] = "done"
  /\ \A e \in Enables, d \in Devices :
       /\ enable[e] = d <=> made[<<d, e>>] = "producing"
       /\ enable[e] \in {"none", "asking"} \/ (d \in granted[e] /\ enable[e] # d)
            => made[<<d, e>>] = "none"

\* Shares that never overlapped: one at a time, none while another is shown, and
\* the capture that runs and the producer that sends it are those the page holds.
OneShare ==
  ~overlapped => \A c \in Shares :
    /\ c \in SharesUnderWay => sharing = None /\ SharesUnderWay = {c}
    /\ track[c] = "running" => screenStream = c
    /\ made[Screen(c)] = "up" => screenProducer = c

\* Nothing is up while the connection is gone, and a share whose producer was
\* made still has it when it comes to be shown, unless a connection was lost.
UpWhileLive ==
  /\ phase # "live" => \A p \in Producers : made[p] # "up"
  /\ phase = "reconnecting" => drops > 0
  /\ phase = "live" /\ drops = 0 /\ ~overlapped =>
       \A c \in Shares : share[c] = "tuning" => made[Screen(c)] = "up"

InductiveInv ==
  /\ TypeOK
  /\ ProducersMatch /\ OneShare /\ UpWhileLive
  /\ ShareShown /\ LeaveReleases /\ MuteHolds
=============================================================================
