------------------------------ MODULE EmbedPolicy ------------------------------
(***************************************************************************)
(* The decisions of the embed that depend on nothing but their arguments:  *)
(* screenTuning.js, screenCapture.js, embedOptions.js, roomToken.js, what  *)
(* EmbedRoom.jsx renders, and when RemoteVideo asks for a keyframe.        *)
(*                                                                         *)
(* A JavaScript value is abstracted to what the code tells apart.          *)
(***************************************************************************)
EXTENDS Integers

CONSTANTS
  Null,  \* null and undefined
  NaN    \* what Number() makes of undefined and of a string that is no number

ASSUME PolicyAssumption == NaN \notin Int /\ Null \notin Int \cup BOOLEAN \cup STRING

OrElse(value, default) == IF value = Null THEN default ELSE value

(***************************************************************************)
(* screenTuning.js                                                         *)
(***************************************************************************)
\* clamp: n is Number(value): 0 for null and for an empty string.
Clamp(n, lo, hi, fallback) ==
  IF n = NaN THEN fallback ELSE IF n < lo THEN lo ELSE IF n > hi THEN hi ELSE n

Hints == {"detail", "motion", "text"}

ScreenDefaults ==
  [maxWidth |-> 1920, maxHeight |-> 1200, fps |-> 30, maxBitrate |-> 5000000,
   contentHint |-> "detail"]

ResolveScreenSettings(o) ==
  [maxWidth    |-> Clamp(o.maxWidth, 640, 3840, ScreenDefaults.maxWidth),
   maxHeight   |-> Clamp(o.maxHeight, 480, 2160, ScreenDefaults.maxHeight),
   fps         |-> Clamp(o.fps, 1, 60, ScreenDefaults.fps),
   maxBitrate  |-> Clamp(o.maxBitrate, 250000, 20000000, ScreenDefaults.maxBitrate),
   contentHint |-> IF o.contentHint \in Hints THEN o.contentHint
                   ELSE ScreenDefaults.contentHint]

ScreenVideoConstraints(o) ==
  LET s == ResolveScreenSettings(o)
  IN [displaySurface |-> "monitor", width |-> s.maxWidth, height |-> s.maxHeight,
      frameRate |-> [ideal |-> s.fps, max |-> s.fps]]

\* preferSharpness: what gives way when the encoder cannot keep up.
DegradationPreference(contentHint) ==
  IF contentHint = "motion" THEN "maintain-framerate" ELSE "maintain-resolution"

\* readEncoderStats: no report without an outbound stream.  kbps is absent for
\* a target of 0 or none; a round trip of 0 is kept.
ReadEncoderStats(outbound, remote, paused) ==
  IF outbound = Null THEN Null
  ELSE [limitedBy |-> outbound.limitation,
        kbps      |-> IF outbound.targetBitrate \in {Null, 0} THEN Null
                      ELSE (outbound.targetBitrate + 500) \div 1000,
        rttMs     |-> IF remote = Null THEN Null ELSE remote.rttMs,
        paused    |-> paused]

(***************************************************************************)
(* screenCapture.js                                                        *)
(***************************************************************************)
Surfaces == {"monitor", "window", "browser", Null}

\* captureScreen: "ok" or the code it throws.  The picker dismisses or denies,
\* gives no video, or a surface; only a surface leaves a track running.
CaptureOutcome(visible, picker, requireEntireScreen) ==
  CASE ~visible                          -> "EMBED_NOT_VISIBLE"
    [] visible /\ picker = "dismissed"   -> "CANCELLED"
    [] visible /\ picker = "denied"      -> "PERMISSION_DENIED"
    [] visible /\ picker = "no-video"    -> "NO_VIDEO_TRACK"
    [] visible /\ picker \in Surfaces    ->
         IF ~requireEntireScreen \/ picker = "monitor" THEN "ok"
         ELSE IF picker = Null THEN "SURFACE_UNKNOWN" ELSE "ENTIRE_SCREEN_REQUIRED"

(***************************************************************************)
(* roomToken.js: the claims of a token, for the first paint                *)
(***************************************************************************)
ReadRoomTokenClaims(raw) ==
  IF raw = Null THEN Null
  ELSE [role         |-> OrElse(raw.role, IF raw.canPublish = "false" THEN "viewer"
                                          ELSE "publisher"),
        canPublish   |-> raw.canPublish # "false",
        canSubscribe |-> raw.canSubscribe # "false",
        mode         |-> OrElse(raw.mode, "meeting"),
        expiresAt    |-> raw.exp]

\* What the server confirmed at meet-joined wins over the claims.
Known(session, claims, field, default) ==
  IF session # Null /\ session[field] # Null THEN session[field]
  ELSE IF claims # Null THEN claims[field] ELSE default

(***************************************************************************)
(* embedOptions.js                                                         *)
(***************************************************************************)
ChromeKeys == {"header", "controls", "participants", "timer", "selfPreview"}

Flag(value) ==
  CASE value \in {"1", "true", "yes", "on"}  -> TRUE
    [] value \in {"0", "false", "no", "off"} -> FALSE
    [] OTHER                                 -> Null

\* A preset says nothing of the self preview.
Presets(name) ==
  LET on == CASE name = "full"    -> ChromeKeys \ {"selfPreview"}
              [] name = "minimal" -> {"controls"}
              [] OTHER            -> {}
  IN [k \in ChromeKeys |-> IF name \notin {"full", "minimal", "bare"} \/ k = "selfPreview"
                           THEN Null ELSE k \in on]

ReadEmbedOptions(query) ==
  [preset   |-> Presets(query.ui),
   explicit |-> [k \in ChromeKeys |-> Flag(query[k])],
   capture  |-> query.capture]

\* Defaults for the mode and the role, then the preset, then explicit flags.
ResolveEmbedUi(options, mode, isViewer) ==
  LET screen == mode = "screen"
      base   == [k \in ChromeKeys |->
                  CASE k = "selfPreview" -> FALSE
                    [] k = "controls"    -> ~screen \/ ~isViewer
                    [] OTHER             -> ~screen]
  IN [k \in ChromeKeys |->
        IF options.explicit[k] # Null THEN options.explicit[k]
        ELSE IF options.preset[k] # Null THEN options.preset[k]
        ELSE base[k]]

(***************************************************************************)
(* EmbedRoom.jsx: what is on the page                                      *)
(***************************************************************************)
\* p: valid, expired, phase, isViewer, mode, sharing, feeds, selfPreview, and
\* for the buttons controls, busy, hasMic, hasCamera.
ViewerStage(p) ==
  IF p.phase # "live" THEN "waiting" ELSE IF p.feeds THEN "feeds" ELSE "nothing-shared"

Connecting(p) == IF p.phase \in {"connecting", "idle"} THEN "spinner" ELSE "retry"

PublisherStage(p) ==
  IF p.mode # "screen" THEN "call"
  ELSE IF ~p.sharing THEN "offer-share"
  ELSE IF p.selfPreview THEN "call" ELSE "confirmation"

StageShown(p) ==
  CASE ~p.valid                      -> "not-valid"
    [] p.valid /\ p.expired /\ p.phase # "live" -> "expired"
    [] p.valid /\ (p.phase = "live" \/ ~p.expired) ->
         IF p.phase = "ended" THEN "ended"
         ELSE IF p.isViewer THEN ViewerStage(p)
         ELSE IF p.phase = "live" THEN PublisherStage(p) ELSE Connecting(p)

StageButtons(p) ==
  LET stage == StageShown(p)
  IN {b \in {"retry", "share", "enable"} :
        CASE b = "retry"  -> stage = "retry"
          [] b = "share"  -> stage = "offer-share" /\ ~p.busy
          [] b = "enable" -> stage = "call" /\ ~p.hasCamera /\ p.mode # "screen"}

\* Shown while live, in a screen session only once the screen is shared.
ControlBar(p) ==
  LET meeting == p.mode # "screen"
  IN {b \in {"share", "stop", "mic", "camera", "leave"} :
        CASE b = "share"  -> ~p.isViewer /\ ~p.busy /\ ~p.sharing
          [] b = "stop"   -> ~p.isViewer /\ ~p.busy /\ p.sharing
          [] b = "mic"    -> ~p.isViewer /\ meeting /\ p.hasMic
          [] b = "camera" -> ~p.isViewer /\ meeting /\ p.hasCamera
          [] b = "leave"  -> meeting}

\* The buttons a person can press.
Buttons(p) ==
  StageButtons(p) \cup
  IF p.valid /\ p.phase = "live" /\ p.controls /\ (p.mode # "screen" \/ p.sharing)
  THEN ControlBar(p) ELSE {}

(***************************************************************************)
(* RemoteVideo: one tick of its timer.  seen: frames have been decoded,    *)
(* live: the track is live, moved: currentTime is not what it last was.    *)
(***************************************************************************)
MaxTries  == 15
MaxStalls == 2

Tick(w, seen, live, moved) ==
  CASE ~seen -> [w EXCEPT !.tries = @ + 1, !.asks = w.tries + 1 <= MaxTries]
    [] seen /\ ~live -> [w EXCEPT !.tries = 0, !.asks = FALSE]
    [] seen /\ live /\ moved -> [w EXCEPT !.tries = 0, !.stalled = 0, !.asks = FALSE]
    [] seen /\ live /\ ~moved ->
         [w EXCEPT !.tries = 0, !.asks = w.stalled + 1 >= MaxStalls,
                   !.stalled = IF w.stalled + 1 >= MaxStalls THEN 0 ELSE w.stalled + 1]
=============================================================================
