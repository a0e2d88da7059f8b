---------------------------- MODULE EmbedRoomProofs ----------------------------
(***************************************************************************)
(* The safety properties of EmbedRoom, for any number of shares, device    *)
(* prompts and lost connections, any picker results and any mode.          *)
(*                                                                         *)
(* InductiveInv is shown to hold initially and to be kept by every action, *)
(* one lemma per action.  Screen and device producers are told apart once, *)
(* in the lemmas about `made'; everything after them speaks of shares and  *)
(* of devices.                                                             *)
(***************************************************************************)
EXTENDS EmbedRoom, TLAPS

ProdStates == {"none", "producing", "up", "closed"}

LEMMA ScreenIsNoDevice == "screen" \notin Devices
  BY EmbedRoomAssumption

LEMMA ProducersAre ==
  /\ \A c \in Shares : Screen(c) \in Producers
  /\ \A d \in Devices, e \in Enables : <<d, e>> \in Producers
  /\ \A p \in Producers : \/ \E c \in Shares : p = Screen(c)
                          \/ \E d \in Devices, e \in Enables : p = <<d, e>>
  BY DEF Producers, Screen

LEMMA ProducersDiffer ==
  /\ \A a, c \in Shares : Screen(a) = Screen(c) => a = c
  /\ \A c \in Shares, d \in Devices, e \in Enables : Screen(c) # <<d, e>>
  /\ \A d, f \in Devices, e, g \in Enables : <<d, e>> = <<f, g>> => d = f /\ e = g
  BY ScreenIsNoDevice DEF Screen

\* The producers after that of one share, or of one device, has changed.
LEMMA ScreenSet ==
  ASSUME TypeOK, NEW c \in Shares, NEW v \in ProdStates,
         made' = [made EXCEPT ![Screen(c)] = v]
  PROVE  /\ made' \in [Producers -> ProdStates]
         /\ \A a \in Shares : made'[Screen(a)] = IF a = c THEN v ELSE made[Screen(a)]
         /\ \A d \in Devices, e \in Enables : made'[<<d, e>>] = made[<<d, e>>]
  BY ProducersAre, ProducersDiffer DEF TypeOK, ProdStates

LEMMA DeviceSet ==
  ASSUME TypeOK, NEW d \in Devices, NEW e \in Enables, NEW v \in ProdStates,
         NEW m \in [Producers -> ProdStates]
  PROVE  LET n == [m EXCEPT ![<<d, e>>] = v]
         IN /\ n \in [Producers -> ProdStates]
            /\ \A a \in Shares : n[Screen(a)] = m[Screen(a)]
            /\ \A f \in Devices, g \in Enables :
                 n[<<f, g>>] = IF f = d /\ g = e THEN v ELSE m[<<f, g>>]
<1> DEFINE n == [m EXCEPT ![<<d, e>>] = v]
<1>1. n \in [Producers -> ProdStates]
  BY ProducersAre
<1>2. \A p \in Producers : n[p] = IF p = <<d, e>> THEN v ELSE m[p]
  BY ProducersAre
<1>3. \A a \in Shares : n[Screen(a)] = m[Screen(a)]
  BY <1>2, ProducersAre, ProducersDiffer
<1>4. \A f \in Devices, g \in Enables :
        n[<<f, g>>] = IF f = d /\ g = e THEN v ELSE m[<<f, g>>]
  BY <1>2, ProducersAre, ProducersDiffer
<1>5. QED BY <1>1, <1>3, <1>4

LEMMA InitInductive == Init => InductiveInv
<1> SUFFICES ASSUME Init PROVE InductiveInv
  OBVIOUS
<1>1. TypeOK
  <2>1. 0 \in 0..MaxDrops
    BY EmbedRoomAssumption
  <2>2. \A d \in Devices : ref[d] = None
    BY DEF Init
  <2>3. /\ share \in [Shares -> {"none", "picking", "publishing", "tuning", "done"}]
        /\ track \in [Shares -> {"none", "running", "stopped"}]
        /\ enable \in [Enables -> {"none", "asking", "mic", "camera", "done"}]
        /\ granted \in [Enables -> SUBSET Devices]
        /\ ref \in [Devices -> Enables \cup {None}] /\ on \in [Devices -> BOOLEAN]
        /\ made \in [Producers -> ProdStates] /\ paused \in [Producers -> BOOLEAN]
    BY DEF Init, ProdStates
  <2>4. QED BY <2>1, <2>2, <2>3 DEF Init, TypeOK, ProdStates
<1>2. \A c \in Shares : made[Screen(c)] = "none"
  BY ProducersAre DEF Init
<1>3. \A d \in Devices, e \in Enables : made[<<d, e>>] = "none" /\ d # "none"
  BY ProducersAre, EmbedRoomAssumption DEF Init
<1>4. ProducersMatch /\ OneShare /\ UpWhileLive
  BY <1>2, <1>3 DEF Init, ProducersMatch, OneShare, UpWhileLive, SharesUnderWay, Shares, None
<1>5. ShareShown /\ LeaveReleases /\ MuteHolds
  BY <1>2, <1>3 DEF Init, ShareShown, LeaveReleases, MuteHolds
<1>6. QED BY <1>1, <1>4, <1>5 DEF InductiveInv

(***************************************************************************)
(* Screen sharing                                                          *)
(***************************************************************************)
\* What the devices need of a step that is none of theirs.
LEMMA DevicesKept ==
  ASSUME InductiveInv, UNCHANGED devices, UNCHANGED <<woken, late>>,
         paused' \in [Producers -> BOOLEAN],
         phase' = "live" => phase = "live",
         phase' = "ended" => phase = "ended",
         \A d \in Devices, e \in Enables :
           made'[<<d, e>>] = made[<<d, e>>] /\ paused'[<<d, e>>] = paused[<<d, e>>]
  PROVE  /\ \A e \in Enables, d \in Devices :
              /\ enable'[e] = d <=> made'[<<d, e>>] = "producing"
              /\ enable'[e] \in {"none", "asking"} \/ (d \in granted'[e] /\ enable'[e] # d)
                   => made'[<<d, e>>] = "none"
         /\ \A d \in Devices :
              ref'[d] # None => ref'[d] \in Enables /\ made'[<<d, ref'[d]>>] \in {"up", "closed"}
         /\ phase' = "ended" /\ localStream' # None =>
              granted'[localStream'] = {} \/ localStream' \in late'
         /\ MuteHolds'
<1>1. \A d \in Devices : ref[d] # None => ref[d] \in Enables
  BY DEF InductiveInv, TypeOK
<1>2. \A d \in Devices :
        ref[d] # None => made'[<<d, ref[d]>>] = made[<<d, ref[d]>>]
                         /\ paused'[<<d, ref[d]>>] = paused[<<d, ref[d]>>]
  BY <1>1
<1>3. MuteHolds'
  BY <1>2 DEF InductiveInv, MuteHolds, devices
<1>4. QED
  BY <1>1, <1>2, <1>3 DEF InductiveInv, TypeOK, ProducersMatch, LeaveReleases, devices

LEMMA StartScreenShareKeeps ==
  ASSUME InductiveInv, NEW c \in Shares, StartScreenShare(c)
  PROVE  InductiveInv'
<1>1. TypeOK'
  BY DEF InductiveInv, TypeOK, StartScreenShare, devices, media
<1>3. ProducersMatch'
  BY DEF InductiveInv, TypeOK, ProducersMatch, StartScreenShare, devices, media
<1>4. ~overlapped' => ~overlapped /\ SharesUnderWay = {} /\ SharesUnderWay' = {c}
  BY DEF InductiveInv, TypeOK, StartScreenShare, SharesUnderWay
<1>5. OneShare'
  BY <1>4 DEF InductiveInv, TypeOK, OneShare, StartScreenShare, media
<1>6. UpWhileLive'
  BY DEF InductiveInv, TypeOK, UpWhileLive, StartScreenShare, media
<1>7. ShareShown'
  BY DEF InductiveInv, TypeOK, ShareShown, ProducersMatch, StartScreenShare, media
<1>8. (LeaveReleases /\ MuteHolds)'
  BY DEF InductiveInv, LeaveReleases, MuteHolds, StartScreenShare, devices, media
<1>9. QED BY <1>1, <1>3, <1>5, <1>6, <1>7, <1>8 DEF InductiveInv

\* A share that is no longer under way leaves none.
LEMMA OthersUnderWay ==
  ASSUME InductiveInv, ~overlapped, NEW c \in SharesUnderWay
  PROVE  /\ sharing = None
         /\ \A a \in Shares \ {c} : /\ share[a] \in {"none", "done"}
                                    /\ track[a] # "running" /\ made[Screen(a)] # "up"
<1>1. c \in Shares /\ sharing = None /\ SharesUnderWay = {c}
  BY DEF InductiveInv, OneShare, SharesUnderWay
<1>2. \A a \in Shares \ {c} : share[a] \in {"none", "done"}
  BY <1>1 DEF InductiveInv, TypeOK, SharesUnderWay
<1>3. \A a \in Shares \ {c} : sharing # a
  BY <1>1 DEF Shares, None
<1>4. QED BY <1>1, <1>2, <1>3 DEF InductiveInv, ShareShown

LEMMA CaptureRefusedKeeps ==
  ASSUME InductiveInv, NEW c \in Shares, NEW picker, CaptureRefused(c, picker)
  PROVE  InductiveInv'
<1>1. /\ share[c] = "picking" /\ share' = [share EXCEPT ![c] = "done"]
      /\ made' = made /\ UNCHANGED <<sharing, screenStream, screenProducer, overlapped>>
      /\ UNCHANGED <<phase, drops, devices, media, history, hooked>>
  BY DEF CaptureRefused, Fail, media, history
<1>2. /\ track' \in [Shares -> {"none", "running", "stopped"}]
      /\ \A a \in Shares : /\ a # c => track'[a] = track[a]
                           /\ track'[c] # "running"
  BY <1>1 DEF InductiveInv, TypeOK, ProducersMatch, CaptureRefused
<1>3. TypeOK'
  BY <1>1, <1>2 DEF InductiveInv, TypeOK, devices, media, history
<1>4. ProducersMatch'
  BY <1>1, <1>2 DEF InductiveInv, TypeOK, ProducersMatch, devices
<1>5. OneShare'
  BY <1>1, <1>2 DEF InductiveInv, TypeOK, OneShare, SharesUnderWay
<1>6. UpWhileLive'
  BY <1>1 DEF InductiveInv, TypeOK, UpWhileLive
<1>7. ShareShown'
  BY <1>1, <1>2 DEF InductiveInv, TypeOK, ShareShown, ProducersMatch
<1>8. (LeaveReleases /\ MuteHolds)'
  BY <1>1, <1>2 DEF InductiveInv, LeaveReleases, MuteHolds, devices, media, history
<1>9. QED BY <1>3, <1>4, <1>5, <1>6, <1>7, <1>8 DEF InductiveInv

LEMMA CapturedKeeps ==
  ASSUME InductiveInv, NEW c \in Shares, NEW picker, Captured(c, picker)
  PROVE  InductiveInv'
<1>1. /\ share[c] = "picking" /\ made[Screen(c)] = "none" /\ track[c] = "none"
      /\ c \in SharesUnderWay
  BY DEF InductiveInv, ProducersMatch, Captured, SharesUnderWay
<1>2. /\ UNCHANGED <<phase, drops, hooked, screenProducer, sharing, devices, overlapped>>
      /\ UNCHANGED <<paused, pending, woken, late>>
  BY DEF Captured, history
<1>3. CASE phase = "live"
  <2>1. /\ share' = [share EXCEPT ![c] = "publishing"]
        /\ track' = [track EXCEPT ![c] = "running"]
        /\ screenStream' = c /\ made' = [made EXCEPT ![Screen(c)] = "producing"]
    BY <1>3 DEF Captured
  <2>2. /\ made' \in [Producers -> ProdStates]
        /\ \A a \in Shares :
             made'[Screen(a)] = IF a = c THEN "producing" ELSE made[Screen(a)]
        /\ \A d \in Devices, e \in Enables : made'[<<d, e>>] = made[<<d, e>>]
    BY <2>1, ScreenSet DEF InductiveInv, ProdStates
  <2>3. /\ \A e \in Enables, d \in Devices :
             /\ enable'[e] = d <=> made'[<<d, e>>] = "producing"
             /\ enable'[e] \in {"none", "asking"} \/ (d \in granted'[e] /\ enable'[e] # d)
                  => made'[<<d, e>>] = "none"
        /\ \A d \in Devices :
             ref'[d] # None => ref'[d] \in Enables /\ made'[<<d, ref'[d]>>] \in {"up", "closed"}
        /\ phase' = "ended" /\ localStream' # None =>
             granted'[localStream'] = {} \/ localStream' \in late'
        /\ MuteHolds'
    BY <1>2, <2>2, DevicesKept DEF InductiveInv, TypeOK
  <2>4. screenProducer # None => screenProducer # c
    BY <1>1 DEF InductiveInv, TypeOK
  <2>5. TypeOK'
    BY <1>2, <2>1, <2>2, <2>3, <2>4 DEF InductiveInv, TypeOK, devices, ProdStates
  <2>6. ProducersMatch'
    BY <1>1, <1>2, <2>1, <2>2, <2>3 DEF InductiveInv, TypeOK, ProducersMatch
  <2>7. OneShare'
    BY <1>1, <1>2, <2>1, <2>2, OthersUnderWay
    DEF InductiveInv, TypeOK, OneShare, SharesUnderWay
  <2>8. UpWhileLive'
    BY <1>2, <1>3, <2>1, <2>2 DEF InductiveInv, TypeOK, UpWhileLive
  <2>9. ShareShown'
    BY <1>1, <1>2, <2>1, <2>2, OthersUnderWay
    DEF InductiveInv, TypeOK, ShareShown
  <2>10. LeaveReleases'
    BY <1>2, <1>3, <2>3 DEF LeaveReleases
  <2>11. QED BY <2>3, <2>5, <2>6, <2>7, <2>8, <2>9, <2>10 DEF InductiveInv
<1>4. CASE phase # "live"
  <2>1. /\ share' = [share EXCEPT ![c] = "done"]
        /\ track' = [track EXCEPT ![c] = "stopped"]
        /\ screenStream' = None /\ made' = made
    BY <1>4 DEF Captured, Fail
  <2>2. TypeOK'
    BY <1>2, <2>1 DEF InductiveInv, TypeOK, devices
  <2>3. ProducersMatch'
    BY <1>1, <1>2, <2>1 DEF InductiveInv, TypeOK, ProducersMatch, devices, Shares, None
  <2>4. OneShare'
    BY <1>1, <1>2, <2>1, OthersUnderWay
    DEF InductiveInv, TypeOK, OneShare, SharesUnderWay
  <2>5. (UpWhileLive /\ ShareShown)'
    BY <1>1, <1>2, <1>4, <2>1 DEF InductiveInv, TypeOK, UpWhileLive, ShareShown
  <2>6. (LeaveReleases /\ MuteHolds)'
    BY <1>2, <2>1 DEF InductiveInv, TypeOK, LeaveReleases, MuteHolds, devices
  <2>7. QED BY <2>2, <2>3, <2>4, <2>5, <2>6 DEF InductiveInv
<1>5. QED BY <1>3, <1>4

LEMMA PublishFailsKeeps ==
  ASSUME InductiveInv, NEW c \in Shares, PublishFails(c)
  PROVE  InductiveInv'
<1>1. /\ share[c] = "publishing" /\ share' = [share EXCEPT ![c] = "done"]
      /\ track' = [track EXCEPT ![c] = "stopped"]
      /\ screenStream' = None /\ made' = [made EXCEPT ![Screen(c)] = "closed"]
      /\ UNCHANGED <<phase, drops, hooked, screenProducer, sharing, devices, overlapped>>
      /\ UNCHANGED <<paused, pending, woken, late>>
      /\ c \in SharesUnderWay
  BY DEF PublishFails, Down, Fail, history, SharesUnderWay
<1>2. /\ made' \in [Producers -> ProdStates]
      /\ \A a \in Shares :
           made'[Screen(a)] = IF a = c THEN "closed" ELSE made[Screen(a)]
      /\ \A d \in Devices, e \in Enables : made'[<<d, e>>] = made[<<d, e>>]
  BY <1>1, ScreenSet DEF InductiveInv, ProdStates
<1>3. /\ \A e \in Enables, d \in Devices :
           /\ enable'[e] = d <=> made'[<<d, e>>] = "producing"
           /\ enable'[e] \in {"none", "asking"} \/ (d \in granted'[e] /\ enable'[e] # d)
                => made'[<<d, e>>] = "none"
      /\ \A d \in Devices :
           ref'[d] # None => ref'[d] \in Enables /\ made'[<<d, ref'[d]>>] \in {"up", "closed"}
      /\ phase' = "ended" /\ localStream' # None =>
           granted'[localStream'] = {} \/ localStream' \in late'
      /\ MuteHolds'
  BY <1>1, <1>2, DevicesKept DEF InductiveInv, TypeOK
<1>4. TypeOK'
  BY <1>1, <1>2, <1>3 DEF InductiveInv, TypeOK, devices, ProdStates
<1>5. ProducersMatch'
  BY <1>1, <1>2, <1>3 DEF InductiveInv, TypeOK, ProducersMatch, Shares, None
<1>6. OneShare'
  BY <1>1, <1>2, OthersUnderWay DEF InductiveInv, TypeOK, OneShare, SharesUnderWay
<1>7. UpWhileLive'
  <2>1. \A p \in Producers : made'[p] = "up" => made[p] = "up"
    BY <1>1 DEF InductiveInv, TypeOK
  <2>2. QED BY <1>1, <1>2, <2>1 DEF InductiveInv, TypeOK, UpWhileLive
<1>8. ShareShown'
  BY <1>1, <1>2, OthersUnderWay DEF InductiveInv, TypeOK, ShareShown
<1>9. LeaveReleases'
  BY <1>1, <1>3, OthersUnderWay DEF InductiveInv, TypeOK, LeaveReleases
<1>10. QED BY <1>3, <1>4, <1>5, <1>6, <1>7, <1>8, <1>9 DEF InductiveInv

LEMMA PublishedKeeps ==
  ASSUME InductiveInv, NEW c \in Shares, Published(c)
  PROVE  InductiveInv'
<1>1. /\ share[c] = "publishing" /\ share' = [share EXCEPT ![c] = "tuning"]
      /\ screenProducer' = c /\ made' = [made EXCEPT ![Screen(c)] = "up"]
      /\ paused' = [paused EXCEPT ![Screen(c)] = Screen(c) \in pending]
      /\ pending' = pending \ {Screen(c)} /\ phase = "live"
      /\ UNCHANGED <<phase, drops, track, hooked, screenStream, sharing, devices>>
      /\ UNCHANGED <<overlapped, woken, late>>
      /\ c \in SharesUnderWay
  BY DEF Published, Up, history, SharesUnderWay
<1>2. /\ made' \in [Producers -> ProdStates]
      /\ \A a \in Shares : made'[Screen(a)] = IF a = c THEN "up" ELSE made[Screen(a)]
      /\ \A d \in Devices, e \in Enables : made'[<<d, e>>] = made[<<d, e>>]
  BY <1>1, ScreenSet DEF InductiveInv, ProdStates
<1>3. /\ paused' \in [Producers -> BOOLEAN]
      /\ \A d \in Devices, e \in Enables : paused'[<<d, e>>] = paused[<<d, e>>]
  BY <1>1, ProducersAre, ProducersDiffer DEF InductiveInv, TypeOK
<1>4. /\ \A e \in Enables, d \in Devices :
           /\ enable'[e] = d <=> made'[<<d, e>>] = "producing"
           /\ enable'[e] \in {"none", "asking"} \/ (d \in granted'[e] /\ enable'[e] # d)
                => made'[<<d, e>>] = "none"
      /\ \A d \in Devices :
           ref'[d] # None => ref'[d] \in Enables /\ made'[<<d, ref'[d]>>] \in {"up", "closed"}
      /\ phase' = "ended" /\ localStream' # None =>
           granted'[localStream'] = {} \/ localStream' \in late'
      /\ MuteHolds'
  BY <1>1, <1>2, <1>3, DevicesKept
<1>5. TypeOK'
  BY <1>1, <1>2, <1>3, <1>4 DEF InductiveInv, TypeOK, devices, ProdStates
<1>6. ProducersMatch'
  BY <1>1, <1>2, <1>4 DEF InductiveInv, TypeOK, ProducersMatch
<1>7. OneShare'
  BY <1>1, <1>2, OthersUnderWay DEF InductiveInv, TypeOK, OneShare, SharesUnderWay
<1>8. UpWhileLive'
  BY <1>1, <1>2 DEF InductiveInv, TypeOK, UpWhileLive
<1>9. ShareShown'
  BY <1>1, <1>2, OthersUnderWay DEF InductiveInv, TypeOK, ShareShown
<1>10. LeaveReleases'
  BY <1>1, <1>4 DEF LeaveReleases
<1>11. QED BY <1>4, <1>5, <1>6, <1>7, <1>8, <1>9, <1>10 DEF InductiveInv

LEMMA SharedKeeps ==
  ASSUME InductiveInv, NEW c \in Shares, Shared(c)
  PROVE  InductiveInv'
<1>1. /\ share[c] = "tuning" /\ share' = [share EXCEPT ![c] = "done"]
      /\ sharing' = c /\ hooked' = hooked \cup {c}
      /\ UNCHANGED <<phase, drops, track, screenStream, screenProducer, devices, media>>
      /\ UNCHANGED <<made, paused, overlapped, woken, late>>
      /\ c \in SharesUnderWay
  BY DEF Shared, history, media, SharesUnderWay
<1>2. TypeOK'
  BY <1>1 DEF InductiveInv, TypeOK, devices, media
<1>3. ProducersMatch'
  BY <1>1 DEF InductiveInv, TypeOK, ProducersMatch, devices
<1>4. OneShare'
  BY <1>1, OthersUnderWay DEF InductiveInv, TypeOK, OneShare, SharesUnderWay
<1>5. UpWhileLive'
  BY <1>1 DEF InductiveInv, TypeOK, UpWhileLive
<1>6. ShareShown'
  <2>1. ~overlapped => \A a \in Shares : track[a] = "running" \/ made[Screen(a)] = "up"
                         => a = c \/ share[a] \in {"publishing", "tuning"}
    BY <1>1, OthersUnderWay
  <2>2. phase = "live" /\ drops = 0 /\ ~overlapped => made[Screen(c)] = "up"
    BY <1>1 DEF InductiveInv, UpWhileLive
  <2>3. QED
    BY <1>1, <2>1, <2>2, OthersUnderWay DEF InductiveInv, TypeOK, ShareShown
<1>7. (LeaveReleases /\ MuteHolds)'
  BY <1>1 DEF InductiveInv, TypeOK, LeaveReleases, MuteHolds, devices
<1>8. QED BY <1>2, <1>3, <1>4, <1>5, <1>6, <1>7 DEF InductiveInv

\* What stopScreenShare does, wherever it is called from.
LEMMA ScreenStopped ==
  ASSUME InductiveInv,
         made' = IF screenProducer = None THEN made ELSE Unpublished(Screen(screenProducer)),
         track' \in [Shares -> {"none", "running", "stopped"}],
         \A a \in Shares : track'[a] = track[a]
                           \/ (track'[a] = "stopped" /\ share[a] \notin {"none", "picking"}),
         screenStream # None => track'[screenStream] = "stopped",
         screenProducer' = None, screenStream' = None, sharing' = None,
         UNCHANGED <<phase, drops, share, hooked, devices, paused, pending, history>>,
         ~overlapped => SharesUnderWay = {}
  PROVE  InductiveInv'
<1>1. /\ UNCHANGED <<phase, drops, share, hooked, devices, paused, pending>>
      /\ UNCHANGED <<overlapped, woken, late>>
  BY DEF history
<1>2. /\ made' \in [Producers -> ProdStates]
      /\ \A a \in Shares :
           IF screenProducer = a /\ made[Screen(a)] = "up"
           THEN made'[Screen(a)] = "closed"
           ELSE made'[Screen(a)] = made[Screen(a)]
      /\ \A d \in Devices, e \in Enables : made'[<<d, e>>] = made[<<d, e>>]
      /\ \A p \in Producers : made'[p] = "up" => made[p] = "up"
  <2>1. CASE screenProducer = None
    BY <2>1 DEF InductiveInv, TypeOK, ProdStates, Shares, None
  <2>2. CASE screenProducer # None
    <3>1. screenProducer \in Shares
      BY <2>2 DEF InductiveInv, TypeOK
    <3>2. made' = [made EXCEPT ![Screen(screenProducer)] =
                     IF made[Screen(screenProducer)] = "up" THEN "closed"
                     ELSE made[Screen(screenProducer)]]
      BY <2>2 DEF Unpublished
    <3>3. \A p \in Producers : made'[p] =
            IF p = Screen(screenProducer) /\ made[p] = "up" THEN "closed" ELSE made[p]
      BY <3>1, <3>2, ProducersAre DEF InductiveInv, TypeOK
    <3>4. made' \in [Producers -> ProdStates]
      BY <3>1, <3>2, ProducersAre DEF InductiveInv, TypeOK, ProdStates
    <3>5. QED BY <3>1, <3>3, <3>4, ProducersAre, ProducersDiffer
  <2>3. QED BY <2>1, <2>2
<1>3. /\ \A e \in Enables, d \in Devices :
           /\ enable'[e] = d <=> made'[<<d, e>>] = "producing"
           /\ enable'[e] \in {"none", "asking"} \/ (d \in granted'[e] /\ enable'[e] # d)
                => made'[<<d, e>>] = "none"
      /\ \A d \in Devices :
           ref'[d] # None => ref'[d] \in Enables /\ made'[<<d, ref'[d]>>] \in {"up", "closed"}
      /\ phase' = "ended" /\ localStream' # None =>
           granted'[localStream'] = {} \/ localStream' \in late'
      /\ MuteHolds'
  BY <1>1, <1>2, DevicesKept DEF InductiveInv, TypeOK
<1>4. TypeOK'
  BY <1>1, <1>2, <1>3 DEF InductiveInv, TypeOK, devices, ProdStates
<1>5. ProducersMatch'
  BY <1>1, <1>2, <1>3 DEF InductiveInv, TypeOK, ProducersMatch, Shares, None
<1>6. ~overlapped => \A a \in Shares : /\ share[a] \notin {"picking", "publishing", "tuning"}
                                       /\ track'[a] # "running" /\ made'[Screen(a)] # "up"
  BY <1>2 DEF InductiveInv, OneShare, SharesUnderWay, Shares, None
<1>7. (OneShare /\ UpWhileLive /\ ShareShown)'
  BY <1>1, <1>2, <1>6 DEF InductiveInv, TypeOK, OneShare, UpWhileLive, ShareShown, SharesUnderWay
<1>8. LeaveReleases'
  BY <1>1, <1>3, <1>6 DEF LeaveReleases
<1>9. QED BY <1>3, <1>4, <1>5, <1>7, <1>8 DEF InductiveInv

LEMMA NoneUnderWay ==
  ASSUME InductiveInv, ~overlapped, sharing # None
  PROVE  SharesUnderWay = {}
BY DEF InductiveInv, OneShare, SharesUnderWay

LEMMA StopScreenShareKeeps == InductiveInv /\ StopScreenShare => InductiveInv'
<1> SUFFICES ASSUME InductiveInv, StopScreenShare PROVE InductiveInv'
  OBVIOUS
<1>1. screenStream # None =>
        screenStream \in Shares /\ share[screenStream] \notin {"none", "picking"}
  BY DEF InductiveInv, TypeOK, ProducersMatch
<1>2. /\ track' \in [Shares -> {"none", "running", "stopped"}]
      /\ \A a \in Shares : track'[a] = track[a]
                           \/ (track'[a] = "stopped" /\ share[a] \notin {"none", "picking"})
      /\ screenStream # None => track'[screenStream] = "stopped"
  BY <1>1 DEF InductiveInv, TypeOK, StopScreenShare, StopScreen
<1>3. /\ made' = IF screenProducer = None THEN made ELSE Unpublished(Screen(screenProducer))
      /\ screenProducer' = None /\ screenStream' = None /\ sharing' = None
      /\ UNCHANGED <<phase, drops, share, hooked, devices, paused, pending, history>>
      /\ sharing # None
  BY DEF StopScreenShare, StopScreen
<1>4. QED BY <1>2, <1>3, ScreenStopped, NoneUnderWay

LEMMA BrowserStopsKeeps ==
  ASSUME InductiveInv, NEW c \in Shares, BrowserStops(c)
  PROVE  InductiveInv'
<1>1. /\ track[c] = "running" /\ share[c] \notin {"none", "picking"}
      /\ UNCHANGED <<phase, drops, share, hooked, devices, paused, pending, history>>
  BY DEF InductiveInv, ProducersMatch, BrowserStops
<1>2. CASE c \in hooked
  <2>1. share[c] = "done"
    BY <1>2 DEF InductiveInv, ProducersMatch
  <2>2. ~overlapped => sharing # None
    BY <1>1, <2>1 DEF InductiveInv, ShareShown, Shares, None
  <2>3. screenStream # None =>
          screenStream \in Shares /\ share[screenStream] \notin {"none", "picking"}
    BY DEF InductiveInv, TypeOK, ProducersMatch
  <2>4. /\ made' = IF screenProducer = None THEN made
                   ELSE Unpublished(Screen(screenProducer))
        /\ track' = [a \in Shares |-> IF a \in {c, screenStream} THEN "stopped" ELSE track[a]]
        /\ screenProducer' = None /\ screenStream' = None /\ sharing' = None
    BY <1>2 DEF BrowserStops
  <2>5. /\ track' \in [Shares -> {"none", "running", "stopped"}]
        /\ \A a \in Shares : track'[a] = track[a]
                             \/ (track'[a] = "stopped" /\ share[a] \notin {"none", "picking"})
        /\ screenStream # None => track'[screenStream] = "stopped"
    <3>0. None \notin Shares
      BY DEF Shares, None
    <3>1. \A a \in Shares : track'[a] = IF a \in {c, screenStream} THEN "stopped" ELSE track[a]
      BY <2>4
    <3>2. \A a \in Shares : track[a] \in {"none", "running", "stopped"}
      BY DEF InductiveInv, TypeOK
    <3>3. track' \in [Shares -> {"none", "running", "stopped"}]
      BY <2>4, <3>2
    <3>4. \A a \in {c, screenStream} \cap Shares : share[a] \notin {"none", "picking"}
      BY <1>1, <2>3, <3>0
    <3>5. screenStream # None => track'[screenStream] = "stopped"
      BY <2>3, <3>1
    <3>6. QED BY <3>1, <3>3, <3>4, <3>5
  <2>6. QED BY <1>1, <2>2, <2>4, <2>5, ScreenStopped, NoneUnderWay
<1>3. CASE c \notin hooked
  <2>1. /\ track' = [track EXCEPT ![c] = "stopped"]
        /\ UNCHANGED <<made, screenProducer, screenStream, sharing, overlapped>>
    BY <1>1, <1>3 DEF BrowserStops, history
  <2>2. TypeOK'
    BY <1>1, <2>1 DEF InductiveInv, TypeOK, devices, history
  <2>3. ProducersMatch'
    BY <1>1, <2>1 DEF InductiveInv, TypeOK, ProducersMatch, devices
  <2>4. (OneShare /\ UpWhileLive /\ ShareShown)'
    BY <1>1, <2>1
    DEF InductiveInv, TypeOK, OneShare, UpWhileLive, ShareShown, SharesUnderWay
  <2>5. (LeaveReleases /\ MuteHolds)'
    BY <1>1, <2>1 DEF InductiveInv, TypeOK, LeaveReleases, MuteHolds, devices, history
  <2>6. QED BY <2>2, <2>3, <2>4, <2>5 DEF InductiveInv
<1>4. QED BY <1>2, <1>3

(***************************************************************************)
(* Microphone and camera                                                   *)
(***************************************************************************)
\* What the shares need of a step that is none of theirs.
LEMMA ScreensKept ==
  ASSUME InductiveInv, UNCHANGED screen, UNCHANGED <<phase, drops, overlapped>>,
         \A c \in Shares : made'[Screen(c)] = made[Screen(c)]
  PROVE  /\ \A c \in Shares :
              /\ share'[c] \in {"none", "picking"} =>
                   made'[Screen(c)] = "none" /\ track'[c] = "none" /\ screenStream' # c
              /\ share'[c] = "publishing" <=> made'[Screen(c)] = "producing"
              /\ share'[c] = "tuning" => made'[Screen(c)] \in {"up", "closed"}
              /\ c \in hooked' => share'[c] = "done"
         /\ OneShare' /\ ShareShown'
         /\ phase' = "reconnecting" => drops' > 0
         /\ phase' = "live" /\ drops' = 0 /\ ~overlapped' =>
              \A c \in Shares : share'[c] = "tuning" => made'[Screen(c)] = "up"
         /\ screenProducer' # None => made'[Screen(screenProducer')] \in {"up", "closed"}
         /\ phase' = "ended" /\ ~overlapped' => \A c \in Shares : track'[c] # "running"
<1>1. /\ UNCHANGED <<phase, drops, overlapped>>
      /\ UNCHANGED <<share, track, hooked, screenStream, screenProducer, sharing>>
  BY DEF screen
<1>2. /\ screenProducer # None => screenProducer \in Shares
      /\ sharing # None => sharing \in Shares
  BY DEF InductiveInv, TypeOK
<1>3. OneShare' /\ ShareShown'
  BY <1>1, <1>2 DEF InductiveInv, OneShare, ShareShown, SharesUnderWay
<1>4. screenProducer' # None => made'[Screen(screenProducer')] \in {"up", "closed"}
  BY <1>1, <1>2 DEF InductiveInv, TypeOK
<1>5. QED
  BY <1>1, <1>3, <1>4 DEF InductiveInv, ProducersMatch, UpWhileLive, LeaveReleases

LEMMA EnableKeeps ==
  ASSUME InductiveInv, NEW e \in Enables, EnableCameraAndMic(e)
  PROVE  InductiveInv'
<1>1. /\ enable[e] = "none" /\ enable' = [enable EXCEPT ![e] = "asking"]
      /\ UNCHANGED <<phase, drops, screen, granted, localStream, ref, on, media, history>>
      /\ UNCHANGED <<made, paused, pending, overlapped, woken, late>>
      /\ UNCHANGED <<share, track, hooked, screenStream, screenProducer, sharing>>
  BY DEF EnableCameraAndMic, media, history, screen
<1>2. TypeOK'
  BY <1>1 DEF InductiveInv, TypeOK
<1>3. /\ OneShare' /\ ShareShown' /\ UpWhileLive'
      /\ MuteHolds' /\ LeaveReleases'
  BY <1>1 DEF InductiveInv, OneShare, ShareShown, UpWhileLive, MuteHolds, LeaveReleases,
              SharesUnderWay
<1>4. ProducersMatch'
  <2>1. \A d \in Devices : d # "none" /\ d # "asking"
    BY EmbedRoomAssumption
  <2>2. QED BY <1>1, <2>1 DEF InductiveInv, TypeOK, ProducersMatch
<1>5. QED BY <1>2, <1>3, <1>4 DEF InductiveInv

LEMMA NextDeviceIs ==
  ASSUME NEW devs \in SUBSET Devices
  PROVE  /\ NextDevice(devs) = "done" <=> devs = {}
         /\ NextDevice(devs) # "done" => NextDevice(devs) \in devs
BY EmbedRoomAssumption DEF NextDevice

LEMMA AnsweredKeeps ==
  ASSUME InductiveInv, NEW e \in Enables, NEW devs \in SUBSET Devices, Answered(e, devs)
  PROVE  InductiveInv'
<1> DEFINE nd == NextDevice(devs)
           begins == phase = "live" /\ nd # "done"
<1>1. /\ enable[e] = "asking"
      /\ enable' = [enable EXCEPT ![e] = IF begins THEN nd ELSE "done"]
      /\ granted' = [granted EXCEPT ![e] = devs]
      /\ localStream' = IF devs = {} THEN localStream ELSE e
      /\ late' = IF phase = "ended" THEN late \cup {e} ELSE late
      /\ made' = IF begins THEN [made EXCEPT ![<<nd, e>>] = "producing"] ELSE made
      /\ UNCHANGED <<phase, drops, screen, ref, on, paused, pending, overlapped, woken>>
  BY DEF Answered, Proceed
<1>2. \A d \in Devices : made[<<d, e>>] = "none" /\ ref[d] # e /\ d \notin {"none", "asking", "done"}
  <2>1. \A d \in Devices : made[<<d, e>>] = "none" /\ d \notin {"none", "asking", "done"}
    BY <1>1, EmbedRoomAssumption DEF InductiveInv, ProducersMatch
  <2>2. e # None
    BY DEF Enables, None
  <2>3. QED BY <2>1, <2>2 DEF InductiveInv, TypeOK
<1>3. begins => nd \in devs
  BY NextDeviceIs
<1>4. /\ made' \in [Producers -> ProdStates]
      /\ \A a \in Shares : made'[Screen(a)] = made[Screen(a)]
      /\ \A d \in Devices, g \in Enables :
           made'[<<d, g>>] = IF begins /\ d = nd /\ g = e THEN "producing" ELSE made[<<d, g>>]
  <2>0. made \in [Producers -> ProdStates] /\ "producing" \in ProdStates
    BY DEF InductiveInv, TypeOK, ProdStates
  <2>1. CASE begins
    <3>1. nd \in Devices /\ made' = [made EXCEPT ![<<nd, e>>] = "producing"]
      BY <1>1, <1>3, <2>1
    <3>2. /\ made' \in [Producers -> ProdStates]
          /\ \A a \in Shares : made'[Screen(a)] = made[Screen(a)]
          /\ \A d \in Devices, g \in Enables :
               made'[<<d, g>>] = IF d = nd /\ g = e THEN "producing" ELSE made[<<d, g>>]
      BY <2>0, <3>1, DeviceSet DEF InductiveInv
    <3>3. QED BY <2>1, <3>2
  <2>2. CASE ~begins
    BY <1>1, <2>0, <2>2
  <2>3. QED BY <2>1, <2>2
<1>5. /\ \A c \in Shares :
           /\ share'[c] \in {"none", "picking"} =>
                made'[Screen(c)] = "none" /\ track'[c] = "none" /\ screenStream' # c
           /\ share'[c] = "publishing" <=> made'[Screen(c)] = "producing"
           /\ share'[c] = "tuning" => made'[Screen(c)] \in {"up", "closed"}
           /\ c \in hooked' => share'[c] = "done"
      /\ OneShare' /\ ShareShown'
      /\ phase' = "reconnecting" => drops' > 0
      /\ phase' = "live" /\ drops' = 0 /\ ~overlapped' =>
           \A c \in Shares : share'[c] = "tuning" => made'[Screen(c)] = "up"
      /\ screenProducer' # None => made'[Screen(screenProducer')] \in {"up", "closed"}
      /\ phase' = "ended" /\ ~overlapped' => \A c \in Shares : track'[c] # "running"
  BY <1>1, <1>4, ScreensKept
<1>6. \A d \in Devices : ref[d] # None =>
        ref[d] \in Enables \ {e} /\ made'[<<d, ref[d]>>] = made[<<d, ref[d]>>]
  BY <1>2, <1>4 DEF InductiveInv, TypeOK
<1>7. TypeOK'
  <2>1. /\ enable' \in [Enables -> {"none", "asking", "mic", "camera", "done"}]
        /\ granted' \in [Enables -> SUBSET Devices] /\ localStream' \in Enables \cup {None}
        /\ late' \subseteq Enables
    BY <1>1, <1>3, EmbedRoomAssumption DEF InductiveInv, TypeOK
  <2>2. \A d \in Devices : ref'[d] # None => made'[<<d, ref'[d]>>] \in {"up", "closed"}
    BY <1>1, <1>6 DEF InductiveInv, TypeOK
  <2>3. QED BY <1>1, <1>4, <1>5, <2>1, <2>2 DEF InductiveInv, TypeOK, screen, ProdStates
<1>8. ProducersMatch'
  <2>1. \A g \in Enables, d \in Devices : g # e =>
          enable'[g] = enable[g] /\ granted'[g] = granted[g] /\ made'[<<d, g>>] = made[<<d, g>>]
    BY <1>1, <1>4 DEF InductiveInv, TypeOK
  <2>2. enable'[e] = (IF begins THEN nd ELSE "done") /\ granted'[e] = devs
    BY <1>1 DEF InductiveInv, TypeOK
  <2>3. \A d \in Devices :
          /\ enable'[e] = d <=> made'[<<d, e>>] = "producing"
          /\ enable'[e] # d => made'[<<d, e>>] = "none"
          /\ enable'[e] \notin {"none", "asking"}
    BY <1>2, <1>3, <1>4, <2>2
  <2>4. QED BY <1>5, <2>1, <2>3 DEF InductiveInv, ProducersMatch
<1>9. UpWhileLive'
  <2>1. phase # "live" => made' = made
    BY <1>1
  <2>2. QED BY <1>1, <1>5, <2>1 DEF InductiveInv, UpWhileLive
<1>10. LeaveReleases'
  <2>1. CASE devs = {}
    BY <1>1, <1>5, <2>1 DEF InductiveInv, TypeOK, LeaveReleases
  <2>2. CASE devs # {}
    BY <1>1, <1>5, <2>2 DEF LeaveReleases
  <2>3. QED BY <2>1, <2>2
<1>11. MuteHolds'
  BY <1>1, <1>6 DEF InductiveInv, MuteHolds
<1>12. QED BY <1>5, <1>7, <1>8, <1>9, <1>10, <1>11 DEF InductiveInv

LEMMA DevicePublishedKeeps ==
  ASSUME InductiveInv, NEW e \in Enables, NEW d \in Devices, DevicePublished(e, d)
  PROVE  InductiveInv'
<1> DEFINE rest == granted[e] \ {d}
           nd == NextDevice(rest)
<1>1. /\ enable[e] = d /\ made[<<d, e>>] = "producing" /\ phase = "live"
      /\ enable' = [enable EXCEPT ![e] = nd] /\ granted' = [granted EXCEPT ![e] = rest]
      /\ made' = IF nd = "done" THEN [made EXCEPT ![<<d, e>>] = "up"]
                 ELSE [[made EXCEPT ![<<d, e>>] = "up"] EXCEPT ![<<nd, e>>] = "producing"]
      /\ paused' = [paused EXCEPT ![<<d, e>>] = <<d, e>> \in pending]
      /\ pending' = pending \ {<<d, e>>}
      /\ ref' = [ref EXCEPT ![d] = e] /\ on' = [on EXCEPT ![d] = TRUE]
      /\ woken' = woken \ {d}
      /\ UNCHANGED <<phase, drops, screen, localStream, overlapped, late>>
  BY DEF DevicePublished, Proceed
<1>2. rest \in SUBSET Devices /\ e # None
  BY DEF InductiveInv, TypeOK, Enables, None
<1>3. nd # "done" => nd \in rest /\ nd \in Devices /\ nd # d
  BY <1>2, NextDeviceIs
<1>4. \A f \in rest : made[<<f, e>>] = "none" /\ ref[f] # e
  <2>1. \A f \in rest : f \in Devices /\ f \in granted[e] /\ enable[e] # f
    BY <1>1, <1>2
  <2>2. \A f \in rest : made[<<f, e>>] = "none"
    BY <2>1 DEF InductiveInv, ProducersMatch
  <2>3. QED BY <1>2, <2>1, <2>2 DEF InductiveInv, TypeOK
<1>5. /\ made' \in [Producers -> ProdStates]
      /\ \A a \in Shares : made'[Screen(a)] = made[Screen(a)]
      /\ \A f \in Devices, g \in Enables :
           made'[<<f, g>>] = IF f = d /\ g = e THEN "up"
                             ELSE IF f = nd /\ g = e THEN "producing" ELSE made[<<f, g>>]
  <2> DEFINE m == [made EXCEPT ![<<d, e>>] = "up"]
  <2>0. made \in [Producers -> ProdStates] /\ "up" \in ProdStates /\ "producing" \in ProdStates
    BY DEF InductiveInv, TypeOK, ProdStates
  <2>1. /\ m \in [Producers -> ProdStates]
        /\ \A a \in Shares : m[Screen(a)] = made[Screen(a)]
        /\ \A f \in Devices, g \in Enables :
             m[<<f, g>>] = IF f = d /\ g = e THEN "up" ELSE made[<<f, g>>]
    BY <2>0, DeviceSet DEF InductiveInv
  <2>2. CASE nd = "done"
    <3>1. made' = m /\ "done" \notin Devices
      BY <1>1, <2>2, EmbedRoomAssumption
    <3>2. QED BY <2>1, <2>2, <3>1
  <2>3. CASE nd # "done"
    <3>1. made' = [m EXCEPT ![<<nd, e>>] = "producing"] /\ nd \in Devices /\ nd # d
      BY <1>1, <1>3, <2>3
    <3>2. /\ made' \in [Producers -> ProdStates]
          /\ \A a \in Shares : made'[Screen(a)] = m[Screen(a)]
          /\ \A f \in Devices, g \in Enables :
               made'[<<f, g>>] = IF f = nd /\ g = e THEN "producing" ELSE m[<<f, g>>]
      <4> HIDE DEF m, nd
      <4>1. QED BY <2>0, <2>1, <3>1, DeviceSet DEF InductiveInv
    <3>3. QED
      <4> HIDE DEF m, nd
      <4>1. QED BY <2>1, <3>1, <3>2
  <2>4. QED BY <2>2, <2>3
<1>6. /\ \A c \in Shares :
           /\ share'[c] \in {"none", "picking"} =>
                made'[Screen(c)] = "none" /\ track'[c] = "none" /\ screenStream' # c
           /\ share'[c] = "publishing" <=> made'[Screen(c)] = "producing"
           /\ share'[c] = "tuning" => made'[Screen(c)] \in {"up", "closed"}
           /\ c \in hooked' => share'[c] = "done"
      /\ OneShare' /\ ShareShown'
      /\ phase' = "reconnecting" => drops' > 0
      /\ phase' = "live" /\ drops' = 0 /\ ~overlapped' =>
           \A c \in Shares : share'[c] = "tuning" => made'[Screen(c)] = "up"
      /\ screenProducer' # None => made'[Screen(screenProducer')] \in {"up", "closed"}
      /\ phase' = "ended" /\ ~overlapped' => \A c \in Shares : track'[c] # "running"
  BY <1>1, <1>5, ScreensKept
<1>7. \A f \in Devices : f # d /\ ref[f] # None =>
        /\ ref'[f] = ref[f] /\ ref[f] \in Enables /\ on'[f] = on[f]
        /\ made'[<<f, ref[f]>>] = made[<<f, ref[f]>>]
        /\ paused'[<<f, ref[f]>>] = paused[<<f, ref[f]>>]
  <2>1. \A f \in Devices : f # d /\ ref[f] # None =>
          /\ ref'[f] = ref[f] /\ ref[f] \in Enables /\ on'[f] = on[f]
          /\ <<f, ref[f]>> \in Producers /\ <<f, ref[f]>> # <<d, e>>
    BY <1>1, ProducersAre DEF InductiveInv, TypeOK
  <2>2. \A f \in Devices : f # d /\ ref[f] # None =>
          paused'[<<f, ref[f]>>] = paused[<<f, ref[f]>>]
    BY <1>1, <2>1 DEF InductiveInv, TypeOK
  <2>3. \A f \in Devices : f # d /\ ref[f] # None => ~(f = nd /\ ref[f] = e)
    <3> HIDE DEF nd
    <3>1. "done" \notin Devices
      BY EmbedRoomAssumption
    <3>2. QED BY <1>3, <1>4, <3>1
  <2>4. QED
    <3> HIDE DEF nd
    <3>1. QED BY <1>5, <2>1, <2>2, <2>3
<1>8. ref' \in [Devices -> Enables \cup {None}] /\ ref'[d] = e /\ on'[d] = TRUE
  BY <1>1 DEF InductiveInv, TypeOK
<1>9. TypeOK'
  <2>1. nd \in {"mic", "camera", "done"}
    BY DEF NextDevice
  <2>2. /\ enable' \in [Enables -> {"none", "asking", "mic", "camera", "done"}]
        /\ granted' \in [Enables -> SUBSET Devices] /\ on' \in [Devices -> BOOLEAN]
        /\ pending' \subseteq Producers /\ woken' \subseteq Devices
    <3> HIDE DEF nd
    <3>1. QED BY <1>1, <1>2, <2>1 DEF InductiveInv, TypeOK
  <2>3. paused' \in [Producers -> BOOLEAN]
    <3>1. /\ paused' = [paused EXCEPT ![<<d, e>>] = <<d, e>> \in pending]
          /\ paused \in [Producers -> BOOLEAN]
      BY <1>1 DEF InductiveInv, TypeOK
    <3> DEFINE idle == <<d, e>> \in pending
    <3>2. idle \in BOOLEAN
      OBVIOUS
    <3> HIDE DEF idle
    <3>3. QED BY <3>1, <3>2 DEF idle
  <2>4. \A f \in Devices : ref'[f] # None => made'[<<f, ref'[f]>>] \in {"up", "closed"}
    <3> HIDE DEF nd
    <3>1. made'[<<d, e>>] = "up"
      BY <1>5
    <3>2. \A f \in Devices \ {d} : ref'[f] = ref[f]
      BY <1>1 DEF InductiveInv, TypeOK
    <3>3. QED BY <1>7, <1>8, <3>1, <3>2 DEF InductiveInv, TypeOK
  <2>5. QED
    BY <1>1, <1>5, <1>6, <1>8, <2>2, <2>3, <2>4 DEF InductiveInv, TypeOK, screen, ProdStates
<1>10. ProducersMatch'
  <2> HIDE DEF nd
  <2>1. \A g \in Enables, f \in Devices : g # e =>
          enable'[g] = enable[g] /\ granted'[g] = granted[g] /\ made'[<<f, g>>] = made[<<f, g>>]
    <3>1. /\ enable' = [enable EXCEPT ![e] = nd] /\ granted' = [granted EXCEPT ![e] = rest]
          /\ enable \in [Enables -> {"none", "asking", "mic", "camera", "done"}]
          /\ granted \in [Enables -> SUBSET Devices]
      BY <1>1 DEF InductiveInv, TypeOK
    <3>2. \A g \in Enables : g # e => enable'[g] = enable[g] /\ granted'[g] = granted[g]
      BY <3>1
    <3>3. QED BY <1>5, <3>2
  <2>2. enable'[e] = nd /\ granted'[e] = rest
    BY <1>1 DEF InductiveInv, TypeOK
  <2>3. \A f \in Devices : f \notin {"none", "asking", "done"}
    BY EmbedRoomAssumption
  <2>4. \A f \in Devices :
          /\ enable'[e] = f <=> made'[<<f, e>>] = "producing"
          /\ enable'[e] \in {"none", "asking"} \/ (f \in granted'[e] /\ enable'[e] # f)
               => made'[<<f, e>>] = "none"
    <3>1. enable'[e] \notin {"none", "asking"}
      BY <1>3, <2>2, <2>3
    <3>2. \A f \in Devices : f # d => made[<<f, e>>] # "producing"
      BY <1>1 DEF InductiveInv, ProducersMatch
    <3>3. \A f \in Devices : enable'[e] = f <=> made'[<<f, e>>] = "producing"
      BY <1>3, <1>5, <2>2, <2>3, <3>2
    <3>4. QED BY <1>4, <1>5, <2>2, <3>1, <3>3
  <2>5. QED BY <1>6, <2>1, <2>4 DEF InductiveInv, ProducersMatch
<1>11. (UpWhileLive /\ LeaveReleases)'
  BY <1>1, <1>6 DEF UpWhileLive, LeaveReleases
<1>12. MuteHolds'
  <2>1. \A f \in Devices : f # d =>
          on'[f] = on[f] /\ ref'[f] = ref[f] /\ (f \in woken => f \in woken')
    BY <1>1 DEF InductiveInv, TypeOK
  <2>2. phase' = phase
    BY <1>1
  <2>3. QED BY <1>7, <1>8, <2>1, <2>2 DEF InductiveInv, MuteHolds
<1>13. QED BY <1>6, <1>9, <1>10, <1>11, <1>12 DEF InductiveInv

LEMMA DeviceFailsKeeps ==
  ASSUME InductiveInv, NEW e \in Enables, NEW d \in Devices, DeviceFails(e, d)
  PROVE  InductiveInv'
<1>1. /\ enable[e] = d /\ made[<<d, e>>] = "producing"
      /\ enable' = [enable EXCEPT ![e] = "done"]
      /\ granted' = [granted EXCEPT ![e] = granted[e] \ {d}]
      /\ made' = [made EXCEPT ![<<d, e>>] = "closed"]
      /\ UNCHANGED <<phase, drops, screen, localStream, ref, on, paused, pending>>
      /\ UNCHANGED <<overlapped, woken, late>>
  BY DEF DeviceFails, Down, history
<1>2. /\ made' \in [Producers -> ProdStates]
      /\ \A a \in Shares : made'[Screen(a)] = made[Screen(a)]
      /\ \A f \in Devices, g \in Enables :
           made'[<<f, g>>] = IF f = d /\ g = e THEN "closed" ELSE made[<<f, g>>]
  <2>1. made \in [Producers -> ProdStates] /\ "closed" \in ProdStates
    BY DEF InductiveInv, TypeOK, ProdStates
  <2>2. QED BY <1>1, <2>1, DeviceSet DEF InductiveInv
<1>3. /\ \A c \in Shares :
           /\ share'[c] \in {"none", "picking"} =>
                made'[Screen(c)] = "none" /\ track'[c] = "none" /\ screenStream' # c
           /\ share'[c] = "publishing" <=> made'[Screen(c)] = "producing"
           /\ share'[c] = "tuning" => made'[Screen(c)] \in {"up", "closed"}
           /\ c \in hooked' => share'[c] = "done"
      /\ OneShare' /\ ShareShown'
      /\ phase' = "reconnecting" => drops' > 0
      /\ phase' = "live" /\ drops' = 0 /\ ~overlapped' =>
           \A c \in Shares : share'[c] = "tuning" => made'[Screen(c)] = "up"
      /\ screenProducer' # None => made'[Screen(screenProducer')] \in {"up", "closed"}
      /\ phase' = "ended" /\ ~overlapped' => \A c \in Shares : track'[c] # "running"
  BY <1>1, <1>2, ScreensKept
<1>4. \A f \in Devices : ref[f] # None =>
        ref[f] \in Enables /\ made'[<<f, ref[f]>>] = made[<<f, ref[f]>>]
  BY <1>1, <1>2 DEF InductiveInv, TypeOK
<1>5. /\ enable' \in [Enables -> {"none", "asking", "mic", "camera", "done"}]
      /\ granted' \in [Enables -> SUBSET Devices]
      /\ \A g \in Enables : granted'[g] \subseteq granted[g]
  BY <1>1 DEF InductiveInv, TypeOK
<1>6. TypeOK'
  BY <1>1, <1>2, <1>3, <1>4, <1>5 DEF InductiveInv, TypeOK, screen, ProdStates
<1>7. ProducersMatch'
  <2>1. \A f \in Devices : f \notin {"none", "asking", "done"}
    BY EmbedRoomAssumption
  <2>2. \A g \in Enables, f \in Devices :
          /\ enable'[g] = f <=> made'[<<f, g>>] = "producing"
          /\ enable'[g] \in {"none", "asking"} \/ (f \in granted'[g] /\ enable'[g] # f)
               => made'[<<f, g>>] = "none"
    <3>1. /\ enable'[e] = "done" /\ granted'[e] = granted[e] \ {d}
          /\ \A g \in Enables \ {e} : enable'[g] = enable[g] /\ granted'[g] = granted[g]
      BY <1>1 DEF InductiveInv, TypeOK
    <3>2. \A f \in Devices \ {d} :
            /\ made[<<f, e>>] # "producing"
            /\ f \in granted[e] => made[<<f, e>>] = "none"
      BY <1>1 DEF InductiveInv, ProducersMatch
    <3>3. \A f \in Devices :
            /\ enable'[e] = f <=> made'[<<f, e>>] = "producing"
            /\ enable'[e] \in {"none", "asking"} \/ (f \in granted'[e] /\ enable'[e] # f)
                 => made'[<<f, e>>] = "none"
      BY <1>2, <2>1, <3>1, <3>2
    <3>4. ASSUME NEW g \in Enables \ {e}, NEW f \in Devices
          PROVE  /\ enable'[g] = f <=> made'[<<f, g>>] = "producing"
                 /\ enable'[g] \in {"none", "asking"} \/ (f \in granted'[g] /\ enable'[g] # f)
                      => made'[<<f, g>>] = "none"
      <4>1. /\ enable'[g] = enable[g] /\ granted'[g] = granted[g]
            /\ made'[<<f, g>>] = made[<<f, g>>]
        BY <1>2, <3>1
      <4>2. QED BY <4>1 DEF InductiveInv, ProducersMatch
    <3>5. TAKE g \in Enables, f \in Devices
    <3>6. CASE g = e
      BY <3>3, <3>6
    <3>7. CASE g # e
      BY <3>4, <3>7
    <3>8. QED BY <3>6, <3>7
  <2>3. QED BY <1>3, <2>2 DEF ProducersMatch
<1>8. UpWhileLive'
  <2>1. \A p \in Producers : made'[p] = "up" => made[p] = "up"
    BY <1>1 DEF InductiveInv, TypeOK
  <2>2. QED BY <1>1, <1>3, <2>1 DEF InductiveInv, UpWhileLive
<1>9. LeaveReleases'
  BY <1>1, <1>3, <1>5 DEF InductiveInv, TypeOK, LeaveReleases
<1>10. MuteHolds'
  BY <1>1, <1>4 DEF InductiveInv, MuteHolds
<1>11. QED BY <1>3, <1>6, <1>7, <1>8, <1>9, <1>10 DEF InductiveInv

\* Screens, and what is made, are as they were: only pauses and labels differ.
LEMMA OnlyPausesKeep ==
  ASSUME InductiveInv,
         UNCHANGED <<phase, drops, screen, enable, granted, localStream, ref, made,
                     overlapped, late>>,
         paused' \in [Producers -> BOOLEAN], pending' \subseteq Producers,
         on' \in [Devices -> BOOLEAN], woken' \subseteq Devices,
         MuteHolds'
  PROVE  InductiveInv'
<1>1. /\ UNCHANGED <<phase, drops, enable, granted, localStream, ref, made, overlapped, late>>
      /\ UNCHANGED <<share, track, hooked, screenStream, screenProducer, sharing>>
  BY DEF screen
<1>2. TypeOK'
  BY <1>1 DEF InductiveInv, TypeOK
<1>3. (ProducersMatch /\ OneShare /\ UpWhileLive /\ ShareShown /\ LeaveReleases)'
  BY <1>1 DEF InductiveInv, ProducersMatch, OneShare, UpWhileLive, ShareShown,
              LeaveReleases, SharesUnderWay
<1>4. QED BY <1>2, <1>3 DEF InductiveInv

LEMMA ToggleKeeps ==
  ASSUME InductiveInv, NEW d \in Devices, Toggle(d)
  PROVE  InductiveInv'
<1> DEFINE p == <<d, ref[d]>>
           b == paused[p]
<1>1. p \in Producers /\ b \in BOOLEAN /\ ref[d] \in Enables
  BY ProducersAre DEF InductiveInv, TypeOK, Toggle
<1>2. /\ on' = [on EXCEPT ![d] = b]
      /\ paused' = IF made[p] = "up" THEN [paused EXCEPT ![p] = ~b] ELSE paused
      /\ woken' = woken \ {d}
      /\ UNCHANGED <<phase, drops, screen, enable, granted, localStream, ref, made,
                     overlapped, late>>
      /\ pending' = pending
  BY DEF Toggle, Toggled
<1>3. /\ on' \in [Devices -> BOOLEAN] /\ woken' \subseteq Devices
      /\ pending' \subseteq Producers /\ paused' \in [Producers -> BOOLEAN]
  <2> HIDE DEF p, b
  <2>1. on' \in [Devices -> BOOLEAN] /\ woken' \subseteq Devices /\ pending' \subseteq Producers
    BY <1>1, <1>2 DEF InductiveInv, TypeOK
  <2>2. (~b) \in BOOLEAN
    BY <1>1
  <2>3. paused' \in [Producers -> BOOLEAN]
    BY <1>2, <2>2 DEF InductiveInv, TypeOK
  <2>4. QED BY <2>1, <2>3
<1>4. on'[d] = b /\ (made[p] = "up" => paused'[p] = ~b)
  <2> HIDE DEF p, b
  <2>1. QED BY <1>1, <1>2 DEF InductiveInv, TypeOK
<1>5. \A f \in Devices : f # d /\ ref[f] # None =>
        /\ on'[f] = on[f] /\ (f \in woken => f \in woken')
        /\ paused'[<<f, ref[f]>>] = paused[<<f, ref[f]>>]
  <2>1. \A f \in Devices : f # d /\ ref[f] # None =>
          <<f, ref[f]>> \in Producers /\ <<f, ref[f]>> # p
    BY ProducersAre DEF InductiveInv, TypeOK
  <2>2. QED
    <3> HIDE DEF p, b
    <3>1. QED BY <1>2, <2>1 DEF InductiveInv, TypeOK
<1>6. MuteHolds'
  BY <1>1, <1>2, <1>4, <1>5 DEF InductiveInv, MuteHolds
<1>7. QED BY <1>2, <1>3, <1>6, OnlyPausesKeep

LEMMA DemandKeeps ==
  ASSUME InductiveInv, NEW p \in Producers, NEW watchers \in {"idle", "watched"},
         Demand(p, watchers)
  PROVE  InductiveInv'
<1> DEFINE idle == watchers = "idle"
           wakes == /\ p[1] \in Devices /\ made[p] = "up" /\ paused[p]
                    /\ watchers = "watched" /\ ~on[p[1]]
<1>1. /\ UNCHANGED <<phase, drops, screen, enable, granted, localStream, ref, made,
                     overlapped, late>>
      /\ on' = on
      /\ IF made[p] = "up" THEN paused' = [paused EXCEPT ![p] = idle] /\ pending' = pending
         ELSE /\ pending' = IF idle THEN pending \cup {p} ELSE pending \ {p}
              /\ paused' = paused
      /\ woken' = IF wakes THEN woken \cup {p[1]} ELSE woken
  BY DEF Demand, devices
<1>2. idle \in BOOLEAN
  OBVIOUS
<1>3. /\ on' \in [Devices -> BOOLEAN] /\ woken' \subseteq Devices
      /\ pending' \subseteq Producers /\ paused' \in [Producers -> BOOLEAN]
  <2>1. woken' \subseteq Devices
    BY <1>1 DEF InductiveInv, TypeOK
  <2>2. on' \in [Devices -> BOOLEAN]
    BY <1>1 DEF InductiveInv, TypeOK
  <2>3. pending' \subseteq Producers
    BY <1>1 DEF InductiveInv, TypeOK
  <2>4. paused' \in [Producers -> BOOLEAN]
    <3> HIDE DEF idle, wakes
    <3>1. QED BY <1>1, <1>2 DEF InductiveInv, TypeOK
  <2>5. QED BY <2>1, <2>2, <2>3, <2>4
<1>4. MuteHolds'
  <2>1. SUFFICES ASSUME NEW d \in Devices, phase = "live", ref[d] # None, ~on[d],
                        made[<<d, ref[d]>>] = "up"
                 PROVE  paused'[<<d, ref[d]>>] \/ d \in woken'
    BY <1>1 DEF MuteHolds
  <2>2. paused[<<d, ref[d]>>] \/ d \in woken
    BY <2>1 DEF InductiveInv, MuteHolds
  <2>3. woken \subseteq woken'
    BY <1>1
  <2>4. <<d, ref[d]>> \in Producers
    BY <2>1, ProducersAre DEF InductiveInv, TypeOK
  <2>5. CASE p = <<d, ref[d]>>
    <3>1. p[1] = d /\ made[p] = "up"
      BY <2>1, <2>5
    <3>2. CASE idle
      <4>1. paused' = [paused EXCEPT ![p] = TRUE]
        BY <1>1, <3>1, <3>2
      <4>2. QED BY <2>5, <4>1 DEF InductiveInv, TypeOK
    <3>3. CASE ~idle
      <4>1. paused[p] => wakes
        BY <2>1, <3>1, <3>3
      <4>2. QED BY <1>1, <2>2, <2>3, <2>5, <3>1, <4>1
    <3>4. QED BY <3>2, <3>3
  <2>6. CASE p # <<d, ref[d]>>
    <3>1. paused'[<<d, ref[d]>>] = paused[<<d, ref[d]>>]
      <4> HIDE DEF idle, wakes
      <4>1. QED BY <1>1, <2>4, <2>6 DEF InductiveInv, TypeOK
    <3>2. QED BY <2>2, <2>3, <3>1
  <2>7. QED BY <2>5, <2>6
<1>5. QED BY <1>1, <1>3, <1>4, OnlyPausesKeep

(***************************************************************************)
(* The connection                                                          *)
(***************************************************************************)
LEMMA ClosedIs ==
  ASSUME TypeOK
  PROVE  /\ Closed \in [Producers -> ProdStates]
         /\ \A p \in Producers : Closed[p] = IF made[p] = "up" THEN "closed" ELSE made[p]
         /\ \A c \in Shares :
              Closed[Screen(c)] = IF made[Screen(c)] = "up" THEN "closed" ELSE made[Screen(c)]
         /\ \A d \in Devices, e \in Enables :
              Closed[<<d, e>>] = IF made[<<d, e>>] = "up" THEN "closed" ELSE made[<<d, e>>]
         /\ \A p \in Producers : Closed[p] # "up"
<1>1. \A p \in Producers : made[p] \in ProdStates
  BY DEF TypeOK, ProdStates
<1>2. /\ Closed \in [Producers -> ProdStates]
      /\ \A p \in Producers : Closed[p] = IF made[p] = "up" THEN "closed" ELSE made[p]
  BY <1>1 DEF Closed, ProdStates
<1>3. QED BY <1>2, ProducersAre

\* The producers have been closed, the transports with them.
LEMMA ClosingKeeps ==
  ASSUME InductiveInv, made' = Closed,
         UNCHANGED <<share, hooked, enable, localStream, ref, on, paused, pending, history>>,
         phase' \in {"reconnecting", "ended"}, drops' \in 0..MaxDrops,
         phase' = "reconnecting" => drops' > 0,
         granted' \in [Enables -> SUBSET Devices],
         \A e \in Enables : granted'[e] \subseteq granted[e],
         \/ UNCHANGED <<track, screenStream, screenProducer, sharing>>
         \/ /\ track' \in [Shares -> {"none", "running", "stopped"}]
            /\ \A a \in Shares : share[a] \in {"none", "picking"} => track'[a] = track[a]
            /\ ~overlapped => \A a \in Shares : track'[a] # "running"
            /\ screenStream' = None /\ screenProducer' = None /\ sharing' = None,
         LeaveReleases'
  PROVE  InductiveInv'
<1>1. UNCHANGED <<share, hooked, enable, localStream, ref, on, paused, pending>>
  OBVIOUS
<1>2. UNCHANGED <<overlapped, woken, late>>
  BY DEF history
<1>3. /\ made' \in [Producers -> ProdStates]
      /\ \A c \in Shares :
           made'[Screen(c)] = IF made[Screen(c)] = "up" THEN "closed" ELSE made[Screen(c)]
      /\ \A d \in Devices, e \in Enables :
           made'[<<d, e>>] = IF made[<<d, e>>] = "up" THEN "closed" ELSE made[<<d, e>>]
      /\ \A p \in Producers : made'[p] # "up"
  BY ClosedIs DEF InductiveInv
<1>4. /\ track' \in [Shares -> {"none", "running", "stopped"}]
      /\ \A a \in Shares : share[a] \in {"none", "picking"} => track'[a] = track[a]
      /\ screenStream' \in {screenStream, None}
      /\ screenProducer' \in {screenProducer, None} /\ sharing' \in {sharing, None}
  BY DEF InductiveInv, TypeOK
<1>5. None \notin Shares
  BY DEF Shares, None
<1>6. TypeOK'
  <2>1. screenProducer' # None => made'[Screen(screenProducer')] \in {"up", "closed"}
    BY <1>3, <1>4 DEF InductiveInv, TypeOK
  <2>2. \A d \in Devices : ref'[d] # None => made'[<<d, ref'[d]>>] \in {"up", "closed"}
    BY <1>1, <1>3 DEF InductiveInv, TypeOK
  <2>3. /\ screenStream' \in Shares \cup {None} /\ screenProducer' \in Shares \cup {None}
        /\ sharing' \in Shares \cup {None}
    BY <1>4 DEF InductiveInv, TypeOK
  <2>4. QED
    BY <1>1, <1>2, <1>3, <1>4, <2>1, <2>2, <2>3 DEF InductiveInv, TypeOK, ProdStates
<1>7. ProducersMatch'
  <2>1. \A c \in Shares :
          /\ share'[c] \in {"none", "picking"} =>
               made'[Screen(c)] = "none" /\ track'[c] = "none" /\ screenStream' # c
          /\ share'[c] = "publishing" <=> made'[Screen(c)] = "producing"
          /\ share'[c] = "tuning" => made'[Screen(c)] \in {"up", "closed"}
          /\ c \in hooked' => share'[c] = "done"
    BY <1>1, <1>3, <1>4, <1>5 DEF InductiveInv, ProducersMatch
  <2>2. \A e \in Enables, d \in Devices :
          /\ enable'[e] = d <=> made'[<<d, e>>] = "producing"
          /\ enable'[e] \in {"none", "asking"} \/ (d \in granted'[e] /\ enable'[e] # d)
               => made'[<<d, e>>] = "none"
    <3>1. TAKE e \in Enables, d \in Devices
    <3>2. /\ enable[e] = d <=> made[<<d, e>>] = "producing"
          /\ enable[e] \in {"none", "asking"} \/ (d \in granted[e] /\ enable[e] # d)
               => made[<<d, e>>] = "none"
      BY DEF InductiveInv, ProducersMatch
    <3>3. enable'[e] = enable[e] /\ (d \in granted'[e] => d \in granted[e])
      BY <1>1
    <3>4. QED BY <1>3, <3>2, <3>3
  <2>3. QED BY <2>1, <2>2 DEF ProducersMatch
<1>8. \A c \in Shares : made'[Screen(c)] # "up"
  BY <1>3, ProducersAre
<1>9. (OneShare /\ ShareShown)'
  <2>1. CASE UNCHANGED <<track, screenStream, screenProducer, sharing>>
    BY <1>1, <1>2, <1>8, <2>1 DEF InductiveInv, OneShare, ShareShown, SharesUnderWay
  <2>2. CASE /\ ~overlapped => \A a \in Shares : track'[a] # "running"
             /\ sharing' = None
    BY <1>1, <1>2, <1>8, <2>2 DEF InductiveInv, OneShare, ShareShown, SharesUnderWay
  <2>3. QED BY <2>1, <2>2
<1>10. (UpWhileLive /\ MuteHolds)'
  BY <1>3 DEF UpWhileLive, MuteHolds
<1>11. QED BY <1>6, <1>7, <1>9, <1>10 DEF InductiveInv

LEMMA DropKeeps == InductiveInv /\ Drop => InductiveInv'
<1> SUFFICES ASSUME InductiveInv, Drop PROVE InductiveInv'
  OBVIOUS
<1>1. /\ made' = Closed /\ phase' = "reconnecting" /\ drops' = drops + 1 /\ drops < MaxDrops
      /\ UNCHANGED <<share, hooked, enable, granted, localStream, ref, on, paused, pending>>
      /\ UNCHANGED history
      /\ UNCHANGED <<track, screenStream, screenProducer, sharing>>
  BY DEF Drop, screen, devices
<1>2. drops' \in 0..MaxDrops /\ drops' > 0
  BY <1>1, EmbedRoomAssumption DEF InductiveInv, TypeOK
<1>3. LeaveReleases'
  BY <1>1 DEF LeaveReleases
<1>4. granted' \in [Enables -> SUBSET Devices] /\ \A e \in Enables : granted'[e] \subseteq granted[e]
  BY <1>1 DEF InductiveInv, TypeOK
<1>5. QED BY <1>1, <1>2, <1>3, <1>4, ClosingKeeps

LEMMA RejoinKeeps == InductiveInv /\ Rejoin => InductiveInv'
<1> SUFFICES ASSUME InductiveInv, Rejoin PROVE InductiveInv'
  OBVIOUS
<1>1. /\ phase = "reconnecting" /\ phase' = "live"
      /\ UNCHANGED <<drops, screen, devices, media, history>>
      /\ UNCHANGED <<share, track, hooked, screenStream, screenProducer, sharing>>
      /\ UNCHANGED <<enable, granted, localStream, ref, on, made, paused, pending>>
      /\ UNCHANGED <<overlapped, woken, late>>
  BY DEF Rejoin, screen, devices, media, history
<1>2. drops > 0 /\ \A p \in Producers : made[p] # "up"
  BY <1>1 DEF InductiveInv, UpWhileLive
<1>3. \A d \in Devices : ref[d] # None => made[<<d, ref[d]>>] # "up"
  BY <1>2, ProducersAre DEF InductiveInv, TypeOK
<1>4. TypeOK'
  BY <1>1 DEF InductiveInv, TypeOK
<1>5. (ProducersMatch /\ OneShare)'
  BY <1>1 DEF InductiveInv, ProducersMatch, OneShare, SharesUnderWay
<1>6. (UpWhileLive /\ ShareShown /\ LeaveReleases /\ MuteHolds)'
  BY <1>1, <1>2, <1>3
  DEF InductiveInv, TypeOK, UpWhileLive, ShareShown, LeaveReleases, MuteHolds
<1>7. QED BY <1>4, <1>5, <1>6 DEF InductiveInv

LEMMA LeaveKeeps == InductiveInv /\ Leave => InductiveInv'
<1> SUFFICES ASSUME InductiveInv, Leave PROVE InductiveInv'
  OBVIOUS
<1>1. /\ phase # "ended" /\ made' = Closed
      /\ screenProducer' = None /\ screenStream' = None /\ sharing' = None
      /\ UNCHANGED <<drops, share, hooked, enable, localStream, ref, on, paused, pending, history>>
  BY DEF Leave
<1>2. phase' \in {"reconnecting", "ended"} /\ (phase' = "reconnecting" => phase = "reconnecting")
  BY DEF Leave
<1>3. drops' \in 0..MaxDrops /\ (phase' = "reconnecting" => drops' > 0)
  BY <1>1, <1>2 DEF InductiveInv, TypeOK, UpWhileLive
<1>4. /\ granted' \in [Enables -> SUBSET Devices]
      /\ \A e \in Enables : granted'[e] \subseteq granted[e]
      /\ localStream # None => granted'[localStream] = {}
  BY DEF InductiveInv, TypeOK, Leave
<1>5. /\ track' \in [Shares -> {"none", "running", "stopped"}]
      /\ \A a \in Shares : track'[a] = IF a = screenStream THEN "stopped" ELSE track[a]
  <2>1. track' = IF screenStream = None THEN track ELSE [track EXCEPT ![screenStream] = "stopped"]
    BY DEF Leave
  <2>2. QED BY <2>1 DEF InductiveInv, TypeOK, Shares, None
<1>6. \A a \in Shares : share[a] \in {"none", "picking"} => track'[a] = track[a]
  BY <1>5 DEF InductiveInv, ProducersMatch
<1>7. ~overlapped => \A a \in Shares : track'[a] # "running"
  BY <1>5 DEF InductiveInv, OneShare
<1>8. LeaveReleases'
  <2>1. UNCHANGED <<overlapped, late, localStream>>
    BY <1>1 DEF history
  <2>2. QED BY <1>4, <1>7, <2>1 DEF LeaveReleases
<1>9. QED BY <1>1, <1>2, <1>3, <1>4, <1>5, <1>6, <1>7, <1>8, ClosingKeeps

LEMMA StutterKeeps == InductiveInv /\ UNCHANGED vars => InductiveInv'
<1> SUFFICES ASSUME InductiveInv, UNCHANGED vars PROVE InductiveInv'
  OBVIOUS
<1>1. UNCHANGED <<phase, drops, screen, enable, granted, localStream, ref, made,
                  overlapped, late>>
  BY DEF vars, devices, media, history
<1>2. UNCHANGED <<on, paused, pending, woken>>
  BY DEF vars, devices, media, history
<1>3. /\ paused' \in [Producers -> BOOLEAN] /\ pending' \subseteq Producers
      /\ on' \in [Devices -> BOOLEAN] /\ woken' \subseteq Devices
  BY <1>2 DEF InductiveInv, TypeOK
<1>4. MuteHolds'
  BY <1>1, <1>2 DEF InductiveInv, MuteHolds
<1>5. QED BY <1>1, <1>3, <1>4, OnlyPausesKeep

LEMMA NextKeeps == InductiveInv /\ [Next]_vars => InductiveInv'
<1> SUFFICES ASSUME InductiveInv, [Next]_vars PROVE InductiveInv'
  OBVIOUS
<1>1. ASSUME NEW c \in Shares,
             StartScreenShare(c) \/ Published(c) \/ PublishFails(c) \/ Shared(c)
             \/ BrowserStops(c)
      PROVE  InductiveInv'
  BY <1>1, StartScreenShareKeeps, PublishedKeeps, PublishFailsKeeps, SharedKeeps,
     BrowserStopsKeeps
<1>2. ASSUME NEW c \in Shares, NEW picker \in Pickers,
             CaptureRefused(c, picker) \/ Captured(c, picker)
      PROVE  InductiveInv'
  BY <1>2, CaptureRefusedKeeps, CapturedKeeps
<1>3. CASE StopScreenShare
  BY <1>3, StopScreenShareKeeps
<1>4. ASSUME NEW e \in Enables,
             \/ EnableCameraAndMic(e)
             \/ \E devs \in SUBSET Devices : Answered(e, devs)
             \/ \E d \in Devices : DevicePublished(e, d) \/ DeviceFails(e, d)
      PROVE  InductiveInv'
  BY <1>4, EnableKeeps, AnsweredKeeps, DevicePublishedKeeps, DeviceFailsKeeps
<1>5. ASSUME NEW d \in Devices, Toggle(d)
      PROVE  InductiveInv'
  BY <1>5, ToggleKeeps
<1>6. ASSUME NEW p \in Producers, NEW watchers \in {"idle", "watched"}, Demand(p, watchers)
      PROVE  InductiveInv'
  BY <1>6, DemandKeeps
<1>7. CASE Drop
  BY <1>7, DropKeeps
<1>8. CASE Rejoin
  BY <1>8, RejoinKeeps
<1>9. CASE Leave
  BY <1>9, LeaveKeeps
<1>10. CASE UNCHANGED vars
  BY <1>10, StutterKeeps
<1>11. QED
  BY <1>1, <1>2, <1>3, <1>4, <1>5, <1>6, <1>7, <1>8, <1>9, <1>10 DEF Next

(***************************************************************************)
(* The theorems                                                            *)
(***************************************************************************)
\* Every reachable state satisfies the inductive invariant: producers, captures
\* and the refs of EmbedRoom.jsx agree with how far their own calls have got.
THEOREM EmbedRoomInductive == Spec => []InductiveInv
<1>1. QED BY InitInductive, NextKeeps, PTL DEF Spec

\* The refs and the states of EmbedRoom.jsx have their types: a ref that is set
\* names a producer that was made.
THEOREM EmbedRoomTypeCorrect == Spec => []TypeOK
<1>1. InductiveInv => TypeOK
  BY DEF InductiveInv
<1>2. QED BY EmbedRoomInductive, <1>1, PTL

\* startScreenShare, stopScreenShare and track.onended: what is captured or sent
\* is shown as shared, unless two shares were under way at once.
THEOREM NoSilentShare == Spec => []ShareShown
<1>1. InductiveInv => ShareShown
  BY DEF InductiveInv
<1>2. QED BY EmbedRoomInductive, <1>1, PTL

\* leave: once the page has been left nothing it had been given goes on.
THEOREM LeavingReleases == Spec => []LeaveReleases
<1>1. InductiveInv => LeaveReleases
  BY DEF InductiveInv
<1>2. QED BY EmbedRoomInductive, <1>1, PTL

\* toggleMic, toggleCamera and meet-producer-demand: a device shown as off sends
\* nothing unless a demand notice has resumed it.
THEOREM MutedStaysSilent == Spec => []MuteHolds
<1>1. InductiveInv => MuteHolds
  BY DEF InductiveInv
<1>2. QED BY EmbedRoomInductive, <1>1, PTL
==============================================================================
