------------------------------ MODULE MonitorMesh ------------------------------
(***************************************************************************)
(* One room of the office monitor: the mesh half of server.js              *)
(* (handleMonitorMessage and the close handler), the pages that share a    *)
(* screen (broadcast/[roomId]) and the pages that watch it                 *)
(* (watch/[roomId]).                                                       *)
(*                                                                         *)
(* The server handles a message in one step.  The pages do not: sharing    *)
(* waits for the picker and for the ICE servers, an offer for createOffer, *)
(* an answer for the ICE servers, and nothing cancels what is waiting.     *)
(* Each socket is FIFO in both directions; its last message up is its      *)
(* close, seen by the server when the page closes it or when it is lost.   *)
(***************************************************************************)
EXTENDS Integers, Sequences, FiniteSets

CONSTANTS
  Stations,    \* broadcast pages open on the device
  Watchers,    \* watch pages
  NoSession,   \* null
  MaxViewers,  \* MAX_VIEWERS_PER_ROOM
  MaxShares    \* bound: sockets the stations open, together

ASSUME MonitorAssumption ==
  /\ IsFiniteSet(Stations) /\ IsFiniteSet(Watchers)
  /\ MaxViewers \in Nat \ {0} /\ MaxShares \in Nat \ {0}
  /\ NoSession \notin (Stations \X Nat) \cup Watchers
  /\ Watchers \cap (Stations \X Nat) = {}

\* A station's socket: the page and how many it had opened before, plus one.
Sessions == Stations \X (1..MaxShares)
Ends     == Sessions \cup Watchers

VARIABLES
  \* the server
  broadcaster,  \* room.broadcaster
  viewers,      \* room.viewers
  \* the broadcast pages
  flow,         \* what startSharing awaits: "none", "picking" or "fetching"
  status,       \* status
  capture,      \* whether the tracks of streamRef run
  opened,       \* sockets opened; wsRef is the last of them
  sock,         \* readyState of each
  pcs,          \* peersRef
  astray,       \* history: the page lost a socket, or opened one beside another
  \* the watch pages
  seat,         \* the page and its socket
  shown,        \* status
  pc,           \* pcRef while not closed: the session whose offer it took
  answering,    \* offers whose handler awaits the ICE servers
  overtaken,    \* history: an answer was finished after the broadcaster had left
  \* the wire
  up, down      \* messages to the server and from it, per socket

server  == <<broadcaster, viewers>>
station == <<flow, status, capture, opened, sock, pcs, astray>>
watcher == <<seat, shown, pc, answering, overtaken>>
wire    == <<up, down>>
vars    == <<server, station, watcher, wire>>

NoPc == [of |-> NoSession, state |-> "none"]
Pcs  == {NoPc} \cup [of : Sessions, state : {"offering", "offered", "answered"}]

Requests == [type : {"register", "close"}]
            \cup [type : {"offer"}, of : Sessions, to : Watchers]
            \cup [type : {"answer"}, of : Sessions]
Notices  == [type : {"viewer-joined", "viewer-left"}, viewer : Watchers]
            \cup [type : {"answer"}, of : Sessions, viewer : Watchers]
            \cup [type : {"registered"}, live : BOOLEAN]
            \cup [type : {"error", "broadcaster-left"}]
            \cup [type : {"offer"}, of : Sessions]

TypeOK ==
  /\ broadcaster \in Sessions \cup {NoSession}
  /\ viewers \subseteq Watchers /\ Cardinality(viewers) <= MaxViewers
  /\ flow \in [Stations -> {"none", "picking", "fetching"}]
  /\ status \in [Stations -> {"idle", "connecting", "live"}]
  /\ capture \in [Stations -> BOOLEAN]
  /\ opened \in [Stations -> 0..MaxShares]
  /\ sock \in [Sessions -> {"none", "opening", "open", "closing", "closed"}]
  /\ pcs \in [Stations -> [Watchers -> Pcs]]
  /\ astray \in [Stations -> BOOLEAN]
  /\ seat \in [Watchers -> {"none", "open", "lost", "left"}]
  /\ shown \in [Watchers -> {"connecting", "waiting", "offline", "live", "error"}]
  /\ pc \in [Watchers -> Sessions \cup {NoSession}]
  /\ answering \in [Watchers -> SUBSET Sessions]
  /\ overtaken \in [Watchers -> BOOLEAN]
  /\ up \in [Ends -> Seq(Requests)] /\ down \in [Ends -> Seq(Notices)]

Init ==
  /\ broadcaster = NoSession /\ viewers = {}
  /\ flow = [b \in Stations |-> "none"] /\ status = [b \in Stations |-> "idle"]
  /\ capture = [b \in Stations |-> FALSE] /\ opened = [b \in Stations |-> 0]
  /\ sock = [s \in Sessions |-> "none"]
  /\ pcs = [b \in Stations |-> [w \in Watchers |-> NoPc]]
  /\ astray = [b \in Stations |-> FALSE]
  /\ seat = [w \in Watchers |-> "none"] /\ shown = [w \in Watchers |-> "connecting"]
  /\ pc = [w \in Watchers |-> NoSession]
  /\ answering = [w \in Watchers |-> {}]
  /\ overtaken = [w \in Watchers |-> FALSE]
  /\ up = [x \in Ends |-> <<>>] /\ down = [x \in Ends |-> <<>>]

Listens(x) == IF x \in Sessions THEN sock[x] = "open" ELSE x \in Watchers /\ seat[x] = "open"
Current(b) == <<b, opened[b]>>
Dialled(b) == opened[b] > 0 /\ sock[Current(b)] \in {"opening", "open"}

\* Bound: one socket is lost, and none beside a page that has two.
Intact == (\A b \in Stations : ~astray[b]) /\ (\A w \in Watchers : seat[w] # "lost")

\* send() to each of a set of sockets: what a page has closed hears no more.
Told(to, msg) ==
  [x \in Ends |-> IF x \in to /\ Listens(x) THEN Append(down[x], msg) ELSE down[x]]

Asked(x, msg) == [up EXCEPT ![x] = Append(@, msg)]

\* The server takes the next message of a socket.
Takes(x, type) ==
  /\ up[x] # <<>> /\ Head(up[x]).type = type
  /\ up' = [up EXCEPT ![x] = Tail(@)]
  /\ UNCHANGED <<station, watcher>>

(***************************************************************************)
(* The server                                                              *)
(***************************************************************************)
\* As if the limit were compared with >.
HasRoom_OneMore == Cardinality(viewers) <= MaxViewers
HasRoom == Cardinality(viewers) < MaxViewers

\* As if only those who come later were announced to a broadcaster.
RegisterBroadcaster_NoReplay(s) ==
  /\ Takes(s, "register")
  /\ broadcaster' = s
  /\ UNCHANGED <<viewers, down>>

\* register-broadcaster: a broadcaster before it is replaced without a word;
\* the new one is told of everyone who watches.
RegisterBroadcaster(s) ==
  /\ Takes(s, "register")
  /\ broadcaster' = s
  /\ \E order \in {o \in [1..Cardinality(viewers) -> viewers] :
                     {o[i] : i \in DOMAIN o} = viewers} :
       down' = IF sock[s] = "open"
               THEN [down EXCEPT ![s] = @ \o [i \in DOMAIN order |->
                      [type |-> "viewer-joined", viewer |-> order[i]]]]
               ELSE down
  /\ UNCHANGED viewers

\* A watch page is opened, and its register-viewer arrives: the first message
\* of a fresh socket, before which nothing is to be seen of the page.
Visits(w) ==
  /\ seat[w] = "none"
  /\ seat' = [seat EXCEPT ![w] = "open"]
  /\ UNCHANGED <<shown, pc, answering, overtaken, station, up>>

RegisterViewer(w) ==
  /\ Visits(w)
  /\ HasRoom
  /\ viewers' = viewers \cup {w}
  /\ down' = [Told({broadcaster}, [type |-> "viewer-joined", viewer |-> w]) EXCEPT
       ![w] = <<[type |-> "registered", live |-> broadcaster # NoSession]>>]
  /\ UNCHANGED broadcaster

RefuseViewer(w) ==
  /\ Visits(w)
  /\ ~HasRoom
  /\ down' = [down EXCEPT ![w] = <<[type |-> "error"]>>]
  /\ UNCHANGED server

\* offer: whoever registered as a broadcaster reaches the viewers, also after
\* another has replaced it.
RelayOffer(s) ==
  /\ Takes(s, "offer")
  /\ LET msg == Head(up[s])
     IN down' = Told({msg.to} \cap viewers, [type |-> "offer", of |-> msg.of])
  /\ UNCHANGED server

\* answer: to whoever is the broadcaster now.
RelayAnswer(w) ==
  /\ Takes(w, "answer")
  /\ down' = Told({broadcaster},
                  [type |-> "answer", of |-> Head(up[w]).of, viewer |-> w])
  /\ UNCHANGED server

\* As if the close of a broadcaster were not passed on.
CloseBroadcaster_Quiet(s) ==
  /\ Takes(s, "close")
  /\ broadcaster' = IF broadcaster = s THEN NoSession ELSE broadcaster
  /\ UNCHANGED <<viewers, down>>

\* The close handler, for a broadcaster and for a viewer.
CloseBroadcaster(s) ==
  /\ Takes(s, "close")
  /\ IF broadcaster = s
     THEN broadcaster' = NoSession /\ down' = Told(viewers, [type |-> "broadcaster-left"])
     ELSE UNCHANGED <<broadcaster, down>>
  /\ UNCHANGED viewers

\* A page refused has no role, so its close concerns no room.
CloseViewer(w) ==
  /\ Takes(w, "close")
  /\ viewers' = viewers \ {w}
  /\ down' = IF w \in viewers
             THEN Told({broadcaster}, [type |-> "viewer-left", viewer |-> w])
             ELSE down
  /\ UNCHANGED broadcaster

(***************************************************************************)
(* The broadcast page                                                      *)
(***************************************************************************)
\* startSharing, to the picker.
StartSharing(b) ==
  /\ status[b] = "idle"
  /\ flow[b] = "none"  \* bound: no second capture while one is being set up
  /\ Cardinality({s \in Sessions : sock[s] # "none"})
     + Cardinality({a \in Stations : flow[a] # "none"}) < MaxShares
  /\ flow' = [flow EXCEPT ![b] = "picking"]
  /\ status' = [status EXCEPT ![b] = "connecting"]
  /\ UNCHANGED <<capture, opened, sock, pcs, astray, server, watcher, wire>>

PickerCancelled(b) ==
  /\ flow[b] = "picking"
  /\ flow' = [flow EXCEPT ![b] = "none"]
  /\ status' = [status EXCEPT ![b] = "idle"]
  /\ UNCHANGED <<capture, opened, sock, pcs, astray, server, watcher, wire>>

Picked(b) ==
  /\ flow[b] = "picking"
  /\ flow' = [flow EXCEPT ![b] = "fetching"]
  /\ capture' = [capture EXCEPT ![b] = TRUE]
  /\ UNCHANGED <<status, opened, sock, pcs, astray, server, watcher, wire>>

\* The ICE servers are known: a socket is opened, whatever was pressed since.
Fetched(b) ==
  /\ flow[b] = "fetching"
  /\ flow' = [flow EXCEPT ![b] = "none"]
  /\ opened' = [opened EXCEPT ![b] = @ + 1]
  /\ sock' = [sock EXCEPT ![<<b, opened[b] + 1>>] = "opening"]
  /\ astray' = [astray EXCEPT ![b] = @ \/ Dialled(b)]
  /\ UNCHANGED <<status, capture, pcs, server, watcher, wire>>

\* onopen.
Opened(s) ==
  /\ sock[s] = "opening"
  /\ sock' = [sock EXCEPT ![s] = "open"]
  /\ status' = [status EXCEPT ![s[1]] = "live"]
  /\ up' = Asked(s, [type |-> "register"])
  /\ UNCHANGED <<flow, capture, opened, pcs, astray, server, watcher, down>>

Hears(x, type) ==
  /\ Listens(x) /\ down[x] # <<>> /\ Head(down[x]).type = type
  /\ down' = [down EXCEPT ![x] = Tail(@)]

SetPc(b, w, new) == pcs' = [pcs EXCEPT ![b][w] = new]

\* createPeerForViewer, to createOffer.
ViewerJoined(s) ==
  /\ Hears(s, "viewer-joined")
  /\ SetPc(s[1], Head(down[s]).viewer, [of |-> s, state |-> "offering"])
  /\ UNCHANGED <<flow, status, capture, opened, sock, astray, server, watcher, up>>

\* The offer is ready and goes out on wsRef, if that is open.
OfferMade(b, w) ==
  /\ pcs[b][w].state = "offering"
  /\ SetPc(b, w, [pcs[b][w] EXCEPT !.state = "offered"])
  /\ up' = IF sock[Current(b)] = "open"
           THEN Asked(Current(b), [type |-> "offer", of |-> pcs[b][w].of, to |-> w])
           ELSE up
  /\ UNCHANGED <<flow, status, capture, opened, sock, astray, server, watcher, down>>

\* answer: a connection that waits for one takes whichever comes first, also
\* that to an offer of its predecessor.
Answered(s) ==
  /\ Hears(s, "answer")
  /\ LET w == Head(down[s]).viewer
         conn == pcs[s[1]][w]
     IN SetPc(s[1], w, IF conn.state = "offered" THEN [conn EXCEPT !.state = "answered"]
                       ELSE conn)
  /\ UNCHANGED <<flow, status, capture, opened, sock, astray, server, watcher, up>>

ViewerLeft(s) ==
  /\ Hears(s, "viewer-left")
  /\ SetPc(s[1], Head(down[s]).viewer, NoPc)
  /\ UNCHANGED <<flow, status, capture, opened, sock, astray, server, watcher, up>>

\* stopSharing: the button, or the browser's own bar.  What startSharing still
\* awaits goes on.
StopSharing(b) ==
  /\ status[b] # "idle" \/ capture[b]
  /\ capture' = [capture EXCEPT ![b] = FALSE]
  /\ pcs' = [pcs EXCEPT ![b] = [w \in Watchers |-> NoPc]]
  /\ status' = [status EXCEPT ![b] = "idle"]
  /\ IF Dialled(b)
     THEN /\ sock' = [sock EXCEPT ![Current(b)] = "closing"]
          /\ up' = IF sock[Current(b)] = "open" THEN Asked(Current(b), [type |-> "close"]) ELSE up
          /\ down' = [down EXCEPT ![Current(b)] = <<>>]
     ELSE UNCHANGED <<sock, up, down>>
  /\ UNCHANGED <<flow, opened, astray, server, watcher>>

\* onclose of a socket the page closed: it shows idle, whatever it is doing now.
Closed(s) ==
  /\ sock[s] = "closing"
  /\ sock' = [sock EXCEPT ![s] = "closed"]
  /\ status' = [status EXCEPT ![s[1]] = "idle"]
  /\ UNCHANGED <<flow, capture, opened, pcs, astray, server, watcher, wire>>

\* A socket is lost: the page shows idle, its capture and its connections stay.
Lost(s) ==
  /\ sock[s] = "open" /\ Intact
  /\ sock' = [sock EXCEPT ![s] = "closed"]
  /\ status' = [status EXCEPT ![s[1]] = "idle"]
  /\ astray' = [astray EXCEPT ![s[1]] = TRUE]
  /\ up' = Asked(s, [type |-> "close"]) /\ down' = [down EXCEPT ![s] = <<>>]
  /\ UNCHANGED <<flow, capture, opened, pcs, server, watcher>>

(***************************************************************************)
(* The watch page                                                          *)
(***************************************************************************)
Registered(w) ==
  /\ Hears(w, "registered")
  /\ shown' = [shown EXCEPT ![w] = IF Head(down[w]).live THEN "waiting" ELSE "offline"]
  /\ UNCHANGED <<seat, pc, answering, overtaken, server, station, up>>

Refused(w) ==
  /\ Hears(w, "error")
  /\ shown' = [shown EXCEPT ![w] = "error"]
  /\ UNCHANGED <<seat, pc, answering, overtaken, server, station, up>>

\* offer, to the answer of the ICE servers.
Offered(w) ==
  /\ Hears(w, "offer")
  /\ answering' = [answering EXCEPT ![w] = @ \cup {Head(down[w]).of}]
  /\ UNCHANGED <<seat, shown, pc, overtaken, server, station, up>>

\* The rest of the handler: the connection of an offer before is dropped
\* unclosed; ontrack comes with the description, before a frame of it.
AnswerMade(w, s) ==
  /\ s \in answering[w]
  /\ answering' = [answering EXCEPT ![w] = @ \ {s}]
  /\ pc' = [pc EXCEPT ![w] = s]
  /\ shown' = [shown EXCEPT ![w] = "live"]
  /\ overtaken' = [overtaken EXCEPT ![w] = @ \/ (shown[w] = "offline" /\ broadcaster # s)]
  /\ up' = IF seat[w] = "open" THEN Asked(w, [type |-> "answer", of |-> s]) ELSE up
  /\ UNCHANGED <<seat, server, station, down>>

BroadcasterLeft(w) ==
  /\ Hears(w, "broadcaster-left")
  /\ pc' = [pc EXCEPT ![w] = NoSession]
  /\ shown' = [shown EXCEPT ![w] = "offline"]
  /\ UNCHANGED <<seat, answering, overtaken, server, station, up>>

\* The page is closed, or loses its socket, which it never opens again.
CloseSeat(w, how) ==
  /\ seat[w] = "open"
  /\ seat' = [seat EXCEPT ![w] = how]
  /\ up' = Asked(w, [type |-> "close"]) /\ down' = [down EXCEPT ![w] = <<>>]
  /\ UNCHANGED <<server, station>>

Leave(w) ==
  /\ CloseSeat(w, "left")
  /\ shown' = [shown EXCEPT ![w] = "connecting"] /\ pc' = [pc EXCEPT ![w] = NoSession]
  /\ answering' = [answering EXCEPT ![w] = {}] /\ overtaken' = [overtaken EXCEPT ![w] = FALSE]

LoseSeat(w) ==
  /\ Intact
  /\ CloseSeat(w, "lost")
  /\ UNCHANGED <<shown, pc, answering, overtaken>>

ServerStep ==
  \/ \E s \in Sessions : RegisterBroadcaster(s) \/ RelayOffer(s) \/ CloseBroadcaster(s)
  \/ \E w \in Watchers :
       RegisterViewer(w) \/ RefuseViewer(w) \/ RelayAnswer(w) \/ CloseViewer(w)

StationStep ==
  \/ \E b \in Stations :
       \/ StartSharing(b) \/ PickerCancelled(b) \/ Picked(b) \/ Fetched(b) \/ StopSharing(b)
       \/ \E w \in Watchers : OfferMade(b, w)
  \/ \E s \in Sessions :
       \/ Opened(s) \/ ViewerJoined(s) \/ Answered(s) \/ ViewerLeft(s)
       \/ Closed(s) \/ Lost(s)

WatcherStep ==
  \E w \in Watchers :
    \/ Registered(w) \/ Refused(w) \/ Offered(w) \/ BroadcasterLeft(w)
    \/ Leave(w) \/ LoseSeat(w)
    \/ \E s \in Sessions : AnswerMade(w, s)

Next == ServerStep \/ StationStep \/ WatcherStep

Spec == Init /\ [][Next]_vars

(***************************************************************************)
(* Properties                                                              *)
(***************************************************************************)
\* Nothing is on its way and no handler waits.
AtRest ==
  /\ \A x \in Ends : up[x] = <<>> /\ down[x] = <<>>
  /\ \A s \in Sessions : sock[s] \notin {"opening", "closing"}
  /\ \A b \in Stations, w \in Watchers : pcs[b][w].state # "offering"
  /\ \A w \in Watchers : answering[w] = {}

\* At rest the page that broadcasts on its present socket has a connection for
\* everyone the server lists as watching, whichever of them registered first
\* and however often the broadcaster was replaced or went away between; and for
\* nobody else, unless the page once lost a socket or had two open at once.
\* None of the offers still waits for its answer.
PeersFollowViewers ==
  \A b \in Stations : AtRest /\ broadcaster = Current(b) =>
    LET connected == {w \in Watchers : pcs[b][w] # NoPc}
    IN /\ viewers \subseteq connected
       /\ connected = viewers \/ astray[b]
       /\ \A w \in viewers : seat[w] = "open" => pcs[b][w].state = "answered"

\* At rest what a watch page says is true: somebody broadcasts when it says
\* waiting or live, nobody does on the present socket of a page when it says
\* offline.  One case is excepted: an answer that was finished after the news
\* that the broadcaster had left.
WatcherHonest ==
  AtRest => \A w \in viewers :
    seat[w] = "open" =>
      /\ shown[w] = "offline" => \A b \in Stations : broadcaster # Current(b)
      /\ shown[w] \in {"waiting", "live"} => broadcaster # NoSession \/ overtaken[w]

(***************************************************************************)
(* What keeps them true: the inductive invariant.                          *)
(***************************************************************************)
Has(q, type)      == \E i \in DOMAIN q : q[i].type = type
About(q, type, w) == \E i \in DOMAIN q : q[i].type = type /\ q[i].viewer = w
OffersTo(q, w)    == \E i \in DOMAIN q : q[i].type = "offer" /\ q[i].to = w
SaysLive(q)       == \E i \in DOMAIN q : q[i].type = "registered" /\ q[i].live

OnlyFirst(q, type) == \A i \in DOMAIN q : q[i].type = type => i = 1
OnlyLast(q, type)  == \A i \in DOMAIN q : q[i].type = type => i = Len(q)

\* An offer with no news after it that the broadcaster has left.
OfferAhead(q) ==
  \E i \in DOMAIN q :
    /\ q[i].type = "offer"
    /\ \A j \in DOMAIN q : j > i => q[j].type # "broadcaster-left"

\* Nobody is said to have joined after having left.
JoinedBefore(q) ==
  \A i, j \in DOMAIN q :
    /\ q[i].type = "viewer-left" /\ q[j].type = "viewer-joined"
    /\ q[i].viewer = q[j].viewer
    => j < i

\* A page opens its sockets one after another, and has one at a time unless it
\* is astray; the bound counts them.
Sockets ==
  /\ \A s \in Sessions :
       /\ sock[s] = "none" <=> s[2] > opened[s[1]]
       /\ sock[s] \in {"opening", "open"} => s = Current(s[1]) \/ astray[s[1]]
  /\ \A b \in Stations : astray[b] => opened[b] > 0
  /\ Cardinality({s \in Sessions : sock[s] # "none"})
     + Cardinality({b \in Stations : flow[b] # "none"}) <= MaxShares

\* What a socket of a broadcast page carries up: it registers first, closes
\* last, and is the broadcaster only between the two.  Nothing goes down before
\* it has registered or after it has been closed.
Uplink(s) ==
  /\ sock[s] \in {"none", "opening"} => broadcaster # s /\ up[s] = <<>>
  /\ broadcaster = s \/ up[s] # <<>> => sock[s] = "open" \/ Has(up[s], "close")
  /\ Has(up[s], "close") => sock[s] # "open"
  /\ Has(up[s], "register") => broadcaster # s /\ down[s] = <<>>
  /\ OnlyFirst(up[s], "register") /\ OnlyLast(up[s], "close")
  /\ down[s] # <<>> => sock[s] = "open"

\* A watch page hears first whether it is admitted, and shows nothing else
\* until then.
Seat(w) ==
  /\ seat[w] = "none" => w \notin viewers /\ shown[w] = "connecting" /\ answering[w] = {}
  /\ OnlyFirst(down[w], "registered") /\ OnlyFirst(down[w], "error")
  /\ w \in viewers => shown[w] # "error" /\ ~Has(down[w], "error")
  /\ w \in viewers /\ seat[w] = "open" =>
       /\ Has(down[w], "registered") <=> shown[w] = "connecting"
       /\ shown[w] = "connecting" => answering[w] = {}

\* A viewer leaves once, after it has joined.
Departures(s) ==
  /\ JoinedBefore(down[s])
  /\ \A w \in Watchers :
       About(down[s], "viewer-left", w) => w \notin viewers /\ seat[w] # "none"

\* A page that went nowhere astray has connections only on a socket that is open
\* and has registered.
Connected(b) ==
  ~astray[b] /\ (\E w \in Watchers : pcs[b][w] # NoPc) =>
    Current(b) \in Sessions /\ sock[Current(b)] = "open" /\ ~Has(up[Current(b)], "register")

OnAir(b) == broadcaster = Current(b) /\ sock[Current(b)] = "open"
News(b)  == down[Current(b)]

\* Who watches has a connection or is about to be announced to the broadcaster;
\* who does not and has one is about to be announced as having left.
Announced(b) ==
  OnAir(b) =>
    /\ \A w \in viewers : pcs[b][w] = NoPc => About(News(b), "viewer-joined", w)
    /\ ~astray[b] => \A w \in Watchers \ viewers :
         pcs[b][w] # NoPc \/ About(News(b), "viewer-joined", w)
           => About(News(b), "viewer-left", w)

\* An offer will be made to the viewer, or is on its way to the server.
Coming(b, w) ==
  \/ About(News(b), "viewer-joined", w)
  \/ pcs[b][w].state = "offering"
  \/ OffersTo(up[Current(b)], w)

\* An offer that was made is going to be answered, and a viewer that does not
\* show the picture is going to have an offer.
Negotiated(b, w) ==
  w \in viewers /\ OnAir(b) /\ seat[w] = "open" =>
    /\ pcs[b][w].state = "offered" =>
         \/ Coming(b, w) \/ Has(down[w], "offer") \/ answering[w] # {}
         \/ Has(up[w], "answer") \/ About(News(b), "answer", w)
    /\ \/ Coming(b, w) \/ OfferAhead(down[w])
       \/ /\ answering[w] # {} \/ shown[w] = "live"
          /\ ~Has(down[w], "broadcaster-left")

\* While nobody broadcasts, a viewer that thinks otherwise is going to hear of it.
GoneHeard(w) ==
  w \in viewers /\ broadcaster = NoSession /\ seat[w] = "open" /\ ~overtaken[w] =>
    \/ Has(down[w], "broadcaster-left")
    \/ shown[w] \notin {"waiting", "live"} /\ ~SaysLive(down[w])

InductiveInv ==
  /\ TypeOK /\ Sockets
  /\ \A s \in Sessions : Uplink(s) /\ Departures(s)
  /\ \A w \in Watchers : Seat(w) /\ GoneHeard(w)
  /\ \A b \in Stations : Connected(b) /\ Announced(b)
  /\ \A b \in Stations, w \in Watchers : Negotiated(b, w)
=============================================================================
