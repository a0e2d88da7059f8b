----------------------------- MODULE PlatformProofs -----------------------------
(***************************************************************************)
(* The platform side, for any number of keys, ranges, changes and requests:*)
(* what the decisions of PlatformPolicy guarantee for every request, and   *)
(* the safety properties of Dashboard.                                     *)
(*                                                                         *)
(* InductiveInv of Dashboard is shown by groups of actions: those that     *)
(* change page, then those of each page, which leave the others alone.     *)
(***************************************************************************)
EXTENDS Dashboard, PlatformPolicy, TLAPS

\* POST /api/v1/rooms: whatever number is asked for, the room admits at most
\* MAX_MEET_PARTICIPANTS, and any positive number admits somebody.
THEOREM RoomCapBounded ==
  ASSUME NEW n \in Int \cup {NaN}
  PROVE  /\ RoomCap(n) <= MaxMeetParticipants
         /\ n \in Nat => RoomCap(n) \in 1..MaxMeetParticipants
  BY PlatformAssumption DEF RoomCap

\* httpApi.js:289 with meetRooms.js:71: a negative number makes a room that is
\* full while nobody is in it.
THEOREM NegativeCapAdmitsNobody ==
  ASSUME NEW n \in Int, n < 0, NEW peers \in Nat
  PROVE  RoomIsFull(peers, RoomCap(n))
  BY PlatformAssumption DEF RoomCap, RoomIsFull

\* A request that does not mention canPublish, or agrees with its role, gets a
\* token whose permission and role agree: viewers watch, publishers publish.
THEOREM RoleDecides ==
  ASSUME NEW user, NEW room, NEW body, NEW now,
         MintToken(user, room, body, now) # Absent,
         body.canPublish = Undefined \/ body.role = Absent,
         body.canPublish \in BOOLEAN \cup {Absent, Undefined}
  PROVE  LET claims == MintToken(user, room, body, now)
         IN claims.canPublish = (claims.role = "publisher")
<1>1. /\ Role(body) \in {"publisher", "viewer"}
      /\ MintToken(user, room, body, now).role = Role(body)
      /\ MintToken(user, room, body, now).canPublish = CanPublish(body)
  BY DEF MintToken
<1>2. CASE body.canPublish = Undefined
  BY <1>1, <1>2 DEF CanPublish
<1>3. CASE body.role = Absent /\ body.canPublish # Undefined
  BY <1>1, <1>3 DEF CanPublish, Role, Given
<1>4. QED
  BY <1>2, <1>3

\* The life of a token is at most a day.
THEOREM TokenExpires ==
  ASSUME NEW user, NEW room, NEW body, NEW now \in Int, body.ttlSeconds \in Int \cup {NaN},
         MintToken(user, room, body, now) # Absent
  PROVE  MintToken(user, room, body, now).exp <= now + Day
<1>1. TtlSeconds(body.ttlSeconds) \in Int /\ TtlSeconds(body.ttlSeconds) <= Day
  BY PlatformAssumption DEF TtlSeconds, Day
<1>2. MintToken(user, room, body, now).exp = now + TtlSeconds(body.ttlSeconds)
  BY DEF MintToken
<1>3. Day \in Int
  BY DEF Day
<1>4. QED
  BY <1>1, <1>2, <1>3

\* From POST .../tokens to meet-join: while the signing key stays the same, a
\* token admits to the room it was minted for to the last second of its life and
\* is refused from the next one on, a life of zero or less included; it never
\* admits to another room that has an owner; and after a restart that changed
\* the key it admits to none.  (The last assumption: a token is not undefined.)
THEOREM TokenAdmitsToItsRoom ==
  ASSUME NEW user, NEW room, NEW other, NEW body, NEW now \in Int, NEW then \in Int,
         NEW key, NEW newKey,
         room.owner # Absent, other.owner # Absent, other.id # room.id, newKey # key,
         body.ttlSeconds \in Int \cup {NaN},
         MintToken(user, room, body, now) # Absent,
         [claims |-> MintToken(user, room, body, now), key |-> key] # Absent
  PROVE  LET token == [claims |-> MintToken(user, room, body, now), key |-> key]
         IN /\ Admits(room, token, key, then) <=> then <= now + TtlSeconds(body.ttlSeconds)
            /\ ~Admits(other, token, key, then)
            /\ ~Admits(room, token, newKey, then)
<1> DEFINE claims == MintToken(user, room, body, now)
<1> DEFINE token  == [claims |-> claims, key |-> key]
<1>1. claims.room = room.id /\ claims.exp = now + TtlSeconds(body.ttlSeconds)
  BY DEF MintToken
<1>2. TtlSeconds(body.ttlSeconds) \in Int
  BY PlatformAssumption DEF TtlSeconds, Day
<1>3. token.claims = claims /\ token.key = key
  OBVIOUS
<1> HIDE DEF claims, token
<1>4. claims # Absent /\ token # Absent
  BY DEF claims, token
<1>5. VerifyRoomToken(token, key, then) = IF claims.exp < then THEN Absent ELSE claims
  BY <1>3, <1>4 DEF VerifyRoomToken
<1>6. Admits(room, token, key, then) <=> then <= now + TtlSeconds(body.ttlSeconds)
  <2>1. Admits(room, token, key, then) <=> VerifyRoomToken(token, key, then) # Absent
    BY <1>1, <1>5 DEF Admits
  <2>2. ~(claims.exp < then) <=> then <= now + TtlSeconds(body.ttlSeconds)
    BY <1>1, <1>2
  <2>3. QED BY <1>4, <1>5, <2>1, <2>2
<1>7. ~Admits(other, token, key, then)
  BY <1>1, <1>5 DEF Admits
<1>8. ~Admits(room, token, newKey, then)
  BY <1>3, <1>4 DEF Admits, VerifyRoomToken
<1>9. QED
  BY <1>6, <1>7, <1>8 DEF token, claims

\* integrationReport: the verdict that all is well is given exactly when some
\* session named its client and nothing listed beside it is a warning or an
\* error; so never while no token was minted, or while nothing is known.
THEOREM VerdictConsistent ==
  ASSUME NEW usage, NEW calls, NEW rooms, NEW iframe \in BOOLEAN
  PROVE  LET found == Diagnose(usage, calls, rooms, iframe)
         IN /\ "looks-correct" \in found <=>
                 /\ \E u \in usage : u.client # Absent
                 /\ \A f \in found : Level(f) \in {"ok", "info"}
            /\ "looks-correct" \in found =>
                 Called(calls, "POST", TokenRoutes) /\ ~iframe
<1> DEFINE identified == {u \in usage : u.client # Absent}
<1> DEFINE versions   == {Given(u.version, "unknown") : u \in {v \in usage : v.client = "sdk"}}
<1> DEFINE listed     == {"running"} \cup EndpointFindings(calls, rooms)
                           \cup (IF iframe THEN {"iframe-publishers"} ELSE {})
                           \cup (IF Cardinality(versions) > 1 THEN {"sdk-versions"} ELSE {})
<1> DEFINE found      == Diagnose(usage, calls, rooms, iframe)
<1>1. "looks-correct" \notin EndpointFindings(calls, rooms)
  BY DEF EndpointFindings
<1>2. "looks-correct" \notin listed
  BY <1>1
<1>3. /\ usage = {} => found = {"nothing-connected"}
      /\ usage # {} /\ identified = {} =>
           found = {"unidentified"} \cup EndpointFindings(calls, rooms)
      /\ identified # {} => found = IF \A f \in listed : Level(f) \in {"ok", "info"}
                                    THEN listed \cup {"looks-correct"} ELSE listed
  BY DEF Diagnose
<1>4. Level("looks-correct") = "ok" /\ Level("no-tokens") = "error"
      /\ Level("iframe-publishers") = "warn"
  BY DEF Level
<1>5. ~Called(calls, "POST", TokenRoutes) => "no-tokens" \in listed
  BY DEF EndpointFindings
<1>6. iframe => "iframe-publishers" \in listed
  OBVIOUS
<1>7. (\E u \in usage : u.client # Absent) <=> identified # {}
  OBVIOUS
<1> HIDE DEF identified, listed, found
<1>8. CASE identified = {}
  BY <1>1, <1>3, <1>7, <1>8 DEF found
<1>9. CASE identified # {}
  BY <1>2, <1>3, <1>4, <1>5, <1>6, <1>7, <1>9 DEF found
<1>10. QED
  BY <1>8, <1>9

(***************************************************************************)
(* Dashboard: what TypeOK says of each page                                *)
(***************************************************************************)
Links == [stage : {"none", "sent", "done", "refused", "list", "answer"},
          key : Keys \cup {Nobody}, seen : [Keys -> Statuses]]
Polls == [stage : {"none", "waiting", "sent", "answer", "refused"}, seen : 0..MaxChanges]

AccountOK ==
  /\ session \in {"none", "valid", "worthless"} /\ page \in Pages \cup {"login", "entering"}
  /\ leaving \in BOOLEAN /\ (leaving => page \in Pages)

ServerOK == table \in [Keys -> Statuses] /\ truth \in 0..MaxChanges

KeysOK ==
  /\ rows \in [Keys -> Statuses] /\ revoking \in Keys \cup {Nobody}
  /\ chain \in [Flows -> Links]
  /\ due \in [Keys -> Statuses] /\ overtaken \in BOOLEAN
  /\ \A k \in Keys : chain[k].stage \in {"sent", "done"} => chain[k].key = k
  /\ page # "keys" => chain = [f \in Flows |-> Quiet]

RoomsOK ==
  /\ shown \in -1..MaxChanges /\ refreshing \in BOOLEAN
  /\ load \in [Loads -> Polls]
  /\ page # "rooms" => load = [l \in Loads |-> NoLoad]

AnalyticsOK ==
  /\ days \in Ranges /\ nonce \in 0..MaxFetches /\ last \in 0..MaxFetches
  /\ \A r \in fetches : r[1] \in Requests /\ r[2] \in {"sent", "answer", "refused"}
  /\ data \in Ranges \cup {Nobody} /\ settled \in RequestKeys \cup {NoKey}

LEMMA BlankIs ==
  /\ Blank \in [Keys -> Statuses] /\ Quiet \in Links /\ Quiet.stage = "none"
  /\ NoLoad \in Polls /\ NoLoad.stage = "none" /\ NoKey[1] = Nobody
  /\ Nobody \notin Keys /\ "first" \notin Keys /\ "create" \notin Keys
  /\ Keys \subseteq Flows /\ "first" \in Flows /\ "create" \in Flows
BY DashboardAssumption DEF Blank, Quiet, Links, Statuses, NoLoad, Polls, NoKey, Flows

LEMMA TypeParts ==
  /\ TypeOK <=> AccountOK /\ ServerOK /\ KeysOK /\ RoomsOK /\ AnalyticsOK /\ error \in BOOLEAN
  /\ TypeOK' <=> /\ AccountOK' /\ ServerOK' /\ KeysOK' /\ RoomsOK' /\ AnalyticsOK'
                 /\ error' \in BOOLEAN
BY BlankIs DEF TypeOK, AccountOK, ServerOK, KeysOK, RoomsOK, AnalyticsOK, Links, Polls

(***************************************************************************)
(* Dashboard: moving between pages                                         *)
(***************************************************************************)
\* What a page begins with.
LEMMA MountKeeps ==
  ASSUME NEW target \in Pages \cup {"login"}, Mount(target), AccountOK', ServerOK'
  PROVE  InductiveInv'
<1> USE BlankIs
<1>1. /\ page' = target /\ error' = FALSE /\ revoking' = Nobody /\ rows' = Blank
      /\ overtaken' = FALSE /\ due' = Blank /\ shown' = -1 /\ refreshing' = (target = "rooms")
      /\ chain' = [f \in Flows |-> IF target = "keys" /\ f = "first"
                                   THEN [Quiet EXCEPT !.stage = "list"] ELSE Quiet]
      /\ load' = [l \in Loads |-> IF target = "rooms" /\ l = "timer"
                                  THEN [NoLoad EXCEPT !.stage = "sent"] ELSE NoLoad]
      /\ days' = Default /\ nonce' = 0 /\ data' = Nobody /\ settled' = NoKey
  BY DEF Mount, LoadsAt
<1>2. /\ last' = IF target = "analytics" THEN 1 ELSE 0
      /\ fetches' = IF target = "analytics" THEN {<<[id |-> 1, key |-> <<Default, 0>>], "sent">>}
                    ELSE {}
  BY DEF Mount
<1>3. KeysOK'
  <2>1. [Quiet EXCEPT !.stage = "list"] \in Links
    BY DEF Links
  <2>2. chain' \in [Flows -> Links]
    BY <1>1, <2>1
  <2>3. \A k \in Keys : chain'[k] = Quiet
    BY <1>1
  <2>4. page' # "keys" => chain' = [f \in Flows |-> Quiet]
    BY <1>1
  <2>5. QED BY <1>1, <2>2, <2>3, <2>4 DEF KeysOK
<1>4. RoomsOK'
  <2>1. [NoLoad EXCEPT !.stage = "sent"] \in Polls
    BY DEF Polls
  <2>2. load' \in [Loads -> Polls]
    BY <1>1, <2>1
  <2>3. page' # "rooms" => load' = [l \in Loads |-> NoLoad]
    BY <1>1
  <2>4. -1 \in -1..MaxChanges
    BY DashboardAssumption
  <2>5. QED BY <1>1, <2>2, <2>3, <2>4 DEF RoomsOK
<1>5. AnalyticsOK'
  <2>1. 1 \in 1..MaxFetches /\ 0 \in 0..MaxFetches /\ 1 \in 0..MaxFetches /\ Default \in Ranges
    BY DashboardAssumption
  <2>2. [id |-> 1, key |-> <<Default, 0>>] \in Requests
    BY <2>1 DEF Requests, RequestKeys
  <2>3. QED BY <1>1, <1>2, <2>1, <2>2 DEF AnalyticsOK
<1>6. RowsCatchUp'
  <2>1. \A k \in Keys : Rank(rows'[k]) = 0 /\ Rank(due'[k]) = 0
    BY <1>1 DEF Blank, Rank
  <2>2. QED BY <2>1 DEF RowsCatchUp, Current
<1>7. DataOfSettled' /\ NewestRequest'
  <2>1. DataOfSettled'
    BY <1>1 DEF DataOfSettled
  <2>2. CASE target = "analytics"
    <3>1. /\ last' = 1 /\ fetches' = {<<[id |-> 1, key |-> <<Default, 0>>], "sent">>}
          /\ Key' = <<Default, 0>> /\ page' = "analytics" /\ nonce' = 0
      BY <1>1, <1>2, <2>2 DEF Key
    <3>2. \A f \in fetches' : f[1].id = last' /\ f[1].key = Key'
      BY <3>1
    <3>3. \E f \in fetches' : f[1].id = last'
      BY <3>1, <3>2
    <3>4. QED BY <2>1, <3>1, <3>2, <3>3 DEF NewestRequest
  <2>3. CASE target # "analytics"
    <3>1. fetches' = {} /\ nonce' = 0 /\ last' = 0 /\ page' # "analytics"
      BY <1>1, <1>2, <2>3
    <3>2. QED BY <2>1, <3>1 DEF NewestRequest
  <2>4. QED BY <2>1, <2>2, <2>3
<1>8. error' \in BOOLEAN
  BY <1>1
<1>9. TypeOK'
  BY <1>3, <1>4, <1>5, <1>8, TypeParts
<1>10. QED BY <1>6, <1>7, <1>9 DEF InductiveInv

LEMMA DashboardInit == Init => InductiveInv
<1> SUFFICES ASSUME Init PROVE InductiveInv
  OBVIOUS
<1> USE BlankIs
<1>1. AccountOK /\ ServerOK
  <2>1. ServerOK
    BY DashboardAssumption DEF Init, ServerOK
  <2>2. ~leaving /\ leaving \in BOOLEAN
    BY DEF Init
  <2>3. AccountOK
    BY <2>2 DEF Init, AccountOK
  <2>4. QED BY <2>1, <2>3
<1>2. KeysOK /\ RoomsOK /\ AnalyticsOK
  <2>1. chain \in [Flows -> Links] /\ load \in [Loads -> Polls]
    BY DEF Init
  <2>2. \A k \in Keys : chain[k].stage = "none"
    BY DEF Init
  <2>3. KeysOK
    BY <2>1, <2>2 DEF Init, KeysOK
  <2>4. -1 \in -1..MaxChanges /\ 0 \in 0..MaxFetches /\ Default \in Ranges
    BY DashboardAssumption
  <2>5. RoomsOK /\ AnalyticsOK
    BY <2>1, <2>4 DEF Init, RoomsOK, AnalyticsOK
  <2>6. QED BY <2>3, <2>5
<1>3. TypeOK
  BY <1>1, <1>2, TypeParts DEF Init
<1>4. RowsCatchUp /\ DataOfSettled /\ NewestRequest
  <2>1. page = "login" /\ fetches = {} /\ nonce = 0 /\ last = 0
    BY DEF Init
  <2>2. QED BY <2>1 DEF RowsCatchUp, DataOfSettled, NewestRequest
<1>5. QED BY <1>3, <1>4 DEF InductiveInv

\* A page in which nothing changes, or which is not shown.
LEMMA PagesKeep ==
  ASSUME InductiveInv, UNCHANGED pages, AccountOK', ServerOK',
         page' = page \/ (page' \notin Pages /\ page \notin Pages)
  PROVE  InductiveInv'
<1>1. /\ KeysOK' /\ RoomsOK' /\ AnalyticsOK' /\ error' \in BOOLEAN
  BY TypeParts DEF InductiveInv, pages, keysPage, roomsPage, analytics, KeysOK, RoomsOK,
                   AnalyticsOK, Pages
<1>2. RowsCatchUp' /\ DataOfSettled' /\ NewestRequest'
  BY DEF InductiveInv, pages, keysPage, roomsPage, analytics, RowsCatchUp, Current,
         DataOfSettled, NewestRequest, Key, Pending, Pages
<1>3. TypeOK'
  BY <1>1, TypeParts
<1>4. QED BY <1>2, <1>3 DEF InductiveInv

LEMMA AccountKeeps ==
  ASSUME InductiveInv, AccountStep
  PROVE  InductiveInv'
<1>1. AccountOK /\ ServerOK
  BY TypeParts DEF InductiveInv
<1>2. CASE SignIn \/ Visit \/ SignOut \/ Logout \/ Expire
  <2>1. AccountOK' /\ ServerOK'
    <3>1. ServerOK'
      BY <1>1, <1>2 DEF SignIn, Visit, SignOut, Logout, Expire, ServerOK
    <3>2. CASE SignIn \/ Visit
      <4>1. leaving' = FALSE /\ page' = "entering" /\ session' \in {session, "valid"}
        BY <1>1, <3>2 DEF SignIn, Visit, AccountOK, Pages
      <4>2. QED BY <1>1, <3>1, <4>1 DEF AccountOK, Pages
    <3>3. CASE SignOut \/ Logout \/ Expire
      <4>1. /\ page' = page /\ (leaving' = leaving \/ (leaving' = TRUE /\ page \in Pages))
            /\ session' \in {session, "worthless"}
        BY <3>3 DEF SignOut, Logout, Expire
      <4>2. leaving' \in BOOLEAN /\ (leaving' => page' \in Pages)
        <5>1. CASE leaving' = leaving
          BY <1>1, <4>1, <5>1 DEF AccountOK
        <5>2. CASE leaving' = TRUE /\ page \in Pages
          BY <4>1, <5>2
        <5>3. QED BY <4>1, <5>1, <5>2
      <4>3. session' \in {"none", "valid", "worthless"} /\ page' \in Pages \cup {"login", "entering"}
        BY <1>1, <4>1 DEF AccountOK
      <4>4. QED BY <3>1, <4>2, <4>3 DEF AccountOK
    <3>4. QED BY <1>2, <3>2, <3>3
  <2>2. UNCHANGED pages /\ (page' = page \/ (page' \notin Pages /\ page \notin Pages))
    BY <1>2 DEF SignIn, Visit, SignOut, Logout, Expire, Pages
  <2>3. QED BY <2>1, <2>2, PagesKeep
<1>3. ASSUME NEW target \in Pages \cup {"login"}, LeavePage(target), UNCHANGED truth
      PROVE  ServerOK'
  BY <1>1, <1>3 DEF LeavePage, CarriedOut, ServerOK, Statuses
<1>4. CASE SignedOut
  <2>1. Mount("login") /\ page' = "login"
    BY <1>4 DEF SignedOut, LeavePage, Mount
  <2>2. AccountOK' /\ ServerOK'
    BY <1>1, <1>3, <1>4, <2>1 DEF SignedOut, AccountOK
  <2>3. QED BY <2>1, <2>2, MountKeeps
<1>5. ASSUME NEW target \in Pages, Entered(target)
      PROVE  InductiveInv'
  <2>1. CASE Mount(target)
    <3>1. AccountOK' /\ ServerOK'
      BY <1>1, <1>5, <2>1 DEF Entered, Mount, AccountOK, ServerOK
    <3>2. QED BY <2>1, <3>1, MountKeeps
  <2>2. CASE page' = "login" /\ UNCHANGED pages
    <3>1. /\ AccountOK' /\ ServerOK' /\ page' \notin Pages /\ page \notin Pages
      BY <1>1, <1>5, <2>2 DEF Entered, AccountOK, ServerOK, Pages
    <3>2. QED BY <2>2, <3>1, PagesKeep
  <2>3. QED BY <1>5, <2>1, <2>2 DEF Entered
<1>6. ASSUME NEW target \in Pages, Navigate(target)
      PROVE  InductiveInv'
  <2>1. Mount(target) /\ page' = target
    BY <1>6 DEF Navigate, LeavePage, Mount
  <2>2. AccountOK' /\ ServerOK'
    BY <1>1, <1>3, <1>6, <2>1 DEF Navigate, AccountOK
  <2>3. QED BY <2>1, <2>2, MountKeeps
<1>7. QED BY <1>2, <1>4, <1>5, <1>6 DEF AccountStep

(***************************************************************************)
(* Dashboard: the keys page                                                *)
(***************************************************************************)
\* A chain moves on the keys page; the other pages are as they were.
LEMMA ChainKeeps ==
  ASSUME InductiveInv, page = "keys", KeysOK', ServerOK', error' \in BOOLEAN,
         UNCHANGED <<account, truth, roomsPage, analytics>>, RowsCatchUp'
  PROVE  InductiveInv'
<1>1. AccountOK' /\ RoomsOK' /\ AnalyticsOK'
  BY TypeParts DEF InductiveInv, AccountOK, RoomsOK, AnalyticsOK, account, roomsPage, analytics
<1>2. DataOfSettled' /\ NewestRequest'
  BY DEF InductiveInv, DataOfSettled, NewestRequest, Key, Pending, account, analytics
<1>3. TypeOK'
  BY <1>1, TypeParts
<1>4. QED BY <1>2, <1>3 DEF InductiveInv

LEMMA KeysKeep ==
  ASSUME InductiveInv, KeysStep
  PROVE  InductiveInv'
<1> USE BlankIs
<1>1. KeysOK /\ ServerOK /\ error \in BOOLEAN /\ RowsCatchUp
  BY TypeParts DEF InductiveInv
<1>2. \A f \in Flows : chain[f].stage # "none" => page = "keys"
  BY <1>1 DEF KeysOK
\* A link of a chain is replaced by another that ends nothing.
<1>3. ASSUME NEW f \in Flows, NEW link \in Links, chain' = [chain EXCEPT ![f] = link],
             page = "keys", link.stage # "none",
             link.stage \in {"sent", "done"} /\ f \in Keys => link.key = f,
             UNCHANGED <<rows, overtaken, account, truth, roomsPage, analytics>>,
             due' \in [Keys -> Statuses], revoking' \in Keys \cup {Nobody},
             table' \in [Keys -> Statuses], error' \in BOOLEAN
      PROVE  InductiveInv'
  <2>1. chain'[f] = link /\ \A g \in Flows : g # f => chain'[g] = chain[g]
    BY <1>1, <1>3 DEF KeysOK
  <2>2. KeysOK'
    <3>1. chain' \in [Flows -> Links]
      BY <1>1, <1>3 DEF KeysOK
    <3>2. \A k \in Keys : chain'[k].stage \in {"sent", "done"} => chain'[k].key = k
      BY <1>1, <1>3, <2>1 DEF KeysOK
    <3>3. QED BY <1>1, <1>3, <3>1, <3>2 DEF KeysOK, account
  <2>3. RowsCatchUp'
    BY <1>3, <2>1 DEF RowsCatchUp
  <2>4. ServerOK'
    BY <1>1, <1>3 DEF ServerOK
  <2>5. QED BY <1>3, <2>2, <2>3, <2>4, ChainKeeps
\* The chain ends: the rows are what its answer says, or an error is shown.
<1>4. ASSUME NEW f \in Flows, chain[f].stage # "none", Done(f),
             UNCHANGED <<due, account, table, truth, roomsPage, analytics>>,
             rows' \in [Keys -> Statuses], overtaken' \in BOOLEAN, error' \in BOOLEAN,
             error' \/ overtaken' \/ Current(rows)'
      PROVE  InductiveInv'
  <2>1. page = "keys" /\ page' = "keys"
    BY <1>2, <1>4 DEF account
  <2>2. chain' = [chain EXCEPT ![f] = Quiet] /\ revoking' \in {revoking, Nobody}
    BY <1>4 DEF Done
  <2>3. KeysOK'
    <3>1. chain' \in [Flows -> Links]
      BY <1>1, <2>2 DEF KeysOK
    <3>2. \A k \in Keys : chain'[k].stage \in {"sent", "done"} => chain'[k].key = k
      BY <1>1, <2>2 DEF KeysOK
    <3>3. QED BY <1>1, <1>4, <2>1, <2>2, <3>1, <3>2 DEF KeysOK
  <2>4. RowsCatchUp'
    BY <1>4 DEF RowsCatchUp
  <2>5. ServerOK'
    BY <1>1, <1>4 DEF ServerOK
  <2>6. QED BY <1>4, <2>1, <2>3, <2>4, <2>5, ChainKeeps
<1>5. ASSUME NEW k \in Keys, CreateKey(k)
      PROVE  InductiveInv'
  <2>1. /\ [Quiet EXCEPT !.stage = "sent", !.key = k] \in Links
        /\ [Quiet EXCEPT !.stage = "sent", !.key = k].stage = "sent"
    BY DEF Links
  <2>2. /\ page = "keys" /\ error' = FALSE
        /\ chain' = [chain EXCEPT !["create"] = [Quiet EXCEPT !.stage = "sent", !.key = k]]
        /\ UNCHANGED <<rows, revoking, due, overtaken, account, table, truth, roomsPage, analytics>>
    BY <1>5 DEF CreateKey
  <2>3. QED BY <1>1, <1>3, <2>1, <2>2 DEF KeysOK, ServerOK
<1>6. ASSUME NEW k \in Keys, RevokeKey(k)
      PROVE  InductiveInv'
  <2>1. /\ [Quiet EXCEPT !.stage = "sent", !.key = k] \in Links
        /\ [Quiet EXCEPT !.stage = "sent", !.key = k].stage = "sent"
        /\ [Quiet EXCEPT !.stage = "sent", !.key = k].key = k
    BY DEF Links
  <2>2. QED BY <1>1, <1>3, <1>6, <2>1 DEF RevokeKey, KeysOK, ServerOK
<1>7. ASSUME NEW f \in Flows, ServeChange(f)
      PROVE  InductiveInv'
  <2>1. /\ chain[f].stage = "sent" /\ chain[f] \in Links /\ page = "keys"
        /\ UNCHANGED <<rows, revoking, due, overtaken, error, account, truth, roomsPage, analytics>>
    BY <1>1, <1>2, <1>7 DEF ServeChange, KeysOK
  <2>2. f \in Keys => chain[f].key = f
    BY <1>1, <2>1 DEF KeysOK
  <2>3. ASSUME NEW stage \in {"done", "refused"}, chain' = [chain EXCEPT ![f].stage = stage],
               table' \in [Keys -> Statuses]
        PROVE  InductiveInv'
    <3> DEFINE link == [chain[f] EXCEPT !.stage = stage]
    <3>1. link \in Links /\ link.stage = stage /\ link.key = chain[f].key
      BY <2>1 DEF Links
    <3>2. chain' = [chain EXCEPT ![f] = link]
      BY <2>3
    <3> HIDE DEF link
    <3>3. due' \in [Keys -> Statuses] /\ revoking' \in Keys \cup {Nobody} /\ error' \in BOOLEAN
      BY <1>1, <2>1 DEF KeysOK
    <3>4. link.stage # "none" /\ (f \in Keys => link.key = f)
      BY <2>2, <3>1
    <3>5. QED BY <1>3, <2>1, <2>3, <3>1, <3>2, <3>3, <3>4
  <2>4. table' \in [Keys -> Statuses]
    BY <1>1, <1>7 DEF ServeChange, ServerOK, Statuses
  <2>5. \/ chain' = [chain EXCEPT ![f].stage = "done"]
        \/ chain' = [chain EXCEPT ![f].stage = "refused"]
    BY <1>7 DEF ServeChange
  <2>6. QED BY <2>3, <2>4, <2>5
<1>8. ASSUME NEW f \in Flows, Changed(f)
      PROVE  InductiveInv'
  <2>1. /\ chain[f].stage = "done" /\ page = "keys"
        /\ chain' = [chain EXCEPT ![f] = [Quiet EXCEPT !.stage = "list"]]
        /\ UNCHANGED <<rows, revoking, overtaken, error, account, table, truth,
                       roomsPage, analytics>>
    BY <1>2, <1>8 DEF Changed
  <2>2. [Quiet EXCEPT !.stage = "list"] \in Links /\ [Quiet EXCEPT !.stage = "list"].stage = "list"
    BY DEF Links
  <2>3. due' \in [Keys -> Statuses]
    BY <1>1, <1>8 DEF Changed, Told, KeysOK, Statuses
  <2>4. QED BY <1>1, <1>3, <2>1, <2>2, <2>3 DEF KeysOK, ServerOK
<1>9. ASSUME NEW f \in Flows, ServeList(f)
      PROVE  InductiveInv'
  <2>1. /\ chain[f].stage = "list" /\ chain[f] \in Links /\ page = "keys"
        /\ \/ chain' = [chain EXCEPT ![f] = [chain[f] EXCEPT !.stage = "answer", !.seen = table]]
           \/ chain' = [chain EXCEPT ![f] = [chain[f] EXCEPT !.stage = "refused"]]
        /\ UNCHANGED <<rows, revoking, due, overtaken, error, account, table, truth,
                       roomsPage, analytics>>
    BY <1>1, <1>2, <1>9 DEF ServeList, KeysOK
  <2>2. /\ [chain[f] EXCEPT !.stage = "answer", !.seen = table] \in Links
        /\ [chain[f] EXCEPT !.stage = "answer", !.seen = table].stage = "answer"
        /\ [chain[f] EXCEPT !.stage = "refused"] \in Links
        /\ [chain[f] EXCEPT !.stage = "refused"].stage = "refused"
    BY <1>1, <2>1 DEF Links, ServerOK
  <2>3. QED BY <1>1, <1>3, <2>1, <2>2 DEF KeysOK, ServerOK
<1>10. ASSUME NEW f \in Flows, Listed(f)
       PROVE  InductiveInv'
  <2>1. /\ chain[f].stage # "none" /\ Done(f)
        /\ rows' = chain[f].seen /\ overtaken' = ~Current(chain[f].seen)
        /\ error' \in {error, FALSE}
        /\ UNCHANGED <<due, account, table, truth, roomsPage, analytics>>
    BY <1>10 DEF Listed
  <2>2. rows' \in [Keys -> Statuses]
    BY <1>1, <2>1 DEF KeysOK, Links
  <2>3. overtaken' \in BOOLEAN /\ (overtaken' \/ Current(rows)')
    BY <2>1 DEF Current
  <2>4. QED BY <1>1, <1>4, <2>1, <2>2, <2>3
<1>11. ASSUME NEW f \in Flows, ChainFails(f)
       PROVE  InductiveInv'
  BY <1>1, <1>4, <1>11 DEF ChainFails, KeysOK
<1>12. QED BY <1>5, <1>6, <1>7, <1>8, <1>9, <1>10, <1>11 DEF KeysStep

(***************************************************************************)
(* Dashboard: the rooms page                                               *)
(***************************************************************************)
LEMMA RoomsKeep ==
  ASSUME InductiveInv, RoomsStep
  PROVE  InductiveInv'
<1> USE BlankIs
<1>1. /\ AccountOK /\ ServerOK /\ KeysOK /\ RoomsOK /\ AnalyticsOK /\ error \in BOOLEAN
      /\ RowsCatchUp /\ DataOfSettled /\ NewestRequest
  BY TypeParts DEF InductiveInv
<1>2. \A l \in Loads : load[l].stage # "none" => page = "rooms"
  BY <1>1 DEF RoomsOK
\* A load moves on the rooms page; the other pages are as they were.
<1>3. ASSUME NEW l \in Loads, NEW poll \in Polls, load' = [load EXCEPT ![l] = poll],
             page = "rooms", shown' \in -1..MaxChanges, refreshing' \in BOOLEAN,
             error' \in BOOLEAN,
             UNCHANGED <<account, table, truth, keysPage, analytics>>
      PROVE  InductiveInv'
  <2>1. page' = "rooms"
    BY <1>3 DEF account
  <2>2. RoomsOK'
    <3>1. load' \in [Loads -> Polls]
      BY <1>1, <1>3 DEF RoomsOK
    <3>2. QED BY <1>3, <2>1, <3>1 DEF RoomsOK
  <2>3. AccountOK' /\ ServerOK'
    BY <1>1, <1>3 DEF AccountOK, ServerOK, account
  <2>4. KeysOK' /\ AnalyticsOK'
    BY <1>1, <1>3 DEF KeysOK, AnalyticsOK, keysPage, analytics, account
  <2>5. RowsCatchUp' /\ DataOfSettled' /\ NewestRequest'
    BY <1>1, <1>3, <2>1 DEF RowsCatchUp, DataOfSettled, NewestRequest, Key, Pending, analytics
  <2>6. TypeOK'
    BY <1>3, <2>2, <2>3, <2>4, TypeParts
  <2>7. QED BY <2>5, <2>6 DEF InductiveInv
<1>4. CASE RoomsChange
  <2>1. truth' \in 0..MaxChanges
    BY <1>1, <1>4, DashboardAssumption DEF RoomsChange, ServerOK
  <2>2. AccountOK' /\ ServerOK' /\ UNCHANGED pages /\ page' = page
    BY <1>1, <1>4, <2>1 DEF RoomsChange, AccountOK, ServerOK, account
  <2>3. QED BY <2>2, PagesKeep
<1>5. ASSUME NEW l \in Loads, load[l].stage \in {"waiting", "sent", "answer", "refused"}
      PROVE  page = "rooms" /\ load[l] \in Polls
  BY <1>1, <1>2, <1>5 DEF RoomsOK
\* Each of them puts a poll in the place of another.
<1>6. \A l \in Loads, ok \in BOOLEAN : AfterLoad(l, ok) \in Polls
  BY DEF AfterLoad, Polls
<1>7. ASSUME NEW l \in Loads, StartLoad(l)
      PROVE  InductiveInv'
  <2>1. page = "rooms" /\ load[l] \in Polls
    BY <1>1, <1>5, <1>7 DEF StartLoad, RoomsOK
  <2>2. /\ load' = [load EXCEPT ![l] = [load[l] EXCEPT !.stage = "sent"]]
        /\ refreshing' = TRUE
        /\ UNCHANGED <<shown, error, account, table, truth, keysPage, analytics>>
    BY <1>7 DEF StartLoad
  <2>3. [load[l] EXCEPT !.stage = "sent"] \in Polls
    BY <2>1 DEF Polls
  <2>4. QED BY <1>1, <1>3, <2>1, <2>2, <2>3 DEF RoomsOK
<1>8. ASSUME NEW l \in Loads, ServeLoad(l)
      PROVE  InductiveInv'
  <2>1. page = "rooms"
    BY <1>5, <1>8 DEF ServeLoad
  <2>2. /\ \/ load' = [load EXCEPT ![l] = [stage |-> "answer", seen |-> truth]]
           \/ load' = [load EXCEPT ![l] = [stage |-> "refused", seen |-> 0]]
        /\ UNCHANGED <<shown, refreshing, error, account, table, truth, keysPage, analytics>>
    BY <1>8 DEF ServeLoad
  <2>3. [stage |-> "answer", seen |-> truth] \in Polls /\ [stage |-> "refused", seen |-> 0] \in Polls
    BY <1>1, DashboardAssumption DEF Polls, ServerOK
  <2>4. QED BY <1>1, <1>3, <2>1, <2>2, <2>3 DEF RoomsOK
<1>9. ASSUME NEW l \in Loads, Loaded(l)
      PROVE  InductiveInv'
  <2>1. page = "rooms" /\ load[l] \in Polls
    BY <1>5, <1>9 DEF Loaded
  <2>2. /\ load' = [load EXCEPT ![l] = AfterLoad(l, TRUE)] /\ shown' = load[l].seen
        /\ error' = FALSE /\ refreshing' = FALSE
        /\ UNCHANGED <<account, table, truth, keysPage, analytics>>
    BY <1>9 DEF Loaded
  <2>3. shown' \in -1..MaxChanges
    BY <2>1, <2>2, DashboardAssumption DEF Polls
  <2>4. QED BY <1>3, <1>6, <2>1, <2>2, <2>3
<1>10. ASSUME NEW l \in Loads, LoadFails(l)
       PROVE  InductiveInv'
  <2>1. page = "rooms"
    BY <1>5, <1>10 DEF LoadFails
  <2>2. /\ load' = [load EXCEPT ![l] = AfterLoad(l, FALSE)]
        /\ error' = TRUE /\ refreshing' = FALSE
        /\ UNCHANGED <<shown, account, table, truth, keysPage, analytics>>
    BY <1>10 DEF LoadFails
  <2>3. QED BY <1>1, <1>3, <1>6, <2>1, <2>2 DEF RoomsOK
<1>11. QED BY <1>4, <1>7, <1>8, <1>9, <1>10 DEF RoomsStep

(***************************************************************************)
(* Dashboard: the analytics page                                           *)
(***************************************************************************)
LEMMA AnalyticsKeep ==
  ASSUME InductiveInv, AnalyticsStep
  PROVE  InductiveInv'
<1> USE BlankIs
<1>1. /\ AccountOK /\ ServerOK /\ KeysOK /\ RoomsOK /\ AnalyticsOK /\ error \in BOOLEAN
      /\ RowsCatchUp /\ DataOfSettled /\ NewestRequest
  BY TypeParts DEF InductiveInv
\* The other pages are as they were.
<1>2. ASSUME page = "analytics", AnalyticsOK', error' \in BOOLEAN,
             DataOfSettled', NewestRequest',
             UNCHANGED <<account, table, truth, keysPage, roomsPage>>
      PROVE  InductiveInv'
  <2>1. AccountOK' /\ ServerOK' /\ KeysOK' /\ RoomsOK'
    BY <1>1, <1>2 DEF AccountOK, ServerOK, KeysOK, RoomsOK, account, keysPage, roomsPage
  <2>2. RowsCatchUp'
    BY <1>2 DEF RowsCatchUp, account
  <2>3. TypeOK'
    BY <1>2, <2>1, TypeParts
  <2>4. QED BY <1>2, <2>2, <2>3 DEF InductiveInv
<1>3. /\ last \in Nat /\ nonce \in Nat /\ MaxFetches \in Nat
      /\ \A f \in fetches : f[1].id \in Nat /\ f[1].key \in RequestKeys
  BY <1>1, DashboardAssumption DEF AnalyticsOK, Requests
<1>4. ASSUME NEW d \in Ranges, NEW n \in Nat, n <= nonce + 1, Request(d, n)
      PROVE  InductiveInv'
  <2> DEFINE new == <<[id |-> last + 1, key |-> <<d, n>>], "sent">>
  <2>1. /\ page = "analytics" /\ last < MaxFetches
        /\ days' = d /\ nonce' = n /\ last' = last + 1 /\ fetches' = fetches \cup {new}
        /\ UNCHANGED <<data, settled, error, account, table, truth, keysPage, roomsPage>>
    BY <1>4 DEF Request
  <2>2. last' \in 1..MaxFetches /\ nonce' \in 0..MaxFetches /\ nonce' <= last'
    BY <1>1, <1>3, <1>4, <2>1 DEF NewestRequest
  <2>3. /\ new[1] \in Requests /\ new[2] = "sent"
        /\ new[1].id = last' /\ new[1].key = Key'
    BY <2>1, <2>2 DEF Requests, RequestKeys, Key
  <2> HIDE DEF new
  <2>4. AnalyticsOK'
    BY <1>1, <1>4, <2>1, <2>2, <2>3 DEF AnalyticsOK
  <2>5. \A f \in fetches : f[1].id < last'
    BY <1>1, <1>3, <2>1 DEF NewestRequest
  <2>6. NewestRequest'
    <3>1. \A f \in fetches' : f[1].id <= last' /\ (f[1].id = last' => f[1].key = Key')
      BY <1>3, <2>1, <2>2, <2>3, <2>5
    <3>2. \E f \in fetches' : f[1].id = last'
      BY <2>1, <2>3
    <3>3. page' = "analytics"
      BY <2>1 DEF account
    <3>4. QED BY <2>2, <3>1, <3>2, <3>3 DEF NewestRequest
  <2>7. DataOfSettled'
    BY <1>1, <2>1 DEF DataOfSettled, account
  <2>8. QED BY <1>1, <1>2, <2>1, <2>4, <2>6, <2>7
<1>5. CASE Refresh \/ \E d \in Ranges : PickRange(d)
  <2>1. CASE Refresh
    <3>1. days \in Ranges /\ nonce + 1 \in Nat /\ Request(days, nonce + 1)
      BY <1>1, <1>3, <2>1 DEF Refresh, AnalyticsOK
    <3>2. QED BY <1>3, <1>4, <3>1
  <2>2. ASSUME NEW d \in Ranges, PickRange(d)
        PROVE  InductiveInv'
    BY <1>3, <1>4, <2>2 DEF PickRange
  <2>3. QED BY <1>5, <2>1, <2>2
<1>6. ASSUME NEW r \in {f[1] : f \in fetches}
      PROVE  /\ r \in Requests /\ page = "analytics"
             /\ r.id <= last /\ (r.id = last => r.key = Key) /\ r.key \in RequestKeys
             /\ \A stage : <<r, stage>>[1] = r /\ <<r, stage>>[2] = stage
  BY <1>1, <1>3, <1>6 DEF AnalyticsOK, NewestRequest
<1>7. ASSUME NEW r \in {f[1] : f \in fetches}, ServeFetch(r)
      PROVE  InductiveInv'
  <2>1. PICK to \in {"answer", "refused"} :
          fetches' = (fetches \ {<<r, "sent">>}) \cup {<<r, to>>}
    BY <1>7 DEF ServeFetch
  <2>2. UNCHANGED <<days, nonce, last, data, settled, error, account, table, truth,
                    keysPage, roomsPage>>
    BY <1>7 DEF ServeFetch
  <2>3. AnalyticsOK'
    BY <1>1, <1>6, <2>1, <2>2 DEF AnalyticsOK
  <2>4. NewestRequest'
    <3>1. \A f \in fetches' : f[1].id <= last /\ (f[1].id = last => f[1].key = Key)
      BY <1>1, <1>6, <2>1 DEF NewestRequest
    <3>2. (\E f \in fetches : f[1].id = last) => \E f \in fetches' : f[1].id = last
      <4>1. ASSUME NEW f \in fetches, f[1].id = last
            PROVE  \E g \in fetches' : g[1].id = last
        <5>1. CASE f = <<r, "sent">>
          <6>1. r.id = last
            BY <4>1, <5>1
          <6>2. <<r, to>> \in fetches' /\ <<r, to>>[1] = r
            BY <2>1
          <6>3. QED BY <6>1, <6>2
        <5>2. CASE f # <<r, "sent">>
          BY <2>1, <4>1, <5>2
        <5>3. QED BY <5>1, <5>2
      <4>2. QED BY <4>1
    <3>3. Key' = Key /\ page' = page /\ page = "analytics"
      BY <1>6, <2>2 DEF Key, account
    <3>4. QED BY <1>1, <2>2, <3>1, <3>2, <3>3 DEF NewestRequest, Pending
  <2>5. DataOfSettled'
    BY <1>1, <2>2 DEF DataOfSettled, account
  <2>6. QED BY <1>1, <1>2, <1>6, <2>2, <2>3, <2>4, <2>5
\* An answer of the newest request settles what is selected; another is not heeded.
<1>8. ASSUME NEW r \in {f[1] : f \in fetches}, NEW stage, fetches' = fetches \ {<<r, stage>>},
             UNCHANGED <<days, nonce, last, account, table, truth, keysPage, roomsPage>>,
             r.id # last => UNCHANGED <<data, settled, error>>,
             r.id = last => /\ settled' = r.key
                            /\ \/ data' = r.key[1] /\ error' = FALSE
                               \/ data' = data /\ error' = TRUE
      PROVE  InductiveInv'
  <2>1. error' \in BOOLEAN
    BY <1>1, <1>8
  <2>2. AnalyticsOK'
    <3>1. r.key[1] \in Ranges
      BY <1>6 DEF RequestKeys
    <3>2. data' \in Ranges \cup {Nobody} /\ settled' \in RequestKeys \cup {NoKey}
      BY <1>1, <1>6, <1>8, <3>1 DEF AnalyticsOK
    <3>3. QED BY <1>1, <1>8, <3>2 DEF AnalyticsOK
  <2>3. DataOfSettled'
    BY <1>1, <1>8 DEF DataOfSettled, account
  <2>4. NewestRequest'
    <3>1. Key' = Key /\ page' = page /\ page = "analytics"
      BY <1>6, <1>8 DEF Key, account
    <3>2. CASE r.id = last
      BY <1>1, <1>6, <1>8, <3>1, <3>2 DEF NewestRequest, Pending
    <3>3. CASE r.id # last
      <4>1. \A f \in fetches : f[1].id = last => f \in fetches'
        <5>1. ASSUME NEW f \in fetches, f = <<r, stage>>
              PROVE  f[1].id # last
          BY <3>3, <5>1
        <5>2. QED BY <1>8, <5>1
      <4>2. QED BY <1>1, <1>8, <3>1, <3>3, <4>1 DEF NewestRequest, Pending
    <3>4. QED BY <3>2, <3>3
  <2>5. QED BY <1>2, <1>6, <1>8, <2>1, <2>2, <2>3, <2>4
<1>9. ASSUME NEW r \in {f[1] : f \in fetches}, Fetched(r)
      PROVE  InductiveInv'
  BY <1>8, <1>9 DEF Fetched, Heeded
<1>10. ASSUME NEW r \in {f[1] : f \in fetches}, NEW stage, FetchFails(r, stage)
       PROVE  InductiveInv'
  BY <1>8, <1>10 DEF FetchFails, Heeded
<1>11. QED BY <1>5, <1>7, <1>9, <1>10 DEF AnalyticsStep

(***************************************************************************)
(* Dashboard: the theorems                                                 *)
(***************************************************************************)
LEMMA DashboardNext == InductiveInv /\ [Next]_vars => InductiveInv'
<1> SUFFICES ASSUME InductiveInv, [Next]_vars PROVE InductiveInv'
  OBVIOUS
<1>1. CASE Next
  BY <1>1, AccountKeeps, KeysKeep, RoomsKeep, AnalyticsKeep DEF Next
<1>2. CASE UNCHANGED vars
  <2>1. UNCHANGED <<account, table, truth, pages>>
    BY <1>2 DEF vars
  <2>2. AccountOK' /\ ServerOK'
    BY <2>1, TypeParts DEF InductiveInv, AccountOK, ServerOK, account
  <2>3. page' = page
    BY <2>1 DEF account
  <2>4. QED BY <2>1, <2>2, <2>3, PagesKeep
<1>3. QED BY <1>1, <1>2

\* What a page waits for, and whose answers it heeds, agree in every reachable
\* state, however requests pass each other and pages are left and opened.
THEOREM DashboardInductive == Spec => []InductiveInv
<1>1. QED BY DashboardInit, DashboardNext, PTL DEF Spec

\* The types of the dashboard's state; no request of a page outlives its stay.
THEOREM DashboardTypeCorrect == Spec => []TypeOK
<1>1. InductiveInv => TypeOK
  BY DEF InductiveInv
<1>2. QED BY <1>1, DashboardInductive, PTL

\* The effects of the keys and the analytics page: once nothing is under way
\* and no error is shown, they show what they were told and what is selected,
\* and the analytics page never says it is refreshing when nothing is to come.
THEOREM SettledPagesAreCurrent == Spec => []SettledIsCurrent
<1>1. ASSUME InductiveInv
      PROVE  SettledIsCurrent
  <2>1. page = "keys" /\ ~error /\ (\A f \in Flows : chain[f].stage = "none") =>
          Current(rows) \/ overtaken
    BY <1>1 DEF InductiveInv, RowsCatchUp
  <2>2. page = "analytics" /\ ~error /\ ~Pending => data = days
    BY <1>1 DEF InductiveInv, DataOfSettled, Pending, Key
  <2>3. page = "analytics" /\ Pending => \E f \in fetches : f[1].id = last
    BY <1>1 DEF InductiveInv, NewestRequest
  <2>4. QED BY <2>1, <2>2, <2>3 DEF SettledIsCurrent
<1>2. QED BY <1>1, DashboardInductive, PTL
==============================================================================
