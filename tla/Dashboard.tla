-------------------------------- MODULE Dashboard --------------------------------
(***************************************************************************)
(* The dashboard in one browser tab and the server behind it: the session  *)
(* (platformApi.js, auth.js), and three pages that load what they show in  *)
(* three ways: the API keys, reloaded after every change; the rooms,       *)
(* polled; the analytics, one request at a time of which the latest counts.*)
(*                                                                         *)
(* A request is handled by the server at some moment after it was sent,    *)
(* and its answer comes, or fails, at some later one; requests pass each   *)
(* other.                                                                  *)
(***************************************************************************)
EXTENDS Integers, FiniteSets

CONSTANTS
  Keys,        \* the API keys that can be made
  Nobody,      \* null
  Ranges,      \* the ranges of the analytics page, in days
  Default,     \* the one it begins with
  MaxChanges,  \* bound: changes of the rooms
  MaxFetches   \* bound: requests of one analytics page

ASSUME DashboardAssumption ==
  IsFiniteSet(Keys) /\ Keys \cap {"first", "create", Nobody} = {} /\ Default \in Ranges
  /\ MaxChanges \in Nat /\ MaxFetches \in Nat \ {0}

VARIABLES
  session,   \* what the token in localStorage is worth
  page,      \* the page on screen; entering: the layout awaits me()
  leaving,   \* signingOut
  table,     \* server: the rows of api_keys
  truth,     \* server: how often the rooms changed
  \* the keys page
  rows,      \* keys
  error,     \* error, of whichever page is shown
  revoking,  \* revoking
  chain,     \* what initial load, handleCreate and each handleRevoke await
  due,       \* history: what the page has been told of each key
  overtaken, \* history: an answer older than that was adopted last
  \* the rooms page
  shown,     \* rooms: the state of affairs it shows
  load,      \* the load of the timer and the one of the button
  refreshing,
  \* the analytics page
  days, nonce,
  last,      \* the newest request, which no cleanup has cancelled
  fetches,   \* requests the server has not answered, or whose answer is under way
  data,      \* the range whose data is shown
  settled    \* settledKey

account   == <<session, page, leaving>>
keysPage  == <<rows, revoking, chain, due, overtaken>>
roomsPage == <<shown, load, refreshing>>
analytics == <<days, nonce, last, fetches, data, settled>>
pages     == <<keysPage, roomsPage, analytics, error>>
vars      == <<account, table, truth, pages>>

Pages    == {"keys", "rooms", "analytics"}
Statuses == {"none", "active", "revoked"}
Flows    == {"first", "create"} \cup Keys
Loads    == {"timer", "button"}
Blank    == [k \in Keys |-> "none"]
Quiet    == [stage |-> "none", key |-> Nobody, seen |-> Blank]
NoLoad   == [stage |-> "none", seen |-> 0]
NoKey    == <<Nobody, 0>>
RequestKeys == Ranges \X (0..MaxFetches)
Requests == [id : 1..MaxFetches, key : RequestKeys]

TypeOK ==
  /\ session \in {"none", "valid", "worthless"} /\ page \in Pages \cup {"login", "entering"}
  /\ leaving \in BOOLEAN /\ (leaving => page \in Pages)
  /\ table \in [Keys -> Statuses] /\ truth \in 0..MaxChanges
  /\ rows \in [Keys -> Statuses] \cup {Blank} /\ error \in BOOLEAN
  /\ revoking \in Keys \cup {Nobody}
  /\ chain \in [Flows -> [stage : {"none", "sent", "done", "refused", "list", "answer"},
                          key : Keys \cup {Nobody}, seen : [Keys -> Statuses]]]
  /\ due \in [Keys -> Statuses] /\ overtaken \in BOOLEAN
  /\ shown \in -1..MaxChanges /\ refreshing \in BOOLEAN
  /\ load \in [Loads -> [stage : {"none", "waiting", "sent", "answer", "refused"},
                         seen : 0..MaxChanges]]
  /\ days \in Ranges /\ nonce \in 0..MaxFetches /\ last \in 0..MaxFetches
  /\ \A r \in fetches : r[1] \in Requests /\ r[2] \in {"sent", "answer", "refused"}
  /\ data \in Ranges \cup {Nobody} /\ settled \in RequestKeys \cup {NoKey}
  \* Two changes of one key are never under way, and no page outlives its stay.
  /\ \A k \in Keys : chain[k].stage \in {"sent", "done"} => chain[k].key = k
  /\ page # "keys" => chain = [f \in Flows |-> Quiet]
  /\ page # "rooms" => load = [l \in Loads |-> NoLoad]

Init ==
  /\ session = "none" /\ page = "login" /\ leaving = FALSE
  /\ table = Blank /\ truth = 0 /\ error = FALSE
  /\ rows = Blank /\ revoking = Nobody /\ chain = [f \in Flows |-> Quiet]
  /\ due = Blank /\ overtaken = FALSE
  /\ shown = -1 /\ load = [l \in Loads |-> NoLoad] /\ refreshing = FALSE
  /\ days = Default /\ nonce = 0 /\ last = 0 /\ fetches = {} /\ data = Nobody /\ settled = NoKey

(***************************************************************************)
(* Session and navigation                                                  *)
(***************************************************************************)
\* As if a page left its timer and its load behind.
LoadsAt_Uncleared(target) ==
  [l \in Loads |-> IF target = "rooms" /\ l = "timer" THEN [NoLoad EXCEPT !.stage = "sent"]
                   ELSE load[l]]

\* The effect of the rooms page loads at once; its cleanup clears the timer.
LoadsAt(target) ==
  [l \in Loads |-> IF target = "rooms" /\ l = "timer" THEN [NoLoad EXCEPT !.stage = "sent"]
                   ELSE NoLoad]

\* What a page begins with: the keys page lists, the rooms page starts its
\* timer, the analytics page asks for the default range.
Mount(target) ==
  /\ page' = target
  /\ error' = FALSE /\ revoking' = Nobody /\ rows' = Blank /\ overtaken' = FALSE /\ due' = Blank
  /\ chain' = [f \in Flows |-> IF target = "keys" /\ f = "first"
                               THEN [Quiet EXCEPT !.stage = "list"] ELSE Quiet]
  /\ shown' = -1 /\ refreshing' = (target = "rooms")
  /\ load' = LoadsAt(target)
  /\ days' = Default /\ nonce' = 0 /\ data' = Nobody /\ settled' = NoKey
  /\ last' = IF target = "analytics" THEN 1 ELSE 0
  /\ fetches' = IF target = "analytics" THEN {<<[id |-> 1, key |-> <<Default, 0>>], "sent">>} ELSE {}

\* What of a page's unanswered changes the server still carries out when the
\* page is left: taken to have happened by then, or never.
CarriedOut(changes) ==
  table' = [k \in Keys |->
    IF \E f \in changes : chain[f].key = k
    THEN IF table[k] = "none" THEN "active" ELSE "revoked"
    ELSE table[k]]

LeavePage(target) ==
  /\ Mount(target)
  /\ \E changes \in SUBSET {f \in Flows : chain[f].stage = "sent"} :
       /\ changes = {} \/ session = "valid"
       /\ CarriedOut(changes)

\* login(), signup(): the token is stored and the dashboard opened.  The layout
\* renders its page once me() has answered.
SignIn ==
  /\ page = "login" /\ page' = "entering" /\ session' = "valid"
  /\ UNCHANGED <<leaving, table, truth, pages>>

\* The dashboard is opened with whatever token is there.
Visit ==
  /\ page = "login" /\ page' = "entering"
  /\ UNCHANGED <<session, leaving, table, truth, pages>>

\* me() names the account, or fails for whatever reason; the token stays.
Entered(target) ==
  /\ page = "entering"
  /\ \/ session = "valid" /\ Mount(target)
     \/ page' = "login" /\ UNCHANGED pages
  /\ UNCHANGED <<session, leaving, table, truth>>

Navigate(target) ==
  /\ page \in Pages /\ target # page
  /\ LeavePage(target)
  /\ UNCHANGED <<session, leaving, truth>>

\* handleSignOut: the token is forgotten whatever becomes of logout().
SignOut ==
  /\ page \in Pages /\ ~leaving
  /\ leaving' = TRUE
  /\ UNCHANGED <<session, page, table, truth, pages>>

Logout ==
  /\ leaving /\ session = "valid" /\ session' = "worthless"
  /\ UNCHANGED <<page, leaving, table, truth, pages>>

SignedOut ==
  /\ leaving /\ leaving' = FALSE /\ session' = "none"
  /\ LeavePage("login")
  /\ UNCHANGED truth

\* The session expires, thirty days after it was made.
Expire ==
  /\ session = "valid" /\ session' = "worthless"
  /\ UNCHANGED <<page, leaving, table, truth, pages>>

(***************************************************************************)
(* The keys page                                                           *)
(***************************************************************************)
Rank(status) == CASE status = "none" -> 0 [] status = "active" -> 1 [] status = "revoked" -> 2

\* Rows that say of every key at least what the page has been told.
Current(list) == \A k \in Keys : Rank(list[k]) >= Rank(due[k])

CreateKey(k) ==
  /\ page = "keys" /\ chain["create"].stage = "none" /\ table[k] = "none"
  /\ chain' = [chain EXCEPT !["create"] = [Quiet EXCEPT !.stage = "sent", !.key = k]]
  /\ error' = FALSE
  /\ UNCHANGED <<rows, revoking, due, overtaken, account, table, truth, roomsPage, analytics>>

\* The button of a row is disabled while it is the last one pressed.  Bound:
\* one handleRevoke of a key at a time.
RevokeKey(k) ==
  /\ page = "keys" /\ rows[k] = "active" /\ revoking # k /\ chain[k].stage = "none"
  /\ chain' = [chain EXCEPT ![k] = [Quiet EXCEPT !.stage = "sent", !.key = k]]
  /\ error' = FALSE /\ revoking' = k
  /\ UNCHANGED <<rows, due, overtaken, account, table, truth, roomsPage, analytics>>

\* createApiKey, revokeApiKey: a key that was revoked before is not found.
ServeChange(f) ==
  LET k == chain[f].key IN
  /\ chain[f].stage = "sent"
  /\ IF session = "valid" /\ (f = "create" \/ table[k] = "active")
     THEN /\ table' = [table EXCEPT ![k] = IF f = "create" THEN "active" ELSE "revoked"]
          /\ chain' = [chain EXCEPT ![f].stage = "done"]
     ELSE chain' = [chain EXCEPT ![f].stage = "refused"] /\ UNCHANGED table
  /\ UNCHANGED <<rows, revoking, due, overtaken, error, account, truth, roomsPage, analytics>>

\* What the answer to a change tells; a key may have been revoked since it was made.
Told(f) ==
  LET status == IF f = "create" THEN "active" ELSE "revoked"
  IN [due EXCEPT ![chain[f].key] = IF Rank(@) < Rank(status) THEN status ELSE @]

\* As if only handleCreate reloaded the list.
Changed_NoReload(f) ==
  /\ chain[f].stage = "done"
  /\ due' = Told(f)
  /\ chain' = [chain EXCEPT ![f] = IF f = "create" THEN [Quiet EXCEPT !.stage = "list"] ELSE Quiet]
  /\ UNCHANGED <<rows, revoking, overtaken, error, account, table, truth, roomsPage, analytics>>

\* The change is confirmed; refresh() asks for the list.
Changed(f) ==
  /\ chain[f].stage = "done"
  /\ due' = Told(f)
  /\ chain' = [chain EXCEPT ![f] = [Quiet EXCEPT !.stage = "list"]]
  /\ UNCHANGED <<rows, revoking, overtaken, error, account, table, truth, roomsPage, analytics>>

\* listApiKeys
ServeList(f) ==
  /\ chain[f].stage = "list"
  /\ chain' = [chain EXCEPT ![f] = IF session = "valid"
                                   THEN [@ EXCEPT !.stage = "answer", !.seen = table]
                                   ELSE [@ EXCEPT !.stage = "refused"]]
  /\ UNCHANGED <<rows, revoking, due, overtaken, error, account, table, truth,
                 roomsPage, analytics>>

\* The end of handleRevoke re-enables whichever button was pressed last.
Done(f) ==
  /\ chain' = [chain EXCEPT ![f] = Quiet]
  /\ revoking' = IF f \in Keys THEN Nobody ELSE revoking

\* The list is adopted as it comes; only a reload clears the error.
Listed(f) ==
  /\ chain[f].stage = "answer"
  /\ rows' = chain[f].seen /\ overtaken' = ~Current(chain[f].seen)
  /\ error' = IF f = "first" THEN error ELSE FALSE
  /\ Done(f)
  /\ UNCHANGED <<due, account, table, truth, roomsPage, analytics>>

\* Any request of a chain fails, or its answer is lost.
ChainFails(f) ==
  /\ chain[f].stage # "none"
  /\ error' = TRUE
  /\ Done(f)
  /\ UNCHANGED <<rows, due, overtaken, account, table, truth, roomsPage, analytics>>

(***************************************************************************)
(* The rooms page                                                          *)
(***************************************************************************)
\* A participant joins or leaves, a room is made or ended.
RoomsChange ==
  /\ truth < MaxChanges /\ truth' = truth + 1
  /\ UNCHANGED <<account, table, pages>>

\* load(): by the timer, ten seconds after its last one, or by the button.
StartLoad(l) ==
  /\ \/ l = "timer" /\ load[l].stage = "waiting"
     \/ l = "button" /\ page = "rooms" /\ ~refreshing /\ load[l].stage = "none"
  /\ load' = [load EXCEPT ![l].stage = "sent"]
  /\ refreshing' = TRUE
  /\ UNCHANGED <<shown, account, table, truth, keysPage, error, analytics>>

ServeLoad(l) ==
  /\ load[l].stage = "sent"
  /\ load' = [load EXCEPT ![l] = IF session = "valid" THEN [stage |-> "answer", seen |-> truth]
                                 ELSE [stage |-> "refused", seen |-> 0]]
  /\ UNCHANGED <<shown, refreshing, account, table, truth, keysPage, error, analytics>>

\* As if the timer were set again only after an answer.
AfterLoad_Answered(l, ok) ==
  IF l = "timer" /\ ok THEN [NoLoad EXCEPT !.stage = "waiting"] ELSE NoLoad

\* load() never rejects: the timer is set again whatever came of it.
AfterLoad(l, ok) == IF l = "timer" THEN [NoLoad EXCEPT !.stage = "waiting"] ELSE NoLoad

Loaded(l) ==
  /\ load[l].stage = "answer"
  /\ shown' = load[l].seen /\ error' = FALSE /\ refreshing' = FALSE
  /\ load' = [load EXCEPT ![l] = AfterLoad(l, TRUE)]
  /\ UNCHANGED <<account, table, truth, keysPage, analytics>>

LoadFails(l) ==
  /\ load[l].stage \in {"sent", "answer", "refused"}
  /\ error' = TRUE /\ refreshing' = FALSE
  /\ load' = [load EXCEPT ![l] = AfterLoad(l, FALSE)]
  /\ UNCHANGED <<shown, account, table, truth, keysPage, analytics>>

(***************************************************************************)
(* The analytics page                                                      *)
(***************************************************************************)
Key     == <<days, nonce>>
Pending == settled # Key

\* The effect runs for a new range or nonce, and its cleanup cancels the last.
Request(d, n) ==
  /\ page = "analytics" /\ last < MaxFetches
  /\ days' = d /\ nonce' = n /\ last' = last + 1
  /\ fetches' = fetches \cup {<<[id |-> last + 1, key |-> <<d, n>>], "sent">>}
  /\ UNCHANGED <<data, settled, error, account, table, truth, keysPage, roomsPage>>

PickRange(d) == d # days /\ Request(d, nonce)

\* The button, disabled while pending, or the poll of a visible tab, which is not.
Refresh == Request(days, nonce + 1)

ServeFetch(r) ==
  /\ <<r, "sent">> \in fetches
  /\ fetches' = (fetches \ {<<r, "sent">>})
                  \cup {<<r, IF session = "valid" THEN "answer" ELSE "refused">>}
  /\ UNCHANGED <<days, nonce, last, data, settled, error, account, table, truth,
                 keysPage, roomsPage>>

\* As if a request were not cancelled by the next.
Heeded_Any(r) == TRUE

\* Not cancelled.
Heeded(r) == r.id = last

Fetched(r) ==
  /\ <<r, "answer">> \in fetches
  /\ fetches' = fetches \ {<<r, "answer">>}
  /\ IF Heeded(r) THEN data' = r.key[1] /\ settled' = r.key /\ error' = FALSE
     ELSE UNCHANGED <<data, settled, error>>
  /\ UNCHANGED <<days, nonce, last, account, table, truth, keysPage, roomsPage>>

FetchFails(r, stage) ==
  /\ <<r, stage>> \in fetches
  /\ fetches' = fetches \ {<<r, stage>>}
  /\ IF Heeded(r) THEN settled' = r.key /\ error' = TRUE ELSE UNCHANGED <<settled, error>>
  /\ UNCHANGED <<days, nonce, last, data, account, table, truth, keysPage, roomsPage>>

AccountStep ==
  \/ SignIn \/ Visit \/ SignOut \/ Logout \/ SignedOut \/ Expire
  \/ \E target \in Pages : Entered(target) \/ Navigate(target)

KeysStep ==
  \/ \E k \in Keys : CreateKey(k) \/ RevokeKey(k)
  \/ \E f \in Flows : ServeChange(f) \/ Changed(f) \/ ServeList(f) \/ Listed(f) \/ ChainFails(f)

RoomsStep ==
  \/ RoomsChange
  \/ \E l \in Loads : StartLoad(l) \/ ServeLoad(l) \/ Loaded(l) \/ LoadFails(l)

AnalyticsStep ==
  \/ Refresh \/ \E d \in Ranges : PickRange(d)
  \/ \E r \in {f[1] : f \in fetches} :
       \/ ServeFetch(r) \/ Fetched(r)
       \/ \E stage \in {"sent", "answer", "refused"} : FetchFails(r, stage)

Next == AccountStep \/ KeysStep \/ RoomsStep \/ AnalyticsStep

Spec == Init /\ [][Next]_vars

\* The timer runs, the server answers what reaches it, and a network that fails
\* again and again also delivers again and again.
Fairness ==
  /\ WF_vars(StartLoad("timer")) /\ WF_vars(LoadFails("timer")) /\ WF_vars(LoadFails("button"))
  /\ SF_vars(ServeLoad("timer")) /\ SF_vars(Loaded("timer"))

FairSpec == Spec /\ Fairness

(***************************************************************************)
(* Properties                                                              *)
(***************************************************************************)
\* What a page shows once nothing is under way and no error is shown.  The keys
\* page: every change it was told of, unless an older list came after a newer
\* one.  The analytics page: data of the range that is selected; and it says it
\* is refreshing only while its newest request is under way, although ranges are
\* switched, and polls sent, while earlier answers are still to come.
SettledIsCurrent ==
  /\ page = "keys" /\ ~error /\ (\A f \in Flows : chain[f].stage = "none") =>
       Current(rows) \/ overtaken
  /\ page = "analytics" /\ ~error /\ ~Pending => data = days
  /\ page = "analytics" /\ Pending => \E f \in fetches : f[1].id = last

\* The rooms page is polled for ever: while it stays open with a valid session
\* it comes to show the rooms as they are and goes on showing them, although
\* polls fail and a slower answer may overwrite a newer one for a while.
RoomsCatchUp ==
  <>[](page = "rooms" /\ session = "valid") => <>[](shown = truth)

(***************************************************************************)
(* What keeps it true: the inductive invariant.                            *)
(***************************************************************************)
\* Rows that lag behind what the page was told wait for the end of a chain.
RowsCatchUp ==
  page = "keys" /\ ~error /\ ~overtaken /\ ~Current(rows) =>
    \E f \in Flows : chain[f].stage # "none"

\* The data are those of the request that was settled last.
DataOfSettled == page = "analytics" /\ ~error => data = settled[1]

\* The newest request is for what is selected, and under way while it is not
\* settled; none outlives the page.
NewestRequest ==
  /\ fetches # {} => page = "analytics"
  /\ nonce <= last
  /\ \A f \in fetches : f[1].id <= last /\ (f[1].id = last => f[1].key = Key)
  /\ page = "analytics" /\ Pending => \E f \in fetches : f[1].id = last

InductiveInv == TypeOK /\ RowsCatchUp /\ DataOfSettled /\ NewestRequest
=============================================================================
