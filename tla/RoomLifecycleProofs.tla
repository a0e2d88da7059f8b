------------------------ MODULE RoomLifecycleProofs ------------------------
(***************************************************************************)
(* The safety properties of RoomLifecycle, for any number of connections,  *)
(* rooms, records, places and restarts.                                    *)
(*                                                                         *)
(* InductiveInv is shown to hold initially and to be kept by every action, *)
(* one lemma per action and one step per conjunct the action can disturb.  *)
(* The two ends of the handlers that wait (LeaveFinish, CloseFinish) act on *)
(* a record captured before the wait; both rest on RemovalKeeps, which     *)
(* needs only that the captured record is the one the peer is in and the   *)
(* one the map holds for its room, unless the peer is gone (Captured).     *)
(***************************************************************************)
EXTENDS RoomLifecycle, FiniteSetTheorems, TLAPS

LEMMA InitInductive == Init => InductiveInv
<1> SUFFICES ASSUME Init PROVE InductiveInv
  OBVIOUS
<1>1. TypeOK
  BY BoundsAssumption
  DEF Init, TypeOK, SockStates, JoinStates, Refusals, LeaveStates,
      CloseStates, UsageStates
<1>2. FreshRecs
  BY RecsAssumption DEF Init, FreshRecs
<1>3. ConnectionStages
  BY DEF Init, ConnectionStages
<1>4. OneHome /\ Captures /\ Routers
  BY RecsAssumption DEF Init, OneHome, Captures, Routers
<1>5. StillThere /\ RoomsWereCreated /\ DropsRecorded
  BY DEF Init, StillThere, RoomsWereCreated, DropsRecorded
<1>6. UsageSettled /\ PresenceMetered /\ PresenceAgrees /\ EndedStaysGone
  BY RecsAssumption, RoomsAssumption
  DEF Init, UsageSettled, PresenceMetered, PresenceAgrees, EndedStaysGone
<1>7. QED BY <1>1, <1>2, <1>3, <1>4, <1>5, <1>6 DEF InductiveInv

(***************************************************************************)
(* Connections and the heartbeat.                                          *)
(***************************************************************************)
LEMMA ConnectKeeps ==
  ASSUME InductiveInv, NEW s \in Sockets, Connect(s)
  PROVE  InductiveInv'
<1>1. TypeOK'
  BY DEF InductiveInv, TypeOK, SockStates, Connect, disk, heap, tasks
<1>2. ConnectionStages'
  BY DEF InductiveInv, ConnectionStages, Connect, disk, tasks
<1>3. UsageSettled'
  BY DEF InductiveInv, UsageSettled, Connect, disk, tasks
<1>4. PresenceAgrees'
  BY DEF InductiveInv, PresenceAgrees, TypeOK, ConnectionStages, OneHome,
     Connect, heap
<1>5. (FreshRecs /\ OneHome /\ Captures /\ Routers /\ StillThere /\
       RoomsWereCreated /\ PresenceMetered /\ EndedStaysGone /\
       DropsRecorded)'
  BY DEF InductiveInv, FreshRecs, OneHome, Captures, Captured, Routers,
     StillThere, RoomsWereCreated, PresenceMetered, EndedStaysGone,
     DropsRecorded, Connect, disk, heap, tasks
<1>6. QED BY <1>1, <1>2, <1>3, <1>4, <1>5 DEF InductiveInv

LEMMA ClientCloseKeeps ==
  ASSUME InductiveInv, NEW s \in Sockets, ClientClose(s)
  PROVE  InductiveInv'
<1>1. TypeOK'
  BY DEF InductiveInv, TypeOK, SockStates, ClientClose, disk, heap, tasks
<1>2. ConnectionStages'
  BY DEF InductiveInv, ConnectionStages, ClientClose, disk, tasks
<1>3. UsageSettled'
  BY DEF InductiveInv, UsageSettled, ClientClose, disk, tasks
<1>4. PresenceAgrees'
  BY DEF InductiveInv, PresenceAgrees, ClientClose, heap
<1>5. (FreshRecs /\ OneHome /\ Captures /\ Routers /\ StillThere /\
       RoomsWereCreated /\ PresenceMetered /\ EndedStaysGone /\
       DropsRecorded)'
  BY DEF InductiveInv, FreshRecs, OneHome, Captures, Captured, Routers,
     StillThere, RoomsWereCreated, PresenceMetered, EndedStaysGone,
     DropsRecorded, ClientClose, disk, heap, tasks
<1>6. QED BY <1>1, <1>2, <1>3, <1>4, <1>5 DEF InductiveInv

LEMMA VanishKeeps ==
  ASSUME InductiveInv, NEW s \in Sockets, Vanish(s)
  PROVE  InductiveInv'
<1>1. TypeOK'
  BY DEF InductiveInv, TypeOK, Vanish, disk, heap, tasks
<1>2. (FreshRecs /\ ConnectionStages /\ OneHome /\ Captures /\ Routers /\
       StillThere /\ RoomsWereCreated /\ UsageSettled /\ PresenceMetered /\
       PresenceAgrees /\ EndedStaysGone /\ DropsRecorded)'
  BY DEF InductiveInv, FreshRecs, ConnectionStages, OneHome, Captures,
     Captured, Routers, StillThere, RoomsWereCreated, UsageSettled,
     PresenceMetered, PresenceAgrees, EndedStaysGone, DropsRecorded, Vanish,
     disk, heap, tasks
<1>3. QED BY <1>1, <1>2 DEF InductiveInv

LEMMA HeartbeatKeeps ==
  ASSUME InductiveInv, Heartbeat
  PROVE  InductiveInv'
<1>1. TypeOK'
  BY DEF InductiveInv, TypeOK, SockStates, Heartbeat, disk, heap, tasks,
     SweptSock
<1>2. ConnectionStages'
  BY DEF InductiveInv, ConnectionStages, Heartbeat, disk, tasks, SweptSock
<1>3. UsageSettled'
  BY DEF InductiveInv, UsageSettled, Heartbeat, disk, tasks, SweptSock
<1>4. PresenceAgrees'
  BY DEF InductiveInv, PresenceAgrees, TypeOK, Heartbeat, heap, SweptSock
<1>5. (FreshRecs /\ OneHome /\ Captures /\ Routers /\ StillThere /\
       RoomsWereCreated /\ PresenceMetered /\ EndedStaysGone /\
       DropsRecorded)'
  BY DEF InductiveInv, FreshRecs, OneHome, Captures, Captured, Routers,
     StillThere, RoomsWereCreated, PresenceMetered, EndedStaysGone,
     DropsRecorded, Heartbeat, disk, heap, tasks
<1>6. QED BY <1>1, <1>2, <1>3, <1>4, <1>5 DEF InductiveInv

LEMMA PongKeeps ==
  ASSUME InductiveInv, NEW s \in Sockets, Pong(s)
  PROVE  InductiveInv'
<1>1. TypeOK'
  BY DEF InductiveInv, TypeOK, Pong, disk, heap, tasks
<1>2. (FreshRecs /\ ConnectionStages /\ OneHome /\ Captures /\ Routers /\
       StillThere /\ RoomsWereCreated /\ UsageSettled /\ PresenceMetered /\
       PresenceAgrees /\ EndedStaysGone /\ DropsRecorded)'
  BY DEF InductiveInv, FreshRecs, ConnectionStages, OneHome, Captures,
     Captured, Routers, StillThere, RoomsWereCreated, UsageSettled,
     PresenceMetered, PresenceAgrees, EndedStaysGone, DropsRecorded, Pong,
     disk, heap, tasks
<1>3. QED BY <1>1, <1>2 DEF InductiveInv

(***************************************************************************)
(* Room records.                                                           *)
(***************************************************************************)
LEMMA CreateRoomKeeps ==
  ASSUME InductiveInv, NEW r \in Rooms, NEW k \in Recs, CreateRoom(r, k)
  PROVE  InductiveInv'
<1>1. TypeOK'
  BY DEF InductiveInv, TypeOK, CreateRoom, tasks, conn, CreateRecord
<1>2. FreshRecs'
  BY DEF InductiveInv, FreshRecs, CreateRoom, tasks, CreateRecord
<1>3. OneHome'
  BY DEF InductiveInv, OneHome, TypeOK, FreshRecs, CreateRoom, tasks,
     CreateRecord
<1>4. Captures'
  <2>1. registry[r] = NoRec /\ registry' = [registry EXCEPT ![r] = k]
    BY DEF InductiveInv, RoomsWereCreated, TypeOK, CreateRoom, CreateRecord
  <2>2. \A t \in Sockets, j \in Recs : Captured(t, j) => Captured(t, j)'
    BY <2>1, RecsAssumption
    DEF Captured, CreateRoom, tasks, InductiveInv, TypeOK
  <2>3. QED BY <2>2 DEF InductiveInv, Captures, Captured, CreateRoom, tasks
<1>5. Routers'
  BY DEF InductiveInv, Routers, TypeOK, FreshRecs, CreateRoom, tasks,
     CreateRecord
<1>6. RoomsWereCreated'
  BY DEF InductiveInv, RoomsWereCreated, TypeOK, CreateRoom, CreateRecord
<1>7. PresenceMetered'
  BY DEF InductiveInv, PresenceMetered, TypeOK, FreshRecs, CreateRoom,
     CreateRecord
<1>8. EndedStaysGone'
  BY DEF InductiveInv, EndedStaysGone, TypeOK, RoomsWereCreated, CreateRoom,
     CreateRecord
<1>9. (ConnectionStages /\ StillThere /\ UsageSettled /\ PresenceAgrees /\
       DropsRecorded)'
  BY DEF InductiveInv, ConnectionStages, StillThere, UsageSettled,
     PresenceAgrees, DropsRecorded, CreateRoom, tasks, conn
<1>10. QED
  BY <1>1, <1>2, <1>3, <1>4, <1>5, <1>6, <1>7, <1>8, <1>9
  DEF InductiveInv

LEMMA DeleteRoomKeeps ==
  ASSUME InductiveInv, NEW r \in Rooms, DeleteRoom(r)
  PROVE  InductiveInv'
<1>1. TypeOK'
  BY DEF InductiveInv, TypeOK, DeleteRoom, tasks, conn
<1>2. FreshRecs'
  BY RecsAssumption DEF InductiveInv, FreshRecs, TypeOK, DeleteRoom, tasks
<1>3. OneHome'
  BY RecsAssumption
  DEF InductiveInv, OneHome, TypeOK, ConnectionStages, DeleteRoom, tasks
<1>4. Captures'
  BY DEF InductiveInv, Captures, Captured, DeleteRoom, tasks
<1>5. Routers'
  BY RecsAssumption
  DEF InductiveInv, Routers, TypeOK, OneHome, DeleteRoom, tasks
<1>6. StillThere'
  BY DEF InductiveInv, StillThere, TypeOK, OneHome, DeleteRoom, tasks
<1>7. RoomsWereCreated'
  BY DEF InductiveInv, RoomsWereCreated, DeleteRoom
<1>8. PresenceMetered'
  BY RecsAssumption DEF InductiveInv, PresenceMetered, TypeOK, DeleteRoom
<1>9. PresenceAgrees'
  BY DEF InductiveInv, PresenceAgrees, DeleteRoom, conn
<1>10. EndedStaysGone'
  BY DEF InductiveInv, EndedStaysGone, TypeOK, DeleteRoom
<1>11. DropsRecorded'
  BY DEF InductiveInv, DropsRecorded, TypeOK, OneHome, DeleteRoom, tasks
<1>12. (ConnectionStages /\ UsageSettled)'
  BY DEF InductiveInv, ConnectionStages, UsageSettled, DeleteRoom, tasks, conn
<1>13. QED BY <1>1, <1>2, <1>3, <1>4, <1>5, <1>6, <1>7, <1>8, <1>9, <1>10,
    <1>11, <1>12 DEF InductiveInv

(***************************************************************************)
(* meet-join. Finding a room leaves the map with the record it found, which *)
(* was there or is fresh, and never for a room that was ended.             *)
(***************************************************************************)
\* Finding a room never brings back one that was ended.
LEMMA FindRoomEffect ==
  ASSUME InductiveInv, NEW r \in Rooms, NEW k \in Recs, FindRoom(r, k)
  PROVE  /\ used' = used \cup {k}
         /\ registry' = [registry EXCEPT ![r] = k]
         /\ registry[r] = k \/ (registry[r] = NoRec /\ k \notin used)
         /\ created[r] /\ ~ended[r]
<1>1. CASE registry[r] = k
  BY <1>1, RecsAssumption
  DEF FindRoom, CreateRecord, InductiveInv, TypeOK, FreshRecs, EndedStaysGone,
      RoomsWereCreated
<1>2. CASE registry[r] # k
  BY <1>2 DEF FindRoom, CreateRecord, Rehydratable
<1>3. QED BY <1>1, <1>2

LEMMA JoinMissingKeeps ==
  ASSUME InductiveInv, NEW s \in Sockets, NEW r \in Rooms, JoinMissing(s, r)
  PROVE  InductiveInv'
<1>1. TypeOK'
  BY DEF InductiveInv, TypeOK, Refusals, JoinStates, JoinMissing, disk, heap,
     conn, Refuse
<1>2. ConnectionStages'
  BY DEF InductiveInv, ConnectionStages, JoinMissing, disk, conn, Refuse,
     SendsJoin
<1>3. OneHome'
  BY DEF InductiveInv, OneHome, JoinMissing, heap, Refuse, SendsJoin
<1>4. Captures'
  BY DEF InductiveInv, Captures, Captured, JoinMissing, heap, Refuse,
     SendsJoin
<1>5. Routers'
  BY DEF InductiveInv, Routers, JoinMissing, heap, Refuse, SendsJoin
<1>6. StillThere'
  BY DEF InductiveInv, StillThere, JoinMissing, disk, heap, Refuse, SendsJoin
<1>7. DropsRecorded'
  BY DEF InductiveInv, DropsRecorded, JoinMissing, disk, heap, Refuse,
     SendsJoin
<1>8. (FreshRecs /\ RoomsWereCreated /\ UsageSettled /\ PresenceMetered /\
       PresenceAgrees /\ EndedStaysGone)'
  BY DEF InductiveInv, FreshRecs, RoomsWereCreated, UsageSettled,
     PresenceMetered, PresenceAgrees, EndedStaysGone, JoinMissing, disk, heap,
     conn, Refuse
<1>9. QED BY <1>1, <1>2, <1>3, <1>4, <1>5, <1>6, <1>7, <1>8 DEF InductiveInv

LEMMA JoinRefusedKeeps ==
  ASSUME InductiveInv, NEW s \in Sockets, NEW r \in Rooms, NEW k \in Recs,
         JoinRefused(s, r, k)
  PROVE  InductiveInv'
<1>1. /\ used' = used \cup {k}
      /\ registry' = [registry EXCEPT ![r] = k]
      /\ registry[r] = k \/ (registry[r] = NoRec /\ k \notin used)
      /\ created[r] /\ ~ended[r]
  BY FindRoomEffect DEF JoinRefused
<1>2. /\ join[s] = "no" /\ sock[s] = "open"
      /\ join' = [join EXCEPT ![s] = "refused"]
      /\ refusal' \in [Sockets -> Refusals]
      /\ target' = [target EXCEPT ![s] = r]
  <2>1. join[s] = "no" /\ sock[s] = "open"
    BY DEF JoinRefused, SendsJoin
  <2>2. Refuse(s, r, "full") \/ Refuse(s, r, "token")
    BY DEF JoinRefused
  <2>3. /\ join' = [join EXCEPT ![s] = "refused"] /\ target' = [target EXCEPT ![s] = r]
        /\ \/ refusal' = [refusal EXCEPT ![s] = "full"]
           \/ refusal' = [refusal EXCEPT ![s] = "token"]
    BY <2>2 DEF Refuse
  <2>4. "full" \in Refusals /\ "token" \in Refusals /\ refusal \in [Sockets -> Refusals]
    BY DEF Refusals, InductiveInv, TypeOK
  <2>5. QED BY <2>1, <2>3, <2>4
<1>3. UNCHANGED <<conn, leave, close, joinRec, leaveRec, closeRec, knows,
                 members, router, openRouters, disk, restarts>>
  BY DEF JoinRefused
<1>4. TypeOK'
  BY <1>1, <1>2, <1>3 DEF InductiveInv, TypeOK, conn, disk, JoinStates
<1>5. FreshRecs'
  BY <1>1, <1>2, <1>3 DEF InductiveInv, FreshRecs, TypeOK
<1>6. ConnectionStages'
  BY <1>1, <1>2, <1>3 DEF InductiveInv, ConnectionStages, TypeOK, conn, disk
<1>7. OneHome'
  BY <1>1, <1>2, <1>3, RecsAssumption
  DEF InductiveInv, OneHome, TypeOK, FreshRecs, ConnectionStages
<1>8. Captures'
  BY <1>1, <1>2, <1>3, RecsAssumption
  DEF InductiveInv, Captures, Captured, TypeOK, FreshRecs, ConnectionStages,
      OneHome
<1>9. Routers'
  BY <1>1, <1>2, <1>3, SocketsAssumption
  DEF InductiveInv, Routers, TypeOK, FreshRecs
<1>10. StillThere'
  BY <1>1, <1>2, <1>3 DEF InductiveInv, StillThere, TypeOK, disk
<1>11. RoomsWereCreated'
  BY <1>1, <1>3 DEF InductiveInv, RoomsWereCreated, TypeOK, disk
<1>12. (UsageSettled /\ PresenceAgrees)'
  BY <1>3 DEF InductiveInv, UsageSettled, PresenceAgrees, conn, disk
<1>13. PresenceMetered'
  BY <1>1, <1>2, <1>3 DEF InductiveInv, PresenceMetered, TypeOK, FreshRecs, disk
<1>14. EndedStaysGone'
  BY <1>1, <1>3 DEF InductiveInv, EndedStaysGone, TypeOK, disk
<1>15. DropsRecorded'
  BY <1>2, <1>3 DEF InductiveInv, DropsRecorded, TypeOK, disk
<1>16. QED
  BY <1>4, <1>5, <1>6, <1>7, <1>8, <1>9, <1>10, <1>11, <1>12, <1>13, <1>14,
     <1>15
  DEF InductiveInv

LEMMA JoinRouteKeeps ==
  ASSUME InductiveInv, NEW s \in Sockets, NEW r \in Rooms, NEW k \in Recs,
         JoinRoute(s, r, k)
  PROVE  InductiveInv'
<1>1. /\ used' = used \cup {k}
      /\ registry' = [registry EXCEPT ![r] = k]
      /\ registry[r] = k \/ (registry[r] = NoRec /\ k \notin used)
      /\ created[r] /\ ~ended[r]
  BY FindRoomEffect DEF JoinRoute
<1>2. /\ join[s] = "no" /\ sock[s] = "open"
      /\ join' = [join EXCEPT ![s] = "routing"]
      /\ joinRec' = [joinRec EXCEPT ![s] = k]
      /\ target' = [target EXCEPT ![s] = r]
  BY DEF JoinRoute, SendsJoin
<1>3. UNCHANGED <<conn, refusal, leave, close, leaveRec, closeRec, knows,
                 members, router, openRouters, disk, restarts>>
  BY DEF JoinRoute
<1>4. TypeOK'
  BY <1>1, <1>2, <1>3 DEF InductiveInv, TypeOK, conn, disk, JoinStates
<1>5. FreshRecs'
  BY <1>1, <1>2, <1>3 DEF InductiveInv, FreshRecs, TypeOK
<1>6. ConnectionStages'
  BY <1>1, <1>2, <1>3 DEF InductiveInv, ConnectionStages, TypeOK, conn, disk
<1>7. OneHome'
  BY <1>1, <1>2, <1>3, RecsAssumption
  DEF InductiveInv, OneHome, TypeOK, FreshRecs, ConnectionStages
<1>8. Captures'
  BY <1>1, <1>2, <1>3, RecsAssumption
  DEF InductiveInv, Captures, Captured, TypeOK, FreshRecs, ConnectionStages,
      OneHome
<1>9. Routers'
  BY <1>1, <1>2, <1>3, SocketsAssumption
  DEF InductiveInv, Routers, TypeOK, FreshRecs
<1>10. StillThere'
  BY <1>1, <1>2, <1>3 DEF InductiveInv, StillThere, TypeOK, disk
<1>11. RoomsWereCreated'
  BY <1>1, <1>3 DEF InductiveInv, RoomsWereCreated, TypeOK, disk
<1>12. (UsageSettled /\ PresenceAgrees)'
  BY <1>3 DEF InductiveInv, UsageSettled, PresenceAgrees, conn, disk
<1>13. PresenceMetered'
  BY <1>1, <1>2, <1>3 DEF InductiveInv, PresenceMetered, TypeOK, FreshRecs, disk
<1>14. EndedStaysGone'
  BY <1>1, <1>3 DEF InductiveInv, EndedStaysGone, TypeOK, disk
<1>15. DropsRecorded'
  BY <1>2, <1>3 DEF InductiveInv, DropsRecorded, TypeOK, disk
<1>16. QED
  BY <1>4, <1>5, <1>6, <1>7, <1>8, <1>9, <1>10, <1>11, <1>12, <1>13, <1>14,
     <1>15
  DEF InductiveInv

LEMMA JoinAtOnceKeeps ==
  ASSUME InductiveInv, NEW s \in Sockets, NEW r \in Rooms, NEW k \in Recs,
         JoinAtOnce(s, r, k)
  PROVE  InductiveInv'
<1>1. TypeOK'
  <2>1. /\ used' = used \cup {k} /\ registry' = [registry EXCEPT ![r] = k]
        /\ target' = [target EXCEPT ![s] = r]
        /\ members' = [members EXCEPT ![k] = @ \cup {s}]
        /\ join' = [join EXCEPT ![s] = "joined"]
    BY FindRoomEffect DEF JoinAtOnce, Admit
  <2>2. usage' \in [Sockets -> UsageStates]
    BY DEF InductiveInv, TypeOK, UsageStates, JoinAtOnce, Admit, UsageAfterJoin
  <2>3. knows' \in [Sockets -> SUBSET Sockets]
    BY DEF InductiveInv, TypeOK, JoinAtOnce, Admit, KnowsAfterJoin
  <2>4. /\ target' \in [Sockets -> Rooms \cup {NoRoom}] /\ join' \in [Sockets -> JoinStates]
        /\ registry' \in [Rooms -> Recs \cup {NoRec}] /\ used' \subseteq Recs
        /\ members' \in [Recs -> SUBSET Sockets]
    BY <2>1 DEF InductiveInv, TypeOK, JoinStates
  <2>5. /\ UNCHANGED <<sock, reachable, isAlive, refusal, leave, close>>
        /\ UNCHANGED <<joinRec, leaveRec, closeRec, router, openRouters>>
        /\ UNCHANGED <<created, ended, dropped, restarts>>
    BY DEF JoinAtOnce, conn
  <2>6. QED BY <2>2, <2>3, <2>4, <2>5 DEF InductiveInv, TypeOK
<1>2. FreshRecs'
  BY DEF InductiveInv, FreshRecs, JoinAtOnce, Admit, FindRoom, CreateRecord
<1>3. ConnectionStages'
  BY DEF InductiveInv, ConnectionStages, TypeOK, JoinAtOnce, conn, Admit,
     UsageAfterJoin, SendsJoin
<1>4. OneHome'
  BY RecsAssumption
  DEF InductiveInv, OneHome, TypeOK, FreshRecs, JoinAtOnce, Admit, FindRoom,
      CreateRecord, SendsJoin
<1>5. Captures'
  BY RecsAssumption
  DEF InductiveInv, Captures, Captured, TypeOK, ConnectionStages, JoinAtOnce,
      Admit, FindRoom, CreateRecord, SendsJoin
<1>6. Routers'
  BY DEF InductiveInv, Routers, TypeOK, FreshRecs, JoinAtOnce, Admit,
     FindRoom, CreateRecord
<1>7. StillThere'
  BY DEF InductiveInv, StillThere, TypeOK, JoinAtOnce, Admit
<1>8. RoomsWereCreated'
  BY FindRoomEffect DEF InductiveInv, RoomsWereCreated, TypeOK, JoinAtOnce
<1>9. UsageSettled'
  BY DEF InductiveInv, UsageSettled, JoinAtOnce, conn, Admit, UsageAfterJoin,
     SendsJoin
<1>10. PresenceMetered'
  BY RoomsAssumption, RecsAssumption
  DEF InductiveInv, PresenceMetered, TypeOK, OneHome, FreshRecs, JoinAtOnce,
      Admit, UsageAfterJoin, FindRoom, CreateRecord
<1>11. PresenceAgrees'
  BY DEF InductiveInv, PresenceAgrees, TypeOK, OneHome, JoinAtOnce, conn,
     Admit, KnowsAfterJoin, SendsJoin
<1>12. EndedStaysGone'
  BY DEF InductiveInv, EndedStaysGone, TypeOK, JoinAtOnce, FindRoom,
     CreateRecord, Rehydratable
<1>13. DropsRecorded'
  BY DEF InductiveInv, DropsRecorded, TypeOK, JoinAtOnce, Admit
<1>14. QED BY <1>1, <1>2, <1>3, <1>4, <1>5, <1>6, <1>7, <1>8, <1>9, <1>10,
    <1>11, <1>12, <1>13 DEF InductiveInv

LEMMA JoinResumeKeeps ==
  ASSUME InductiveInv, NEW s \in Sockets, JoinResume(s)
  PROVE  InductiveInv'
<1>1. TypeOK'
  BY DEF InductiveInv, TypeOK, UsageStates, JoinStates, ConnectionStages,
     JoinResume, conn, Admit, KnowsAfterJoin, UsageAfterJoin
<1>2. FreshRecs'
  BY RecsAssumption DEF InductiveInv, FreshRecs, TypeOK, JoinResume, Admit
<1>3. ConnectionStages'
  BY DEF InductiveInv, ConnectionStages, TypeOK, JoinResume, conn, Admit,
     UsageAfterJoin
<1>4. OneHome'
  BY DEF InductiveInv, OneHome, TypeOK, JoinResume, Admit
<1>5. Captures'
  BY DEF InductiveInv, Captures, Captured, JoinResume, Admit
<1>6. Routers'
  BY SocketsAssumption DEF InductiveInv, Routers, TypeOK, JoinResume, Admit
<1>7. StillThere'
  BY DEF InductiveInv, StillThere, TypeOK, ConnectionStages, JoinResume, Admit
<1>8. UsageSettled'
  BY DEF InductiveInv, UsageSettled, TypeOK, SockStates, ConnectionStages,
     JoinResume, conn, Admit, UsageAfterJoin
<1>9. PresenceMetered'
  BY RoomsAssumption
  DEF InductiveInv, PresenceMetered, TypeOK, OneHome, JoinResume, Admit,
      UsageAfterJoin
<1>10. PresenceAgrees'
  BY DEF InductiveInv, PresenceAgrees, TypeOK, ConnectionStages, OneHome,
     JoinResume, conn, Admit, KnowsAfterJoin
<1>11. DropsRecorded'
  BY DEF InductiveInv, DropsRecorded, TypeOK, ConnectionStages, JoinResume,
     Admit
<1>12. (RoomsWereCreated /\ EndedStaysGone)'
  BY DEF InductiveInv, RoomsWereCreated, EndedStaysGone, JoinResume, conn,
     Admit
<1>13. QED BY <1>1, <1>2, <1>3, <1>4, <1>5, <1>6, <1>7, <1>8, <1>9, <1>10,
    <1>11, <1>12 DEF InductiveInv

LEMMA JoinRouterFailsKeeps ==
  ASSUME InductiveInv, NEW s \in Sockets, JoinRouterFails(s)
  PROVE  InductiveInv'
<1>1. TypeOK'
  BY DEF InductiveInv, TypeOK, Refusals, JoinStates, JoinRouterFails, disk,
     heap, conn, Refuse
<1>2. FreshRecs'
  BY RecsAssumption DEF InductiveInv, FreshRecs, TypeOK, JoinRouterFails, heap
<1>3. ConnectionStages'
  BY DEF InductiveInv, ConnectionStages, TypeOK, JoinRouterFails, disk, conn,
     Refuse
<1>4. OneHome'
  BY DEF InductiveInv, OneHome, TypeOK, JoinRouterFails, heap, Refuse
<1>5. Captures'
  BY DEF InductiveInv, Captures, Captured, JoinRouterFails, heap, Refuse
<1>6. Routers'
  BY DEF InductiveInv, Routers, JoinRouterFails, heap, Refuse
<1>7. StillThere'
  BY DEF InductiveInv, StillThere, JoinRouterFails, disk, heap, Refuse
<1>8. DropsRecorded'
  BY DEF InductiveInv, DropsRecorded, JoinRouterFails, disk, heap, Refuse
<1>9. (RoomsWereCreated /\ UsageSettled /\ PresenceMetered /\
       PresenceAgrees /\ EndedStaysGone)'
  BY DEF InductiveInv, RoomsWereCreated, UsageSettled, PresenceMetered,
     PresenceAgrees, EndedStaysGone, JoinRouterFails, disk, heap, conn, Refuse
<1>10. QED
  BY <1>1, <1>2, <1>3, <1>4, <1>5, <1>6, <1>7, <1>8, <1>9
  DEF InductiveInv

(***************************************************************************)
(* meet-leave and the close handler. What removePeer does for a peer whose *)
(* record was captured, and what the rest of the invariant sees of it.     *)
(***************************************************************************)
\* A peer removed from its captured record is removed from that record only,
\* and the room goes if and only if it was the last one.
LEMMA RemovalEffect ==
  ASSUME InductiveInv, NEW s \in Sockets, NEW k \in Recs, Captured(s, k),
         RemovePeer(s, k)
  PROVE  /\ members' = [members EXCEPT ![k] = @ \ {s}]
         /\ \/ UNCHANGED <<registry, openRouters>>
            \/ /\ members[k] = {s} /\ registry[target[s]] = k
               /\ target[s] \in Rooms
               /\ registry' = [registry EXCEPT ![target[s]] = NoRec]
               /\ openRouters' = openRouters \ {router[k]}
<1>0. target[s] \in Rooms /\ k # NoRec /\ members[k] \in SUBSET Sockets
  BY RecsAssumption DEF InductiveInv, TypeOK, ConnectionStages, Captured
<1>1. CASE s \in members[k]
  BY <1>0, <1>1 DEF RemovePeer, IsPeer, Captured
<1>2. CASE s \notin members[k]
  BY <1>0, <1>2 DEF RemovePeer, IsPeer, InductiveInv, TypeOK
<1>3. QED BY <1>1, <1>2

\* What everybody else sees of the departure of s.
Released(s) ==
  /\ usage' \in [Sockets -> UsageStates] /\ usage'[s] # "open"
  /\ \A t \in Sockets \ {s} : usage'[t] = usage[t]
  /\ registry' \in [Rooms -> Recs \cup {NoRec}]
  /\ openRouters' \subseteq Sockets
  /\ members' \in [Recs -> SUBSET Sockets]
  /\ knows' \in [Sockets -> SUBSET Sockets]
  /\ \A j \in Recs \ used' :
       members'[j] = {} /\ router'[j] = NoSocket /\ \A r \in Rooms : registry'[r] # j
  /\ \A t \in Sockets, j \in Recs : Captured(t, j) => Captured(t, j)'
  /\ \A t \in Sockets \ {s}, j \in Recs : t \in members'[j] <=> t \in members[j]

\* The part of the invariant that the departure of a captured peer keeps
\* whichever handler it is the end of.
LEMMA RemovalKeeps ==
  ASSUME InductiveInv, NEW s \in Sockets, NEW k \in Recs, Captured(s, k),
         Depart(s, k),
         UNCHANGED <<join, target, joinRec, sock>>
  PROVE  /\ OneHome' /\ Routers' /\ RoomsWereCreated'
         /\ PresenceMetered' /\ PresenceAgrees' /\ EndedStaysGone'
         /\ Released(s)
<1>1. /\ members' = [members EXCEPT ![k] = @ \ {s}]
      /\ \/ UNCHANGED <<registry, openRouters>>
         \/ /\ members[k] = {s} /\ registry[target[s]] = k
            /\ target[s] \in Rooms
            /\ registry' = [registry EXCEPT ![target[s]] = NoRec]
            /\ openRouters' = openRouters \ {router[k]}
  BY RemovalEffect DEF Depart
<1>2. UNCHANGED <<used, router, created, ended, restarts, join, target, joinRec, sock>>
  BY DEF Depart
<1>3. /\ usage' \in [Sockets -> UsageStates] /\ usage'[s] # "open"
      /\ \A t \in Sockets \ {s} : usage'[t] = usage[t]
  BY DEF Depart, UsageAfterClose, InductiveInv, TypeOK, UsageStates
<1>4. /\ registry' \in [Rooms -> Recs \cup {NoRec}] /\ openRouters' \subseteq Sockets
      /\ members' \in [Recs -> SUBSET Sockets]
  BY <1>1 DEF InductiveInv, TypeOK
<1>5. knows' \in [Sockets -> SUBSET Sockets]
  BY DEF Depart, KnowsAfterLeave, InductiveInv, TypeOK
<1>6. \A t \in Sockets \ {s}, j \in Recs : t \in members'[j] <=> t \in members[j]
  BY <1>1 DEF InductiveInv, TypeOK
<1>7. \A j \in Recs : members'[j] \subseteq members[j]
  BY <1>1 DEF InductiveInv, TypeOK
<1>a. \A r \in Rooms : registry'[r] = registry[r] \/ registry'[r] = NoRec
  BY <1>1 DEF InductiveInv, TypeOK
<1>8. OneHome'
  <2>1. \A t \in Sockets, j \in Recs : t \in members'[j] => join'[t] = "joined"
    BY <1>2, <1>7 DEF InductiveInv, OneHome
  <2>2. \A t \in Sockets, i, j \in Recs : t \in members'[i] /\ t \in members'[j] => i = j
    BY <1>7 DEF InductiveInv, OneHome
  <2>3. \A q, r \in Rooms : registry'[q] = registry'[r] /\ registry'[r] # NoRec => q = r
    BY <1>a DEF InductiveInv, OneHome
  <2>4. \A t \in Sockets, r \in Rooms :
          registry'[r] \in Recs /\ t \in members'[registry'[r]] => target'[t] = r
    BY <1>2, <1>7, <1>a, RecsAssumption DEF InductiveInv, OneHome
  <2>5. \A t \in Sockets, r \in Rooms :
          join'[t] = "routing" /\ registry'[r] = joinRec'[t] => target'[t] = r
    BY <1>2, <1>a, RecsAssumption DEF InductiveInv, OneHome, ConnectionStages
  <2>6. QED BY <2>1, <2>2, <2>3, <2>4, <2>5 DEF OneHome
<1>9. Routers'
  <2>1. \A j \in Recs : router'[j] # NoSocket => join'[router'[j]] = "joined"
    BY <1>2 DEF InductiveInv, Routers
  <2>2. \A i, j \in Recs : router'[i] = router'[j] /\ router'[j] # NoSocket => i = j
    BY <1>2 DEF InductiveInv, Routers
  <2>3. \A j \in Recs : members'[j] # {} => router'[j] # NoSocket
    BY <1>2, <1>7 DEF InductiveInv, Routers
  <2>4. \A r \in Rooms :
          registry'[r] \in Recs /\ router'[registry'[r]] # NoSocket =>
            router'[registry'[r]] \in openRouters'
    <3>1. SUFFICES ASSUME NEW r \in Rooms, registry'[r] \in Recs,
                          router[registry'[r]] # NoSocket
                   PROVE  router[registry'[r]] \in openRouters'
      BY <1>2
    <3>2. registry'[r] = registry[r]
      BY <1>a, <3>1, RecsAssumption
    <3>3. router[registry[r]] \in openRouters
      BY <3>1, <3>2 DEF InductiveInv, Routers
    <3>4. CASE UNCHANGED openRouters
      BY <3>2, <3>3, <3>4
    <3>5. CASE /\ registry' = [registry EXCEPT ![target[s]] = NoRec]
               /\ registry[target[s]] = k /\ target[s] \in Rooms
               /\ openRouters' = openRouters \ {router[k]}
      <4>1. registry[r] # k
        BY <3>1, <3>2, <3>5, RecsAssumption DEF InductiveInv, TypeOK, OneHome
      <4>2. router[registry[r]] # router[k]
        BY <3>1, <3>2, <4>1 DEF InductiveInv, Routers
      <4>3. QED BY <3>2, <3>3, <3>5, <4>2
    <3>6. QED BY <1>1, <3>4, <3>5
  <2>5. QED BY <2>1, <2>2, <2>3, <2>4 DEF Routers
<1>10. RoomsWereCreated'
  BY <1>a, <1>2 DEF InductiveInv, RoomsWereCreated
<1>11. PresenceMetered'
  <2>1. SUFFICES ASSUME NEW r \in Owned, registry'[r] \in Recs,
                        NEW t \in members'[registry'[r]]
                 PROVE  usage'[t] = "open"
    BY DEF PresenceMetered
  <2>2. registry'[r] = registry[r] /\ r \in Rooms /\ t \in Sockets
    BY <1>1, <1>4, <2>1, RoomsAssumption, RecsAssumption
    DEF InductiveInv, TypeOK
  <2>3. t \in members[registry[r]] /\ usage[t] = "open"
    BY <1>7, <2>1, <2>2 DEF InductiveInv, PresenceMetered
  <2>4. t # s
    <3>1. SUFFICES ASSUME t = s PROVE FALSE
      OBVIOUS
    <3>2. s \notin members'[k]
      BY <1>1 DEF InductiveInv, TypeOK
    <3>3. registry[r] = k
      BY <2>1, <2>2, <2>3, <3>1 DEF Captured
    <3>4. QED
      BY <2>1, <2>2, <3>1, <3>2, <3>3
  <2>5. QED BY <1>3, <2>2, <2>3, <2>4
<1>12. PresenceAgrees'
  <2>1. SUFFICES ASSUME NEW j \in Recs, NEW t \in members'[j], sock[t] = "open"
                 PROVE  knows'[t] = members'[j] \ {t}
    BY <1>2 DEF PresenceAgrees
  <2>2. t \in members[j] /\ t \in Sockets /\ knows[t] = members[j] \ {t}
    BY <1>4, <1>7, <2>1 DEF InductiveInv, PresenceAgrees
  <2>3. knows'[t] = KnowsAfterLeave(s, k, t)
    BY <2>2 DEF Depart
  <2>4. CASE j = k
    BY <1>1, <2>1, <2>2, <2>3, <2>4, RecsAssumption
    DEF KnowsAfterLeave, InductiveInv, TypeOK
  <2>5. CASE j # k
    <3>1. t \notin members[k]
      BY <2>2, <2>5 DEF InductiveInv, OneHome
    <3>2. QED
      BY <1>1, <2>2, <2>3, <2>5, <3>1 DEF KnowsAfterLeave, InductiveInv, TypeOK
  <2>6. QED BY <2>4, <2>5
<1>13. EndedStaysGone'
  BY <1>1, <1>2 DEF InductiveInv, EndedStaysGone, TypeOK
<1>14. \A j \in Recs \ used' :
         members'[j] = {} /\ router'[j] = NoSocket /\ \A r \in Rooms : registry'[r] # j
  BY <1>1, <1>2, <1>7, RecsAssumption DEF InductiveInv, FreshRecs, TypeOK
<1>15. \A t \in Sockets, j \in Recs : Captured(t, j) => Captured(t, j)'
  <2>1. SUFFICES ASSUME NEW t \in Sockets, NEW j \in Recs, Captured(t, j),
                        NEW i \in Recs, t \in members'[i]
                 PROVE  i = j /\ registry'[target[t]] = j
    BY <1>2 DEF Captured
  <2>2. /\ i = j /\ t \in members[j]
        /\ registry[target[t]] = j /\ target[t] \in Rooms
    BY <1>7, <2>1 DEF Captured, InductiveInv, ConnectionStages
  <2>3. CASE UNCHANGED registry
    BY <2>2, <2>3
  <2>4. CASE members[k] = {s} /\ registry[target[s]] = k
    <3>1. j # k
      BY <1>1, <2>1, <2>2, <2>4 DEF InductiveInv, TypeOK
    <3>2. QED
      BY <1>1, <2>2, <2>4, <3>1 DEF InductiveInv, TypeOK
  <2>5. QED BY <1>1, <2>3, <2>4
<1>16. QED
  BY <1>3, <1>4, <1>5, <1>6, <1>8, <1>9, <1>10, <1>11, <1>12, <1>13, <1>14,
     <1>15
  DEF Released

LEMMA LeaveMeasureKeeps ==
  ASSUME InductiveInv, NEW s \in Sockets, LeaveMeasure(s)
  PROVE  InductiveInv'
<1>1. TypeOK'
  BY DEF InductiveInv, TypeOK, LeaveStates, ConnectionStages, LeaveMeasure,
     disk, heap, conn, CurrentRoom
<1>2. FreshRecs'
  BY DEF InductiveInv, FreshRecs, LeaveMeasure, heap, IsPeer
<1>3. Captures'
  BY DEF InductiveInv, Captures, Captured, TypeOK, OneHome, ConnectionStages,
     LeaveMeasure, heap, CurrentRoom, IsPeer
<1>4. StillThere'
  BY DEF InductiveInv, StillThere, LeaveMeasure, disk, heap, SendsLeave
<1>5. DropsRecorded'
  BY DEF InductiveInv, DropsRecorded, LeaveMeasure, disk, heap
<1>6. (ConnectionStages /\ OneHome /\ Routers /\ RoomsWereCreated /\
       UsageSettled /\ PresenceMetered /\ PresenceAgrees /\ EndedStaysGone)'
  BY DEF InductiveInv, ConnectionStages, OneHome, Routers, RoomsWereCreated,
     UsageSettled, PresenceMetered, PresenceAgrees, EndedStaysGone,
     LeaveMeasure, disk, heap, conn
<1>7. QED BY <1>1, <1>2, <1>3, <1>4, <1>5, <1>6 DEF InductiveInv

LEMMA LeaveAtOnceKeeps ==
  ASSUME InductiveInv, NEW s \in Sockets, LeaveAtOnce(s)
  PROVE  InductiveInv'
<1>1. TypeOK'
  BY DEF InductiveInv, TypeOK, UsageStates, LeaveStates, LeaveAtOnce, conn,
     Depart, KnowsAfterLeave, RemovePeer, UsageAfterClose
<1>2. FreshRecs'
  BY DEF InductiveInv, FreshRecs, LeaveAtOnce, Depart, RemovePeer
<1>3. ConnectionStages'
  BY DEF InductiveInv, ConnectionStages, LeaveAtOnce, conn, Depart,
     UsageAfterClose
<1>4. OneHome'
  BY DEF InductiveInv, OneHome, LeaveAtOnce, Depart, RemovePeer
<1>5. Captures'
  BY DEF InductiveInv, Captures, Captured, LeaveAtOnce, Depart, RemovePeer
<1>6. Routers'
  BY DEF InductiveInv, Routers, LeaveAtOnce, Depart, RemovePeer
<1>7. StillThere'
  BY DEF InductiveInv, StillThere, LeaveAtOnce, Depart, RemovePeer
<1>8. RoomsWereCreated'
  BY DEF InductiveInv, RoomsWereCreated, TypeOK, LeaveAtOnce, Depart,
     RemovePeer
<1>9. UsageSettled'
  BY DEF InductiveInv, UsageSettled, LeaveAtOnce, conn, Depart,
     UsageAfterClose
<1>10. PresenceMetered'
  BY RoomsAssumption, RecsAssumption
  DEF InductiveInv, PresenceMetered, TypeOK, OneHome, LeaveAtOnce,
      CurrentRoom, Depart, RemovePeer, IsPeer, UsageAfterClose
<1>11. PresenceAgrees'
  BY DEF InductiveInv, PresenceAgrees, TypeOK, ConnectionStages, LeaveAtOnce,
     conn, CurrentRoom, Depart, KnowsAfterLeave, RemovePeer, IsPeer
<1>12. EndedStaysGone'
  BY DEF InductiveInv, EndedStaysGone, LeaveAtOnce, Depart, RemovePeer
<1>13. DropsRecorded'
  BY DEF InductiveInv, DropsRecorded, LeaveAtOnce, Depart, RemovePeer
<1>14. QED BY <1>1, <1>2, <1>3, <1>4, <1>5, <1>6, <1>7, <1>8, <1>9, <1>10,
    <1>11, <1>12, <1>13 DEF InductiveInv

LEMMA LeaveFinishKeeps ==
  ASSUME InductiveInv, NEW s \in Sockets, LeaveFinish(s)
  PROVE  InductiveInv'
<1>1. PICK k \in Recs : k = leaveRec[s] /\ Captured(s, k)
  BY DEF LeaveFinish, InductiveInv, Captures, Captured
<1>2. /\ Depart(s, k)
      /\ leave' = [leave EXCEPT ![s] = "done"]
      /\ leaveRec' = [leaveRec EXCEPT ![s] = NoRec]
      /\ UNCHANGED <<conn, target, join, refusal, close, joinRec, closeRec, dropped>>
  BY <1>1 DEF LeaveFinish
<1>3. UNCHANGED <<used, router, created, ended, restarts>>
  BY <1>2 DEF Depart
<1>4. /\ OneHome' /\ Routers' /\ RoomsWereCreated'
      /\ PresenceMetered' /\ PresenceAgrees' /\ EndedStaysGone'
      /\ Released(s)
  BY <1>1, <1>2, RemovalKeeps DEF conn
<1>5. TypeOK'
  BY <1>2, <1>3, <1>4 DEF Released, InductiveInv, TypeOK, LeaveStates, conn
<1>6. FreshRecs'
  BY <1>2, <1>3, <1>4, RecsAssumption
  DEF Released, InductiveInv, FreshRecs, TypeOK
<1>7. ConnectionStages'
  BY <1>1, <1>2, <1>4
  DEF Released, InductiveInv, ConnectionStages, Captured, conn
<1>8. Captures'
  <2>1. SUFFICES ASSUME NEW t \in Sockets
                 PROVE  /\ leave'[t] = "measuring" => Captured(t, leaveRec[t])'
                        /\ close'[t] = "measuring" => Captured(t, closeRec[t])'
    BY DEF Captures
  <2>2. ASSUME leave'[t] = "measuring"
        PROVE  Captured(t, leaveRec[t])'
    <3>1. leaveRec'[t] = leaveRec[t] /\ Captured(t, leaveRec[t])
      BY <1>2, <2>2 DEF InductiveInv, Captures, TypeOK
    <3>2. PICK j \in Recs : j = leaveRec[t]
      BY <3>1 DEF Captured
    <3>3. Captured(t, j)'
      BY <1>4, <3>1, <3>2 DEF Released
    <3>4. QED BY <3>1, <3>2, <3>3 DEF Captured
  <2>3. ASSUME close'[t] = "measuring"
        PROVE  Captured(t, closeRec[t])'
    <3>1. closeRec'[t] = closeRec[t] /\ Captured(t, closeRec[t])
      BY <1>2, <2>3 DEF InductiveInv, Captures, TypeOK
    <3>2. PICK j \in Recs : j = closeRec[t]
      BY <3>1 DEF Captured
    <3>3. Captured(t, j)'
      BY <1>4, <3>1, <3>2 DEF Released
    <3>4. QED BY <3>1, <3>2, <3>3 DEF Captured
  <2>4. QED BY <2>1, <2>2, <2>3
<1>9. StillThere'
  BY <1>2, <1>3, <1>4 DEF Released, InductiveInv, StillThere, TypeOK
<1>10. UsageSettled'
  BY <1>2, <1>4 DEF Released, InductiveInv, UsageSettled, conn
<1>11. DropsRecorded'
  <2>1. SUFFICES ASSUME NEW t \in Sockets,
                        close'[t] = "done", leave'[t] = "no", join'[t] = "joined",
                        target'[t] \in Owned, ~ended'[target'[t]],
                        \A j \in Recs : t \notin members'[j]
                 PROVE  dropped'[t]
    BY DEF DropsRecorded
  <2>2. t # s
    BY <1>2, <2>1 DEF InductiveInv, TypeOK
  <2>3. QED
    BY <1>2, <1>3, <1>4, <2>1, <2>2
    DEF Released, InductiveInv, DropsRecorded, TypeOK
<1>12. QED
  BY <1>4, <1>5, <1>6, <1>7, <1>8, <1>9, <1>10, <1>11
  DEF InductiveInv

LEMMA CloseSkipKeeps ==
  ASSUME InductiveInv, NEW s \in Sockets, CloseSkip(s)
  PROVE  InductiveInv'
<1>1. TypeOK'
  BY DEF InductiveInv, TypeOK, CloseStates, SockStates, CloseSkip, disk, heap
<1>2. ConnectionStages'
  BY DEF InductiveInv, ConnectionStages, TypeOK, CloseSkip, disk
<1>3. Captures'
  BY DEF InductiveInv, Captures, Captured, CloseSkip, heap
<1>4. StillThere'
  BY DEF InductiveInv, StillThere, CloseSkip, disk, heap
<1>5. UsageSettled'
  BY DEF InductiveInv, UsageSettled, TypeOK, CloseSkip, disk
<1>6. PresenceAgrees'
  BY DEF InductiveInv, PresenceAgrees, CloseSkip, heap
<1>7. DropsRecorded'
  BY DEF InductiveInv, DropsRecorded, CloseSkip, disk, heap
<1>8. (FreshRecs /\ OneHome /\ Routers /\ RoomsWereCreated /\
       PresenceMetered /\ EndedStaysGone)'
  BY DEF InductiveInv, FreshRecs, OneHome, Routers, RoomsWereCreated,
     PresenceMetered, EndedStaysGone, CloseSkip, disk, heap
<1>9. QED BY <1>1, <1>2, <1>3, <1>4, <1>5, <1>6, <1>7, <1>8 DEF InductiveInv

LEMMA CloseMeasureKeeps ==
  ASSUME InductiveInv, NEW s \in Sockets, CloseMeasure(s)
  PROVE  InductiveInv'
<1>1. TypeOK'
  BY DEF InductiveInv, TypeOK, CloseStates, SockStates, ConnectionStages,
     CloseMeasure, disk, heap, CurrentRoom
<1>2. FreshRecs'
  BY DEF InductiveInv, FreshRecs, CloseMeasure, heap, IsPeer
<1>3. ConnectionStages'
  BY DEF InductiveInv, ConnectionStages, TypeOK, CloseMeasure, disk
<1>4. Captures'
  BY DEF InductiveInv, Captures, Captured, TypeOK, OneHome, ConnectionStages,
     CloseMeasure, heap, CurrentRoom, IsPeer
<1>5. StillThere'
  BY DEF InductiveInv, StillThere, TypeOK, ConnectionStages, CloseMeasure,
     disk, heap
<1>6. UsageSettled'
  BY DEF InductiveInv, UsageSettled, TypeOK, CloseMeasure, disk
<1>7. PresenceAgrees'
  BY DEF InductiveInv, PresenceAgrees, CloseMeasure, heap
<1>8. DropsRecorded'
  BY DEF InductiveInv, DropsRecorded, CloseMeasure, disk, heap
<1>9. (OneHome /\ Routers /\ RoomsWereCreated /\ PresenceMetered /\
       EndedStaysGone)'
  BY DEF InductiveInv, OneHome, Routers, RoomsWereCreated, PresenceMetered,
     EndedStaysGone, CloseMeasure, disk, heap
<1>10. QED
  BY <1>1, <1>2, <1>3, <1>4, <1>5, <1>6, <1>7, <1>8, <1>9
  DEF InductiveInv

LEMMA CloseAtOnceKeeps ==
  ASSUME InductiveInv, NEW s \in Sockets, CloseAtOnce(s)
  PROVE  InductiveInv'
<1>1. TypeOK'
  BY DEF InductiveInv, TypeOK, UsageStates, CloseStates, SockStates,
     CloseAtOnce, Depart, KnowsAfterLeave, RemovePeer, UsageAfterClose
<1>2. FreshRecs'
  BY DEF InductiveInv, FreshRecs, CloseAtOnce, Depart, RemovePeer
<1>3. ConnectionStages'
  BY DEF InductiveInv, ConnectionStages, TypeOK, CloseAtOnce, Depart,
     UsageAfterClose
<1>4. OneHome'
  BY DEF InductiveInv, OneHome, CloseAtOnce, Depart, RemovePeer
<1>5. Captures'
  BY DEF InductiveInv, Captures, Captured, CloseAtOnce, Depart, RemovePeer
<1>6. Routers'
  BY DEF InductiveInv, Routers, CloseAtOnce, Depart, RemovePeer
<1>7. StillThere'
  BY DEF InductiveInv, StillThere, CloseAtOnce, Depart, RemovePeer
<1>8. RoomsWereCreated'
  BY DEF InductiveInv, RoomsWereCreated, TypeOK, CloseAtOnce, Depart,
     RemovePeer
<1>9. UsageSettled'
  BY DEF InductiveInv, UsageSettled, TypeOK, CloseAtOnce, Depart,
     UsageAfterClose
<1>10. PresenceMetered'
  BY RoomsAssumption, RecsAssumption
  DEF InductiveInv, PresenceMetered, TypeOK, OneHome, CloseAtOnce,
      CurrentRoom, Depart, RemovePeer, IsPeer, UsageAfterClose
<1>11. PresenceAgrees'
  BY DEF InductiveInv, PresenceAgrees, TypeOK, ConnectionStages, CloseAtOnce,
     CurrentRoom, Depart, KnowsAfterLeave, RemovePeer, IsPeer
<1>12. EndedStaysGone'
  BY DEF InductiveInv, EndedStaysGone, CloseAtOnce, Depart, RemovePeer
<1>13. DropsRecorded'
  BY RoomsAssumption, RecsAssumption, SocketsAssumption
  DEF InductiveInv, DropsRecorded, TypeOK, ConnectionStages, Captures,
      StillThere, CloseAtOnce, Depart, KnowsAfterLeave, RemovePeer,
      UsageAfterClose
<1>14. QED BY <1>1, <1>2, <1>3, <1>4, <1>5, <1>6, <1>7, <1>8, <1>9, <1>10,
    <1>11, <1>12, <1>13 DEF InductiveInv

LEMMA CloseFinishKeeps ==
  ASSUME InductiveInv, NEW s \in Sockets, CloseFinish(s)
  PROVE  InductiveInv'
<1>1. PICK k \in Recs : k = closeRec[s] /\ Captured(s, k)
  BY DEF CloseFinish, InductiveInv, Captures, Captured
<1>2. /\ Depart(s, k)
      /\ close[s] = "measuring"
      /\ close' = [close EXCEPT ![s] = "done"]
      /\ closeRec' = [closeRec EXCEPT ![s] = NoRec]
      /\ dropped' = DroppedAfterClose(s)
      /\ UNCHANGED <<conn, target, join, refusal, leave, joinRec, leaveRec>>
  BY <1>1 DEF CloseFinish
<1>3. UNCHANGED <<used, router, created, ended, restarts>>
  BY <1>2 DEF Depart
<1>4. /\ OneHome' /\ Routers' /\ RoomsWereCreated'
      /\ PresenceMetered' /\ PresenceAgrees' /\ EndedStaysGone'
      /\ Released(s)
  BY <1>1, <1>2, RemovalKeeps DEF conn
<1>5. TypeOK'
  BY <1>2, <1>3, <1>4
  DEF Released, InductiveInv, TypeOK, CloseStates, DroppedAfterClose, conn
<1>6. FreshRecs'
  BY <1>2, <1>3, <1>4, RecsAssumption
  DEF Released, InductiveInv, FreshRecs, TypeOK
<1>7. ConnectionStages'
  BY <1>1, <1>2, <1>4
  DEF Released, InductiveInv, ConnectionStages, Captured, TypeOK, conn
<1>8. Captures'
  <2>1. SUFFICES ASSUME NEW t \in Sockets
                 PROVE  /\ leave'[t] = "measuring" => Captured(t, leaveRec[t])'
                        /\ close'[t] = "measuring" => Captured(t, closeRec[t])'
    BY DEF Captures
  <2>2. ASSUME leave'[t] = "measuring"
        PROVE  Captured(t, leaveRec[t])'
    <3>1. leaveRec'[t] = leaveRec[t] /\ Captured(t, leaveRec[t])
      BY <1>2, <2>2 DEF InductiveInv, Captures, TypeOK
    <3>2. PICK j \in Recs : j = leaveRec[t]
      BY <3>1 DEF Captured
    <3>3. Captured(t, j)'
      BY <1>4, <3>1, <3>2 DEF Released
    <3>4. QED BY <3>1, <3>2, <3>3 DEF Captured
  <2>3. ASSUME close'[t] = "measuring"
        PROVE  Captured(t, closeRec[t])'
    <3>1. closeRec'[t] = closeRec[t] /\ Captured(t, closeRec[t])
      BY <1>2, <2>3 DEF InductiveInv, Captures, TypeOK
    <3>2. PICK j \in Recs : j = closeRec[t]
      BY <3>1 DEF Captured
    <3>3. Captured(t, j)'
      BY <1>4, <3>1, <3>2 DEF Released
    <3>4. QED BY <3>1, <3>2, <3>3 DEF Captured
  <2>4. QED BY <2>1, <2>2, <2>3
<1>9. StillThere'
  BY <1>2, <1>3, <1>4 DEF Released, InductiveInv, StillThere, TypeOK
<1>10. UsageSettled'
  BY <1>2, <1>4 DEF Released, InductiveInv, UsageSettled, TypeOK, conn
<1>11. DropsRecorded'
  <2>1. SUFFICES ASSUME NEW t \in Sockets,
                        close'[t] = "done", leave'[t] = "no", join'[t] = "joined",
                        target'[t] \in Owned, ~ended'[target'[t]],
                        \A j \in Recs : t \notin members'[j]
                 PROVE  dropped'[t]
    BY DEF DropsRecorded
  <2>2. CASE t = s
    BY <1>2, <2>1, <2>2 DEF DroppedAfterClose, InductiveInv, TypeOK
  <2>3. CASE t # s
    BY <1>2, <1>3, <1>4, <2>1, <2>3
    DEF Released, InductiveInv, DropsRecorded, DroppedAfterClose, TypeOK
  <2>4. QED BY <2>2, <2>3
<1>12. QED
  BY <1>4, <1>5, <1>6, <1>7, <1>8, <1>9, <1>10, <1>11
  DEF InductiveInv

(***************************************************************************)
(* A restart, and a step that changes nothing.                             *)
(***************************************************************************)
LEMMA RestartKeeps ==
  ASSUME InductiveInv, Restart
  PROVE  InductiveInv'
<1>1. TypeOK'
  BY BoundsAssumption
  DEF InductiveInv, TypeOK, UsageStates, CloseStates, LeaveStates, JoinStates,
      SockStates, UsageAfterBoot, Restart
<1>2. FreshRecs'
  BY RecsAssumption DEF InductiveInv, FreshRecs, TypeOK, Restart
<1>3. ConnectionStages'
  BY DEF InductiveInv, ConnectionStages, Restart, UsageAfterBoot
<1>4. OneHome'
  BY DEF InductiveInv, OneHome, Restart
<1>5. Captures'
  BY DEF InductiveInv, Captures, Restart
<1>6. Routers'
  BY DEF InductiveInv, Routers, Restart
<1>7. StillThere'
  BY DEF InductiveInv, StillThere, TypeOK, ConnectionStages, Restart
<1>8. RoomsWereCreated'
  BY DEF InductiveInv, RoomsWereCreated, TypeOK, Restart
<1>9. UsageSettled'
  BY DEF InductiveInv, UsageSettled, Restart, UsageAfterBoot
<1>10. PresenceMetered'
  BY DEF InductiveInv, PresenceMetered, Restart
<1>11. PresenceAgrees'
  BY DEF InductiveInv, PresenceAgrees, Restart
<1>12. EndedStaysGone'
  BY DEF InductiveInv, EndedStaysGone, Restart
<1>13. DropsRecorded'
  BY DEF InductiveInv, DropsRecorded, Restart
<1>14. QED BY <1>1, <1>2, <1>3, <1>4, <1>5, <1>6, <1>7, <1>8, <1>9, <1>10,
    <1>11, <1>12, <1>13 DEF InductiveInv

LEMMA StutterKeeps ==
  ASSUME InductiveInv, UNCHANGED vars
  PROVE  InductiveInv'
  BY DEF InductiveInv, TypeOK, FreshRecs, ConnectionStages, OneHome, Captures,
     Captured, Routers, StillThere, RoomsWereCreated, UsageSettled,
     PresenceMetered, PresenceAgrees, EndedStaysGone, DropsRecorded, vars,
     conn, tasks, heap, disk

(***************************************************************************)
(* Every reachable state satisfies the invariant.                          *)
(***************************************************************************)
\* Every step keeps the invariant.
LEMMA NextKeeps ==
  ASSUME InductiveInv, [Next]_vars
  PROVE  InductiveInv'
<1>1. ASSUME NEW s \in Sockets, ClientStep(s)
      PROVE  InductiveInv'
  BY <1>1, ConnectKeeps, ClientCloseKeeps, VanishKeeps, PongKeeps DEF ClientStep
<1>2. ASSUME NEW s \in Sockets, JoinStep(s)
      PROVE  InductiveInv'
  BY <1>2, JoinMissingKeeps, JoinRefusedKeeps, JoinRouteKeeps,
     JoinAtOnceKeeps, JoinResumeKeeps, JoinRouterFailsKeeps
  DEF JoinStep
<1>3. ASSUME NEW s \in Sockets, DepartStep(s)
      PROVE  InductiveInv'
  BY <1>3, LeaveMeasureKeeps, LeaveAtOnceKeeps, LeaveFinishKeeps,
     CloseSkipKeeps, CloseMeasureKeeps, CloseAtOnceKeeps, CloseFinishKeeps
  DEF DepartStep
<1>4. CASE RoomStep
  BY <1>4, CreateRoomKeeps, DeleteRoomKeeps DEF RoomStep
<1>5. CASE Heartbeat
  BY <1>5, HeartbeatKeeps
<1>6. CASE Restart
  BY <1>6, RestartKeeps
<1>7. CASE UNCHANGED vars
  BY <1>7, StutterKeeps
<1>8. QED BY <1>1, <1>2, <1>3, <1>4, <1>5, <1>6, <1>7 DEF Next

\* InductiveInv is an invariant: the results below follow from it.
THEOREM Inductive == Spec => []InductiveInv
<1>1. QED BY InitInductive, NextKeeps, PTL DEF Spec

(***************************************************************************)
(* The safety properties.                                                  *)
(***************************************************************************)
\* Every variable stays in its range.
THEOREM TypeCorrect == Spec => []TypeOK
<1>1. QED BY Inductive, PTL DEF InductiveInv

\* A usage row is open only while its connection is up or its close handler is
\* at work, but for a close event that came before the join had finished:
\* whatever leaves, closes, deletions and restarts overlap, the duration of a
\* session ends (server.js:166-196, 695-700).
THEOREM UsageAlwaysSettled == Spec => []UsageSettled
<1>1. QED BY Inductive, PTL DEF InductiveInv

\* Everybody in an owned room is metered: no overlap of a late departure with
\* another join closes the row of a peer that is present (server.js:339-352).
THEOREM PresenceAlwaysMetered == Spec => []PresenceMetered
<1>1. QED BY Inductive, PTL DEF InductiveInv

\* Every connected peer has been told exactly who else is in its record: the
\* snapshot taken after the await misses nobody (server.js:354-399).
THEOREM PresenceAlwaysAgrees == Spec => []PresenceAgrees
<1>1. QED BY Inductive, PTL DEF InductiveInv

\* An occupied room has an open router (meetRooms.js:63-69, 99-102).
THEOREM OccupiedRoomsHaveRouters == Spec => []OccupiedHasRouter
<1>1. InductiveInv => OccupiedHasRouter
  BY DEF InductiveInv, Routers, OccupiedHasRouter
<1>2. QED BY <1>1, Inductive, PTL

\* An ended room is never in the map again, across joins in flight and
\* restarts (server.js:730-734).
THEOREM EndedRoomsStayGone == Spec => []EndedStaysGone
<1>1. QED BY Inductive, PTL DEF InductiveInv

\* A participant that went away without a meet-leave is on record as dropped
\* once its close handler is through (server.js:166-186).
THEOREM DropsAlwaysRecorded == Spec => []DropsRecorded
<1>1. QED BY Inductive, PTL DEF InductiveInv

(***************************************************************************)
(* The action property.                                                    *)
(***************************************************************************)
LEMMA StaysStep ==
  ASSUME InductiveInv, [Next]_vars, NEW r \in Rooms, registry[r] # NoRec,
         registry'[r] # registry[r]
  PROVE  \/ members'[registry[r]] = {}  /\ members[registry[r]] # {}
         \/ ~ended[r] /\ ended'[r]
         \/ restarts' # restarts
<1> DEFINE Goal == \/ members'[registry[r]] = {}  /\ members[registry[r]] # {}
                   \/ ~ended[r] /\ ended'[r]
                   \/ restarts' # restarts
<1>1. CASE Restart
  BY <1>1 DEF Restart, InductiveInv, TypeOK
<1>2. ASSUME NEW q \in Rooms, DeleteRoom(q)
      PROVE  Goal
  BY <1>2 DEF DeleteRoom, InductiveInv, TypeOK, EndedStaysGone
<1>3. ASSUME NEW q \in Rooms, NEW k \in Recs, FindRoom(q, k)
      PROVE  FALSE
  BY <1>3 DEF FindRoom, CreateRecord, InductiveInv, TypeOK
<1>4. ASSUME NEW q \in Rooms, NEW k \in Recs, CreateRoom(q, k)
      PROVE  FALSE
  BY <1>4 DEF CreateRoom, CreateRecord, InductiveInv, RoomsWereCreated, TypeOK
<1>5. ASSUME NEW s \in Sockets, NEW k \in Recs, Captured(s, k), RemovePeer(s, k)
      PROVE  Goal
  <2>1. /\ members' = [members EXCEPT ![k] = @ \ {s}]
        /\ members[k] = {s} /\ registry[target[s]] = k /\ target[s] = r
    BY <1>5, RemovalEffect DEF InductiveInv, TypeOK
  <2>2. QED BY <2>1 DEF InductiveInv, TypeOK
<1>6. ASSUME NEW s \in Sockets, LeaveFinish(s) \/ CloseFinish(s)
      PROVE  Goal
  <2>1. PICK k \in Recs : Captured(s, k) /\ RemovePeer(s, k)
    BY <1>6
    DEF LeaveFinish, CloseFinish, Depart, InductiveInv, Captures, Captured
  <2>2. QED BY <1>5, <2>1
<1>7. ASSUME NEW s \in Sockets, LeaveAtOnce(s) \/ CloseAtOnce(s)
      PROVE  FALSE
  BY <1>7 DEF LeaveAtOnce, CloseAtOnce, Depart, RemovePeer
<1>8. QED
  BY <1>1, <1>2, <1>3, <1>4, <1>6, <1>7
  DEF Next, ClientStep, JoinStep, DepartStep, RoomStep, Connect, ClientClose,
      Vanish, Pong, Heartbeat, JoinMissing, JoinRefused, JoinRoute,
      JoinAtOnce, JoinResume, JoinRouterFails, LeaveMeasure, CloseSkip,
      CloseMeasure, heap, vars

\* The map lets go of a room only when its last peer is removed, when it is
\* deleted, or at a restart: a departure that comes late, after its peer was
\* removed by another handler, drops no room (meetRooms.js:91-103).
THEOREM LiveRoomsStay == Spec => LiveRoomStays
<1>1. InductiveInv /\ [Next]_vars =>
        [\A r \in Rooms :
           registry[r] # NoRec /\ registry'[r] # registry[r] =>
             \/ members'[registry[r]] = {}  /\ members[registry[r]] # {}
             \/ ~ended[r] /\ ended'[r]
             \/ restarts' # restarts]_vars
  BY StaysStep
<1>2. QED BY <1>1, Inductive, PTL DEF Spec, LiveRoomStays

(***************************************************************************)
(* The capacity of a room across the await in createRouter.                *)
(*                                                                         *)
(* CapacityInv is kept on top of InductiveInv.  What it says of one room   *)
(* is Within, a fact about three finite sets: the peers M of its record,   *)
(* the open routers O and the routers R made for the room.                 *)
(***************************************************************************)
CapacityInv == RouterOwners /\ OverbookingBounded

Within(M, O, R) ==
  /\ Cardinality(M \ O) <= Capacity
  /\ Cardinality(M) > Capacity => Cardinality(M) < Capacity + Cardinality(R)

\* Peers that leave, and routers made, only help.
LEMMA WithinFewer ==
  ASSUME NEW M, IsFiniteSet(M), NEW O, NEW R, Within(M, O, R),
         NEW N \in SUBSET M, NEW P, N \ P \subseteq M \ O,
         NEW Q, IsFiniteSet(Q), R \subseteq Q
  PROVE  Within(N, P, Q)
<1>1. IsFiniteSet(M \ O) /\ IsFiniteSet(N \ P) /\ IsFiniteSet(N) /\ IsFiniteSet(R)
  BY FS_Subset
<1>2. Cardinality(N \ P) <= Cardinality(M \ O)
  BY <1>1, FS_Subset
<1>3. Cardinality(N) <= Cardinality(M) /\ Cardinality(R) <= Cardinality(Q)
  BY FS_Subset
<1>4. /\ Cardinality(M \ O) \in Nat /\ Cardinality(N \ P) \in Nat
      /\ Cardinality(M) \in Nat /\ Cardinality(N) \in Nat
      /\ Cardinality(R) \in Nat /\ Cardinality(Q) \in Nat
  BY <1>1, FS_CardinalityType
<1>5. Capacity \in Nat
  BY BoundsAssumption
<1>6. QED BY <1>2, <1>3, <1>4, <1>5 DEF Within

\* A record nobody is in.
LEMMA WithinEmpty ==
  ASSUME NEW O, NEW R
  PROVE  Within({}, O, R)
<1>1. {} \ O = {} /\ Cardinality({}) = 0
  BY FS_EmptySet
<1>2. QED BY <1>1, BoundsAssumption DEF Within

\* A peer that found a place and a router.
LEMMA WithinAdmit ==
  ASSUME NEW M, IsFiniteSet(M), Cardinality(M) < Capacity, NEW s, NEW O, NEW R
  PROVE  Within(M \cup {s}, O, R)
<1> DEFINE N == M \cup {s}
<1>1. IsFiniteSet(N) /\ Cardinality(N) <= Cardinality(M) + 1
  <2>1. Cardinality(M) \in Nat
    BY FS_CardinalityType
  <2>2. QED BY <2>1, FS_AddElement
<1>2. IsFiniteSet(N \ O) /\ Cardinality(N \ O) <= Cardinality(N)
  BY <1>1, FS_Subset
<1>3. /\ Cardinality(M) \in Nat /\ Cardinality(N) \in Nat
      /\ Cardinality(N \ O) \in Nat
  BY <1>1, <1>2, FS_CardinalityType
<1>4. Cardinality(N) <= Capacity /\ Cardinality(N \ O) <= Capacity
  BY <1>1, <1>2, <1>3, BoundsAssumption
<1>5. QED BY <1>3, <1>4, BoundsAssumption DEF Within

\* A peer that waited for its router: it brings one with it.
LEMMA WithinResume ==
  ASSUME NEW M, IsFiniteSet(M), NEW O, NEW R, IsFiniteSet(R), Within(M, O, R),
         NEW s, s \notin M, s \notin R, M # {} => R # {}, Capacity # 0
  PROVE  Within(M \cup {s}, O \cup {s}, R \cup {s})
<1> DEFINE N == M \cup {s}
           Q == R \cup {s}
<1>1. Cardinality(N) = Cardinality(M) + 1 /\ Cardinality(Q) = Cardinality(R) + 1
  BY FS_AddElement
<1>2. IsFiniteSet(M \ O) /\ IsFiniteSet(N \ (O \cup {s}))
  BY FS_Subset, FS_AddElement
<1>3. Cardinality(N \ (O \cup {s})) <= Cardinality(M \ O)
  BY <1>2, FS_Subset
<1>4. /\ Cardinality(M) \in Nat /\ Cardinality(R) \in Nat
      /\ Cardinality(M \ O) \in Nat /\ Cardinality(N \ (O \cup {s})) \in Nat
  BY <1>2, FS_CardinalityType
<1>5. Cardinality(M) # 0 => Cardinality(R) # 0
  BY FS_EmptySet
<1>6. Capacity \in Nat
  BY BoundsAssumption
<1>7. Cardinality(N \ (O \cup {s})) <= Capacity
  BY <1>3, <1>4, <1>6 DEF Within
<1>8. Cardinality(N) > Capacity => Cardinality(N) < Capacity + Cardinality(Q)
  BY <1>1, <1>4, <1>5, <1>6 DEF Within
<1>9. QED BY <1>7, <1>8 DEF Within

\* Within is what OverbookingBounded says of each registered record.
LEMMA OverbookingIsWithin ==
  OverbookingBounded <=>
    \A r \in Rooms : registry[r] \in Recs =>
      Within(members[registry[r]], openRouters, RoutersFor(r))
BY DEF OverbookingBounded, Within

\* The sets Within speaks of are finite.
LEMMA RoomsAreFinite ==
  ASSUME InductiveInv
  PROVE  /\ \A k \in Recs : IsFiniteSet(members[k])
         /\ \A r \in Rooms : IsFiniteSet(RoutersFor(r))
<1>1. \A k \in Recs : members[k] \subseteq Sockets
  BY DEF InductiveInv, TypeOK
<1>2. \A r \in Rooms : RoutersFor(r) \subseteq Sockets
  BY DEF InductiveInv, TypeOK, RoutersFor
<1>3. QED BY <1>1, <1>2, SocketsAssumption, FS_Subset

LEMMA CapacityInit == Init => CapacityInv
<1> SUFFICES ASSUME Init PROVE CapacityInv
  OBVIOUS
<1>1. RouterOwners
  BY RecsAssumption DEF Init, RouterOwners
<1>2. OverbookingBounded
  BY RecsAssumption DEF Init, OverbookingBounded
<1>3. QED BY <1>1, <1>2 DEF CapacityInv

\* A step that admits nobody, makes and closes no router, and at most puts a
\* fresh record into the map.
LEMMA QuietKeepsCapacity ==
  ASSUME InductiveInv, InductiveInv', CapacityInv,
         UNCHANGED <<members, router, openRouters>>,
         \A t \in Sockets : join[t] = "joined" =>
           join'[t] = "joined" /\ target'[t] = target[t],
         \A t \in Sockets : join'[t] = "routing" =>
           join[t] = "routing" \/ Capacity # 0,
         \A r \in Rooms :
           registry'[r] = registry[r] \/ registry'[r] \in Recs \ used
  PROVE  CapacityInv'
<1>1. openRouters \subseteq Sockets /\ \A s \in openRouters : join[s] = "joined"
  BY DEF InductiveInv, TypeOK, CapacityInv, RouterOwners
<1>2. \A k \in Recs \ used : members[k] = {} /\ router[k] = NoSocket
  BY DEF InductiveInv, FreshRecs
<1>3. RouterOwners'
  <2>1. ASSUME NEW r \in Rooms, registry'[r] \in Recs,
               router[registry'[r]] # NoSocket
        PROVE  target'[router[registry'[r]]] = r
    <3>1. registry'[r] = registry[r]
      BY <1>2, <2>1
    <3>2. /\ router[registry[r]] \in Sockets
          /\ join[router[registry[r]]] = "joined"
          /\ target[router[registry[r]]] = r
      BY <2>1, <3>1 DEF InductiveInv, TypeOK, Routers, CapacityInv, RouterOwners
    <3>3. QED BY <3>1, <3>2
  <2>2. \A t \in Sockets : join'[t] = "routing" => Capacity # 0
    BY DEF CapacityInv, RouterOwners
  <2>3. QED BY <1>1, <2>1, <2>2 DEF RouterOwners
<1>4. \A r \in Rooms : RoutersFor(r)' = RoutersFor(r)
  BY <1>1 DEF RoutersFor
<1>5. ASSUME NEW r \in Rooms, registry'[r] \in Recs
      PROVE  Within(members'[registry'[r]], openRouters', RoutersFor(r)')
  <2>1. CASE registry'[r] = registry[r]
    BY <1>4, <1>5, <2>1, OverbookingIsWithin DEF CapacityInv
  <2>2. CASE registry'[r] \in Recs \ used
    BY <1>2, <2>2, WithinEmpty
  <2>3. QED BY <1>5, <2>1, <2>2
<1>6. OverbookingBounded'
  BY <1>5 DEF Within, OverbookingBounded
<1>7. QED BY <1>3, <1>6 DEF CapacityInv

\* A join whose room has a router: it is counted before it is admitted.
LEMMA JoinAtOnceKeepsCapacity ==
  ASSUME InductiveInv, InductiveInv', CapacityInv,
         NEW s \in Sockets, NEW r \in Rooms, NEW k \in Recs, JoinAtOnce(s, r, k)
  PROVE  CapacityInv'
<1>1. /\ registry' = [registry EXCEPT ![r] = k]
      /\ registry[r] = k \/ (registry[r] = NoRec /\ k \notin used)
  BY FindRoomEffect DEF JoinAtOnce
<1>2. /\ join[s] = "no" /\ join' = [join EXCEPT ![s] = "joined"]
      /\ target' = [target EXCEPT ![s] = r]
      /\ members' = [members EXCEPT ![k] = @ \cup {s}]
      /\ UNCHANGED <<router, openRouters>>
      /\ router[k] # NoSocket /\ ~IsFull(k)
  BY DEF JoinAtOnce, SendsJoin, Admit
<1>3. registry[r] = k /\ registry' = registry
  BY <1>1, <1>2 DEF InductiveInv, FreshRecs, TypeOK
<1>4. openRouters \subseteq Sockets /\ \A t \in openRouters : join[t] = "joined"
  BY DEF InductiveInv, TypeOK, CapacityInv, RouterOwners
<1>5. RouterOwners'
  <2>1. ASSUME NEW q \in Rooms, registry[q] \in Recs,
               router[registry[q]] # NoSocket
        PROVE  target'[router[registry[q]]] = q
    <3>1. /\ router[registry[q]] \in Sockets
          /\ join[router[registry[q]]] = "joined"
          /\ target[router[registry[q]]] = q
      BY <2>1 DEF InductiveInv, TypeOK, Routers, CapacityInv, RouterOwners
    <3>2. QED BY <1>2, <3>1 DEF InductiveInv, TypeOK
  <2>2. \A t \in openRouters : join'[t] = "joined"
    BY <1>2, <1>4 DEF InductiveInv, TypeOK
  <2>3. \A t \in Sockets : join'[t] = "routing" => Capacity # 0
    BY <1>2 DEF CapacityInv, RouterOwners, InductiveInv, TypeOK
  <2>4. QED BY <1>2, <1>3, <2>1, <2>2, <2>3 DEF RouterOwners
<1>6. \A q \in Rooms : RoutersFor(q)' = RoutersFor(q)
  BY <1>2, <1>4 DEF RoutersFor, InductiveInv, TypeOK
<1>7. ASSUME NEW q \in Rooms, registry'[q] \in Recs
      PROVE  Within(members'[registry'[q]], openRouters', RoutersFor(q)')
  <2>1. CASE registry[q] = k
    <3>1. IsFiniteSet(members[k]) /\ Cardinality(members[k]) \in Nat
      BY RoomsAreFinite, FS_CardinalityType
    <3>2. Cardinality(members[k]) < Capacity
      BY <1>2, <3>1, BoundsAssumption DEF IsFull
    <3>3. members'[registry'[q]] = members[k] \cup {s}
      BY <1>2, <1>3, <2>1 DEF InductiveInv, TypeOK
    <3>4. Within(members[k] \cup {s}, openRouters', RoutersFor(q)')
      BY <3>1, <3>2, WithinAdmit
    <3>5. QED BY <3>3, <3>4
  <2>2. CASE registry[q] # k
    <3>1. members'[registry'[q]] = members[registry[q]]
      BY <1>2, <1>3, <1>7, <2>2 DEF InductiveInv, TypeOK
    <3>2. Within(members[registry[q]], openRouters, RoutersFor(q))
      BY <1>3, <1>7, OverbookingIsWithin DEF CapacityInv
    <3>3. QED BY <1>2, <1>6, <3>1, <3>2
  <2>3. QED BY <2>1, <2>2
<1>8. OverbookingBounded'
  BY <1>7 DEF Within, OverbookingBounded
<1>9. QED BY <1>5, <1>8 DEF CapacityInv

\* createRouter answers: the peer is admitted without being counted again, and
\* its router is there in addition.
LEMMA JoinResumeKeepsCapacity ==
  ASSUME InductiveInv, InductiveInv', CapacityInv, NEW s \in Sockets, JoinResume(s)
  PROVE  CapacityInv'
<1> DEFINE k == joinRec[s]
<1>1. /\ join[s] = "routing" /\ join' = [join EXCEPT ![s] = "joined"]
      /\ k \in Recs /\ router' = [router EXCEPT ![k] = s]
      /\ openRouters' = openRouters \cup {s}
      /\ members' = [members EXCEPT ![k] = @ \cup {s}]
      /\ UNCHANGED <<target, registry>>
  BY DEF JoinResume, Admit, InductiveInv, ConnectionStages
<1>2. openRouters \subseteq Sockets /\ \A t \in openRouters : join[t] = "joined"
  BY DEF InductiveInv, TypeOK, CapacityInv, RouterOwners
<1>3. s \notin openRouters /\ s \notin members[k] /\ Capacity # 0
  BY <1>1, <1>2 DEF InductiveInv, OneHome, CapacityInv, RouterOwners
<1>4. RouterOwners'
  <2>1. ASSUME NEW q \in Rooms, registry[q] \in Recs,
               router'[registry[q]] # NoSocket
        PROVE  target[router'[registry[q]]] = q
    <3>1. CASE registry[q] = k
      BY <1>1, <3>1 DEF InductiveInv, OneHome, TypeOK
    <3>2. CASE registry[q] # k
      BY <1>1, <2>1, <3>2 DEF InductiveInv, TypeOK, CapacityInv, RouterOwners
    <3>3. QED BY <3>1, <3>2
  <2>2. \A t \in openRouters' : join'[t] = "joined"
    BY <1>1, <1>2 DEF InductiveInv, TypeOK
  <2>3. \A t \in Sockets : join'[t] = "routing" => Capacity # 0
    BY <1>3
  <2>4. QED BY <1>1, <2>1, <2>2, <2>3 DEF RouterOwners
<1>5. ASSUME NEW q \in Rooms, registry[q] \in Recs
      PROVE  Within(members'[registry[q]], openRouters', RoutersFor(q)')
  <2>1. /\ Within(members[registry[q]], openRouters, RoutersFor(q))
        /\ IsFiniteSet(members[registry[q]]) /\ IsFiniteSet(RoutersFor(q))
    BY <1>5, OverbookingIsWithin, RoomsAreFinite DEF CapacityInv
  <2>2. CASE registry[q] = k
    <3>1. target[s] = q
      BY <1>1, <2>2 DEF InductiveInv, OneHome
    <3>2. RoutersFor(q)' = RoutersFor(q) \cup {s} /\ s \notin RoutersFor(q)
      BY <1>1, <1>3, <3>1 DEF RoutersFor
    <3>3. members'[registry[q]] = members[k] \cup {s}
      BY <1>1, <2>2 DEF InductiveInv, TypeOK
    <3>4. members[k] # {} => RoutersFor(q) # {}
      BY <1>1, <2>2
      DEF InductiveInv, Routers, CapacityInv, RouterOwners, RoutersFor
    <3>5. Within(members[k] \cup {s}, openRouters \cup {s}, RoutersFor(q) \cup {s})
      BY <1>3, <2>1, <2>2, <3>2, <3>4, WithinResume
    <3>6. QED BY <1>1, <3>2, <3>3, <3>5
  <2>3. CASE registry[q] # k
    <3>1. members'[registry[q]] = members[registry[q]]
      BY <1>1, <1>5, <2>3 DEF InductiveInv, TypeOK
    <3>2. RoutersFor(q) \subseteq RoutersFor(q)'
      BY <1>1 DEF RoutersFor
    <3>3. IsFiniteSet(RoutersFor(q)')
      <4>1. RoutersFor(q)' \subseteq RoutersFor(q) \cup {s}
        BY <1>1 DEF RoutersFor
      <4>2. QED BY <2>1, <4>1, FS_AddElement, FS_Subset
    <3>4. Within(members[registry[q]], openRouters', RoutersFor(q)')
      BY <1>1, <2>1, <3>2, <3>3, WithinFewer
    <3>5. QED BY <3>1, <3>4
  <2>4. QED BY <2>2, <2>3
<1>6. OverbookingBounded'
  BY <1>1, <1>5 DEF Within, OverbookingBounded
<1>7. QED BY <1>4, <1>6 DEF CapacityInv

\* A peer removed from the record it was captured in; the last one out takes
\* the router of that record along, which no other room counts.
LEMMA RemovalKeepsCapacity ==
  ASSUME InductiveInv, InductiveInv', CapacityInv,
         NEW s \in Sockets, NEW k \in Recs, Captured(s, k), RemovePeer(s, k),
         UNCHANGED <<join, target, router>>
  PROVE  CapacityInv'
<1>1. /\ members' = [members EXCEPT ![k] = @ \ {s}]
      /\ \/ UNCHANGED <<registry, openRouters>>
         \/ /\ members[k] = {s} /\ registry[target[s]] = k
            /\ target[s] \in Rooms
            /\ registry' = [registry EXCEPT ![target[s]] = NoRec]
            /\ openRouters' = openRouters \ {router[k]}
  BY RemovalEffect
<1>2. \A r \in Rooms : registry'[r] \in Recs => registry'[r] = registry[r]
  BY <1>1, RecsAssumption DEF InductiveInv, TypeOK
<1>3. openRouters' \subseteq openRouters
  BY <1>1
<1>4. RouterOwners'
  <2>1. \A t \in openRouters' : join[t] = "joined"
    BY <1>3 DEF CapacityInv, RouterOwners
  <2>2. \A r \in Rooms :
          registry'[r] \in Recs /\ router[registry'[r]] # NoSocket =>
            target[router[registry'[r]]] = r
    BY <1>2 DEF CapacityInv, RouterOwners
  <2>3. \A t \in Sockets : join[t] = "routing" => Capacity # 0
    BY DEF CapacityInv, RouterOwners
  <2>4. QED BY <2>1, <2>2, <2>3 DEF RouterOwners
<1>5. ASSUME NEW r \in Rooms, registry'[r] \in Recs
      PROVE  Within(members'[registry'[r]], openRouters', RoutersFor(r)')
  <2> DEFINE M == members[registry[r]]
             N == members'[registry'[r]]
  <2>1. /\ Within(M, openRouters, RoutersFor(r)) /\ IsFiniteSet(M)
        /\ IsFiniteSet(RoutersFor(r)')
    <3>1. RoutersFor(r)' \subseteq Sockets
      BY <1>3 DEF RoutersFor, InductiveInv, TypeOK
    <3>2. IsFiniteSet(RoutersFor(r)')
      BY <3>1, SocketsAssumption, FS_Subset
    <3>3. QED
      BY <1>2, <1>5, <3>2, OverbookingIsWithin, RoomsAreFinite DEF CapacityInv
  <2>2. N \subseteq M
    BY <1>1, <1>2, <1>5 DEF InductiveInv, TypeOK
  <2>3. N \ openRouters' \subseteq M \ openRouters /\ RoutersFor(r) \subseteq RoutersFor(r)'
    <3>1. CASE UNCHANGED openRouters
      BY <2>2, <3>1 DEF RoutersFor
    <3>2. CASE /\ members[k] = {s} /\ registry[target[s]] = k
               /\ target[s] \in Rooms
               /\ registry' = [registry EXCEPT ![target[s]] = NoRec]
               /\ openRouters' = openRouters \ {router[k]}
      <4>1. r # target[s]
        BY <1>5, <3>2, RecsAssumption DEF InductiveInv, TypeOK
      <4>2. router[k] # NoSocket /\ target[router[k]] = target[s]
        BY <3>2 DEF InductiveInv, Routers, CapacityInv, RouterOwners
      <4>3. \A t \in N : target[t] = r
        BY <1>2, <1>5, <2>2 DEF InductiveInv, TypeOK, OneHome
      <4>4. router[k] \notin N /\ router[k] \notin RoutersFor(r)
        BY <4>1, <4>2, <4>3 DEF RoutersFor
      <4>5. RoutersFor(r)' = RoutersFor(r) \ {router[k]}
        BY <3>2 DEF RoutersFor
      <4>6. QED BY <2>2, <3>2, <4>4, <4>5
    <3>3. QED BY <1>1, <3>1, <3>2
  <2> HIDE DEF M, N
  <2>4. Within(N, openRouters', RoutersFor(r)')
    BY <2>1, <2>2, <2>3, WithinFewer
  <2>5. QED BY <2>4 DEF N
<1>6. OverbookingBounded'
  BY <1>5 DEF Within, OverbookingBounded
<1>7. QED BY <1>4, <1>6 DEF CapacityInv

\* A deleted room: its router is closed, and no other room counts it.
LEMMA DeleteKeepsCapacity ==
  ASSUME InductiveInv, InductiveInv', CapacityInv,
         NEW q \in Rooms, DeleteRoom(q)
  PROVE  CapacityInv'
<1>1. /\ registry' = [registry EXCEPT ![q] = NoRec]
      /\ members' = [k \in Recs |-> IF k = registry[q] THEN {} ELSE members[k]]
      /\ openRouters' = openRouters \ {router[k] : k \in {registry[q]} \cap Recs}
      /\ UNCHANGED <<join, target, router>>
  BY DEF DeleteRoom, tasks
<1>2. \A r \in Rooms : registry'[r] \in Recs => r # q /\ registry'[r] = registry[r]
  BY <1>1, RecsAssumption DEF InductiveInv, TypeOK
<1>3. openRouters' \subseteq openRouters
  BY <1>1
<1>4. RouterOwners'
  <2>1. \A t \in openRouters' : join[t] = "joined"
    BY <1>3 DEF CapacityInv, RouterOwners
  <2>2. \A r \in Rooms :
          registry'[r] \in Recs /\ router[registry'[r]] # NoSocket =>
            target[router[registry'[r]]] = r
    BY <1>2 DEF CapacityInv, RouterOwners
  <2>3. \A t \in Sockets : join[t] = "routing" => Capacity # 0
    BY DEF CapacityInv, RouterOwners
  <2>4. QED BY <1>1, <2>1, <2>2, <2>3 DEF RouterOwners
<1>5. ASSUME NEW r \in Rooms, registry'[r] \in Recs
      PROVE  Within(members'[registry'[r]], openRouters', RoutersFor(r)')
  <2> DEFINE M == members[registry[r]]
             N == members'[registry'[r]]
  <2>1. /\ Within(M, openRouters, RoutersFor(r)) /\ IsFiniteSet(M)
        /\ IsFiniteSet(RoutersFor(r)')
    <3>1. RoutersFor(r)' \subseteq Sockets
      BY <1>3 DEF RoutersFor, InductiveInv, TypeOK
    <3>2. IsFiniteSet(RoutersFor(r)')
      BY <3>1, SocketsAssumption, FS_Subset
    <3>3. QED
      BY <1>2, <1>5, <3>2, OverbookingIsWithin, RoomsAreFinite DEF CapacityInv
  <2>2. N \subseteq M
    BY <1>1, <1>2, <1>5 DEF InductiveInv, TypeOK
  <2>3. ASSUME NEW t \in openRouters, t \notin openRouters'
        PROVE  t \notin N /\ t \notin RoutersFor(r)
    <3>1. registry[q] \in Recs /\ t = router[registry[q]]
      BY <1>1, <2>3
    <3>2. target[t] = q
      BY <2>3, <3>1, SocketsAssumption
      DEF InductiveInv, TypeOK, CapacityInv, RouterOwners
    <3>3. \A u \in N : target[u] = r
      BY <1>2, <1>5, <2>2 DEF InductiveInv, TypeOK, OneHome
    <3>4. QED BY <1>2, <1>5, <3>2, <3>3 DEF RoutersFor
  <2>4. N \ openRouters' \subseteq M \ openRouters /\ RoutersFor(r) \subseteq RoutersFor(r)'
    BY <1>1, <2>2, <2>3 DEF RoutersFor
  <2> HIDE DEF M, N
  <2>5. Within(N, openRouters', RoutersFor(r)')
    BY <2>1, <2>2, <2>4, WithinFewer
  <2>6. QED BY <2>5 DEF N
<1>6. OverbookingBounded'
  BY <1>5 DEF Within, OverbookingBounded
<1>7. QED BY <1>4, <1>6 DEF CapacityInv

\* Every step keeps the capacity invariant.
LEMMA NextKeepsCapacity ==
  ASSUME InductiveInv, InductiveInv', CapacityInv, [Next]_vars
  PROVE  CapacityInv'
<1>1. ASSUME NEW s \in Sockets,
             \/ ClientStep(s) \/ LeaveMeasure(s) \/ LeaveAtOnce(s)
             \/ CloseSkip(s) \/ CloseMeasure(s) \/ CloseAtOnce(s)
      PROVE  CapacityInv'
  <2>1. UNCHANGED <<registry, members, router, openRouters, join, target>>
    BY <1>1
    DEF ClientStep, Connect, ClientClose, Vanish, Pong, LeaveMeasure, CloseSkip,
        CloseMeasure, LeaveAtOnce, CloseAtOnce, Depart, RemovePeer, tasks, heap
  <2>2. QED BY <2>1, QuietKeepsCapacity
<1>2. ASSUME NEW s \in Sockets, NEW r \in Rooms, JoinMissing(s, r)
      PROVE  CapacityInv'
  <2>1. /\ UNCHANGED <<registry, members, router, openRouters>>
        /\ join[s] = "no" /\ join' = [join EXCEPT ![s] = "refused"]
        /\ target' = [target EXCEPT ![s] = r]
    BY <1>2 DEF JoinMissing, SendsJoin, Refuse, heap
  <2>2. QED BY <2>1, QuietKeepsCapacity DEF InductiveInv, TypeOK
<1>3. ASSUME NEW s \in Sockets, NEW r \in Rooms, NEW k \in Recs,
             JoinRefused(s, r, k) \/ JoinRoute(s, r, k)
      PROVE  CapacityInv'
  <2>1. /\ registry' = [registry EXCEPT ![r] = k]
        /\ registry[r] = k \/ k \notin used
    BY <1>3, FindRoomEffect DEF JoinRefused, JoinRoute
  <2>2. /\ UNCHANGED <<members, router, openRouters>> /\ join[s] = "no"
        /\ target' = [target EXCEPT ![s] = r]
        /\ \/ join' = [join EXCEPT ![s] = "refused"]
           \/ join' = [join EXCEPT ![s] = "routing"] /\ ~IsFull(k)
    BY <1>3 DEF JoinRefused, JoinRoute, SendsJoin, Refuse
  <2>3. ~IsFull(k) => Capacity # 0
    BY RoomsAreFinite, FS_CardinalityType DEF IsFull
  <2>4. \A q \in Rooms : registry'[q] = registry[q] \/ registry'[q] \in Recs \ used
    BY <2>1 DEF InductiveInv, TypeOK
  <2>5. \A t \in Sockets : join[t] = "joined" =>
          join'[t] = "joined" /\ target'[t] = target[t]
    BY <2>2 DEF InductiveInv, TypeOK
  <2>6. \A t \in Sockets : join'[t] = "routing" => join[t] = "routing" \/ Capacity # 0
    BY <2>2, <2>3 DEF InductiveInv, TypeOK
  <2>7. QED BY <2>2, <2>4, <2>5, <2>6, QuietKeepsCapacity
<1>4. ASSUME NEW s \in Sockets, JoinRouterFails(s)
      PROVE  CapacityInv'
  <2>1. /\ UNCHANGED <<registry, members, router, openRouters>>
        /\ join[s] = "routing" /\ join' = [join EXCEPT ![s] = "refused"]
        /\ target' = [target EXCEPT ![s] = target[s]]
    BY <1>4 DEF JoinRouterFails, Refuse, heap
  <2>2. QED BY <2>1, QuietKeepsCapacity DEF InductiveInv, TypeOK
<1>5. ASSUME NEW r \in Rooms, NEW k \in Recs, CreateRoom(r, k)
      PROVE  CapacityInv'
  <2>1. /\ UNCHANGED <<members, router, openRouters, join, target>>
        /\ registry' = [registry EXCEPT ![r] = k] /\ k \in Recs \ used
    BY <1>5 DEF CreateRoom, CreateRecord, tasks
  <2>2. QED BY <2>1, QuietKeepsCapacity DEF InductiveInv, TypeOK
<1>6. ASSUME NEW s \in Sockets, LeaveFinish(s) \/ CloseFinish(s)
      PROVE  CapacityInv'
  <2>1. PICK k \in Recs : Captured(s, k) /\ RemovePeer(s, k)
    BY <1>6
    DEF LeaveFinish, CloseFinish, Depart, InductiveInv, Captures, Captured
  <2>2. UNCHANGED <<join, target, router>>
    BY <1>6 DEF LeaveFinish, CloseFinish, Depart
  <2>3. QED BY <2>1, <2>2, RemovalKeepsCapacity
<1>7. CASE Restart
  <2>1. /\ openRouters' = {} /\ \A t \in Sockets : join'[t] # "routing"
        /\ \A r \in Rooms : registry'[r] \notin Recs
    BY <1>7, RecsAssumption DEF Restart, InductiveInv, TypeOK
  <2>2. RouterOwners' /\ OverbookingBounded'
    BY <2>1 DEF RouterOwners, OverbookingBounded
  <2>3. QED BY <2>2 DEF CapacityInv
<1>8. CASE Heartbeat \/ UNCHANGED vars
  <2>1. UNCHANGED <<registry, members, router, openRouters, join, target>>
    BY <1>8 DEF Heartbeat, vars, tasks, heap
  <2>2. QED BY <2>1, QuietKeepsCapacity
<1>9. QED
  BY <1>1, <1>2, <1>3, <1>4, <1>5, <1>6, <1>7, <1>8, JoinAtOnceKeepsCapacity,
     JoinResumeKeepsCapacity, DeleteKeepsCapacity
  DEF Next, JoinStep, DepartStep, RoomStep

\* maxParticipants across the await in createRouter: however joins, leaves,
\* deletions and restarts overlap, a room is over its limit only by peers that
\* each made a router for it, by fewer than there are routers open, and whoever
\* joined without making one fits in (server.js:298-319, meetRooms.js:63-73).
THEOREM OverbookingIsBounded == Spec => []OverbookingBounded
<1>1. InductiveInv /\ InductiveInv' /\ CapacityInv /\ [Next]_vars => CapacityInv'
  BY NextKeepsCapacity
<1>2. Spec => []CapacityInv
  BY <1>1, CapacityInit, Inductive, PTL DEF Spec
<1>3. QED BY <1>2, PTL DEF CapacityInv

(***************************************************************************)
(* The server implements RoomVisits.                                       *)
(*                                                                         *)
(* Most steps leave what RoomVisits sees alone (Unseen). The two ends of   *)
(* meet-join are arrivals, the four ends of the departures are departures, *)
(* or unseen when their participant had gone before.                       *)
(***************************************************************************)
Unseen == UNCHANGED <<Roster, Been, usage, ended, restarts>>

LEMMA VisitsInit == Init => Visits!Init
<1> SUFFICES ASSUME Init PROVE Visits!Init
  OBVIOUS
<1>1. \A r \in Rooms : Present(r) = {}
  BY RecsAssumption DEF Init, Present
<1>2. Been = {}
  BY DEF Init, Been
<1>3. QED BY <1>1, <1>2 DEF Init, Visits!Init, Roster

LEMMA UnseenStutters == Unseen => UNCHANGED Visits!vars
BY DEF Unseen, Visits!vars

\* A fresh record in the map is as good as none.
LEMMA FreshIsEmpty ==
  ASSUME InductiveInv, UNCHANGED members,
         \A r \in Rooms : registry'[r] = registry[r] \/
           (registry[r] = NoRec /\ registry'[r] \in Recs \ used)
  PROVE  UNCHANGED Roster
<1>1. \A k \in Recs \ used : members[k] = {}
  BY DEF InductiveInv, FreshRecs
<1>2. \A r \in Rooms : Present(r)' = Present(r)
  BY <1>1, RecsAssumption DEF Present
<1>3. QED BY <1>2 DEF Roster

\* Whoever is in a room asked for that room, and has been let in.
LEMMA PresentAreThere ==
  ASSUME InductiveInv
  PROVE  \A r \in Rooms : \A t \in Present(r) :
           t \in Sockets /\ target[t] = r /\ join[t] = "joined"
BY DEF InductiveInv, TypeOK, OneHome, Present

\* A peer admitted to record k is seen in the room that has k, if one has.
LEMMA AdmitArrives ==
  ASSUME InductiveInv, NEW s \in Sockets, NEW r \in Rooms, NEW k \in Recs,
         Admit(s, r, k), join[s] # "joined",
         UNCHANGED <<registry, ended, restarts>>,
         \A q \in Rooms : registry[q] = k => q = r
  PROVE  Visits!Arrive(s, r)
<1>1. members' = [members EXCEPT ![k] = @ \cup {s}]
  BY DEF Admit
<1>2. s \notin Been /\ Been' = Been \cup {s}
  BY DEF Admit, Been, InductiveInv, TypeOK
<1>3. usage' = IF r \in Owned THEN [usage EXCEPT ![s] = "open"] ELSE usage
  BY DEF Admit, UsageAfterJoin
<1>4. \A q \in Rooms : q # r => Present(q)' = Present(q)
  BY <1>1 DEF Present, InductiveInv, TypeOK
<1>5. CASE registry[r] = k
  <2>1. ~ended[r]
    BY <1>5, RecsAssumption DEF InductiveInv, EndedStaysGone
  <2>2. Present(r)' = Present(r) \cup {s}
    BY <1>1, <1>5 DEF Present, InductiveInv, TypeOK
  <2>3. Roster' = [Roster EXCEPT ![r] = @ \cup {s}]
    BY <1>4, <2>2 DEF Roster
  <2>4. QED BY <1>2, <1>3, <2>1, <2>3 DEF Visits!Arrive
<1>6. CASE registry[r] # k
  <2>1. Present(r)' = Present(r)
    BY <1>1, <1>6 DEF Present, InductiveInv, TypeOK
  <2>2. UNCHANGED Roster
    BY <1>4, <2>1 DEF Roster
  <2>3. QED BY <1>2, <1>3, <2>2 DEF Visits!Arrive
<1>7. QED BY <1>5, <1>6

\* A departure that finds its peer where it captured it, or nowhere.
LEMMA RemovalDeparts ==
  ASSUME InductiveInv, NEW s \in Sockets, NEW k \in Recs, Captured(s, k),
         Depart(s, k), UNCHANGED join
  PROVE  Visits!Depart(s)
<1>1. /\ members' = [members EXCEPT ![k] = @ \ {s}]
      /\ \/ UNCHANGED registry
         \/ /\ members[k] = {s} /\ registry[target[s]] = k /\ target[s] \in Rooms
            /\ registry' = [registry EXCEPT ![target[s]] = NoRec]
  BY RemovalEffect DEF Depart
<1>2. s \in Been /\ UNCHANGED <<Been, ended, restarts>>
  BY DEF Been, Captured, Depart
<1>3. usage' = IF usage[s] = "open" THEN [usage EXCEPT ![s] = "closed"] ELSE usage
  BY DEF Depart, UsageAfterClose
<1>4. ASSUME NEW r \in Rooms
      PROVE  Present(r)' = Present(r) \ {s}
  <2>1. CASE registry[r] = k
    <3>1. CASE registry'[r] = registry[r]
      BY <1>1, <2>1, <3>1 DEF Present, InductiveInv, TypeOK
    <3>2. CASE registry'[r] = NoRec /\ members[k] = {s}
      BY <2>1, <3>2, RecsAssumption DEF Present
    <3>3. QED BY <1>1, <3>1, <3>2 DEF InductiveInv, TypeOK
  <2>2. CASE registry[r] # k
    <3>1. registry'[r] = registry[r]
      BY <1>1, <2>2 DEF InductiveInv, TypeOK
    <3>2. Present(r)' = Present(r)
      BY <1>1, <2>2, <3>1 DEF Present, InductiveInv, TypeOK
    <3>3. s \notin Present(r)
      BY <2>2 DEF Present, Captured
    <3>4. QED BY <3>2, <3>3
  <2>3. QED BY <2>1, <2>2
<1>5. Roster' = [r \in Rooms |-> Roster[r] \ {s}]
  BY <1>4 DEF Roster
<1>6. QED BY <1>2, <1>3, <1>5 DEF Visits!Depart

\* A departure whose peer is not in the room the map has.
LEMMA AbsentDeparts ==
  ASSUME InductiveInv, NEW s \in Sockets, ~IsPeer(s, CurrentRoom(s)),
         Depart(s, CurrentRoom(s)), UNCHANGED join
  PROVE  Visits!Depart(s) \/ Unseen
<1>1. UNCHANGED <<registry, members, ended, restarts>>
  BY DEF Depart, RemovePeer
<1>2. UNCHANGED <<Roster, Been>>
  BY <1>1 DEF Roster, Present, Been
<1>3. usage' = IF usage[s] = "open" THEN [usage EXCEPT ![s] = "closed"] ELSE usage
  BY DEF Depart, UsageAfterClose
<1>4. CASE join[s] = "joined"
  <2>1. \A r \in Rooms : s \notin Present(r)
    BY <1>4, PresentAreThere, RecsAssumption DEF Present, IsPeer, CurrentRoom
  <2>2. Roster' = [r \in Rooms |-> Roster[r] \ {s}]
    BY <1>2, <2>1 DEF Roster
  <2>3. QED BY <1>1, <1>2, <1>3, <1>4, <2>2 DEF Visits!Depart, Been
<1>5. CASE join[s] # "joined"
  <2>1. usage[s] = "none"
    BY <1>5 DEF InductiveInv, ConnectionStages
  <2>2. QED BY <1>1, <1>2, <1>3, <2>1 DEF Unseen
<1>6. QED BY <1>4, <1>5

LEMMA VisitsStep == InductiveInv /\ [Next]_vars => [Visits!Next]_Visits!vars
<1> SUFFICES ASSUME InductiveInv, [Next]_vars PROVE Visits!Next \/ Unseen
  BY UnseenStutters
<1>1. ASSUME NEW s \in Sockets,
             ClientStep(s) \/ LeaveMeasure(s) \/ CloseSkip(s) \/ CloseMeasure(s)
      PROVE  Unseen
  <2>1. UNCHANGED <<registry, members, join, usage, ended, restarts>>
    BY <1>1
    DEF ClientStep, Connect, ClientClose, Vanish, Pong, LeaveMeasure, CloseSkip,
        CloseMeasure, tasks, heap, disk
  <2>2. QED BY <2>1 DEF Unseen, Roster, Present, Been
<1>2. ASSUME NEW s \in Sockets,
             JoinRouterFails(s) \/ \E r \in Rooms : JoinMissing(s, r)
      PROVE  Unseen
  <2>1. /\ UNCHANGED <<registry, members, usage, ended, restarts>>
        /\ join[s] # "joined" /\ join' = [join EXCEPT ![s] = "refused"]
    BY <1>2 DEF JoinRouterFails, JoinMissing, SendsJoin, Refuse, heap, disk
  <2>2. Been' = Been
    BY <2>1 DEF Been, InductiveInv, TypeOK
  <2>3. QED BY <2>1, <2>2 DEF Unseen, Roster, Present
<1>3. ASSUME NEW s \in Sockets, NEW r \in Rooms, NEW k \in Recs,
             JoinRefused(s, r, k) \/ JoinRoute(s, r, k)
      PROVE  Unseen
  <2>1. /\ registry' = [registry EXCEPT ![r] = k]
        /\ registry[r] = k \/ (registry[r] = NoRec /\ k \notin used)
    BY <1>3, FindRoomEffect DEF JoinRefused, JoinRoute
  <2>2. /\ UNCHANGED <<members, usage, ended, restarts>> /\ join[s] = "no"
        /\ \/ join' = [join EXCEPT ![s] = "refused"]
           \/ join' = [join EXCEPT ![s] = "routing"]
    BY <1>3 DEF JoinRefused, JoinRoute, SendsJoin, Refuse, disk
  <2>3. UNCHANGED Roster
    BY <2>1, <2>2, FreshIsEmpty DEF InductiveInv, TypeOK
  <2>4. Been' = Been
    BY <2>2 DEF Been, InductiveInv, TypeOK
  <2>5. QED BY <2>2, <2>3, <2>4 DEF Unseen
<1>4. ASSUME NEW s \in Sockets, NEW r \in Rooms, NEW k \in Recs,
             JoinAtOnce(s, r, k)
      PROVE  Visits!Next
  <2>1. /\ registry' = [registry EXCEPT ![r] = k]
        /\ registry[r] = k \/ (registry[r] = NoRec /\ k \notin used)
    BY <1>4, FindRoomEffect DEF JoinAtOnce
  <2>2. /\ Admit(s, r, k) /\ join[s] = "no" /\ router[k] # NoSocket
        /\ UNCHANGED <<ended, restarts>>
    BY <1>4 DEF JoinAtOnce, SendsJoin
  <2>3. registry[r] = k /\ UNCHANGED registry
    BY <2>1, <2>2 DEF InductiveInv, FreshRecs, TypeOK
  <2>4. \A q \in Rooms : registry[q] = k => q = r
    BY <2>3, RecsAssumption DEF InductiveInv, OneHome
  <2>5. Visits!Arrive(s, r)
    BY <2>2, <2>3, <2>4, AdmitArrives
  <2>6. QED BY <2>5 DEF Visits!Next
<1>5. ASSUME NEW s \in Sockets, JoinResume(s)
      PROVE  Visits!Next
  <2>1. /\ joinRec[s] \in Recs /\ target[s] \in Rooms /\ join[s] = "routing"
        /\ Admit(s, target[s], joinRec[s]) /\ UNCHANGED <<registry, ended, restarts>>
    BY <1>5 DEF JoinResume, InductiveInv, ConnectionStages
  <2>2. \A q \in Rooms : registry[q] = joinRec[s] => q = target[s]
    BY <2>1 DEF InductiveInv, OneHome
  <2>3. Visits!Arrive(s, target[s])
    BY <2>1, <2>2, AdmitArrives
  <2>4. QED BY <2>1, <2>3 DEF Visits!Next
<1>6. ASSUME NEW s \in Sockets, LeaveFinish(s) \/ CloseFinish(s)
      PROVE  Visits!Next
  <2>1. PICK k \in Recs : Captured(s, k) /\ Depart(s, k)
    BY <1>6 DEF LeaveFinish, CloseFinish, InductiveInv, Captures, Captured
  <2>2. UNCHANGED join
    BY <1>6 DEF LeaveFinish, CloseFinish
  <2>3. Visits!Depart(s)
    BY <2>1, <2>2, RemovalDeparts
  <2>4. QED BY <2>3 DEF Visits!Next
<1>7. ASSUME NEW s \in Sockets, LeaveAtOnce(s) \/ CloseAtOnce(s)
      PROVE  Visits!Next \/ Unseen
  <2>1. /\ ~IsPeer(s, CurrentRoom(s)) /\ Depart(s, CurrentRoom(s))
        /\ UNCHANGED join
    BY <1>7 DEF LeaveAtOnce, CloseAtOnce
  <2>2. QED BY <2>1, AbsentDeparts DEF Visits!Next
<1>8. ASSUME NEW r \in Rooms, DeleteRoom(r)
      PROVE  Visits!Next
  <2>1. /\ registry' = [registry EXCEPT ![r] = NoRec]
        /\ members' = [k \in Recs |-> IF k = registry[r] THEN {} ELSE members[k]]
        /\ r \in Owned /\ ended' = [ended EXCEPT ![r] = TRUE]
        /\ UNCHANGED <<join, usage, restarts>>
    BY <1>8 DEF DeleteRoom, tasks
  <2>2. Present(r)' = {}
    BY <2>1, RecsAssumption DEF Present, InductiveInv, TypeOK
  <2>3. \A q \in Rooms \ {r} : Present(q)' = Present(q)
    BY <2>1, RecsAssumption DEF Present, InductiveInv, TypeOK, OneHome
  <2>4. Roster' = [Roster EXCEPT ![r] = {}]
    BY <2>2, <2>3 DEF Roster
  <2>5. Visits!End(r)
    BY <2>1, <2>4 DEF Visits!End, Been
  <2>6. QED BY <2>5 DEF Visits!Next
<1>9. ASSUME NEW r \in Rooms, NEW k \in Recs, CreateRoom(r, k)
      PROVE  Unseen
  <2>1. /\ registry' = [registry EXCEPT ![r] = k] /\ k \in Recs \ used
        /\ ~created[r] /\ UNCHANGED <<members, join, usage, ended, restarts>>
    BY <1>9 DEF CreateRoom, CreateRecord, tasks
  <2>2. registry[r] = NoRec
    BY <2>1 DEF InductiveInv, RoomsWereCreated
  <2>3. UNCHANGED Roster
    BY <2>1, <2>2, FreshIsEmpty DEF InductiveInv, TypeOK
  <2>4. QED BY <2>1, <2>3 DEF Unseen, Been
<1>10. CASE Restart
  <2>1. \A r \in Rooms : Present(r)' = {}
    BY <1>10, RecsAssumption DEF Restart, Present
  <2>2. Been' = Been
    BY <1>10 DEF Restart, Been, InductiveInv, TypeOK
  <2>3. Roster' = [r \in Rooms |-> {}]
    BY <2>1 DEF Roster
  <2>4. Visits!Reboot
    BY <1>10, <2>2, <2>3 DEF Restart, Visits!Reboot, UsageAfterBoot
  <2>5. QED BY <2>4 DEF Visits!Next
<1>11. CASE Heartbeat \/ UNCHANGED vars
  <2>1. UNCHANGED <<registry, members, join, usage, ended, restarts>>
    BY <1>11 DEF Heartbeat, vars, tasks, heap, disk
  <2>2. QED BY <2>1 DEF Unseen, Roster, Present, Been
<1>12. QED
  BY <1>1, <1>2, <1>3, <1>4, <1>5, <1>6, <1>7, <1>8, <1>9, <1>10, <1>11
  DEF Next, JoinStep, DepartStep, RoomStep

\* To its customers the server is RoomVisits: whatever handlers overlap, rooms
\* and rows change by whole visits (server.js:298-402, 695-708, 166-196).
THEOREM VisitsImplemented == Spec => ImplementsVisits
<1>1. QED
  BY VisitsInit, VisitsStep, Inductive, PTL
  DEF Spec, ImplementsVisits, Visits!Spec

(***************************************************************************)
(* RoomVisits implements UsageLedger, and so does the server.              *)
(***************************************************************************)
\* Only who has been in a room has a row.
RowsOfVisitors ==
  /\ usage \in [Sockets -> UsageStates]
  /\ \A s \in Sockets \ Been : usage[s] = "none"

LEMMA RowsInit == Visits!Init => RowsOfVisitors
BY DEF Visits!Init, RowsOfVisitors, UsageStates

LEMMA RowsStep ==
  ASSUME RowsOfVisitors, [Visits!Next]_Visits!vars
  PROVE  RowsOfVisitors' /\ [Ledger!Next]_Ledger!vars
<1>1. ASSUME NEW s \in Sockets, NEW r \in Rooms, Visits!Arrive(s, r)
      PROVE  RowsOfVisitors' /\ (Ledger!Open(s) \/ UNCHANGED Ledger!vars)
  <2>1. usage[s] = "none" /\ UNCHANGED restarts
    BY <1>1 DEF RowsOfVisitors, Visits!Arrive
  <2>2. QED
    BY <1>1, <2>1
    DEF RowsOfVisitors, UsageStates, Visits!Arrive, Ledger!Open, Ledger!vars
<1>2. ASSUME NEW s \in Sockets, Visits!Depart(s)
      PROVE  RowsOfVisitors' /\ (Ledger!Close(s) \/ UNCHANGED Ledger!vars)
  BY <1>2
  DEF RowsOfVisitors, UsageStates, Visits!Depart, Ledger!Close, Ledger!vars
<1>3. ASSUME NEW r \in Rooms, Visits!End(r)
      PROVE  RowsOfVisitors' /\ UNCHANGED Ledger!vars
  BY <1>3 DEF RowsOfVisitors, Visits!End, Ledger!vars
<1>4. CASE Visits!Reboot
  <2>1. Ledger!Reconcile
    BY <1>4 DEF Visits!Reboot, Ledger!Reconcile
  <2>2. RowsOfVisitors'
    BY <1>4 DEF RowsOfVisitors, UsageStates, Visits!Reboot
  <2>3. QED BY <2>1, <2>2 DEF Ledger!Next
<1>5. CASE UNCHANGED Visits!vars
  BY <1>5 DEF RowsOfVisitors, Visits!vars, Ledger!vars
<1>6. QED BY <1>1, <1>2, <1>3, <1>4, <1>5 DEF Visits!Next, Ledger!Next

\* Visits keep the books: a behaviour of RoomVisits is one of the ledger
\* (db.js:67-79, platformStore.js:125-158).
THEOREM VisitsKeepTheLedger == Visits!Spec => Ledger!Spec
<1>1. Visits!Init => Ledger!Init
  BY DEF Visits!Init, Ledger!Init
<1>2. RowsOfVisitors /\ [Visits!Next]_Visits!vars =>
        RowsOfVisitors' /\ [Ledger!Next]_Ledger!vars
  BY RowsStep
<1>3. QED BY <1>1, <1>2, RowsInit, PTL DEF Visits!Spec, Ledger!Spec

\* Rows are opened once and closed once, one at a time, by the session they
\* belong to, or all open ones by a boot (db.js:67-69, 199-207).
THEOREM LedgerImplemented == Spec => ImplementsLedger
<1>1. QED
  BY VisitsImplemented, VisitsKeepTheLedger, PTL
  DEF ImplementsVisits, ImplementsLedger

(***************************************************************************)
(* Every record implements RoomRecord, which is what MediaDemand takes for *)
(* granted. Seen from one record k, most steps change nothing (Still).     *)
(***************************************************************************)
Inside(k) == IF InMap(k) THEN members[k] ELSE {}

Still(k) == UNCHANGED <<Life(k), Inside(k), Been>>

\* What k is to its room, in terms of the map.
LEMMA StillRecord ==
  ASSUME NEW k \in Recs, UNCHANGED <<used, registry, members, Been>>
  PROVE  Still(k)
<1>1. InMap(k)' = InMap(k)
  BY DEF InMap
<1>2. QED BY <1>1 DEF Still, Life, Inside

\* A record put into the map is made, and the others see nothing of it.
LEMMA RecordMade ==
  ASSUME InductiveInv, NEW k \in Recs, NEW r \in Rooms, NEW j \in Recs,
         used' = used \cup {j}, registry' = [registry EXCEPT ![r] = j],
         registry[r] = j \/ (registry[r] = NoRec /\ j \notin used),
         UNCHANGED <<members, Been>>
  PROVE  Record(k)!Make \/ Still(k)
<1>1. CASE registry[r] = j
  <2>1. registry' = registry /\ used' = used
    BY <1>1, RecsAssumption DEF InductiveInv, TypeOK, FreshRecs
  <2>2. QED BY <2>1, StillRecord
<1>2. CASE registry[r] = NoRec /\ j \notin used
  <2>1. ASSUME k = j
        PROVE  Record(k)!Make
    <3>1. ~InMap(k) /\ members[k] = {} /\ Life(k) = "fresh"
      BY <1>2, <2>1 DEF InductiveInv, FreshRecs, InMap, Life
    <3>2. InMap(k)' /\ Life(k)' = "open"
      BY <2>1 DEF InductiveInv, TypeOK, InMap, Life
    <3>3. QED BY <3>1, <3>2 DEF Record!Make
  <2>2. ASSUME k # j
        PROVE  Still(k)
    <3>1. InMap(k)' = InMap(k)
      BY <1>2, <2>2, RecsAssumption DEF InductiveInv, TypeOK, InMap
    <3>2. QED BY <2>2, <3>1 DEF Still, Life, Inside
  <2>3. QED BY <2>1, <2>2
<1>3. QED BY <1>1, <1>2

\* A peer admitted to record j joins k, or joins elsewhere.
LEMMA RecordJoined ==
  ASSUME InductiveInv, NEW k \in Recs, NEW s \in Sockets, NEW r, NEW j \in Recs,
         Admit(s, r, j), join[s] # "joined", UNCHANGED <<registry, used>>
  PROVE  Record(k)!Join(s) \/ Record(k)!Elsewhere(s)
<1>1. members' = [members EXCEPT ![j] = @ \cup {s}]
  BY DEF Admit
<1>2. s \notin Been /\ Been' = Been \cup {s}
  BY DEF Admit, Been, InductiveInv, TypeOK
<1>3. InMap(k)' = InMap(k)
  BY DEF InMap
<1>4. Life(k)' = Life(k)
  BY <1>3 DEF Life
<1>5. CASE InMap(k) /\ j = k
  <2>1. Life(k) = "open"
    BY <1>5, RecsAssumption DEF Life, InMap, InductiveInv, FreshRecs
  <2>2. members'[k] = members[k] \cup {s}
    BY <1>1, <1>5 DEF InductiveInv, TypeOK
  <2>3. QED BY <1>2, <1>3, <1>4, <1>5, <2>1, <2>2 DEF Record!Join
<1>6. CASE ~(InMap(k) /\ j = k)
  <2>1. Inside(k)' = Inside(k)
    BY <1>1, <1>3, <1>6 DEF Inside, InductiveInv, TypeOK
  <2>2. QED BY <1>2, <1>4, <2>1 DEF Record!Elsewhere, Inside
<1>7. QED BY <1>5, <1>6

\* A peer removed from the record it was captured in.
LEMMA RecordLeft ==
  ASSUME InductiveInv, NEW k \in Recs, NEW s \in Sockets, NEW j \in Recs,
         Captured(s, j), RemovePeer(s, j), UNCHANGED <<used, Been>>
  PROVE  Record(k)!Depart(s) \/ Still(k)
<1>1. /\ members' = [members EXCEPT ![j] = @ \ {s}]
      /\ s \notin members[j] => UNCHANGED registry
  BY RemovalEffect DEF RemovePeer, IsPeer
<1>2. CASE s \notin members[j]
  <2>1. members' = members
    BY <1>1, <1>2 DEF InductiveInv, TypeOK
  <2>2. QED BY <1>1, <1>2, <2>1, StillRecord
<1>3. CASE s \in members[j]
  <2>1. /\ registry[target[s]] = j /\ target[s] \in Rooms
        /\ IF members[j] = {s} THEN registry' = [registry EXCEPT ![target[s]] = NoRec]
                               ELSE registry' = registry
    BY <1>3, RecsAssumption
    DEF RemovePeer, IsPeer, Captured, InductiveInv, ConnectionStages
  <2>2. ASSUME k = j
        PROVE  Record(k)!Depart(s)
    <3>1. InMap(k) /\ Life(k) = "open"
      BY <2>1, <2>2 DEF InMap, Life, InductiveInv, FreshRecs
    <3>2. members'[k] = members[k] \ {s}
      BY <1>1, <2>2 DEF InductiveInv, TypeOK
    <3>3. CASE members[j] = {s}
      <4>1. ~InMap(k)'
        <5>1. /\ registry' = [registry EXCEPT ![target[s]] = NoRec]
              /\ registry \in [Rooms -> Recs \cup {NoRec}]
              /\ registry[target[s]] = k /\ target[s] \in Rooms
          BY <2>1, <2>2, <3>3 DEF InductiveInv, TypeOK
        <5>2. \A r \in Rooms : r # target[s] => registry[r] # k
          BY <5>1, RecsAssumption DEF InductiveInv, OneHome
        <5>3. ~ \E r \in Rooms : registry'[r] = k
          BY <5>1, <5>2, RecsAssumption
        <5>4. QED BY <5>3 DEF InMap
      <4>2. Life(k)' = "over"
        BY <3>1, <4>1 DEF Life
      <4>3. Inside(k) = {s} /\ Inside(k)' = {}
        BY <2>2, <3>1, <3>3, <4>1 DEF Inside
      <4>4. QED BY <4>2, <4>3 DEF Record!Depart, Inside
    <3>4. CASE members[j] # {s}
      <4>1. InMap(k)' = InMap(k)
        BY <2>1, <3>4 DEF InMap
      <4>2. Life(k)' = Life(k)
        BY <4>1 DEF Life
      <4>3. /\ Inside(k) = members[k] /\ Inside(k)' = members[k] \ {s}
            /\ s \in members[k] /\ members[k] # {s}
        BY <1>3, <2>2, <3>1, <3>2, <3>4, <4>1 DEF Inside
      <4>4. QED BY <4>2, <4>3 DEF Record!Depart, Inside
    <3>5. QED BY <3>3, <3>4
  <2>3. ASSUME k # j
        PROVE  Still(k)
    <3>1. members'[k] = members[k]
      BY <1>1, <2>3 DEF InductiveInv, TypeOK
    <3>2. InMap(k)' = InMap(k)
      BY <2>1, <2>3, RecsAssumption DEF InMap, InductiveInv, TypeOK
    <3>3. QED BY <3>1, <3>2 DEF Still, Life, Inside
  <2>4. QED BY <2>2, <2>3
<1>4. QED BY <1>2, <1>3

LEMMA RecordInit ==
  ASSUME Init, NEW k \in Recs
  PROVE  Record(k)!Init
<1>1. ~InMap(k) /\ Life(k) = "fresh" /\ Been = {}
  BY RecsAssumption DEF Init, InMap, Life, Been
<1>2. QED BY <1>1 DEF Record!Init

LEMMA RecordStep ==
  ASSUME InductiveInv, [Next]_vars, NEW k \in Recs
  PROVE  Record(k)!Next \/ Still(k)
<1>1. ASSUME NEW s \in Sockets,
             \/ ClientStep(s) \/ LeaveMeasure(s) \/ LeaveAtOnce(s)
             \/ CloseSkip(s) \/ CloseMeasure(s) \/ CloseAtOnce(s)
      PROVE  Still(k)
  <2>1. UNCHANGED <<registry, used, members, join>>
    BY <1>1
    DEF ClientStep, Connect, ClientClose, Vanish, Pong, LeaveMeasure, CloseSkip,
        CloseMeasure, LeaveAtOnce, CloseAtOnce, Depart, RemovePeer, tasks, heap
  <2>2. QED BY <2>1, StillRecord DEF Been
<1>2. ASSUME NEW s \in Sockets,
             JoinRouterFails(s) \/ \E r \in Rooms : JoinMissing(s, r)
      PROVE  Still(k)
  <2>1. /\ UNCHANGED <<registry, used, members>>
        /\ join[s] # "joined" /\ join' = [join EXCEPT ![s] = "refused"]
    BY <1>2 DEF JoinRouterFails, JoinMissing, SendsJoin, Refuse, heap
  <2>2. Been' = Been
    BY <2>1 DEF Been, InductiveInv, TypeOK
  <2>3. QED BY <2>1, <2>2, StillRecord
<1>3. ASSUME NEW s \in Sockets, NEW r \in Rooms, NEW j \in Recs,
             JoinRefused(s, r, j) \/ JoinRoute(s, r, j)
      PROVE  Record(k)!Next \/ Still(k)
  <2>1. /\ used' = used \cup {j} /\ registry' = [registry EXCEPT ![r] = j]
        /\ registry[r] = j \/ (registry[r] = NoRec /\ j \notin used)
    BY <1>3, FindRoomEffect DEF JoinRefused, JoinRoute
  <2>2. /\ UNCHANGED members /\ join[s] = "no"
        /\ \/ join' = [join EXCEPT ![s] = "refused"]
           \/ join' = [join EXCEPT ![s] = "routing"]
    BY <1>3 DEF JoinRefused, JoinRoute, SendsJoin, Refuse
  <2>3. Been' = Been
    BY <2>2 DEF Been, InductiveInv, TypeOK
  <2>4. QED BY <2>1, <2>2, <2>3, RecordMade DEF Record!Next
<1>4. ASSUME NEW s \in Sockets, NEW r \in Rooms, NEW j \in Recs,
             JoinAtOnce(s, r, j)
      PROVE  Record(k)!Next
  <2>1. /\ used' = used \cup {j} /\ registry' = [registry EXCEPT ![r] = j]
        /\ registry[r] = j \/ (registry[r] = NoRec /\ j \notin used)
    BY <1>4, FindRoomEffect DEF JoinAtOnce
  <2>2. Admit(s, r, j) /\ join[s] = "no" /\ router[j] # NoSocket
    BY <1>4 DEF JoinAtOnce, SendsJoin
  <2>3. UNCHANGED <<registry, used>>
    BY <2>1, <2>2, RecsAssumption DEF InductiveInv, FreshRecs, TypeOK
  <2>4. QED BY <2>2, <2>3, RecordJoined DEF Record!Next
<1>5. ASSUME NEW s \in Sockets, JoinResume(s)
      PROVE  Record(k)!Next
  <2>1. /\ joinRec[s] \in Recs /\ join[s] = "routing"
        /\ Admit(s, target[s], joinRec[s]) /\ UNCHANGED <<registry, used>>
    BY <1>5 DEF JoinResume, InductiveInv, ConnectionStages
  <2>2. QED BY <2>1, RecordJoined DEF Record!Next
<1>6. ASSUME NEW s \in Sockets, LeaveFinish(s) \/ CloseFinish(s)
      PROVE  Record(k)!Next \/ Still(k)
  <2>1. PICK j \in Recs : Captured(s, j) /\ RemovePeer(s, j)
    BY <1>6
    DEF LeaveFinish, CloseFinish, Depart, InductiveInv, Captures, Captured
  <2>2. UNCHANGED <<used, Been>>
    BY <1>6 DEF LeaveFinish, CloseFinish, Depart, Been
  <2>3. QED BY <2>1, <2>2, RecordLeft DEF Record!Next
<1>7. ASSUME NEW r \in Rooms, DeleteRoom(r)
      PROVE  Record(k)!Next \/ Still(k)
  <2>1. /\ registry' = [registry EXCEPT ![r] = NoRec]
        /\ members' = [j \in Recs |-> IF j = registry[r] THEN {} ELSE members[j]]
        /\ UNCHANGED <<used, Been>>
    BY <1>7 DEF DeleteRoom, tasks, Been
  <2>2. ASSUME k = registry[r]
        PROVE  Record(k)!End
    <3>1. InMap(k) /\ Life(k) = "open"
      BY <2>2 DEF InMap, Life, InductiveInv, FreshRecs
    <3>2. ~InMap(k)' /\ Life(k)' = "over"
      BY <2>1, <2>2, <3>1, RecsAssumption
      DEF InMap, Life, InductiveInv, TypeOK, OneHome
    <3>3. QED BY <2>1, <3>1, <3>2 DEF Record!End
  <2>3. ASSUME k # registry[r]
        PROVE  Still(k)
    <3>1. members'[k] = members[k]
      BY <2>1, <2>3
    <3>2. InMap(k)' = InMap(k)
      BY <2>1, <2>3, RecsAssumption DEF InMap, InductiveInv, TypeOK
    <3>3. QED BY <2>1, <3>1, <3>2 DEF Still, Life, Inside
  <2>4. QED BY <2>2, <2>3 DEF Record!Next
<1>8. ASSUME NEW r \in Rooms, NEW j \in Recs, CreateRoom(r, j)
      PROVE  Record(k)!Next \/ Still(k)
  <2>1. /\ used' = used \cup {j} /\ registry' = [registry EXCEPT ![r] = j]
        /\ j \notin used /\ ~created[r] /\ UNCHANGED <<members, Been>>
    BY <1>8 DEF CreateRoom, CreateRecord, tasks, Been
  <2>2. registry[r] = NoRec
    BY <2>1 DEF InductiveInv, RoomsWereCreated
  <2>3. QED BY <2>1, <2>2, RecordMade DEF Record!Next
<1>9. CASE Restart
  <2>1. ~InMap(k)' /\ UNCHANGED used
    BY <1>9, RecsAssumption DEF Restart, InMap
  <2>2. Been' = Been
    BY <1>9 DEF Restart, Been, InductiveInv, TypeOK
  <2>3. CASE InMap(k)
    <3>1. Life(k) = "open" /\ Life(k)' = "over"
      BY <2>1, <2>3 DEF Life, InMap, InductiveInv, FreshRecs
    <3>2. Record(k)!End
      BY <2>1, <2>2, <3>1 DEF Record!End
    <3>3. QED BY <3>2 DEF Record!Next
  <2>4. CASE ~InMap(k)
    BY <2>1, <2>2, <2>4 DEF Still, Life, Inside
  <2>5. QED BY <2>3, <2>4
<1>10. CASE Heartbeat \/ UNCHANGED vars
  <2>1. UNCHANGED <<registry, used, members, join>>
    BY <1>10 DEF Heartbeat, vars, tasks, heap
  <2>2. QED BY <2>1, StillRecord DEF Been
<1>11. QED
  BY <1>1, <1>2, <1>3, <1>4, <1>5, <1>6, <1>7, <1>8, <1>9, <1>10
  DEF Next, JoinStep, DepartStep, RoomStep

\* Every record of the server is a RoomRecord, which is what MediaDemand takes
\* the room it models for (meetRooms.js:36-122).
THEOREM RecordsImplemented == Spec => ImplementsRecords
<1>1. Init => \A k \in Recs : Record(k)!Init
  BY RecordInit
<1>2. InductiveInv /\ [Next]_vars =>
        [\A k \in Recs : [Record(k)!Next]_(Record(k)!vars)]_vars
  <2>1. ASSUME NEW k \in Recs, Still(k)
        PROVE  UNCHANGED Record(k)!vars
    BY <2>1 DEF Still, Inside, Record!vars
  <2>2. QED BY <2>1, RecordStep
<1>3. QED BY <1>1, <1>2, Inductive, PTL DEF Spec, ImplementsRecords
==============================================================================
