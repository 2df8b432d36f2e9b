------------------------------ MODULE HubProofs ------------------------------
(***************************************************************************)
(* What the rooms of the hub promise, for any number of users, tasks,      *)
(* rooms and epochs. First the steps of Hub are sorted by what they do to  *)
(* its state (StepKinds), so that each later proof has a case for each     *)
(* kind and not one for each request. Then TypeOK, that member lists and   *)
(* sessions agree, that media ids name one membership and that the lock is *)
(* held by what it says are shown to be inductive together, and with them  *)
(* the refinement of RoomEpochs. Last what sessions, ways back and         *)
(* persistent records promise: AccessEarned as an invariant, RecordsLast   *)
(* as a property of steps.                                                 *)
(***************************************************************************)
EXTENDS Hub, FiniteSetTheorems, TLAPS

\* The fields of what is handed to Argon2 (PasswordWork).
LEMMA WorkFields ==
  ASSUME NEW w \in Works
  PROVE  /\ w.kind = "join" => w.room \in RoomIds /\ w.hash \in 1..MaxHash /\ w.matched \in BOOLEAN
         /\ w.kind = "password" => w.room \in RoomIds
  BY DEF Works, NoWork, CreateWork

\* What join, create_room and set_room_password hand to Argon2 is such work.
LEMMA WorksMade ==
  /\ NoWork \in Works /\ CreateWork \in Works
  /\ \A r \in RoomIds : PasswordWork(r) \in Works
  /\ \A r \in RoomIds, h \in 1..MaxHash, b \in BOOLEAN : JoinWork(r, h, b) \in Works
  BY DEF Works, NoWork, CreateWork, PasswordWork, JoinWork

\* The fields of what a handler that stops halfway has left to do.
LEMMA TodoFields ==
  ASSUME NEW d \in Todos
  PROVE  /\ d.op = "rejoin" => d.user \in Users /\ d.room \in RoomIds \cup {NoRoom}
         /\ d.op = "remove" => d.left \subseteq Users /\ d.why \in {"request", "inactive"}
         /\ d.op = "delete" => d.room \in RoomIds /\ d.left \subseteq Users
         /\ d.op \in {"rejoin", "remove", "delete", "free"}
  BY DEF Todos, Free

\* What connect, remove_user and delete_room leave to do is of that kind, with the fields it
\* was given.
LEMMA TodosMade ==
  /\ Free \in Todos
  /\ \A u \in Users, r \in RoomIds \cup {NoRoom} : 
        RejoinTodo(u, r) \in Todos /\ RejoinTodo(u, r).op = "rejoin"
        /\ RejoinTodo(u, r).user = u /\ RejoinTodo(u, r).room = r
  /\ \A S \in SUBSET Users, w \in {"request", "inactive"} :
        RemoveTodo(S, w) \in Todos /\ RemoveTodo(S, w).op = "remove"
        /\ RemoveTodo(S, w).left = S /\ RemoveTodo(S, w).why = w
  /\ \A r \in RoomIds, S \in SUBSET Users : 
        DeleteTodo(r, S) \in Todos /\ DeleteTodo(r, S).op = "delete"
        /\ DeleteTodo(r, S).room = r /\ DeleteTodo(r, S).left = S
  /\ Free.op = "free"
  BY DEF Todos, Free, RejoinTodo, RemoveTodo, DeleteTodo

\* place keeps the types of what a move changes, if the epochs it moves on and the media ids it
\* takes are not exhausted.
LEMMA MoveTyped ==
  ASSUME MoveOK, NEW u \in Users, NEW new \in RoomIds \cup {NoRoom}, NEW bump \in BOOLEAN,
         NEW tell \in BOOLEAN,
         bump => EpochsLeft({room[u], new}), new # NoRoom => nextAlloc <= MaxAlloc,
         Move(u, new, bump, tell)
  PROVE  MoveOK'
<1> USE HubConstants
<1>1. epoch' \in [RoomIds -> 0..MaxEpoch]
  BY SMTT(40) DEF MoveOK, Move, EpochsAfter, EpochsLeft, NoRoom, RoomIds
<1>2. nextAlloc' \in 1..(MaxAlloc + 1)
  BY DEF MoveOK, Move, SetMembership, AllocAfter
<1>3. room' \in [Users -> RoomIds \cup {NoRoom}]
  BY DEF MoveOK, Move, SetMembership
<1>4. tracks' \in [Users -> Allocs \cup {0}]
  BY DEF MoveOK, Move, SetMembership, Allocs
<1>5. share' \in [Users -> ShareSettings \cup {0}]
  BY DEF MoveOK, Move, SetMembership
<1>6. watching' \in [Users -> SUBSET TrackIds]
  BY DEF MoveOK, Move, SetMembership, WatchingAfter
<1>7. members' \in [RoomIds -> SUBSET Users]
  BY DEF MoveOK, Move, MembersAfter
<1>8. keyframes' \in [Allocs -> {"absent", "sent", "Refresh", "Idr"}]
  BY DEF MoveOK, Move, SetMembership
<1>9. owed' \subseteq Allocs /\ untold' \subseteq Users
  BY DEF MoveOK, Move, SetMembership, MoveTold
<1> QED BY <1>1, <1>2, <1>3, <1>4, <1>5, <1>6, <1>7, <1>8, <1>9 DEF MoveOK

-----------------------------------------------------------------------------
(* What a step does, whichever task asked for it. *)

\* Only connection tasks change.
Quiet == UNCHANGED <<acctVars, roomVars, sessVars, moveVars, accessVars, todo>>

\* A role is given.
Ranked ==
  /\ todo = Free
  /\ \E u \in Users, new \in RoleNames :
       account[u] \notin {NoAccount, "Admin"} /\ RoleChanged(u, new)

\* Rows of accounts are deleted.
Removing ==
  /\ todo = Free
  /\ \E S \in SUBSET Users, why \in {"request", "inactive"} :
       /\ RemoveUsers(S, why)
       /\ why = "request" =>
            \E t \in Tasks, u \in Users, cascade \in BOOLEAN : RemoveUser(t, u, cascade)

\* A key runs out.
Expiring == \E u \in Users : ExpireKey(u)

\* add_room.
RoomAdded ==
  /\ todo = Free
  /\ Cardinality(alive) < MaxRooms
  /\ \E h \in 0..MaxHash : h \in {0, nextHash} /\ AddRoom(h)

\* store_room_password.
PasswordStored ==
  /\ todo = Free
  /\ \E r \in alive, h \in 0..MaxHash : h \in {0, nextHash} /\ StoreRoomPassword(r, h)

\* delete_room, to its first move.
DeleteBegun ==
  /\ todo = Free
  /\ \E r \in alive : todo' = DeleteTodo(r, members[r])
  /\ UNCHANGED <<acctVars, roomVars, sessVars, moveVars, accessVars>>

\* connect, to the rejoin.
Connected ==
  /\ todo = Free
  /\ UNCHANGED <<acctVars, roomVars, accessVars>>
  /\ \E u \in Users, want \in RoomIds \cup {NoRoom} :
       /\ account[u] # NoAccount
       /\ nextConn <= MaxConn
       /\ conn' = [conn EXCEPT ![u] = nextConn]
       /\ nextConn' = nextConn + 1
       /\ role' = [role EXCEPT ![u] = account[u]]
       /\ deaf' = [deaf EXCEPT ![u] = FALSE]
       /\ todo' = RejoinTodo(u, want)
       /\ LeaveRoom(u)

\* A session ends: disconnect or evict.
Disconnected ==
  /\ todo = Free
  /\ UNCHANGED <<acctVars, roomVars, accessVars, todo>>
  /\ \E u \in Users : EndSession(u) /\ LeaveRoom(u)

\* Whether u may be in r without its password, or has just proved to know it.
MayEnter(u, r, proved) == proved \/ r = NoRoom \/ ~NeedsPassword(u, r)

\* enter, for join, finish_join and leave.
RoomEntered ==
  /\ todo = Free
  /\ UNCHANGED <<acctVars, roomVars, sessVars, todo>>
  /\ \E u \in Users, r \in alive \cup {NoRoom}, proved \in BOOLEAN :
       conn[u] # 0 /\ MayEnter(u, r, proved) /\ Enter(u, r, proved)

\* kick_from_room.
Kicked ==
  /\ todo = Free
  /\ UNCHANGED <<acctVars, roomVars, sessVars, byRank, todo>>
  /\ \E u \in Users :
       /\ room[u] # NoRoom
       /\ lastJoined' = [lastJoined EXCEPT ![u] = NoRoom]
       /\ inside' = [inside EXCEPT ![room[u]] = @ \ {u}]
       /\ LeaveRoom(u)

\* set_encryption_key.
KeyStored == \E t \in Tasks, rotates \in BOOLEAN : SetEncryptionKey(t, rotates)

\* set_media.
MediaSet ==
  \E t \in Tasks, d \in BOOLEAN, s \in ShareSettings \cup {0}, limited \in BOOLEAN :
    SetMedia(t, d, s, limited)

\* set_watched.
WatchedSet ==
  \E t \in Tasks, ids \in SUBSET TrackIds, due \in SUBSET Allocs : SetWatched(t, ids, due)

\* request_keyframe.
KeyframeAsked ==
  \E t \in Tasks, a \in Allocs, kind \in {"Refresh", "Idr"} :
    \E due \in SUBSET {a} : RequestKeyframe(t, a, kind, due)

\* flush_keyframes.
Flushed == \E due \in SUBSET Allocs : FlushKeyframes(due)

\* All of them.
Step ==
  \/ Quiet \/ Ranked \/ Removing \/ Expiring \/ RoomAdded \/ PasswordStored
  \/ DeleteBegun \/ DeleteStep \/ DeleteAborted \/ DeleteFinish
  \/ Connected \/ Rejoin \/ Disconnected \/ RoomEntered \/ Kicked \/ RemoveStep
  \/ KeyStored \/ MediaSet \/ WatchedSet \/ KeyframeAsked \/ Flushed \/ Restart

\* invite_tree names users.
LEMMA TreeTyped ==
  ASSUME NEW u \in Users
  PROVE  InviteTree(u) \in SUBSET Users
<1> DEFINE Closed(S) == u \in S /\ Invited(S) \subseteq S
           Least == {v \in Users : \A S \in SUBSET Users : Closed(S) => v \in S}
<1>1. Least \in SUBSET Users /\ u \in Least
  OBVIOUS
<1>2. Invited(Least) \subseteq Least
  BY DEF Invited
<1>3. \A T \in SUBSET Least : Closed(T) => T = Least
  OBVIOUS
<1> HIDE DEF Least
<1>4. \E S \in SUBSET Users :
    /\ u \in S /\ Invited(S) \subseteq S
    /\ \A T \in SUBSET S : u \in T /\ Invited(T) \subseteq T => T = S
  BY <1>1, <1>2, <1>3
<1> QED BY <1>4 DEF InviteTree

\* Whoever is let make a request has a session (is_current).
LEMMA AskerFacts ==
  ASSUME TypeOK, NEW t \in Tasks, Current(t)
  PROVE  tUser[t] \in Users /\ conn[tUser[t]] # 0
  BY DEF TypeOK, TaskOK, Current

\* Every step of the hub is of one of these kinds, and keeps the types of the connection tasks.
LEMMA StepKinds ==
  ASSUME TypeOK, MembersAgree, [Next]_vars
  PROVE  Step /\ TaskOK'
<1> USE HubConstants, WorksMade
<1>1. ASSUME NEW t \in Tasks, TaskStep(t)
      PROVE  Step /\ TaskOK'
  <2>1. ASSUME NEW u \in Users, Authenticate(t, u) PROVE Quiet /\ TaskOK'
    BY <2>1 DEF Authenticate, Quiet, TypeOK, TaskOK
  <2>2. ASSUME NEW r \in RoomIds \cup {NoRoom}, Connect(t, r) PROVE Connected /\ TaskOK'
    <3>1. tUser[t] \in Users
      BY <2>2 DEF Connect, TypeOK, TaskOK
    <3>2. Connected
      BY <2>2, <3>1 DEF Connect, Connected, StillThere
    <3>3. TaskOK'
      BY <2>2 DEF Connect, TypeOK, TaskOK, SessOK
    <3> QED BY <3>2, <3>3
  <2>3. CASE ConnectRefused(t)
    BY <2>3 DEF ConnectRefused, Quiet, TypeOK, TaskOK, Step
  <2>4. CASE Disconnect(t)
    <3>1. TaskOK'
      BY <2>4 DEF Disconnect, EndTask, TypeOK, TaskOK
    <3>2. CASE Current(t)
      BY <2>4, <3>1, <3>2, AskerFacts DEF Disconnect, Disconnected, Step
    <3>3. CASE ~Current(t)
      BY <2>4, <3>1, <3>3 DEF Disconnect, Quiet, Step
    <3> QED BY <3>2, <3>3
  <2>5. ASSUME NEW r \in RoomIds \cup {NoRoom}, Join(t, r) PROVE RoomEntered /\ TaskOK'
    <3>1. Current(t) /\ todo = Free /\ r \in alive \cup {NoRoom} /\ MayEnter(tUser[t], r, FALSE)
      BY <2>5 DEF Join, Asks, MayEnter
    <3>2. RoomEntered
      BY <2>5, <3>1, AskerFacts DEF Join, RoomEntered
    <3> QED BY <2>5, <3>2 DEF Join, taskVars, TypeOK, TaskOK
  <2>6. ASSUME NEW r \in RoomIds, NEW matched \in BOOLEAN, JoinWithPassword(t, r, matched)
        PROVE  Quiet /\ TaskOK'
    <3>1. hash[r] \in 1..MaxHash
      BY <2>6 DEF JoinWithPassword, NeedsPassword, TypeOK, RoomsOK
    <3> QED BY <2>6, <3>1 DEF JoinWithPassword, HandOut, Quiet, TypeOK, TaskOK
  <2>7. CASE FinishJoin(t)
    <3>1. tWork[t] \in Works /\ tWork[t].kind = "join"
      BY <2>7 DEF FinishJoin, Finishes, TypeOK, TaskOK
    <3> DEFINE r == tWork[t].room
    <3>2. r \in RoomIds
      BY <3>1, WorkFields
    <3>3. Current(t) /\ todo = Free /\ r \in alive \cup {NoRoom}
          /\ MayEnter(tUser[t], r, hash[r] = tWork[t].hash)
      BY <2>7 DEF FinishJoin, Finishes, MayFinishJoin, MayEnter
    <3>4. RoomEntered
      BY <2>7, <3>3, AskerFacts DEF FinishJoin, RoomEntered
    <3> QED BY <2>7, <3>4 DEF FinishJoin, Finishes, TypeOK, TaskOK, Step
  <2>8. CASE FinishCreateRoom(t)
    <3>1. TaskOK'
      BY <2>8 DEF FinishCreateRoom, Finishes, TypeOK, TaskOK
    <3>2. nextHash \in 0..MaxHash
      BY <2>8 DEF FinishCreateRoom, TypeOK, RoomsOK
    <3>3. RoomAdded
      BY <2>8, <3>2 DEF FinishCreateRoom, Finishes, RoomToCreate, RoomAdded
    <3> QED BY <3>1, <3>3 DEF Step
  <2>9. CASE FinishSetPassword(t)
    <3>1. TaskOK'
      BY <2>9 DEF FinishSetPassword, Finishes, TypeOK, TaskOK
    <3>2. nextHash \in 0..MaxHash
      BY <2>9 DEF FinishSetPassword, TypeOK, RoomsOK
    <3>3. PasswordStored
      BY <2>9, <3>2 DEF FinishSetPassword, Finishes, MayManageRoom, PasswordStored
    <3> QED BY <3>1, <3>3 DEF Step
  <2>10. CASE FinishRefused(t)
    BY <2>10 DEF FinishRefused, Quiet, TypeOK, TaskOK, Step
  <2>11. CASE CreateRoom(t)
    <3>1. RoomAdded
      BY <2>11 DEF CreateRoom, RoomToCreate, Asks, RoomAdded
    <3> QED BY <2>11, <3>1 DEF CreateRoom, taskVars, TypeOK, TaskOK, Step
  <2>12. CASE CreateLockedRoom(t)
    BY <2>12 DEF CreateLockedRoom, HandOut, Quiet, TypeOK, TaskOK, Step
  <2>13. ASSUME NEW r \in RoomIds, ClearRoomPassword(t, r) PROVE PasswordStored /\ TaskOK'
    BY <2>13 DEF ClearRoomPassword, Asks, MayManageRoom, PasswordStored, taskVars, TypeOK, TaskOK
  <2>14. ASSUME NEW r \in RoomIds, SetRoomPassword(t, r) PROVE Quiet /\ TaskOK'
    BY <2>14 DEF SetRoomPassword, HandOut, Quiet, TypeOK, TaskOK
  <2>15. ASSUME NEW r \in RoomIds, DeleteRoom(t, r) PROVE DeleteBegun /\ TaskOK'
    BY <2>15 DEF DeleteRoom, Asks, MayDeleteRoom, MayManageRoom, DeleteBegun, taskVars, TypeOK,
                 TaskOK
  <2>16. ASSUME NEW u \in Users, NEW new \in RoleNames, SetRole(t, u, new) PROVE Ranked /\ TaskOK'
    <3>1. account[u] \notin {NoAccount, "Admin"}
      BY <2>16 DEF SetRole, CanSetRole, Rank
    <3> QED BY <2>16, <3>1 DEF SetRole, Asks, Ranked, RoleChanged, taskVars, TypeOK, TaskOK
  <2>17. ASSUME NEW u \in Users, KickFromRoom(t, u) PROVE Kicked /\ TaskOK'
    BY <2>17 DEF KickFromRoom, Asks, Kicked, taskVars, TypeOK, TaskOK
  <2>18. ASSUME NEW u \in Users, NEW cascade \in BOOLEAN, RemoveUser(t, u, cascade)
         PROVE  Removing /\ TaskOK'
    <3>1. Removed(u, cascade) \in SUBSET Users
      BY TreeTyped DEF Removed
    <3> QED BY <2>18, <3>1 DEF RemoveUser, Asks, Removing, RemoveUsers, taskVars, TypeOK, TaskOK
  <2>19. ASSUME NEW rotates \in BOOLEAN, SetEncryptionKey(t, rotates) PROVE KeyStored /\ TaskOK'
    BY <2>19 DEF SetEncryptionKey, KeyStored, taskVars, TypeOK, TaskOK
  <2>20. ASSUME NEW d \in BOOLEAN, NEW s \in ShareSettings \cup {0}, NEW limited \in BOOLEAN,
                SetMedia(t, d, s, limited)
         PROVE  MediaSet /\ TaskOK'
    <3>1. TaskOK'
      BY <2>20 DEF SetMedia, taskVars, TypeOK, TaskOK
    <3> QED BY <2>20, <3>1 DEF MediaSet
  <2>21. ASSUME NEW ids, NEW due, SetWatched(t, ids, due)
         PROVE  WatchedSet /\ TaskOK'
    <3>1. Current(t) /\ room[tUser[t]] # NoRoom /\ ids \subseteq Watchable(tUser[t])
          /\ due \subseteq Allocs
      BY <2>21 DEF SetWatched, Asks
    <3>2. \A m \in members[room[tUser[t]]] : m \in Users /\ tracks[m] \in Allocs
      BY <3>1, AskerFacts DEF TypeOK, MoveOK, MembersAgree
    <3>3. ids \in SUBSET TrackIds
      BY <3>1, <3>2 DEF Watchable, TrackIds
    <3> QED BY <2>21, <3>1, <3>3 DEF SetWatched, WatchedSet, taskVars, TypeOK, TaskOK
  <2>22. ASSUME NEW a \in Allocs, NEW kind \in {"Refresh", "Idr"}, NEW due \in SUBSET {a},
                RequestKeyframe(t, a, kind, due)
         PROVE  KeyframeAsked /\ TaskOK'
    BY <2>22 DEF RequestKeyframe, KeyframeAsked, taskVars, TypeOK, TaskOK
  <2> QED BY <1>1, <2>1, <2>2, <2>3, <2>4, <2>5, <2>6, <2>7, <2>8, <2>9, <2>10, <2>11, <2>12,
             <2>13, <2>14, <2>15, <2>16, <2>17, <2>18, <2>19, <2>20, <2>21, <2>22
          DEF TaskStep, Step
<1>2. CASE LockHolderStep
  BY <1>2 DEF LockHolderStep, Rejoin, DeleteStep, DeleteAborted, DeleteFinish, RemoveStep,
              taskVars, TypeOK, TaskOK, Step
<1>3. ASSUME NEW u \in Users, Promote(u) PROVE Ranked /\ TaskOK'
  BY <1>3 DEF Promote, Ranked, RoleChanged, RoleNames, taskVars, TypeOK, TaskOK
<1>4. ASSUME NEW u \in Users, ExpireKey(u) PROVE Expiring /\ TaskOK'
  BY <1>4 DEF ExpireKey, Expiring, taskVars, TypeOK, TaskOK
<1>5. ASSUME NEW S \in SUBSET Users, RemoveInactive(S) PROVE Removing /\ TaskOK'
  BY <1>5 DEF RemoveInactive, Removing, RemoveUsers, taskVars, TypeOK, TaskOK
<1>6. ASSUME NEW due \in SUBSET Allocs, FlushKeyframes(due) PROVE Flushed /\ TaskOK'
  BY <1>6 DEF FlushKeyframes, Flushed, taskVars, TypeOK, TaskOK
<1>7. CASE Restart
  BY <1>7 DEF Restart, TypeOK, TaskOK, Step
<1>8. CASE UNCHANGED vars
  BY <1>8 DEF vars, Quiet, taskVars, TypeOK, TaskOK, Step
<1> QED BY <1>1, <1>2, <1>3, <1>4, <1>5, <1>6, <1>7, <1>8 DEF Next, Step

-----------------------------------------------------------------------------
(* Types. *)

\* leave_room keeps the types, whether or not the epoch could be moved on.
LEMMA LeaveTyped ==
  ASSUME MoveOK, NEW u \in Users, LeaveRoom(u)
  PROVE  MoveOK'
<1>1. CASE room[u] = NoRoom
  BY <1>1 DEF LeaveRoom, MoveOK
<1>2. CASE room[u] # NoRoom
  <2>1. PICK bump \in BOOLEAN : (bump => EpochsLeft({room[u]})) /\ Move(u, NoRoom, bump, TRUE)
    BY <1>2 DEF LeaveRoom
  <2>2. bump => EpochsLeft({room[u], NoRoom})
    BY <2>1 DEF EpochsLeft
  <2> QED BY <2>1, <2>2, MoveTyped
<1> QED BY <1>1, <1>2

\* What is noted of an entry has its type.
LEMMA EnteredTyped ==
  ASSUME AccessOK, RoomsOK, NEW u \in Users, NEW r \in RoomIds, NEW proved \in BOOLEAN,
         Entered(u, r, proved)
  PROVE  inside' \in [RoomIds -> SUBSET Users] /\ byRank' \in [RoomIds -> SUBSET Users]
  BY DEF AccessOK, Entered

\* So has what enter changes, refused or not.
LEMMA EnterTyped ==
  ASSUME MoveOK, AccessOK, RoomsOK, NEW u \in Users, NEW r \in RoomIds \cup {NoRoom},
         NEW proved \in BOOLEAN, Enter(u, r, proved)
  PROVE  MoveOK' /\ AccessOK'
<1> USE HubConstants
<1>1. CASE room[u] = r
  <2>1. MoveOK'
    BY <1>1 DEF Enter, MoveOK
  <2>2. AccessOK'
    BY <1>1 DEF Enter, AccessOK
  <2> QED BY <2>1, <2>2
<1>2. CASE room[u] # r /\ MayPlace(u, r) /\ EpochsLeft({room[u], r}) /\ Move(u, r, TRUE, TRUE)
           /\ (IF r = NoRoom THEN UNCHANGED <<inside, byRank>> ELSE Entered(u, r, proved))
           /\ lastJoined' = [lastJoined EXCEPT ![u] = r]
  <2>1. MoveOK'
    BY <1>2, MoveTyped DEF MayPlace
  <2>2. inside' \in [RoomIds -> SUBSET Users] /\ byRank' \in [RoomIds -> SUBSET Users]
    BY <1>2, EnteredTyped DEF AccessOK
  <2>3. lastJoined' \in [Users -> RoomIds \cup {NoRoom}]
    BY <1>2 DEF AccessOK
  <2> QED BY <2>1, <2>2, <2>3 DEF AccessOK
<1>3. CASE room[u] # r /\ r # NoRoom /\ MayPlace(u, r) /\ nextAlloc' = nextAlloc + 1
           /\ UNCHANGED <<epoch, room, tracks, share, watching, members, keyframes, owed, told,
                          untold, routeVars, accessVars>>
  BY <1>3 DEF MayPlace, MoveOK, AccessOK, accessVars
<1> QED BY <1>1, <1>2, <1>3 DEF Enter

\* A keyframe request keeps the table of requests and what is owed in their types.
LEMMA RequestTyped ==
  ASSUME MoveOK, NEW asked \in SUBSET Allocs, NEW kind \in {"Refresh", "Idr"},
         NEW due, Request(asked, kind, due)
  PROVE  /\ keyframes' \in [Allocs -> {"absent", "sent", "Refresh", "Idr"}]
         /\ owed' \subseteq Allocs
  BY DEF MoveOK, Request, Wanted

\* A hub that starts has the types.
LEMMA TypeInit == Init => TypeOK
<1> SUFFICES ASSUME Init PROVE TypeOK
  OBVIOUS
<1> USE HubConstants
<1>1. AcctOK /\ RoomsOK /\ SessOK
  BY SMTT(40) DEF Init, AcctOK, RoomsOK, SessOK, RoomIds
<1>2. TaskOK
  BY WorksMade DEF Init, TaskOK
<1>3. MoveOK
  BY DEF Init, MoveOK
<1>4. AccessOK /\ todo \in Todos
  BY TodosMade DEF Init, AccessOK
<1> QED BY <1>1, <1>2, <1>3, <1>4 DEF TypeOK

\* Every step keeps the types. That a rejoin names a user who is signed in, and that a deletion
\* moves out members of its room only (LockHeld), is what bounds their moves.
LEMMA TypeStep ==
  ASSUME TypeOK, MembersAgree, LockHeld, Step
  PROVE  AcctOK' /\ RoomsOK' /\ SessOK' /\ MoveOK' /\ AccessOK' /\ (todo \in Todos)'
<1> USE HubConstants DEF TypeOK
<1>1. CASE Quiet
  BY <1>1 DEF Quiet, acctVars, roomVars, sessVars, moveVars, accessVars,
              AcctOK, RoomsOK, SessOK, MoveOK, AccessOK
<1>2. CASE Ranked
  BY <1>2 DEF Ranked, RoleChanged, roomVars, moveVars, AcctOK, RoomsOK, SessOK, MoveOK, AccessOK
<1>3. CASE Removing
  <2>1. AcctOK' /\ (todo \in Todos)'
    BY <1>3, TodosMade DEF Removing, RemoveUsers, AcctOK
  <2> QED BY <1>3, <2>1 DEF Removing, RemoveUsers, roomVars, sessVars, moveVars, accessVars,
                             RoomsOK, SessOK, MoveOK, AccessOK
<1>4. CASE Expiring
  BY <1>4 DEF Expiring, ExpireKey, roomVars, sessVars, moveVars, accessVars,
              AcctOK, RoomsOK, SessOK, MoveOK, AccessOK
<1>5. CASE RoomAdded
  <2>1. RoomsOK'
    BY SMTT(40), <1>5 DEF RoomAdded, AddRoom, RoomsOK, RoomIds
  <2> QED BY <1>5, <2>1 DEF RoomAdded, AddRoom, acctVars, sessVars, moveVars, accessVars,
                             AcctOK, SessOK, MoveOK, AccessOK
<1>6. CASE PasswordStored
  <2>1. PICK r \in alive, h \in 0..MaxHash : h \in {0, nextHash} /\ StoreRoomPassword(r, h)
    BY <1>6 DEF PasswordStored
  <2>2. RoomsOK'
    BY <2>1 DEF StoreRoomPassword, RoomsOK
  <2>3. AccessOK'
    BY <2>1 DEF StoreRoomPassword, AccessOK, MoveOK, RoomsOK
  <2> QED BY <2>1, <2>2, <2>3 DEF StoreRoomPassword, acctVars, sessVars, moveVars,
                                   AcctOK, SessOK, MoveOK
<1>7. CASE DeleteBegun
  <2>1. (todo \in Todos)'
    BY <1>7, TodosMade DEF DeleteBegun, RoomsOK, MoveOK
  <2> QED BY <1>7, <2>1 DEF DeleteBegun, acctVars, roomVars, sessVars, moveVars, accessVars,
                             AcctOK, RoomsOK, SessOK, MoveOK, AccessOK
<1>8. CASE DeleteStep
  <2>1. todo.room \in RoomIds /\ todo.left \subseteq Users
    BY <1>8, TodoFields DEF DeleteStep
  <2>2. PICK m \in todo.left :
          /\ EpochsLeft({todo.room})
          /\ todo' = DeleteTodo(todo.room, todo.left \ {m})
          /\ UNCHANGED <<acctVars, roomVars, sessVars, taskVars, accessVars>>
          /\ Move(m, NoRoom, TRUE, FALSE)
    BY <1>8 DEF DeleteStep
  <2>3. m \in Users /\ room[m] = todo.room
    BY <1>8, <2>1 DEF DeleteStep, LockHeld, MembersAgree
  <2>4. MoveOK'
    BY <2>1, <2>2, <2>3, MoveTyped DEF EpochsLeft
  <2>5. (todo \in Todos)'
    BY <2>1, <2>2, TodosMade
  <2> QED BY <2>2, <2>4, <2>5 DEF acctVars, roomVars, sessVars, accessVars,
                                   AcctOK, RoomsOK, SessOK, AccessOK
<1>9. CASE DeleteAborted
  BY <1>9, TodosMade DEF DeleteAborted, acctVars, roomVars, sessVars, accessVars,
              AcctOK, RoomsOK, SessOK, MoveOK, AccessOK
<1>10. CASE DeleteFinish
  BY <1>10, TodosMade, TodoFields DEF DeleteFinish, acctVars, sessVars,
              AcctOK, RoomsOK, SessOK, MoveOK, AccessOK
<1>11. CASE Connected
  <2>1. PICK u \in Users, want \in RoomIds \cup {NoRoom} :
          /\ nextConn <= MaxConn
          /\ conn' = [conn EXCEPT ![u] = nextConn]
          /\ nextConn' = nextConn + 1
          /\ role' = [role EXCEPT ![u] = account[u]]
          /\ deaf' = [deaf EXCEPT ![u] = FALSE]
          /\ todo' = RejoinTodo(u, want)
          /\ LeaveRoom(u)
    BY <1>11 DEF Connected
  <2>2. SessOK'
    BY <2>1 DEF SessOK, AcctOK
  <2>3. MoveOK'
    BY <2>1, LeaveTyped
  <2>4. (todo \in Todos)'
    BY <2>1, TodosMade
  <2> QED BY <1>11, <2>2, <2>3, <2>4 DEF Connected, acctVars, roomVars, accessVars,
                                         AcctOK, RoomsOK, AccessOK
<1>12. CASE Rejoin
  <2> DEFINE u == todo.user
             r == todo.room
  <2>1. u \in Users /\ r \in RoomIds \cup {NoRoom} /\ room[u] = NoRoom
    BY <1>12, TodoFields DEF Rejoin, LockHeld
  <2>2. AcctOK' /\ RoomsOK' /\ SessOK' /\ (todo \in Todos)'
    BY <1>12, TodosMade DEF Rejoin, acctVars, roomVars, sessVars, AcctOK, RoomsOK, SessOK
  <2>3. CASE /\ r # NoRoom /\ MayPlace(u, r) /\ EpochsLeft({r})
             /\ Move(u, r, TRUE, TRUE) /\ Entered(u, r, FALSE) /\ UNCHANGED lastJoined
    <3>1. MoveOK'
      BY <2>1, <2>3, MoveTyped DEF MayPlace, EpochsLeft
    <3>2. AccessOK'
      BY <2>1, <2>3, EnteredTyped DEF AccessOK
    <3> QED BY <2>2, <3>1, <3>2
  <2>4. CASE /\ r # NoRoom /\ MayPlace(u, r) /\ nextAlloc' = nextAlloc + 1
             /\ UNCHANGED <<epoch, room, tracks, share, watching, members, keyframes, owed, told,
                            untold, routeVars, accessVars>>
    BY <2>2, <2>4 DEF MayPlace, accessVars, MoveOK, AccessOK
  <2>5. CASE UNCHANGED <<moveVars, accessVars>>
    BY <2>2, <2>5 DEF moveVars, accessVars, MoveOK, AccessOK
  <2> QED BY <1>12, <2>3, <2>4, <2>5 DEF Rejoin
<1>13. CASE Disconnected
  <2>1. MoveOK'
    BY <1>13, LeaveTyped DEF Disconnected
  <2> QED BY <1>13, <2>1 DEF Disconnected, EndSession, acctVars, roomVars, accessVars,
                             AcctOK, RoomsOK, SessOK, AccessOK
<1>14. CASE RoomEntered
  <2>1. MoveOK' /\ AccessOK'
    BY <1>14, EnterTyped DEF RoomEntered, RoomsOK
  <2> QED BY <1>14, <2>1 DEF RoomEntered, acctVars, roomVars, sessVars, AcctOK, RoomsOK, SessOK
<1>15. CASE Kicked
  <2>1. MoveOK'
    BY <1>15, LeaveTyped DEF Kicked
  <2>2. AccessOK'
    BY <1>15 DEF Kicked, AccessOK, MoveOK
  <2> QED BY <1>15, <2>1, <2>2 DEF Kicked, acctVars, roomVars, sessVars, AcctOK, RoomsOK, SessOK
<1>16. CASE RemoveStep
  <2>1. todo.left \subseteq Users /\ todo.why \in {"request", "inactive"}
    BY <1>16, TodoFields DEF RemoveStep
  <2>2. PICK u \in todo.left :
          /\ todo' = IF todo.left = {u} THEN Free ELSE RemoveTodo(todo.left \ {u}, todo.why)
          /\ lastJoined' = [lastJoined EXCEPT ![u] = NoRoom]
          /\ UNCHANGED <<acctVars, roomVars, taskVars, inside, byRank>>
          /\ EndSession(u)
          /\ LeaveRoom(u)
    BY <1>16 DEF RemoveStep
  <2>3. (todo \in Todos)'
    BY <2>1, <2>2, TodosMade
  <2>4. MoveOK'
    BY <2>1, <2>2, LeaveTyped
  <2>5. SessOK'
    BY <2>1, <2>2 DEF EndSession, SessOK
  <2>6. AccessOK'
    BY <2>1, <2>2 DEF AccessOK
  <2> QED BY <2>2, <2>3, <2>4, <2>5, <2>6 DEF acctVars, roomVars, AcctOK, RoomsOK
<1>17. CASE KeyStored
  <2>1. PICK t \in Tasks, rotates \in BOOLEAN : SetEncryptionKey(t, rotates)
    BY <1>17 DEF KeyStored
  <2>2. tUser[t] \in Users
    BY <2>1, AskerFacts DEF SetEncryptionKey, Asks
  <2>3. AcctOK'
    BY <2>1, <2>2 DEF SetEncryptionKey, AcctOK
  <2>4. epoch' \in [RoomIds -> 0..MaxEpoch]
    BY <2>1, <2>2 DEF SetEncryptionKey, EpochsLeft, Rekeys, MoveOK
  <2>5. untold' \subseteq Users
    BY <2>1, <2>2 DEF SetEncryptionKey, BroadcastPeers, Rekeys, MoveOK
  <2>6. MoveOK'
    BY <2>1, <2>4, <2>5 DEF SetEncryptionKey, MoveOK
  <2> QED BY <2>1, <2>3, <2>6 DEF SetEncryptionKey, roomVars, sessVars, accessVars,
                                  RoomsOK, SessOK, AccessOK
<1>18. CASE MediaSet
  <2>1. PICK t \in Tasks, d \in BOOLEAN, s \in ShareSettings \cup {0}, limited \in BOOLEAN :
          SetMedia(t, d, s, limited)
    BY <1>18 DEF MediaSet
  <2>2. tUser[t] \in Users
    BY <2>1, AskerFacts DEF SetMedia, Asks
  <2>3. SessOK'
    BY <2>1, <2>2 DEF SetMedia, SessOK
  <2>4. share' \in [Users -> ShareSettings \cup {0}]
    BY <2>1, <2>2 DEF SetMedia, MoveOK
  <2>5. untold' \subseteq Users
    BY <2>1, <2>2 DEF SetMedia, BroadcastPeers, MoveOK
  <2>6. MoveOK'
    BY <2>1, <2>4, <2>5 DEF SetMedia, MoveOK
  <2> QED BY <2>1, <2>3, <2>6 DEF SetMedia, acctVars, roomVars, accessVars,
                                  AcctOK, RoomsOK, AccessOK
<1>19. CASE WatchedSet
  <2>1. PICK t \in Tasks, ids \in SUBSET TrackIds, due \in SUBSET Allocs : SetWatched(t, ids, due)
    BY <1>19 DEF WatchedSet
  <2>2. tUser[t] \in Users
    BY <2>1, AskerFacts DEF SetWatched, Asks
  <2>3. watching' \in [Users -> SUBSET TrackIds]
    BY <2>1, <2>2 DEF SetWatched, MoveOK
  <2>4. /\ keyframes' \in [Allocs -> {"absent", "sent", "Refresh", "Idr"}]
        /\ owed' \subseteq Allocs
    BY <2>1, RequestTyped DEF SetWatched
  <2>5. MoveOK'
    BY <2>1, <2>3, <2>4 DEF SetWatched, MoveOK
  <2> QED BY <2>1, <2>5 DEF SetWatched, acctVars, roomVars, sessVars, accessVars,
                            AcctOK, RoomsOK, SessOK, AccessOK
<1>20. CASE KeyframeAsked
  <2>1. PICK t \in Tasks, a \in Allocs, kind \in {"Refresh", "Idr"} :
          \E due \in SUBSET {a} : RequestKeyframe(t, a, kind, due)
    BY <1>20 DEF KeyframeAsked
  <2>2. /\ keyframes' \in [Allocs -> {"absent", "sent", "Refresh", "Idr"}]
        /\ owed' \subseteq Allocs
    BY <2>1, RequestTyped DEF RequestKeyframe
  <2>3. MoveOK'
    BY <2>1, <2>2 DEF RequestKeyframe, MoveOK
  <2> QED BY <2>1, <2>3 DEF RequestKeyframe, acctVars, roomVars, sessVars, accessVars,
                            AcctOK, RoomsOK, SessOK, AccessOK
<1>21. CASE Flushed
  BY <1>21 DEF Flushed, FlushKeyframes, acctVars, roomVars, sessVars, accessVars,
               AcctOK, RoomsOK, SessOK, MoveOK, AccessOK
<1>22. CASE Restart
  BY <1>22, TodosMade DEF Restart, Persisted, acctVars, roomVars,
               AcctOK, RoomsOK, SessOK, MoveOK, AccessOK
<1> QED BY <1>1, <1>2, <1>3, <1>4, <1>5, <1>6, <1>7, <1>8, <1>9, <1>10, <1>11, <1>12, <1>13,
           <1>14, <1>15, <1>16, <1>17, <1>18, <1>19, <1>20, <1>21, <1>22 DEF Step

-----------------------------------------------------------------------------
(* Who is where. *)

\* place takes the user out of one member list and into another, with media ids nobody has
\* (set_membership, allocate_tracks).
LEMMA MoveAgrees ==
  ASSUME MoveOK, MembersAgree, TracksDistinct, NEW u \in Users,
         NEW new \in RoomIds \cup {NoRoom}, NEW bump, NEW tell,
         new # NoRoom => conn'[u] # 0 /\ new \in alive,
         \A v \in Users \ {u} : conn'[v] = conn[v],
         alive' = alive,
         Move(u, new, bump, tell)
  PROVE  MembersAgree' /\ TracksDistinct'
<1> USE HubConstants
<1>1. /\ \A v \in Users : room'[v] = IF v = u THEN new ELSE room[v]
      /\ \A v \in Users : tracks'[v] = IF v = u THEN IF new = NoRoom THEN 0 ELSE nextAlloc
                                       ELSE tracks[v]
      /\ nextAlloc' = IF new = NoRoom THEN nextAlloc ELSE nextAlloc + 1
  BY DEF Move, SetMembership, AllocAfter, MoveOK
<1>2. \A r \in RoomIds : members'[r] = IF r = new THEN members[r] \cup {u}
                                      ELSE IF r = room[u] THEN members[r] \ {u} ELSE members[r]
  BY DEF Move, MembersAfter
<1>3. \A v \in Users, r \in RoomIds : v \in members'[r] <=> room'[v] = r
  <2> SUFFICES ASSUME NEW v \in Users, NEW r \in RoomIds
               PROVE  v \in members'[r] <=> room'[v] = r
    OBVIOUS
  <2>1. v \in members[r] <=> room[v] = r
    BY DEF MembersAgree
  <2>2. r # NoRoom
    BY DEF NoRoom, RoomIds
  <2>3. room'[v] = IF v = u THEN new ELSE room[v]
    BY <1>1
  <2>4. members'[r] = IF r = new THEN members[r] \cup {u}
                      ELSE IF r = room[u] THEN members[r] \ {u} ELSE members[r]
    BY <1>2
  <2>5. CASE v = u
    BY <2>1, <2>3, <2>4, <2>5
  <2>6. CASE v # u
    BY <2>1, <2>3, <2>4, <2>6
  <2> QED BY <2>5, <2>6
<1>4. \A v \in Users : room'[v] # NoRoom => conn'[v] # 0 /\ room'[v] \in alive'
  BY <1>1 DEF MembersAgree
<1>5. nextAlloc \in Nat /\ nextAlloc > 0 /\ nextAlloc' \in Nat /\ \A v \in Users : tracks[v] \in Nat
  BY <1>1 DEF MoveOK, Allocs
<1>6. \A v \in Users : room'[v] = NoRoom <=> tracks'[v] = 0
  BY <1>1, <1>5 DEF MembersAgree
<1>7. \A v, w \in Users : v # w /\ tracks'[v] # 0 => tracks'[v] # tracks'[w]
  BY <1>1, <1>5 DEF TracksDistinct
<1>8. \A v \in Users : tracks'[v] < nextAlloc'
  BY <1>1, <1>5 DEF TracksDistinct
<1> QED BY <1>3, <1>4, <1>6, <1>7, <1>8 DEF MembersAgree, TracksDistinct

\* leave_room takes the user out of their member list, also where place fails and
\* set_membership is called alone.
LEMMA LeaveAgrees ==
  ASSUME MoveOK, MembersAgree, TracksDistinct, NEW u \in Users,
         \A v \in Users \ {u} : conn'[v] = conn[v],
         alive' = alive,
         LeaveRoom(u)
  PROVE  MembersAgree' /\ TracksDistinct' /\ room'[u] = NoRoom
<1>1. CASE room[u] = NoRoom
  BY <1>1 DEF LeaveRoom, MembersAgree, TracksDistinct
<1>2. CASE room[u] # NoRoom
  <2>1. PICK bump : Move(u, NoRoom, bump, TRUE)
    BY <1>2 DEF LeaveRoom
  <2> QED BY <2>1, MoveAgrees DEF Move, SetMembership, MoveOK
<1> QED BY <1>1, <1>2

\* enter keeps member lists and sessions in agreement.
LEMMA EnterAgrees ==
  ASSUME MoveOK, MembersAgree, TracksDistinct, NEW u \in Users, NEW r \in alive \cup {NoRoom},
         NEW proved, RoomsOK, conn[u] # 0, conn' = conn, alive' = alive, Enter(u, r, proved)
  PROVE  MembersAgree' /\ TracksDistinct'
<1>1. CASE UNCHANGED <<room, tracks, members>> /\ nextAlloc' \in {nextAlloc, nextAlloc + 1}
  BY <1>1 DEF MembersAgree, TracksDistinct, MoveOK, Allocs
<1>2. CASE Move(u, r, TRUE, TRUE)
  BY <1>2, MoveAgrees DEF RoomsOK
<1> QED BY <1>1, <1>2 DEF Enter

\* What changes no member list and closes no room with members in it keeps them in agreement.
LEMMA SameMembers ==
  ASSUME MoveOK, MembersAgree, TracksDistinct,
         UNCHANGED <<room, tracks, members, conn>>,
         \A u \in Users : room[u] # NoRoom /\ room[u] \in alive => room[u] \in alive',
         nextAlloc' \in {nextAlloc, nextAlloc + 1}
  PROVE  MembersAgree' /\ TracksDistinct'
<1>1. MembersAgree'
  BY DEF MembersAgree
<1>2. TracksDistinct'
  BY HubConstants DEF TracksDistinct, MoveOK, Allocs
<1> QED BY <1>1, <1>2

\* Every step keeps member lists and sessions in agreement, and media ids apart.
LEMMA AgreeStep ==
  ASSUME TypeOK, MembersAgree, TracksDistinct, LockHeld, Step
  PROVE  MembersAgree' /\ TracksDistinct'
<1> USE DEF TypeOK
<1>1. CASE Quiet \/ Ranked \/ Removing \/ Expiring \/ DeleteBegun \/ PasswordStored
  BY <1>1, SameMembers
     DEF Quiet, Ranked, RoleChanged, Removing, RemoveUsers, Expiring, ExpireKey, DeleteBegun,
         PasswordStored, StoreRoomPassword, roomVars, sessVars, moveVars
<1>2. CASE RoomAdded
  BY <1>2, SameMembers DEF RoomAdded, AddRoom, sessVars, moveVars
<1>3. CASE DeleteStep
  <2>1. PICK m \in todo.left : Move(m, NoRoom, TRUE, FALSE) /\ UNCHANGED <<roomVars, sessVars>>
    BY <1>3 DEF DeleteStep
  <2>2. m \in Users
    BY <1>3, TodoFields DEF DeleteStep
  <2> QED BY <2>1, <2>2, MoveAgrees DEF roomVars, sessVars
<1>4. CASE DeleteAborted
  BY <1>4, SameMembers DEF DeleteAborted, roomVars, sessVars
<1>5. CASE DeleteFinish
  <2>1. \A u \in Users : room[u] # todo.room
    BY <1>5, TodoFields DEF DeleteFinish, LockHeld, MembersAgree
  <2> QED BY <1>5, <2>1, SameMembers DEF DeleteFinish, sessVars
<1>6. CASE Connected
  <2>1. PICK u \in Users : conn' = [conn EXCEPT ![u] = nextConn] /\ LeaveRoom(u)
    BY <1>6 DEF Connected
  <2> QED BY <1>6, <2>1, LeaveAgrees DEF Connected, roomVars, SessOK
<1>7. CASE Rejoin
  <2>1. /\ todo.user \in Users /\ todo.room \in RoomIds \cup {NoRoom}
        /\ conn[todo.user] # 0 /\ conn' = conn /\ alive' = alive
    BY <1>7, TodoFields DEF Rejoin, LockHeld, roomVars, sessVars
  <2>2. CASE MayPlace(todo.user, todo.room) /\ Move(todo.user, todo.room, TRUE, TRUE)
    BY <2>1, <2>2, MoveAgrees DEF MayPlace
  <2>3. CASE nextAlloc' \in {nextAlloc, nextAlloc + 1} /\ UNCHANGED <<room, tracks, members>>
    BY <2>1, <2>3, SameMembers
  <2> QED BY <1>7, <2>2, <2>3 DEF Rejoin, moveVars
<1>8. CASE Disconnected
  BY <1>8, LeaveAgrees DEF Disconnected, EndSession, roomVars, SessOK
<1>9. CASE RoomEntered
  BY <1>9, EnterAgrees DEF RoomEntered, roomVars, sessVars
<1>10. CASE Kicked
  BY <1>10, LeaveAgrees DEF Kicked, roomVars, sessVars
<1>11. CASE RemoveStep
  <2>1. PICK u \in todo.left : EndSession(u) /\ LeaveRoom(u) /\ UNCHANGED roomVars
    BY <1>11 DEF RemoveStep
  <2>2. u \in Users
    BY <1>11, TodoFields DEF RemoveStep
  <2> QED BY <2>1, <2>2, LeaveAgrees DEF EndSession, roomVars, SessOK
<1>12. CASE KeyStored
  BY <1>12, SameMembers DEF KeyStored, SetEncryptionKey, roomVars, sessVars
<1>13. CASE MediaSet
  BY <1>13, SameMembers DEF MediaSet, SetMedia, roomVars
<1>14. CASE WatchedSet
  BY <1>14, SameMembers DEF WatchedSet, SetWatched, roomVars, sessVars
<1>15. CASE KeyframeAsked
  BY <1>15, SameMembers DEF KeyframeAsked, RequestKeyframe, roomVars, sessVars
<1>16. CASE Flushed
  BY <1>16, SameMembers DEF Flushed, FlushKeyframes, roomVars, sessVars
<1>17. CASE Restart
  <2>1. MembersAgree'
    BY <1>17 DEF Restart, MembersAgree, NoRoom, RoomIds
  <2>2. TracksDistinct'
    BY <1>17, HubConstants DEF Restart, Persisted, TracksDistinct, MoveOK
  <2> QED BY <2>1, <2>2
<1> QED BY <1>1, <1>2, <1>3, <1>4, <1>5, <1>6, <1>7, <1>8, <1>9, <1>10, <1>11, <1>12, <1>13,
           <1>14, <1>15, <1>16, <1>17 DEF Step

\* What is under way under the lock stays what LockHeld says of it: a rejoin's user is signed
\* in and in no room, and a deletion has to move out just the members of a room that is there.
LEMMA LockStep ==
  ASSUME TypeOK, MembersAgree, TracksDistinct, LockHeld, Step
  PROVE  LockHeld'
<1> USE DEF TypeOK
<1>1. CASE todo' = Free
  BY <1>1, TodosMade DEF LockHeld
<1>2. CASE Removing
  BY <1>2, TodosMade DEF Removing, RemoveUsers, LockHeld
<1>3. CASE DeleteBegun
  <2>1. PICK r \in alive : todo' = DeleteTodo(r, members[r])
    BY <1>3 DEF DeleteBegun
  <2>2. r \in RoomIds /\ members[r] \in SUBSET Users
    BY DEF RoomsOK, MoveOK
  <2> QED BY <1>3, <2>1, <2>2, TodosMade DEF DeleteBegun, LockHeld, roomVars, moveVars
<1>4. CASE Expiring
  BY <1>4 DEF Expiring, ExpireKey, LockHeld, roomVars, sessVars, moveVars
<1>5. CASE DeleteStep
  <2>1. todo.room \in RoomIds /\ todo.left \subseteq Users
    BY <1>5, TodoFields DEF DeleteStep
  <2>2. PICK m \in todo.left :
          /\ todo' = DeleteTodo(todo.room, todo.left \ {m})
          /\ UNCHANGED roomVars
          /\ Move(m, NoRoom, TRUE, FALSE)
    BY <1>5 DEF DeleteStep
  <2>3. m \in Users /\ room[m] = todo.room /\ todo.left = members[todo.room] /\ todo.room \in alive
    BY <1>5, <2>1 DEF DeleteStep, LockHeld, MembersAgree
  <2>4. members'[todo.room] = members[todo.room] \ {m}
    BY <2>1, <2>2, <2>3 DEF Move, MembersAfter, NoRoom, RoomIds
  <2>5. todo'.op = "delete" /\ todo'.room = todo.room /\ todo'.left = todo.left \ {m}
    BY <2>1, <2>2, TodosMade
  <2> QED BY <2>2, <2>3, <2>4, <2>5 DEF LockHeld, roomVars
<1>6. CASE Connected
  <2>1. PICK u \in Users, want \in RoomIds \cup {NoRoom} :
          conn' = [conn EXCEPT ![u] = nextConn] /\ LeaveRoom(u) /\ todo' = RejoinTodo(u, want)
    BY <1>6 DEF Connected
  <2>2. conn'[u] # 0
    BY <2>1 DEF SessOK
  <2>3. room'[u] = NoRoom
    BY <1>6, <2>1, LeaveAgrees DEF Connected, roomVars, SessOK
  <2> QED BY <2>1, <2>2, <2>3, TodosMade DEF LockHeld
<1>7. CASE RemoveStep
  <2>1. todo.left \subseteq Users /\ todo.why \in {"request", "inactive"}
    BY <1>7, TodoFields DEF RemoveStep
  <2>2. todo'.op \in {"free", "remove"}
    BY <1>7, <2>1, TodosMade DEF RemoveStep
  <2> QED BY <2>2 DEF LockHeld
<1>8. CASE Quiet
  BY <1>8 DEF Quiet, LockHeld, roomVars, sessVars, moveVars
<1> QED BY ZenonT(60), <1>1, <1>2, <1>3, <1>4, <1>5, <1>6, <1>7, <1>8
        DEF Step, Ranked, RoleChanged, RoomAdded, AddRoom, PasswordStored, StoreRoomPassword,
            DeleteAborted, DeleteFinish, Rejoin, Disconnected, RoomEntered, Kicked,
            KeyStored, SetEncryptionKey, MediaSet, SetMedia, WatchedSet, SetWatched,
            KeyframeAsked, RequestKeyframe, Flushed, FlushKeyframes, Restart, Asks

-----------------------------------------------------------------------------
(* Epochs and ids. *)

\* What a step does to the epoch and the members of room r: it may lose members, and gain some
\* only with a new epoch.
EpochMoves(r) ==
  \/ epoch'[r] = epoch[r] /\ members'[r] \subseteq members[r]
  \/ epoch'[r] = epoch[r] + 1 /\ epoch[r] < MaxEpoch /\ r \in alive

\* place begins an epoch in the room left and in the room entered.
LEMMA MoveEpochs ==
  ASSUME TypeOK, MembersAgree, NEW u \in Users,
         NEW new \in alive \cup {NoRoom}, NEW bump \in BOOLEAN, NEW tell,
         bump => EpochsLeft({room[u], new}), ~bump => new = NoRoom,
         Move(u, new, bump, tell), NEW r \in RoomIds
  PROVE  EpochMoves(r)
<1>1. r # NoRoom
  BY DEF NoRoom, RoomIds
<1>2. epoch'[r] = IF bump /\ r \in {room[u], new} THEN epoch[r] + 1 ELSE epoch[r]
  BY DEF Move, EpochsAfter
<1>3. members'[r] = IF r = new THEN members[r] \cup {u}
                    ELSE IF r = room[u] THEN members[r] \ {u} ELSE members[r]
  BY DEF Move, MembersAfter
<1>4. room[u] = r => r \in alive
  BY <1>1 DEF MembersAgree
<1>5. CASE bump /\ r \in {room[u], new}
  BY <1>1, <1>2, <1>4, <1>5 DEF EpochMoves, EpochsLeft
<1>6. CASE ~(bump /\ r \in {room[u], new})
  BY <1>1, <1>2, <1>3, <1>6 DEF EpochMoves
<1> QED BY <1>5, <1>6

\* leave_room begins one, or takes the user out in the epoch there is, when it can't be
\* written.
LEMMA LeaveEpochs ==
  ASSUME TypeOK, MembersAgree, NEW u \in Users, LeaveRoom(u), NEW r \in RoomIds
  PROVE  EpochMoves(r)
<1>1. CASE room[u] = NoRoom
  BY <1>1 DEF LeaveRoom, EpochMoves
<1>2. CASE room[u] # NoRoom
  <2>1. PICK bump \in BOOLEAN : (bump => EpochsLeft({room[u]})) /\ Move(u, NoRoom, bump, TRUE)
    BY <1>2 DEF LeaveRoom
  <2>2. bump => EpochsLeft({room[u], NoRoom})
    BY <2>1 DEF EpochsLeft
  <2> QED BY <2>1, <2>2, MoveEpochs
<1> QED BY <1>1, <1>2

\* No step lets anyone into an epoch that has begun.
LEMMA EpochStep ==
  ASSUME TypeOK, MembersAgree, LockHeld, Step, NEW r \in RoomIds
  PROVE  EpochMoves(r)
<1>1. CASE UNCHANGED <<epoch, members>>
  BY <1>1 DEF EpochMoves
<1>2. CASE DeleteStep
  <2>1. todo.room \in RoomIds /\ todo.left \subseteq Users
    BY <1>2, TodoFields DEF DeleteStep, TypeOK
  <2>2. PICK m \in todo.left : EpochsLeft({todo.room}) /\ Move(m, NoRoom, TRUE, FALSE)
    BY <1>2 DEF DeleteStep
  <2>3. m \in Users /\ room[m] = todo.room
    BY <1>2, <2>1 DEF DeleteStep, LockHeld, MembersAgree
  <2>4. EpochsLeft({room[m], NoRoom})
    BY <2>2, <2>3 DEF EpochsLeft
  <2> QED BY <2>2, <2>3, <2>4, MoveEpochs
<1>3. CASE Connected \/ Disconnected \/ Kicked
  BY <1>3, LeaveEpochs DEF Connected, Disconnected, Kicked
<1>4. CASE RemoveStep
  <2>1. todo.left \subseteq Users
    BY <1>4, TodoFields DEF RemoveStep, TypeOK
  <2> QED BY <1>4, <2>1, LeaveEpochs DEF RemoveStep
<1>5. CASE Rejoin
  <2>1. todo.user \in Users /\ room[todo.user] = NoRoom
    BY <1>5, TodoFields DEF Rejoin, LockHeld, TypeOK
  <2>2. CASE /\ todo.room # NoRoom /\ MayPlace(todo.user, todo.room) /\ EpochsLeft({todo.room})
             /\ Move(todo.user, todo.room, TRUE, TRUE)
    <3>1. todo.room \in alive /\ EpochsLeft({room[todo.user], todo.room})
      BY <2>1, <2>2 DEF MayPlace, EpochsLeft
    <3> QED BY <2>1, <2>2, <3>1, MoveEpochs
  <2> QED BY <1>1, <1>5, <2>2 DEF Rejoin, moveVars
<1>6. CASE RoomEntered
  <2>1. PICK u \in Users, new \in alive \cup {NoRoom}, proved \in BOOLEAN : Enter(u, new, proved)
    BY <1>6 DEF RoomEntered
  <2>2. CASE EpochsLeft({room[u], new}) /\ Move(u, new, TRUE, TRUE)
    BY <2>1, <2>2, MoveEpochs
  <2> QED BY <1>1, <2>1, <2>2 DEF Enter
<1>7. CASE KeyStored
  <2>1. PICK t \in Tasks, rotates \in BOOLEAN : SetEncryptionKey(t, rotates)
    BY <1>7 DEF KeyStored
  <2>2. tUser[t] \in Users
    BY <2>1, AskerFacts DEF SetEncryptionKey, Asks
  <2>3. /\ members' = members
        /\ \/ epoch' = epoch
           \/ /\ Rekeys(tUser[t], rotates) => EpochsLeft({room[tUser[t]]})
              /\ epoch' = [q \in RoomIds |-> IF q = room[tUser[t]] /\ Rekeys(tUser[t], rotates)
                                            THEN epoch[q] + 1 ELSE epoch[q]]
    BY <2>1 DEF SetEncryptionKey
  <2> QED BY <2>2, <2>3 DEF EpochMoves, EpochsLeft, Rekeys, MembersAgree
<1>8. CASE Restart
  BY <1>8 DEF Restart, Persisted, EpochMoves
<1> QED BY ZenonT(60), <1>1, <1>2, <1>3, <1>4, <1>5, <1>6, <1>7, <1>8
        DEF Step, moveVars, Quiet, Ranked, RoleChanged, Removing, RemoveUsers, Expiring, ExpireKey,
            RoomAdded, AddRoom, PasswordStored, StoreRoomPassword, DeleteBegun,
            DeleteAborted, DeleteFinish, MediaSet, SetMedia, WatchedSet, SetWatched,
            KeyframeAsked, RequestKeyframe, Flushed, FlushKeyframes

\* Room ids are given out in order; a room that is deleted does not come back.
LEMMA RoomStep ==
  ASSUME TypeOK, Step
  PROVE  \/ nextRoom' = nextRoom /\ alive' \subseteq alive
         \/ nextRoom' = nextRoom + 1 /\ alive' = alive \cup {nextRoom}
<1>1. CASE UNCHANGED <<nextRoom, alive>>
  BY <1>1
<1>2. CASE RoomAdded \/ DeleteFinish
  BY <1>2 DEF RoomAdded, AddRoom, DeleteFinish
<1> QED BY ZenonT(60), <1>1, <1>2
        DEF Step, roomVars, Quiet, Ranked, RoleChanged, Removing, RemoveUsers, Expiring, ExpireKey,
            PasswordStored, StoreRoomPassword, DeleteBegun, DeleteStep, DeleteAborted, Connected,
            Rejoin, Disconnected, RoomEntered, Kicked, RemoveStep, KeyStored, SetEncryptionKey,
            MediaSet, SetMedia, WatchedSet, SetWatched, KeyframeAsked, RequestKeyframe, Flushed,
            FlushKeyframes, Restart, Persisted

\* Rooms that were never opened have no epoch (RoomsAllotted).
LEMMA AllottedStep ==
  ASSUME MembershipAgrees, Step
  PROVE  RoomsAllotted'
<1> SUFFICES ASSUME NEW r \in RoomIds, r >= nextRoom' PROVE r \notin alive' /\ epoch'[r] = 0
  BY DEF RoomsAllotted
<1>1. r \in Int /\ nextRoom \in Int
  BY HubConstants DEF RoomIds, MembershipAgrees, TypeOK, RoomsOK
<1>2. r >= nextRoom /\ r \notin alive'
  BY <1>1, RoomStep DEF MembershipAgrees, RoomsAllotted
<1>3. EpochMoves(r)
  BY EpochStep DEF MembershipAgrees
<1> QED BY <1>2, <1>3 DEF MembershipAgrees, RoomsAllotted, EpochMoves

\* A hub that starts has no members.
THEOREM MembershipInit == Init => MembershipAgrees
<1> SUFFICES ASSUME Init PROVE MembershipAgrees
  OBVIOUS
<1>1. TypeOK
  BY TypeInit
<1>2. MembersAgree /\ TracksDistinct
  BY DEF Init, MembersAgree, TracksDistinct, NoRoom, RoomIds
<1>3. LockHeld /\ RoomsAllotted
  BY HubConstants DEF Init, Free, LockHeld, RoomsAllotted, RoomIds
<1> QED BY <1>1, <1>2, <1>3 DEF MembershipAgrees

\* MembershipAgrees is inductive: with the types, with the lock's promises and with the rooms
\* never opened, no step needs anything else of the past.
THEOREM MembershipInductive == MembershipAgrees /\ [Next]_vars => MembershipAgrees'
<1> SUFFICES ASSUME MembershipAgrees, [Next]_vars PROVE MembershipAgrees'
  OBVIOUS
<1>1. Step /\ TaskOK'
  BY StepKinds DEF MembershipAgrees
<1>2. TypeOK'
  BY <1>1, TypeStep DEF MembershipAgrees, TypeOK
<1>3. MembersAgree' /\ TracksDistinct'
  BY <1>1, AgreeStep DEF MembershipAgrees
<1>4. LockHeld'
  BY <1>1, LockStep DEF MembershipAgrees
<1>5. RoomsAllotted'
  BY <1>1, AllottedStep
<1> QED BY <1>2, <1>3, <1>4, <1>5 DEF MembershipAgrees

\* The member lists of the rooms and the rooms of the sessions always agree, nobody without a
\* session is in a room, and no media id names two memberships (Hub::place, set_membership,
\* leave_room in rooms.rs).
THEOREM MembershipAlwaysAgrees == Spec => []MembershipAgrees
  BY MembershipInit, MembershipInductive, PTL DEF Spec

\* The hub implements RoomEpochs: whoever enters a room begins an epoch there, so nobody joins
\* an epoch that has begun (bump_epochs in rooms.rs), whichever epochs can't be written.
THEOREM HubRefinesRoomEpochs == Spec => EpochsRefined
<1>1. Init => RoomEpochs!Init
  BY DEF Init, RoomEpochs!Init
<1>2. MembershipAgrees /\ MembershipAgrees' /\ [Next]_vars => [RoomEpochs!Next]_<<epoch, members>>
  <2> SUFFICES ASSUME MembershipAgrees, MembershipAgrees', [Next]_vars PROVE RoomEpochs!Next
    OBVIOUS
  <2>1. epoch' \in [RoomIds -> 0..MaxEpoch] /\ members' \in [RoomIds -> SUBSET Users]
    BY DEF MembershipAgrees, TypeOK, MoveOK
  <2>2. ASSUME NEW r \in RoomIds PROVE RoomEpochs!Step(r)
    <3>1. EpochMoves(r)
      BY StepKinds, EpochStep DEF MembershipAgrees
    <3>2. epoch[r] \in Int /\ members'[r] \subseteq Users
      BY <2>1, HubConstants DEF MembershipAgrees, TypeOK, MoveOK
    <3> QED BY <3>1, <3>2, HubConstants DEF EpochMoves, RoomEpochs!Step
  <2> QED BY <2>1, <2>2 DEF RoomEpochs!Next
<1> QED BY <1>1, <1>2, MembershipAlwaysAgrees, PTL DEF Spec, EpochsRefined, RoomEpochs!Spec

-----------------------------------------------------------------------------
(* What sessions, ways back and persistent records promise. *)

\* No step leaves a session without its account or with another rank: a role is changed in the
\* session too (role_changed), and while accounts are removed one by one their sessions are the
\* ones left to end.
LEMMA SessionsStep ==
  ASSUME MembershipAgrees, SessionsFresh, Step
  PROVE  SessionsFresh'
<1> USE DEF MembershipAgrees, TypeOK, SignedIn
<1>1. CASE UNCHANGED <<account, role, conn>> /\ (todo = Free \/ todo' = todo \/ todo.op \in {"rejoin", "delete"})
  BY <1>1, TodosMade DEF SessionsFresh
<1>2. CASE Ranked
  <2>1. PICK u \in Users, new \in RoleNames : RoleChanged(u, new)
    BY <1>2 DEF Ranked
  <2>2. new # NoAccount
    BY DEF RoleNames, NoAccount
  <2> QED BY <1>2, <2>1, <2>2, TodosMade DEF Ranked, RoleChanged, SessionsFresh, AcctOK, SessOK
<1>3. CASE Removing
  <2>1. PICK S \in SUBSET Users, why \in {"request", "inactive"} : RemoveUsers(S, why)
    BY <1>3 DEF Removing
  <2>2. todo'.op = "remove" /\ todo'.left = S
    BY <2>1, TodosMade DEF RemoveUsers
  <2> QED BY <1>3, <2>1, <2>2, TodosMade DEF Removing, RemoveUsers, sessVars, SessionsFresh, AcctOK
<1>4. CASE Connected
  <2>1. PICK u \in Users : /\ account[u] # NoAccount
                           /\ conn' = [conn EXCEPT ![u] = nextConn]
                           /\ role' = [role EXCEPT ![u] = account[u]]
    BY <1>4 DEF Connected
  <2> QED BY <1>4, <2>1, TodosMade DEF Connected, acctVars, SessionsFresh, SessOK
<1>5. CASE Disconnected
  <2>1. PICK u \in Users : EndSession(u)
    BY <1>5 DEF Disconnected
  <2> QED BY <1>5, <2>1, TodosMade DEF Disconnected, EndSession, acctVars, SessionsFresh, SessOK
<1>6. CASE RemoveStep
  <2>1. todo.left \subseteq Users /\ todo.why \in {"request", "inactive"}
    BY <1>6, TodoFields DEF RemoveStep
  <2>2. PICK u \in todo.left :
          /\ todo' = IF todo.left = {u} THEN Free ELSE RemoveTodo(todo.left \ {u}, todo.why)
          /\ UNCHANGED acctVars
          /\ EndSession(u)
    BY <1>6 DEF RemoveStep
  <2>3. ASSUME NEW v \in Users, v # u, v \in todo.left
        PROVE  todo'.op = "remove" /\ v \in todo'.left
    BY <2>1, <2>2, <2>3, TodosMade
  <2> QED BY <2>1, <2>2, <2>3 DEF EndSession, acctVars, SessionsFresh, SessOK
<1>7. CASE Restart
  BY <1>7 DEF Restart, SessionsFresh
<1> QED BY ZenonT(60), <1>1, <1>2, <1>3, <1>4, <1>5, <1>6, <1>7, TodosMade
        DEF Step, acctVars, sessVars, Quiet, Expiring, ExpireKey,
            RoomAdded, AddRoom, PasswordStored, StoreRoomPassword, DeleteBegun, DeleteStep,
            DeleteAborted, DeleteFinish, Rejoin, RoomEntered, Kicked, KeyStored, SetEncryptionKey,
            MediaSet, SetMedia, WatchedSet, SetWatched, KeyframeAsked, RequestKeyframe, Flushed,
            FlushKeyframes, Asks

-----------------------------------------------------------------------------
(* Ways into a room. *)

\* The member lists after place.
LEMMA MoveMembers ==
  ASSUME MembersAgree, NEW u \in Users, NEW new, NEW bump, NEW tell, Move(u, new, bump, tell),
         NEW r \in RoomIds
  PROVE  members'[r] = IF r = new THEN members[r] \cup {u} ELSE members[r] \ {u}
<1>1. members'[r] = IF r = new THEN members[r] \cup {u}
                    ELSE IF r = room[u] THEN members[r] \ {u} ELSE members[r]
  BY DEF Move, MembersAfter
<1>2. r # room[u] => u \notin members[r]
  BY DEF MembersAgree
<1> QED BY <1>1, <1>2

\* The member lists after leave_room.
LEMMA LeaveMembers ==
  ASSUME MembersAgree, NEW u \in Users, LeaveRoom(u), NEW r \in RoomIds
  PROVE  members'[r] = members[r] \ {u}
<1>1. CASE room[u] = NoRoom
  <2>1. r # NoRoom
    BY DEF RoomIds, NoRoom
  <2> QED BY <1>1, <2>1 DEF LeaveRoom, MembersAgree
<1>2. CASE room[u] # NoRoom
  <2>1. PICK bump \in BOOLEAN : Move(u, NoRoom, bump, TRUE)
    BY <1>2 DEF LeaveRoom
  <2>2. r # NoRoom
    BY DEF RoomIds, NoRoom
  <2> QED BY <2>1, <2>2, MoveMembers
<1> QED BY <1>1, <1>2

\* The invariant of the ways into a room.
Ways == ReturnKnown /\ ReturnAlive /\ DemotedNotReturned

\* What leaves all ways as they are, or closes some.
LEMMA WaysKept ==
  ASSUME MembershipAgrees, Ways, UNCHANGED <<hash, alive, inside, byRank>>,
         \A u \in Users : lastJoined'[u] \in {lastJoined[u], NoRoom},
         \A r \in RoomIds : members'[r] \subseteq members[r],
         \A u \in Users : account'[u] = "User" => account[u] = "User"
  PROVE  Ways'
<1>1. \A r \in alive : r # NoRoom
  BY DEF MembershipAgrees, TypeOK, RoomsOK, RoomIds, NoRoom
<1> QED BY <1>1 DEF Ways, ReturnKnown, ReturnAlive, DemotedNotReturned

\* An entry opens a way back for those only who gave the password, were inside under it, or
\* whose rank opens the room.
LEMMA EnterWays ==
  ASSUME MembershipAgrees, SessionsFresh, Ways, NEW u \in Users, NEW r \in alive \cup {NoRoom},
         NEW proved \in BOOLEAN, todo = Free, conn[u] # 0, MayEnter(u, r, proved),
         Enter(u, r, proved), UNCHANGED <<account, hash, alive>>
  PROVE  Ways'
<1> USE DEF MembershipAgrees, TypeOK
<1>0. role[u] = account[u] /\ NoRoom \notin alive /\ alive \subseteq RoomIds
  BY TodosMade DEF SessionsFresh, SignedIn, RoomsOK, RoomIds, NoRoom
<1>1. CASE /\ room[u] = r
           /\ lastJoined' = [lastJoined EXCEPT ![u] = r]
           /\ byRank' = IF r = NoRoom \/ CanManageRooms(role[u]) THEN byRank
                        ELSE [byRank EXCEPT ![r] = @ \ {u}]
           /\ UNCHANGED <<members, inside>>
  <2>1. r # NoRoom => u \in inside[r]
    BY <1>0, <1>1 DEF Ways, ReturnAlive, MembersAgree
  <2>2. ReturnKnown' /\ ReturnAlive'
    BY <1>0, <1>1, <2>1 DEF Ways, ReturnKnown, ReturnAlive, AccessOK
  <2>3. DemotedNotReturned'
    <3>1. CanManageRooms(role[u]) => account[u] # "User"
      BY <1>0 DEF CanManageRooms, Rank
    <3> QED BY <1>0, <1>1, <3>1 DEF Ways, DemotedNotReturned, AccessOK
  <2> QED BY <2>2, <2>3 DEF Ways
<1>2. CASE /\ room[u] # r /\ Move(u, r, TRUE, TRUE)
           /\ IF r = NoRoom THEN UNCHANGED <<inside, byRank>> ELSE Entered(u, r, proved)
           /\ lastJoined' = [lastJoined EXCEPT ![u] = r]
  <2>1. \A q \in RoomIds : members'[q] = IF q = r THEN members[q] \cup {u} ELSE members[q] \ {u}
    BY <1>2, MoveMembers
  <2>2. ReturnKnown' /\ ReturnAlive'
    <3>1. /\ \A q \in RoomIds : inside[q] \subseteq inside'[q]
          /\ r # NoRoom => u \in inside'[r]
      BY <1>0, <1>2 DEF Entered, AccessOK
    <3>2. \A v \in Users : lastJoined'[v] = IF v = u THEN r ELSE lastJoined[v]
      BY <1>2 DEF AccessOK
    <3>3. ReturnKnown'
      BY <1>0, <3>1, <3>2 DEF Ways, ReturnKnown
    <3>4. \A v \in Users : lastJoined'[v] \in alive' \cup {NoRoom}
      BY <3>2 DEF Ways, ReturnAlive
    <3>5. \A q \in RoomIds : members'[q] \subseteq inside'[q]
      <4> SUFFICES ASSUME NEW q \in RoomIds PROVE members'[q] \subseteq inside'[q]
        OBVIOUS
      <4>1. members[q] \subseteq inside[q] /\ inside[q] \subseteq inside'[q]
        BY <3>1 DEF Ways, ReturnAlive
      <4>2. q # NoRoom
        BY DEF RoomIds, NoRoom
      <4> QED BY <2>1, <3>1, <4>1, <4>2
    <3> QED BY <3>3, <3>4, <3>5 DEF ReturnAlive
  <2>3. ~proved /\ r # NoRoom /\ hash[r] # 0 => account[u] # "User"
    BY <1>0, <1>2 DEF MayEnter, NeedsPassword, CanManageRooms, Rank
  <2>4. DemotedNotReturned'
    BY <1>0, <1>2, <2>3 DEF Entered, Ways, DemotedNotReturned, AccessOK
  <2> QED BY <2>2, <2>4 DEF Ways
<1>3. CASE UNCHANGED <<members, lastJoined, inside, byRank>>
  BY <1>3, WaysKept
<1> QED BY <1>1, <1>2, <1>3 DEF Enter, accessVars

\* No step opens a way back that was not earned: a new password, a kick, a demotion, a deletion
\* close them (store_room_password, kick_from_room, role_changed, delete_room).
LEMMA WaysStep ==
  ASSUME MembershipAgrees, SessionsFresh, Ways, Step
  PROVE  Ways'
<1> USE DEF MembershipAgrees, TypeOK
<1>0. NoRoom \notin alive /\ alive \subseteq RoomIds /\ NoRoom \notin RoomIds
  BY DEF RoomsOK, RoomIds, NoRoom
<1>1. CASE UNCHANGED <<account, hash, alive, members, lastJoined, inside, byRank>>
  BY <1>1, WaysKept
<1>2. CASE Ranked
  <2>1. PICK u \in Users, new \in RoleNames : RoleChanged(u, new)
    BY <1>2 DEF Ranked
  <2>2. \A v \in Users : /\ account'[v] = IF v = u THEN new ELSE account[v]
                         /\ lastJoined'[v] = IF v = u /\ LosesReturn(u, new) THEN NoRoom
                                             ELSE lastJoined[v]
    BY <2>1 DEF RoleChanged, AcctOK, AccessOK
  <2>3. UNCHANGED <<hash, alive, members, inside, byRank>>
    BY <2>1 DEF RoleChanged, roomVars, moveVars
  <2>4. ReturnKnown' /\ ReturnAlive'
    BY <1>0, <2>2, <2>3 DEF Ways, ReturnKnown, ReturnAlive
  <2>5. new = "User" /\ lastJoined[u] # NoRoom /\ hash[lastJoined[u]] # 0 => LosesReturn(u, new)
    BY DEF LosesReturn, CanManageRooms, Rank
  <2>6. DemotedNotReturned'
    BY <1>0, <2>2, <2>3, <2>5 DEF Ways, DemotedNotReturned
  <2> QED BY <2>4, <2>6 DEF Ways
<1>3. CASE Removing
  BY <1>3, WaysKept DEF Removing, RemoveUsers, roomVars, moveVars, accessVars, NoAccount
<1>4. CASE RoomAdded
  <2>1. PICK h \in 0..MaxHash : AddRoom(h)
    BY <1>4 DEF RoomAdded
  <2>2. /\ alive' = alive \cup {nextRoom} /\ nextRoom \notin alive /\ nextRoom \in RoomIds
        /\ \A r \in alive : hash'[r] = hash[r]
    BY <2>1, HubConstants DEF AddRoom, RoomsAllotted, RoomsOK, RoomIds
  <2>3. UNCHANGED <<account, members, lastJoined, inside, byRank>>
    BY <2>1 DEF AddRoom, acctVars, moveVars, accessVars
  <2>4. \A u \in Users : lastJoined[u] # nextRoom
    BY <1>0, <2>2 DEF Ways, ReturnAlive
  <2> QED BY <2>2, <2>3, <2>4 DEF Ways, ReturnKnown, ReturnAlive, DemotedNotReturned
<1>5. CASE PasswordStored
  <2>1. PICK r \in alive, h \in 0..MaxHash : StoreRoomPassword(r, h)
    BY <1>5 DEF PasswordStored
  <2>2. /\ \A q \in RoomIds : /\ hash'[q] = IF q = r THEN h ELSE hash[q]
                              /\ inside'[q] = IF q = r THEN members[r] ELSE inside[q]
                              /\ byRank'[q] = IF q = r THEN {} ELSE byRank[q]
        /\ \A u \in Users : lastJoined'[u] = IF lastJoined[u] # r \/ u \in members[r]
                                             THEN lastJoined[u] ELSE NoRoom
        /\ UNCHANGED <<account, alive, members>>
    BY <1>0, <2>1 DEF StoreRoomPassword, KeptAfterPassword, RoomsOK, AccessOK, acctVars, moveVars
  <2>3. ReturnKnown'
    BY <1>0, <2>2 DEF Ways, ReturnKnown
  <2>4. ReturnAlive'
    BY <1>0, <2>2 DEF Ways, ReturnAlive
  <2>5. DemotedNotReturned'
    BY <1>0, <2>2 DEF Ways, DemotedNotReturned
  <2> QED BY <2>3, <2>4, <2>5 DEF Ways
<1>6. CASE DeleteStep
  <2>1. PICK m \in todo.left : Move(m, NoRoom, TRUE, FALSE)
    BY <1>6 DEF DeleteStep
  <2>2. m \in Users
    BY <1>6, TodoFields DEF DeleteStep
  <2>3. \A r \in RoomIds : members'[r] \subseteq members[r]
    BY ZenonT(60), <1>0, <2>1, <2>2, MoveMembers
  <2> QED BY <1>6, <2>3, WaysKept DEF DeleteStep, acctVars, roomVars, accessVars
<1>7. CASE DeleteFinish
  <2>1. /\ alive' = alive \ {todo.room}
        /\ \A r \in alive' : hash'[r] = hash[r]
        /\ \A u \in Users : lastJoined'[u] = IF lastJoined[u] = todo.room THEN NoRoom
                                             ELSE lastJoined[u]
        /\ UNCHANGED <<account, members, inside, byRank>>
    BY <1>0, <1>7 DEF DeleteFinish, acctVars, RoomsOK
  <2>2. ReturnKnown' /\ DemotedNotReturned'
    BY <1>0, <2>1 DEF Ways, ReturnKnown, DemotedNotReturned
  <2>3. ReturnAlive'
    BY <2>1 DEF Ways, ReturnAlive
  <2> QED BY <2>2, <2>3 DEF Ways
<1>8. CASE Connected \/ Disconnected
  <2>1. \A r \in RoomIds : members'[r] \subseteq members[r]
    BY <1>8, LeaveMembers DEF Connected, Disconnected
  <2> QED BY <1>8, <2>1, WaysKept DEF Connected, Disconnected, acctVars, roomVars, accessVars
<1>9. CASE Rejoin
  <2> DEFINE u == todo.user
             r == todo.room
  <2>1. u \in Users /\ UNCHANGED <<account, hash, alive>>
    BY <1>9, TodoFields DEF Rejoin, acctVars, roomVars
  <2>2. CASE /\ r # NoRoom /\ MayPlace(u, r) /\ Move(u, r, TRUE, TRUE)
             /\ Entered(u, r, FALSE) /\ UNCHANGED lastJoined
    <3>1. r \in RoomIds
      BY <1>0, <2>2 DEF MayPlace
    <3>2. \A q \in RoomIds : members'[q] = IF q = r THEN members[q] \cup {u} ELSE members[q] \ {u}
      BY <2>1, <2>2, MoveMembers
    <3>3. /\ \A q \in RoomIds : inside[q] \subseteq inside'[q]
          /\ u \in inside'[r]
      BY <2>2, <3>1 DEF Entered, AccessOK
    <3>4. ReturnKnown'
      BY <1>0, <2>1, <2>2, <3>3 DEF Ways, ReturnKnown
    <3>5. ReturnAlive'
      <4>1. ASSUME NEW q \in RoomIds PROVE members'[q] \subseteq inside'[q]
        <5>1. members[q] \subseteq inside[q] /\ inside[q] \subseteq inside'[q]
          BY <3>3 DEF Ways, ReturnAlive
        <5> QED BY ZenonT(60), <3>2, <3>3, <5>1
      <4>2. \A v \in Users : lastJoined'[v] \in alive' \cup {NoRoom}
        BY <2>1, <2>2 DEF Ways, ReturnAlive
      <4> QED BY <4>1, <4>2 DEF ReturnAlive
    <3>6. DemotedNotReturned'
      BY <1>0, <2>1, <2>2, <3>1 DEF Entered, Ways, DemotedNotReturned, AccessOK
    <3> QED BY <3>4, <3>5, <3>6 DEF Ways
  <2> QED BY <1>1, <1>9, <2>1, <2>2 DEF Rejoin, moveVars, accessVars
<1>10. CASE RoomEntered
  BY <1>10, EnterWays DEF RoomEntered, acctVars, roomVars
<1>11. CASE Kicked
  <2>1. PICK u \in Users :
          /\ room[u] # NoRoom
          /\ lastJoined' = [lastJoined EXCEPT ![u] = NoRoom]
          /\ inside' = [inside EXCEPT ![room[u]] = @ \ {u}]
          /\ LeaveRoom(u)
    BY <1>11 DEF Kicked
  <2>2. \A r \in RoomIds : members'[r] = members[r] \ {u}
    BY <2>1, LeaveMembers
  <2>3. \A r \in RoomIds : inside'[r] = IF r = room[u] THEN inside[r] \ {u} ELSE inside[r]
    BY <2>1 DEF AccessOK
  <2>4. \A v \in Users : lastJoined'[v] = IF v = u THEN NoRoom ELSE lastJoined[v]
    BY <2>1 DEF AccessOK
  <2>5. UNCHANGED <<account, hash, alive, byRank>>
    BY <1>11 DEF Kicked, acctVars, roomVars
  <2>6. ReturnKnown' /\ DemotedNotReturned'
    <3>1. ReturnKnown'
      <4> SUFFICES ASSUME NEW v \in Users, NEW r \in alive, hash[r] # 0, lastJoined'[v] = r
                   PROVE  v \in inside'[r]
        BY <2>5 DEF ReturnKnown
      <4>1. v # u /\ lastJoined[v] = r
        BY <1>0, <2>4
      <4>2. v \in inside[r]
        BY <4>1 DEF Ways, ReturnKnown
      <4> QED BY <1>0, <2>3, <4>1, <4>2
    <3>2. DemotedNotReturned'
      BY <1>0, <2>4, <2>5 DEF Ways, DemotedNotReturned
    <3> QED BY <3>1, <3>2
  <2>7. ReturnAlive'
    BY <2>2, <2>3, <2>4, <2>5 DEF Ways, ReturnAlive
  <2> QED BY <2>6, <2>7 DEF Ways
<1>12. CASE RemoveStep
  <2>1. todo.left \subseteq Users
    BY <1>12, TodoFields DEF RemoveStep
  <2>2. PICK u \in todo.left :
          /\ lastJoined' = [lastJoined EXCEPT ![u] = NoRoom]
          /\ UNCHANGED <<acctVars, roomVars, inside, byRank>>
          /\ LeaveRoom(u)
    BY <1>12 DEF RemoveStep
  <2>3. \A r \in RoomIds : members'[r] \subseteq members[r]
    BY <2>1, <2>2, LeaveMembers
  <2>4. \A v \in Users : lastJoined'[v] \in {lastJoined[v], NoRoom}
    BY <2>1, <2>2 DEF AccessOK
  <2> QED BY <2>2, <2>3, <2>4, WaysKept DEF acctVars, roomVars
<1>13. CASE Restart
  <2>1. /\ \A u \in Users : lastJoined'[u] = NoRoom
        /\ \A r \in RoomIds : members'[r] = {}
        /\ UNCHANGED <<account, hash, alive, inside, byRank>>
    BY <1>13 DEF Restart, Persisted, acctVars, roomVars
  <2> QED BY <2>1, WaysKept
<1> QED BY ZenonT(60), <1>1, <1>2, <1>3, <1>4, <1>5, <1>6, <1>7, <1>8, <1>9, <1>10, <1>11, <1>12, <1>13
        DEF Step, acctVars, roomVars, moveVars, accessVars, Quiet, Expiring, ExpireKey,
            DeleteBegun, DeleteAborted, KeyStored, SetEncryptionKey, MediaSet, SetMedia,
            WatchedSet, SetWatched, KeyframeAsked, RequestKeyframe, Flushed, FlushKeyframes

-----------------------------------------------------------------------------
(* How many. *)

\* There is room for one more below a limit.
LEMMA RoomForOneMore ==
  ASSUME NEW S, IsFiniteSet(S), NEW x, NEW n \in Nat, Cardinality(S) < n
  PROVE  Cardinality(S \cup {x}) <= n
<1>1. Cardinality(S \cup {x}) = IF x \in S THEN Cardinality(S) ELSE Cardinality(S) + 1
  BY FS_AddElement
<1>2. Cardinality(S) \in Nat
  BY FS_CardinalityType
<1> QED BY <1>1, <1>2

\* A part of what is within a limit is within it.
LEMMA NoMoreThanBefore ==
  ASSUME NEW S, IsFiniteSet(S), NEW T \in SUBSET S, NEW n \in Nat, Cardinality(S) <= n
  PROVE  Cardinality(T) <= n
<1>1. Cardinality(S) \in Nat /\ Cardinality(T) \in Nat /\ Cardinality(T) <= Cardinality(S)
  BY FS_CardinalityType, FS_Subset
<1> QED BY <1>1

\* Member lists are finite.
LEMMA MembersFinite ==
  ASSUME MoveOK, NEW r \in RoomIds
  PROVE  IsFiniteSet(members[r]) /\ Cardinality(members[r]) \in Nat
  BY HubConstants, FS_Subset, FS_CardinalityType DEF MoveOK

\* No step exceeds the limits of rooms and members: the ones checked before Argon2 are checked
\* again after it (finish).
LEMMA LimitsStep ==
  ASSUME MembershipAgrees, RoomLimits, Step
  PROVE  RoomLimits'
<1> USE DEF MembershipAgrees, TypeOK
<1>0. MaxRoomMembers \in Nat /\ MaxRooms \in Nat
  BY HubConstants
<1>1. ASSUME NEW r \in RoomIds PROVE Cardinality(members'[r]) <= MaxRoomMembers
  <2>0. IsFiniteSet(members[r]) /\ Cardinality(members[r]) \in Nat
        /\ Cardinality(members[r]) <= MaxRoomMembers
    BY MembersFinite DEF RoomLimits
  <2>1. CASE members'[r] \subseteq members[r]
    BY <1>0, <2>0, <2>1, NoMoreThanBefore
  <2>2. ASSUME NEW u \in Users, NEW new, Move(u, new, TRUE, TRUE), MayPlace(u, new)
        PROVE  Cardinality(members'[r]) <= MaxRoomMembers
    <3>1. members'[r] = IF r = new THEN members[r] \cup {u} ELSE members[r] \ {u}
      BY <2>2, MoveMembers
    <3>2. CASE r = new
      <4>1. Cardinality(members[r]) < MaxRoomMembers
        BY <2>2, <3>2 DEF MayPlace, NoRoom, RoomIds
      <4> QED BY <1>0, <2>0, <3>1, <3>2, <4>1, RoomForOneMore
    <3>3. CASE r # new
      BY <2>1, <3>1, <3>3
    <3> QED BY <3>2, <3>3
  <2>3. CASE DeleteStep
    <3>1. PICK m \in todo.left : Move(m, NoRoom, TRUE, FALSE)
      BY <2>3 DEF DeleteStep
    <3>2. m \in Users /\ r # NoRoom
      BY <2>3, TodoFields DEF DeleteStep, RoomIds, NoRoom
    <3>3. members'[r] = IF r = NoRoom THEN members[r] \cup {m} ELSE members[r] \ {m}
      BY <3>1, <3>2, MoveMembers
    <3> QED BY <2>1, <3>2, <3>3
  <2>4. CASE Connected \/ Disconnected \/ Kicked
    BY <2>1, <2>4, LeaveMembers DEF Connected, Disconnected, Kicked
  <2>5. CASE RemoveStep
    <3>1. todo.left \subseteq Users
      BY <2>5, TodoFields DEF RemoveStep
    <3> QED BY <2>1, <2>5, <3>1, LeaveMembers DEF RemoveStep
  <2>6. CASE Rejoin
    <3>1. todo.user \in Users
      BY <2>6, TodoFields DEF Rejoin
    <3> QED BY <2>1, <2>2, <2>6, <3>1 DEF Rejoin, moveVars
  <2>7. CASE RoomEntered
    BY ZenonT(60), <2>1, <2>2, <2>7 DEF RoomEntered, Enter
  <2>8. CASE Restart
    BY <2>1, <2>8 DEF Restart
  <2> QED BY ZenonT(60), <2>1, <2>3, <2>4, <2>5, <2>6, <2>7, <2>8
          DEF Step, moveVars, Quiet, Ranked, RoleChanged, Removing, RemoveUsers, Expiring, ExpireKey,
            RoomAdded, AddRoom, PasswordStored, StoreRoomPassword, DeleteBegun,
            DeleteAborted, DeleteFinish, KeyStored, SetEncryptionKey, MediaSet, SetMedia,
            WatchedSet, SetWatched, KeyframeAsked, RequestKeyframe, Flushed, FlushKeyframes
<1>2. Cardinality(alive') <= MaxRooms
  <2>1. IsFiniteSet(alive) /\ Cardinality(alive) \in Nat /\ Cardinality(alive) <= MaxRooms
    <3>1. IsFiniteSet(RoomIds)
      BY HubConstants, FS_Interval DEF RoomIds
    <3> QED BY <3>1, FS_Subset, FS_CardinalityType DEF RoomsOK, RoomLimits
  <2>2. CASE alive' \subseteq alive
    BY <1>0, <2>1, <2>2, NoMoreThanBefore
  <2>3. CASE RoomAdded
    <3>1. alive' = alive \cup {nextRoom} /\ Cardinality(alive) < MaxRooms
      BY <2>3 DEF RoomAdded, AddRoom
    <3> QED BY <1>0, <2>1, <3>1, RoomForOneMore
  <2> QED BY ZenonT(60), <2>2, <2>3
        DEF Step, roomVars, Quiet, Ranked, RoleChanged, Removing, RemoveUsers, Expiring, ExpireKey,
            PasswordStored, StoreRoomPassword, DeleteBegun, DeleteStep, DeleteAborted, DeleteFinish,
            Connected, Rejoin, Disconnected, RoomEntered, Kicked, RemoveStep, KeyStored,
            SetEncryptionKey, MediaSet, SetMedia, WatchedSet, SetWatched, KeyframeAsked,
            RequestKeyframe, Flushed, FlushKeyframes, Restart, Persisted
<1> QED BY <1>1, <1>2 DEF RoomLimits

\* A session has its account and the rank of it, a reconnect leads past a password only those
\* who were inside under it and were not put out since, a demoted manager is not returned to a
\* room that their rank opened, and limits hold (connect, may_rejoin, store_room_password,
\* role_changed, finish in rooms.rs). ReturnAlive, that ways back lead to rooms there are, is
\* what keeps a room that is opened later from inheriting one.
THEOREM AccessAlwaysEarned == Spec => []AccessEarned
<1>1. Init => AccessEarned
  <2> SUFFICES ASSUME Init PROVE AccessEarned
    OBVIOUS
  <2>1. SessionsFresh /\ ReturnKnown /\ ReturnAlive /\ DemotedNotReturned
    BY HubConstants DEF Init, SessionsFresh, SignedIn, ReturnKnown, ReturnAlive, DemotedNotReturned,
       RoomIds
  <2>2. \A r \in RoomIds : Cardinality(members[r]) <= MaxRoomMembers
    BY HubConstants, FS_EmptySet DEF Init
  <2>3. Cardinality(alive) <= MaxRooms
    <3>1. InitRooms \in Int /\ InitRooms <= MaxRooms /\ MaxRooms \in Nat
      BY HubConstants
    <3>2. Cardinality(1..InitRooms) = IF 1 > InitRooms THEN 0 ELSE InitRooms - 1 + 1
      BY <3>1, FS_Interval
    <3> QED BY <3>1, <3>2 DEF Init
  <2> QED BY <2>1, <2>2, <2>3 DEF AccessEarned, RoomLimits
<1>2. MembershipAgrees /\ AccessEarned /\ [Next]_vars => AccessEarned'
  BY StepKinds, SessionsStep, WaysStep, LimitsStep DEF MembershipAgrees, AccessEarned, Ways
<1> QED BY <1>1, <1>2, MembershipAlwaysAgrees, PTL DEF Spec

-----------------------------------------------------------------------------
(* What outlasts every step. *)

\* remove_user leaves an admin: whoever asks outranks all it removes.
LEMMA RemovalKeepsAdmin ==
  ASSUME MembershipAgrees, SessionsFresh, NEW t \in Tasks, NEW u \in Users,
         NEW cascade \in BOOLEAN, RemoveUser(t, u, cascade), Admins # {}
  PROVE  Admins' # {}
<1> DEFINE actor == tUser[t]
           S == Removed(u, cascade)
<1>1. todo = Free /\ Current(t) /\ MayRemove(actor, u, cascade) /\ RemoveUsers(S, "request")
  BY DEF RemoveUser, Asks
<1>2. actor \in Users /\ role[actor] = account[actor]
  <2>1. actor \in Users /\ conn[actor] # 0
    BY <1>1, AskerFacts DEF MembershipAgrees
  <2> QED BY <1>1, <2>1, TodosMade DEF SessionsFresh, SignedIn
<1>3. \A v \in Users \ S : account'[v] = account[v]
  BY <1>1 DEF RemoveUsers
<1>4. CASE actor = u /\ ~cascade /\ account[u] = "Admin"
  <2>1. Cardinality(Admins) # 1 /\ S = {u}
    BY <1>1, <1>2, <1>4 DEF MayRemove, Removed
  <2>2. Admins # {u}
    BY <2>1, FS_Singleton
  <2>3. PICK v \in Admins : v # u
    BY <1>4, <2>2 DEF Admins
  <2> QED BY <1>3, <2>1, <2>3 DEF Admins
<1>5. CASE ~(actor = u /\ ~cascade /\ account[u] = "Admin")
  <2>1. \A v \in S : account[v] # "Admin"
    <3>1. CASE actor = u /\ ~cascade
      BY <1>5, <3>1 DEF Removed
    <3>2. CASE ~(actor = u /\ ~cascade)
      BY <1>1, <3>2 DEF MayRemove, CanRemove, Rank
    <3> QED BY <3>1, <3>2
  <2> QED BY <1>3, <2>1 DEF Admins
<1> QED BY <1>4, <1>5

\* No step but the removal of the inactive takes the last admin.
LEMMA AdminStep ==
  ASSUME MembershipAgrees, SessionsFresh, Step, Admins # {}
  PROVE  Admins' # {} \/ (todo'.op = "remove" /\ todo'.why = "inactive")
<1>1. CASE account' = account
  BY <1>1 DEF Admins
<1>2. CASE Ranked
  <2>1. PICK u \in Users, new \in RoleNames : account[u] # "Admin" /\ RoleChanged(u, new)
    BY <1>2 DEF Ranked
  <2>2. \A v \in Users : v # u => account'[v] = account[v]
    BY <2>1 DEF RoleChanged, MembershipAgrees, TypeOK, AcctOK
  <2> QED BY <2>1, <2>2 DEF Admins
<1>3. CASE Removing
  BY <1>3, RemovalKeepsAdmin, TodosMade DEF Removing, RemoveUsers
<1> QED BY ZenonT(60), <1>1, <1>2, <1>3
        DEF Step, acctVars, Quiet, Expiring, ExpireKey, RoomAdded, AddRoom,
            PasswordStored, StoreRoomPassword, DeleteBegun, DeleteStep, DeleteAborted, DeleteFinish,
            Connected, Rejoin, Disconnected, RoomEntered, Kicked, RemoveStep, KeyStored,
            SetEncryptionKey, MediaSet, SetMedia, WatchedSet, SetWatched, KeyframeAsked,
            RequestKeyframe, Flushed, FlushKeyframes, Restart, Persisted

\* The media ids that place gives.
LEMMA MoveTracks ==
  ASSUME MoveOK, NEW u \in Users, NEW new, NEW bump, NEW tell, Move(u, new, bump, tell)
  PROVE  /\ nextAlloc' \in {nextAlloc, nextAlloc + 1}
         /\ \A v \in Users : tracks'[v] \in {0, tracks[v], nextAlloc}
  BY DEF Move, SetMembership, AllocAfter, MoveOK

\* Every step keeps the media ids a member has, takes them, or gives the next.
LEMMA TracksStep ==
  ASSUME MembershipAgrees, Step
  PROVE  /\ nextAlloc' \in {nextAlloc, nextAlloc + 1}
         /\ \A v \in Users : tracks'[v] \in {0, tracks[v], nextAlloc}
<1> USE DEF MembershipAgrees, TypeOK
<1>1. CASE tracks' = tracks /\ nextAlloc' \in {nextAlloc, nextAlloc + 1}
  BY <1>1
<1>2. CASE DeleteStep
  <2>1. todo.left \subseteq Users
    BY <1>2, TodoFields DEF DeleteStep
  <2> QED BY <1>2, <2>1, MoveTracks DEF DeleteStep
<1>3. CASE Connected \/ Disconnected \/ Kicked
  BY <1>1, <1>3, MoveTracks DEF Connected, Disconnected, Kicked, LeaveRoom
<1>4. CASE RemoveStep
  <2>1. todo.left \subseteq Users
    BY <1>4, TodoFields DEF RemoveStep
  <2> QED BY <1>1, <1>4, <2>1, MoveTracks DEF RemoveStep, LeaveRoom
<1>5. CASE Rejoin
  <2>1. todo.user \in Users
    BY <1>5, TodoFields DEF Rejoin
  <2> QED BY <1>1, <1>5, <2>1, MoveTracks DEF Rejoin, moveVars
<1>6. CASE RoomEntered
  BY ZenonT(60), <1>1, <1>6, MoveTracks DEF RoomEntered, Enter
<1>7. CASE Restart
  BY <1>7 DEF Restart, Persisted
<1> QED BY ZenonT(60), <1>1, <1>2, <1>3, <1>4, <1>5, <1>6, <1>7
        DEF Step, moveVars, Quiet, Ranked, RoleChanged, Removing, RemoveUsers, Expiring, ExpireKey,
            RoomAdded, AddRoom, PasswordStored, StoreRoomPassword, DeleteBegun,
            DeleteAborted, DeleteFinish, KeyStored, SetEncryptionKey, MediaSet, SetMedia,
            WatchedSet, SetWatched, KeyframeAsked, RequestKeyframe, Flushed, FlushKeyframes

\* No step takes back a media id, a room id or an epoch, a restart included; rooms open empty
\* under an id not used before.
LEMMA RecordsStep ==
  ASSUME MembershipAgrees, Step
  PROVE  /\ nextAlloc' >= nextAlloc /\ nextRoom' >= nextRoom
         /\ \A r \in RoomIds : epoch'[r] >= epoch[r]
         /\ \A u \in Users : tracks'[u] \in {0, tracks[u], nextAlloc}
         /\ \A r \in alive' \ alive : epoch'[r] = 0 /\ members'[r] = {} /\ r >= nextRoom
<1>1. nextAlloc \in Int /\ nextRoom \in Int /\ \A r \in RoomIds : epoch[r] \in Int
  BY HubConstants DEF MembershipAgrees, TypeOK, RoomsOK, MoveOK
<1>2. nextAlloc' >= nextAlloc /\ \A u \in Users : tracks'[u] \in {0, tracks[u], nextAlloc}
  BY <1>1, TracksStep
<1>3. nextRoom' >= nextRoom /\ \A r \in alive' \ alive : r = nextRoom /\ nextRoom' # nextRoom
  BY <1>1, RoomStep DEF MembershipAgrees
<1>4. \A r \in RoomIds : epoch'[r] >= epoch[r]
  BY <1>1, EpochStep DEF MembershipAgrees, EpochMoves
<1>5. ASSUME NEW r \in alive', r \notin alive
      PROVE  epoch'[r] = 0 /\ members'[r] = {} /\ r >= nextRoom
  <2>1. r = nextRoom /\ nextRoom' # nextRoom
    BY <1>3, <1>5
  <2>2. r \in RoomIds
    BY TypeStep, <1>5 DEF MembershipAgrees, RoomsOK
  <2>3. EpochMoves(r)
    BY <2>2, EpochStep DEF MembershipAgrees
  <2>4. epoch[r] = 0
    BY <1>1, <2>1, <2>2 DEF MembershipAgrees, RoomsAllotted
  <2>5. members[r] = {}
    BY <1>5, <2>2 DEF MembershipAgrees, MembersAgree, TypeOK, MoveOK, NoRoom, RoomIds
  <2> QED BY <1>1, <1>5, <2>1, <2>3, <2>4, <2>5 DEF EpochMoves
<1> QED BY <1>2, <1>3, <1>4, <1>5

\* Media ids, room ids and epochs are never used twice, over restarts too, and no request
\* removes the last admin (allocate_media_ids in database.rs, bump_epochs and remove_user in
\* rooms.rs).
THEOREM RecordsAlwaysLast == Spec => RecordsLast
<1>1. MembershipAgrees /\ AccessEarned /\ [Next]_vars =>
        [Admins # {} => Admins' # {} \/ (todo'.op = "remove" /\ todo'.why = "inactive")]_vars
  BY StepKinds, AdminStep DEF MembershipAgrees, AccessEarned
<1>2. MembershipAgrees /\ [Next]_vars =>
        [/\ nextAlloc' >= nextAlloc /\ nextRoom' >= nextRoom
         /\ \A r \in RoomIds : epoch'[r] >= epoch[r]
         /\ \A u \in Users : tracks'[u] \in {0, tracks[u], nextAlloc}
         /\ \A r \in alive' \ alive : epoch'[r] = 0 /\ members'[r] = {} /\ r >= nextRoom]_vars
  BY StepKinds, RecordsStep DEF MembershipAgrees
<1> QED BY <1>1, <1>2, MembershipAlwaysAgrees, AccessAlwaysEarned, PTL
        DEF Spec, RecordsLast, AdminsRemain, NothingReused

=============================================================================
