-------------------------- MODULE HubClientsProofs --------------------------
(***************************************************************************)
(* What clients were told of their rooms, and what the forwarding table,   *)
(* announced audiences, watch lists and keyframe requests promise, on top  *)
(* of HubProofs.                                                           *)
(***************************************************************************)
EXTENDS HubProofs

-----------------------------------------------------------------------------
(* What clients were told of their rooms. *)

\* ToldCurrent, of a function.
Told == told = [u \in Users |-> told[u]] /\ ToldCurrent

\* A room state depends on the room's epoch, its members, and their keys, media ids and shares
\* only.
LEMMA SameRoomState ==
  ASSUME NEW r \in RoomIds, epoch'[r] = epoch[r], members'[r] = members[r],
         \A m \in members[r] : key'[m] = key[m] /\ tracks'[m] = tracks[m] /\ share'[m] = share[m]
  PROVE  RoomState(r, epoch', members', key', tracks', share') = RoomStateNow(r)
<1>1. {<<m, key'[m], tracks'[m], share'[m]>> : m \in members'[r]}
        = {<<m, key[m], tracks[m], share[m]>> : m \in members[r]}
  OBVIOUS
<1> QED BY <1>1 DEF RoomState, RoomStateNow

\* A room state names its room.
LEMMA RoomStateNames ==
  ASSUME NEW r, NEW ep, NEW mem, NEW ky, NEW tr, NEW sh
  PROVE  RoomState(r, ep, mem, ky, tr, sh)[1] = r
  BY DEF RoomState

\* place tells both rooms, except while a room is being deleted, whose members are told at the
\* end.
LEMMA MoveToldCurrent ==
  ASSUME MembershipAgrees, Told, NEW u \in Users, NEW new \in RoomIds \cup {NoRoom}, NEW bump,
         NEW tell \in BOOLEAN, Move(u, new, bump, tell), key' = key,
         \A v \in Users \ {u} : conn'[v] = conn[v],
         \/ tell /\ todo.op # "delete"
         \/ todo.op = "delete" /\ todo'.op = "delete" /\ todo'.room = todo.room
            /\ room[u] = todo.room /\ conn[u] # 0
  PROVE  Told'
<1> USE DEF MembershipAgrees, TypeOK
<1> DEFINE old == room[u]
<1>1. /\ \A v \in Users : room'[v] = IF v = u THEN new ELSE room[v]
      /\ \A v \in Users \ {u} : tracks'[v] = tracks[v] /\ share'[v] = share[v]
  BY DEF Move, SetMembership, MoveOK
<1>2. \A r \in RoomIds : r \notin {old, new} => epoch'[r] = epoch[r] /\ members'[r] = members[r]
  BY DEF Move, EpochsAfter, MembersAfter
<1>3. /\ told' = [m \in Users |->
           IF m = u THEN IF new # NoRoom
                         THEN RoomState(new, epoch', members', key', tracks', share')
                         ELSE IF tell THEN Lobby ELSE told[u]
           ELSE IF HearsOfMove(m, old, new)
                THEN RoomState(room[m], epoch', members', key', tracks', share')
           ELSE told[m]]
      /\ untold' = untold \ ({m \in Users : HearsOfMove(m, old, new)}
                             \cup (IF tell THEN {u} ELSE {}))
  BY DEF Move, MoveTold
<1>4. told' = [m \in Users |-> told'[m]]
  BY <1>3
<1> SUFFICES ASSUME NEW v \in SignedIn'
             PROVE  /\ room'[v] # NoRoom => told'[v][1] = room'[v]
                    /\ v \notin untold' =>
                         /\ room'[v] # NoRoom =>
                              told'[v] = RoomState(room'[v], epoch', members', key', tracks', share')
                         /\ room'[v] = NoRoom =>
                              told'[v] = Lobby \/ (todo'.op = "delete" /\ told'[v][1] = todo'.room)
  BY <1>4 DEF Told, ToldCurrent, RoomStateNow
<1>5. v \in Users
  BY DEF SignedIn
<1>6. CASE v = u
  <2>1. CASE new # NoRoom
    BY <1>1, <1>3, <1>5, <1>6, <2>1, RoomStateNames
  <2>2. CASE new = NoRoom /\ tell
    BY <1>1, <1>3, <1>5, <1>6, <2>2
  <2>3. CASE new = NoRoom /\ ~tell
    <3>1. room[u] # NoRoom /\ u \in SignedIn
      BY <2>3, TodoFields DEF SignedIn, RoomIds, NoRoom
    <3>2. told[u][1] = todo.room
      BY <2>3, <3>1 DEF Told, ToldCurrent
    <3> QED BY <1>1, <1>3, <1>5, <1>6, <2>3, <3>2
  <2> QED BY <2>1, <2>2, <2>3
<1>7. CASE v # u /\ HearsOfMove(v, old, new)
  BY <1>1, <1>3, <1>5, <1>7, RoomStateNames DEF HearsOfMove
<1>8. CASE v # u /\ ~HearsOfMove(v, old, new)
  <2>1. /\ told'[v] = told[v] /\ room'[v] = room[v] /\ v \in SignedIn
        /\ v \notin untold' => v \notin untold
    BY <1>1, <1>3, <1>5, <1>8 DEF SignedIn
  <2>2. CASE room[v] = NoRoom
    BY <2>1, <2>2 DEF Told, ToldCurrent
  <2>3. CASE room[v] # NoRoom
    <3>1. room[v] \in RoomIds /\ room[v] \notin {old, new}
      BY <1>5, <1>8, <2>3 DEF HearsOfMove, MoveOK
    <3>2. \A m \in members[room[v]] : m \in Users \ {u}
      BY <3>1 DEF MembersAgree, MoveOK
    <3>3. RoomState(room[v], epoch', members', key', tracks', share') = RoomStateNow(room[v])
      BY <1>1, <1>2, <3>1, <3>2, SameRoomState
    <3> QED BY <2>1, <2>3, <3>3 DEF Told, ToldCurrent
  <2> QED BY <2>2, <2>3
<1> QED BY <1>6, <1>7, <1>8

\* What changes nothing that a room state shows keeps what was told current.
LEMMA ToldKept ==
  ASSUME Told, UNCHANGED <<told, untold, room, epoch, members, key, tracks, share, conn>>,
         todo.op = "delete" => todo' = todo
  PROVE  Told'
<1>1. SignedIn' = SignedIn
  BY DEF SignedIn
<1> QED BY <1>1 DEF Told, ToldCurrent, RoomStateNow, RoomState

\* leave_room tells those who stay, or marks the room untold where place fails.
LEMMA LeaveToldCurrent ==
  ASSUME MembershipAgrees, Told, NEW u \in Users, LeaveRoom(u), key' = key,
         \A v \in Users \ {u} : conn'[v] = conn[v], todo.op # "delete"
  PROVE  Told'
<1>1. CASE room[u] = NoRoom
  <2>1. /\ told' = [told EXCEPT ![u] = Lobby] /\ untold' = untold \ {u}
        /\ UNCHANGED <<room, epoch, members, tracks, share>>
    BY <1>1 DEF LeaveRoom
  <2>2. \A r \in RoomIds : RoomState(r, epoch', members', key', tracks', share') = RoomStateNow(r)
    BY <2>1 DEF RoomState, RoomStateNow
  <2>3. told' = [v \in Users |-> IF v = u THEN Lobby ELSE told[v]]
    BY <2>1 DEF Told
  <2>4. SignedIn' \ {u} \subseteq SignedIn
    BY DEF SignedIn
  <2>5. ASSUME NEW v \in SignedIn', v # u
        PROVE  /\ room'[v] # NoRoom => told'[v][1] = room'[v]
               /\ v \notin untold' =>
                    /\ room'[v] # NoRoom => told'[v] = RoomStateNow(room'[v])
                    /\ room'[v] = NoRoom => told'[v] = Lobby
    BY <2>1, <2>3, <2>4, <2>5 DEF Told, ToldCurrent, SignedIn
  <2>6. \A v \in SignedIn' : room'[v] # NoRoom => room'[v] \in RoomIds
    BY <2>1 DEF SignedIn, MembershipAgrees, TypeOK, MoveOK
  <2>7. ToldCurrent'
    BY <1>1, <2>1, <2>2, <2>3, <2>5, <2>6 DEF ToldCurrent, RoomStateNow
  <2> QED BY <2>3, <2>7 DEF Told
<1>2. CASE room[u] # NoRoom
  <2>1. PICK bump \in BOOLEAN : Move(u, NoRoom, bump, TRUE)
    BY <1>2 DEF LeaveRoom
  <2> QED BY <2>1, MoveToldCurrent
<1> QED BY <1>1, <1>2

\* enter tells the room left and the room entered.
LEMMA EnterToldCurrent ==
  ASSUME MembershipAgrees, Told, NEW u \in Users, NEW r \in alive \cup {NoRoom}, NEW proved,
         Enter(u, r, proved), UNCHANGED <<key, conn, todo>>, todo.op # "delete"
  PROVE  Told'
<1>1. CASE /\ room[u] = r
           /\ told' = [told EXCEPT ![u] = IF r = NoRoom THEN Lobby ELSE RoomStateNow(r)]
           /\ untold' = untold \ {u}
           /\ UNCHANGED <<epoch, room, tracks, share, members>>
  <2>1. told' = [v \in Users |-> IF v = u THEN IF r = NoRoom THEN Lobby ELSE RoomStateNow(r)
                                 ELSE told[v]]
    BY <1>1 DEF Told
  <2>2. SignedIn' = SignedIn /\ SignedIn \subseteq Users
    BY DEF SignedIn
  <2>3. \A q : (RoomStateNow(q))' = RoomStateNow(q)
    BY <1>1 DEF RoomState, RoomStateNow
  <2>4. r # NoRoom => RoomStateNow(r)[1] = r
    BY DEF RoomState, RoomStateNow
  <2>5. ToldCurrent'
    BY <1>1, <2>1, <2>2, <2>3, <2>4 DEF Told, ToldCurrent
  <2> QED BY <2>1, <2>5 DEF Told
<1>2. CASE Move(u, r, TRUE, TRUE)
  <2>1. r \in RoomIds \cup {NoRoom}
    BY DEF MembershipAgrees, TypeOK, RoomsOK
  <2> QED BY <1>2, <2>1, MoveToldCurrent
<1>3. CASE UNCHANGED <<told, untold, room, epoch, members, tracks, share>>
  BY <1>3, ToldKept
<1> QED BY <1>1, <1>2, <1>3 DEF Enter

\* broadcast_peers tells all members.
LEMMA BroadcastToldCurrent ==
  ASSUME MembershipAgrees, Told, NEW r \in RoomIds, BroadcastPeers(r),
         UNCHANGED <<room, members, tracks, conn, todo>>, todo.op # "delete",
         \A q \in RoomIds \ {r} : epoch'[q] = epoch[q],
         \A m \in Users \ members[r] : key'[m] = key[m] /\ share'[m] = share[m]
  PROVE  Told'
<1> USE DEF MembershipAgrees, TypeOK
<1>1. told' = [m \in Users |-> told'[m]]
  BY DEF BroadcastPeers
<1> SUFFICES ASSUME NEW v \in SignedIn
             PROVE  /\ room[v] # NoRoom => told'[v][1] = room[v]
                    /\ v \notin untold' =>
                         /\ room[v] # NoRoom =>
                              told'[v] = RoomState(room[v], epoch', members', key', tracks', share')
                         /\ room[v] = NoRoom => told'[v] = Lobby
  BY <1>1 DEF Told, ToldCurrent, RoomStateNow, SignedIn
<1>2. v \in Users /\ r # NoRoom
  BY DEF SignedIn, RoomIds, NoRoom
<1>3. CASE v \in members[r]
  <2>1. told'[v] = RoomState(r, epoch', members', key', tracks', share') /\ room[v] = r
    BY <1>2, <1>3 DEF BroadcastPeers, MembersAgree
  <2> QED BY <1>2, <2>1, RoomStateNames
<1>4. CASE v \notin members[r]
  <2>1. told'[v] = told[v] /\ (v \notin untold' => v \notin untold) /\ room[v] # r
    BY <1>2, <1>4 DEF BroadcastPeers, MembersAgree
  <2>2. CASE room[v] = NoRoom
    BY <2>1, <2>2 DEF Told, ToldCurrent
  <2>3. CASE room[v] # NoRoom
    <3>1. room[v] \in RoomIds \ {r}
      BY <1>2, <2>1, <2>3 DEF MoveOK
    <3>2. \A m \in members[room[v]] : m \in Users \ members[r]
      BY <3>1 DEF MembersAgree, MoveOK
    <3>3. RoomState(room[v], epoch', members', key', tracks', share') = RoomStateNow(room[v])
      BY <3>1, <3>2, SameRoomState
    <3> QED BY <2>1, <2>3, <3>3 DEF Told, ToldCurrent
  <2> QED BY <2>2, <2>3
<1> QED BY <1>3, <1>4

\* set_encryption_key tells all members, of a new epoch unless it can't be written.
LEMMA KeyToldCurrent ==
  ASSUME MembershipAgrees, Told, NEW t \in Tasks, NEW rotates \in BOOLEAN,
         SetEncryptionKey(t, rotates)
  PROVE  Told'
<1> DEFINE u == tUser[t]
<1>1. u \in Users /\ todo = Free
  BY AskerFacts DEF MembershipAgrees, SetEncryptionKey, Asks
<1>2. /\ UNCHANGED <<room, members, tracks, share, conn, todo>> /\ todo.op # "delete"
      /\ \A m \in Users \ {u} : key'[m] = key[m]
  BY <1>1, TodosMade DEF SetEncryptionKey, sessVars, MembershipAgrees, TypeOK, AcctOK
<1>3. CASE room[u] # NoRoom /\ BroadcastPeers(room[u])
           /\ epoch' = [r \in RoomIds |->
                IF r = room[u] /\ Rekeys(u, rotates) THEN epoch[r] + 1 ELSE epoch[r]]
  <2>1. room[u] \in RoomIds /\ u \in members[room[u]]
    BY <1>1, <1>3 DEF MembershipAgrees, TypeOK, MoveOK, MembersAgree
  <2> QED BY <1>2, <1>3, <2>1, BroadcastToldCurrent
<1>4. CASE room[u] = NoRoom /\ UNCHANGED <<told, untold>>
           /\ epoch' = [r \in RoomIds |->
                IF r = room[u] /\ Rekeys(u, rotates) THEN epoch[r] + 1 ELSE epoch[r]]
  <2>1. ASSUME NEW r \in RoomIds PROVE (RoomStateNow(r))' = RoomStateNow(r)
    <3>1. \A m \in members[r] : m \in Users \ {u}
      BY <1>1, <1>4 DEF MembershipAgrees, TypeOK, MoveOK, MembersAgree, NoRoom, RoomIds
    <3> QED BY <1>2, <1>4, <3>1, SameRoomState DEF Rekeys, RoomStateNow
  <2>2. SignedIn' = SignedIn /\ \A v \in SignedIn : room[v] # NoRoom => room[v] \in RoomIds
    BY <1>2 DEF SignedIn, MembershipAgrees, TypeOK, MoveOK
  <2> QED BY <1>2, <1>4, <2>1, <2>2 DEF Told, ToldCurrent
<1>5. CASE /\ Rekeys(u, rotates) /\ untold' = untold \cup members[room[u]]
           /\ UNCHANGED <<epoch, told>>
  <2>1. ASSUME NEW v \in SignedIn, v \notin untold', room[v] # NoRoom
        PROVE  (RoomStateNow(room[v]))' = RoomStateNow(room[v])
    <3>1. room[v] \in RoomIds /\ room[u] \in RoomIds /\ room[v] # room[u]
      BY <1>1, <1>5, <2>1 DEF Rekeys, SignedIn, MembershipAgrees, TypeOK, MoveOK, MembersAgree
    <3>2. \A m \in members[room[v]] : m \in Users \ {u}
      BY <1>1, <3>1 DEF MembershipAgrees, TypeOK, MoveOK, MembersAgree
    <3>3. RoomState(room[v], epoch', members', key', tracks', share') = RoomStateNow(room[v])
      BY <1>2, <1>5, <3>1, <3>2, SameRoomState
    <3> QED BY <1>2, <3>3 DEF RoomStateNow
  <2>2. SignedIn' = SignedIn
    BY <1>2 DEF SignedIn
  <2> QED BY <1>2, <1>5, <2>1, <2>2 DEF Told, ToldCurrent
<1> QED BY <1>3, <1>4, <1>5 DEF SetEncryptionKey

\* Every step keeps what was told current, but for the rooms that a handler that stopped
\* halfway has left untold.
LEMMA ToldStep ==
  ASSUME MembershipAgrees, Told, Step
  PROVE  Told'
<1> USE DEF MembershipAgrees, TypeOK
<1>0. /\ Free.op # "delete"
      /\ todo.op \in {"rejoin", "remove"} => todo.op # "delete"
  BY TodosMade
<1>1. CASE Quiet \/ Expiring
  BY <1>1, ToldKept DEF Quiet, Expiring, ExpireKey, acctVars, sessVars, moveVars
<1>2. CASE Ranked \/ Removing \/ RoomAdded \/ PasswordStored \/ DeleteBegun
  BY <1>0, <1>2, ToldKept
     DEF Ranked, RoleChanged, Removing, RemoveUsers, RoomAdded, AddRoom, PasswordStored,
         StoreRoomPassword, DeleteBegun, acctVars, sessVars, moveVars
<1>3. CASE WatchedSet \/ KeyframeAsked \/ Flushed
  BY <1>0, <1>3, ToldKept
     DEF WatchedSet, SetWatched, KeyframeAsked, RequestKeyframe, Flushed, FlushKeyframes, Asks,
         acctVars, sessVars
<1>4. CASE DeleteStep
  <2>1. todo.room \in RoomIds /\ todo.left \subseteq Users
    BY <1>4, TodoFields DEF DeleteStep
  <2>2. PICK m \in todo.left :
          /\ todo' = DeleteTodo(todo.room, todo.left \ {m})
          /\ UNCHANGED <<acctVars, sessVars>>
          /\ Move(m, NoRoom, TRUE, FALSE)
    BY <1>4 DEF DeleteStep
  <2>3. m \in Users /\ room[m] = todo.room /\ conn[m] # 0
    BY <1>4, <2>1 DEF DeleteStep, LockHeld, MembersAgree, NoRoom, RoomIds
  <2>4. todo'.op = "delete" /\ todo'.room = todo.room
    BY <2>1, <2>2, TodosMade
  <2> QED BY <1>4, <2>2, <2>3, <2>4, MoveToldCurrent DEF DeleteStep, acctVars, sessVars
<1>5. CASE DeleteAborted
  <2>1. /\ UNCHANGED <<told, room, epoch, members, key, tracks, share, conn>>
        /\ untold' = untold \cup {m \in Users : told[m][1] = todo.room /\ room[m] # todo.room}
        /\ todo.room \in RoomIds
    BY <1>5, TodoFields DEF DeleteAborted, acctVars, sessVars
  <2>2. todo.room # NoRoom
    BY <2>1 DEF RoomIds, NoRoom
  <2>3. SignedIn' = SignedIn /\ SignedIn \subseteq Users /\ \A q : (RoomStateNow(q))' = RoomStateNow(q)
    BY <2>1 DEF SignedIn, RoomStateNow, RoomState
  <2> QED BY <2>1, <2>2, <2>3 DEF Told, ToldCurrent
<1>6. CASE DeleteFinish
  <2>1. /\ UNCHANGED <<room, epoch, members, key, tracks, share, conn>>
        /\ told' = [u \in Users |-> IF told[u][1] = todo.room THEN Lobby ELSE told[u]]
        /\ untold' = {u \in untold : told[u][1] # todo.room}
        /\ \A u \in Users : room[u] # todo.room
    BY <1>6, TodoFields DEF DeleteFinish, LockHeld, MembersAgree, acctVars, sessVars
  <2>2. SignedIn' = SignedIn /\ SignedIn \subseteq Users /\ \A q : (RoomStateNow(q))' = RoomStateNow(q)
    BY <2>1 DEF SignedIn, RoomStateNow, RoomState
  <2>3. ToldCurrent'
    BY <2>1, <2>2 DEF Told, ToldCurrent
  <2> QED BY <2>1, <2>3 DEF Told
<1>7. CASE Connected
  <2>1. PICK u \in Users : LeaveRoom(u) /\ conn' = [conn EXCEPT ![u] = nextConn]
    BY <1>7 DEF Connected
  <2> QED BY <1>0, <1>7, <2>1, LeaveToldCurrent DEF Connected, acctVars, SessOK
<1>8. CASE Disconnected \/ Kicked
  BY <1>0, <1>8, LeaveToldCurrent DEF Disconnected, Kicked, EndSession, acctVars, sessVars, SessOK
<1>9. CASE RemoveStep
  <2>1. todo.left \subseteq Users /\ todo.op # "delete"
    BY <1>9, TodoFields DEF RemoveStep
  <2> QED BY <1>9, <2>1, LeaveToldCurrent DEF RemoveStep, EndSession, acctVars, SessOK
<1>10. CASE Rejoin
  <2>1. /\ todo.user \in Users /\ todo.room \in RoomIds \cup {NoRoom} /\ todo.op # "delete"
        /\ key' = key /\ conn' = conn
    BY <1>10, TodoFields DEF Rejoin, acctVars, sessVars
  <2>2. CASE Move(todo.user, todo.room, TRUE, TRUE)
    BY <2>1, <2>2, MoveToldCurrent
  <2> QED BY <1>10, <2>1, <2>2, ToldKept DEF Rejoin, moveVars
<1>11. CASE RoomEntered
  BY <1>0, <1>11, EnterToldCurrent DEF RoomEntered, acctVars, sessVars
<1>12. CASE KeyStored
  BY <1>12, KeyToldCurrent DEF KeyStored
<1>13. CASE MediaSet
  <2>1. PICK t \in Tasks, d \in BOOLEAN, s \in ShareSettings \cup {0}, limited \in BOOLEAN :
          SetMedia(t, d, s, limited)
    BY <1>13 DEF MediaSet
  <2> DEFINE u == tUser[t]
  <2>2. u \in Users /\ todo = Free /\ room[u] \in RoomIds
    BY <2>1, AskerFacts DEF SetMedia, Asks, MoveOK
  <2>3. /\ UNCHANGED <<room, members, tracks, conn, todo, key, epoch>>
        /\ \E new : share' = [share EXCEPT ![u] = new]
                     /\ IF new # share[u] THEN BroadcastPeers(room[u]) ELSE UNCHANGED <<told, untold>>
    BY <2>1 DEF SetMedia, acctVars
  <2>4. CASE BroadcastPeers(room[u])
    <3>1. u \in members[room[u]]
      BY <2>2 DEF MembersAgree
    <3>2. \A m \in Users \ members[room[u]] : share'[m] = share[m]
      BY <2>2, <2>3, <3>1 DEF MoveOK
    <3> QED BY <1>0, <2>2, <2>3, <2>4, <3>2, BroadcastToldCurrent
  <2>5. CASE UNCHANGED <<told, untold>> /\ share' = share
    BY <1>0, <2>2, <2>3, <2>5, ToldKept
  <2> QED BY <2>2, <2>3, <2>4, <2>5 DEF MoveOK
<1>14. CASE Restart
  BY <1>14 DEF Restart, Told, ToldCurrent, SignedIn
<1> QED BY <1>1, <1>2, <1>3, <1>4, <1>5, <1>6, <1>7, <1>8, <1>9, <1>10, <1>11, <1>12, <1>13,
           <1>14 DEF Step

\* Every member was last told the state their room is in, but for rooms whose handler stopped
\* halfway and those being moved out of a room that is being deleted (place, broadcast_peers,
\* delete_room in rooms.rs).
THEOREM ToldAlwaysCurrent == Spec => []ToldCurrent
<1>1. Init => Told
  BY DEF Init, Told, ToldCurrent, SignedIn
<1>2. MembershipAgrees /\ Told /\ [Next]_vars => Told'
  BY StepKinds, ToldStep DEF MembershipAgrees
<1>3. Told => ToldCurrent
  BY DEF Told
<1> QED BY <1>1, <1>2, <1>3, MembershipAlwaysAgrees, PTL DEF Spec

-----------------------------------------------------------------------------
(* The routes. *)

\* The part of MediaAgrees that rebuild_routes keeps, of a function.
Routed == RoutesCurrent /\ AudiencesTold /\ toldAud = [u \in Users |-> toldAud[u]]

\* The routes depend on the members, and on their connections, media ids, ears and watch lists
\* only.
LEMMA SameRoutes ==
  ASSUME UNCHANGED <<members, tracks, watching>>,
         \A r \in RoomIds : \A m \in members[r] : conn'[m] = conn[m] /\ deaf'[m] = deaf[m]
  PROVE  Routes(conn', members', tracks', deaf', watching')
           = Routes(conn, members, tracks, deaf, watching)
<1>1. ASSUME NEW r \in RoomIds, NEW s \in members[r]
      PROVE  RoutesFrom(s, members[r] \ {s}, conn', tracks', deaf', watching')
               = RoutesFrom(s, members[r] \ {s}, conn, tracks, deaf, watching)
  <2> DEFINE others == members[r] \ {s}
  <2>1. {conn'[m] : m \in {o \in others : ~deaf'[o]}} = {conn[m] : m \in {o \in others : ~deaf[o]}}
    OBVIOUS
  <2>2. {conn'[m] : m \in {o \in others : Sees(o, tracks[s], watching)}}
          = {conn[m] : m \in {o \in others : Sees(o, tracks[s], watching)}}
    OBVIOUS
  <2>3. {conn'[m] : m \in {o \in others : Hears(o, tracks[s], watching, deaf')}}
          = {conn[m] : m \in {o \in others : Hears(o, tracks[s], watching, deaf)}}
    BY DEF Hears
  <2> QED BY <2>1, <2>2, <2>3 DEF RoutesFrom
<1> DEFINE After(r) ==
             UNION {RoutesFrom(s, members[r] \ {s}, conn', tracks', deaf', watching') : s \in members[r]}
           Before(r) ==
             UNION {RoutesFrom(s, members[r] \ {s}, conn, tracks, deaf, watching) : s \in members[r]}
<1>2. \A r \in RoomIds : After(r) = Before(r)
  BY <1>1
<1>3. /\ Routes(conn', members', tracks', deaf', watching') = UNION {After(r) : r \in RoomIds}
      /\ Routes(conn, members, tracks, deaf, watching) = UNION {Before(r) : r \in RoomIds}
  BY DEF Routes
<1> HIDE DEF After, Before
<1> QED BY <1>2, <1>3

\* And the audiences also on who shares.
LEMMA SameAudiences ==
  ASSUME UNCHANGED <<members, tracks, watching>>, NEW r \in RoomIds,
         \A m \in members[r] : deaf'[m] = deaf[m] /\ (share'[m] = 0 <=> share[m] = 0)
  PROVE  AudiencesIn(r, members', tracks', share', deaf', watching')
           = AudiencesIn(r, members, tracks, share, deaf, watching)
<1>1. ASSUME NEW s \in members[r]
      PROVE  Receivers(s, members[r] \ {s}, tracks', deaf', watching')
               = Receivers(s, members[r] \ {s}, tracks, deaf, watching)
  BY DEF Receivers, Hears
<1>2. {o \in members[r] : share'[o] # 0 /\ Receivers(o, members[r] \ {o}, tracks', deaf', watching') # {}}
        = {o \in members[r] : share[o] # 0 /\ Receivers(o, members[r] \ {o}, tracks, deaf, watching) # {}}
  BY <1>1
<1> QED BY ZenonT(60), <1>1, <1>2 DEF AudiencesIn

\* What changes none of these needs no new table.
LEMMA RoutesKept ==
  ASSUME MembershipAgrees, Routed, UNCHANGED <<members, tracks, watching, room, table, audiences>>,
         \A r \in RoomIds : \A m \in members[r] :
           conn'[m] = conn[m] /\ deaf'[m] = deaf[m] /\ (share'[m] = 0 <=> share[m] = 0),
         toldAud' = [u \in Users |-> toldAud'[u]],
         \A u \in Users : toldAud'[u] = toldAud[u]
                          \/ room[u] = NoRoom \/ toldAud'[u] = audiences[room[u]]
  PROVE  Routed'
<1>1. RoutesCurrent'
  BY SameRoutes DEF Routed, RoutesCurrent
<1>2. \A r \in RoomIds : AudiencesIn(r, members', tracks', share', deaf', watching')
                          = AudiencesIn(r, members, tracks, share, deaf, watching)
  BY SameAudiences
<1>3. AudiencesTold'
  BY <1>2 DEF Routed, AudiencesTold
<1> QED BY <1>1, <1>3 DEF Routed

\* rebuild_routes publishes the table there should be, and tells those whose audiences changed.
LEMMA RoutesRebuilt ==
  ASSUME MembershipAgrees, Routed, RebuildRoutes, room' \in [Users -> RoomIds \cup {NoRoom}]
  PROVE  Routed'
<1>1. RoutesCurrent'
  BY DEF RebuildRoutes, RoutesCurrent
<1>2. audiences' = [r \in RoomIds |-> AudiencesIn(r, members', tracks', share', deaf', watching')]
  BY DEF RebuildRoutes
<1>3. toldAud' = [m \in Users |->
        IF room'[m] = NoRoom THEN {}
        ELSE IF room'[m] # room[m] \/ audiences'[room'[m]] # audiences[room'[m]]
             THEN audiences'[room'[m]]
        ELSE toldAud[m]]
  BY DEF RebuildRoutes
<1>4. ASSUME NEW u \in Users, room'[u] # NoRoom PROVE toldAud'[u] = audiences'[room'[u]]
  BY <1>3, <1>4 DEF Routed, AudiencesTold
<1>5. toldAud' = [u \in Users |-> toldAud'[u]]
  BY <1>3
<1> QED BY <1>1, <1>2, <1>4, <1>5 DEF Routed, AudiencesTold

\* place rebuilds the routes.
LEMMA MoveRoutes ==
  ASSUME MembershipAgrees, Routed, NEW u \in Users, NEW new \in RoomIds \cup {NoRoom}, NEW bump,
         NEW tell, Move(u, new, bump, tell)
  PROVE  Routed'
<1>1. room' \in [Users -> RoomIds \cup {NoRoom}]
  BY DEF Move, SetMembership, MembershipAgrees, TypeOK, MoveOK
<1> QED BY <1>1, RoutesRebuilt DEF Move

\* So does leave_room, on either of its ways.
LEMMA LeaveRoutes ==
  ASSUME MembershipAgrees, Routed, NEW u \in Users, LeaveRoom(u),
         \A v \in Users \ {u} : conn'[v] = conn[v] /\ deaf'[v] = deaf[v]
  PROVE  Routed'
<1>1. CASE room[u] = NoRoom
  <2>1. UNCHANGED <<members, tracks, watching, room, share, table, audiences, toldAud>>
    BY <1>1 DEF LeaveRoom, routeVars
  <2>2. \A r \in RoomIds : \A m \in members[r] : m \in Users \ {u}
    BY <1>1 DEF MembershipAgrees, TypeOK, MoveOK, MembersAgree, NoRoom, RoomIds
  <2> QED BY <2>1, <2>2, RoutesKept DEF Routed
<1>2. CASE room[u] # NoRoom
  <2>1. PICK bump \in BOOLEAN : Move(u, NoRoom, bump, TRUE)
    BY <1>2 DEF LeaveRoom
  <2> QED BY <2>1, MoveRoutes
<1> QED BY <1>1, <1>2

\* set_media rebuilds them when someone goes deaf or hears again and when a share starts or
\* stops; new settings of a running share change none.
LEMMA MediaRoutes ==
  ASSUME MembershipAgrees, Routed, NEW t \in Tasks, NEW d \in BOOLEAN,
         NEW s \in ShareSettings \cup {0}, NEW limited \in BOOLEAN, SetMedia(t, d, s, limited)
  PROVE  Routed'
<1> DEFINE u == tUser[t]
           applied == IF ShareRefused(u, s, limited) THEN share[u] ELSE s
<1> USE DEF MembershipAgrees, TypeOK
<1>1. u \in Users
  BY AskerFacts DEF SetMedia, Asks
<1>2. UNCHANGED <<room, members, tracks, watching, conn>>
  BY DEF SetMedia
<1>3. \A v \in Users : /\ deaf'[v] = IF v = u THEN d ELSE deaf[v]
                       /\ share'[v] = IF v = u THEN applied ELSE share[v]
  BY <1>1 DEF SetMedia, SessOK, MoveOK
<1>4. IF NeedsRoutes(u, d, applied) THEN RebuildRoutes ELSE UNCHANGED routeVars
  BY DEF SetMedia
<1> HIDE DEF applied
<1>5. CASE NeedsRoutes(u, d, applied)
  BY <1>2, <1>4, <1>5, RoutesRebuilt DEF MoveOK
<1>6. CASE ~NeedsRoutes(u, d, applied)
  <2>1. d = deaf[u] /\ (applied = 0 <=> share[u] = 0)
    BY <1>6 DEF NeedsRoutes
  <2>2. UNCHANGED <<table, audiences, toldAud>>
    BY <1>4, <1>6 DEF routeVars
  <2>3. \A v \in Users : deaf'[v] = deaf[v] /\ (share'[v] = 0 <=> share[v] = 0)
    BY <1>1, <1>3, <2>1
  <2>4. \A r \in RoomIds : members[r] \subseteq Users
    BY DEF MoveOK
  <2> QED BY <1>2, <2>2, <2>3, <2>4, RoutesKept DEF Routed
<1> QED BY <1>5, <1>6

\* No step forgets to rebuild the routes where it has to.
LEMMA RoutesStep ==
  ASSUME MembershipAgrees, Routed, Step
  PROVE  Routed'
<1> USE DEF MembershipAgrees, TypeOK
<1>1. CASE UNCHANGED <<members, tracks, watching, room, share, conn, deaf, table, audiences, toldAud>>
  BY <1>1, RoutesKept DEF Routed
<1>2. CASE DeleteStep
  <2>1. todo.left \subseteq Users
    BY <1>2, TodoFields DEF DeleteStep
  <2> QED BY <1>2, <2>1, MoveRoutes DEF DeleteStep
<1>3. CASE Connected
  <2>1. PICK u \in Users : LeaveRoom(u) /\ conn' = [conn EXCEPT ![u] = nextConn]
                           /\ deaf' = [deaf EXCEPT ![u] = FALSE]
    BY <1>3 DEF Connected
  <2> QED BY <2>1, LeaveRoutes DEF SessOK
<1>4. CASE Disconnected
  BY <1>4, LeaveRoutes DEF Disconnected, EndSession, SessOK
<1>5. CASE Kicked
  BY <1>5, LeaveRoutes DEF Kicked, sessVars
<1>6. CASE RemoveStep
  <2>1. todo.left \subseteq Users
    BY <1>6, TodoFields DEF RemoveStep
  <2> QED BY <1>6, <2>1, LeaveRoutes DEF RemoveStep, EndSession, SessOK
<1>7. CASE Rejoin
  <2>1. todo.user \in Users /\ todo.room \in RoomIds \cup {NoRoom}
    BY <1>7, TodoFields DEF Rejoin
  <2> QED BY <1>1, <1>7, <2>1, MoveRoutes DEF Rejoin, moveVars, sessVars, routeVars
<1>8. CASE RoomEntered
  <2>1. PICK u \in Users, r \in alive \cup {NoRoom}, proved \in BOOLEAN : Enter(u, r, proved)
    BY <1>8 DEF RoomEntered
  <2>2. conn' = conn /\ deaf' = deaf /\ r \in RoomIds \cup {NoRoom}
    BY <1>8 DEF RoomEntered, sessVars, RoomsOK
  <2>3. CASE /\ room[u] = r
             /\ toldAud' = [toldAud EXCEPT ![u] = IF r = NoRoom THEN {} ELSE audiences[r]]
             /\ UNCHANGED <<room, tracks, share, watching, members, table, audiences>>
    <3>1. toldAud' = [v \in Users |-> IF v = u THEN IF r = NoRoom THEN {} ELSE audiences[r]
                                      ELSE toldAud[v]]
      BY <2>3 DEF Routed
    <3> QED BY <2>2, <2>3, <3>1, RoutesKept
  <2>4. CASE Move(u, r, TRUE, TRUE)
    BY <2>2, <2>4, MoveRoutes
  <2>5. CASE UNCHANGED <<room, tracks, share, watching, members, routeVars>>
    BY <1>1, <2>2, <2>5 DEF routeVars
  <2> QED BY <2>1, <2>3, <2>4, <2>5 DEF Enter
<1>9. CASE MediaSet
  BY <1>9, MediaRoutes DEF MediaSet
<1>10. CASE WatchedSet
  BY <1>10, RoutesRebuilt DEF WatchedSet, SetWatched, MoveOK
<1>11. CASE Restart
  <2>1. /\ table' = {} /\ audiences' = [r \in RoomIds |-> {}]
        /\ toldAud' = [u \in Users |-> {}] /\ members' = [r \in RoomIds |-> {}]
        /\ room' = [u \in Users |-> NoRoom]
    BY <1>11 DEF Restart
  <2>2. Routes(conn', members', tracks', deaf', watching') = {}
    BY <2>1 DEF Routes
  <2>3. \A r \in RoomIds : AudiencesIn(r, members', tracks', share', deaf', watching') = {}
    BY <2>1 DEF AudiencesIn
  <2> QED BY <2>1, <2>2, <2>3 DEF Routed, RoutesCurrent, AudiencesTold
<1>12. CASE Quiet \/ Ranked \/ Removing \/ Expiring \/ RoomAdded \/ PasswordStored \/ DeleteBegun
  BY <1>1, <1>12 DEF Quiet, Ranked, RoleChanged, Removing, RemoveUsers, Expiring, ExpireKey,
            RoomAdded, AddRoom, PasswordStored, StoreRoomPassword, DeleteBegun, sessVars, moveVars,
            routeVars
<1>13. CASE DeleteAborted \/ DeleteFinish \/ KeyStored \/ KeyframeAsked \/ Flushed
  BY ZenonT(60), <1>1, <1>13 DEF DeleteAborted, DeleteFinish, KeyStored, SetEncryptionKey, KeyframeAsked,
            RequestKeyframe, Flushed, FlushKeyframes, sessVars, routeVars
<1> QED BY <1>2, <1>3, <1>4, <1>5, <1>6, <1>7, <1>8, <1>9, <1>10, <1>11, <1>12, <1>13 DEF Step

-----------------------------------------------------------------------------
(* Watching, shares and keyframes. *)

\* The other part of MediaAgrees.
Tracked == WatchedInRoom /\ ShareLimit /\ IdrKept

\* Media ids in use are below the next one.
LEMMA TracksTyped ==
  ASSUME MembershipAgrees
  PROVE  /\ nextAlloc \in Nat /\ nextAlloc > 0
         /\ \A u \in Users : tracks[u] \in Nat /\ tracks[u] < nextAlloc
         /\ \A u \in Users : tracks[u] \in Allocs \cup {0}
  BY SMTT(40), HubConstants DEF MembershipAgrees, TypeOK, MoveOK, Allocs, TracksDistinct

\* Where nobody starts to share the limit of shares goes on holding.
LEMMA FewerShares ==
  ASSUME MembershipAgrees, ShareLimit,
         \A r \in RoomIds : \A m \in members'[r] : share'[m] # 0 => m \in members[r] /\ share[m] # 0
  PROVE  ShareLimit'
<1> SUFFICES ASSUME NEW r \in RoomIds PROVE SharesIn(r)' <= MaxRoomShares
  BY DEF ShareLimit
<1> DEFINE Before == {m \in members[r] : share[m] # 0}
           After == {m \in members'[r] : share'[m] # 0}
<1>1. IsFiniteSet(Before) /\ Cardinality(Before) <= MaxRoomShares
  <2>1. IsFiniteSet(members[r])
    BY MembersFinite DEF MembershipAgrees, TypeOK
  <2> QED BY <2>1, FS_Subset DEF ShareLimit, SharesIn
<1>2. After \in SUBSET Before
  OBVIOUS
<1>3. SharesIn(r)' = Cardinality(After)
  BY DEF SharesIn
<1> HIDE DEF Before, After
<1> QED BY <1>1, <1>2, <1>3, HubConstants, NoMoreThanBefore

\* What leaves memberships, shares, watch lists and requests alone keeps them in agreement.
LEMMA TrackedKept ==
  ASSUME MembershipAgrees, Tracked,
         UNCHANGED <<room, members, tracks, share, watching, keyframes, owed>>,
         nextAlloc' \in {nextAlloc, nextAlloc + 1}
  PROVE  Tracked'
<1>1. WatchedInRoom'
  <2>1. \A u \in Users : \A id \in watching[u] : id[1] \in Nat
    BY HubConstants DEF MembershipAgrees, TypeOK, MoveOK, TrackIds, Allocs
  <2> QED BY <2>1, TracksTyped DEF Tracked, WatchedInRoom
<1>2. ShareLimit'
  BY FewerShares DEF Tracked
<1>3. IdrKept'
  BY DEF Tracked, IdrKept, LiveTracks
<1> QED BY <1>1, <1>2, <1>3 DEF Tracked

\* place ends the mover's share, empties their watch list and drops the request for the track
\* that is gone; what others still watch of it is an id that nobody owns again.
LEMMA MoveTracked ==
  ASSUME MembershipAgrees, Tracked, NEW u \in Users, NEW new \in RoomIds \cup {NoRoom}, NEW bump,
         NEW tell, Move(u, new, bump, tell)
  PROVE  Tracked'
<1>1. \A v \in Users :
        /\ room'[v] = IF v = u THEN new ELSE room[v]
        /\ share'[v] = IF v = u THEN 0 ELSE share[v]
        /\ watching'[v] = IF v = u THEN {} ELSE watching[v]
        /\ tracks'[v] = IF v = u THEN IF new = NoRoom THEN 0 ELSE nextAlloc ELSE tracks[v]
  BY DEF Move, SetMembership, WatchingAfter, MembershipAgrees, TypeOK, MoveOK
<1>2. nextAlloc' \in {nextAlloc, nextAlloc + 1}
  BY DEF Move, SetMembership, AllocAfter
<1>3. \A v \in Users : \A id \in watching[v] : id[1] \in Nat
  BY HubConstants DEF MembershipAgrees, TypeOK, MoveOK, TrackIds, Allocs
<1>4. WatchedInRoom'
  <2>1. ASSUME NEW v \in Users, NEW w \in Users, NEW k \in {"video", "audio"},
               tracks'[w] # 0, <<tracks'[w], k>> \in watching'[v]
        PROVE  v # w /\ room'[v] = room'[w]
    <3>1. v # u /\ <<tracks'[w], k>> \in watching[v]
      BY <1>1, <2>1
    <3>2. tracks'[w] < nextAlloc
      BY <3>1 DEF Tracked, WatchedInRoom
    <3>3. w # u
      BY <1>1, <2>1, <3>2, TracksTyped
    <3> QED BY ZenonT(60), <1>1, <2>1, <3>1, <3>3 DEF Tracked, WatchedInRoom
  <2>2. \A v \in Users : \A id \in watching'[v] : id[1] < nextAlloc'
    BY <1>1, <1>2, <1>3, TracksTyped DEF Tracked, WatchedInRoom
  <2> QED BY <2>1, <2>2 DEF WatchedInRoom
<1>5. ShareLimit'
  <2>1. \A r \in RoomIds : \A m \in members'[r] : m \in Users /\ (m = u \/ m \in members[r])
    <3> SUFFICES ASSUME NEW r \in RoomIds, NEW m \in members'[r]
                 PROVE  m \in Users /\ (m = u \/ m \in members[r])
      OBVIOUS
    <3>1. members'[r] = IF r = new THEN members[r] \cup {u} ELSE members[r] \ {u}
      BY MoveMembers DEF MembershipAgrees
    <3>2. members[r] \subseteq Users
      BY DEF MembershipAgrees, TypeOK, MoveOK
    <3> QED BY <3>1, <3>2
  <2> QED BY <1>1, <2>1, FewerShares DEF Tracked
<1>6. IdrKept'
  <2>1. /\ keyframes' = [a \in Allocs |-> IF a = tracks[u] THEN "absent" ELSE keyframes[a]]
        /\ owed' = owed \ {tracks[u]} /\ owed \subseteq Allocs
    BY DEF Move, SetMembership, MembershipAgrees, TypeOK, MoveOK
  <2>2. \A a \in owed' : keyframes'[a] = "Idr"
    BY <2>1 DEF Tracked, IdrKept
  <2>3. ASSUME NEW a \in Allocs, keyframes'[a] # "absent" PROVE a \in LiveTracks'
    <3>1. a # tracks[u] /\ keyframes[a] # "absent"
      BY <2>1, <2>3
    <3>2. PICK v \in Users : a = tracks[v] /\ a # 0
      BY <3>1 DEF Tracked, IdrKept, LiveTracks
    <3> QED BY <1>1, <3>1, <3>2 DEF LiveTracks
  <2> QED BY <2>2, <2>3 DEF IdrKept
<1> QED BY <1>4, <1>5, <1>6 DEF Tracked

\* So does leave_room.
LEMMA LeaveTracked ==
  ASSUME MembershipAgrees, Tracked, NEW u \in Users, LeaveRoom(u)
  PROVE  Tracked'
<1>1. CASE room[u] = NoRoom
  BY <1>1, TrackedKept DEF LeaveRoom
<1>2. CASE room[u] # NoRoom
  <2>1. PICK bump \in BOOLEAN : Move(u, NoRoom, bump, TRUE)
    BY <1>2 DEF LeaveRoom
  <2> QED BY <2>1, MoveTracked
<1> QED BY <1>1, <1>2

\* A request for a live track keeps a pending Idr: a weaker one does not replace it
\* (KeyframeAggregator::request).
LEMMA RequestKept ==
  ASSUME MembershipAgrees, IdrKept, NEW asked \in SUBSET Allocs, NEW kind \in {"Refresh", "Idr"},
         NEW due, Request(asked, kind, due), asked \subseteq LiveTracks, tracks' = tracks
  PROVE  IdrKept'
<1>1. /\ keyframes' = [a \in Allocs |->
           IF a \notin asked THEN keyframes[a]
           ELSE IF a \in due THEN "sent" ELSE Wanted(keyframes[a], kind)]
      /\ owed' = {a \in owed \cup (IF kind = "Idr" THEN asked ELSE {}) :
           ~(a \in asked \cap due /\ Wanted(keyframes[a], kind) = "Idr")}
  BY DEF Request
<1>2. owed \subseteq Allocs
  BY DEF MembershipAgrees, TypeOK, MoveOK
<1>3. ASSUME NEW a \in owed' PROVE keyframes'[a] = "Idr"
  <2>1. a \in Allocs
    BY <1>1, <1>2
  <2>2. CASE a \notin asked
    BY <1>1, <2>1, <2>2 DEF IdrKept
  <2>3. CASE a \in asked
    <3>1. keyframes[a] = "Idr" \/ kind = "Idr"
      BY <1>1 DEF IdrKept
    <3>2. Wanted(keyframes[a], kind) = "Idr"
      BY <3>1 DEF Wanted
    <3> QED BY <1>1, <2>1, <2>3, <3>2
  <2> QED BY <2>2, <2>3
<1>4. \A a \in Allocs : keyframes'[a] # "absent" => a \in LiveTracks'
  BY <1>1 DEF IdrKept, LiveTracks
<1> QED BY <1>3, <1>4 DEF IdrKept

\* set_watched lets users watch shares of their own room, and asks for keyframes of those only.
LEMMA WatchTracked ==
  ASSUME MembershipAgrees, Tracked, NEW t \in Tasks, NEW ids \in SUBSET TrackIds,
         NEW due \in SUBSET Allocs, SetWatched(t, ids, due)
  PROVE  Tracked'
<1> DEFINE u == tUser[t]
           started == {a \in Allocs : <<a, "video">> \in ids \ watching[u]}
<1>1. u \in Users
  BY AskerFacts DEF SetWatched, Asks, MembershipAgrees
<1>2. /\ room[u] # NoRoom /\ ids \subseteq Watchable(u)
      /\ watching' = [watching EXCEPT ![u] = ids]
      /\ UNCHANGED <<room, members, tracks, share, nextAlloc>>
      /\ Request(started, "Idr", due)
  BY DEF SetWatched
<1>3. \A v \in Users : watching'[v] = IF v = u THEN ids ELSE watching[v]
  BY <1>1, <1>2 DEF MembershipAgrees, TypeOK, MoveOK
<1>4. ASSUME NEW id \in ids
      PROVE  \E m \in Users : m # u /\ room[m] = room[u] /\ id[1] = tracks[m] /\ tracks[m] # 0
  <2>1. PICK m \in members[room[u]] \ {u}, k \in {"video", "audio"} : id = <<tracks[m], k>>
    BY <1>2 DEF Watchable
  <2>2. m \in Users /\ room[m] = room[u]
    BY <1>1, <1>2 DEF MembershipAgrees, TypeOK, MoveOK, MembersAgree
  <2> QED BY <1>2, <2>1, <2>2 DEF MembershipAgrees, MembersAgree
<1>5. WatchedInRoom'
  <2>1. ASSUME NEW v \in Users, NEW w \in Users, NEW k \in {"video", "audio"},
               tracks[w] # 0, <<tracks[w], k>> \in watching'[v]
        PROVE  v # w /\ room[v] = room[w]
    <3>1. CASE v # u
      BY <1>3, <2>1, <3>1 DEF Tracked, WatchedInRoom
    <3>2. CASE v = u
      <4>1. PICK m \in Users : m # u /\ room[m] = room[u] /\ tracks[w] = tracks[m] /\ tracks[m] # 0
        BY <1>3, <1>4, <2>1, <3>2
      <4>2. w = m
        BY <4>1 DEF MembershipAgrees, TracksDistinct
      <4> QED BY <3>2, <4>1, <4>2
    <3> QED BY <3>1, <3>2
  <2>2. ASSUME NEW v \in Users, NEW id \in watching'[v] PROVE id[1] < nextAlloc
    BY <1>3, <1>4, TracksTyped DEF Tracked, WatchedInRoom
  <2> QED BY <1>2, <2>1, <2>2 DEF WatchedInRoom
<1>6. ShareLimit'
  BY <1>2, FewerShares DEF Tracked
<1>7. IdrKept'
  <2>1. started \subseteq LiveTracks
    <3> SUFFICES ASSUME NEW a \in started PROVE a \in LiveTracks
      OBVIOUS
    <3>1. \E m \in Users : a = tracks[m] /\ tracks[m] # 0
      BY <1>4
    <3> QED BY <3>1 DEF LiveTracks
  <2>2. started \in SUBSET Allocs
    OBVIOUS
  <2> HIDE DEF started
  <2> QED BY <1>2, <2>1, <2>2, RequestKept DEF Tracked
<1> QED BY <1>5, <1>6, <1>7 DEF Tracked

\* set_media starts no share above the limit, and touches no request: the ids outlive a share.
LEMMA MediaTracked ==
  ASSUME MembershipAgrees, Tracked, NEW t \in Tasks, NEW d \in BOOLEAN,
         NEW s \in ShareSettings \cup {0}, NEW limited \in BOOLEAN, SetMedia(t, d, s, limited)
  PROVE  Tracked'
<1> DEFINE u == tUser[t]
<1>1. u \in Users /\ room[u] \in RoomIds
  BY AskerFacts DEF SetMedia, Asks, MembershipAgrees, TypeOK, MoveOK
<1>2. UNCHANGED <<room, members, tracks, watching, nextAlloc, keyframes, owed>>
  BY DEF SetMedia
<1>3. \A v \in Users : share'[v] = IF v = u /\ ~ShareRefused(u, s, limited) THEN s ELSE share[v]
  BY <1>1 DEF SetMedia, MembershipAgrees, TypeOK, MoveOK
<1>4. WatchedInRoom' /\ IdrKept'
  BY <1>2 DEF Tracked, WatchedInRoom, IdrKept, LiveTracks
<1>5. \A r \in RoomIds : members[r] \subseteq Users
  BY DEF MembershipAgrees, TypeOK, MoveOK
<1>6. CASE ShareRefused(u, s, limited) \/ s = 0 \/ share[u] # 0
  <2>1. ShareLimit'
    BY <1>1, <1>2, <1>3, <1>5, <1>6, FewerShares DEF Tracked
  <2> QED BY <1>4, <2>1 DEF Tracked
<1>7. CASE ~ShareRefused(u, s, limited) /\ s # 0 /\ share[u] = 0
  <2> SUFFICES ASSUME NEW r \in RoomIds PROVE SharesIn(r)' <= MaxRoomShares
    BY <1>4 DEF Tracked, ShareLimit
  <2> DEFINE Before == {m \in members[r] : share[m] # 0}
             After == {m \in members[r] : share'[m] # 0}
  <2>1. /\ IsFiniteSet(Before) /\ Cardinality(Before) <= MaxRoomShares
        /\ MaxRoomShares \in Nat /\ SharesIn(r)' = Cardinality(After)
        /\ SharesIn(r) = Cardinality(Before)
    <3>1. IsFiniteSet(members[r])
      BY MembersFinite DEF MembershipAgrees, TypeOK
    <3> QED BY <1>2, <3>1, FS_Subset, HubConstants DEF Tracked, ShareLimit, SharesIn
  <2>2. CASE r = room[u]
    <3>1. After = Before \cup {u}
      <4>1. u \in members[r]
        BY <1>1, <2>2 DEF MembershipAgrees, MembersAgree
      <4> QED BY <1>3, <1>5, <1>7, <4>1
    <3>2. Cardinality(Before) < MaxRoomShares
      <4>1. ~(SharesIn(r) >= MaxRoomShares)
        BY <1>7, <2>2 DEF ShareRefused
      <4>2. Cardinality(Before) \in Nat
        BY <2>1, FS_CardinalityType
      <4> QED BY <2>1, <4>1, <4>2
    <3> HIDE DEF Before, After
    <3> QED BY <2>1, <3>1, <3>2, RoomForOneMore
  <2>3. CASE r # room[u]
    <3>1. After = Before
      <4>1. u \notin members[r]
        BY <1>1, <2>3 DEF MembershipAgrees, MembersAgree
      <4> QED BY <1>3, <1>5, <4>1
    <3> QED BY <2>1, <3>1
  <2> QED BY <2>2, <2>3
<1> QED BY <1>6, <1>7

\* Every step keeps watch lists, shares and keyframe requests in agreement with the tracks
\* there are.
LEMMA TrackedStep ==
  ASSUME MembershipAgrees, Tracked, Step
  PROVE  Tracked'
<1> USE DEF MembershipAgrees, TypeOK
<1>1. CASE /\ UNCHANGED <<room, members, tracks, share, watching, keyframes, owed>>
           /\ nextAlloc' \in {nextAlloc, nextAlloc + 1}
  BY <1>1, TrackedKept
<1>2. CASE DeleteStep
  <2>1. todo.left \subseteq Users
    BY <1>2, TodoFields DEF DeleteStep
  <2> QED BY <1>2, <2>1, MoveTracked DEF DeleteStep
<1>3. CASE Connected \/ Disconnected \/ Kicked
  BY <1>3, LeaveTracked DEF Connected, Disconnected, Kicked
<1>4. CASE RemoveStep
  <2>1. todo.left \subseteq Users
    BY <1>4, TodoFields DEF RemoveStep
  <2> QED BY <1>4, <2>1, LeaveTracked DEF RemoveStep
<1>5. CASE Rejoin
  <2>1. todo.user \in Users /\ todo.room \in RoomIds \cup {NoRoom}
    BY <1>5, TodoFields DEF Rejoin
  <2> QED BY <1>1, <1>5, <2>1, MoveTracked DEF Rejoin, moveVars
<1>6. CASE RoomEntered
  <2>1. PICK u \in Users, r \in alive \cup {NoRoom}, proved \in BOOLEAN : Enter(u, r, proved)
    BY <1>6 DEF RoomEntered
  <2>2. r \in RoomIds \cup {NoRoom}
    BY DEF RoomsOK
  <2> QED BY <1>1, <2>1, <2>2, MoveTracked DEF Enter
<1>7. CASE MediaSet
  BY <1>7, MediaTracked DEF MediaSet
<1>8. CASE WatchedSet
  BY <1>8, WatchTracked DEF WatchedSet
<1>9. CASE KeyframeAsked
  <2>1. PICK t \in Tasks, a \in Allocs, kind \in {"Refresh", "Idr"} :
          \E due \in SUBSET {a} : RequestKeyframe(t, a, kind, due)
    BY <1>9 DEF KeyframeAsked
  <2>2. PICK due :
          /\ {a} \in SUBSET Allocs /\ {a} \subseteq LiveTracks /\ Request({a}, kind, due)
          /\ UNCHANGED <<room, members, tracks, share, watching, nextAlloc>>
    BY <2>1 DEF RequestKeyframe
  <2>3. IdrKept'
    BY <2>1, <2>2, RequestKept DEF Tracked
  <2>4. ShareLimit'
    BY <2>2, FewerShares DEF Tracked
  <2> QED BY <2>2, <2>3, <2>4 DEF Tracked, WatchedInRoom
<1>10. CASE Flushed
  <2>1. PICK due \in SUBSET Allocs : FlushKeyframes(due)
    BY <1>10 DEF Flushed
  <2>2. /\ keyframes' = [a \in Allocs |-> IF a \notin due THEN keyframes[a]
                                          ELSE IF a \in LiveTracks THEN "sent" ELSE "absent"]
        /\ owed' = {a \in owed : ~(a \in due /\ keyframes[a] = "Idr")}
        /\ UNCHANGED <<room, members, tracks, share, watching, nextAlloc>>
    BY <2>1 DEF FlushKeyframes
  <2>3. IdrKept'
    BY <2>2 DEF Tracked, IdrKept, LiveTracks, MoveOK
  <2>4. ShareLimit'
    BY <2>2, FewerShares DEF Tracked
  <2> QED BY <2>2, <2>3, <2>4 DEF Tracked, WatchedInRoom
<1>11. CASE Restart
  <2>1. WatchedInRoom'
    BY <1>11 DEF Restart, WatchedInRoom
  <2>2. ShareLimit'
    BY <1>11, FewerShares DEF Restart, Tracked
  <2>3. IdrKept'
    BY <1>11 DEF Restart, IdrKept
  <2> QED BY <2>1, <2>2, <2>3 DEF Tracked
<1>12. CASE Quiet \/ Ranked \/ Removing \/ Expiring \/ RoomAdded \/ PasswordStored \/ DeleteBegun
  BY <1>1, <1>12 DEF Quiet, Ranked, RoleChanged, Removing, RemoveUsers, Expiring, ExpireKey,
            RoomAdded, AddRoom, PasswordStored, StoreRoomPassword, DeleteBegun, moveVars
<1>13. CASE DeleteAborted \/ DeleteFinish \/ KeyStored
  BY <1>1, <1>13 DEF DeleteAborted, DeleteFinish, KeyStored, SetEncryptionKey
<1> QED BY <1>2, <1>3, <1>4, <1>5, <1>6, <1>7, <1>8, <1>9, <1>10, <1>11, <1>12, <1>13 DEF Step

\* The published table and the audiences clients were told are those of the present members,
\* ears and watch lists; only shares of one's own room are watched, shares are limited, and a
\* pending Idr is neither weakened nor left for a track that ended (rebuild_routes, set_media,
\* set_watched in rooms.rs, KeyframeAggregator in sfu.rs).
THEOREM MediaAlwaysAgrees == Spec => []MediaAgrees
<1>1. Init => Routed /\ Tracked
  <2> SUFFICES ASSUME Init PROVE Routed /\ Tracked
    OBVIOUS
  <2>1. Routes(conn, members, tracks, deaf, watching) = {}
    BY DEF Init, Routes
  <2>2. \A r \in RoomIds : AudiencesIn(r, members, tracks, share, deaf, watching) = {}
    BY DEF Init, AudiencesIn
  <2>3. Routed
    BY <2>1, <2>2 DEF Init, Routed, RoutesCurrent, AudiencesTold
  <2>4. ShareLimit
    <3>1. \A r \in RoomIds : {m \in members[r] : share[m] # 0} = {}
      BY DEF Init
    <3> QED BY <3>1, FS_EmptySet, HubConstants DEF ShareLimit, SharesIn
  <2>5. WatchedInRoom /\ IdrKept
    BY DEF Init, WatchedInRoom, IdrKept
  <2> QED BY <2>3, <2>4, <2>5 DEF Tracked
<1>2. MembershipAgrees /\ Routed /\ Tracked /\ [Next]_vars => Routed' /\ Tracked'
  BY StepKinds, RoutesStep, TrackedStep DEF MembershipAgrees
<1>3. Routed /\ Tracked => MediaAgrees
  BY DEF Routed, Tracked, MediaAgrees
<1> QED BY <1>1, <1>2, <1>3, MembershipAlwaysAgrees, PTL DEF Spec
=============================================================================
