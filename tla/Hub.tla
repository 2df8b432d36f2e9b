-------------------------------- MODULE Hub --------------------------------
(***************************************************************************)
(* The server's Hub (throcc-server: rooms.rs, with auth.rs and session.rs  *)
(* as far as they call it and the keyframe aggregator of sfu.rs): accounts *)
(* and their roles, the one session of each user, rooms with their members,*)
(* epochs and passwords, shares, who watches what, and the forwarding      *)
(* table the media ingress reads.                                          *)
(*                                                                         *)
(* One mutex guards the hub, so a handler is one action.  Three handlers   *)
(* move several people in and out of rooms one after the other (connect,   *)
(* which evicts and then rejoins; the removal of users; the deletion of a  *)
(* room): they keep the lock in `todo` and no other handler runs until it  *)
(* is Free again.  What does interleave are the connection tasks: a task   *)
(* authenticates, connects, sends requests, waits for Argon2 with the lock *)
(* released, and may have been replaced or removed in between.             *)
(*                                                                         *)
(* Rate limits are choices: a refused request changes nothing and is no    *)
(* step, a limit that leaves a request half applied is a parameter.        *)
(***************************************************************************)
EXTENDS Integers, FiniteSets

CONSTANTS
  Users,          \* user ids, accounts the database holds at first
  Tasks,          \* connection tasks
  NoUser,         \* no user
  InitRole,       \* their roles
  Inviter,        \* who invited whom
  InitKey,        \* version of the encryption key each has stored, 0 for none
  InitRooms,      \* rooms the database holds at first: 1..InitRooms
  Requests,       \* the kinds of request clients send in this instance
  ShareSettings,  \* settings a share can run with
  DbMayFail,      \* whether writing an epoch or deleting a room may fail
  MaxRoomId,      \* bound: room ids ever allotted (AUTOINCREMENT)
  MaxConn,        \* bound: connection ids ever allotted
  MaxHash,        \* bound: password hashes ever stored
  MaxKey,         \* bound: encryption keys a user stores
  MaxEpoch,       \* u32::MAX
  MaxAlloc,       \* media id allocations the u32 space has room for
  MaxOnline,      \* MAX_ONLINE
  MaxSignedIn,    \* MAX_SIGNED_IN
  MaxRooms,       \* MAX_ROOMS
  MaxRoomMembers, \* MAX_ROOM_MEMBERS
  MaxRoomShares   \* MAX_ROOM_SHARES

RoleNames == {"User", "Manager", "Admin"}
NoAccount == "None"

ASSUME HubConstants ==
  /\ NoUser \notin Users
  /\ IsFiniteSet(Users)
  /\ InitRole \in [Users -> RoleNames]
  /\ Inviter \in [Users -> Users \cup {NoUser}]
  /\ InitKey \in 0..MaxKey
  /\ ShareSettings \subseteq Nat \ {0}
  /\ DbMayFail \in BOOLEAN
  /\ {MaxRoomId, MaxConn, MaxHash, MaxKey, MaxEpoch, MaxAlloc} \subseteq Nat
  /\ InitRooms \in 0..MaxRoomId /\ InitRooms <= MaxRooms
  /\ MaxOnline \in Nat /\ MaxSignedIn \in Nat /\ MaxOnline <= MaxSignedIn
  /\ MaxRooms \in Nat /\ MaxRoomMembers \in Nat /\ MaxRoomShares \in Nat

VARIABLES
  \* the database
  account,    \* stored role of each user, or NoAccount
  key,        \* version of the signed encryption key stored for them, 0 for none
  keyOk,      \* whether that key has not expired
  alive,      \* the rooms there are
  hash,       \* serial of each room's password hash, 0 for an open room
  epoch,      \* each room's epoch
  nextRoom, nextHash, nextAlloc,
  \* sessions (a user without one has conn 0)
  conn,       \* id of the user's current connection
  nextConn,
  role,       \* Session.row.role
  room,       \* Session.room
  tracks,     \* Session.tracks: the allocation its mic and share ids come from, or 0
  deaf,       \* Session.media.deafened
  share,      \* Session.media.share: 0 or the settings of a running share
  watching,   \* Session.watching
  \* the rest of the hub
  members,    \* RoomEntry.members
  lastJoined, \* Hub.last_joined
  keyframes,  \* KeyframeAggregator.tracks, by the allocation of the video track
  table,      \* the published ForwardingTable
  audiences,  \* Hub.audiences
  todo,       \* what the handler that holds the lock still has to do
  \* connection tasks
  tUser,      \* the user a task has authenticated as
  tConn,      \* the connection id the hub gave it, 0 before connect
  tWork,      \* the Argon2 work it waits for
  \* what clients have been sent
  told,       \* the last room state (Placement or PeersChanged) sent to each session
  toldAud,    \* the last audiences sent to each session
  untold,     \* history: sessions a handler that failed halfway left with an old state
  \* history
  owed,       \* tracks whose owner has yet to be asked for an Idr someone requested
  inside,     \* who has been inside a room under its present password and not been kicked
  byRank      \* who entered it, while locked, by their rank, and not asked for it without since

acctVars == <<account, key, keyOk>>
roomVars == <<alive, hash, nextRoom, nextHash>>
sessVars == <<conn, nextConn, role, deaf>>
taskVars == <<tUser, tConn, tWork>>
routeVars == <<table, audiences, toldAud>>
\* What a move in or out of a room writes.
moveVars == <<epoch, nextAlloc, room, tracks, share, watching, members, keyframes, owed,
              told, untold, routeVars>>
accessVars == <<lastJoined, inside, byRank>>
vars == <<acctVars, roomVars, sessVars, taskVars, moveVars, accessVars, todo>>

RoomIds == 1..MaxRoomId
NoRoom == 0
Allocs == 1..MaxAlloc
TrackIds == Allocs \X {"video", "audio"}   \* the ids of a share's two tracks

NoWork == [kind |-> "none"]
JoinWork(r, h, matched) == [kind |-> "join", room |-> r, hash |-> h, matched |-> matched]
CreateWork == [kind |-> "create"]
PasswordWork(r) == [kind |-> "password", room |-> r]
Works == [kind: {"join"}, room: RoomIds, hash: 1..MaxHash, matched: BOOLEAN]
         \cup [kind: {"password"}, room: RoomIds] \cup {NoWork, CreateWork}

Free == [op |-> "free"]
RejoinTodo(u, r) == [op |-> "rejoin", user |-> u, room |-> r]
RemoveTodo(left, why) == [op |-> "remove", left |-> left, why |-> why]
DeleteTodo(r, left) == [op |-> "delete", room |-> r, left |-> left]
Todos == [op: {"rejoin"}, user: Users, room: RoomIds \cup {NoRoom}]
         \cup [op: {"remove"}, left: SUBSET Users, why: {"request", "inactive"}]
         \cup [op: {"delete"}, room: RoomIds, left: SUBSET Users] \cup {Free}

-----------------------------------------------------------------------------
(* permissions.rs *)

Rank(ro) == CASE ro = "Admin" -> 2 [] ro = "Manager" -> 1 [] OTHER -> 0
CanManageRooms(actor) == Rank(actor) >= 1
CanSetRole(actor, target, new) ==
  actor = "Admin" /\ Rank(target) < Rank(actor) /\ Rank(new) < Rank(actor)
CanKickFromRoom(actor, target) == Rank(actor) >= 1 /\ Rank(target) < Rank(actor)
\* Bug variant of CanRemove: equals too.
CanRemoveEquals(actor, target) == actor = "Admin" /\ Rank(target) <= Rank(actor)
CanRemove(actor, target) == actor = "Admin" /\ Rank(target) < Rank(actor)

-----------------------------------------------------------------------------
(* What clients are sent, and the routes: pure functions of the hub's state. *)

Lobby == <<NoRoom, 0, {}>>

\* Placement and PeersChanged: the room's epoch and, of each member, the stored key, the
\* tracks and the share.
RoomState(r, ep, mem, ky, tr, sh) ==
  <<r, ep[r], {<<m, ky[m], tr[m], sh[m]>> : m \in mem[r]}>>
RoomStateNow(r) == RoomState(r, epoch, members, key, tracks, share)

Hears(m, a, wt, df) == <<a, "audio">> \in wt[m] /\ ~df[m]
Sees(m, a, wt) == <<a, "video">> \in wt[m]

\* The tracks of s: the connection that may send each, and those of the others it goes to.
RoutesFrom(s, others, cn, tr, df, wt) ==
  {[track |-> <<tr[s], "mic">>, owner |-> cn[s],
    to |-> {cn[m] : m \in {o \in others : ~df[o]}}],
   [track |-> <<tr[s], "video">>, owner |-> cn[s],
    to |-> {cn[m] : m \in {o \in others : Sees(o, tr[s], wt)}}],
   [track |-> <<tr[s], "audio">>, owner |-> cn[s],
    to |-> {cn[m] : m \in {o \in others : Hears(o, tr[s], wt, df)}}]}

\* The ForwardingTable.
Routes(cn, mem, tr, df, wt) ==
  UNION {UNION {RoutesFrom(s, mem[r] \ {s}, cn, tr, df, wt) : s \in mem[r]} : r \in RoomIds}

\* Who receives the share of s, and each running share of room r.
Receivers(s, others, tr, df, wt) ==
  {m \in others : Sees(m, tr[s], wt) \/ Hears(m, tr[s], wt, df)}
AudiencesIn(r, mem, tr, sh, df, wt) ==
  {<<tr[s], Receivers(s, mem[r] \ {s}, tr, df, wt)>> :
     s \in {o \in mem[r] : sh[o] # 0 /\ Receivers(o, mem[r] \ {o}, tr, df, wt) # {}}}

\* Hub::rebuild_routes: publishes the table and tells each room whose audiences changed.
RebuildRoutes ==
  /\ table' = Routes(conn', members', tracks', deaf', watching')
  /\ audiences' = [r \in RoomIds |->
       AudiencesIn(r, members', tracks', share', deaf', watching')]
  /\ toldAud' = [m \in Users |->
       IF room'[m] = NoRoom THEN {}
       ELSE IF room'[m] # room[m] \/ audiences'[room'[m]] # audiences[room'[m]]
            THEN audiences'[room'[m]]
       ELSE toldAud[m]]

-----------------------------------------------------------------------------
AcctOK ==
  /\ account \in [Users -> RoleNames \cup {NoAccount}]
  /\ key \in [Users -> 0..MaxKey]
  /\ keyOk \in [Users -> BOOLEAN]

RoomsOK ==
  /\ alive \subseteq RoomIds
  /\ hash \in [RoomIds -> 0..MaxHash]
  /\ nextRoom \in 1..(MaxRoomId + 1)
  /\ nextHash \in 1..(MaxHash + 1)

SessOK ==
  /\ conn \in [Users -> 0..MaxConn]
  /\ nextConn \in 1..(MaxConn + 1)
  /\ role \in [Users -> RoleNames \cup {NoAccount}]
  /\ deaf \in [Users -> BOOLEAN]

TaskOK ==
  /\ tUser \in [Tasks -> Users \cup {NoUser}]
  /\ tConn \in [Tasks -> 0..MaxConn]
  /\ tWork \in [Tasks -> Works]

MoveOK ==
  /\ epoch \in [RoomIds -> 0..MaxEpoch]
  /\ nextAlloc \in 1..(MaxAlloc + 1)
  /\ room \in [Users -> RoomIds \cup {NoRoom}]
  /\ tracks \in [Users -> Allocs \cup {0}]
  /\ share \in [Users -> ShareSettings \cup {0}]
  /\ watching \in [Users -> SUBSET TrackIds]
  /\ members \in [RoomIds -> SUBSET Users]
  /\ keyframes \in [Allocs -> {"absent", "sent", "Refresh", "Idr"}]
  /\ owed \subseteq Allocs
  /\ untold \subseteq Users

AccessOK ==
  /\ lastJoined \in [Users -> RoomIds \cup {NoRoom}]
  /\ inside \in [RoomIds -> SUBSET Users]
  /\ byRank \in [RoomIds -> SUBSET Users]

TypeOK == AcctOK /\ RoomsOK /\ SessOK /\ TaskOK /\ MoveOK /\ AccessOK /\ todo \in Todos

\* Hub::new over the database as an earlier run of the server left it.
Init ==
  /\ account = InitRole
  /\ key = [u \in Users |-> InitKey]
  /\ keyOk = [u \in Users |-> TRUE]
  /\ alive = 1..InitRooms
  /\ hash = [r \in RoomIds |-> 0]
  /\ epoch = [r \in RoomIds |-> 0]
  /\ nextRoom = InitRooms + 1
  /\ nextHash = 1
  /\ nextAlloc = 1
  /\ conn = [u \in Users |-> 0]
  /\ nextConn = 1
  /\ role = [u \in Users |-> NoAccount]
  /\ room = [u \in Users |-> NoRoom]
  /\ tracks = [u \in Users |-> 0]
  /\ deaf = [u \in Users |-> FALSE]
  /\ share = [u \in Users |-> 0]
  /\ watching = [u \in Users |-> {}]
  /\ members = [r \in RoomIds |-> {}]
  /\ lastJoined = [u \in Users |-> NoRoom]
  /\ keyframes = [a \in Allocs |-> "absent"]
  /\ table = {}
  /\ audiences = [r \in RoomIds |-> {}]
  /\ todo = Free
  /\ tUser = [t \in Tasks |-> NoUser]
  /\ tConn = [t \in Tasks |-> 0]
  /\ tWork = [t \in Tasks |-> NoWork]
  /\ told = [u \in Users |-> Lobby]
  /\ toldAud = [u \in Users |-> {}]
  /\ untold = {}
  /\ owed = {}
  /\ inside = [r \in RoomIds |-> {}]
  /\ byRank = [r \in RoomIds |-> {}]

-----------------------------------------------------------------------------
(* Moving people: place, leave_room, set_membership. *)

\* Hub::bump_epochs succeeds for all of these rooms, or for none.
\* Bug variant of EpochsLeft: the check of overflow is off by one.
EpochsLeftOrLast(rooms) == \A r \in rooms \ {NoRoom} : epoch[r] <= MaxEpoch
EpochsLeft(rooms) == \A r \in rooms \ {NoRoom} : epoch[r] < MaxEpoch
BumpFails(rooms) == DbMayFail \/ ~EpochsLeft(rooms)

\* Bug variant of MayPlace: relies on the count join took before Argon2.
MayPlaceUncounted(u, new) ==
  new # NoRoom => new \in alive /\ key[u] # 0 /\ keyOk[u] /\ nextAlloc <= MaxAlloc
\* What Hub::place checks before it allocates track ids.
MayPlace(u, new) ==
  new # NoRoom =>
    /\ new \in alive
    /\ Cardinality(members[new]) < MaxRoomMembers
    /\ key[u] # 0 /\ keyOk[u]
    /\ nextAlloc <= MaxAlloc

\* Bug variant of HearsOfMove: those left behind are not told.
HearsOfArrival(m, old, new) == room[m] # NoRoom /\ room[m] = new
\* Whom a move is broadcast to, besides the one who moves.
HearsOfMove(m, old, new) == room[m] # NoRoom /\ room[m] \in {old, new}

\* The members of the room left and of the room entered are broadcast its new state; the one
\* who moves gets a Placement, unless the caller says nothing.
MoveTold(u, old, new, tellMover) ==
  /\ told' = [m \in Users |->
       IF m = u THEN IF new # NoRoom
                     THEN RoomState(new, epoch', members', key', tracks', share')
                     ELSE IF tellMover THEN Lobby ELSE told[u]
       ELSE IF HearsOfMove(m, old, new)
            THEN RoomState(room[m], epoch', members', key', tracks', share')
       ELSE told[m]]
  /\ untold' = untold \ ({m \in Users : HearsOfMove(m, old, new)}
                         \cup (IF tellMover THEN {u} ELSE {}))

\* Bug variant of AllocAfter: the counter is not stored.
AllocStays(new) == nextAlloc
\* Database::allocate_media_ids.
AllocAfter(new) == IF new = NoRoom THEN nextAlloc ELSE nextAlloc + 1

\* Bug variant of WatchingAfter: what was watched in the old room stays.
WatchingStays(u) == watching
WatchingAfter(u) == [watching EXCEPT ![u] = {}]

\* Hub::set_membership, on the session's and the aggregator's side.
SetMembership(u, new) ==
  /\ room' = [room EXCEPT ![u] = new]
  /\ share' = [share EXCEPT ![u] = 0]
  /\ watching' = WatchingAfter(u)
  /\ tracks' = [tracks EXCEPT ![u] = IF new = NoRoom THEN 0 ELSE nextAlloc]
  /\ nextAlloc' = AllocAfter(new)
  /\ keyframes' = [a \in Allocs |-> IF a = tracks[u] THEN "absent" ELSE keyframes[a]]
  /\ owed' = owed \ {tracks[u]}

\* Bug variant of MembersAfter: the user stays listed in the room they left.
MembersAdded(u, old, new) == [r \in RoomIds |-> IF r = new THEN members[r] \cup {u} ELSE members[r]]
MembersAfter(u, old, new) ==
  [r \in RoomIds |-> IF r = new THEN members[r] \cup {u}
                     ELSE IF r = old THEN members[r] \ {u} ELSE members[r]]

\* Bug variant of EpochsAfter: only the room left is re-keyed.
EpochsAfterLeaving(bump, old, new) ==
  [r \in RoomIds |-> IF bump /\ r = old THEN epoch[r] + 1 ELSE epoch[r]]
EpochsAfter(bump, old, new) ==
  [r \in RoomIds |-> IF bump /\ r \in {old, new} THEN epoch[r] + 1 ELSE epoch[r]]

\* The change of membership itself: with `bump`, what Hub::place does once nothing can fail
\* any more; without, what Hub::leave_room does when the epoch can't be bumped.
Move(u, new, bump, tellMover) ==
  LET old == room[u] IN
  /\ epoch' = EpochsAfter(bump, old, new)
  /\ members' = MembersAfter(u, old, new)
  /\ SetMembership(u, new)
  /\ MoveTold(u, old, new, tellMover)
  /\ RebuildRoutes

\* Hub::leave_room: out of the room even when its epoch can't be bumped; nothing to do for
\* someone in none.
LeaveRoom(u) ==
  \/ /\ room[u] = NoRoom
     /\ told' = [told EXCEPT ![u] = Lobby]
     /\ untold' = untold \ {u}
     /\ UNCHANGED <<epoch, nextAlloc, room, tracks, share, watching, members, keyframes, owed,
                    routeVars>>
  \/ /\ room[u] # NoRoom
     /\ \E bump \in BOOLEAN :
          /\ bump => EpochsLeft({room[u]})
          /\ ~bump => BumpFails({room[u]})
          /\ Move(u, NoRoom, bump, TRUE)

-----------------------------------------------------------------------------
(* Connections: authenticate, connect, disconnect. *)

Authenticate(t, u) ==
  /\ todo = Free
  /\ tUser[t] = NoUser
  /\ account[u] # NoAccount
  /\ tUser' = [tUser EXCEPT ![t] = u]
  /\ UNCHANGED <<acctVars, roomVars, sessVars, tConn, tWork, moveVars, accessVars, todo>>

SignedIn == {u \in Users : conn[u] # 0}

ServerFull(u) ==
  /\ conn[u] = 0
  /\ \/ Cardinality(SignedIn) >= MaxSignedIn
     \/ account[u] # "Admin" /\ Cardinality(SignedIn) >= MaxOnline

\* Bug variant of StillThere: the row read while authenticating is trusted.
RowTrusted(u) == TRUE
\* The row authenticate read is read again: the user may have been removed meanwhile.
StillThere(u) == account[u] # NoAccount

\* Hub::connect up to the new session: an older session of the user is evicted first.
Connect(t, want) ==
  /\ todo = Free
  /\ tUser[t] # NoUser /\ tConn[t] = 0
  /\ nextConn <= MaxConn
  /\ LET u == tUser[t] IN
     /\ StillThere(u)
     /\ ~ServerFull(u)
     /\ conn' = [conn EXCEPT ![u] = nextConn]
     /\ nextConn' = nextConn + 1
     /\ role' = [role EXCEPT ![u] = account[u]]
     /\ deaf' = [deaf EXCEPT ![u] = FALSE]
     /\ tConn' = [tConn EXCEPT ![t] = nextConn]
     /\ todo' = RejoinTodo(u, want)
     /\ UNCHANGED <<acctVars, roomVars, tUser, tWork, accessVars>>
     /\ LeaveRoom(u)

ConnectRefused(t) ==
  /\ todo = Free
  /\ tUser[t] # NoUser /\ tConn[t] = 0
  /\ ~StillThere(tUser[t]) \/ ServerFull(tUser[t])
  /\ tUser' = [tUser EXCEPT ![t] = NoUser]
  /\ UNCHANGED <<acctVars, roomVars, sessVars, tConn, tWork, moveVars, accessVars, todo>>

\* Whether a reconnect may put u back into r without its password.
MayRejoin(u, r) ==
  \/ r \in alive /\ hash[r] = 0
  \/ CanManageRooms(role[u])
  \/ lastJoined[u] = r

Entered(u, r, proved) ==
  /\ inside' = [inside EXCEPT ![r] = @ \cup {u}]
  /\ byRank' = [byRank EXCEPT ![r] =
       IF proved THEN @ \ {u} ELSE IF hash[r] # 0 /\ lastJoined[u] # r THEN @ \cup {u} ELSE @]

\* The rest of connect: back into the room wanted, or into the lobby when that is refused
\* (rate limits among the reasons).  Hub::last_joined stays as it is.
Rejoin ==
  /\ todo.op = "rejoin"
  /\ todo' = Free
  /\ UNCHANGED <<acctVars, roomVars, sessVars, taskVars>>
  /\ LET u == todo.user
         r == todo.room IN
     \/ /\ r # NoRoom /\ MayRejoin(u, r) /\ MayPlace(u, r) /\ EpochsLeft({r})
        /\ Move(u, r, TRUE, TRUE)
        /\ Entered(u, r, FALSE)
        /\ UNCHANGED lastJoined
     \/ /\ r # NoRoom /\ MayRejoin(u, r) /\ MayPlace(u, r) /\ BumpFails({r})
        /\ nextAlloc' = nextAlloc + 1
        /\ UNCHANGED <<epoch, room, tracks, share, watching, members, keyframes, owed, told, untold,
                       routeVars, accessVars>>
     \/ UNCHANGED <<moveVars, accessVars>>

Current(t) == tUser[t] # NoUser /\ tConn[t] # 0 /\ conn[tUser[t]] = tConn[t]

EndTask(t) ==
  /\ tUser' = [tUser EXCEPT ![t] = NoUser]
  /\ tConn' = [tConn EXCEPT ![t] = 0]
  /\ UNCHANGED tWork

EndSession(u) ==
  /\ conn' = [conn EXCEPT ![u] = 0]
  /\ role' = [role EXCEPT ![u] = NoAccount]
  /\ deaf' = [deaf EXCEPT ![u] = FALSE]
  /\ UNCHANGED nextConn

\* The connection is gone and the task ends (never while it waits for Argon2).  Only a task
\* whose connection is still the user's ends the session.
Disconnect(t) ==
  /\ todo = Free
  /\ tUser[t] # NoUser /\ tWork[t] = NoWork
  /\ EndTask(t)
  /\ UNCHANGED <<acctVars, roomVars, accessVars, todo>>
  /\ \/ /\ Current(t)
        /\ EndSession(tUser[t])
        /\ LeaveRoom(tUser[t])
     \/ /\ ~Current(t)
        /\ UNCHANGED <<moveVars, sessVars>>

\* Hub::dispatch reaches a handler only for the user's current connection, and a connection
\* sends its next request after the answer to the last.
Asks(t, kind) ==
  kind \in Requests /\ todo = Free /\ Current(t) /\ tWork[t] = NoWork

-----------------------------------------------------------------------------
(* JoinRoom and LeaveRoom. *)

NeedsPassword(u, r) ==
  hash[r] # 0 /\ room[u] # r /\ ~CanManageRooms(role[u])

\* Hub::enter with Hub::place: moves u, or finds them there already, and remembers the room;
\* or loses the track ids it allocated to an epoch that can't be bumped.
Enter(u, r, proved) ==
  \/ /\ room[u] = r
     /\ told' = [told EXCEPT ![u] = IF r = NoRoom THEN Lobby ELSE RoomStateNow(r)]
     /\ toldAud' = [toldAud EXCEPT ![u] = IF r = NoRoom THEN {} ELSE audiences[r]]
     /\ untold' = untold \ {u}
     /\ lastJoined' = [lastJoined EXCEPT ![u] = r]
     /\ byRank' = IF r = NoRoom \/ CanManageRooms(role[u]) THEN byRank
                  ELSE [byRank EXCEPT ![r] = @ \ {u}]
     /\ UNCHANGED <<epoch, nextAlloc, room, tracks, share, watching, members, keyframes, owed,
                    table, audiences, inside>>
  \/ /\ room[u] # r /\ MayPlace(u, r) /\ EpochsLeft({room[u], r})
     /\ Move(u, r, TRUE, TRUE)
     /\ IF r = NoRoom THEN UNCHANGED <<inside, byRank>> ELSE Entered(u, r, proved)
     /\ lastJoined' = [lastJoined EXCEPT ![u] = r]
  \/ /\ room[u] # r /\ r # NoRoom /\ MayPlace(u, r) /\ BumpFails({room[u], r})
     /\ nextAlloc' = nextAlloc + 1
     /\ UNCHANGED <<epoch, room, tracks, share, watching, members, keyframes, owed, told, untold,
                    routeVars, accessVars>>

Join(t, r) ==
  /\ Asks(t, "Join")
  /\ r \in alive \cup {NoRoom}
  /\ r # NoRoom => ~NeedsPassword(tUser[t], r)
  /\ UNCHANGED <<acctVars, roomVars, sessVars, taskVars, todo>>
  /\ Enter(tUser[t], r, FALSE)

\* A request that needs Argon2 is handed out as work, and the lock released.
HandOut(t, work) ==
  /\ tWork' = [tWork EXCEPT ![t] = work]
  /\ UNCHANGED <<acctVars, roomVars, sessVars, tUser, tConn, moveVars, accessVars, todo>>

\* A password is asked for: it is checked against the hash of now, with the lock released.
JoinWithPassword(t, r, matched) ==
  /\ Asks(t, "Join")
  /\ r \in alive
  /\ Cardinality(members[r]) < MaxRoomMembers
  /\ NeedsPassword(tUser[t], r)
  /\ HandOut(t, JoinWork(r, hash[r], matched))

Finishes(t, kind) ==
  /\ todo = Free
  /\ tWork[t].kind = kind
  /\ tWork' = [tWork EXCEPT ![t] = NoWork]
  /\ UNCHANGED <<tUser, tConn>>

\* What Hub::finish_join finds once the lock is taken again.
MayFinishJoin(u, work) ==
  /\ work.matched
  /\ work.room \in alive
  /\ NeedsPassword(u, work.room) => hash[work.room] = work.hash

FinishJoin(t) ==
  /\ Finishes(t, "join")
  /\ Current(t)
  /\ MayFinishJoin(tUser[t], tWork[t])
  /\ UNCHANGED <<acctVars, roomVars, sessVars, todo>>
  /\ Enter(tUser[t], tWork[t].room, hash[tWork[t].room] = tWork[t].hash)

\* The work is over and the request refused: another connection, a wrong or changed password,
\* no such room any more, a full room, no valid encryption key, a rate limit.
FinishRefused(t) ==
  /\ todo = Free
  /\ tWork[t] # NoWork
  /\ tWork' = [tWork EXCEPT ![t] = NoWork]
  /\ UNCHANGED <<tUser, tConn>>
  /\ UNCHANGED <<acctVars, roomVars, sessVars, moveVars, accessVars, todo>>

-----------------------------------------------------------------------------
(* Rooms: CreateRoom, SetRoomPassword, DeleteRoom. *)

RoomToCreate(u) == CanManageRooms(role[u]) /\ Cardinality(alive) < MaxRooms

\* Hub::add_room, with the hash of its password or none.
AddRoom(h) ==
  /\ nextRoom <= MaxRoomId
  /\ alive' = alive \cup {nextRoom}
  /\ hash' = [hash EXCEPT ![nextRoom] = h]
  /\ nextRoom' = nextRoom + 1
  /\ nextHash' = IF h = 0 THEN nextHash ELSE nextHash + 1
  /\ UNCHANGED <<acctVars, sessVars, moveVars, accessVars, todo>>

CreateRoom(t) ==
  /\ Asks(t, "CreateRoom")
  /\ RoomToCreate(tUser[t])
  /\ UNCHANGED taskVars
  /\ AddRoom(0)

CreateLockedRoom(t) ==
  /\ Asks(t, "CreateRoom")
  /\ RoomToCreate(tUser[t])
  /\ HandOut(t, CreateWork)

FinishCreateRoom(t) ==
  /\ Finishes(t, "create")
  /\ Current(t)
  /\ RoomToCreate(tUser[t])
  /\ nextHash <= MaxHash
  /\ AddRoom(nextHash)

MayManageRoom(u, r) == CanManageRooms(role[u]) /\ r \in alive

\* Bug variant of KeptAfterPassword: everyone keeps their way back.
KeptByAll(u, r) == TRUE
\* Hub::store_room_password: only those inside keep their way back.
KeptAfterPassword(u, r) == lastJoined[u] # r \/ u \in members[r]

StoreRoomPassword(r, h) ==
  /\ hash' = [hash EXCEPT ![r] = h]
  /\ nextHash' = IF h = 0 THEN nextHash ELSE nextHash + 1
  /\ lastJoined' = [u \in Users |-> IF KeptAfterPassword(u, r) THEN lastJoined[u] ELSE NoRoom]
  /\ inside' = [inside EXCEPT ![r] = members[r]]
  /\ byRank' = [byRank EXCEPT ![r] = {}]
  /\ UNCHANGED <<acctVars, alive, nextRoom, sessVars, moveVars, todo>>

ClearRoomPassword(t, r) ==
  /\ Asks(t, "SetRoomPassword")
  /\ MayManageRoom(tUser[t], r)
  /\ UNCHANGED taskVars
  /\ StoreRoomPassword(r, 0)

SetRoomPassword(t, r) ==
  /\ Asks(t, "SetRoomPassword")
  /\ MayManageRoom(tUser[t], r)
  /\ HandOut(t, PasswordWork(r))

FinishSetPassword(t) ==
  /\ Finishes(t, "password")
  /\ Current(t)
  /\ MayManageRoom(tUser[t], tWork[t].room)
  /\ nextHash <= MaxHash
  /\ StoreRoomPassword(tWork[t].room, nextHash)

\* A manager deletes a room only if they could kick everyone else in it.
MayDeleteRoom(u, r) ==
  /\ MayManageRoom(u, r)
  /\ role[u] = "Admin" \/ \A m \in members[r] \ {u} : CanKickFromRoom(role[u], role[m])

DeleteRoom(t, r) ==
  /\ Asks(t, "DeleteRoom")
  /\ MayDeleteRoom(tUser[t], r)
  /\ todo' = DeleteTodo(r, members[r])
  /\ UNCHANGED <<acctVars, roomVars, sessVars, taskVars, moveVars, accessVars>>

\* One member is placed in the lobby; they hear of it when the room is gone.
DeleteStep ==
  /\ todo.op = "delete"
  /\ \E m \in todo.left :
       /\ EpochsLeft({todo.room})
       /\ todo' = DeleteTodo(todo.room, todo.left \ {m})
       /\ UNCHANGED <<acctVars, roomVars, sessVars, taskVars, accessVars>>
       /\ Move(m, NoRoom, TRUE, FALSE)

\* An epoch that can't be bumped, or a room the database can't delete, ends the handler: the
\* room stays, and nobody tells those already moved out.
DeleteAborted ==
  /\ todo.op = "delete"
  /\ IF todo.left = {} THEN DbMayFail ELSE BumpFails({todo.room})
  /\ todo' = Free
  /\ untold' = untold \cup {m \in Users : told[m][1] = todo.room /\ room[m] # todo.room}
  /\ UNCHANGED <<acctVars, roomVars, sessVars, taskVars, accessVars, epoch, nextAlloc, room,
                 tracks, share, watching, members, keyframes, owed, told, routeVars>>

\* Everyone is out: the room goes, no reconnect leads back to it, and its former members read
\* RoomDeleted.
DeleteFinish ==
  /\ todo.op = "delete"
  /\ todo.left = {}
  /\ todo' = Free
  /\ alive' = alive \ {todo.room}
  /\ hash' = [hash EXCEPT ![todo.room] = 0]
  /\ lastJoined' = [u \in Users |->
       IF lastJoined[u] = todo.room THEN NoRoom ELSE lastJoined[u]]
  /\ told' = [u \in Users |-> IF told[u][1] = todo.room THEN Lobby ELSE told[u]]
  /\ untold' = {u \in untold : told[u][1] # todo.room}
  /\ UNCHANGED <<acctVars, nextRoom, nextHash, sessVars, taskVars, inside, byRank, epoch,
                 nextAlloc, room, tracks, share, watching, members, keyframes, owed, routeVars>>

-----------------------------------------------------------------------------
(* Roles, kicks and removals. *)

\* Bug variant of LosesReturn: someone inside is left what they joined.
LosesReturnOutside(u, new) ==
  ~CanManageRooms(new) /\ lastJoined[u] # NoRoom /\ hash[lastJoined[u]] # 0
  /\ room[u] # lastJoined[u]
\* Hub::role_changed, for a role already stored.
LosesReturn(u, new) ==
  ~CanManageRooms(new) /\ lastJoined[u] # NoRoom /\ hash[lastJoined[u]] # 0

RoleChanged(u, new) ==
  /\ account' = [account EXCEPT ![u] = new]
  /\ role' = [role EXCEPT ![u] = IF conn[u] = 0 THEN @ ELSE new]
  /\ lastJoined' = [lastJoined EXCEPT ![u] = IF LosesReturn(u, new) THEN NoRoom ELSE @]
  /\ UNCHANGED <<key, keyOk, roomVars, conn, nextConn, deaf, taskVars, moveVars, inside,
                 byRank, todo>>

SetRole(t, u, new) ==
  /\ Asks(t, "SetRole")
  /\ account[u] # NoAccount
  /\ CanSetRole(role[tUser[t]], account[u], new)
  /\ RoleChanged(u, new)

\* A user enrolls again with an admin invite (auth.rs): every rank below becomes Admin.
Promote(u) ==
  /\ "Promote" \in Requests
  /\ todo = Free
  /\ account[u] \notin {NoAccount, "Admin"}
  /\ RoleChanged(u, "Admin")

KickFromRoom(t, u) ==
  /\ Asks(t, "KickFromRoom")
  /\ conn[u] # 0 /\ room[u] # NoRoom
  /\ CanKickFromRoom(role[tUser[t]], role[u])
  /\ lastJoined' = [lastJoined EXCEPT ![u] = NoRoom]
  /\ inside' = [inside EXCEPT ![room[u]] = @ \ {u}]
  /\ UNCHANGED <<acctVars, roomVars, sessVars, taskVars, byRank, todo>>
  /\ LeaveRoom(u)

\* Database::invite_tree: everyone u invited, transitively, among those who still have an
\* account (removing someone clears invited_by on those they invited).
Invited(S) == {v \in Users : account[v] # NoAccount /\ Inviter[v] \in S}
InviteTree(u) ==
  CHOOSE S \in SUBSET Users :
    /\ u \in S /\ Invited(S) \subseteq S
    /\ \A T \in SUBSET S : u \in T /\ Invited(T) \subseteq T => T = S

Admins == {u \in Users : account[u] = "Admin"}

\* Whom Hub::remove_user removes, and whether it may.
Removed(u, cascade) == IF cascade THEN InviteTree(u) ELSE {u}
MayRemove(actor, u, cascade) ==
  LET leaving == actor = u /\ ~cascade IN
  /\ leaving /\ role[actor] = "Admin" => Cardinality(Admins) # 1
  /\ leaving \/ CanRemove(role[actor], "User")
  /\ \A v \in Removed(u, cascade) :
       account[v] # NoAccount /\ (leaving \/ CanRemove(role[actor], account[v]))

\* The accounts go in one transaction; the sessions are then evicted one by one.
RemoveUsers(S, why) ==
  /\ account' = [u \in Users |-> IF u \in S THEN NoAccount ELSE account[u]]
  /\ todo' = RemoveTodo(S, why)
  /\ UNCHANGED <<key, keyOk, roomVars, sessVars, taskVars, moveVars, accessVars>>

RemoveUser(t, u, cascade) ==
  /\ Asks(t, "RemoveUser")
  /\ MayRemove(tUser[t], u, cascade)
  /\ RemoveUsers(Removed(u, cascade), "request")

\* The sweeper: accounts nobody signed in to for a long time, whoever they are.
RemoveInactive(S) ==
  /\ "RemoveInactive" \in Requests
  /\ todo = Free
  /\ S # {} /\ \A u \in S : account[u] # NoAccount
  /\ RemoveUsers(S, "inactive")

RemoveStep ==
  /\ todo.op = "remove"
  /\ \E u \in todo.left :
       /\ todo' = IF todo.left = {u} THEN Free ELSE RemoveTodo(todo.left \ {u}, todo.why)
       /\ lastJoined' = [lastJoined EXCEPT ![u] = NoRoom]
       /\ UNCHANGED <<acctVars, roomVars, taskVars, inside, byRank>>
       /\ EndSession(u)
       /\ LeaveRoom(u)

-----------------------------------------------------------------------------
(* Encryption keys. *)

\* Hub::broadcast_peers of room r to all its members.
BroadcastPeers(r) ==
  /\ told' = [m \in Users |->
       IF m \in members[r] THEN RoomState(r, epoch', members, key', tracks, share') ELSE told[m]]
  /\ untold' = untold \ members[r]

\* A signed key other than the stored one.  `rotates`: the key itself is new, not only its
\* expiry, and the user's room moves to a new epoch.
Rekeys(u, rotates) == room[u] # NoRoom /\ rotates

SetEncryptionKey(t, rotates) ==
  LET u == tUser[t] IN
  /\ Asks(t, "SetEncryptionKey")
  /\ key[u] < MaxKey
  /\ key[u] = 0 => rotates
  /\ key' = [key EXCEPT ![u] = @ + 1]
  /\ keyOk' = [keyOk EXCEPT ![u] = TRUE]
  /\ UNCHANGED <<account, roomVars, sessVars, taskVars, accessVars, todo, nextAlloc, room,
                 tracks, share, watching, members, keyframes, owed, routeVars>>
  /\ \/ /\ Rekeys(u, rotates) => EpochsLeft({room[u]})
        /\ epoch' = [r \in RoomIds |->
             IF r = room[u] /\ Rekeys(u, rotates) THEN epoch[r] + 1 ELSE epoch[r]]
        /\ IF room[u] # NoRoom THEN BroadcastPeers(room[u]) ELSE UNCHANGED <<told, untold>>
     \/ /\ Rekeys(u, rotates) /\ BumpFails({room[u]})
        /\ untold' = untold \cup members[room[u]]
        /\ UNCHANGED <<epoch, told>>

\* The stored key's not_after passes.
ExpireKey(u) ==
  /\ "SetEncryptionKey" \in Requests
  /\ key[u] # 0 /\ keyOk[u]
  /\ keyOk' = [keyOk EXCEPT ![u] = FALSE]
  /\ UNCHANGED <<account, key, roomVars, sessVars, taskVars, moveVars, accessVars, todo>>

-----------------------------------------------------------------------------
(* Shares, watching and keyframes. *)

SharesIn(r) == Cardinality({m \in members[r] : share[m] # 0})

\* Bug variant of ShareRefused: no limit per room.
ShareTooOften(u, s, limited) == limited /\ s # 0 /\ s # share[u]
\* Hub::set_media: deafening always applies; a share that would be one too many, or comes too
\* often (`limited`), stays as it was.
ShareRefused(u, s, limited) ==
  \/ s # 0 /\ share[u] = 0 /\ SharesIn(room[u]) >= MaxRoomShares
  \/ limited /\ s # 0 /\ s # share[u]

\* Bug variants of NeedsRoutes: one of the two reasons is forgotten.
NeedsRoutesForShare(u, d, s) == (s = 0) # (share[u] = 0)
NeedsRoutesForDeaf(u, d, s) == d # deaf[u]
NeedsRoutes(u, d, s) == d # deaf[u] \/ (s = 0) # (share[u] = 0)

SetMedia(t, d, s, limited) ==
  LET u == tUser[t]
      applied == IF ShareRefused(u, s, limited) THEN share[u] ELSE s
  IN
  /\ Asks(t, "SetMedia")
  /\ room[u] # NoRoom
  /\ deaf' = [deaf EXCEPT ![u] = d]
  /\ share' = [share EXCEPT ![u] = applied]
  /\ UNCHANGED <<acctVars, roomVars, conn, nextConn, role, taskVars, accessVars, todo, epoch,
                 nextAlloc, room, tracks, watching, members, keyframes, owed>>
  /\ IF applied # share[u] THEN BroadcastPeers(room[u]) ELSE UNCHANGED <<told, untold>>
  /\ IF NeedsRoutes(u, d, applied) THEN RebuildRoutes ELSE UNCHANGED routeVars

LiveTracks == {tracks[u] : u \in Users} \ {0}

\* Bug variant of Wanted: the last request wins.
LastWanted(have, kind) == kind
\* KeyframeAggregator::request for each of these tracks; those in `due` have not been asked
\* for a keyframe within the interval.
Wanted(have, kind) == IF "Idr" \in {have, kind} THEN "Idr" ELSE kind

Request(asked, kind, due) ==
  /\ \A a \in asked : keyframes[a] = "absent" => a \in due
  /\ keyframes' = [a \in Allocs |->
       IF a \notin asked THEN keyframes[a]
       ELSE IF a \in due THEN "sent" ELSE Wanted(keyframes[a], kind)]
  /\ owed' = {a \in owed \cup (IF kind = "Idr" THEN asked ELSE {}) :
       ~(a \in asked \cap due /\ Wanted(keyframes[a], kind) = "Idr")}

Watchable(u) == {<<tracks[m], k>> : m \in members[room[u]] \ {u}, k \in {"video", "audio"}}

SetWatched(t, ids, due) ==
  LET u == tUser[t]
      started == {a \in Allocs : <<a, "video">> \in ids \ watching[u]}
  IN
  /\ Asks(t, "SetWatched")
  /\ room[u] # NoRoom
  /\ ids \subseteq Watchable(u)
  /\ due \subseteq started
  /\ watching' = [watching EXCEPT ![u] = ids]
  /\ UNCHANGED <<acctVars, roomVars, sessVars, taskVars, accessVars, todo, epoch, nextAlloc,
                 room, tracks, share, members, told, untold>>
  /\ RebuildRoutes
  /\ Request(started, "Idr", due)

RequestKeyframe(t, a, kind, due) ==
  /\ Asks(t, "RequestKeyframe")
  /\ <<a, "video">> \in watching[tUser[t]]
  /\ a \in LiveTracks
  /\ due \subseteq {a}
  /\ Request({a}, kind, due)
  /\ UNCHANGED <<acctVars, roomVars, sessVars, taskVars, accessVars, todo, epoch, nextAlloc,
                 room, tracks, share, watching, members, told, untold, routeVars>>

\* The ticker: requests that waited out their interval go to the owner, or are forgotten with
\* the track.
FlushKeyframes(due) ==
  /\ todo = Free
  /\ due # {} /\ \A a \in due : keyframes[a] \in {"Refresh", "Idr"}
  /\ keyframes' = [a \in Allocs |->
       IF a \notin due THEN keyframes[a] ELSE IF a \in LiveTracks THEN "sent" ELSE "absent"]
  /\ owed' = {a \in owed : ~(a \in due /\ keyframes[a] = "Idr")}
  /\ UNCHANGED <<acctVars, roomVars, sessVars, taskVars, accessVars, todo, epoch, nextAlloc,
                 room, tracks, share, watching, members, told, untold, routeVars>>

-----------------------------------------------------------------------------
\* Bug variant of Persisted: epochs are kept in memory only.
EpochsForgotten ==
  epoch' = [r \in RoomIds |-> 0] /\ UNCHANGED <<acctVars, roomVars, nextAlloc>>
\* What the database still holds after a restart.
Persisted == UNCHANGED <<acctVars, roomVars, epoch, nextAlloc>>

\* The server stops, at any moment, and starts again from the database.
Restart ==
  /\ "Restart" \in Requests
  /\ nextConn > 1
  /\ conn' = [u \in Users |-> 0]
  /\ nextConn' = 1
  /\ role' = [u \in Users |-> NoAccount]
  /\ room' = [u \in Users |-> NoRoom]
  /\ tracks' = [u \in Users |-> 0]
  /\ deaf' = [u \in Users |-> FALSE]
  /\ share' = [u \in Users |-> 0]
  /\ watching' = [u \in Users |-> {}]
  /\ members' = [r \in RoomIds |-> {}]
  /\ lastJoined' = [u \in Users |-> NoRoom]
  /\ keyframes' = [a \in Allocs |-> "absent"]
  /\ table' = {}
  /\ audiences' = [r \in RoomIds |-> {}]
  /\ todo' = Free
  /\ tUser' = [t \in Tasks |-> NoUser]
  /\ tConn' = [t \in Tasks |-> 0]
  /\ tWork' = [t \in Tasks |-> NoWork]
  /\ told' = [u \in Users |-> Lobby]
  /\ toldAud' = [u \in Users |-> {}]
  /\ untold' = {}
  /\ owed' = {}
  /\ Persisted
  /\ UNCHANGED <<inside, byRank>>

TaskStep(t) ==
  \/ \E u \in Users : Authenticate(t, u)
  \/ \E r \in RoomIds \cup {NoRoom} : Connect(t, r)
  \/ ConnectRefused(t)
  \/ Disconnect(t)
  \/ \E r \in RoomIds \cup {NoRoom} : Join(t, r)
  \/ \E r \in RoomIds, matched \in BOOLEAN : JoinWithPassword(t, r, matched)
  \/ FinishJoin(t)
  \/ FinishCreateRoom(t)
  \/ FinishSetPassword(t)
  \/ FinishRefused(t)
  \/ CreateRoom(t)
  \/ CreateLockedRoom(t)
  \/ \E r \in RoomIds : ClearRoomPassword(t, r) \/ SetRoomPassword(t, r) \/ DeleteRoom(t, r)
  \/ \E u \in Users, new \in RoleNames : SetRole(t, u, new)
  \/ \E u \in Users : KickFromRoom(t, u)
  \/ \E u \in Users, cascade \in BOOLEAN : RemoveUser(t, u, cascade)
  \/ \E rotates \in BOOLEAN : SetEncryptionKey(t, rotates)
  \/ \E d \in BOOLEAN, s \in ShareSettings \cup {0}, limited \in BOOLEAN :
       SetMedia(t, d, s, limited)
  \/ \E ids \in SUBSET (IF tUser[t] = NoUser \/ room[tUser[t]] = NoRoom
                        THEN {} ELSE Watchable(tUser[t])) :
       \E due \in SUBSET {id[1] : id \in ids} : SetWatched(t, ids, due)
  \/ \E a \in Allocs, kind \in {"Refresh", "Idr"} :
       \E due \in SUBSET {a} : RequestKeyframe(t, a, kind, due)

LockHolderStep == Rejoin \/ DeleteStep \/ DeleteAborted \/ DeleteFinish \/ RemoveStep

Next ==
  \/ \E t \in Tasks : TaskStep(t)
  \/ LockHolderStep
  \/ \E u \in Users : Promote(u) \/ ExpireKey(u)
  \/ \E S \in SUBSET Users : RemoveInactive(S)
  \/ \E due \in SUBSET Allocs : FlushKeyframes(due)
  \/ Restart

Spec == Init /\ [][Next]_vars

\* The holder of the lock goes on.  The ticker waits for the lock, which others may hold each
\* time it looks, and comes round to every track whose interval has passed.
Fairness ==
  /\ WF_vars(LockHolderStep)
  /\ \A a \in Allocs : SF_vars(\E due \in SUBSET Allocs : a \in due /\ FlushKeyframes(due))

FairSpec == Spec /\ Fairness

-----------------------------------------------------------------------------
(* Properties. *)

\* A room's member list and the sessions' own rooms never disagree, whichever handler moved
\* someone last, failed halfway, or lost the race with a reconnect; only signed-in users are
\* in rooms, only rooms there are have members, and exactly those in a room own tracks.
MembersAgree ==
  /\ \A u \in Users, r \in RoomIds : u \in members[r] <=> room[u] = r
  /\ \A u \in Users : room[u] # NoRoom => conn[u] # 0 /\ room[u] \in alive
  /\ \A u \in Users : room[u] = NoRoom <=> tracks[u] = 0

\* Media ids name one membership of one user: no two sessions own the same, and none owns one
\* that has yet to be allotted (Hub::allocate_tracks over a counter that survives restarts).
TracksDistinct ==
  /\ \A u, v \in Users : u # v /\ tracks[u] # 0 => tracks[u] # tracks[v]
  /\ \A u \in Users : tracks[u] < nextAlloc

\* What the handlers that keep the lock rely on between their steps: nobody else moves the one
\* who is being put back, or those who are still to be moved out of a room that is there.
LockHeld ==
  /\ todo.op = "rejoin" => conn[todo.user] # 0 /\ room[todo.user] = NoRoom
  /\ todo.op = "delete" => todo.left = members[todo.room] /\ todo.room \in alive

\* A room id yet to be allotted belongs to no room and has never had an epoch (AUTOINCREMENT).
RoomsAllotted == \A r \in RoomIds : r >= nextRoom => r \notin alive /\ epoch[r] = 0

\* A room never holds more members than it may, and the server no more rooms, although the
\* checks come before Argon2 and what they limit after it, and a reconnect passes other checks
\* than a join.
RoomLimits ==
  /\ \A r \in RoomIds : Cardinality(members[r]) <= MaxRoomMembers
  /\ Cardinality(alive) <= MaxRooms

\* No room runs more than MAX_ROOM_SHARES shares, whoever comes and goes with theirs.
ShareLimit == \A r \in RoomIds : SharesIn(r) <= MaxRoomShares

\* Every session is that of an existing account and acts with the rank stored for it, but for
\* those a removal under way has still to evict: no task that authenticated before a removal or
\* a change of role keeps the old one.
SessionsFresh ==
  \A u \in SignedIn :
    \/ account[u] # NoAccount /\ role[u] = account[u]
    \/ todo.op = "remove" /\ u \in todo.left

\* What the ingress loops read is what the state says: each track is accepted from its owner's
\* current connection and goes to exactly the members of its room that should have it.
RoutesCurrent == table = Routes(conn, members, tracks, deaf, watching)

\* What a member was last told of their room (its epoch, members, keys, tracks, shares) is the
\* room's state, and those in no room were told so, or will be once the room they were in is
\* deleted, except for the two handlers that can stop halfway without telling anyone (`untold`):
\* even those still know which room they are in.
ToldCurrent ==
  \A u \in SignedIn :
    /\ room[u] # NoRoom => told[u][1] = room[u]
    /\ u \notin untold =>
         /\ room[u] # NoRoom => told[u] = RoomStateNow(room[u])
         /\ room[u] = NoRoom =>
              told[u] = Lobby \/ (todo.op = "delete" /\ told[u][1] = todo.room)

\* Every member knows who receives each running share of their room, as the hub does.
AudiencesTold ==
  /\ audiences = [r \in RoomIds |-> AudiencesIn(r, members, tracks, share, deaf, watching)]
  /\ \A u \in Users : room[u] # NoRoom => toldAud[u] = audiences[room[u]]

\* Nobody watches a live track of another room, or their own: what a session still watches
\* after its owner left is an id that nobody owns again, and none is yet to be allotted.
WatchedInRoom ==
  /\ \A u, v \in Users, k \in {"video", "audio"} :
       tracks[v] # 0 /\ <<tracks[v], k>> \in watching[u] => u # v /\ room[u] = room[v]
  /\ \A u \in Users : \A id \in watching[u] : id[1] < nextAlloc

\* A requested Idr stays pending until the track's owner was asked for one, whatever refresh
\* requests come after it, and nothing is pending for a track that is gone.
IdrKept ==
  /\ \A a \in owed : keyframes[a] = "Idr"
  /\ \A a \in Allocs : keyframes[a] # "absent" => a \in LiveTracks

\* A reconnect leads past a password only those who have been inside the room under that
\* password and were not kicked since: MayRejoin through last_joined alone.
ReturnKnown ==
  \A u \in Users, r \in alive :
    hash[r] # 0 /\ lastJoined[u] = r => u \in inside[r]

\* Those in a room count among those who have been inside, and a reconnect leads back to no room
\* that is gone, whose row another room could have taken.
ReturnAlive ==
  /\ \A r \in RoomIds : members[r] \subseteq inside[r]
  /\ \A u \in Users : lastJoined[u] \in alive \cup {NoRoom}

\* rooms.rs of role_changed: "A manager enters locked rooms without their password; once
\* demoted, a reconnect must not return them to one": unless, demoted and still inside, they
\* ask for the room again, which Hub::enter takes for a join of its own.
DemotedNotReturned ==
  \A u \in Users, r \in alive :
    account[u] = "User" /\ hash[r] # 0 /\ u \in byRank[r] => lastJoined[u] # r

\* Only the sweep of inactive accounts can take the last admin away: no request removes or
\* demotes them (Hub::remove_user counts, Hub::set_role and can_remove compare ranks).
AdminsRemain ==
  [][Admins # {} => Admins' # {} \/ (todo'.op = "remove" /\ todo'.why = "inactive")]_vars

\* Media ids, room ids and epochs persist and only grow, across restarts too: a client that
\* has seen one can tell every later one from it.
NothingReused ==
  [][/\ nextAlloc' >= nextAlloc /\ nextRoom' >= nextRoom
     /\ \A r \in RoomIds : epoch'[r] >= epoch[r]
     /\ \A u \in Users : tracks'[u] \in {0, tracks[u], nextAlloc}
     /\ \A r \in alive' \ alive : epoch'[r] = 0 /\ members'[r] = {} /\ r >= nextRoom]_vars

\* Every Idr that has been asked for reaches the owner of the track, unless the track ends.
IdrServed == \A a \in Allocs : a \in owed ~> a \notin owed

\* Who may read what a room's epoch protects: an epoch only ever loses members.
RoomEpochs == INSTANCE RoomEpochs WITH Rooms <- RoomIds, limit <- MaxEpoch
EpochsRefined == RoomEpochs!Spec

\* Whoever is signed in or let back into a room has earned it, also after passwords, roles and
\* accounts changed while authentication or Argon2 ran off the lock (Hub::connect, Hub::finish,
\* Hub::role_changed).
AccessEarned ==
  ReturnKnown /\ ReturnAlive /\ DemotedNotReturned /\ SessionsFresh /\ RoomLimits

\* What must outlast every request and restart does: an admin, and the counters of ids and
\* epochs (Hub::remove_user, Database).
RecordsLast == AdminsRemain /\ NothingReused

\* Sessions, member lists and media ids agree, through moves that fail halfway (Hub::place).
MembershipAgrees == TypeOK /\ MembersAgree /\ TracksDistinct /\ LockHeld /\ RoomsAllotted

\* What is derived from rooms and sessions follows them, in every handler that changes either
\* (Hub::rebuild_routes, Hub::set_media, Hub::set_watched, Keyframes).
MediaAgrees == RoutesCurrent /\ AudiencesTold /\ WatchedInRoom /\ ShareLimit /\ IdrKept

=============================================================================
