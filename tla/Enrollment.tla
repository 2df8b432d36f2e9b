----------------------------- MODULE Enrollment -----------------------------
(***************************************************************************)
(* Invites and the enrollment runs that redeem them (throcc-server:        *)
(* auth.rs, the invite half of database.rs and of rooms.rs).               *)
(*                                                                         *)
(* An invite is a row of the database: a public id of three characters, a  *)
(* secret, who minted it, when it expires and how many tries it has lost.  *)
(* A connection that enrolls claims one try under the hub lock, runs the   *)
(* PAKE with the lock released (up to 35 s), enrolls under the lock, and   *)
(* is dropped under the lock a third time; other connections, mints,       *)
(* removals and a restart of the server come in between.                   *)
(*                                                                         *)
(* A secret is a serial number: every mint draws a fresh one.  The id is   *)
(* drawn from CodeIds and may return once its row is gone.                 *)
(***************************************************************************)
EXTENDS Integers, FiniteSets

CONSTANTS
  Conns,          \* connection tasks that may enroll
  Keys,           \* identity keys of the people enrolling
  FirstKey,       \* the one of the account there is at first
  MaxUserId,      \* bound: user ids ever allotted (AUTOINCREMENT)
  MaxSerial,      \* bound: invites ever minted
  NumIds,         \* invite ids there are (32^3 in the code)
  IdReuse,        \* whether a freed id may be drawn again
  MaxTime,        \* bound: the clock
  InviteTries,    \* INVITE_TRIES
  InviteLifetime, \* INVITE_LIFETIME, the rolling day of the cap too
  DailyInvites    \* DAILY_INVITES, for everyone but admins

ASSUME BoundsAssumption ==
  /\ MaxUserId \in Nat \ {0} /\ MaxSerial \in Nat /\ NumIds \in Nat /\ MaxTime \in Nat
  /\ IdReuse \in BOOLEAN
  /\ IdReuse \/ MaxSerial <= NumIds
ASSUME LimitsAssumption ==
  /\ InviteTries \in Nat \ {0}
  /\ InviteLifetime \in Nat \ {0}
  /\ DailyInvites \in Nat
ASSUME ConnsFinite == IsFiniteSet(Conns)
ASSUME FirstKeyAssumption == FirstKey \in Keys

VARIABLES
  clock,      \* unix_now()
  invites,    \* table invites, by code_id
  minted,     \* number of invites minted, the last serial drawn
  users,      \* table users, by id
  nextUser,   \* the next AUTOINCREMENT user id
  runs,       \* the enrollment each connection task is in
  inviteRuns, \* Hub.invite_runs: PAKE runs in flight per id
  tried,      \* history: PAKE runs begun against each secret
  redeemed,   \* history: runs proving this secret that enrolled someone
  wasAdmin    \* history: user ids that have held the admin role

dbVars == <<invites, minted, users, nextUser>>
vars == <<clock, dbVars, runs, inviteRuns, tried, redeemed, wasAdmin>>

CodeIds == 1..NumIds
Serials == 1..MaxSerial
UserIds == 1..MaxUserId
NoUser == 0     \* Option<UserId>::None
Times == 0..(MaxTime + InviteLifetime)

Absent == [row |-> "none"]
InviteRow(serial, minter, expiresAt, failures) ==
  [row |-> "invite", serial |-> serial, mintedBy |-> minter,
   expiresAt |-> expiresAt, failures |-> failures]
InviteRows == [row: {"invite"}, serial: Serials, mintedBy: UserIds \cup {NoUser},
               expiresAt: Times, failures: 0..InviteTries]

\* All this module tells apart of a Role; a Manager is a "User" here.
Roles == {"User", "Admin"}

Gone == [row |-> "none"]
UserRow(key, role, inviter, createdAt) ==
  [row |-> "user", key |-> key, role |-> role, invitedBy |-> inviter, createdAt |-> createdAt]
UserRows == [row: {"user"}, key: Keys, role: Roles,
             invitedBy: UserIds \cup {NoUser}, createdAt: 0..MaxTime]

Idle == [phase |-> "idle"]
\* A run whose id named no live invite: it goes through a PAKE that cannot succeed.
Decoy == [phase |-> "decoy"]
Run(phase, code, serial, now) ==
  [phase |-> phase, code |-> code, serial |-> serial, now |-> now]
Runs == [phase: {"pake", "ended"}, code: CodeIds, serial: Serials, now: 0..MaxTime]
Claimed(r) == runs[r].phase \in {"pake", "ended"}

\* One type invariant: the tables, the runs and the history have their shape.
TypeOK ==
  /\ clock \in 0..MaxTime
  /\ invites \in [CodeIds -> InviteRows \cup {Absent}]
  /\ minted \in 0..MaxSerial
  /\ users \in [UserIds -> UserRows \cup {Gone}]
  /\ nextUser \in 1..(MaxUserId + 1)
  /\ runs \in [Conns -> Runs \cup {Idle, Decoy}]
  /\ inviteRuns \in [CodeIds -> Nat]
  /\ tried \in [Serials -> Nat]
  /\ redeemed \in [Serials -> Nat]
  /\ wasAdmin \subseteq UserIds

\* The database as the server finds it: one account, whoever invited it long gone.
Init ==
  /\ clock = 0
  /\ invites = [c \in CodeIds |-> Absent]
  /\ minted = 0
  /\ \E role \in Roles :
       /\ users = [u \in UserIds |-> IF u = 1
                     THEN UserRow(FirstKey, role, NoUser, 0) ELSE Gone]
       /\ wasAdmin = IF role = "Admin" THEN {1} ELSE {}
  /\ nextUser = 2
  /\ runs = [r \in Conns |-> Idle]
  /\ inviteRuns = [c \in CodeIds |-> 0]
  /\ tried = [s \in Serials |-> 0]
  /\ redeemed = [s \in Serials |-> 0]

-----------------------------------------------------------------------------
(* The database. *)

Minted(c) == invites[c].row = "invite"
Exists(u) == users[u].row = "user"
Spent(c) == Minted(c) /\ invites[c].failures >= InviteTries

\* Live invites minted by u plus users u enrolled within the last day.
InvitesUsed(u) ==
  Cardinality({c \in CodeIds : /\ Minted(c)
                               /\ invites[c].mintedBy = u
                               /\ invites[c].expiresAt > clock})
  + Cardinality({v \in UserIds : /\ Exists(v)
                                 /\ users[v].invitedBy = u
                                 /\ users[v].createdAt > clock - InviteLifetime})

\* Bug variant of PurgeExpired: minting no longer purges.
PurgeNothing(c) == IF Minted(c) THEN invites[c] ELSE Absent

\* Database::purge_expired_invites, on each row.
PurgeExpired(c) ==
  IF Minted(c) /\ invites[c].expiresAt <= clock THEN Absent ELSE invites[c]

\* An id mint_invite may draw: INSERT OR IGNORE refuses one the purge has left.
DrawableId(c) ==
  /\ PurgeExpired(c) = Absent
  /\ IdReuse \/ c = minted + 1

MintInvite(c, minter) ==
  /\ minted < MaxSerial
  /\ DrawableId(c)
  /\ minted' = minted + 1
  /\ invites' = [d \in CodeIds |->
       IF d = c THEN InviteRow(minted + 1, minter, clock + InviteLifetime, 0)
       ELSE PurgeExpired(d)]
  /\ UNCHANGED <<clock, users, nextUser, runs, inviteRuns, tried, redeemed, wasAdmin>>

\* Request::CreateInvite.
CreateInvite(u, c) ==
  /\ Exists(u)
  /\ users[u].role # "Admin" => InvitesUsed(u) < DailyInvites
  /\ MintInvite(c, u)

\* `throcc-server admin-invite`, from a process of its own.
AdminInvite(c) == MintInvite(c, NoUser)

WithRole(row, role) == UserRow(row.key, role, row.invitedBy, row.createdAt)

\* Hub::set_role on any stored user; who may ask for it is the hub's business.
SetRole(u, role) ==
  /\ Exists(u)
  /\ users' = [users EXCEPT ![u] = WithRole(@, role)]
  /\ wasAdmin' = IF role = "Admin" THEN wasAdmin \cup {u} ELSE wasAdmin
  /\ UNCHANGED <<clock, invites, minted, nextUser, runs, inviteRuns, tried, redeemed>>

\* Database::remove_users: their rows and invites go, whoever they invited stays.
RemoveUsers(gone) ==
  /\ gone # {}
  /\ \A u \in gone : Exists(u)
  /\ users' = [u \in UserIds |->
       IF u \in gone THEN Gone
       ELSE IF Exists(u) /\ users[u].invitedBy \in gone
            THEN UserRow(users[u].key, users[u].role, NoUser, users[u].createdAt)
       ELSE users[u]]
  /\ invites' = [c \in CodeIds |->
       IF Minted(c) /\ invites[c].mintedBy \in gone THEN Absent ELSE invites[c]]
  /\ UNCHANGED <<clock, minted, nextUser, runs, inviteRuns, tried, redeemed, wasAdmin>>

-----------------------------------------------------------------------------
(* Enrollment::run. *)

\* Bug variant of Claimable: off by one in the tries.
ClaimableOnceMore(c) ==
  /\ Minted(c)
  /\ invites[c].expiresAt > clock
  /\ invites[c].failures <= InviteTries

Claimable(c) ==
  /\ Minted(c)
  /\ invites[c].expiresAt > clock
  /\ invites[c].failures < InviteTries

\* Bug variant of ConsumeInviteTry: a claim costs nothing.
ConsumeNothing(row) == InviteRow(row.serial, row.mintedBy, row.expiresAt, row.failures)
ConsumeInviteTry(row) ==
  InviteRow(row.serial, row.mintedBy, row.expiresAt, row.failures + 1)

\* Enrollment::claim_try: the try is spent before any PAKE message is sent.
ClaimTry(r, c) ==
  /\ runs[r] = Idle
  /\ Claimable(c)
  /\ runs' = [runs EXCEPT ![r] = Run("pake", c, invites[c].serial, clock)]
  /\ invites' = [invites EXCEPT ![c] = ConsumeInviteTry(@)]
  /\ inviteRuns' = [inviteRuns EXCEPT ![c] = @ + 1]
  /\ tried' = [tried EXCEPT ![invites[c].serial] = @ + 1]
  /\ UNCHANGED <<clock, minted, users, nextUser, redeemed, wasAdmin>>

\* The same for an id with no such row (there always are some): the run touches no invite.
ClaimDecoy(r) ==
  /\ runs[r] = Idle
  /\ runs' = [runs EXCEPT ![r] = Decoy]
  /\ UNCHANGED <<clock, dbVars, inviteRuns, tried, redeemed, wasAdmin>>

DeleteInvite(c) == [invites EXCEPT ![c] = Absent]

\* The row Database::enroll finds: by id, and unexpired when the run began.
Redeemable(run) ==
  /\ Minted(run.code)
  /\ invites[run.code].expiresAt > run.now

HolderOf(k) == {u \in UserIds : Exists(u) /\ users[u].key = k}

\* The PAKE succeeded for the identity key k (the hello named it; nothing reads it before);
\* Database::enroll in one transaction under the hub lock.
Enroll(r, k) ==
  LET run == runs[r]
      row == invites[run.code]
      role == IF row.mintedBy = NoUser THEN "Admin" ELSE "User"
      holder == HolderOf(k)
  IN
  /\ run.phase = "pake"
  /\ Redeemable(run)
  /\ invites' = DeleteInvite(run.code)
  /\ \/ /\ holder # {}
        /\ users' = [u \in UserIds |->
             IF u \in holder /\ role = "Admin" THEN WithRole(users[u], role)
             ELSE users[u]]
        /\ wasAdmin' = IF role = "Admin" THEN wasAdmin \cup holder ELSE wasAdmin
        /\ UNCHANGED nextUser
     \/ /\ holder = {}
        /\ nextUser <= MaxUserId
        /\ users' = [users EXCEPT ![nextUser] =
             UserRow(k, role, row.mintedBy, run.now)]
        /\ wasAdmin' = IF role = "Admin" THEN wasAdmin \cup {nextUser} ELSE wasAdmin
        /\ nextUser' = nextUser + 1
  /\ runs' = [runs EXCEPT ![r] = Run("ended", @.code, @.serial, @.now)]
  /\ redeemed' = [redeemed EXCEPT ![run.serial] = @ + 1]
  /\ UNCHANGED <<clock, minted, inviteRuns, tried>>

\* The PAKE succeeded but the row is gone or another has expired: BadInvite.
EnrollRefused(r) ==
  /\ runs[r].phase = "pake"
  /\ ~Redeemable(runs[r])
  /\ runs' = [runs EXCEPT ![r] = Run("ended", @.code, @.serial, @.now)]
  /\ UNCHANGED <<clock, dbVars, inviteRuns, tried, redeemed, wasAdmin>>

\* Bug variants of FinishRun and LastRun: the entry is removed with its first run; any run
\* burns; the last run finds itself still counted.
FinishAll(n) == n * 0
AnyRun(c) == inviteRuns[c] >= 0
NoRunLeft(c) == inviteRuns[c] = 0

\* InviteRuns::finish: one run less, and whether no other run of this id is left in flight.
FinishRun(n) == IF n > 0 THEN n - 1 ELSE 0
LastRun(c) == inviteRuns[c] <= 1

\* The run is over, or the PAKE failed, timed out or lost its connection.  Dropping the
\* InviteRun ends it; the last run of an invite that has used up its tries burns it.
EndRun(r) ==
  LET c == runs[r].code
  IN
  /\ runs[r] # Idle
  /\ runs' = [runs EXCEPT ![r] = Idle]
  /\ \/ /\ runs[r] = Decoy
        /\ UNCHANGED <<invites, inviteRuns>>
     \/ /\ Claimed(r)
        /\ inviteRuns' = [inviteRuns EXCEPT ![c] = FinishRun(@)]
        /\ invites' = IF LastRun(c) /\ Spent(c)
                      THEN DeleteInvite(c) ELSE invites
  /\ UNCHANGED <<clock, minted, users, nextUser, tried, redeemed, wasAdmin>>

-----------------------------------------------------------------------------
(* The server stops at any point and starts again: no run survives, and    *)
(* Server::bind deletes the invites the stop left spent.                   *)
Restart ==
  /\ runs' = [r \in Conns |-> Idle]
  /\ inviteRuns' = [c \in CodeIds |-> 0]
  /\ invites' = [c \in CodeIds |-> IF Spent(c) THEN Absent ELSE invites[c]]
  /\ UNCHANGED <<clock, minted, users, nextUser, tried, redeemed, wasAdmin>>

Tick ==
  /\ clock < MaxTime
  /\ clock' = clock + 1
  /\ UNCHANGED <<dbVars, runs, inviteRuns, tried, redeemed, wasAdmin>>

Next ==
  \/ \E u \in UserIds, c \in CodeIds : CreateInvite(u, c)
  \/ \E c \in CodeIds : AdminInvite(c)
  \/ \E u \in UserIds, role \in Roles : SetRole(u, role)
  \/ \E gone \in SUBSET UserIds : RemoveUsers(gone)
  \/ \E r \in Conns, c \in CodeIds : ClaimTry(r, c)
  \/ \E r \in Conns, k \in Keys : Enroll(r, k)
  \/ \E r \in Conns : ClaimDecoy(r) \/ EnrollRefused(r) \/ EndRun(r)
  \/ Restart
  \/ Tick

Spec == Init /\ [][Next]_vars

\* Every run ends: the PAKE has timeouts of 5 s and 30 s and dropping the task runs
\* InviteRun::drop, so a run in flight is never left alone.
Fairness == \A r \in Conns : WF_vars(EndRun(r))

FairSpec == Spec /\ Fairness

-----------------------------------------------------------------------------
(* Properties. *)

InFlight(c) == {r \in Conns : Claimed(r) /\ runs[r].code = c}

\* Hub.invite_runs counts exactly the claimed runs in flight under each id, through claims,
\* drops and a restart: a leaked count would keep a spent invite forever, a lost one would
\* burn an invite under a run that could still win.
RunsCounted == \A c \in CodeIds : inviteRuns[c] = Cardinality(InFlight(c))

\* An invite whose tries are used up always has a run in flight to burn it: the window
\* between the last claimed try and InviteRun::drop never leaks a dead row.
SpentIsWatched == \A c \in CodeIds : Spent(c) => InFlight(c) # {}

\* No secret is ever run more than INVITE_TRIES times, however claims, drops, restarts and
\* reuse of its id interleave: every claim is paid for in the row before the PAKE begins.
TriesBounded == \A s \in Serials : tried[s] <= InviteTries

\* A run that began within the tries can still win: another run's end never deletes the
\* invite under it ("Only the last run of an invite may burn it").
NoBurnUnderRun ==
  [][\A r \in Conns, q \in Conns :
       /\ r # q /\ EndRun(q)
       /\ Claimed(r)
       /\ Minted(runs[r].code)
       => invites'[runs[r].code] = invites[runs[r].code]]_vars

\* Someone who has never been an admin never has more live invites plus people enrolled
\* within the day than DAILY_INVITES, although an enrollment that began before the
\* invite's expiry may finish after it.
InviteCap ==
  \A u \in UserIds : Exists(u) /\ u \notin wasAdmin => InvitesUsed(u) <= DailyInvites

\* "Each code works once": at most one run that proved a code's secret enrolls someone.
SingleUse == \A s \in Serials : redeemed[s] <= 1

\* A spent invite is eventually gone (its minter can be told and its id drawn again).
SpentEventuallyBurned == \A c \in CodeIds : Spent(c) ~> ~Spent(c)

\* The runs in flight are counted exactly, and a spent invite always has one to burn it
\* (InviteRuns, InviteRun::drop).
RunsWatched == RunsCounted /\ SpentIsWatched

\* A spent invite is burned, in the end and not under a run that may still win (InviteRun::drop,
\* Database::delete_spent_invites).
BurnedInTime == NoBurnUnderRun /\ SpentEventuallyBurned

=============================================================================
