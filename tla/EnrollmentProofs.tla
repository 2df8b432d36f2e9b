-------------------------- MODULE EnrollmentProofs --------------------------
(* What holds of enrollment for any number of connections, ids, invites,   *)
(* accounts, tries and any lifetime.                                       *)
EXTENDS Enrollment, FiniteSetTheorems, TLAPS

USE DEF NoUser, Minted, Exists

(***************************************************************************)
(* What the rows of the tables are made of: facts about records, stated    *)
(* once so that the proofs about actions need not open them.               *)
(***************************************************************************)

\* An invite row built from well-typed columns is a row, and has those columns.
LEMMA InviteRowType ==
  ASSUME NEW s \in Serials, NEW m \in UserIds \cup {NoUser}, NEW e \in Times,
         NEW f \in 0..InviteTries
  PROVE  /\ InviteRow(s, m, e, f) \in InviteRows
         /\ InviteRow(s, m, e, f).row = "invite"
         /\ InviteRow(s, m, e, f).serial = s
         /\ InviteRow(s, m, e, f).failures = f
BY DEF InviteRow, InviteRows

\* What the table holds under an id is no invite exactly when it is Absent.
LEMMA InviteColumns ==
  ASSUME NEW x \in InviteRows \cup {Absent}
  PROVE  /\ x = Absent => x.row # "invite"
         /\ x.row = "invite" => /\ x \in InviteRows
                       /\ x.serial \in Serials
                       /\ x.mintedBy \in UserIds \cup {NoUser}
                       /\ x.expiresAt \in Times
                       /\ x.failures \in 0..InviteTries
BY DEF InviteRows, Absent

\* The same two facts about the table of users.
LEMMA UserRowType ==
  ASSUME NEW k \in Keys, NEW role \in Roles, NEW by \in UserIds \cup {NoUser},
         NEW at \in 0..MaxTime
  PROVE  UserRow(k, role, by, at) \in UserRows
BY DEF UserRow, UserRows

\* What the table holds under a user id is a user's row where it says so.
LEMMA UserColumns ==
  ASSUME NEW x \in UserRows \cup {Gone}
  PROVE  x.row = "user" => /\ x \in UserRows
                    /\ x.key \in Keys /\ x.role \in Roles
                    /\ x.invitedBy \in UserIds \cup {NoUser}
                    /\ x.createdAt \in 0..MaxTime
BY DEF UserRows, Gone

\* A run built from well-typed parts is a run; what a connection is in tells them apart.
LEMMA RunType ==
  ASSUME NEW p \in {"pake", "ended"}, NEW c \in CodeIds, NEW s \in Serials,
         NEW n \in 0..MaxTime
  PROVE  /\ Run(p, c, s, n) \in Runs
         /\ Run(p, c, s, n).phase = p
         /\ Run(p, c, s, n).code = c
         /\ Run(p, c, s, n).serial = s
BY DEF Run, Runs

\* What a connection is in has the columns of a run where it is one.
LEMMA RunColumns ==
  ASSUME NEW x \in Runs \cup {Idle, Decoy}
  PROVE  /\ x = Idle => x.phase = "idle"
         /\ x = Decoy => x.phase = "decoy"
         /\ x.phase \in {"pake", "ended"} => /\ x \in Runs /\ x # Idle /\ x # Decoy
                                            /\ x.code \in CodeIds
                                            /\ x.serial \in Serials
                                            /\ x.now \in 0..MaxTime
BY DEF Runs, Idle, Decoy

-----------------------------------------------------------------------------

\* The type invariant holds in every reachable state.
THEOREM TypeCorrect == Spec => []TypeOK
<1> USE BoundsAssumption, LimitsAssumption
<1>1. Init => TypeOK
  <2> SUFFICES ASSUME Init PROVE TypeOK
    OBVIOUS
  <2>1. PICK role \in Roles :
          /\ users = [u \in UserIds |->
                        IF u = 1 THEN UserRow(FirstKey, role, NoUser, 0) ELSE Gone]
          /\ wasAdmin = IF role = "Admin" THEN {1} ELSE {}
    BY DEF Init
  <2>2. UserRow(FirstKey, role, NoUser, 0) \in UserRows
    BY UserRowType, FirstKeyAssumption
  <2> QED BY <2>1, <2>2 DEF Init, TypeOK, UserIds
<1>2. TypeOK /\ [Next]_vars => TypeOK'
  <2> SUFFICES ASSUME TypeOK, [Next]_vars PROVE TypeOK'
    OBVIOUS
  <2> USE DEF TypeOK
  <2>1. ASSUME NEW c \in CodeIds, NEW m \in UserIds \cup {NoUser}, MintInvite(c, m)
        PROVE TypeOK'
    <3>1. InviteRow(minted + 1, m, clock + InviteLifetime, 0) \in InviteRows
      BY <2>1, InviteRowType DEF MintInvite, Serials, Times
    <3>2. \A d \in CodeIds : PurgeExpired(d) \in InviteRows \cup {Absent}
      BY DEF PurgeExpired
    <3>3. invites' \in [CodeIds -> InviteRows \cup {Absent}]
      BY <2>1, <3>1, <3>2 DEF MintInvite
    <3> QED BY <2>1, <3>3 DEF MintInvite
  <2>2. ASSUME NEW u \in UserIds, NEW role \in Roles, SetRole(u, role) PROVE TypeOK'
    <3>1. WithRole(users[u], role) \in UserRows
      BY <2>2, UserColumns, UserRowType DEF SetRole, WithRole
    <3> QED BY <2>2, <3>1 DEF SetRole
  <2>3. ASSUME NEW gone \in SUBSET UserIds, RemoveUsers(gone) PROVE TypeOK'
    <3>1. \A u \in UserIds : Exists(u) =>
            UserRow(users[u].key, users[u].role, NoUser, users[u].createdAt) \in UserRows
      BY UserColumns, UserRowType
    <3>2. users' \in [UserIds -> UserRows \cup {Gone}]
      BY <2>3, <3>1 DEF RemoveUsers
    <3> QED BY <2>3, <3>2 DEF RemoveUsers
  <2>4. ASSUME NEW r \in Conns, NEW c \in CodeIds, ClaimTry(r, c) PROVE TypeOK'
    <3>0. /\ invites[c].serial \in Serials /\ invites[c].mintedBy \in UserIds \cup {NoUser}
          /\ invites[c].expiresAt \in Times /\ invites[c].failures \in 0..InviteTries
          /\ invites[c].failures < InviteTries
      BY <2>4, InviteColumns DEF ClaimTry, Claimable
    <3>1. ConsumeInviteTry(invites[c]) \in InviteRows
      <4>1. invites[c].failures + 1 \in 0..InviteTries
        BY <3>0
      <4> QED BY <3>0, <4>1, InviteRowType DEF ConsumeInviteTry
    <3>2. Run("pake", c, invites[c].serial, clock) \in Runs
      BY <3>0, RunType
    <3> QED BY <2>4, <3>0, <3>1, <3>2 DEF ClaimTry
  <2>5. ASSUME NEW r \in Conns, NEW k \in Keys, Enroll(r, k) PROVE TypeOK'
    <3>1. /\ runs[r].code \in CodeIds /\ runs[r].serial \in Serials
          /\ runs[r].now \in 0..MaxTime
      BY <2>5, RunColumns DEF Enroll
    <3>2. invites[runs[r].code].mintedBy \in UserIds \cup {NoUser}
      BY <2>5, <3>1, InviteColumns DEF Enroll, Redeemable
    <3>3. Run("ended", runs[r].code, runs[r].serial, runs[r].now) \in Runs
      BY <3>1, RunType
    <3>4. invites' \in [CodeIds -> InviteRows \cup {Absent}]
      BY <2>5 DEF Enroll, DeleteInvite
    <3> DEFINE role == IF invites[runs[r].code].mintedBy = NoUser THEN "Admin" ELSE "User"
    <3>5. role \in Roles
      BY DEF Roles
    <3>6. UserRow(k, role, invites[runs[r].code].mintedBy, runs[r].now) \in UserRows
      BY <3>1, <3>2, <3>5, UserRowType
    <3>7. \A u \in HolderOf(k) : u \in UserIds /\ WithRole(users[u], role) \in UserRows
      BY <3>5, UserColumns, UserRowType DEF HolderOf, WithRole
    <3> HIDE DEF role
    <3>8. /\ users' \in [UserIds -> UserRows \cup {Gone}]
          /\ nextUser' \in 1..(MaxUserId + 1)
          /\ wasAdmin' \subseteq UserIds
      <4>1. \/ /\ users' = [u \in UserIds |-> IF u \in HolderOf(k) /\ role = "Admin"
                              THEN WithRole(users[u], role) ELSE users[u]]
               /\ wasAdmin' = IF role = "Admin" THEN wasAdmin \cup HolderOf(k) ELSE wasAdmin
               /\ nextUser' = nextUser
            \/ /\ nextUser <= MaxUserId
               /\ users' = [users EXCEPT ![nextUser] =
                     UserRow(k, role, invites[runs[r].code].mintedBy, runs[r].now)]
               /\ wasAdmin' = IF role = "Admin" THEN wasAdmin \cup {nextUser} ELSE wasAdmin
               /\ nextUser' = nextUser + 1
        BY <2>5 DEF Enroll, role
      <4>2. nextUser <= MaxUserId => nextUser \in UserIds
        BY DEF UserIds
      <4>3. users' \in [UserIds -> UserRows \cup {Gone}]
        BY <4>1, <4>2, <3>6, <3>7
      <4>4. wasAdmin' \subseteq UserIds
        BY <4>1, <4>2, <3>7
      <4> QED BY <4>1, <4>3, <4>4
    <3> QED BY <2>5, <3>1, <3>3, <3>4, <3>8 DEF Enroll
  <2>6. ASSUME NEW r \in Conns, ClaimDecoy(r) PROVE TypeOK'
    BY <2>6 DEF ClaimDecoy, dbVars
  <2>7. ASSUME NEW r \in Conns, EnrollRefused(r) PROVE TypeOK'
    <3>1. Run("ended", runs[r].code, runs[r].serial, runs[r].now) \in Runs
      BY <2>7, RunColumns, RunType DEF EnrollRefused
    <3> QED BY <2>7, <3>1 DEF EnrollRefused, dbVars
  <2>8. ASSUME NEW r \in Conns, EndRun(r) PROVE TypeOK'
    BY <2>8 DEF EndRun, DeleteInvite, FinishRun
  <2>9. CASE Restart
    BY <2>9 DEF Restart
  <2>10. CASE Tick
    BY <2>10 DEF Tick, dbVars
  <2>11. CASE UNCHANGED vars
    BY <2>11 DEF vars, dbVars
  <2> QED
    BY <2>1, <2>2, <2>3, <2>4, <2>5, <2>6, <2>7, <2>8, <2>9, <2>10, <2>11
       DEF Next, CreateInvite, AdminInvite
<1> QED BY <1>1, <1>2, PTL DEF Spec
-----------------------------------------------------------------------------
(* The invite table moves in few ways: an action leaves a row as it is,    *)
(* deletes it, or is the mint or the claim of that very id.                *)

\* Every step but a mint and a claim keeps each row or deletes it.
LEMMA RowsKeptOrDeleted ==
  ASSUME TypeOK,
         \/ \E u \in UserIds, role \in Roles : SetRole(u, role)
         \/ \E gone \in SUBSET UserIds : RemoveUsers(gone)
         \/ \E r \in Conns, k \in Keys : Enroll(r, k)
         \/ \E r \in Conns : ClaimDecoy(r) \/ EnrollRefused(r) \/ EndRun(r)
         \/ Restart \/ Tick \/ UNCHANGED vars
  PROVE  /\ \A c \in CodeIds : invites'[c] = invites[c] \/ invites'[c] = Absent
         /\ tried' = tried /\ minted' = minted
<1> USE DEF TypeOK
<1>1. ASSUME NEW u \in UserIds, NEW role \in Roles, SetRole(u, role)
      PROVE invites' = invites /\ tried' = tried /\ minted' = minted
  BY <1>1 DEF SetRole
<1>2. ASSUME NEW gone \in SUBSET UserIds, RemoveUsers(gone)
      PROVE /\ \A c \in CodeIds : invites'[c] = invites[c] \/ invites'[c] = Absent
            /\ tried' = tried /\ minted' = minted
  BY <1>2 DEF RemoveUsers
<1>3. ASSUME NEW r \in Conns, NEW k \in Keys, Enroll(r, k)
      PROVE /\ \A c \in CodeIds : invites'[c] = invites[c] \/ invites'[c] = Absent
            /\ tried' = tried /\ minted' = minted
  <2>1. invites' = DeleteInvite(runs[r].code) /\ tried' = tried /\ minted' = minted
    BY <1>3 DEF Enroll
  <2> QED BY <2>1 DEF DeleteInvite
<1>4. ASSUME NEW r \in Conns, ClaimDecoy(r) \/ EnrollRefused(r)
      PROVE invites' = invites /\ tried' = tried /\ minted' = minted
  BY <1>4 DEF ClaimDecoy, EnrollRefused, dbVars
<1>5. ASSUME NEW r \in Conns, EndRun(r)
      PROVE /\ \A c \in CodeIds : invites'[c] = invites[c] \/ invites'[c] = Absent
            /\ tried' = tried /\ minted' = minted
  BY <1>5 DEF EndRun, DeleteInvite
<1>6. CASE Restart
  BY <1>6 DEF Restart
<1>7. CASE Tick \/ UNCHANGED vars
  BY <1>7 DEF Tick, vars, dbVars
<1> QED BY <1>1, <1>2, <1>3, <1>4, <1>5, <1>6, <1>7

-----------------------------------------------------------------------------
(* No secret is run more than INVITE_TRIES times.                          *)

\* What TriesBounded needs to be inductive: the tries of a secret whose row is there are
\* in its row, no two rows share a secret, and a secret not yet drawn has none.
TriesPaid ==
  /\ \A c \in CodeIds : Minted(c) => /\ invites[c].serial <= minted
                                     /\ tried[invites[c].serial] = invites[c].failures
  /\ \A c, d \in CodeIds :
       Minted(c) /\ Minted(d) /\ invites[c].serial = invites[d].serial => c = d
  /\ \A s \in Serials : s > minted => tried[s] = 0
  /\ TriesBounded

\* No secret is ever put through more PAKE runs than INVITE_TRIES, for any number of
\* connections, with ids reused and the server restarted at will.
THEOREM TriesAreBounded == Spec => []TriesBounded
<1> USE BoundsAssumption, LimitsAssumption
<1>1. Init => TriesPaid
  BY DEF Init, TriesPaid, TriesBounded, Absent
<1>2. TypeOK /\ TypeOK' /\ TriesPaid /\ [Next]_vars => TriesPaid'
  <2> SUFFICES ASSUME TypeOK, TypeOK', TriesPaid, [Next]_vars PROVE TriesPaid'
    OBVIOUS
  <2>0. /\ \A c \in CodeIds : Minted(c) => invites[c].serial \in Serials
        /\ minted \in 0..MaxSerial /\ tried \in [Serials -> Nat]
    BY InviteColumns DEF TypeOK
  <2>1. ASSUME NEW c \in CodeIds, NEW m \in UserIds \cup {NoUser}, MintInvite(c, m)
        PROVE TriesPaid'
    <3>1. /\ minted + 1 \in Serials /\ minted' = minted + 1 /\ tried' = tried
          /\ clock + InviteLifetime \in Times
      BY <2>1 DEF MintInvite, TypeOK, Serials, Times
    <3>2. /\ Minted(c)' /\ invites'[c].serial = minted + 1 /\ invites'[c].failures = 0
      <4>1. invites'[c] = InviteRow(minted + 1, m, clock + InviteLifetime, 0)
        BY <2>1 DEF MintInvite
      <4> QED BY <3>1, <4>1, InviteRowType
    <3>3. \A d \in CodeIds : d # c /\ Minted(d)' => Minted(d) /\ invites'[d] = invites[d]
      BY <2>1, InviteColumns DEF MintInvite, PurgeExpired, TypeOK, Absent
    <3> HIDE DEF Minted
    <3>4. \A d \in CodeIds : Minted(d)' => /\ invites'[d].serial <= minted'
                                          /\ tried'[invites'[d].serial] = invites'[d].failures
      BY <2>0, <3>1, <3>2, <3>3 DEF TriesPaid, Serials
    <3>5. \A d, e \in CodeIds :
            Minted(d)' /\ Minted(e)' /\ invites'[d].serial = invites'[e].serial => d = e
      BY SMTT(40), <2>0, <3>1, <3>2, <3>3 DEF TriesPaid, Serials
    <3> QED BY <2>0, <3>1, <3>4, <3>5 DEF TriesPaid, TriesBounded, Serials
  <2>2. ASSUME NEW r \in Conns, NEW c \in CodeIds, ClaimTry(r, c) PROVE TriesPaid'
    <3>1. /\ Minted(c) /\ invites[c] \in InviteRows /\ invites[c].failures < InviteTries
          /\ invites[c].failures + 1 \in 0..InviteTries
          /\ invites[c].mintedBy \in UserIds \cup {NoUser} /\ invites[c].expiresAt \in Times
      BY <2>2, InviteColumns DEF ClaimTry, Claimable, TypeOK
    <3>2. /\ Minted(c)' /\ invites'[c].serial = invites[c].serial
          /\ invites'[c].failures = invites[c].failures + 1
      <4>1. invites'[c] = InviteRow(invites[c].serial, invites[c].mintedBy,
                                    invites[c].expiresAt, invites[c].failures + 1)
        BY <2>2 DEF ClaimTry, ConsumeInviteTry, TypeOK
      <4> DEFINE row(n) == InviteRow(invites[c].serial, invites[c].mintedBy,
                                     invites[c].expiresAt, n)
      <4>3. \A n \in 0..InviteTries : /\ row(n).row = "invite"
                                      /\ row(n).serial = invites[c].serial
                                      /\ row(n).failures = n
        BY DEF InviteRow
      <4> QED BY <3>1, <4>1, <4>3
    <3>3. /\ \A d \in CodeIds : d # c => invites'[d] = invites[d]
          /\ tried' = [tried EXCEPT ![invites[c].serial] = @ + 1]
          /\ minted' = minted
      BY <2>2 DEF ClaimTry, TypeOK
    <3>4. \A d \in CodeIds : (Minted(d)' <=> Minted(d)) /\ invites'[d].serial = invites[d].serial
      BY <3>1, <3>2, <3>3
    <3> HIDE DEF Minted
    <3>5. \A d \in CodeIds : Minted(d)' => /\ invites'[d].serial <= minted'
                                          /\ tried'[invites'[d].serial] = invites'[d].failures
      BY <2>0, <3>1, <3>2, <3>3, <3>4 DEF TriesPaid
    <3>6. tried'[invites[c].serial] <= InviteTries
      BY <2>0, <3>1, <3>3 DEF TriesPaid
    <3>7. \A d, e \in CodeIds :
            Minted(d)' /\ Minted(e)' /\ invites'[d].serial = invites'[e].serial => d = e
      BY <3>4 DEF TriesPaid
    <3>8. \A s \in Serials : s # invites[c].serial => tried'[s] = tried[s]
      BY <2>0, <3>3
    <3>9. \A s \in Serials : s > minted' => tried'[s] = 0
      BY <2>0, <3>1, <3>3, <3>8 DEF TriesPaid, Serials
    <3>10. TriesBounded'
      BY <2>0, <3>6, <3>8 DEF TriesPaid, TriesBounded
    <3> QED BY <3>5, <3>7, <3>9, <3>10 DEF TriesPaid
  <2>3. ASSUME \A c \in CodeIds : invites'[c] = invites[c] \/ invites'[c] = Absent,
               tried' = tried, minted' = minted
        PROVE TriesPaid'
    <3>1. \A c \in CodeIds : Minted(c)' => Minted(c) /\ invites'[c] = invites[c]
      BY <2>3 DEF Absent
    <3> QED BY <2>3, <3>1 DEF TriesPaid, TriesBounded
  <2>4. CASE \/ \E u \in UserIds, role \in Roles : SetRole(u, role)
             \/ \E gone \in SUBSET UserIds : RemoveUsers(gone)
             \/ \E r \in Conns, k \in Keys : Enroll(r, k)
             \/ \E r \in Conns : ClaimDecoy(r) \/ EnrollRefused(r) \/ EndRun(r)
             \/ Restart \/ Tick \/ UNCHANGED vars
    <3>1. /\ \A c \in CodeIds : invites'[c] = invites[c] \/ invites'[c] = Absent
          /\ tried' = tried /\ minted' = minted
      BY <2>4, RowsKeptOrDeleted
    <3> QED BY <3>1, <2>3
  <2> QED
    BY <2>1, <2>2, <2>4 DEF Next, CreateInvite, AdminInvite
<1>3. TriesPaid => TriesBounded
  BY DEF TriesPaid
<1> QED BY <1>1, <1>2, <1>3, TypeCorrect, PTL DEF Spec

-----------------------------------------------------------------------------
(* The count of runs in flight is exact, and a spent invite has a run.     *)

\* The runs in flight under an id are finitely many.
LEMMA InFlightFinite == ASSUME NEW c PROVE IsFiniteSet(InFlight(c))
BY ConnsFinite, FS_Subset DEF InFlight

\* A claim adds its run to those of its id and leaves the other ids' alone.
LEMMA ClaimInFlight ==
  ASSUME TypeOK, NEW r \in Conns, NEW c \in CodeIds, ClaimTry(r, c)
  PROVE  /\ r \notin InFlight(c)
         /\ InFlight(c)' = InFlight(c) \cup {r}
         /\ \A d \in CodeIds \ {c} : InFlight(d)' = InFlight(d)
<1>1. runs[r].phase = "idle"
  BY DEF ClaimTry, Idle
<1>2. runs' = [runs EXCEPT ![r] = Run("pake", c, invites[c].serial, clock)]
  BY DEF ClaimTry
<1>3. /\ Run("pake", c, invites[c].serial, clock).phase = "pake"
      /\ Run("pake", c, invites[c].serial, clock).code = c
  BY DEF Run
<1>4. /\ runs'[r].phase = "pake" /\ runs'[r].code = c
      /\ \A q \in Conns \ {r} : runs'[q] = runs[q]
  BY <1>2, <1>3 DEF TypeOK
<1> QED BY <1>1, <1>4 DEF InFlight, Claimed

\* The end of a claimed run takes it out of those of its id.
LEMMA EndInFlight ==
  ASSUME TypeOK, NEW r \in Conns, EndRun(r), Claimed(r), NEW c \in CodeIds, runs[r].code = c
  PROVE  /\ r \in InFlight(c)
         /\ InFlight(c)' = InFlight(c) \ {r}
         /\ \A d \in CodeIds \ {c} : InFlight(d)' = InFlight(d)
<1>1. /\ runs'[r].phase = "idle"
      /\ \A q \in Conns \ {r} : runs'[q] = runs[q]
  BY DEF EndRun, TypeOK, Idle
<1> QED BY <1>1 DEF InFlight, Claimed

\* A run that goes from "pake" to "ended" is still in flight, and a decoy never was.
LEMMA StaysInFlight ==
  ASSUME TypeOK, NEW r \in Conns,
         \/ ClaimDecoy(r) \/ EnrollRefused(r) \/ \E k \in Keys : Enroll(r, k)
         \/ EndRun(r) /\ runs[r] = Decoy
  PROVE  \A d \in CodeIds : InFlight(d)' = InFlight(d)
<1>1. CASE ClaimDecoy(r)
  <2>1. /\ runs[r].phase = "idle" /\ runs'[r].phase = "decoy"
        /\ \A q \in Conns \ {r} : runs'[q] = runs[q]
    BY <1>1 DEF ClaimDecoy, TypeOK, Idle, Decoy
  <2> QED BY <2>1 DEF InFlight, Claimed
<1>2. CASE EnrollRefused(r) \/ \E k \in Keys : Enroll(r, k)
  <2>1. /\ runs[r].phase = "pake"
        /\ runs' = [runs EXCEPT ![r] = Run("ended", runs[r].code, runs[r].serial, runs[r].now)]
    BY <1>2 DEF EnrollRefused, Enroll, TypeOK
  <2>2. /\ Run("ended", runs[r].code, runs[r].serial, runs[r].now).phase = "ended"
        /\ Run("ended", runs[r].code, runs[r].serial, runs[r].now).code = runs[r].code
    BY DEF Run
  <2>3. /\ runs'[r].phase = "ended" /\ runs'[r].code = runs[r].code
        /\ \A q \in Conns \ {r} : runs'[q] = runs[q]
    BY <2>1, <2>2 DEF TypeOK
  <2> QED BY <2>1, <2>3 DEF InFlight, Claimed
<1>3. CASE EndRun(r) /\ runs[r] = Decoy
  <2>1. /\ runs[r].phase = "decoy" /\ runs'[r].phase = "idle"
        /\ \A q \in Conns \ {r} : runs'[q] = runs[q]
    BY <1>3 DEF EndRun, TypeOK, Idle, Decoy
  <2> QED BY <2>1 DEF InFlight, Claimed
<1> QED BY <1>1, <1>2, <1>3

\* Hub.invite_runs is exactly the number of runs in flight under each id, and an invite that
\* has used up its tries always has one of them left to burn it.
THEOREM RunsAreCounted == Spec => []RunsWatched
<1> USE BoundsAssumption, LimitsAssumption
<1>1. Init => RunsCounted /\ SpentIsWatched
  <2> SUFFICES ASSUME Init PROVE RunsCounted /\ SpentIsWatched
    OBVIOUS
  <2>1. \A r \in Conns : runs[r].phase = "idle"
    BY DEF Init, Idle
  <2>2. \A c \in CodeIds : InFlight(c) = {} /\ inviteRuns[c] = 0 /\ ~Minted(c)
    BY <2>1 DEF Init, InFlight, Claimed, Absent
  <2> QED BY <2>2, FS_EmptySet DEF RunsCounted, SpentIsWatched, Spent
<1>2. TypeOK /\ RunsCounted /\ SpentIsWatched /\ [Next]_vars
        => (RunsCounted /\ SpentIsWatched)'
  <2> SUFFICES ASSUME TypeOK, RunsCounted, SpentIsWatched, [Next]_vars
               PROVE RunsCounted' /\ SpentIsWatched'
    OBVIOUS
  <2>0. ASSUME inviteRuns' = inviteRuns, \A c \in CodeIds : InFlight(c)' = InFlight(c),
               \A c \in CodeIds : Spent(c)' => Spent(c)
        PROVE RunsCounted' /\ SpentIsWatched'
    BY <2>0 DEF RunsCounted, SpentIsWatched
  <2>1. ASSUME \A c \in CodeIds : invites'[c] = invites[c] \/ invites'[c] = Absent
        PROVE \A c \in CodeIds : Spent(c)' => Spent(c)
    BY <2>1 DEF Spent, Absent
  <2>2. ASSUME NEW c \in CodeIds, NEW m \in UserIds \cup {NoUser}, MintInvite(c, m)
        PROVE RunsCounted' /\ SpentIsWatched'
    <3>1. runs' = runs /\ inviteRuns' = inviteRuns
      BY <2>2 DEF MintInvite
    <3>2. ~Spent(c)'
      <4>1. invites'[c] = InviteRow(minted + 1, m, clock + InviteLifetime, 0)
        BY <2>2 DEF MintInvite
      <4>2. InviteRow(minted + 1, m, clock + InviteLifetime, 0).failures = 0
        BY DEF InviteRow
      <4> QED BY <4>1, <4>2 DEF Spent
    <3>3. \A d \in CodeIds \ {c} : invites'[d] = invites[d] \/ invites'[d] = Absent
      BY <2>2 DEF MintInvite, PurgeExpired
    <3>4. \A d \in CodeIds : Spent(d)' => Spent(d)
      BY <3>2, <3>3 DEF Spent, Absent
    <3>5. \A d \in CodeIds : InFlight(d)' = InFlight(d)
      BY <3>1 DEF InFlight, Claimed
    <3> QED BY <2>0, <3>1, <3>4, <3>5
  <2>3. ASSUME NEW r \in Conns, NEW c \in CodeIds, ClaimTry(r, c)
        PROVE RunsCounted' /\ SpentIsWatched'
    <3>1. /\ r \notin InFlight(c)
          /\ InFlight(c)' = InFlight(c) \cup {r}
          /\ \A d \in CodeIds \ {c} : InFlight(d)' = InFlight(d)
      BY <2>3, ClaimInFlight
    <3>2. Cardinality(InFlight(c) \cup {r}) = Cardinality(InFlight(c)) + 1
      BY <3>1, InFlightFinite, FS_AddElement
    <3>3. /\ inviteRuns' = [inviteRuns EXCEPT ![c] = @ + 1]
          /\ \A d \in CodeIds \ {c} : invites'[d] = invites[d]
      BY <2>3 DEF ClaimTry, TypeOK
    <3>4. RunsCounted'
      BY <3>1, <3>2, <3>3 DEF RunsCounted, TypeOK
    <3>5. SpentIsWatched'
      BY <3>1, <3>3 DEF SpentIsWatched, Spent
    <3> QED BY <3>4, <3>5
  <2>4. ASSUME NEW r \in Conns, EndRun(r), Claimed(r)
        PROVE RunsCounted' /\ SpentIsWatched'
    <3>0. PICK c \in CodeIds : runs[r].code = c
      BY <2>4, RunColumns DEF TypeOK, Claimed
    <3>1. /\ r \in InFlight(c)
          /\ InFlight(c)' = InFlight(c) \ {r}
          /\ \A d \in CodeIds \ {c} : InFlight(d)' = InFlight(d)
      BY <2>4, <3>0, EndInFlight
    <3>2. Cardinality(InFlight(c) \ {r}) = Cardinality(InFlight(c)) - 1
      BY <3>1, InFlightFinite, FS_RemoveElement
    <3>3. runs[r] # Decoy
      BY <2>4, RunColumns DEF Claimed, TypeOK
    <3>4. /\ inviteRuns' = [inviteRuns EXCEPT ![c] = FinishRun(inviteRuns[c])]
          /\ invites' = IF LastRun(c) /\ Spent(c) THEN DeleteInvite(c) ELSE invites
      BY <2>4, <3>0, <3>3 DEF EndRun
    <3>5. inviteRuns[c] = Cardinality(InFlight(c)) /\ inviteRuns[c] \in Nat
      BY <3>1 DEF RunsCounted, TypeOK
    <3>6. Cardinality(InFlight(c)) # 0
      BY <3>1, InFlightFinite, FS_EmptySet
    <3>7. RunsCounted'
      <4>1. inviteRuns'[c] = inviteRuns[c] - 1
        BY <3>4, <3>5, <3>6 DEF FinishRun, TypeOK
      <4>2. \A d \in CodeIds \ {c} : inviteRuns'[d] = inviteRuns[d]
        BY <3>4 DEF TypeOK
      <4> QED BY <4>1, <4>2, <3>1, <3>2, <3>5 DEF RunsCounted
    <3>8. Spent(c)' => Spent(c) /\ inviteRuns[c] > 1
      <4>1. CASE LastRun(c) /\ Spent(c)
        <5>1. invites'[c] = Absent
          BY <3>4, <4>1 DEF DeleteInvite, TypeOK
        <5> QED BY <5>1 DEF Spent, Absent
      <4>2. CASE ~(LastRun(c) /\ Spent(c))
        <5>1. invites'[c] = invites[c]
          BY <3>4, <4>2
        <5>2. Spent(c)' <=> Spent(c)
          BY <5>1 DEF Spent
        <5> QED BY <4>2, <5>2, <3>5 DEF LastRun
      <4> QED BY <4>1, <4>2
    <3>9. Spent(c)' => InFlight(c) \ {r} # {}
      <4>1. inviteRuns[c] > 1 => Cardinality(InFlight(c) \ {r}) # 0
        BY <3>2, <3>5
      <4>2. InFlight(c) \ {r} = {} => Cardinality(InFlight(c) \ {r}) = 0
        BY FS_EmptySet
      <4> QED BY <3>8, <4>1, <4>2
    <3>10. \A d \in CodeIds \ {c} : Spent(d)' => Spent(d)
      BY <3>4 DEF Spent, DeleteInvite, TypeOK
    <3>11. SpentIsWatched'
      BY <3>1, <3>9, <3>10 DEF SpentIsWatched
    <3> QED BY <3>7, <3>11
  <2>5. ASSUME NEW r \in Conns,
               \/ ClaimDecoy(r) \/ EnrollRefused(r) \/ \E k \in Keys : Enroll(r, k)
               \/ EndRun(r) /\ runs[r] = Decoy
        PROVE RunsCounted' /\ SpentIsWatched'
    <3>1. \A d \in CodeIds : InFlight(d)' = InFlight(d)
      BY <2>5, StaysInFlight
    <3>2. \A d \in CodeIds : Spent(d)' => Spent(d)
      BY <2>5, <2>1, RowsKeptOrDeleted
    <3>3. inviteRuns' = inviteRuns
      <4>1. runs[r] = Decoy => ~Claimed(r)
        BY DEF Decoy, Claimed
      <4> QED BY <2>5, <4>1 DEF ClaimDecoy, EnrollRefused, Enroll, EndRun
    <3> QED BY <2>0, <3>1, <3>2, <3>3
  <2>6. CASE \/ \E u \in UserIds, role \in Roles : SetRole(u, role)
             \/ \E gone \in SUBSET UserIds : RemoveUsers(gone)
             \/ Tick \/ UNCHANGED vars
    <3>1. runs' = runs /\ inviteRuns' = inviteRuns
      BY <2>6 DEF SetRole, RemoveUsers, Tick, vars
    <3>2. \A d \in CodeIds : InFlight(d)' = InFlight(d)
      BY <3>1 DEF InFlight, Claimed
    <3>3. \A d \in CodeIds : Spent(d)' => Spent(d)
      BY <2>6, <2>1, RowsKeptOrDeleted
    <3> QED BY <2>0, <3>1, <3>2, <3>3
  <2>7. CASE Restart
    <3>1. \A r \in Conns : runs'[r].phase = "idle"
      BY <2>7 DEF Restart, Idle
    <3>2. \A c \in CodeIds : InFlight(c)' = {} /\ inviteRuns'[c] = 0
      BY <2>7, <3>1 DEF Restart, InFlight, Claimed
    <3>3. \A c \in CodeIds : ~Spent(c)'
      BY <2>7 DEF Restart, Spent, Absent
    <3> QED BY <3>2, <3>3, FS_EmptySet DEF RunsCounted, SpentIsWatched
  <2>8. \A r \in Conns : EndRun(r) => runs[r] = Decoy \/ Claimed(r)
    BY DEF EndRun
  <2> QED
    BY <2>2, <2>3, <2>4, <2>5, <2>6, <2>7, <2>8 DEF Next, CreateInvite, AdminInvite
<1>3. RunsCounted /\ SpentIsWatched => RunsWatched
  BY DEF RunsWatched
<1> QED BY <1>1, <1>2, <1>3, TypeCorrect, PTL DEF Spec

\* Two runs in flight under an id are counted as two.
LEMMA TwoInFlight ==
  ASSUME TypeOK, RunsCounted, NEW r \in Conns, NEW q \in Conns, r # q, Claimed(r), Claimed(q),
         NEW c \in CodeIds, runs[r].code = c, runs[q].code = c
  PROVE  ~LastRun(c)
<1>1. r \in InFlight(c) /\ q \in InFlight(c)
  BY DEF InFlight
<1>2. PICK F : F = InFlight(c)
  OBVIOUS
<1>3. IsFiniteSet(F) /\ r \in F /\ q \in F \ {r}
  BY <1>1, <1>2, InFlightFinite
<1>4. IsFiniteSet(F \ {r}) /\ Cardinality(F \ {r}) = Cardinality(F) - 1
  BY <1>3, FS_RemoveElement
<1>5. Cardinality(F) \in Nat /\ Cardinality(F \ {r}) \in Nat /\ Cardinality(F \ {r}) # 0
  BY <1>3, <1>4, FS_CardinalityType, FS_EmptySet
<1>6. inviteRuns[c] = Cardinality(F)
  BY <1>2 DEF RunsCounted
<1> QED BY <1>4, <1>5, <1>6 DEF LastRun

\* The end of a run never deletes the invite that another run in flight may still win: only the
\* last run of an invite burns it (InviteRuns::finish, InviteRun::drop).
THEOREM NeverBurnedUnderRun == Spec => NoBurnUnderRun
<1>1. ASSUME TypeOK, RunsCounted, NEW r \in Conns, NEW q \in Conns, r # q, EndRun(q), Claimed(r)
      PROVE  invites'[runs[r].code] = invites[runs[r].code]
  <2>1. runs[r].code \in CodeIds /\ (Claimed(q) => runs[q].code \in CodeIds)
    BY <1>1, RunColumns DEF TypeOK, Claimed
  <2>2. CASE runs[q] = Decoy
    <3>1. ~Claimed(q)
      BY <2>2 DEF Decoy, Claimed
    <3> QED BY <1>1, <3>1 DEF EndRun
  <2>3. CASE Claimed(q) /\ runs[q].code = runs[r].code
    <3>1. ~LastRun(runs[q].code)
      BY <1>1, <2>1, <2>3, TwoInFlight
    <3>2. runs[q] # Decoy
      BY <2>3 DEF Decoy, Claimed
    <3> QED BY <1>1, <3>1, <3>2 DEF EndRun
  <2>4. CASE Claimed(q) /\ runs[q].code # runs[r].code
    <3>1. invites' = invites \/ invites' = [invites EXCEPT ![runs[q].code] = Absent]
      BY <1>1 DEF EndRun, DeleteInvite
    <3> QED BY <1>1, <2>1, <2>4, <3>1 DEF TypeOK
  <2> QED BY <1>1, <2>2, <2>3, <2>4 DEF EndRun
<1>2. TypeOK /\ RunsWatched /\ [Next]_vars =>
        [\A r \in Conns, q \in Conns :
           /\ r # q /\ EndRun(q)
           /\ Claimed(r)
           /\ Minted(runs[r].code)
           => invites'[runs[r].code] = invites[runs[r].code]]_vars
  BY <1>1 DEF RunsWatched
<1> QED BY <1>2, TypeCorrect, RunsAreCounted, PTL DEF Spec, NoBurnUnderRun

-----------------------------------------------------------------------------
(* As long as no id is drawn twice, each code works once.                  *)

\* What SingleUse needs to be inductive: an id then names one secret for good, in the table
\* and in every run, and a secret that was redeemed has lost its row.
OneSecretPerId ==
  /\ \A c \in CodeIds : Minted(c) => invites[c].serial = c /\ c <= minted
  /\ \A r \in Conns : Claimed(r) => runs[r].serial = runs[r].code
  /\ \A s \in Serials : redeemed[s] > 0 => s <= minted /\ ~Minted(s)
  /\ SingleUse

\* Each code enrolls at most one person, whatever runs race for it, provided ids are not
\* drawn again while a run of the old code may be in flight.
THEOREM CodesWorkOnce == ~IdReuse => (Spec => []SingleUse)
<1> USE BoundsAssumption, LimitsAssumption
<1> SUFFICES ASSUME ~IdReuse PROVE Spec => []SingleUse
  OBVIOUS
<1>0. Serials \subseteq CodeIds
  BY DEF Serials, CodeIds
<1>1. Init => OneSecretPerId
  <2> SUFFICES ASSUME Init PROVE OneSecretPerId
    OBVIOUS
  <2>1. \A c \in CodeIds : ~Minted(c)
    BY DEF Init, Absent
  <2>2. \A r \in Conns : ~Claimed(r)
    BY DEF Init, Claimed, Idle
  <2>3. \A s \in Serials : redeemed[s] = 0
    BY DEF Init
  <2> QED BY <2>1, <2>2, <2>3 DEF OneSecretPerId, SingleUse
<1>2. TypeOK /\ OneSecretPerId /\ [Next]_vars => OneSecretPerId'
  <2> SUFFICES ASSUME TypeOK, OneSecretPerId, [Next]_vars PROVE OneSecretPerId'
    OBVIOUS
  <2>0. minted \in 0..MaxSerial /\ redeemed \in [Serials -> Nat]
    BY DEF TypeOK
  <2>1. ASSUME \A c \in CodeIds : invites'[c] = invites[c] \/ invites'[c] = Absent,
               minted' = minted
        PROVE \A c \in CodeIds : Minted(c)' => Minted(c) /\ invites'[c] = invites[c]
    BY <2>1 DEF Absent
  <2>2. ASSUME NEW c \in CodeIds, NEW m \in UserIds \cup {NoUser}, MintInvite(c, m)
        PROVE OneSecretPerId'
    <3>1. c = minted + 1 /\ minted' = minted + 1 /\ runs' = runs /\ redeemed' = redeemed
      BY <2>2 DEF MintInvite, DrawableId
    <3>2. Minted(c)' /\ invites'[c].serial = c
      <4>1. invites'[c] = InviteRow(minted + 1, m, clock + InviteLifetime, 0)
        BY <2>2 DEF MintInvite
      <4>2. /\ InviteRow(minted + 1, m, clock + InviteLifetime, 0).row = "invite"
            /\ InviteRow(minted + 1, m, clock + InviteLifetime, 0).serial = minted + 1
        BY DEF InviteRow
      <4> QED BY <3>1, <4>1, <4>2
    <3>3. \A d \in CodeIds \ {c} : Minted(d)' => Minted(d) /\ invites'[d] = invites[d]
      BY <2>2 DEF MintInvite, PurgeExpired, Absent
    <3> HIDE DEF Minted
    <3>4. \A d \in CodeIds : Minted(d)' => invites'[d].serial = d /\ d <= minted'
      BY <2>0, <3>1, <3>2, <3>3 DEF OneSecretPerId, CodeIds
    <3>5. \A r \in Conns : Claimed(r)' => runs'[r].serial = runs'[r].code
      BY <3>1 DEF OneSecretPerId, Claimed
    <3>6. \A s \in Serials : redeemed'[s] > 0 => s <= minted' /\ ~Minted(s)'
      BY <1>0, <2>0, <3>1, <3>3 DEF OneSecretPerId, Serials
    <3> QED BY <3>1, <3>4, <3>5, <3>6 DEF OneSecretPerId, SingleUse
  <2>3. ASSUME NEW r \in Conns, NEW c \in CodeIds, ClaimTry(r, c) PROVE OneSecretPerId'
    <3>1. Minted(c) /\ minted' = minted /\ redeemed' = redeemed
      BY <2>3 DEF ClaimTry, Claimable
    <3>2. \A d \in CodeIds : (Minted(d)' <=> Minted(d)) /\ invites'[d].serial = invites[d].serial
      <4>1. /\ invites'[c] = InviteRow(invites[c].serial, invites[c].mintedBy,
                                       invites[c].expiresAt, invites[c].failures + 1)
            /\ \A d \in CodeIds \ {c} : invites'[d] = invites[d]
        BY <2>3 DEF ClaimTry, ConsumeInviteTry, TypeOK
      <4>2. invites'[c].row = "invite" /\ invites'[c].serial = invites[c].serial
        BY <4>1 DEF InviteRow
      <4> QED BY <3>1, <4>1, <4>2
    <3>3. \A q \in Conns : Claimed(q)' => runs'[q].serial = runs'[q].code
      <4>1. /\ runs'[r] = Run("pake", c, invites[c].serial, clock)
            /\ \A q \in Conns \ {r} : runs'[q] = runs[q]
        BY <2>3 DEF ClaimTry, TypeOK
      <4>2. runs'[r].serial = invites[c].serial /\ runs'[r].code = c
        BY <4>1 DEF Run
      <4> QED BY <3>1, <4>1, <4>2 DEF OneSecretPerId, Claimed
    <3> HIDE DEF Minted
    <3> QED BY <1>0, <3>1, <3>2, <3>3 DEF OneSecretPerId, SingleUse
  <2>4. ASSUME NEW r \in Conns, NEW k \in Keys, Enroll(r, k) PROVE OneSecretPerId'
    <3>0. PICK c \in CodeIds : runs[r].code = c
      BY <2>4, RunColumns DEF Enroll, TypeOK
    <3>1. Claimed(r) /\ runs[r].serial = c /\ c \in Serials /\ Minted(c)
      BY <2>4, <3>0, RunColumns DEF Enroll, Redeemable, Claimed, OneSecretPerId, TypeOK
    <3>2. /\ invites'[c] = Absent /\ minted' = minted
          /\ \A d \in CodeIds \ {c} : invites'[d] = invites[d]
          /\ redeemed' = [redeemed EXCEPT ![c] = @ + 1]
      BY <2>4, <3>0, <3>1 DEF Enroll, DeleteInvite, TypeOK
    <3>3. /\ ~Minted(c)'
          /\ \A d \in CodeIds \ {c} : Minted(d)' <=> Minted(d)
      BY <3>2 DEF Absent
    <3>4. \A q \in Conns : Claimed(q)' => runs'[q].serial = runs'[q].code
      <4>1. /\ runs'[r] = Run("ended", runs[r].code, runs[r].serial, runs[r].now)
            /\ \A q \in Conns \ {r} : runs'[q] = runs[q]
        BY <2>4 DEF Enroll, TypeOK
      <4>2. runs'[r].serial = runs[r].serial /\ runs'[r].code = runs[r].code
        BY <4>1 DEF Run
      <4> QED BY <3>1, <4>1, <4>2 DEF OneSecretPerId, Claimed
    <3> HIDE DEF Minted
    <3>5. redeemed[c] = 0 /\ c <= minted
      BY <2>0, <3>1 DEF OneSecretPerId
    <3>6. \A d \in CodeIds : Minted(d)' => invites'[d].serial = d /\ d <= minted'
      BY <3>2, <3>3 DEF OneSecretPerId
    <3>7. \A s \in Serials : redeemed'[s] > 0 => s <= minted' /\ ~Minted(s)'
      BY <1>0, <2>0, <3>2, <3>3, <3>5 DEF OneSecretPerId
    <3>8. SingleUse'
      BY <2>0, <3>1, <3>2, <3>5 DEF OneSecretPerId, SingleUse
    <3> QED BY <3>4, <3>6, <3>7, <3>8 DEF OneSecretPerId
  <2>5. ASSUME NEW r \in Conns, EnrollRefused(r) PROVE OneSecretPerId'
    <3>1. invites' = invites /\ minted' = minted /\ redeemed' = redeemed /\ Claimed(r)
      BY <2>5 DEF EnrollRefused, dbVars, Claimed
    <3>2. /\ runs'[r] = Run("ended", runs[r].code, runs[r].serial, runs[r].now)
          /\ \A q \in Conns \ {r} : runs'[q] = runs[q]
      BY <2>5 DEF EnrollRefused, TypeOK
    <3>3. runs'[r].serial = runs[r].serial /\ runs'[r].code = runs[r].code
      BY <3>2 DEF Run
    <3>4. \A q \in Conns : Claimed(q)' => runs'[q].serial = runs'[q].code
      BY <3>1, <3>2, <3>3 DEF OneSecretPerId, Claimed
    <3> QED BY <3>1, <3>4 DEF OneSecretPerId, SingleUse
  <2>6. ASSUME \/ \E u \in UserIds, role \in Roles : SetRole(u, role)
               \/ \E gone \in SUBSET UserIds : RemoveUsers(gone)
               \/ \E r \in Conns : ClaimDecoy(r) \/ EndRun(r)
               \/ Restart \/ Tick \/ UNCHANGED vars
        PROVE OneSecretPerId'
    <3>1. /\ \A c \in CodeIds : invites'[c] = invites[c] \/ invites'[c] = Absent
          /\ minted' = minted
      BY <2>6, RowsKeptOrDeleted
    <3>2. \A c \in CodeIds : Minted(c)' => Minted(c) /\ invites'[c] = invites[c]
      BY <2>1, <3>1
    <3>3. redeemed' = redeemed
      BY <2>6 DEF SetRole, RemoveUsers, ClaimDecoy, EndRun, Restart, Tick, vars
    <3>4. \A q \in Conns : runs'[q] = runs[q] \/ runs'[q] = Idle \/ runs'[q] = Decoy
      BY <2>6 DEF SetRole, RemoveUsers, ClaimDecoy, EndRun, Restart, Tick, vars, TypeOK
    <3>5. \A q \in Conns : Claimed(q)' => runs'[q].serial = runs'[q].code
      BY <3>4 DEF OneSecretPerId, Claimed, Idle, Decoy
    <3> HIDE DEF Minted
    <3> QED BY <1>0, <3>1, <3>2, <3>3, <3>5 DEF OneSecretPerId, SingleUse
  <2> QED
    BY <2>2, <2>3, <2>4, <2>5, <2>6 DEF Next, CreateInvite, AdminInvite
<1>3. OneSecretPerId => SingleUse
  BY DEF OneSecretPerId
<1> QED BY <1>1, <1>2, <1>3, TypeCorrect, PTL DEF Spec

-----------------------------------------------------------------------------
(* The cap on invites.                                                     *)

\* The invites of u that are in the table, and those of them that are live.
RowsOf(u) == {c \in CodeIds : Minted(c) /\ invites[c].mintedBy = u}
LiveOf(u) ==
  {c \in CodeIds : Minted(c) /\ invites[c].mintedBy = u /\ invites[c].expiresAt > clock}

\* Whom u enrolled within the day.
EnrolledBy(u) ==
  {v \in UserIds : /\ Exists(v) /\ users[v].invitedBy = u
                   /\ users[v].createdAt > clock - InviteLifetime}

\* What InviteCap needs to be inductive: an expired invite that is still in the table counts, as
\* a run that began in time may yet redeem it.
CapKept ==
  /\ \A u \in UserIds \ wasAdmin :
       Cardinality(RowsOf(u)) + Cardinality(EnrolledBy(u)) <= DailyInvites
  /\ \A u \in UserIds : Exists(u) /\ users[u].role = "Admin" => u \in wasAdmin

\* These sets are finite, and so are the tables.
LEMMA CapFinite ==
  ASSUME NEW u
  PROVE  /\ IsFiniteSet(RowsOf(u)) /\ IsFiniteSet(LiveOf(u)) /\ IsFiniteSet(EnrolledBy(u))
         /\ IsFiniteSet(CodeIds) /\ IsFiniteSet(UserIds)
<1>1. IsFiniteSet(CodeIds) /\ IsFiniteSet(UserIds)
  BY BoundsAssumption, FS_Interval DEF CodeIds, UserIds
<1>2. RowsOf(u) \subseteq CodeIds /\ LiveOf(u) \subseteq CodeIds /\ EnrolledBy(u) \subseteq UserIds
  BY DEF RowsOf, LiveOf, EnrolledBy
<1> QED BY <1>1, <1>2, FS_Subset

\* Smaller sets count less.
LEMMA CountsFall ==
  ASSUME NEW R, NEW E, IsFiniteSet(R), IsFiniteSet(E), NEW Q, NEW D, Q \subseteq R, D \subseteq E
  PROVE  Cardinality(Q) + Cardinality(D) <= Cardinality(R) + Cardinality(E)
<1>1. /\ IsFiniteSet(Q) /\ IsFiniteSet(D)
      /\ Cardinality(Q) <= Cardinality(R) /\ Cardinality(D) <= Cardinality(E)
  BY FS_Subset
<1>2. /\ Cardinality(Q) \in Nat /\ Cardinality(D) \in Nat
      /\ Cardinality(R) \in Nat /\ Cardinality(E) \in Nat
  BY <1>1, FS_CardinalityType
<1> QED BY <1>1, <1>2

\* One that goes makes up for one that comes.
LEMMA CountsTurn ==
  ASSUME NEW R, NEW E, IsFiniteSet(R), IsFiniteSet(E), NEW Q, NEW D, NEW c \in R, NEW v,
         Q \subseteq R \ {c}, D \subseteq E \cup {v}
  PROVE  Cardinality(Q) + Cardinality(D) <= Cardinality(R) + Cardinality(E)
<1>1. IsFiniteSet(R \ {c}) /\ Cardinality(R \ {c}) = Cardinality(R) - 1
  BY FS_RemoveElement
<1>2. IsFiniteSet(E \cup {v}) /\ Cardinality(E \cup {v}) <= Cardinality(E) + 1
  <2>1. IsFiniteSet(E \cup {v})
       /\ Cardinality(E \cup {v}) = IF v \in E THEN Cardinality(E) ELSE Cardinality(E) + 1
    BY FS_AddElement
  <2>2. Cardinality(E) \in Nat
    BY FS_CardinalityType
  <2> QED BY <2>1, <2>2
<1>3. Cardinality(Q) + Cardinality(D) <= Cardinality(R \ {c}) + Cardinality(E \cup {v})
  BY <1>1, <1>2, CountsFall
<1>4. /\ IsFiniteSet(Q) /\ IsFiniteSet(D)
  BY <1>1, <1>2, FS_Subset
<1>5. /\ Cardinality(Q) \in Nat /\ Cardinality(D) \in Nat /\ Cardinality(R) \in Nat
      /\ Cardinality(E) \in Nat /\ Cardinality(E \cup {v}) \in Nat
  BY <1>2, <1>4, FS_CardinalityType
<1> QED BY <1>1, <1>2, <1>3, <1>5

\* The count is a number, and what doesn't let it grow keeps the cap.
LEMMA CapStays ==
  ASSUME CapKept, wasAdmin \subseteq wasAdmin',
         \A u \in UserIds \ wasAdmin' :
           RowsOf(u)' \subseteq RowsOf(u) /\ EnrolledBy(u)' \subseteq EnrolledBy(u),
         \A u \in UserIds : (Exists(u) /\ users[u].role = "Admin")' => u \in wasAdmin'
  PROVE  CapKept'
<1>1. ASSUME NEW u \in UserIds \ wasAdmin'
      PROVE  Cardinality(RowsOf(u)') + Cardinality(EnrolledBy(u)') <= DailyInvites
  <2>1. /\ IsFiniteSet(RowsOf(u)) /\ IsFiniteSet(EnrolledBy(u))
    BY CapFinite
  <2>2. IsFiniteSet(RowsOf(u)') /\ IsFiniteSet(EnrolledBy(u)')
    BY <2>1, FS_Subset
  <2>3. /\ Cardinality(RowsOf(u)) \in Nat /\ Cardinality(EnrolledBy(u)) \in Nat
        /\ Cardinality(RowsOf(u)') \in Nat /\ Cardinality(EnrolledBy(u)') \in Nat
    BY <2>1, <2>2, FS_CardinalityType
  <2>4. Cardinality(RowsOf(u)') + Cardinality(EnrolledBy(u)')
          <= Cardinality(RowsOf(u)) + Cardinality(EnrolledBy(u))
    BY <2>1, CountsFall
  <2>5. Cardinality(RowsOf(u)) + Cardinality(EnrolledBy(u)) <= DailyInvites
    BY DEF CapKept
  <2> QED BY <2>3, <2>4, <2>5, LimitsAssumption
<1> QED BY <1>1 DEF CapKept

\* A mint purges what has expired, so that what is in the table afterwards was counted
\* (invites_used, mint_invite).
LEMMA MintKeepsCap ==
  ASSUME TypeOK, CapKept, NEW m \in UserIds \cup {NoUser}, NEW c \in CodeIds, MintInvite(c, m),
         m # NoUser => Exists(m) /\ (users[m].role # "Admin" => InvitesUsed(m) < DailyInvites)
  PROVE  CapKept'
<1>1. UNCHANGED <<users, clock, wasAdmin>>
  BY DEF MintInvite
<1>2. /\ invites'[c].mintedBy = m
      /\ \A d \in CodeIds \ {c} : invites'[d] = PurgeExpired(d)
  BY DEF MintInvite, InviteRow
<1>3. \A u : EnrolledBy(u)' = EnrolledBy(u)
  BY <1>1 DEF EnrolledBy
<1>4. \A d \in CodeIds \ {c} : invites'[d].row = "invite" =>
        invites'[d] = invites[d] /\ Minted(d) /\ invites[d].expiresAt > clock
  <2> SUFFICES ASSUME NEW d \in CodeIds \ {c}, invites'[d].row = "invite"
               PROVE  invites'[d] = invites[d] /\ Minted(d) /\ invites[d].expiresAt > clock
    OBVIOUS
  <2>1. invites'[d] = PurgeExpired(d) /\ Absent.row # "invite"
    BY <1>2 DEF Absent
  <2>2. invites[d] \in InviteRows \cup {Absent} /\ clock \in Int
    BY DEF TypeOK
  <2>3. invites'[d] = invites[d] /\ Minted(d) /\ ~(invites[d].expiresAt <= clock)
    BY <2>1 DEF PurgeExpired
  <2>4. invites[d].expiresAt \in Times
    BY <2>2, <2>3, InviteColumns
  <2> QED BY <2>2, <2>3, <2>4, BoundsAssumption, LimitsAssumption DEF Times
<1>5. \A u \in UserIds : u # m => RowsOf(u)' \subseteq RowsOf(u)
  BY <1>2, <1>4 DEF RowsOf
<1>6. RowsOf(m)' \subseteq LiveOf(m) \cup {c}
  BY <1>2, <1>4 DEF RowsOf, LiveOf
<1>7. ASSUME NEW u \in UserIds \ wasAdmin
      PROVE  Cardinality(RowsOf(u)') + Cardinality(EnrolledBy(u)) <= DailyInvites
  <2>1. CASE u # m
    <3>1. Cardinality(RowsOf(u)') + Cardinality(EnrolledBy(u))
            <= Cardinality(RowsOf(u)) + Cardinality(EnrolledBy(u))
      BY <1>5, <2>1, CapFinite, CountsFall
    <3>2. IsFiniteSet(RowsOf(u)) /\ IsFiniteSet(EnrolledBy(u)) /\ IsFiniteSet(RowsOf(u)')
      BY <1>5, <2>1, CapFinite, FS_Subset
    <3>3. /\ Cardinality(RowsOf(u)) \in Nat /\ Cardinality(EnrolledBy(u)) \in Nat
          /\ Cardinality(RowsOf(u)') \in Nat
      BY <3>2, FS_CardinalityType
    <3>4. Cardinality(RowsOf(u)) + Cardinality(EnrolledBy(u)) <= DailyInvites
      BY DEF CapKept
    <3> QED BY <3>1, <3>3, <3>4, LimitsAssumption
  <2>2. CASE u = m
    <3>1. u # NoUser
      BY DEF UserIds
    <3>2. Exists(u) /\ users[u].role # "Admin"
      BY <2>2, <3>1 DEF CapKept
    <3>3. InvitesUsed(u) < DailyInvites
      BY <2>2, <3>1, <3>2
    <3>4. InvitesUsed(u) = Cardinality(LiveOf(u)) + Cardinality(EnrolledBy(u))
      BY DEF InvitesUsed, LiveOf, EnrolledBy
    <3>5. IsFiniteSet(LiveOf(u)) /\ IsFiniteSet(EnrolledBy(u))
      BY CapFinite
    <3>6. /\ IsFiniteSet(LiveOf(u) \cup {c})
          /\ Cardinality(LiveOf(u) \cup {c})
               = IF c \in LiveOf(u) THEN Cardinality(LiveOf(u)) ELSE Cardinality(LiveOf(u)) + 1
      BY <3>5, FS_AddElement
    <3>7. IsFiniteSet(RowsOf(u)') /\ Cardinality(RowsOf(u)') <= Cardinality(LiveOf(u) \cup {c})
      BY <1>6, <2>2, <3>6, FS_Subset
    <3>8. /\ Cardinality(LiveOf(u)) \in Nat /\ Cardinality(EnrolledBy(u)) \in Nat
          /\ Cardinality(RowsOf(u)') \in Nat
      BY <3>5, <3>7, FS_CardinalityType
    <3> QED BY <3>3, <3>4, <3>6, <3>7, <3>8, LimitsAssumption
  <2> QED BY <2>1, <2>2
<1> QED BY <1>1, <1>3, <1>7 DEF CapKept

\* Whom a run enrolls takes the place of the invite it redeems, expired by now or not (enroll).
LEMMA EnrollKeepsCap ==
  ASSUME TypeOK, CapKept, NEW r \in Conns, NEW k \in Keys, Enroll(r, k)
  PROVE  CapKept'
<1> DEFINE c == runs[r].code
           row == invites[c]
           role == IF row.mintedBy = NoUser THEN "Admin" ELSE "User"
           holder == HolderOf(k)
<1>1. /\ runs[r].phase = "pake" /\ Minted(c)
      /\ invites' = [invites EXCEPT ![c] = Absent] /\ UNCHANGED clock
  BY DEF Enroll, Redeemable, DeleteInvite
<1>2. c \in CodeIds
  BY <1>1, RunColumns DEF TypeOK
<1>3. Absent.row # "invite"
  BY DEF Absent
<1>4. \A u : RowsOf(u)' \subseteq RowsOf(u) /\ c \notin RowsOf(u)'
  BY <1>1, <1>2, <1>3 DEF RowsOf, TypeOK
<1>5. row.mintedBy \in UserIds \cup {NoUser}
  BY <1>1, <1>2, InviteColumns DEF TypeOK
<1>6. CASE /\ holder # {}
           /\ users' = [u \in UserIds |->
                IF u \in holder /\ role = "Admin" THEN WithRole(users[u], role) ELSE users[u]]
           /\ wasAdmin' = IF role = "Admin" THEN wasAdmin \cup holder ELSE wasAdmin
  <2>1. \A u \in UserIds : Exists(u)' => Exists(u) /\ users'[u].invitedBy = users[u].invitedBy
                                         /\ users'[u].createdAt = users[u].createdAt
    BY <1>6 DEF WithRole, UserRow, HolderOf
  <2>2. \A u : EnrolledBy(u)' \subseteq EnrolledBy(u)
    BY <1>1, <2>1 DEF EnrolledBy
  <2>3. \A u \in UserIds : (Exists(u) /\ users[u].role = "Admin")' => u \in wasAdmin'
    BY <1>6 DEF CapKept, WithRole, UserRow
  <2> QED BY <1>4, <1>6, <2>2, <2>3, CapStays
<1>7. CASE /\ nextUser <= MaxUserId
           /\ users' = [users EXCEPT ![nextUser] = UserRow(k, role, row.mintedBy, runs[r].now)]
           /\ wasAdmin' = IF role = "Admin" THEN wasAdmin \cup {nextUser} ELSE wasAdmin
  <2>1. nextUser \in UserIds
    BY <1>7, BoundsAssumption DEF TypeOK, UserIds
  <2>2. /\ users'[nextUser].role = role /\ users'[nextUser].invitedBy = row.mintedBy
        /\ \A u \in UserIds \ {nextUser} : users'[u] = users[u]
    BY <1>7, <2>1 DEF UserRow, TypeOK
  <2>3. \A u \in UserIds : (Exists(u) /\ users[u].role = "Admin")' => u \in wasAdmin'
    BY <1>7, <2>1, <2>2 DEF CapKept
  <2>4. \A u : u # row.mintedBy => EnrolledBy(u)' \subseteq EnrolledBy(u)
    BY <1>1, <2>2 DEF EnrolledBy
  <2>5. \A u : EnrolledBy(u)' \subseteq EnrolledBy(u) \cup {nextUser}
    BY <1>1, <2>2 DEF EnrolledBy
  <2>6. c \in RowsOf(row.mintedBy)
    BY <1>1, <1>2 DEF RowsOf
  <2>7. ASSUME NEW u \in UserIds \ wasAdmin'
        PROVE  Cardinality(RowsOf(u)') + Cardinality(EnrolledBy(u)') <= DailyInvites
    <3>1. IsFiniteSet(RowsOf(u)) /\ IsFiniteSet(EnrolledBy(u))
      BY CapFinite
    <3>2. Cardinality(RowsOf(u)') + Cardinality(EnrolledBy(u)')
            <= Cardinality(RowsOf(u)) + Cardinality(EnrolledBy(u))
      <4>1. CASE u = row.mintedBy
        <5>1. RowsOf(u)' \subseteq RowsOf(u) \ {c} /\ c \in RowsOf(u)
          BY <1>4, <2>6, <4>1
        <5>2. EnrolledBy(u)' \subseteq EnrolledBy(u) \cup {nextUser}
          BY <2>5
        <5> QED BY <3>1, <5>1, <5>2, CountsTurn
      <4>2. CASE u # row.mintedBy
        <5>1. RowsOf(u)' \subseteq RowsOf(u) /\ EnrolledBy(u)' \subseteq EnrolledBy(u)
          BY <1>4, <2>4, <4>2
        <5> QED BY <3>1, <5>1, CountsFall
      <4> QED BY <4>1, <4>2
    <3>3. Cardinality(RowsOf(u)) + Cardinality(EnrolledBy(u)) <= DailyInvites
      BY <1>7 DEF CapKept
    <3>4. IsFiniteSet(RowsOf(u)') /\ IsFiniteSet(EnrolledBy(u)')
      <4>1. RowsOf(u)' \subseteq CodeIds /\ EnrolledBy(u)' \subseteq UserIds
        BY DEF RowsOf, EnrolledBy
      <4> QED BY <4>1, CapFinite, FS_Subset
    <3>5. /\ Cardinality(RowsOf(u)) \in Nat /\ Cardinality(EnrolledBy(u)) \in Nat
          /\ Cardinality(RowsOf(u)') \in Nat /\ Cardinality(EnrolledBy(u)') \in Nat
      BY <3>1, <3>4, FS_CardinalityType
    <3> QED BY <3>2, <3>3, <3>5, LimitsAssumption
  <2> QED BY <2>3, <2>7 DEF CapKept
<1> QED BY <1>6, <1>7 DEF Enroll

\* Someone who has never been an admin never has more live invites plus people enrolled within
\* the day than DAILY_INVITES (CreateInvite in rooms.rs, invites_used in database.rs), for any
\* number of runs that end after the invite they began with.
THEOREM InvitesStayCapped == Spec => []InviteCap
<1>1. Init => CapKept
  <2> SUFFICES ASSUME Init PROVE CapKept
    OBVIOUS
  <2>1. \A u \in UserIds : RowsOf(u) = {} /\ EnrolledBy(u) = {}
    BY DEF Init, RowsOf, EnrolledBy, Absent, Gone, UserRow, UserIds
  <2>2. \A u \in UserIds : Exists(u) /\ users[u].role = "Admin" => u \in wasAdmin
    BY DEF Init, Gone, UserRow
  <2>3. Cardinality({}) = 0
    BY FS_EmptySet
  <2>4. \A u \in UserIds : Cardinality(RowsOf(u)) + Cardinality(EnrolledBy(u)) = 0
    BY <2>1, <2>3
  <2> QED BY <2>2, <2>4, LimitsAssumption DEF CapKept
<1>2. TypeOK /\ CapKept /\ [Next]_vars => CapKept'
  <2> SUFFICES ASSUME TypeOK, CapKept, [Next]_vars PROVE CapKept'
    OBVIOUS
  <2>1. ASSUME NEW u \in UserIds, NEW c \in CodeIds, CreateInvite(u, c)
        PROVE  CapKept'
    BY <2>1, MintKeepsCap DEF CreateInvite
  <2>2. ASSUME NEW c \in CodeIds, AdminInvite(c)
        PROVE  CapKept'
    BY <2>2, MintKeepsCap DEF AdminInvite
  <2>3. ASSUME NEW r \in Conns, NEW c \in CodeIds, ClaimTry(r, c)
        PROVE  CapKept'
    <3>1. UNCHANGED <<clock, users, wasAdmin>>
      BY <2>3 DEF ClaimTry
    <3>2. \A d \in CodeIds : Minted(d)' => Minted(d) /\ invites'[d].mintedBy = invites[d].mintedBy
      BY <2>3 DEF ClaimTry, Claimable, ConsumeInviteTry, InviteRow, TypeOK
    <3>3. \A u : RowsOf(u)' \subseteq RowsOf(u) /\ EnrolledBy(u)' \subseteq EnrolledBy(u)
      BY <3>1, <3>2 DEF RowsOf, EnrolledBy
    <3> QED BY <3>1, <3>3, CapStays DEF CapKept
  <2>4. ASSUME NEW r \in Conns, NEW k \in Keys, Enroll(r, k)
        PROVE  CapKept'
    BY <2>4, EnrollKeepsCap
  <2>5. ASSUME NEW u \in UserIds, NEW role \in Roles, SetRole(u, role)
        PROVE  CapKept'
    <3>1. /\ UNCHANGED <<clock, invites>> /\ wasAdmin \subseteq wasAdmin'
          /\ role = "Admin" => u \in wasAdmin'
      BY <2>5 DEF SetRole
    <3>2. \A v \in UserIds : Exists(v)' =>
            /\ Exists(v) /\ users'[v].invitedBy = users[v].invitedBy
            /\ users'[v].createdAt = users[v].createdAt
            /\ users'[v].role = IF v = u THEN role ELSE users[v].role
      BY <2>5 DEF SetRole, WithRole, UserRow, TypeOK
    <3>3. \A v : RowsOf(v)' \subseteq RowsOf(v) /\ EnrolledBy(v)' \subseteq EnrolledBy(v)
      BY <3>1, <3>2 DEF RowsOf, EnrolledBy
    <3>4. \A v \in UserIds : (Exists(v) /\ users[v].role = "Admin")' => v \in wasAdmin'
      BY <3>1, <3>2 DEF CapKept
    <3> QED BY <3>1, <3>3, <3>4, CapStays
  <2>6. ASSUME NEW gone \in SUBSET UserIds, RemoveUsers(gone)
        PROVE  CapKept'
    <3>1. UNCHANGED <<clock, wasAdmin>>
      BY <2>6 DEF RemoveUsers
    <3>2. \A c \in CodeIds : Minted(c)' => Minted(c) /\ invites'[c] = invites[c]
      BY <2>6 DEF RemoveUsers, Absent, TypeOK
    <3>3. \A v \in UserIds : Exists(v)' =>
            /\ Exists(v) /\ users'[v].invitedBy \in {NoUser, users[v].invitedBy}
            /\ users'[v].createdAt = users[v].createdAt /\ users'[v].role = users[v].role
      BY <2>6 DEF RemoveUsers, UserRow, Gone
    <3>4. \A v \in UserIds :
            RowsOf(v)' \subseteq RowsOf(v) /\ EnrolledBy(v)' \subseteq EnrolledBy(v)
      BY <3>1, <3>2, <3>3 DEF RowsOf, EnrolledBy, UserIds
    <3>5. \A v \in UserIds : (Exists(v) /\ users[v].role = "Admin")' => v \in wasAdmin'
      BY <3>1, <3>3 DEF CapKept
    <3> QED BY <3>1, <3>4, <3>5, CapStays
  <2>7. ASSUME \/ \E r \in Conns : ClaimDecoy(r) \/ EnrollRefused(r) \/ EndRun(r)
               \/ Restart \/ Tick \/ UNCHANGED vars
        PROVE  CapKept'
    <3>1. /\ UNCHANGED <<users, wasAdmin>> /\ clock' \in Int /\ clock' >= clock /\ clock \in Int
      BY <2>7 DEF ClaimDecoy, EnrollRefused, EndRun, Restart, Tick, vars, dbVars, TypeOK
    <3>2. \A c \in CodeIds : invites'[c] = invites[c] \/ invites'[c] = Absent
      BY <2>7, RowsKeptOrDeleted
    <3>3. \A c \in CodeIds : Minted(c)' => Minted(c) /\ invites'[c] = invites[c]
      BY <3>2 DEF Absent
    <3>4. \A v \in UserIds : Exists(v) => users[v].createdAt \in Int
      BY UserColumns DEF TypeOK
    <3>5. \A v : RowsOf(v)' \subseteq RowsOf(v) /\ EnrolledBy(v)' \subseteq EnrolledBy(v)
      BY <3>1, <3>3, <3>4, LimitsAssumption DEF RowsOf, EnrolledBy
    <3> QED BY <3>1, <3>5, CapStays DEF CapKept
  <2> QED BY <2>1, <2>2, <2>3, <2>4, <2>5, <2>6, <2>7 DEF Next
<1>3. CapKept => InviteCap
  <2> SUFFICES ASSUME CapKept, NEW u \in UserIds, u \notin wasAdmin
               PROVE  InvitesUsed(u) <= DailyInvites
    BY DEF InviteCap
  <2>1. InvitesUsed(u) = Cardinality(LiveOf(u)) + Cardinality(EnrolledBy(u))
    BY DEF InvitesUsed, LiveOf, EnrolledBy
  <2>2. LiveOf(u) \subseteq RowsOf(u)
    BY DEF LiveOf, RowsOf
  <2>3. Cardinality(LiveOf(u)) + Cardinality(EnrolledBy(u))
          <= Cardinality(RowsOf(u)) + Cardinality(EnrolledBy(u))
    BY <2>2, CapFinite, CountsFall
  <2>4. Cardinality(RowsOf(u)) + Cardinality(EnrolledBy(u)) <= DailyInvites
    BY DEF CapKept
  <2>5. /\ Cardinality(LiveOf(u)) \in Nat /\ Cardinality(EnrolledBy(u)) \in Nat
        /\ Cardinality(RowsOf(u)) \in Nat
    BY CapFinite, FS_CardinalityType
  <2> QED BY <2>1, <2>3, <2>4, <2>5, LimitsAssumption
<1> QED BY <1>1, <1>2, <1>3, TypeCorrect, PTL DEF Spec

=============================================================================
