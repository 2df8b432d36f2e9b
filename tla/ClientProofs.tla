---------------------------- MODULE ClientProofs ----------------------------
(***************************************************************************)
(* What the window promises of its joins, and of the windows of shares,    *)
(* and what a session promises of answers, shares and decoders, for any    *)
(* number of servers, attempts, profiles, users, windows, rooms and        *)
(* requests.                                                               *)
(*                                                                         *)
(* JoinsInOrder is not inductive: it needs that an attempt under way was   *)
(* numbered once, that the latest took the profile there is and found the  *)
(* identity there is, and that while the dialog of a missing identity is   *)
(* open there is nothing that could close it but the user.  WindowsAgree   *)
(* needs that each pop-out the app knows is there and of a share watched,  *)
(* none of two shares, and that a share fills the window as it was found.  *)
(*                                                                         *)
(* Of the session, that no answer is a false alarm needs that every        *)
(* request and answer under way is waited for under a number of its own;   *)
(* that a share is on our own tracks, that starts are numbered once; that  *)
(* the right decoders run between handlers, that a handler which changes   *)
(* what is watched still has to ask for it until it ends.                  *)
(***************************************************************************)
EXTENDS Session, Joins, Streams, SequenceTheorems, TLAPS

\* A client with its session.
Clients ==
  [on : {TRUE}, host : Hosts, profile : Nat, status : {"connected", "reconnecting", "failed"},
   n : Nat, leaving : BOOLEAN, identity : Nat]

\* Types, of what the argument needs.
JoinsTypes ==
  /\ joining \in BOOLEAN /\ attempt \in Nat /\ profile \in Nat
  /\ identity \in Nat
  /\ connecting \subseteq [n : Nat, host : Hosts, profile : Nat, open : BOOLEAN, identity : Nat]
  /\ client \in Clients \cup {NoClient}
  /\ field \in Hosts \cup {Nowhere}

\* Attempts under way have numbers of their own, up to the latest; the latest is the one that is
\* waited for, with the profile there is and, once it has opened the key store, the identity.
AttemptsNumbered ==
  /\ \A c \in connecting : c.n <= attempt
  /\ \A c, d \in connecting : c.n = d.n => c = d
  /\ \A c \in connecting : c.n = attempt => joining /\ c.profile = profile
  /\ \A c \in connecting : c.n = attempt /\ c.open => c.identity = identity

\* Under the dialog of a missing identity nothing is joined and no session runs.
MissingAlone == dialog.is = "missing" => ~joining /\ ~client.on

\* Nothing has begun while the user is being asked who they are.
NothingBegun ==
  page = "onboarding" =>
    /\ connecting = {} /\ ~joining /\ ~client.on /\ dialog = NoJoinDialog /\ starting = "not"

\* The inductive invariant.
JoinsInv == JoinsTypes /\ JoinsInOrder /\ AttemptsNumbered /\ MissingAlone /\ NothingBegun

\* The facts about clients that every step needs.
LEMMA ClientFacts ==
  /\ NoClient.on = FALSE
  /\ NoJoinDialog.is = "none"
  /\ \A c \in Clients : c.on = TRUE
  /\ \A h \in Hosts, p \in Nat, n \in Nat, i \in Nat :
       [on |-> TRUE, host |-> h, profile |-> p, status |-> "connected", n |-> n,
        leaving |-> FALSE, identity |-> i] \in Clients
BY DEF NoClient, NoJoinDialog, Clients

\* A window that opens joins nothing.
LEMMA JoinsInvInit == JoinsInit => JoinsInv
<1> SUFFICES ASSUME JoinsInit PROVE JoinsInv
  OBVIOUS
<1> USE ClientFacts DEF JoinsInit
<1>1. JoinsTypes
  BY DEF JoinsTypes
<1>2. JoinsInOrder
  BY DEF JoinsInOrder, AttachedIsLatest, ProfileTold, Connected, AloneStartingOver, Current,
       IdentityPresent
<1>3. AttemptsNumbered
  BY DEF AttemptsNumbered
<1>4. MissingAlone /\ NothingBegun
  BY DEF MissingAlone, NothingBegun
<1> QED BY <1>1, <1>2, <1>3, <1>4 DEF JoinsInv

\* Start leaves the session there was and numbers the attempt anew (app.rs join).
LEMMA StartKeeps ==
  ASSUME JoinsInv, NEW host \in Hosts, NEW after, Start(host, after), field' \in Hosts,
         UNCHANGED <<profile, starting, identity>>, after.is # "missing", page # "onboarding",
         starting # "running"
  PROVE  JoinsInv'
<1> USE ClientFacts DEF JoinsInv
<1>1. client' = NoClient /\ page' # "onboarding" /\ joining' = TRUE /\ attempt' = attempt + 1
      /\ dialog' = after
      /\ connecting' = connecting \cup {[n |-> attempt + 1, host |-> host, profile |-> profile,
                                         open |-> FALSE, identity |-> 0]}
  BY DEF Start, SessionEnds, JoinsTypes
<1> DEFINE d == [n |-> attempt + 1, host |-> host, profile |-> profile, open |-> FALSE,
                 identity |-> 0]
<1>0. /\ d \in [n : Nat, host : Hosts, profile : Nat, open : BOOLEAN, identity : Nat]
      /\ d.n = attempt + 1 /\ d.profile = profile /\ d.open = FALSE
  BY DEF JoinsTypes
<1> HIDE DEF d
<1>2. JoinsTypes'
  <2>1. connecting' = connecting \cup {d}
    BY <1>1 DEF d
  <2> QED BY <1>0, <1>1, <2>1 DEF JoinsTypes
<1>3. AttemptsNumbered'
  <2>1. connecting' = connecting \cup {d}
    BY <1>1 DEF d
  <2> QED BY <1>0, <1>1, <2>1 DEF AttemptsNumbered, JoinsTypes
<1>4. JoinsInOrder' /\ MissingAlone' /\ NothingBegun'
  BY <1>1 DEF JoinsInOrder, AttachedIsLatest, ProfileTold, Connected, AloneStartingOver, Current,
       IdentityPresent, MissingAlone, NothingBegun
<1> QED BY <1>2, <1>3, <1>4

\* The end of an attempt: only the latest is attached or shown to have failed (app.rs join).
LEMMA ConnectEndsKeeps ==
  ASSUME JoinsInv, NEW c \in connecting, ConnectEnds(c)
  PROVE  JoinsInv'
<1> USE ClientFacts DEF JoinsInv
<1>1. /\ connecting' = connecting \ {c} /\ UNCHANGED <<field, attempt, profile, identity>>
      /\ c.n \in Nat /\ c.host \in Hosts /\ c.profile \in Nat /\ c.identity \in Nat
      /\ page # "onboarding"
  BY DEF ConnectEnds, JoinsTypes, NothingBegun
<1>2. CASE Latest(c) /\ Attach(c)
  <2>1. client' \in Clients /\ client'.n = attempt /\ client'.profile = profile
        /\ client'.identity = identity
    BY <1>1, <1>2 DEF Attach, Latest, Current, Clients, AttemptsNumbered, JoinsTypes
  <2>2. ~joining' /\ joining' \in BOOLEAN /\ page' = "main" /\ dialog' = NoJoinDialog
        /\ starting' = starting
    BY <1>2 DEF Attach
  <2>3. JoinsTypes'
    BY <1>1, <2>1, <2>2 DEF JoinsTypes
  <2>4. starting # "running"
    BY <1>2 DEF Latest, Current, AttemptsNumbered, JoinsInOrder, AloneStartingOver
  <2>5. JoinsInOrder' /\ MissingAlone' /\ NothingBegun'
    BY <1>1, <2>1, <2>2, <2>4 DEF JoinsInOrder, AttachedIsLatest, ProfileTold, AloneStartingOver,
         Current, IdentityPresent, MissingAlone, NothingBegun, Connected
  <2>6. AttemptsNumbered'
    BY <1>1, <1>2, <2>2 DEF AttemptsNumbered, Latest, Current
  <2> QED BY <2>3, <2>5, <2>6
<1>3. CASE Latest(c) /\ Failed(c)
  <2>1. joining /\ ~joining' /\ joining' \in BOOLEAN /\ UNCHANGED <<page, client>> /\ ~client.on
    BY <1>3 DEF Failed, Latest, Current, AttemptsNumbered, JoinsInOrder, AttachedIsLatest
  <2>2. JoinsTypes'
    BY <1>1, <2>1 DEF JoinsTypes
  <2>3. starting # "running" /\ starting' # "running"
    BY <1>3, <2>1 DEF Failed, JoinsInOrder, AloneStartingOver, Current, IdentityPresent
  <2>4. JoinsInOrder' /\ MissingAlone' /\ NothingBegun'
    BY <1>1, <2>1, <2>3 DEF JoinsInOrder, AttachedIsLatest, ProfileTold, AloneStartingOver,
         Current, IdentityPresent, MissingAlone, NothingBegun, Connected
  <2>5. AttemptsNumbered'
    BY <1>1, <1>3, <2>1 DEF AttemptsNumbered, Latest, Current
  <2> QED BY <2>2, <2>4, <2>5
<1>4. CASE Overtaken(c) /\ ~Latest(c)
  BY <1>1, <1>4 DEF Overtaken, JoinsTypes, JoinsInOrder, AttachedIsLatest, ProfileTold, Connected,
       AloneStartingOver, Current, IdentityPresent, AttemptsNumbered, MissingAlone, NothingBegun
<1> QED BY <1>2, <1>3, <1>4 DEF ConnectEnds

\* A task that opens the key store finds the identity there is, unless it was overtaken.
LEMMA OpensStoreKeeps ==
  ASSUME JoinsInv, NEW c \in connecting, OpensStore(c)
  PROVE  JoinsInv'
<1> USE ClientFacts DEF JoinsInv
<1> DEFINE held == IF starting = "running" THEN 0 ELSE identity
           d == [c EXCEPT !.open = TRUE, !.identity = held]
<1>1. /\ connecting' = (connecting \ {c}) \cup {d}
      /\ UNCHANGED <<page, dialog, field, joining, attempt, client, profile, starting, identity>>
  BY DEF OpensStore
<1>2. /\ d \in [n : Nat, host : Hosts, profile : Nat, open : BOOLEAN, identity : Nat]
      /\ d.n = c.n /\ d.profile = c.profile /\ d.identity = held
  BY DEF JoinsTypes
<1>3. c.n = attempt => starting # "running"
  BY DEF JoinsInOrder, AloneStartingOver, Current
<1>4. JoinsTypes'
  BY <1>1, <1>2 DEF JoinsTypes
<1> HIDE DEF d
<1>5. AttemptsNumbered'
  BY <1>1, <1>2, <1>3 DEF AttemptsNumbered
<1>6. JoinsInOrder' /\ MissingAlone' /\ NothingBegun'
  BY <1>1, <1>2 DEF JoinsInOrder, AttachedIsLatest, ProfileTold, AloneStartingOver, Current,
       IdentityPresent, MissingAlone, NothingBegun, Connected
<1> QED BY <1>4, <1>5, <1>6

\* What the user clicks to join: a server on the bar, or one of the dialogs.
LEMMA ClicksKeep ==
  ASSUME JoinsInv, Joins \/ \E h \in Hosts : OpenServer(h)
  PROVE  JoinsInv'
<1> USE ClientFacts
<1>1. ASSUME NEW h \in Hosts, OpenServer(h)
      PROVE  JoinsInv'
  <2>1. CASE Start(h, dialog) /\ field' = h
    <3>1. dialog = NoJoinDialog /\ page # "onboarding" /\ UNCHANGED <<profile, starting, identity>>
      BY <1>1 DEF OpenServer
    <3>2. starting # "running"
      BY <3>1 DEF JoinsInv, JoinsInOrder, AloneStartingOver, Current, IdentityPresent
    <3> QED BY <2>1, <3>1, <3>2, StartKeeps
  <2>2. CASE UNCHANGED <<dialog, field, joining, attempt, connecting, client, saving>>
             /\ page' # "onboarding"
    BY <1>1, <2>2 DEF OpenServer, JoinsInv, JoinsTypes, JoinsInOrder, AttachedIsLatest,
         ProfileTold, Connected, AloneStartingOver, Current, IdentityPresent, AttemptsNumbered,
         MissingAlone, NothingBegun
  <2> QED BY <1>1, <2>1, <2>2 DEF OpenServer
<1>2. CASE Joins
  <2>1. UNCHANGED <<field, profile, starting, identity>> /\ field \in Hosts /\ starting # "running"
        /\ page # "onboarding"
    BY <1>2 DEF Joins, JoinsInv, JoinsTypes, JoinsInOrder, AloneStartingOver, NothingBegun
  <2>2. \E after : Start(field, after) /\ after.is # "missing"
    BY <1>2 DEF Joins
  <2> QED BY <2>1, <2>2, StartKeeps
<1> QED BY <1>1, <1>2

\* Removing a server abandons the join of it by outnumbering it (app.rs remove_server).
LEMMA RemoveServerKeeps ==
  ASSUME JoinsInv, RemoveServer
  PROVE  JoinsInv'
<1> USE ClientFacts DEF JoinsInv
<1>1. /\ UNCHANGED <<field, connecting, profile, starting, identity>> /\ dialog' = NoJoinDialog
      /\ dialog.is = "remove" /\ page # "onboarding"
  BY DEF RemoveServer, NothingBegun
<1>2. /\ client' \in {client, NoClient} /\ page' # "onboarding"
      /\ joining' \in BOOLEAN
      /\ \/ UNCHANGED <<joining, attempt>>
         \/ joining /\ ~joining' /\ attempt' = attempt + 1
  BY <1>1 DEF RemoveServer, SessionEnds, JoinsTypes
<1>3. JoinsTypes'
  BY <1>1, <1>2 DEF JoinsTypes
<1>4. AttemptsNumbered'
  BY <1>1, <1>2 DEF AttemptsNumbered, JoinsTypes
<1>5. JoinsInOrder' /\ MissingAlone' /\ NothingBegun'
  BY <1>1, <1>2 DEF JoinsInOrder, AttachedIsLatest, ProfileTold, AloneStartingOver, Current,
       IdentityPresent, MissingAlone, NothingBegun, Connected
<1> QED BY <1>3, <1>4, <1>5

\* The profile is saved only while no attempt holds another (app.rs save_profile).
LEMMA SaveKeeps ==
  ASSUME JoinsInv, SaveEdited
  PROVE  JoinsInv'
<1> USE ClientFacts DEF JoinsInv
<1>1. /\ UNCHANGED <<page, dialog, field, joining, attempt, connecting, starting,
                   identity>>
      /\ ~joining /\ page = "settings" /\ profile' = profile + 1
  BY DEF SaveEdited, SaveAllowed, MaySave
<1>2. /\ client' \in Clients \cup {NoClient} /\ client'.on = client.on
      /\ client.on => client'.n = client.n /\ client'.status = client.status
                      /\ client'.identity = client.identity
      /\ Connected => client'.profile = profile + 1
  <2>1. CASE Connected
    <3>1. client \in Clients /\ client' = [client EXCEPT !.profile = profile + 1] /\ profile + 1 \in Nat
      BY <2>1 DEF SaveEdited, Connected, JoinsTypes
    <3> QED BY <3>1 DEF Clients
  <2>2. CASE ~Connected
    BY <2>2 DEF SaveEdited, JoinsTypes
  <2> QED BY <2>1, <2>2
<1>3. JoinsTypes'
  BY <1>1, <1>2 DEF JoinsTypes
<1>4. AttemptsNumbered'
  BY <1>1 DEF AttemptsNumbered
<1>5. JoinsInOrder' /\ MissingAlone' /\ NothingBegun'
  BY <1>1, <1>2 DEF JoinsInOrder, AttachedIsLatest, ProfileTold, AloneStartingOver, Current,
       IdentityPresent, MissingAlone, NothingBegun, Connected
<1> QED BY <1>3, <1>4, <1>5

\* Every step keeps the invariant.
LEMMA JoinsInvStep ==
  ASSUME JoinsInv, [JoinsNext]_joinsVars
  PROVE  JoinsInv'
<1> USE ClientFacts
<1>1. CASE Joins \/ \E h \in Hosts : OpenServer(h)
  BY <1>1, ClicksKeep
<1>2. CASE \E c \in connecting : OpensStore(c) \/ ConnectEnds(c)
  BY <1>2, OpensStoreKeeps, ConnectEndsKeeps
<1>3. CASE RemoveServer
  BY <1>3, RemoveServerKeeps
<1>4. CASE SaveEdited
  BY <1>4, SaveKeeps
<1>5. CASE OpenAddServer \/ UseInvite \/ \E h \in Hosts : TypeAddress(h) \/ OpenServerMenu(h)
  BY <1>5 DEF OpenAddServer, UseInvite, TypeAddress, OpenServerMenu, JoinsInv, JoinsTypes,
       JoinsInOrder, AttachedIsLatest, ProfileTold, Connected, AloneStartingOver, Current,
       IdentityPresent, AttemptsNumbered, MissingAlone, NothingBegun
<1>6. CASE Dismiss \/ ClickStartOver \/ StartedOver
  BY <1>6 DEF Dismiss, MayDismiss, Guarded, ClickStartOver, StartedOver, JoinsInv, JoinsTypes,
       JoinsInOrder, AttachedIsLatest, ProfileTold, Connected, AloneStartingOver, Current,
       IdentityPresent, AttemptsNumbered, MissingAlone, NothingBegun
<1>7. CASE LeftServer \/ RemovedFromServer
  <2>1. /\ client.on /\ client' = NoClient /\ page' # "onboarding" /\ dialog' = NoJoinDialog
        /\ UNCHANGED <<field, joining, attempt, connecting, profile, starting, identity>>
    BY <1>7 DEF LeftServer, RemovedFromServer, Connected, SessionEnds
  <2> QED BY <2>1 DEF JoinsInv, JoinsTypes, JoinsInOrder, AttachedIsLatest, ProfileTold,
       Connected, AloneStartingOver, Current, IdentityPresent, AttemptsNumbered, MissingAlone,
       NothingBegun
<1>8. CASE Leave
  <2>1. /\ client' \in Clients \cup {NoClient} /\ client'.on = client.on
        /\ client.on => client'.n = client.n /\ client'.status = client.status
                        /\ client'.profile = client.profile /\ client'.identity = client.identity
        /\ dialog' = NoJoinDialog /\ dialog.is = "leave"
        /\ UNCHANGED <<page, field, joining, attempt, connecting, profile, starting, identity>>
    BY <1>8 DEF Leave, JoinsInv, JoinsTypes, Clients
  <2> QED BY <2>1 DEF JoinsInv, JoinsTypes, JoinsInOrder, AttachedIsLatest, ProfileTold,
       Connected, AloneStartingOver, Current, IdentityPresent, AttemptsNumbered, MissingAlone,
       NothingBegun
<1>9. CASE StatusChanges
  <2>1. /\ client.on /\ client.status # "failed"
        /\ client' \in Clients /\ client'.n = client.n /\ client'.profile = client.profile
        /\ client'.identity = client.identity
        /\ UNCHANGED <<page, dialog, field, joining, attempt, connecting, profile, starting,
                       identity>>
    BY ZenonT(60), <1>9 DEF StatusChanges, JoinsInv, JoinsTypes, Clients
  <2> QED BY <2>1 DEF JoinsInv, JoinsTypes, JoinsInOrder, AttachedIsLatest, ProfileTold,
       Connected, AloneStartingOver, Current, IdentityPresent, AttemptsNumbered, MissingAlone,
       NothingBegun
<1>10. CASE ProfileAnswered \/ ShowScreen \/ UNCHANGED joinsVars
  BY <1>10 DEF ProfileAnswered, ShowScreen, joinsVars, JoinsInv, JoinsTypes, JoinsInOrder,
       AttachedIsLatest, ProfileTold, Connected, AloneStartingOver, Current, IdentityPresent,
       AttemptsNumbered, MissingAlone, NothingBegun
<1>11. CASE FinishOnboarding
  BY <1>11 DEF FinishOnboarding, JoinsInv, JoinsTypes, JoinsInOrder, AttachedIsLatest,
       ProfileTold, Connected, AloneStartingOver, Current, IdentityPresent, AttemptsNumbered,
       MissingAlone, NothingBegun
<1> QED BY <1>1, <1>2, <1>3, <1>4, <1>5, <1>6, <1>7, <1>8, <1>9, <1>10, <1>11 DEF JoinsNext

\* The window is on the server of the join started last and joins no other, a session that has
\* not given up holds the profile kept here; while the identity is started over no session runs
\* and no join is waited for, and whatever overtaken joins find in the key store meanwhile, the
\* session signs in as the identity there is (join, save_profile, remove_server, dismiss_dialog
\* and start_over in app.rs).
THEOREM JoinsAlwaysInOrder == JoinsSpec => []JoinsInOrder
<1>1. JoinsInv => JoinsInOrder
  BY DEF JoinsInv
<1>2. JoinsInv /\ [JoinsNext]_joinsVars => JoinsInv'
  BY JoinsInvStep
<1> QED BY JoinsInvInit, <1>1, <1>2, PTL DEF JoinsSpec

-----------------------------------------------------------------------------
(* The windows of shares. *)

\* Each pop-out the app knows is there, of its own share, and that is watched; no two are one.
PopoutsKnown ==
  \A u \in Users : popouts[u] # 0 =>
    /\ attached /\ u \in sharing /\ u \in watching
    /\ windows[popouts[u]].is # "none"
    /\ \A v \in Users : popouts[v] = popouts[u] => v = u

\* A share that fills the window made it fullscreen if it was not, unless the user did something.
FilledAsFound ==
  /\ filled = NoUser => ~madeFull
  /\ filled # NoUser /\ found # "touched" => osFull /\ (madeFull <=> found = "not")

\* The inductive invariant.
StreamsInv ==
  StreamsTypeOK /\ PopoutsKnown /\ PopoutsTracked /\ MenuInWindow /\ AwakeAgrees /\ FilledAsFound

\* The parts of it, and the variables each speaks of.
LEMMA SameWindows ==
  ASSUME PopoutsKnown, PopoutsTracked, UNCHANGED <<attached, sharing, watching, popouts, windows>>
  PROVE  PopoutsKnown' /\ PopoutsTracked'
BY DEF PopoutsKnown, PopoutsTracked

\* A share goes on filling the window.
LEMMA SameFilled ==
  ASSUME FilledAsFound, StaysFilled
  PROVE  FilledAsFound'
BY DEF FilledAsFound, StaysFilled

\* The display stays as it is while nothing watched changes.
LEMMA SameAwake ==
  ASSUME AwakeAgrees, UNCHANGED <<attached, sharing, watching, awake>>
  PROVE  AwakeAgrees'
BY DEF AwakeAgrees

\* No menu is open.
LEMMA NoMenuInWindow ==
  ASSUME menu' = NoMenu
  PROVE  MenuInWindow'
BY DEF MenuInWindow, NoMenu

\* exit_fullscreen leaves the window as it was found.
LEMMA ExitLeaves ==
  ASSUME StreamsTypeOK, FilledAsFound, ExitFullscreen
  PROVE  /\ FilledAsFound'
         /\ filled' \in Users \cup {NoUser} /\ madeFull' \in BOOLEAN /\ osFull' \in BOOLEAN
         /\ found' \in {"touched", "full", "not"}
         /\ filled # NoUser /\ found # "touched" => osFull' = (found = "full")
BY DEF StreamsTypeOK, FilledAsFound, ExitFullscreen, Exited

\* close_popout of some shares: what is left is of the others.
LEMMA ClosingKeeps ==
  ASSUME StreamsTypeOK, PopoutsKnown, PopoutsTracked, NEW gone \in SUBSET Users, ClosePopouts(gone)
  PROVE  /\ popouts' \in [Users -> 0..MaxWindows]
         /\ windows' \in [1..MaxWindows -> [is: {"none", "open", "closing"}, of: Users \cup {NoUser}]]
         /\ \A u \in Users : popouts'[u] # 0 => /\ u \notin gone /\ popouts'[u] = popouts[u]
                                               /\ windows'[popouts'[u]].is # "none"
                                               /\ \A v \in Users : popouts'[v] = popouts'[u] => v = u
         /\ \A w \in 1..MaxWindows : windows'[w].is = "open" =>
              \E u \in Users : u \notin gone /\ popouts'[u] = w /\ u \in sharing /\ u \in watching /\ attached
         /\ \A w \in 1..MaxWindows : windows[w] # NoWindow => windows'[w] # NoWindow
<1> DEFINE ids == {popouts[u] : u \in {v \in gone : Popped(v)}}
<1>1. /\ windows' = [w \in 1..MaxWindows |-> IF w \in ids THEN [windows[w] EXCEPT !.is = "closing"]
                                             ELSE windows[w]]
      /\ popouts' = [u \in Users |-> IF u \in gone THEN 0 ELSE popouts[u]]
  BY DEF ClosePopouts, Closing
<1>2. popouts \in [Users -> 0..MaxWindows] /\ MaxWindows \in Nat
  BY StreamsAssumption DEF StreamsTypeOK
<1>3. \A u \in gone : popouts[u] # 0 => popouts[u] \in ids
  BY DEF Popped
<1>4. \A w \in ids : \E u \in gone : popouts[u] = w /\ w # 0
  BY DEF Popped
<1> HIDE DEF ids
<1>5. windows \in [1..MaxWindows -> [is: {"none", "open", "closing"}, of: Users \cup {NoUser}]]
  BY DEF StreamsTypeOK
<1>6. ASSUME NEW w \in 1..MaxWindows
      PROVE  /\ windows'[w] \in [is: {"none", "open", "closing"}, of: Users \cup {NoUser}]
             /\ w \in ids => windows'[w].is = "closing"
             /\ w \notin ids => windows'[w] = windows[w]
  <2>1. CASE w \in ids
    <3>1. windows'[w] = [windows[w] EXCEPT !.is = "closing"]
      BY <1>1, <2>1
    <3>2. windows[w] \in [is: {"none", "open", "closing"}, of: Users \cup {NoUser}]
      BY <1>5
    <3> QED BY <2>1, <3>1, <3>2
  <2>2. CASE w \notin ids
    BY <1>1, <1>5, <2>2
  <2> QED BY <2>1, <2>2
<1>7. popouts' \in [Users -> 0..MaxWindows]
  BY <1>1, <1>2
<1>8. windows' \in [1..MaxWindows -> [is: {"none", "open", "closing"}, of: Users \cup {NoUser}]]
  BY <1>1, <1>6
<1>9. ASSUME NEW u \in Users, popouts'[u] # 0
      PROVE  /\ u \notin gone /\ popouts'[u] = popouts[u]
             /\ windows'[popouts'[u]].is # "none"
             /\ \A v \in Users : popouts'[v] = popouts'[u] => v = u
  <2>1. u \notin gone /\ popouts'[u] = popouts[u]
    BY <1>1, <1>9
  <2>2. popouts[u] \in 1..MaxWindows
    BY <1>2, <1>9, <2>1
  <2>3. \A v \in Users : popouts'[v] = popouts'[u] => v = u
    BY <1>1, <1>9, <2>1 DEF PopoutsKnown
  <2>4. windows[popouts[u]].is # "none"
    BY <1>9, <2>1 DEF PopoutsKnown
  <2> QED BY <1>6, <2>1, <2>2, <2>3, <2>4
<1>10. ASSUME NEW w \in 1..MaxWindows, windows'[w].is = "open"
       PROVE  \E u \in Users : u \notin gone /\ popouts'[u] = w /\ u \in sharing /\ u \in watching /\ attached
  <2>1. w \notin ids /\ windows[w].is = "open"
    BY <1>6, <1>10
  <2>2. PICK u \in sharing \cap watching : attached /\ popouts[u] = w
    BY <2>1 DEF PopoutsTracked
  <2>3. u \in Users /\ w # 0
    BY <1>2 DEF StreamsTypeOK
  <2>4. u \notin gone
    BY <1>3, <2>1, <2>2, <2>3
  <2> QED BY <1>1, <2>2, <2>3, <2>4
<1>11. ASSUME NEW w \in 1..MaxWindows, windows[w] # NoWindow PROVE windows'[w] # NoWindow
  BY <1>6, <1>11 DEF NoWindow
<1> QED BY <1>7, <1>8, <1>9, <1>10, <1>11

\* Every step.
LEMMA StreamsKeeps ==
  ASSUME StreamsInv, [StreamsNext]_streamsVars
  PROVE  /\ StreamsInv'
         /\ filled # NoUser /\ filled' = NoUser /\ found # "touched" => osFull' = (found = "full")
<1> USE DEF StreamsInv
<1>0. MaxWindows \in Nat /\ NoUser \notin Users
  BY StreamsAssumption DEF Users
<1>1. CASE UNCHANGED streamsVars
  <2>1. UNCHANGED <<attached, sharing, watching, preview, popouts, windows, focus, filled,
                    madeFull, osFull, menu, awake, found>>
    BY <1>1 DEF streamsVars
  <2>2. StreamsTypeOK' /\ MenuInWindow'
    BY <2>1 DEF StreamsTypeOK, MenuInWindow
  <2> QED BY <2>1, <2>2, SameWindows, SameAwake, SameFilled DEF StaysFilled
<1>2. ASSUME NEW u \in Users, EnterFullscreen(u)
      PROVE  StreamsInv' /\ filled = NoUser
  <2>1. UNCHANGED <<attached, sharing, watching, preview, popouts, windows, focus, awake>>
    BY <1>2 DEF EnterFullscreen
  <2>2. /\ filled = NoUser /\ filled' = u /\ osFull' = TRUE /\ madeFull' = (madeFull \/ ~osFull)
        /\ found' = (IF osFull THEN "full" ELSE "not") /\ menu' = NoMenu
    BY <1>2 DEF EnterFullscreen, Offered
  <2>3. StreamsTypeOK'
    BY <1>0, <2>1, <2>2 DEF StreamsTypeOK, NoMenu
  <2>4. FilledAsFound'
    BY <1>0, <2>2 DEF FilledAsFound, StreamsTypeOK
  <2> QED BY <2>1, <2>2, <2>3, <2>4, SameWindows, SameAwake, NoMenuInWindow
<1>3. ASSUME NEW u \in Users, PopOut(u)
      PROVE  StreamsInv' /\ filled' = filled
  <2>1. /\ UNCHANGED <<attached, sharing, watching, preview, filled, madeFull, osFull, awake, found>>
        /\ menu' = NoMenu /\ focus' = IF focus = u THEN NoUser ELSE focus
    BY <1>3 DEF PopOut
  <2>2. MenuInWindow' /\ AwakeAgrees' /\ FilledAsFound'
    BY <2>1, NoMenuInWindow, SameAwake, SameFilled DEF StaysFilled
  <2>3. CASE UNCHANGED <<windows, popouts>>
    <3>1. StreamsTypeOK'
      BY <1>0, <2>1, <2>3 DEF StreamsTypeOK, NoMenu
    <3> QED BY <2>1, <2>2, <2>3, <3>1, SameWindows
  <2>4. ASSUME NEW w \in 1..MaxWindows, windows[w] = NoWindow,
               windows' = [windows EXCEPT ![w] = [is |-> "open", of |-> u]],
               popouts' = [popouts EXCEPT ![u] = w]
        PROVE  StreamsInv'
    <3>1. attached /\ u \in sharing /\ u \in watching /\ popouts[u] = 0
      BY <1>3 DEF PopOut, Offered, ShowsStream, ShowsStreamWith
    <3>2. /\ windows \in [1..MaxWindows -> [is: {"none", "open", "closing"}, of: Users \cup {NoUser}]]
          /\ popouts \in [Users -> 0..MaxWindows] /\ w \in 0..MaxWindows /\ w # 0
      BY <1>0 DEF StreamsTypeOK
    <3>3. /\ windows' \in [1..MaxWindows -> [is: {"none", "open", "closing"}, of: Users \cup {NoUser}]]
          /\ popouts' \in [Users -> 0..MaxWindows]
      BY <2>4, <3>2
    <3>4. StreamsTypeOK'
      BY <1>0, <2>1, <3>3 DEF StreamsTypeOK, NoMenu
    <3>5. \A v \in Users : popouts[v] # w
      BY <2>4, <3>2 DEF PopoutsKnown, NoWindow
    <3>6. /\ popouts'[u] = w /\ \A v \in Users : v # u => popouts'[v] = popouts[v]
          /\ windows'[w].is = "open" /\ \A x \in 1..MaxWindows : x # w => windows'[x] = windows[x]
      BY <2>4, <3>2
    <3>7. PopoutsKnown'
      <4> SUFFICES ASSUME NEW v \in Users, popouts'[v] # 0
                   PROVE  /\ attached /\ v \in sharing /\ v \in watching
                          /\ windows'[popouts'[v]].is # "none"
                          /\ \A x \in Users : popouts'[x] = popouts'[v] => x = v
        BY <2>1 DEF PopoutsKnown
      <4>1. CASE v = u
        BY <3>1, <3>5, <3>6, <4>1
      <4>2. CASE v # u
        <5>1. popouts'[v] = popouts[v] /\ popouts[v] # w /\ popouts[v] \in 1..MaxWindows
          BY <1>0, <3>2, <3>5, <3>6, <4>2
        <5> QED BY <3>6, <4>2, <5>1 DEF PopoutsKnown
      <4> QED BY <4>1, <4>2
    <3>8. PopoutsTracked'
      <4> SUFFICES ASSUME NEW x \in 1..MaxWindows, windows'[x].is = "open"
                   PROVE  \E v \in sharing \cap watching : attached /\ popouts'[v] = x
        BY <2>1 DEF PopoutsTracked
      <4>1. CASE x = w
        BY <3>1, <3>6, <4>1
      <4>2. CASE x # w
        <5>1. windows[x].is = "open" /\ x # 0
          BY <3>6, <4>2
        <5>2. PICK v \in sharing \cap watching : attached /\ popouts[v] = x
          BY <5>1 DEF PopoutsTracked
        <5>3. v # u /\ v \in Users
          BY <3>1, <5>1, <5>2 DEF StreamsTypeOK
        <5> QED BY <3>6, <5>2, <5>3
      <4> QED BY <4>1, <4>2
    <3> QED BY <2>2, <3>4, <3>7, <3>8
  <2> QED BY <1>3, <2>1, <2>3, <2>4 DEF PopOut
<1>4. ASSUME NEW u \in Users, BringBack(u)
      PROVE  StreamsInv' /\ filled' = filled
  <2>1. /\ UNCHANGED <<attached, sharing, watching, preview, focus, filled, madeFull, osFull, awake, found>>
        /\ menu' = NoMenu /\ ClosePopouts({u}) /\ {u} \in SUBSET Users
    BY <1>4 DEF BringBack
  <2>2. MenuInWindow' /\ AwakeAgrees' /\ FilledAsFound'
    BY <2>1, NoMenuInWindow, SameAwake, SameFilled DEF StaysFilled
  <2>3. StreamsTypeOK'
    BY <1>0, <2>1, ClosingKeeps DEF StreamsTypeOK, NoMenu
  <2>4. PopoutsKnown'
    BY <2>1, ClosingKeeps DEF PopoutsKnown
  <2>5. PopoutsTracked'
    BY <2>1, ClosingKeeps DEF PopoutsTracked
  <2> QED BY <2>1, <2>2, <2>3, <2>4, <2>5
<1>5. ASSUME NEW u \in Users, FocusTile(u) \/ OpenMenu(u)
      PROVE  StreamsInv' /\ filled' = filled
  <2>1. UNCHANGED <<attached, sharing, watching, preview, popouts, windows, filled, madeFull, osFull,
                    awake, found>>
    BY <1>5 DEF FocusTile, OpenMenu
  <2>2. PopoutsKnown' /\ PopoutsTracked' /\ AwakeAgrees' /\ FilledAsFound'
    BY <2>1, SameWindows, SameAwake, SameFilled DEF StaysFilled
  <2>3. CASE FocusTile(u)
    <3>1. StreamsTypeOK'
      BY <2>1, <2>3 DEF StreamsTypeOK, FocusTile
    <3>2. MenuInWindow'
      BY <2>1, <2>3 DEF MenuInWindow, FocusTile
    <3> QED BY <2>1, <2>2, <3>1, <3>2
  <2>4. CASE OpenMenu(u)
    <3>1. PICK w \in {0} \cup {x \in {popouts[u]} : x # 0 /\ windows[x].is = "open"} :
            menu' = [user |-> u, in |-> w] /\ focus' = focus
      BY <2>4 DEF OpenMenu
    <3>2. w \in 0..MaxWindows
      BY <1>0 DEF StreamsTypeOK
    <3>3. StreamsTypeOK'
      BY <2>1, <3>1, <3>2 DEF StreamsTypeOK
    <3>4. MenuInWindow'
      BY <2>1, <3>1 DEF MenuInWindow, NoWindow
    <3> QED BY <2>1, <2>2, <3>3, <3>4
  <2> QED BY <1>5, <2>3, <2>4
<1>6. ASSUME NEW w \in 1..MaxWindows, CloseWindow(w)
      PROVE  StreamsInv' /\ filled' = filled
  <2>1. /\ UNCHANGED <<attached, sharing, watching, preview, popouts, focus, filled, madeFull,
                       osFull, menu, awake, found>>
        /\ windows' = [x \in 1..MaxWindows |-> IF x = w THEN [windows[x] EXCEPT !.is = "closing"]
                                                ELSE windows[x]]
    BY <1>6 DEF CloseWindow, Closing
  <2>2. windows \in [1..MaxWindows -> [is: {"none", "open", "closing"}, of: Users \cup {NoUser}]]
    BY DEF StreamsTypeOK
  <2>3. /\ windows'[w].is = "closing"
        /\ windows'[w] \in [is: {"none", "open", "closing"}, of: Users \cup {NoUser}]
        /\ \A x \in 1..MaxWindows : x # w => windows'[x] = windows[x]
    <3>1. windows'[w] = [windows[w] EXCEPT !.is = "closing"]
      BY <2>1
    <3>2. windows[w] \in [is: {"none", "open", "closing"}, of: Users \cup {NoUser}]
      BY <2>2
    <3> QED BY <2>1, <3>1, <3>2
  <2>4. windows' \in [1..MaxWindows -> [is: {"none", "open", "closing"}, of: Users \cup {NoUser}]]
    BY <2>1, <2>2, <2>3
  <2>5. StreamsTypeOK'
    BY <2>1, <2>4 DEF StreamsTypeOK
  <2>6. ASSUME NEW x \in 1..MaxWindows
        PROVE  /\ windows'[x].is = "open" => windows[x].is = "open"
               /\ windows[x].is # "none" => windows'[x].is # "none"
               /\ windows[x] # NoWindow => windows'[x] # NoWindow
    BY <2>3 DEF NoWindow
  <2>7. PopoutsKnown'
    <3>1. \A u \in Users : popouts[u] # 0 => popouts[u] \in 1..MaxWindows
      BY <1>0 DEF StreamsTypeOK
    <3> QED BY <2>1, <2>6, <3>1 DEF PopoutsKnown
  <2>8. PopoutsTracked'
    BY <2>1, <2>6 DEF PopoutsTracked
  <2>9. MenuInWindow'
    <3>1. menu.in # 0 => menu.in \in 1..MaxWindows
      BY <1>0 DEF StreamsTypeOK
    <3> QED BY <2>1, <2>6, <3>1 DEF MenuInWindow
  <2> QED BY <2>1, <2>5, <2>7, <2>8, <2>9, SameAwake, SameFilled DEF StaysFilled
<1>7. ASSUME NEW w \in 1..MaxWindows, Released(w)
      PROVE  StreamsInv' /\ filled' = filled
  <2>1. /\ UNCHANGED <<attached, sharing, watching, preview, focus, filled, madeFull, osFull, awake, found>>
        /\ windows[w].is = "closing" /\ windows' = [windows EXCEPT ![w] = NoWindow]
        /\ popouts' = [u \in Users |-> IF popouts[u] = w THEN 0 ELSE popouts[u]]
        /\ menu' = IF menu.in = w THEN NoMenu ELSE menu
    BY <1>7 DEF Released, ReleaseForgets, Forgets, ReleaseMenu, MenuOf
  <2>2. /\ windows \in [1..MaxWindows -> [is: {"none", "open", "closing"}, of: Users \cup {NoUser}]]
        /\ popouts \in [Users -> 0..MaxWindows] /\ 0 \in 0..MaxWindows /\ w # 0
        /\ menu \in [user: Users \cup {NoUser}, in: 0..MaxWindows]
    BY <1>0 DEF StreamsTypeOK
  <2>3. /\ windows'[w] = NoWindow /\ \A x \in 1..MaxWindows : x # w => windows'[x] = windows[x]
        /\ windows' \in [1..MaxWindows -> [is: {"none", "open", "closing"}, of: Users \cup {NoUser}]]
    BY <2>1, <2>2 DEF NoWindow
  <2>4. popouts' \in [Users -> 0..MaxWindows]
    BY <2>1, <2>2
  <2>5. StreamsTypeOK'
    BY <1>0, <2>1, <2>3, <2>4 DEF StreamsTypeOK, NoMenu
  <2>6. PopoutsKnown'
    <3> SUFFICES ASSUME NEW u \in Users, popouts'[u] # 0
                 PROVE  /\ attached /\ u \in sharing /\ u \in watching
                        /\ windows'[popouts'[u]].is # "none"
                        /\ \A v \in Users : popouts'[v] = popouts'[u] => v = u
      BY <2>1 DEF PopoutsKnown
    <3>1. popouts'[u] = popouts[u] /\ popouts[u] # w /\ popouts[u] \in 1..MaxWindows
      BY <1>0, <2>1, <2>2
    <3>2. \A v \in Users : popouts'[v] = popouts'[u] => popouts[v] = popouts[u]
      BY <2>1, <3>1
    <3> QED BY <2>3, <3>1, <3>2 DEF PopoutsKnown
  <2>7. PopoutsTracked'
    <3> SUFFICES ASSUME NEW x \in 1..MaxWindows, windows'[x].is = "open"
                 PROVE  \E v \in sharing \cap watching : attached /\ popouts'[v] = x
      BY <2>1 DEF PopoutsTracked
    <3>1. x # w /\ windows[x].is = "open"
      BY <2>3 DEF NoWindow
    <3>2. PICK v \in sharing \cap watching : attached /\ popouts[v] = x
      BY <3>1 DEF PopoutsTracked
    <3>3. v \in Users
      BY DEF StreamsTypeOK
    <3> QED BY <2>1, <3>1, <3>2, <3>3
  <2>8. MenuInWindow'
    <3>1. menu.in # 0 => menu.in \in 1..MaxWindows
      BY <1>0, <2>2
    <3> QED BY <2>1, <2>3, <3>1 DEF MenuInWindow, NoMenu
  <2> QED BY <2>1, <2>5, <2>6, <2>7, <2>8, SameAwake, SameFilled DEF StaysFilled
<1>8. ASSUME LeaveFullscreen
      PROVE  StreamsInv' /\ (filled # NoUser /\ found # "touched" => osFull' = (found = "full"))
  <2>1. /\ UNCHANGED <<attached, sharing, watching, preview, popouts, windows, focus, awake>>
        /\ menu' = NoMenu /\ ExitFullscreen
    BY <1>8 DEF LeaveFullscreen
  <2>2. StreamsTypeOK'
    BY <1>0, <2>1, ExitLeaves DEF StreamsTypeOK, NoMenu
  <2> QED BY <2>1, <2>2, ExitLeaves, SameWindows, SameAwake, NoMenuInWindow
<1>9. ASSUME UserToggles \/ Preview \/ CloseMenu
      PROVE  StreamsInv' /\ filled' = filled
  <2>1. UNCHANGED <<attached, sharing, watching, popouts, windows, focus, filled, madeFull, awake>>
    BY <1>9 DEF UserToggles, Preview, CloseMenu
  <2>2. menu' = NoMenu \/ menu' = menu
    BY <1>9 DEF UserToggles, Preview, CloseMenu
  <2>3. osFull' \in BOOLEAN /\ found' \in {"touched", "full", "not"} /\ preview' \in BOOLEAN
    BY <1>9 DEF UserToggles, Preview, CloseMenu, StreamsTypeOK
  <2>4. StreamsTypeOK'
    BY <1>0, <2>1, <2>2, <2>3 DEF StreamsTypeOK, NoMenu
  <2>5. FilledAsFound'
    BY <1>9 DEF UserToggles, Preview, CloseMenu, FilledAsFound
  <2>6. MenuInWindow'
    BY <2>1, <2>2 DEF MenuInWindow, NoMenu
  <2> QED BY <2>1, <2>4, <2>5, <2>6, SameWindows, SameAwake
<1>10. ASSUME StopPreview
       PROVE  StreamsInv' /\ (filled # NoUser /\ filled' = NoUser /\ found # "touched" => osFull' = (found = "full"))
  <2>1. /\ UNCHANGED <<attached, sharing, watching, popouts, windows, focus, menu, awake>>
        /\ preview' = FALSE /\ (ExitFullscreen \/ StaysFilled)
    BY <1>10 DEF StopPreview
  <2>2. PopoutsKnown' /\ PopoutsTracked' /\ AwakeAgrees'
    BY <2>1, SameWindows, SameAwake
  <2>3. MenuInWindow'
    BY <2>1 DEF MenuInWindow
  <2>4. CASE ExitFullscreen
    <3>1. StreamsTypeOK'
      BY <2>1, <2>4, ExitLeaves DEF StreamsTypeOK
    <3> QED BY <2>2, <2>3, <2>4, <3>1, ExitLeaves
  <2>5. CASE StaysFilled
    <3>1. StreamsTypeOK'
      BY <2>1, <2>5 DEF StreamsTypeOK, StaysFilled
    <3>2. filled' = filled
      BY <2>5 DEF StaysFilled
    <3> QED BY <2>2, <2>3, <2>5, <3>1, <3>2, SameFilled
  <2> QED BY <2>1, <2>4, <2>5
<1>11. ASSUME RoomStateArrives
       PROVE  StreamsInv' /\ (filled # NoUser /\ filled' = NoUser /\ found # "touched" => osFull' = (found = "full"))
  <2>1. PICK share \in SUBSET Users, watch \in SUBSET Sharers : NewState(share, watch)
    BY <1>11 DEF RoomStateArrives
  <2> DEFINE gone == Users \ (share \cap watch)
  <2>2. /\ attached /\ sharing' = share /\ watching' = watch /\ ClosePopouts(gone) /\ gone \in SUBSET Users
        /\ awake' = WatchesOne(share, watch) /\ (ExitFullscreen \/ StaysFilled)
        /\ UNCHANGED <<attached, preview, focus, menu>>
    BY <2>1 DEF NewState
  <2>3. \A u \in Users : u \notin gone => u \in share /\ u \in watch
    OBVIOUS
  <2> HIDE DEF gone
  <2>4. PopoutsKnown'
    BY <2>2, <2>3, ClosingKeeps DEF PopoutsKnown
  <2>5. PopoutsTracked'
    BY <2>2, <2>3, ClosingKeeps DEF PopoutsTracked
  <2>6. MenuInWindow'
    <3>1. menu.in # 0 => menu.in \in 1..MaxWindows
      BY <1>0 DEF StreamsTypeOK
    <3> QED BY <2>2, <3>1, ClosingKeeps DEF MenuInWindow
  <2>7. AwakeAgrees' /\ awake' \in BOOLEAN
    BY <2>2 DEF AwakeAgrees, WatchesOne
  <2>8. CASE ExitFullscreen
    <3>1. StreamsTypeOK'
      BY <2>2, <2>7, <2>8, ExitLeaves, ClosingKeeps DEF StreamsTypeOK
    <3> QED BY <2>4, <2>5, <2>6, <2>7, <2>8, <3>1, ExitLeaves
  <2>9. CASE StaysFilled
    <3>1. StreamsTypeOK'
      BY <2>2, <2>7, <2>9, ClosingKeeps DEF StreamsTypeOK, StaysFilled
    <3>2. filled' = filled
      BY <2>9 DEF StaysFilled
    <3> QED BY <2>4, <2>5, <2>6, <2>7, <2>9, <3>1, <3>2, SameFilled
  <2> QED BY <2>2, <2>8, <2>9
<1>12. ASSUME EndSession
       PROVE  StreamsInv' /\ (filled # NoUser /\ found # "touched" => osFull' = (found = "full"))
  <2>1. /\ attached' = FALSE /\ ClosePopouts(Users) /\ ExitFullscreen /\ awake' = FALSE
        /\ menu' = NoMenu /\ focus' = NoUser /\ preview' = FALSE /\ UNCHANGED <<sharing, watching>>
    BY <1>12 DEF EndSession, AwakeAfter, SleepsAfter
  <2>2. Users \in SUBSET Users
    OBVIOUS
  <2>3. PopoutsKnown'
    BY <2>1, <2>2, ClosingKeeps DEF PopoutsKnown
  <2>4. PopoutsTracked'
    BY <2>1, <2>2, ClosingKeeps DEF PopoutsTracked
  <2>5. StreamsTypeOK'
    <3>1. /\ popouts' \in [Users -> 0..MaxWindows]
          /\ windows' \in [1..MaxWindows -> [is: {"none", "open", "closing"}, of: Users \cup {NoUser}]]
      BY <2>1, <2>2, ClosingKeeps
    <3>2. /\ filled' \in Users \cup {NoUser} /\ madeFull' \in BOOLEAN /\ osFull' \in BOOLEAN
          /\ found' \in {"touched", "full", "not"}
      BY <2>1, ExitLeaves
    <3>3. menu' \in [user: Users \cup {NoUser}, in: 0..MaxWindows]
      <4>1. 0 \in 0..MaxWindows /\ menu' = [user |-> NoUser, in |-> 0]
        BY <1>0, <2>1 DEF NoMenu
      <4> QED BY <4>1
    <3>5. /\ focus' \in Users \cup {NoUser} /\ attached' \in BOOLEAN /\ awake' \in BOOLEAN
          /\ preview' \in BOOLEAN
      BY <2>1, Zenon
    <3>4. sharing' \subseteq Users /\ watching' \subseteq Sharers
      BY <2>1 DEF StreamsTypeOK
    <3> QED BY <3>1, <3>2, <3>3, <3>4, <3>5 DEF StreamsTypeOK
  <2>6. AwakeAgrees'
    BY <2>1 DEF AwakeAgrees
  <2> QED BY <2>1, <2>3, <2>4, <2>5, <2>6, ExitLeaves, NoMenuInWindow
<1>13. ASSUME AttachRoom
       PROVE  StreamsInv' /\ filled' = filled
  <2>1. /\ ~attached /\ attached' = TRUE /\ sharing' \in SUBSET Users /\ watching' = {}
        /\ UNCHANGED <<preview, popouts, windows, focus, filled, madeFull, osFull, menu, awake, found>>
    BY <1>13 DEF AttachRoom
  <2>2. StreamsTypeOK'
    BY <2>1 DEF StreamsTypeOK
  <2>3. PopoutsKnown' /\ PopoutsTracked'
    BY <2>1 DEF PopoutsKnown, PopoutsTracked
  <2>4. MenuInWindow'
    BY <2>1 DEF MenuInWindow
  <2>5. AwakeAgrees'
    BY <2>1 DEF AwakeAgrees, WatchesOne
  <2> QED BY <2>1, <2>2, <2>3, <2>4, <2>5, SameFilled DEF StaysFilled
<1>14. (filled # NoUser /\ filled' = NoUser => filled' # filled) /\ filled \in Users \cup {NoUser}
  BY DEF StreamsTypeOK
<1> QED BY <1>1, <1>2, <1>3, <1>4, <1>5, <1>6, <1>7, <1>8, <1>9, <1>10, <1>11, <1>12, <1>13, <1>14
        DEF StreamsNext

\* app.rs, popout.rs: what the app keeps of its windows is how they are, for any number of people,
\* and however late windows are released: every open pop-out is one it knows and watches, no menu
\* is left in a window that is gone, the display is awake while a share is watched, and a share
\* that stops filling the window leaves it as it was found.
THEOREM WindowsAlwaysAgree == StreamsSpec => WindowsAgree
<1> DEFINE Leaves == filled # NoUser /\ filled' = NoUser /\ found # "touched" => osFull' = (found = "full")
<1>1. StreamsInit => StreamsInv
  <2> SUFFICES ASSUME StreamsInit PROVE StreamsInv
    OBVIOUS
  <2>1. StreamsTypeOK
    <3>1. MaxWindows \in Nat /\ 0 \in 0..MaxWindows
      BY StreamsAssumption
    <3>2. /\ popouts \in [Users -> 0..MaxWindows]
          /\ windows \in [1..MaxWindows -> [is: {"none", "open", "closing"}, of: Users \cup {NoUser}]]
          /\ menu \in [user: Users \cup {NoUser}, in: 0..MaxWindows]
      BY <3>1 DEF StreamsInit, NoMenu, NoWindow
    <3> QED BY <3>2 DEF StreamsInit, StreamsTypeOK
  <2>2. PopoutsKnown /\ PopoutsTracked
    BY DEF StreamsInit, PopoutsKnown, PopoutsTracked, NoWindow
  <2>3. MenuInWindow /\ AwakeAgrees /\ FilledAsFound
    BY DEF StreamsInit, MenuInWindow, AwakeAgrees, FilledAsFound, NoMenu
  <2> QED BY <2>1, <2>2, <2>3 DEF StreamsInv
<1>2. StreamsInv /\ [StreamsNext]_streamsVars => StreamsInv'
  BY StreamsKeeps
<1>3. StreamsInv /\ [StreamsNext]_streamsVars => [Leaves]_streamsVars
  BY StreamsKeeps
<1>4. StreamsInv => PopoutsTracked /\ MenuInWindow /\ AwakeAgrees
  BY DEF StreamsInv
<1> QED BY <1>1, <1>2, <1>3, <1>4, PTL DEF StreamsSpec, WindowsAgree, LeavesAsFound

-----------------------------------------------------------------------------
(* The session: what its parts are made of. *)

SessionFields ==
  {"room", "tracks", "mic", "deaf", "micBefore", "share", "serverShare", "wanted", "sender", "peers",
   "watching", "decoding"}
EngineFields == {"room", "epoch", "peers", "later", "mics", "shares"}

\* No two commands in the queue are of the same switch.
Once(q) == \A i, j \in 1..Len(q) : Supersedes(q[i], q[j]) => i = j

\* What the user asked for are commands, and each switch is queued once.
QueueInv ==
  /\ "commands" \in DOMAIN story /\ story.commands \subseteq UiCommands
  /\ commands \in Seq(UiCommands)
  /\ DOMAIN retry = {"want", "before", "watching", "queued"}
  /\ retry.queued \in Seq(UiCommands) /\ Once(retry.queued)

\* Every request on its way, and every answer, is one the link waits for, by a number of its own.
AnswersAwaited ==
  /\ ~alarm
  /\ conn # "up" => up = <<>> /\ down = <<>>
  /\ \A i \in pending.waiting : i < pending.next
  /\ \A i \in 1..Len(up) : up[i].id \in pending.waiting
  /\ \A i, j \in 1..Len(up) : up[i].id = up[j].id => i = j
  /\ \A i \in 1..Len(down) : down[i].type = "reply" => down[i].id \in pending.waiting
  /\ \A i, j \in 1..Len(down) :
       down[i].type = "reply" /\ down[j].type = "reply" /\ down[i].id = down[j].id => i = j
  /\ \A i \in 1..Len(up), j \in 1..Len(down) : down[j].type = "reply" => up[i].id # down[j].id

\* Captures that start are numbered from 1, on tracks of a placement, and of a share.
StartsNumbered ==
  /\ starts.count \in Nat
  /\ \A r \in starts.running : r.number \in 1..starts.count /\ r.tracks # NoTracks /\ r.config # NoShare

\* What is left to do ends in asking for the watched shares.
Watches(t) == t.task = "watched" \/ (t.task = "await" /\ t.req.op = "watched")
WatchPending == \E i \in 1..Len(doing) : Watches(doing[i])

TaskShaped(t) == t.task = "await" => DOMAIN t = {"task", "id", "req", "got"}
DoingShaped == \A i \in 1..Len(doing) : TaskShaped(doing[i])

\* Decoders are those of the running shares being watched, unless those are still to be asked for.
DecodersFollow ==
  /\ engine.shares = DecodedTracks(sess)
  /\ {sess.peers[u].tracks : u \in DOMAIN sess.peers} \subseteq engine.mics
  /\ sess.decoding = Running(sess) \/ WatchPending

Sequential(s) == \E S : s \in Seq(S)

-----------------------------------------------------------------------------
(* Sequences whose elements are not told apart. *)

\* Appending.
LEMMA Appended ==
  ASSUME NEW s, Sequential(s), NEW x
  PROVE  /\ Sequential(Append(s, x)) /\ Len(s) \in Nat /\ Len(Append(s, x)) = Len(s) + 1
         /\ Append(s, x)[Len(s) + 1] = x
         /\ \A i \in 1..Len(s) : Append(s, x)[i] = s[i]
         /\ \A i \in 1..Len(Append(s, x)) : i \in 1..Len(s) \/ i = Len(s) + 1
<1> DEFINE t == Append(s, x)
<1>1. PICK S : s \in Seq(S)
  BY DEF Sequential
<1>2. s \in Seq(S \cup {x}) /\ x \in S \cup {x}
  BY <1>1, SeqMonotonic
<1>3. PICK T : s \in Seq(T) /\ x \in T
  BY <1>2
<1>4. /\ t \in Seq(T) /\ Len(s) \in Nat /\ Len(t) = Len(s) + 1 /\ t[Len(s) + 1] = x
      /\ \A i \in 1..Len(s) : t[i] = s[i]
  BY <1>3
<1> QED BY <1>4 DEF Sequential

\* What is left after the first.
LEMMA Taken ==
  ASSUME NEW s, Sequential(s), s # <<>>
  PROVE  /\ Sequential(Tail(s)) /\ Len(s) \in Nat /\ Len(s) >= 1 /\ Len(Tail(s)) = Len(s) - 1 /\ Head(s) = s[1]
         /\ \A i \in 1..Len(Tail(s)) : Tail(s)[i] = s[i + 1] /\ i + 1 \in 2..Len(s)
<1> DEFINE t == Tail(s)
<1>1. PICK S : s \in Seq(S)
  BY DEF Sequential
<1>2. /\ t \in Seq(S) /\ Len(s) \in Nat /\ Len(s) >= 1 /\ Len(t) = Len(s) - 1 /\ Head(s) = s[1]
      /\ \A i \in 1..Len(t) : t[i] = s[i + 1] /\ i + 1 \in 2..Len(s)
  BY <1>1
<1> QED BY <1>2 DEF Sequential

\* Putting one before the others.
LEMMA Put ==
  ASSUME NEW s, Sequential(s), NEW x
  PROVE  /\ Sequential(<<x>> \o s) /\ Len(s) \in Nat /\ Len(<<x>> \o s) = Len(s) + 1
         /\ (<<x>> \o s)[1] = x /\ <<x>> \o s # <<>> /\ Head(<<x>> \o s) = x
         /\ \A i \in 1..Len(s) : (<<x>> \o s)[i + 1] = s[i]
         /\ \A i \in 1..Len(<<x>> \o s) : i = 1 \/ (i - 1 \in 1..Len(s) /\ (<<x>> \o s)[i] = s[i - 1])
<1>1. PICK S : s \in Seq(S)
  BY DEF Sequential
<1>2. s \in Seq(S \cup {x}) /\ x \in S \cup {x}
  BY <1>1, SeqMonotonic
<1>3. PICK T : s \in Seq(T) /\ x \in T
  BY <1>2
<1>4. <<x>> \in Seq(T) /\ Len(<<x>>) = 1 /\ <<x>>[1] = x
  BY <1>3
<1>10. PICK t : t = <<x>> \o s
  OBVIOUS
<1>5. /\ t \in Seq(T) /\ Len(s) \in Nat /\ Len(t) = 1 + Len(s)
      /\ \A i \in 1..(1 + Len(s)) : t[i] = IF i <= 1 THEN <<x>>[i] ELSE s[i - 1]
  BY <1>3, <1>4, <1>10, ConcatProperties, LenProperties
<1>6. t # <<>>
  BY <1>5
<1>7. t[1] = x /\ \A i \in 1..Len(s) : t[i + 1] = s[i]
  BY <1>4, <1>5
<1>8. \A i \in 1..Len(t) : i = 1 \/ (i - 1 \in 1..Len(s) /\ t[i] = s[i - 1])
  BY <1>5
<1>9. Head(t) = x
  BY <1>5, <1>6, <1>7
<1>11. Sequential(t) /\ Len(t) = Len(s) + 1
  BY <1>5 DEF Sequential
<1> QED BY <1>5, <1>6, <1>7, <1>8, <1>9, <1>10, <1>11, Zenon

\* Changing the first.
LEMMA HeadSet ==
  ASSUME NEW s, Sequential(s), s # <<>>, NEW x
  PROVE  /\ Sequential([s EXCEPT ![1] = x]) /\ Len(s) \in Nat /\ Len(s) >= 1 /\ Len([s EXCEPT ![1] = x]) = Len(s)
         /\ [s EXCEPT ![1] = x][1] = x /\ [s EXCEPT ![1] = x] # <<>>
         /\ \A i \in 2..Len(s) : [s EXCEPT ![1] = x][i] = s[i]
<1>1. PICK S : s \in Seq(S)
  BY DEF Sequential
<1>2. s \in Seq(S \cup {x}) /\ x \in S \cup {x}
  BY <1>1, SeqMonotonic
<1>3. PICK T : s \in Seq(T) /\ x \in T
  BY <1>2
<1>4. Len(s) \in Nat /\ Len(s) >= 1 /\ 1 \in 1..Len(s)
  BY <1>1
<1>9. PICK t : t = [s EXCEPT ![1] = x]
  OBVIOUS
<1>5. /\ t \in Seq(T) /\ Len(t) = Len(s)
      /\ \A i \in 1..Len(s) : t[i] = IF i = 1 THEN x ELSE s[i]
  BY <1>3, <1>4, <1>9, ExceptSeq
<1>6. t # <<>>
  BY <1>4, <1>5
<1>7. Sequential(t)
  BY <1>5 DEF Sequential
<1>8. t[1] = x /\ \A i \in 2..Len(s) : t[i] = s[i]
  BY <1>4, <1>5
<1> QED BY <1>4, <1>5, <1>6, <1>7, <1>8, <1>9, Zenon

\* Nothing in it.
LEMMA EmptySequential == Sequential(<<>>) /\ Len(<<>>) = 0
<1>1. <<>> \in Seq({}) /\ Len(<<>>) = 0
  OBVIOUS
<1> QED BY <1>1 DEF Sequential

-----------------------------------------------------------------------------
(* The link: no answer without a waiter. *)

LinkTypes == Sequential(up) /\ Sequential(down) /\ pending \in [next : Nat, waiting : SUBSET Nat]
LinkInv == LinkTypes /\ AnswersAwaited

\* An event is queued behind the answers.
LEMMA EventSent ==
  ASSUME LinkInv, conn = "up", NEW m, m.type # "reply", down' = Append(down, m),
         UNCHANGED <<up, pending, alarm, conn>>
  PROVE  LinkInv'
<1>1. /\ Sequential(down') /\ Len(down) \in Nat /\ Len(down') = Len(down) + 1 /\ down'[Len(down) + 1] = m
      /\ \A i \in 1..Len(down) : down'[i] = down[i]
      /\ \A i \in 1..Len(down') : i \in 1..Len(down) \/ i = Len(down) + 1
  <2>1. Sequential(down)
    BY DEF LinkInv, LinkTypes
  <2> QED BY <2>1, Appended
<1>2. \A i \in 1..Len(down') : down'[i].type = "reply" => i \in 1..Len(down) /\ down'[i] = down[i]
  BY <1>1
<1>3. /\ \A i \in 1..Len(down') : down'[i].type = "reply" => down'[i].id \in pending.waiting
      /\ \A i \in 1..Len(up), j \in 1..Len(down') : down'[j].type = "reply" => up[i].id # down'[j].id
  BY <1>2 DEF LinkInv, AnswersAwaited
<1>4. \A i, j \in 1..Len(down') :
        down'[i].type = "reply" /\ down'[j].type = "reply" /\ down'[i].id = down'[j].id => i = j
  BY <1>2 DEF LinkInv, AnswersAwaited
<1>5. Sequential(up') /\ Sequential(down')
  BY <1>1 DEF LinkInv, LinkTypes
<1> QED BY <1>3, <1>4, <1>5 DEF LinkInv, LinkTypes, AnswersAwaited

\* The server answers a request.
LEMMA ServeAwaited ==
  ASSUME LinkInv, Serve
  PROVE  LinkInv'
<1>1. PICK x : down' = Append(down, [type |-> "reply", id |-> Head(up).id, answer |-> x])
  BY DEF Serve
<1>2. conn = "up" /\ up # <<>> /\ up' = Tail(up) /\ UNCHANGED <<pending, alarm, conn>>
  BY DEF Serve
<1>3. PICK m : m = [type |-> "reply", id |-> Head(up).id, answer |-> x]
  OBVIOUS
<1>12. m.type = "reply" /\ m.id = Head(up).id
  BY <1>3
<1>4. /\ Sequential(down') /\ Len(down) \in Nat /\ Len(down') = Len(down) + 1 /\ down'[Len(down) + 1] = m
      /\ \A i \in 1..Len(down) : down'[i] = down[i]
      /\ \A i \in 1..Len(down') : i \in 1..Len(down) \/ i = Len(down) + 1
  <2>1. Sequential(down) /\ down' = Append(down, m)
    BY <1>1, <1>3 DEF LinkInv, LinkTypes
  <2> QED BY <2>1, Appended
<1>5. /\ Sequential(up') /\ Len(up) \in Nat /\ Len(up) >= 1 /\ Len(up') = Len(up) - 1 /\ Head(up) = up[1]
      /\ \A i \in 1..Len(up') : up'[i] = up[i + 1] /\ i + 1 \in 2..Len(up)
  <2>1. Sequential(up)
    BY DEF LinkInv, LinkTypes
  <2> QED BY <1>2, <2>1, Taken
<1>6. 1 \in 1..Len(up) /\ m.id = up[1].id /\ \A i \in 1..Len(up') : i + 1 \in 1..Len(up) /\ i + 1 # 1
  BY <1>3, <1>5, <1>12
<1>7. \A i \in 1..Len(up') : up'[i].id \in pending.waiting
  BY <1>5, <1>6 DEF LinkInv, AnswersAwaited
<1>8. \A i, j \in 1..Len(up') : up'[i].id = up'[j].id => i = j
  <2> SUFFICES ASSUME NEW i \in 1..Len(up'), NEW j \in 1..Len(up'), up'[i].id = up'[j].id PROVE i = j
    OBVIOUS
  <2>1. i + 1 = j + 1
    BY <1>5, <1>6 DEF LinkInv, AnswersAwaited
  <2> QED BY <1>5, <2>1
<1>9. \A i \in 1..Len(down') : down'[i].type = "reply" => down'[i].id \in pending.waiting
  BY <1>4, <1>6 DEF LinkInv, AnswersAwaited
<1>10. \A i, j \in 1..Len(down') :
         down'[i].type = "reply" /\ down'[j].type = "reply" /\ down'[i].id = down'[j].id => i = j
  BY <1>4, <1>6 DEF LinkInv, AnswersAwaited
<1>11. \A i \in 1..Len(up'), j \in 1..Len(down') : down'[j].type = "reply" => up'[i].id # down'[j].id
  BY <1>4, <1>5, <1>6 DEF LinkInv, AnswersAwaited
<1> QED BY <1>2, <1>4, <1>5, <1>7, <1>8, <1>9, <1>10, <1>11 DEF LinkInv, LinkTypes, AnswersAwaited

\* The reader takes an answer or an event.
LEMMA ReadAwaited ==
  ASSUME LinkInv, Read
  PROVE  LinkInv'
<1>1. /\ down # <<>> /\ down' = Tail(down) /\ UNCHANGED <<up, conn>>
      /\ Head(down).type = "reply" => /\ alarm' = (alarm \/ Head(down).id \notin pending.waiting)
                                      /\ pending' = [pending EXCEPT !.waiting = @ \ {Head(down).id}]
      /\ Head(down).type # "reply" => UNCHANGED <<pending, alarm>>
  BY DEF Read
<1>2. /\ Sequential(down') /\ Len(down) \in Nat /\ Len(down) >= 1 /\ Len(down') = Len(down) - 1
      /\ Head(down) = down[1]
      /\ \A i \in 1..Len(down') : down'[i] = down[i + 1] /\ i + 1 \in 2..Len(down)
  <2>1. Sequential(down)
    BY DEF LinkInv, LinkTypes
  <2> QED BY <1>1, <2>1, Taken
<1>3. 1 \in 1..Len(down) /\ \A i \in 1..Len(down') : i + 1 \in 1..Len(down) /\ i + 1 # 1
  BY <1>2
<1>4. conn = "up"
  BY <1>1 DEF LinkInv, AnswersAwaited
<1>5. \A i, j \in 1..Len(down') :
        down'[i].type = "reply" /\ down'[j].type = "reply" /\ down'[i].id = down'[j].id => i = j
  <2> SUFFICES ASSUME NEW i \in 1..Len(down'), NEW j \in 1..Len(down'), down'[i].type = "reply",
                      down'[j].type = "reply", down'[i].id = down'[j].id
               PROVE  i = j
    OBVIOUS
  <2>2. /\ i + 1 \in 1..Len(down) /\ j + 1 \in 1..Len(down) /\ down[i + 1].type = "reply"
        /\ down[j + 1].type = "reply" /\ down[i + 1].id = down[j + 1].id
    BY <1>2, <1>3
  <2>1. i + 1 = j + 1
    BY <2>2 DEF LinkInv, AnswersAwaited
  <2> QED BY <1>2, <2>1
<1>6. \A i \in 1..Len(up), j \in 1..Len(down') : down'[j].type = "reply" => up[i].id # down'[j].id
  <2> SUFFICES ASSUME NEW i \in 1..Len(up), NEW j \in 1..Len(down'), down'[j].type = "reply"
               PROVE  up[i].id # down'[j].id
    OBVIOUS
  <2>1. down'[j] = down[j + 1] /\ j + 1 \in 1..Len(down)
    BY <1>2, <1>3
  <2> QED BY <2>1 DEF LinkInv, AnswersAwaited
<1>7. CASE Head(down).type = "reply"
  <2>1. PICK k : k = Head(down).id /\ k \in pending.waiting
    BY <1>2, <1>3, <1>7 DEF LinkInv, AnswersAwaited
  <2>2. ~alarm' /\ pending'.next = pending.next /\ pending'.waiting = pending.waiting \ {k}
        /\ pending' \in [next : Nat, waiting : SUBSET Nat]
    <3>1. pending' = [pending EXCEPT !.waiting = pending.waiting \ {k}] /\ alarm' = (alarm \/ k \notin pending.waiting)
      BY <1>1, <1>7, <2>1
    <3>2. pending \in [next : Nat, waiting : SUBSET Nat] /\ ~alarm
      BY DEF LinkInv, LinkTypes, AnswersAwaited
    <3> QED BY <2>1, <3>1, <3>2
  <2>3. \A i \in 1..Len(up) : up[i].id \in pending'.waiting
    BY <1>2, <1>3, <1>7, <2>1, <2>2 DEF LinkInv, AnswersAwaited
  <2>4. \A i \in 1..Len(down') : down'[i].type = "reply" => down'[i].id \in pending'.waiting
    BY <1>2, <1>3, <1>7, <2>1, <2>2 DEF LinkInv, AnswersAwaited
  <2> QED BY <1>1, <1>2, <1>4, <1>5, <1>6, <2>2, <2>3, <2>4 DEF LinkInv, LinkTypes, AnswersAwaited
<1>8. CASE Head(down).type # "reply"
  <2>1. \A i \in 1..Len(down') : down'[i].type = "reply" => down'[i].id \in pending.waiting
    BY <1>2, <1>3 DEF LinkInv, AnswersAwaited
  <2> QED BY <1>1, <1>2, <1>4, <1>5, <1>6, <1>8, <2>1 DEF LinkInv, LinkTypes, AnswersAwaited
<1> QED BY <1>7, <1>8

\* A request is sent.
LEMMA AskAwaited ==
  ASSUME LinkInv, conn = "up", NEW req, up' = Append(up, [id |-> pending.next, req |-> req]),
         pending' = [next |-> pending.next + 1, waiting |-> pending.waiting \cup {pending.next}],
         UNCHANGED <<down, alarm, conn>>
  PROVE  LinkInv'
<1>1. PICK k \in Nat : k = pending.next /\ \A i \in pending.waiting : i \in Nat /\ i < k
  BY DEF LinkInv, LinkTypes, AnswersAwaited
<1>2. k \notin pending.waiting
  BY <1>1
<1>3. /\ pending'.next = k + 1 /\ pending'.waiting = pending.waiting \cup {k}
      /\ pending' \in [next : Nat, waiting : SUBSET Nat]
  BY <1>1 DEF LinkInv, LinkTypes
<1>4. \A i \in pending'.waiting : i < pending'.next
  BY <1>1, <1>3
<1>5. PICK m : m = [id |-> pending.next, req |-> req] /\ m.id = k
  BY <1>1
<1>6. /\ Sequential(up') /\ Len(up) \in Nat /\ Len(up') = Len(up) + 1 /\ up'[Len(up) + 1] = m
      /\ \A i \in 1..Len(up) : up'[i] = up[i]
      /\ \A i \in 1..Len(up') : i \in 1..Len(up) \/ i = Len(up) + 1
  <2>1. Sequential(up) /\ up' = Append(up, m)
    BY <1>5 DEF LinkInv, LinkTypes
  <2> QED BY <2>1, Appended
<1>7. \A i \in 1..Len(up') : up'[i].id \in pending'.waiting
  BY <1>3, <1>5, <1>6 DEF LinkInv, AnswersAwaited
<1>8. \A i, j \in 1..Len(up') : up'[i].id = up'[j].id => i = j
  BY <1>2, <1>5, <1>6 DEF LinkInv, AnswersAwaited
<1>9. \A i \in 1..Len(up'), j \in 1..Len(down) : down[j].type = "reply" => up'[i].id # down[j].id
  BY <1>2, <1>5, <1>6 DEF LinkInv, AnswersAwaited
<1> QED BY <1>3, <1>4, <1>6, <1>7, <1>8, <1>9 DEF LinkInv, LinkTypes, AnswersAwaited

\* The connection is lost, or a new one is made: nothing is on it.
LEMMA NewLink ==
  ASSUME LinkInv, up' = <<>>, down' = <<>>, alarm' = alarm,
         pending' = [next |-> 1, waiting |-> {}] \/ pending' = [pending EXCEPT !.waiting = {}]
  PROVE  LinkInv'
<1>1. Sequential(up') /\ Sequential(down') /\ Len(up') = 0 /\ Len(down') = 0
  BY EmptySequential
<1>2. pending' \in [next : Nat, waiting : SUBSET Nat] /\ pending'.waiting = {}
  BY DEF LinkInv, LinkTypes
<1> QED BY <1>1, <1>2 DEF LinkInv, LinkTypes, AnswersAwaited

-----------------------------------------------------------------------------
(* What is left to do. *)

DoingInv == Sequential(doing) /\ DoingShaped

\* The task that runs ends.
LEMMA TaskEnded ==
  ASSUME DoingInv, doing # <<>>, doing' = Tail(doing)
  PROVE  DoingInv' /\ (WatchPending => WatchPending' \/ Watches(Head(doing)))
<1>1. Sequential(doing)
  BY DEF DoingInv
<1>2. /\ Sequential(doing') /\ Len(doing) \in Nat /\ Len(doing) >= 1 /\ Len(doing') = Len(doing) - 1
      /\ Head(doing) = doing[1]
      /\ \A i \in 1..Len(doing') : doing'[i] = doing[i + 1] /\ i + 1 \in 2..Len(doing)
  BY <1>1, Taken
<1>3. DoingShaped'
  <2> SUFFICES ASSUME NEW i \in 1..Len(doing') PROVE TaskShaped(doing'[i])
    BY DEF DoingShaped, TaskShaped
  <2>1. doing'[i] = doing[i + 1] /\ i + 1 \in 1..Len(doing)
    BY <1>2
  <2> QED BY <2>1 DEF DoingInv, DoingShaped
<1>4. ASSUME WatchPending, ~Watches(Head(doing)) PROVE WatchPending'
  <2>1. PICK i \in 1..Len(doing) : Watches(doing[i])
    BY <1>4 DEF WatchPending
  <2>2. i # 1
    BY <1>2, <1>4, <2>1
  <2>3. i - 1 \in 1..Len(doing') /\ (i - 1) + 1 = i
    BY <1>2, <2>2
  <2>4. doing'[i - 1] = doing[i]
    BY <1>2, <2>3
  <2> QED BY <2>1, <2>3, <2>4 DEF WatchPending, Watches
<1> QED BY <1>2, <1>3, <1>4 DEF DoingInv

\* A task is put before others.
LEMMA PutBefore ==
  ASSUME NEW s, Sequential(s), \A i \in 1..Len(s) : TaskShaped(s[i]), NEW t, TaskShaped(t), doing' = <<t>> \o s
  PROVE  /\ DoingInv' /\ doing' # <<>>
         /\ Watches(t) => WatchPending'
         /\ (\E i \in 1..Len(s) : Watches(s[i])) => WatchPending'
<1>1. /\ Sequential(doing') /\ Len(s) \in Nat /\ Len(doing') = Len(s) + 1 /\ doing'[1] = t /\ doing' # <<>>
      /\ \A i \in 1..Len(s) : doing'[i + 1] = s[i]
      /\ \A i \in 1..Len(doing') : i = 1 \/ (i - 1 \in 1..Len(s) /\ doing'[i] = s[i - 1])
  <2>1. Sequential(<<t>> \o s)
    BY Put, Zenon
  <2>2. Sequential(doing')
    BY <2>1, Zenon
  <2>3. Len(s) \in Nat /\ Len(doing') = Len(s) + 1 /\ doing'[1] = t /\ doing' # <<>>
    BY Put
  <2>4. \A i \in 1..Len(s) : doing'[i + 1] = s[i]
    BY Put
  <2>5. \A i \in 1..Len(doing') : i = 1 \/ (i - 1 \in 1..Len(s) /\ doing'[i] = s[i - 1])
    BY Put
  <2> QED BY <2>2, <2>3, <2>4, <2>5
<1>2. DoingShaped'
  <2> SUFFICES ASSUME NEW i \in 1..Len(doing') PROVE TaskShaped(doing'[i])
    BY DEF DoingShaped, TaskShaped
  <2> QED BY <1>1
<1>3. ASSUME Watches(t) PROVE WatchPending'
  <2>1. 1 \in 1..Len(doing')
    BY <1>1
  <2> QED BY <1>1, <1>3, <2>1 DEF WatchPending, Watches
<1>4. ASSUME NEW i \in 1..Len(s), Watches(s[i]) PROVE WatchPending'
  <2>1. i + 1 \in 1..Len(doing') /\ doing'[i + 1] = s[i]
    BY <1>1
  <2> QED BY <1>4, <2>1 DEF WatchPending, Watches
<1> QED BY <1>1, <1>2, <1>3, <1>4 DEF DoingInv

\* A task comes before all that is left.
LEMMA Pushed ==
  ASSUME DoingInv, NEW t, TaskShaped(t), doing' = <<t>> \o doing
  PROVE  DoingInv' /\ doing' # <<>> /\ (Watches(t) => WatchPending') /\ (WatchPending => WatchPending')
<1>1. Sequential(doing) /\ \A i \in 1..Len(doing) : TaskShaped(doing[i])
  BY DEF DoingInv, DoingShaped
<1>2. WatchPending <=> \E i \in 1..Len(doing) : Watches(doing[i])
  BY DEF WatchPending
<1> QED BY <1>1, <1>2, PutBefore

\* A task takes the place of the one that runs.
LEMMA Replaced ==
  ASSUME DoingInv, doing # <<>>, NEW t, TaskShaped(t), doing' = <<t>> \o Tail(doing)
  PROVE  DoingInv' /\ doing' # <<>> /\ (Watches(t) => WatchPending')
         /\ (WatchPending => WatchPending' \/ Watches(Head(doing)))
<1>1. Sequential(doing)
  BY DEF DoingInv
<1>2. PICK s : s = Tail(doing)
  OBVIOUS
<1>3. /\ Sequential(s) /\ Len(doing) \in Nat /\ Len(doing) >= 1 /\ Len(s) = Len(doing) - 1
      /\ Head(doing) = doing[1]
      /\ \A i \in 1..Len(s) : s[i] = doing[i + 1] /\ i + 1 \in 2..Len(doing)
  BY <1>1, <1>2, Taken
<1>4. ASSUME NEW i \in 1..Len(s) PROVE TaskShaped(s[i])
  <2>1. s[i] = doing[i + 1] /\ i + 1 \in 1..Len(doing)
    BY <1>3
  <2> QED BY <2>1 DEF DoingInv, DoingShaped
<1>5. ASSUME WatchPending, ~Watches(Head(doing)) PROVE \E i \in 1..Len(s) : Watches(s[i])
  <2>1. PICK i \in 1..Len(doing) : Watches(doing[i])
    BY <1>5 DEF WatchPending
  <2>2. i # 1
    BY <1>3, <1>5, <2>1
  <2>3. i - 1 \in 1..Len(s) /\ (i - 1) + 1 = i
    BY <1>3, <2>2
  <2>4. s[i - 1] = doing[i]
    BY <1>3, <2>3
  <2> QED BY <2>1, <2>3, <2>4
<1> QED BY <1>2, <1>3, <1>4, <1>5, PutBefore

\* The answer to the request that is waited for.
LEMMA Answered ==
  ASSUME DoingInv, Waits, NEW v, doing' = [doing EXCEPT ![1].got = v]
  PROVE  DoingInv' /\ doing' # <<>> /\ (WatchPending => WatchPending')
<1>1. Sequential(doing) /\ doing # <<>> /\ Head(doing).task = "await"
  BY DEF DoingInv, Waits
<1>2. Len(doing) \in Nat /\ Len(doing) >= 1 /\ Head(doing) = doing[1] /\ 1 \in 1..Len(doing)
  BY <1>1, Taken
<1>3. DOMAIN doing[1] = {"task", "id", "req", "got"}
  BY <1>1, <1>2 DEF DoingInv, DoingShaped, TaskShaped
<1>4. PICK x : x = [doing[1] EXCEPT !.got = v]
  OBVIOUS
<1>5. x.task = "await" /\ x.req = doing[1].req /\ DOMAIN x = {"task", "id", "req", "got"}
  BY <1>1, <1>2, <1>3, <1>4
<1>6. doing' = [doing EXCEPT ![1] = x]
  BY <1>4
<1>7. /\ Sequential(doing') /\ Len(doing') = Len(doing) /\ doing'[1] = x /\ doing' # <<>>
      /\ \A i \in 2..Len(doing) : doing'[i] = doing[i]
  <2>1. Sequential([doing EXCEPT ![1] = x])
    BY <1>1, HeadSet, Zenon
  <2>2. Sequential(doing')
    BY <1>6, <2>1, Zenon
  <2> QED BY <1>1, <1>6, <2>2, HeadSet
<1>8. \A i \in 1..Len(doing) : i = 1 \/ i \in 2..Len(doing)
  BY <1>2
<1>9. DoingShaped'
  <2> SUFFICES ASSUME NEW i \in 1..Len(doing') PROVE TaskShaped(doing'[i])
    BY DEF DoingShaped, TaskShaped
  <2>1. TaskShaped(x)
    BY <1>5 DEF TaskShaped
  <2> QED BY <1>7, <1>8, <2>1 DEF DoingInv, DoingShaped
<1>10. ASSUME WatchPending PROVE WatchPending'
  <2>1. PICK i \in 1..Len(doing) : Watches(doing[i])
    BY <1>10 DEF WatchPending
  <2>2. Watches(doing'[i])
    BY <1>1, <1>2, <1>5, <1>7, <1>8, <2>1 DEF Watches
  <2> QED BY <1>7, <2>2 DEF WatchPending, Watches
<1> QED BY <1>7, <1>9, <1>10 DEF DoingInv

-----------------------------------------------------------------------------
(* The session's fields. *)

\* The shares that run are those of the people watched.
LEMMA RunningSame ==
  ASSUME NEW s, NEW t, s.watching = t.watching, s.peers = t.peers
  PROVE  Running(s) = Running(t)
BY DEF Running

\* Nobody is watched.
LEMMA RunningNone ==
  ASSUME NEW s, s.watching = {}
  PROVE  Running(s) = NoOne
<1>1. {w \in s.watching \cap DOMAIN s.peers : s.peers[w].share # NoShare} = {}
  OBVIOUS
<1>2. Running(s) = [u \in {} |-> s.peers[u]]
  BY <1>1 DEF Running
<1> QED BY <1>2 DEF NoOne

\* What ending our share changes.
LEMMA StopShareDoes ==
  ASSUME NEW s, DOMAIN s = SessionFields
  PROVE  LET r == StopShare(s)
         IN /\ DOMAIN r = SessionFields /\ r.share = NoShare /\ r.sender = NoTracks /\ r.wanted = NoStart
            /\ r.peers = s.peers /\ r.watching = s.watching /\ r.decoding = s.decoding /\ r.tracks = s.tracks
BY DEF StopShare, SessionFields

\* What reset_room leaves.
LEMMA ResetRoomDoes ==
  ASSUME NEW x, DOMAIN x.s = SessionFields, DOMAIN x.e = EngineFields
  PROVE  LET r == ResetRoom(x)
         IN /\ DOMAIN r.s = SessionFields /\ DOMAIN r.e = EngineFields
            /\ r.s.share = NoShare /\ r.s.sender = NoTracks /\ r.s.wanted = NoStart /\ r.s.tracks = NoTracks
            /\ r.s.peers = NoOne /\ r.s.watching = {} /\ r.s.decoding = NoOne
            /\ r.e.shares = x.e.shares \ DecodedTracks(x.s) /\ r.e.mics = x.e.mics /\ r.e.peers = x.e.peers
<1>1. DOMAIN StopShare(x.s) = SessionFields /\ StopShare(x.s).share = NoShare
      /\ StopShare(x.s).sender = NoTracks /\ StopShare(x.s).wanted = NoStart
  BY StopShareDoes
<1>2. PICK p : p = StopShare(x.s)
  OBVIOUS
<1>3. ResetRoom(x) = [s |-> [p EXCEPT !.serverShare = NoShare, !.room = NoRoom, !.tracks = NoTracks,
                                      !.peers = NoOne, !.watching = {}, !.decoding = NoOne],
                      e |-> [x.e EXCEPT !.shares = @ \ DecodedTracks(x.s)]]
  BY <1>2 DEF ResetRoom
<1>4. PICK q : q = [p EXCEPT !.serverShare = NoShare, !.room = NoRoom, !.tracks = NoTracks,
                                      !.peers = NoOne, !.watching = {}, !.decoding = NoOne]
  OBVIOUS
<1>5. /\ DOMAIN q = SessionFields /\ q.share = NoShare /\ q.sender = NoTracks /\ q.wanted = NoStart
      /\ q.tracks = NoTracks /\ q.peers = NoOne /\ q.watching = {} /\ q.decoding = NoOne
  BY <1>1, <1>2, <1>4 DEF SessionFields
<1>6. PICK g : g = [x.e EXCEPT !.shares = @ \ DecodedTracks(x.s)]
  OBVIOUS
<1>7. DOMAIN g = EngineFields /\ g.shares = x.e.shares \ DecodedTracks(x.s) /\ g.mics = x.e.mics
      /\ g.peers = x.e.peers
  BY <1>6 DEF EngineFields
<1>8. ResetRoom(x).s = q /\ ResetRoom(x).e = g
  BY <1>3, <1>4, <1>6
<1> QED BY <1>5, <1>7, <1>8

\* sync_peers hears everyone the engine knows.
LEMMA SyncPeersDoes ==
  ASSUME NEW x, DOMAIN x.s = SessionFields, DOMAIN x.e = EngineFields
  PROVE  LET r == SyncPeers(x)
         IN /\ DOMAIN r.s = SessionFields /\ DOMAIN r.e = EngineFields
            /\ r.s.share = x.s.share /\ r.s.sender = x.s.sender /\ r.s.wanted = x.s.wanted
            /\ r.s.tracks = x.s.tracks /\ r.s.watching = x.s.watching /\ r.s.decoding = x.s.decoding
            /\ r.s.peers = x.e.peers /\ r.e.shares = x.e.shares
            /\ {x.e.peers[u].tracks : u \in DOMAIN x.e.peers} \subseteq r.e.mics
<1> DEFINE T == {x.e.peers[u].tracks : u \in DOMAIN x.e.peers}
<1>1. PICK G : SyncPeers(x) = [s |-> [x.s EXCEPT !.peers = x.e.peers], e |-> [x.e EXCEPT !.mics = (@ \ G) \cup T]]
  BY DEF SyncPeers
<1> HIDE DEF T
<1>2. PICK q : q = [x.s EXCEPT !.peers = x.e.peers]
  OBVIOUS
<1>3. PICK g : g = [x.e EXCEPT !.mics = (x.e.mics \ G) \cup T]
  OBVIOUS
<1>4. SyncPeers(x).s = q /\ SyncPeers(x).e = g
  BY <1>1, <1>2, <1>3
<1>5. /\ DOMAIN q = SessionFields /\ q.share = x.s.share /\ q.sender = x.s.sender /\ q.wanted = x.s.wanted
      /\ q.tracks = x.s.tracks /\ q.watching = x.s.watching /\ q.decoding = x.s.decoding /\ q.peers = x.e.peers
  BY <1>2 DEF SessionFields
<1>6. DOMAIN g = EngineFields /\ g.shares = x.e.shares /\ T \subseteq g.mics
  BY <1>3 DEF EngineFields
<1> QED BY <1>4, <1>5, <1>6 DEF T

\* after_join keeps nothing of the old placement.
LEMMA AfterJoinDoes ==
  ASSUME NEW x, NEW p, DOMAIN x.s = SessionFields, DOMAIN x.e = EngineFields
  PROVE  LET r == AfterJoin(x, p)
         IN /\ DOMAIN r.s = SessionFields /\ DOMAIN r.e = EngineFields
            /\ r.s.share = NoShare /\ r.s.sender = NoTracks /\ r.s.wanted = NoStart
            /\ r.s.watching = {} /\ r.s.decoding = NoOne
            /\ r.e.shares = x.e.shares \ DecodedTracks(x.s)
            /\ {r.s.peers[u].tracks : u \in DOMAIN r.s.peers} \subseteq r.e.mics
<1>1. PICK r : r = ResetRoom(x)
  OBVIOUS
<1>2. /\ DOMAIN r.s = SessionFields /\ DOMAIN r.e = EngineFields
      /\ r.s.share = NoShare /\ r.s.sender = NoTracks /\ r.s.wanted = NoStart
      /\ r.s.watching = {} /\ r.s.decoding = NoOne
      /\ r.e.shares = x.e.shares \ DecodedTracks(x.s)
  BY <1>1, ResetRoomDoes
<1>3. PICK q : q = [r.s EXCEPT !.room = p.room, !.tracks = p.tracks]
  OBVIOUS
<1>4. /\ DOMAIN q = SessionFields /\ q.share = NoShare /\ q.sender = NoTracks /\ q.wanted = NoStart
      /\ q.watching = {} /\ q.decoding = NoOne
  BY <1>2, <1>3 DEF SessionFields
<1>9. PICK y : y = [s |-> q, e |-> r.e]
  OBVIOUS
<1>5. y = [s |-> q, e |-> r.e] /\ y.s = q /\ y.e = r.e
  BY <1>9
<1>6. AfterJoin(x, p) = SyncPeers(y)
  BY <1>1, <1>3, <1>5 DEF AfterJoin
<1>7. LET z == SyncPeers(y)
      IN /\ DOMAIN z.s = SessionFields /\ DOMAIN z.e = EngineFields
         /\ z.s.share = y.s.share /\ z.s.sender = y.s.sender /\ z.s.wanted = y.s.wanted
         /\ z.s.tracks = y.s.tracks /\ z.s.watching = y.s.watching /\ z.s.decoding = y.s.decoding
         /\ z.s.peers = y.e.peers /\ z.e.shares = y.e.shares
         /\ {y.e.peers[u].tracks : u \in DOMAIN y.e.peers} \subseteq z.e.mics
  BY <1>2, <1>4, <1>5, SyncPeersDoes
<1> QED BY <1>2, <1>4, <1>5, <1>6, <1>7

\* sync_watching leaves the decoders of the running shares watched, and those subscribed.
LEMMA SyncWatchingDoes ==
  ASSUME NEW x, DOMAIN x.s = SessionFields, DOMAIN x.e = EngineFields, x.e.shares = DecodedTracks(x.s)
  PROVE  /\ DOMAIN SyncWatching(x).s = SessionFields /\ DOMAIN SyncWatching(x).e = EngineFields
         /\ SyncWatching(x).s.share = x.s.share /\ SyncWatching(x).s.sender = x.s.sender
         /\ SyncWatching(x).s.wanted = x.s.wanted /\ SyncWatching(x).s.tracks = x.s.tracks
         /\ SyncWatching(x).s.watching = x.s.watching /\ SyncWatching(x).s.peers = x.s.peers
         /\ SyncWatching(x).s.decoding = Running(x.s)
         /\ SyncWatching(x).e.shares = DecodedTracks(SyncWatching(x).s) /\ SyncWatching(x).e.mics = x.e.mics
<1> DEFINE St == Stale(x.s)
           kept == DOMAIN x.s.decoding \ St
           now == [u \in kept \cup DOMAIN Running(x.s) |->
                     IF u \in kept THEN x.s.decoding[u] ELSE Running(x.s)[u]]
           A == {x.s.decoding[u].tracks : u \in St}
<1>0. SyncWatching(x) = [s |-> [x.s EXCEPT !.decoding = now],
                         e |-> [x.e EXCEPT !.shares = (@ \ A) \cup {now[u].tracks : u \in DOMAIN now}]]
  BY DEF SyncWatching
<1>1. PICK d, R : d = x.s.decoding /\ R = Running(x.s)
  OBVIOUS
<1>2. kept = DOMAIN d \ St
  BY <1>1
<1>3. St = {u \in DOMAIN d : u \notin DOMAIN R \/ R[u] # d[u]}
  BY <1>1 DEF Stale
<1>4. now = [u \in kept \cup DOMAIN R |-> IF u \in kept THEN d[u] ELSE R[u]]
  BY <1>1
<1>16. A = {d[u].tracks : u \in St}
  BY <1>1
<1> HIDE DEF St, kept, now, A
<1>5. now = R
  <2>1. kept \cup DOMAIN R = DOMAIN R /\ \A u \in kept : R[u] = d[u]
    BY <1>2, <1>3
  <2>2. now = [u \in DOMAIN R |-> R[u]]
    BY <1>4, <2>1
  <2>3. R = [u \in DOMAIN R |-> R[u]]
    BY <1>1 DEF Running
  <2> QED BY <2>2, <2>3
<1>6. PICK q : q = [x.s EXCEPT !.decoding = R]
  OBVIOUS
<1>7. PICK B : B = {R[u].tracks : u \in DOMAIN R}
  OBVIOUS
<1>8. PICK g : g = [x.e EXCEPT !.shares = (x.e.shares \ A) \cup B]
  OBVIOUS
<1>9. SyncWatching(x) = [s |-> q, e |-> g]
  BY <1>0, <1>5, <1>6, <1>7, <1>8
<1>10. SyncWatching(x).s = q /\ SyncWatching(x).e = g
  BY <1>9
<1>11. /\ DOMAIN q = SessionFields /\ q.share = x.s.share /\ q.sender = x.s.sender /\ q.wanted = x.s.wanted
       /\ q.tracks = x.s.tracks /\ q.watching = x.s.watching /\ q.peers = x.s.peers /\ q.decoding = R
  BY <1>6 DEF SessionFields
<1>12. DOMAIN g = EngineFields /\ g.mics = x.e.mics /\ g.shares = (x.e.shares \ A) \cup B
  BY <1>8 DEF EngineFields
<1>13. DecodedTracks(q) = B
  BY <1>7, <1>11 DEF DecodedTracks
<1>14. x.e.shares \ A \subseteq B
  <2> SUFFICES ASSUME NEW t \in x.e.shares, t \notin A PROVE t \in B
    OBVIOUS
  <2>1. PICK u \in DOMAIN d : t = d[u].tracks
    BY <1>1 DEF DecodedTracks
  <2>2. u \notin St
    BY <1>16, <2>1
  <2>3. u \in DOMAIN R /\ R[u] = d[u]
    BY <1>3, <2>2
  <2> QED BY <1>7, <2>1, <2>3
<1>15. g.shares = DecodedTracks(q)
  BY <1>12, <1>13, <1>14
<1> QED BY <1>1, <1>10, <1>11, <1>12, <1>15

\* A placement keeps what is subscribed to, or forgets it all.
LEMMA EnginePlacedDoes ==
  ASSUME NEW e, NEW p, DOMAIN e = EngineFields
  PROVE  /\ DOMAIN EnginePlaced(e, p) = EngineFields
         /\ EnginePlaced(e, p).shares = e.shares \/ EnginePlaced(e, p).shares = {}
<1>1. CASE p.room # NoRoom /\ p.room = e.room /\ p.epoch < e.epoch
  BY <1>1 DEF EnginePlaced
<1>2. CASE ~(p.room # NoRoom /\ p.room = e.room /\ p.epoch < e.epoch)
  <2>1. PICK a, b, c, sh :
          /\ EnginePlaced(e, p) = [room |-> p.room, epoch |-> a, peers |-> b, later |-> <<>>, mics |-> c, shares |-> sh]
          /\ sh = IF p.room = e.room THEN e.shares ELSE {}
    BY <1>2 DEF EnginePlaced
  <2> QED BY <2>1 DEF EngineFields
<1> QED BY <1>1, <1>2

\* A state of a room changes no subscription.
LEMMA EnginePeersDoes ==
  ASSUME NEW e, NEW r, NEW n, NEW p, DOMAIN e = EngineFields
  PROVE  /\ DOMAIN EnginePeers(e, r, n, p) = EngineFields
         /\ EnginePeers(e, r, n, p).shares = e.shares /\ EnginePeers(e, r, n, p).mics = e.mics
<1>1. PICK l : l = <<[room |-> r, epoch |-> n, peers |-> p]>>
  OBVIOUS
<1>2. \/ EnginePeers(e, r, n, p) = e
      \/ EnginePeers(e, r, n, p) = [e EXCEPT !.later = l]
      \/ EnginePeers(e, r, n, p) = [e EXCEPT !.epoch = n, !.peers = p]
  BY <1>1 DEF EnginePeers
<1> QED BY <1>2 DEF EngineFields

-----------------------------------------------------------------------------
(* What the session decodes and sends, over its steps. *)

ViewInv == DOMAIN sess = SessionFields /\ DOMAIN engine = EngineFields /\ DoingInv /\ DecodersFollow
ShareInv == DOMAIN starts = {"count", "running"} /\ StartsNumbered /\ ShareOnOwnTracks

\* The session is about to do more, and shows what it did.
LEMMA ViewKept ==
  ASSUME ViewInv, DoingInv', WatchPending => WatchPending',
         DOMAIN sess' = SessionFields, sess'.peers = sess.peers, sess'.watching = sess.watching,
         sess'.decoding = sess.decoding,
         DOMAIN engine' = EngineFields, engine'.shares = engine.shares, engine'.mics = engine.mics
  PROVE  ViewInv'
<1>1. Running(sess') = Running(sess)
  BY RunningSame
<1>2. DecodedTracks(sess') = DecodedTracks(sess)
  BY DEF DecodedTracks
<1>3. /\ engine.shares = DecodedTracks(sess)
      /\ {sess.peers[u].tracks : u \in DOMAIN sess.peers} \subseteq engine.mics
      /\ sess.decoding = Running(sess) \/ WatchPending
  BY DEF ViewInv, DecodersFollow
<1>4. /\ engine'.shares = DecodedTracks(sess')
      /\ {sess'.peers[u].tracks : u \in DOMAIN sess'.peers} \subseteq engine'.mics
      /\ sess'.decoding = Running(sess') \/ WatchPending'
  BY <1>1, <1>2, <1>3
<1> QED BY <1>4 DEF ViewInv, DecodersFollow

\* The session shows something else.
LEMMA ViewChanged ==
  ASSUME DoingInv', DOMAIN sess' = SessionFields, DOMAIN engine' = EngineFields,
         engine'.shares = DecodedTracks(sess'),
         {sess'.peers[u].tracks : u \in DOMAIN sess'.peers} \subseteq engine'.mics,
         sess'.decoding = Running(sess') \/ WatchPending'
  PROVE  ViewInv'
BY DEF ViewInv, DecodersFollow

\* After a reset there is nothing to decode.
LEMMA ViewReset ==
  ASSUME DoingInv', DOMAIN sess' = SessionFields, DOMAIN engine' = EngineFields, engine'.shares = {},
         sess'.watching = {}, sess'.decoding = NoOne,
         {sess'.peers[u].tracks : u \in DOMAIN sess'.peers} \subseteq engine'.mics
  PROVE  ViewInv'
<1>1. DecodedTracks(sess') = {}
  BY DEF DecodedTracks, NoOne
<1>2. Running(sess') = NoOne
  BY RunningNone
<1> QED BY <1>1, <1>2, ViewChanged

\* Our share and its starts end.
LEMMA ShareReset ==
  ASSUME ShareInv, sess'.share = NoShare, sess'.sender = NoTracks, sess'.wanted = NoStart, starts' = starts
  PROVE  ShareInv'
<1>1. \A r \in starts.running : r.number # NoStart
  BY DEF ShareInv, StartsNumbered, NoStart
<1> QED BY <1>1 DEF ShareInv, StartsNumbered, ShareOnOwnTracks

\* Our share goes on as it was.
LEMMA ShareKept ==
  ASSUME ShareInv, sess'.share = sess.share, sess'.sender = sess.sender, sess'.wanted = sess.wanted,
         sess'.tracks = sess.tracks, starts' = starts
  PROVE  ShareInv'
BY DEF ShareInv, StartsNumbered, ShareOnOwnTracks

\* What a command changes, and what it leaves to do.
LEMMA AfterCommandDoes ==
  ASSUME NEW s, DOMAIN s = SessionFields, NEW c \in UiCommands, NEW n
  PROVE  \E q, todo :
           /\ AfterCommand(s, c, n).s = q /\ AfterCommand(s, c, n).todo = todo
           /\ DOMAIN q = SessionFields /\ q.peers = s.peers /\ q.decoding = s.decoding /\ q.tracks = s.tracks
           /\ \/ todo = <<>> /\ q.watching = s.watching
              \/ \E t : todo = <<t>> /\ TaskShaped(t) /\ (q.watching = s.watching \/ Watches(t))
           /\ \/ /\ q.share = s.share /\ q.sender = s.sender /\ q.wanted = s.wanted
                 /\ ~(c.op = "share" /\ MayStartShare(s))
              \/ q.share = NoShare /\ q.sender = NoTracks /\ q.wanted = NoStart /\ c.op = "stop"
              \/ /\ c.op = "share" /\ MayStartShare(s)
                 /\ q.share = s.share /\ q.sender = s.sender /\ q.wanted = n
<1>1. c.op \in {"join", "leave", "renew", "mic", "deafen", "share", "stop", "watch", "unwatch"}
  BY DEF UiCommands
<1>2. ASSUME NEW t, t.task # "await" PROVE TaskShaped(t)
  BY <1>2 DEF TaskShaped
<1>3. TaskShaped(AskTask(c)) /\ TaskShaped(AskTask([op |-> "key"])) /\ TaskShaped(Task("media"))
      /\ TaskShaped(Task("watched")) /\ Watches(Task("watched"))
  BY DEF TaskShaped, AskTask, Task, Watches
<1>4. CASE c.op \in {"join", "leave"}
  <2>1. AfterCommand(s, c, n) = [s |-> s, todo |-> <<AskTask(c)>>]
    BY <1>4 DEF AfterCommand
  <2> QED BY <1>3, <1>4, <2>1
<1>5. CASE c.op = "renew"
  <2>1. AfterCommand(s, c, n) = [s |-> s, todo |-> <<AskTask([op |-> "key"])>>]
    BY <1>5 DEF AfterCommand
  <2> QED BY <1>3, <1>5, <2>1
<1>6. CASE c.op = "mic"
  <2>1. AfterCommand(s, c, n) = [s |-> SetMic(s, c.on), todo |-> <<Task("media")>>]
    BY <1>6 DEF AfterCommand
  <2>2. PICK q : q = SetMic(s, c.on)
    OBVIOUS
  <2>3. /\ DOMAIN q = SessionFields /\ q.peers = s.peers /\ q.decoding = s.decoding /\ q.tracks = s.tracks
        /\ q.watching = s.watching /\ q.share = s.share /\ q.sender = s.sender /\ q.wanted = s.wanted
    BY <2>2 DEF SetMic, SessionFields
  <2> QED BY <1>3, <1>6, <2>1, <2>2, <2>3
<1>7. CASE c.op = "deafen"
  <2>1. AfterCommand(s, c, n) = [s |-> SetDeafened(s, c.on), todo |-> <<Task("media")>>]
    BY <1>7 DEF AfterCommand
  <2>2. PICK q : q = SetDeafened(s, c.on)
    OBVIOUS
  <2>3. /\ DOMAIN q = SessionFields /\ q.peers = s.peers /\ q.decoding = s.decoding /\ q.tracks = s.tracks
        /\ q.watching = s.watching /\ q.share = s.share /\ q.sender = s.sender /\ q.wanted = s.wanted
    BY <2>2 DEF SetDeafened, SessionFields
  <2> QED BY <1>3, <1>7, <2>1, <2>2, <2>3
<1>8. CASE c.op = "share"
  <2>1. AfterCommand(s, c, n) = [s |-> IF MayStartShare(s) THEN [s EXCEPT !.wanted = n] ELSE s, todo |-> <<>>]
    BY <1>8 DEF AfterCommand
  <2>2. PICK q : q = IF MayStartShare(s) THEN [s EXCEPT !.wanted = n] ELSE s
    OBVIOUS
  <2>3. /\ DOMAIN q = SessionFields /\ q.peers = s.peers /\ q.decoding = s.decoding /\ q.tracks = s.tracks
        /\ q.watching = s.watching /\ q.share = s.share /\ q.sender = s.sender
        /\ q.wanted = IF MayStartShare(s) THEN n ELSE s.wanted
    BY <2>2 DEF SessionFields
  <2>4. AfterCommand(s, c, n).s = q /\ AfterCommand(s, c, n).todo = <<>>
    BY <2>1, <2>2
  <2>5. CASE MayStartShare(s)
    BY <1>8, <2>3, <2>4, <2>5
  <2>6. CASE ~MayStartShare(s)
    BY <1>8, <2>3, <2>4, <2>6
  <2> QED BY <2>5, <2>6
<1>9. CASE c.op = "stop"
  <2>1. AfterCommand(s, c, n) = [s |-> StopShare(s), todo |-> <<Task("media")>>]
    BY <1>9 DEF AfterCommand
  <2>2. PICK q : q = StopShare(s)
    OBVIOUS
  <2>3. /\ DOMAIN q = SessionFields /\ q.peers = s.peers /\ q.decoding = s.decoding /\ q.tracks = s.tracks
        /\ q.watching = s.watching /\ q.share = NoShare /\ q.sender = NoTracks /\ q.wanted = NoStart
    BY <2>2, StopShareDoes
  <2> QED BY <1>3, <1>9, <2>1, <2>2, <2>3
<1>10. CASE c.op \in {"watch", "unwatch"}
  <2>1. PICK W : AfterCommand(s, c, n) = [s |-> [s EXCEPT !.watching = W], todo |-> <<Task("watched")>>]
    BY <1>10 DEF AfterCommand
  <2>2. PICK q : q = [s EXCEPT !.watching = W]
    OBVIOUS
  <2>3. /\ DOMAIN q = SessionFields /\ q.peers = s.peers /\ q.decoding = s.decoding /\ q.tracks = s.tracks
        /\ q.share = s.share /\ q.sender = s.sender /\ q.wanted = s.wanted
    BY <2>2 DEF SessionFields
  <2>4. AfterCommand(s, c, n).s = q /\ AfterCommand(s, c, n).todo = <<Task("watched")>>
    BY <2>1, <2>2
  <2>5. ~(c.op = "share" /\ MayStartShare(s))
    BY <1>10
  <2> QED BY <1>3, <2>3, <2>4, <2>5, Zenon
<1> QED BY <1>1, <1>4, <1>5, <1>6, <1>7, <1>8, <1>9, <1>10

\* A capture that a command starts is the one wanted, on the tracks of the placement.
LEMMA ShareBegun ==
  ASSUME ShareInv, NEW c \in UiCommands, c.op = "share", MayStartShare(sess),
         sess'.share = sess.share, sess'.sender = sess.sender, sess'.tracks = sess.tracks,
         sess'.wanted = starts.count + 1, starts' = Starts(c)
  PROVE  ShareInv'
<1>1. c.config \in Configs /\ c.config # NoShare
  BY SessionAssumption DEF UiCommands
<1>2. PICK m : m = [number |-> starts.count + 1, tracks |-> sess.tracks, config |-> c.config]
  OBVIOUS
<1>3. m.number = starts.count + 1 /\ m.tracks = sess.tracks /\ m.config # NoShare
  BY <1>1, <1>2
<1>4. starts' = [count |-> starts.count + 1, running |-> starts.running \cup {m}]
  BY <1>2 DEF Starts
<1>5. DOMAIN starts' = {"count", "running"} /\ starts'.count = starts.count + 1
      /\ starts'.running = starts.running \cup {m}
  BY <1>4
<1>6. sess.tracks # NoTracks /\ starts.count \in Nat
  BY DEF MayStartShare, ShareInv, StartsNumbered
<1>7. \A r \in starts.running : /\ r.number \in 1..starts'.count /\ r.number # starts.count + 1
                                 /\ r.tracks # NoTracks /\ r.config # NoShare
  BY <1>5, <1>6 DEF ShareInv, StartsNumbered
<1>8. StartsNumbered'
  <2>1. m.number \in 1..starts'.count
    BY <1>3, <1>5, <1>6
  <2> QED BY <1>3, <1>5, <1>6, <1>7, <2>1 DEF StartsNumbered
<1>9. ShareOnOwnTracks'
  BY <1>3, <1>5, <1>7 DEF ShareInv, ShareOnOwnTracks
<1> QED BY <1>5, <1>8, <1>9 DEF ShareInv

\* Session::command.
LEMMA Done ==
  ASSUME ViewInv, ShareInv, NEW c \in UiCommands, Do(c, doing), engine' = engine
  PROVE  ViewInv' /\ ShareInv'
<1>1. DOMAIN sess = SessionFields /\ DoingInv /\ DecodersFollow /\ DOMAIN engine = EngineFields
  BY DEF ViewInv
<1>7. PICK n : n = starts.count + 1
  OBVIOUS
<1>2. PICK q, todo :
           /\ AfterCommand(sess, c, n).s = q /\ AfterCommand(sess, c, n).todo = todo
           /\ DOMAIN q = SessionFields /\ q.peers = sess.peers /\ q.decoding = sess.decoding /\ q.tracks = sess.tracks
           /\ \/ todo = <<>> /\ q.watching = sess.watching
              \/ \E t : todo = <<t>> /\ TaskShaped(t) /\ (q.watching = sess.watching \/ Watches(t))
           /\ \/ /\ q.share = sess.share /\ q.sender = sess.sender /\ q.wanted = sess.wanted
                 /\ ~(c.op = "share" /\ MayStartShare(sess))
              \/ q.share = NoShare /\ q.sender = NoTracks /\ q.wanted = NoStart /\ c.op = "stop"
              \/ /\ c.op = "share" /\ MayStartShare(sess)
                 /\ q.share = sess.share /\ q.sender = sess.sender /\ q.wanted = n
  BY <1>1, AfterCommandDoes
<1>3. sess' = q /\ doing' = todo \o doing /\ starts' = Starts(c)
  BY <1>2, <1>7 DEF Do
<1>4. DoingInv' /\ (WatchPending => WatchPending') /\ (sess'.watching = sess.watching \/ WatchPending')
  <2>1. CASE todo = <<>> /\ q.watching = sess.watching
    <3>1. PICK S : doing \in Seq(S)
      BY <1>1 DEF DoingInv, Sequential
    <3>2. doing' = doing
      BY <1>3, <2>1, <3>1, ConcatEmptySeq
    <3> QED BY <1>1, <1>3, <2>1, <3>2 DEF DoingInv, DoingShaped, WatchPending, Sequential
  <2>2. ASSUME NEW t, todo = <<t>>, TaskShaped(t), q.watching = sess.watching \/ Watches(t)
        PROVE  DoingInv' /\ (WatchPending => WatchPending') /\ (sess'.watching = sess.watching \/ WatchPending')
    <3>1. doing' = <<t>> \o doing
      BY <1>3, <2>2
    <3>2. DoingInv' /\ (Watches(t) => WatchPending') /\ (WatchPending => WatchPending')
      BY <1>1, <2>2, <3>1, Pushed
    <3> QED BY <1>3, <2>2, <3>2
  <2> QED BY <1>2, <2>1, <2>2, Zenon
<1>5. ViewInv'
  <2>1. CASE sess'.watching = sess.watching
    BY <1>1, <1>2, <1>3, <1>4, <2>1, ViewKept
  <2>2. CASE WatchPending'
    <3>1. DecodedTracks(sess') = DecodedTracks(sess)
      BY <1>2, <1>3 DEF DecodedTracks
    <3>2. engine.shares = DecodedTracks(sess) /\ {sess.peers[u].tracks : u \in DOMAIN sess.peers} \subseteq engine.mics
      BY <1>1 DEF DecodersFollow
    <3>3. engine'.shares = DecodedTracks(sess')
          /\ {sess'.peers[u].tracks : u \in DOMAIN sess'.peers} \subseteq engine'.mics
      BY <1>2, <1>3, <3>1, <3>2
    <3> QED BY <1>1, <1>2, <1>3, <1>4, <2>2, <3>3, ViewChanged
  <2> QED BY <1>4, <2>1, <2>2
<1>6. ShareInv'
  <2>1. CASE /\ q.share = sess.share /\ q.sender = sess.sender /\ q.wanted = sess.wanted
             /\ ~(c.op = "share" /\ MayStartShare(sess))
    <3>1. starts' = starts
      BY <1>3, <2>1 DEF Starts
    <3> QED BY <1>2, <1>3, <2>1, <3>1, ShareKept
  <2>2. CASE q.share = NoShare /\ q.sender = NoTracks /\ q.wanted = NoStart /\ c.op = "stop"
    <3>1. starts' = starts
      BY <1>3, <2>2 DEF Starts
    <3> QED BY <1>3, <2>2, <3>1, ShareReset
  <2>3. CASE /\ c.op = "share" /\ MayStartShare(sess)
             /\ q.share = sess.share /\ q.sender = sess.sender /\ q.wanted = n
    BY <1>2, <1>3, <1>7, <2>3, ShareBegun
  <2> QED BY <1>2, <2>1, <2>2, <2>3
<1> QED BY <1>5, <1>6

-----------------------------------------------------------------------------
(* Every step keeps the link's promise. *)

\* A step beside the link.
LEMMA LinkSame ==
  ASSUME LinkInv, UNCHANGED <<up, down, pending, alarm>>, conn' = conn \/ conn # "up"
  PROVE  LinkInv'
BY DEF LinkInv, LinkTypes, AnswersAwaited, Sequential

\* The link, over every step.
LEMMA LinkStep ==
  ASSUME LinkInv, SessionNext
  PROVE  LinkInv'
<1>1. CASE Serve
  BY <1>1, ServeAwaited
<1>2. ASSUME NEW o \in Others, OtherActs(o) PROVE LinkInv'
  <2>1. UNCHANGED <<up, pending, alarm, conn>>
    BY <1>2 DEF OtherActs
  <2>2. down' = down \/ (conn = "up" /\ down' = Append(down, PeersChanged(hub')))
    BY <1>2 DEF OtherActs
  <2>3. CASE down' = down
    BY <2>1, <2>3, LinkSame
  <2>4. CASE conn = "up" /\ down' = Append(down, PeersChanged(hub'))
    <3>1. PICK m : m = PeersChanged(hub')
      OBVIOUS
    <3>2. m.type # "reply" /\ down' = Append(down, m)
      BY <2>4, <3>1 DEF PeersChanged
    <3> QED BY <2>1, <2>4, <3>2, EventSent
  <2> QED BY <2>2, <2>3, <2>4
<1>3. CASE PutOutByHub
  <2>1. PICK m : m = [type |-> "kicked", room |-> hub.room]
    OBVIOUS
  <2>2. m.type # "reply" /\ down' = Append(down, m) /\ conn = "up" /\ UNCHANGED <<up, pending, alarm, conn>>
    BY <1>3, <2>1 DEF PutOutByHub
  <2> QED BY <2>2, EventSent
<1>4. CASE Read
  BY <1>4, ReadAwaited
<1>5. CASE Timeout
  <2>1. UNCHANGED <<up, down, alarm, conn>> /\ pending' = [pending EXCEPT !.waiting = pending.waiting]
    BY <1>5 DEF Timeout, Forgotten
  <2>2. pending' = pending
    BY <2>1 DEF LinkInv, LinkTypes
  <2> QED BY <2>1, <2>2, LinkSame
<1>6. CASE Cut
  <2>1. up' = <<>> /\ down' = <<>> /\ alarm' = alarm /\ pending' = [pending EXCEPT !.waiting = {}]
    BY <1>6 DEF Cut
  <2> QED BY <2>1, NewLink
<1>7. CASE Asks
  <2>1. UNCHANGED <<down, alarm, conn>>
    BY <1>7 DEF Asks
  <2>2. \/ UNCHANGED <<up, pending>>
        \/ \E req : /\ conn = "up" /\ up' = Append(up, [id |-> pending.next, req |-> req])
                    /\ pending' = [next |-> pending.next + 1, waiting |-> pending.waiting \cup {pending.next}]
    BY <1>7 DEF Asks, Ask
  <2>3. CASE UNCHANGED <<up, pending>>
    BY <2>1, <2>3, LinkSame
  <2>4. ASSUME NEW req, conn = "up", up' = Append(up, [id |-> pending.next, req |-> req]),
               pending' = [next |-> pending.next + 1, waiting |-> pending.waiting \cup {pending.next}]
        PROVE  LinkInv'
    BY <2>1, <2>4, AskAwaited
  <2> QED BY <2>2, <2>3, <2>4
<1>8. CASE KeyTaken
  <2>1. \/ UNCHANGED <<conn, up, down, pending, alarm>>
        \/ up' = <<>> /\ down' = <<>> /\ alarm' = alarm /\ pending' = [pending EXCEPT !.waiting = {}]
    BY <1>8 DEF KeyTaken
  <2>2. CASE UNCHANGED <<conn, up, down, pending, alarm>>
    BY <2>2, LinkSame
  <2>3. CASE up' = <<>> /\ down' = <<>> /\ alarm' = alarm /\ pending' = [pending EXCEPT !.waiting = {}]
    BY <2>3, NewLink
  <2> QED BY <2>1, <2>2, <2>3
<1>9. CASE SignIn
  <2>1. UNCHANGED <<up, down, alarm>> /\ conn = "lost" /\ pending' = [next |-> 1, waiting |-> {}]
    BY <1>9 DEF SignIn
  <2>2. up' = <<>> /\ down' = <<>>
    BY <2>1 DEF LinkInv, AnswersAwaited
  <2> QED BY <2>1, <2>2, NewLink
<1>10. CASE LinkLost \/ GiveUp
  <2>1. UNCHANGED <<up, down, pending, alarm>> /\ conn # "up"
    BY <1>10 DEF LinkLost, GiveUp
  <2> QED BY <2>1, LinkSame
<1>11. CASE \/ Pump \/ LinkClosed \/ Command \/ Replay \/ Joined \/ MediaTaken \/ WatchedTaken
            \/ Event \/ ShareStarted \/ ShareEnded \/ QueueCommand \/ Click
  <2>1. UNCHANGED <<up, down, pending, alarm, conn>>
    BY <1>11 DEF Pump, LinkClosed, Command, Replay, Joined, MediaTaken, WatchedTaken, Event, ShareStarted,
                 ShareEnded, QueueCommand, Click
  <2> QED BY <2>1, LinkSame
<1> QED BY <1>1, <1>2, <1>3, <1>4, <1>5, <1>6, <1>7, <1>8, <1>9, <1>10, <1>11 DEF SessionNext

-----------------------------------------------------------------------------
(* The commands. *)

\* The command that a newer one supersedes is taken out: nothing else is of its switch.
LEMMA KeptOnce ==
  ASSUME NEW S, NEW q \in Seq(S), Once(q), NEW c, NEW at \in 1..Len(q), Supersedes(c, q[at]),
         NEW k, k = SubSeq(q, 1, at - 1) \o SubSeq(q, at + 1, Len(q))
  PROVE  k \in Seq(S) /\ Once(k) /\ \A i \in 1..Len(k) : ~Supersedes(c, k[i])
<1>1. PICK L \in Nat : L = Len(q)
  BY LenProperties
<1>12. at \in 1..L /\ \A i \in 1..L : q[i] \in S
  BY <1>1, ElementOfSeq
<1>2. PICK f : f = SubSeq(q, 1, at - 1)
  OBVIOUS
<1>3. PICK g : g = SubSeq(q, at + 1, L)
  OBVIOUS
<1>4. f \in Seq(S) /\ Len(f) = at - 1 /\ \A i \in 1..(at - 1) : f[i] = q[i]
  <2>1. 1 \in Int /\ at - 1 \in Int /\ \A i \in 1..(at - 1) : q[i] \in S
    BY <1>12
  <2>2. /\ f \in Seq(S) /\ Len(f) = IF 1 <= at - 1 THEN (at - 1) - 1 + 1 ELSE 0
        /\ \A i \in 1..((at - 1) - 1 + 1) : f[i] = q[1 + i - 1]
    BY <1>2, <2>1, SubSeqProperties
  <2> QED BY <1>12, <2>2
<1>5. g \in Seq(S) /\ Len(g) = L - at /\ \A i \in 1..(L - at) : g[i] = q[at + i]
  <2>1. at + 1 \in Int /\ L \in Int /\ \A i \in (at + 1)..L : q[i] \in S
    BY <1>12
  <2>2. /\ g \in Seq(S) /\ Len(g) = IF at + 1 <= L THEN L - (at + 1) + 1 ELSE 0
        /\ \A i \in 1..(L - (at + 1) + 1) : g[i] = q[(at + 1) + i - 1]
    BY <1>3, <2>1, SubSeqProperties
  <2>3. \A i \in 1..(L - at) : i \in 1..(L - (at + 1) + 1) /\ (at + 1) + i - 1 = at + i
    BY <1>12
  <2>4. \A i \in 1..(L - at) : g[i] = q[at + i]
    BY <2>2, <2>3
  <2>5. Len(g) = L - at
    BY <1>12, <2>2
  <2> QED BY <2>2, <2>4, <2>5
<1>6. /\ k \in Seq(S) /\ Len(k) = (at - 1) + (L - at)
      /\ \A i \in 1..((at - 1) + (L - at)) : k[i] = IF i <= at - 1 THEN f[i] ELSE g[i - (at - 1)]
  <2>1. k = f \o g
    BY <1>1, <1>2, <1>3
  <2>2. /\ f \o g \in Seq(S) /\ Len(f \o g) = Len(f) + Len(g)
        /\ \A i \in 1..(Len(f) + Len(g)) : (f \o g)[i] = IF i <= Len(f) THEN f[i] ELSE g[i - Len(f)]
    BY <1>4, <1>5, ConcatProperties
  <2> QED BY <1>4, <1>5, <2>1, <2>2
<1>7. Len(k) = L - 1
  BY <1>12, <1>6
<1>8. \A i \in 1..(L - 1) : i < at => k[i] = q[i]
  <2> SUFFICES ASSUME NEW i \in 1..(L - 1), i < at PROVE k[i] = q[i]
    OBVIOUS
  <2>1. i \in 1..((at - 1) + (L - at)) /\ i <= at - 1 /\ i \in 1..(at - 1)
    BY <1>12
  <2> QED BY <1>4, <1>6, <2>1
<1>9. \A i \in 1..(L - 1) : i >= at => k[i] = q[i + 1]
  <2> SUFFICES ASSUME NEW i \in 1..(L - 1), i >= at PROVE k[i] = q[i + 1]
    OBVIOUS
  <2>1. /\ i \in 1..((at - 1) + (L - at)) /\ ~(i <= at - 1) /\ i - (at - 1) \in 1..(L - at)
        /\ at + (i - (at - 1)) = i + 1
    BY <1>12
  <2>2. k[i] = g[i - (at - 1)]
    BY <1>6, <2>1
  <2>3. g[i - (at - 1)] = q[at + (i - (at - 1))]
    BY <1>5, <2>1
  <2> QED BY <2>1, <2>2, <2>3
<1>13. ASSUME NEW i \in 1..Len(k)
       PROVE  \E m \in 1..L : k[i] = q[m] /\ m # at /\ m = IF i < at THEN i ELSE i + 1
  <2>0. i \in 1..(L - 1)
    BY <1>7
  <2>1. CASE i < at
    <3>1. i \in 1..L /\ i # at
      BY <1>12, <2>0, <2>1
    <3> QED BY <1>8, <2>0, <2>1, <3>1
  <2>2. CASE i >= at
    <3>1. i + 1 \in 1..L /\ i + 1 # at /\ ~(i < at)
      BY <1>12, <2>0, <2>2
    <3> QED BY <1>9, <2>0, <2>2, <3>1
  <2>3. i < at \/ i >= at
    BY <1>12, <2>0
  <2> QED BY <2>1, <2>2, <2>3
<1>10. ASSUME NEW i \in 1..Len(k), NEW j \in 1..Len(k), Supersedes(k[i], k[j]) PROVE i = j
  <2>1. PICK m \in 1..L : k[i] = q[m] /\ m = IF i < at THEN i ELSE i + 1
    BY <1>13
  <2>2. PICK n \in 1..L : k[j] = q[n] /\ n = IF j < at THEN j ELSE j + 1
    BY <1>13
  <2>3. m = n
    BY <1>1, <1>10, <2>1, <2>2 DEF Once
  <2> QED BY <1>12, <1>7, <2>1, <2>2, <2>3
<1>11. ASSUME NEW i \in 1..Len(k), Supersedes(c, k[i]) PROVE FALSE
  <2>1. PICK m \in 1..L : k[i] = q[m] /\ m # at
    BY <1>13
  <2>2. Supersedes(q[at], q[m])
    BY <1>11, <2>1 DEF Supersedes
  <2> QED BY <1>1, <2>1, <2>2 DEF Once
<1> QED BY <1>6, <1>10, <1>11 DEF Once

\* A command that arrives while reconnecting leaves the queue in order.
LEMMA QueuedDoes ==
  ASSUME NEW q \in Seq(UiCommands), Once(q), NEW c \in UiCommands
  PROVE  Queued(q, c) \in Seq(UiCommands) /\ Once(Queued(q, c))
<1> DEFINE S == UiCommands
           older == {i \in 1..Len(q) : Supersedes(c, q[i])}
           at == CHOOSE i \in older : TRUE
           kept == IF older = {} THEN q ELSE SubSeq(q, 1, at - 1) \o SubSeq(q, at + 1, Len(q))
<1>1. Queued(q, c) = IF Len(kept) < MaxQueued THEN Append(kept, c) ELSE kept
  BY DEF Queued
<1>2. kept \in Seq(S) /\ Once(kept) /\ \A i \in 1..Len(kept) : ~Supersedes(c, kept[i])
  <2>1. CASE older = {}
    <3>1. \A i \in 1..Len(q) : ~Supersedes(c, q[i])
      BY <2>1
    <3>2. kept = q
      BY <2>1
    <3> QED BY <3>1, <3>2
  <2>2. CASE older # {}
    <3>1. at \in older
      BY <2>2
    <3>2. at \in 1..Len(q) /\ Supersedes(c, q[at])
      BY <3>1
    <3>3. kept = SubSeq(q, 1, at - 1) \o SubSeq(q, at + 1, Len(q))
      BY <2>2
    <3> HIDE DEF at, kept, older, S
    <3>4. q \in Seq(S)
      BY DEF S
    <3> QED BY <3>2, <3>3, <3>4, KeptOnce
  <2> QED BY <2>1, <2>2
<1>3. PICK k : k = kept
  OBVIOUS
<1> HIDE DEF kept, at, older
<1>4. k \in Seq(UiCommands) /\ Once(k) /\ \A i \in 1..Len(k) : ~Supersedes(c, k[i])
  BY <1>2, <1>3
<1>5. PICK n : n = Append(k, c)
  OBVIOUS
<1>6. /\ n \in Seq(UiCommands) /\ Len(k) \in Nat /\ Len(n) = Len(k) + 1 /\ n[Len(k) + 1] = c
      /\ \A i \in 1..Len(k) : n[i] = k[i]
  BY <1>4, <1>5
<1>7. \A i \in 1..Len(n) : i \in 1..Len(k) \/ i = Len(k) + 1
  BY <1>6
<1>8. \A i \in 1..Len(k) : ~Supersedes(k[i], c)
  BY <1>4 DEF Supersedes
<1>9. Once(n)
  <2> SUFFICES ASSUME NEW i \in 1..Len(n), NEW j \in 1..Len(n), Supersedes(n[i], n[j]) PROVE i = j
    BY DEF Once
  <2> QED BY <1>4, <1>6, <1>7, <1>8 DEF Once
<1>10. Queued(q, c) = n \/ Queued(q, c) = k
  BY <1>1, <1>3, <1>5
<1> QED BY <1>4, <1>6, <1>9, <1>10

\* The commands, over every step.
LEMMA QueueStep ==
  ASSUME QueueInv, SessionNext
  PROVE  QueueInv'
<1> DEFINE S == UiCommands
<1>0. /\ "commands" \in DOMAIN story /\ story.commands \subseteq S /\ commands \in Seq(S)
      /\ DOMAIN retry = {"want", "before", "watching", "queued"}
      /\ retry.queued \in Seq(S) /\ Once(retry.queued)
  BY DEF QueueInv
<1> HIDE DEF S
<1>1. CASE UNCHANGED <<story, commands, retry>>
  BY <1>1 DEF QueueInv, Once
<1>2. CASE /\ UNCHANGED <<commands, retry>>
           /\ \E v : \/ story' = [story EXCEPT !.moves = v] \/ story' = [story EXCEPT !.kicks = v]
                     \/ story' = [story EXCEPT !.timeouts = v] \/ story' = [story EXCEPT !.cuts = v]
                     \/ story' = [story EXCEPT !.ends = v]
  <2>1. "commands" \in DOMAIN story' /\ story'.commands = story.commands
    BY <1>0, <1>2
  <2> QED BY <1>0, <1>2, <2>1 DEF QueueInv, Once, S
<1>3. CASE Command
  <2>1. UNCHANGED <<story, retry>> /\ commands # <<>> /\ commands' = Tail(commands)
    BY <1>3 DEF Command
  <2>2. commands' \in Seq(S)
    BY <1>0, <2>1
  <2> QED BY <1>0, <2>1, <2>2 DEF QueueInv, Once, S
<1>4. CASE Replay
  <2>1. UNCHANGED <<story, commands>>
        /\ \/ retry' = retry
           \/ retry.queued # <<>> /\ retry' = [retry EXCEPT !.queued = Tail(retry.queued)]
    BY <1>4 DEF Replay
  <2>2. CASE retry' = retry
    BY <2>1, <2>2, <1>1
  <2>3. CASE retry.queued # <<>> /\ retry' = [retry EXCEPT !.queued = Tail(retry.queued)]
    <3>1. PICK t : t = Tail(retry.queued)
      OBVIOUS
    <3>2. PICK q : q = retry.queued
      OBVIOUS
    <3>3. /\ t \in Seq(S) /\ Len(q) \in Nat /\ Len(t) = Len(q) - 1
          /\ \A i \in 1..Len(t) : t[i] = q[i + 1] /\ i + 1 \in 1..Len(q)
      BY <1>0, <2>3, <3>1, <3>2
    <3>4. ASSUME NEW i \in 1..Len(t), NEW j \in 1..Len(t), Supersedes(t[i], t[j]) PROVE i = j
      <4>1. i + 1 = j + 1
        BY <1>0, <3>2, <3>3, <3>4 DEF Once
      <4> QED BY <3>3, <4>1
    <3>5. DOMAIN retry' = DOMAIN retry /\ retry'.queued = t
      BY <1>0, <2>3, <3>1
    <3>6. Once(retry'.queued)
      BY <3>4, <3>5 DEF Once
    <3> QED BY <1>0, <2>1, <3>3, <3>5, <3>6 DEF QueueInv, Once, S
  <2> QED BY <2>1, <2>2, <2>3
<1>5. CASE LinkLost
  <2>1. UNCHANGED <<story, commands>>
        /\ retry' = [want |-> sess.room, before |-> sess.room, watching |-> sess.watching, queued |-> <<>>]
    BY <1>5 DEF LinkLost
  <2>2. DOMAIN retry' = {"want", "before", "watching", "queued"} /\ retry'.queued = <<>>
    BY <2>1
  <2>3. <<>> \in Seq(S) /\ Once(<<>>)
    BY DEF Once
  <2> QED BY <1>0, <2>1, <2>2, <2>3 DEF QueueInv, Once, S
<1>6. CASE QueueCommand
  <2>1. UNCHANGED story /\ commands # <<>> /\ commands' = Tail(commands)
    BY <1>6 DEF QueueCommand
  <2>2. commands' \in Seq(S) /\ Head(commands) \in S
    BY <1>0, <2>1
  <2>3. \/ \E w : retry' = [retry EXCEPT !.want = w]
        \/ retry' = [retry EXCEPT !.queued = Queued(retry.queued, Head(commands))]
    BY <1>6 DEF QueueCommand
  <2>4. CASE \E w : retry' = [retry EXCEPT !.want = w]
    <3>1. DOMAIN retry' = DOMAIN retry /\ retry'.queued = retry.queued
      BY <1>0, <2>4
    <3> QED BY <1>0, <2>1, <2>2, <3>1 DEF QueueInv, Once, S
  <2>5. CASE retry' = [retry EXCEPT !.queued = Queued(retry.queued, Head(commands))]
    <3>1. PICK q : q = Queued(retry.queued, Head(commands))
      OBVIOUS
    <3>2. q \in Seq(S) /\ Once(q)
      BY <1>0, <2>2, <3>1, QueuedDoes DEF S
    <3>3. DOMAIN retry' = DOMAIN retry /\ retry'.queued = q
      BY <1>0, <2>5, <3>1
    <3>4. Once(retry'.queued)
      BY <3>2, <3>3
    <3> QED BY <1>0, <2>1, <2>2, <3>2, <3>3, <3>4 DEF QueueInv, Once, S
  <2> QED BY <2>3, <2>4, <2>5
<1>7. CASE Click
  <2>1. PICK c \in story.commands : commands' = Append(commands, c)
    BY <1>7 DEF Click
  <2>2. UNCHANGED retry /\ story' = [story EXCEPT !.clicks = story.clicks - 1]
    BY <1>7 DEF Click
  <2>3. "commands" \in DOMAIN story' /\ story'.commands = story.commands
    BY <1>0, <2>2
  <2>4. commands' \in Seq(S)
    BY <1>0, <2>1
  <2> QED BY <1>0, <2>2, <2>3, <2>4 DEF QueueInv, Once, S
<1>8. ASSUME NEW o \in Others, OtherActs(o) PROVE QueueInv'
  <2>1. UNCHANGED <<commands, retry>> /\ story' = [story EXCEPT !.moves = story.moves - 1]
    BY <1>8 DEF OtherActs
  <2> QED BY <1>2, <2>1
<1>9. CASE PutOutByHub \/ Timeout \/ Cut \/ ShareEnded
  <2>1. /\ UNCHANGED <<commands, retry>>
        /\ \/ story' = [story EXCEPT !.kicks = story.kicks - 1]
           \/ story' = [story EXCEPT !.timeouts = story.timeouts - 1]
           \/ story' = [story EXCEPT !.cuts = story.cuts - 1]
           \/ story' = [story EXCEPT !.ends = story.ends - 1]
    BY <1>9 DEF PutOutByHub, Timeout, Cut, ShareEnded
  <2> QED BY <1>2, <2>1
<1>10. CASE \/ Serve \/ Read \/ Pump \/ LinkClosed \/ Asks \/ Joined \/ MediaTaken \/ WatchedTaken \/ KeyTaken
            \/ Event \/ ShareStarted \/ SignIn \/ GiveUp
  <2>1. UNCHANGED <<story, commands, retry>>
    BY <1>10 DEF Serve, Read, Pump, LinkClosed, Asks, Joined, MediaTaken, WatchedTaken, KeyTaken, Event,
                 ShareStarted, SignIn, GiveUp
  <2> QED BY <1>1, <2>1
<1> QED BY <1>3, <1>4, <1>5, <1>6, <1>7, <1>8, <1>9, <1>10 DEF SessionNext

-----------------------------------------------------------------------------
(* Every step keeps what is decoded and sent. *)

\* Only what is left to do changes.
LEMMA DoingChanged ==
  ASSUME ViewInv, ShareInv, DoingInv', WatchPending => WatchPending', UNCHANGED <<sess, engine, starts>>
  PROVE  ViewInv' /\ ShareInv'
<1>1. DOMAIN sess = SessionFields /\ DOMAIN engine = EngineFields
  BY DEF ViewInv
<1>2. ViewInv'
  BY <1>1, ViewKept
<1>3. ShareInv'
  BY ShareKept
<1> QED BY <1>2, <1>3

\* A step beside the session.
LEMMA BesideSession ==
  ASSUME ViewInv, ShareInv, UNCHANGED <<sess, engine, starts, doing>>
  PROVE  ViewInv' /\ ShareInv'
<1>1. DoingInv' /\ (WatchPending => WatchPending')
  BY DEF ViewInv, DoingInv, Sequential, DoingShaped, WatchPending
<1> QED BY <1>1, DoingChanged

\* The link's answers, and its silence.
LEMMA AnswerStep ==
  ASSUME ViewInv, ShareInv, Read \/ Timeout \/ LinkClosed
  PROVE  ViewInv' /\ ShareInv'
<1>1. UNCHANGED <<sess, engine, starts>>
  BY DEF Read, Timeout, LinkClosed
<1>2. doing' = doing \/ (Waits /\ \E v : doing' = [doing EXCEPT ![1].got = v])
  BY DEF Read, Timeout, LinkClosed
<1>3. CASE doing' = doing
  BY <1>1, <1>3, BesideSession
<1>4. ASSUME NEW v, Waits, doing' = [doing EXCEPT ![1].got = v] PROVE ViewInv' /\ ShareInv'
  <2>1. DoingInv
    BY DEF ViewInv
  <2>2. DoingInv' /\ (WatchPending => WatchPending')
    BY <1>4, <2>1, Answered
  <2> QED BY <1>1, <2>2, DoingChanged
<1> QED BY <1>2, <1>3, <1>4

\* An event on its way to the session.
LEMMA PumpStep ==
  ASSUME ViewInv, ShareInv, Pump
  PROVE  ViewInv' /\ ShareInv'
<1>1. UNCHANGED <<sess, starts, doing>>
  BY DEF Pump
<1>2. engine' = engine \/ \E r, n, p : engine' = EnginePeers(engine, r, n, p)
  BY DEF Pump
<1>3. DOMAIN sess = SessionFields /\ DOMAIN engine = EngineFields /\ DoingInv
  BY DEF ViewInv
<1>4. DOMAIN engine' = EngineFields /\ engine'.shares = engine.shares /\ engine'.mics = engine.mics
  BY <1>2, <1>3, EnginePeersDoes
<1>5. DoingInv' /\ (WatchPending => WatchPending')
  BY <1>1, <1>3 DEF DoingInv, Sequential, DoingShaped, WatchPending
<1>6. ViewInv'
  BY <1>1, <1>3, <1>4, <1>5, ViewKept
<1>7. ShareInv'
  BY <1>1, ShareKept
<1> QED BY <1>6, <1>7

\* A command, now or queued while reconnecting.
LEMMA CommandStep ==
  ASSUME ViewInv, ShareInv, QueueInv, Command \/ Replay
  PROVE  ViewInv' /\ ShareInv'
<1> DEFINE S == UiCommands
<1>0. commands \in Seq(S) /\ retry.queued \in Seq(S)
  BY DEF QueueInv
<1> HIDE DEF S
<1>1. CASE Command
  <2>1. commands # <<>> /\ Do(Head(commands), doing) /\ engine' = engine
    BY <1>1 DEF Command, Idle
  <2>2. Head(commands) \in UiCommands
    BY <1>0, <2>1 DEF S
  <2> QED BY <2>1, <2>2, Done
<1>2. CASE Replay
  <2>1. doing # <<>> /\ Head(doing).task = "replay" /\ engine' = engine
    BY <1>2 DEF Replay
  <2>2. \/ doing' = Tail(doing) /\ UNCHANGED <<sess, starts>>
        \/ retry.queued # <<>> /\ Do(Head(retry.queued), doing)
    BY <1>2 DEF Replay
  <2>3. CASE doing' = Tail(doing) /\ UNCHANGED <<sess, starts>>
    <3>1. DoingInv /\ ~Watches(Head(doing))
      BY <2>1 DEF ViewInv, Watches
    <3>2. DoingInv' /\ (WatchPending => WatchPending')
      BY <2>1, <2>3, <3>1, TaskEnded
    <3> QED BY <2>1, <2>3, <3>2, DoingChanged
  <2>4. CASE retry.queued # <<>> /\ Do(Head(retry.queued), doing)
    <3>1. PICK c : c = Head(retry.queued)
      OBVIOUS
    <3>2. c \in UiCommands
      BY <1>0, <2>4, <3>1 DEF S
    <3>3. Do(c, doing)
      BY <2>4, <3>1
    <3> QED BY <2>1, <3>2, <3>3, Done
  <2> QED BY <2>2, <2>3, <2>4
<1> QED BY <1>1, <1>2

\* The next request of the handler that runs.
LEMMA AsksStep ==
  ASSUME ViewInv, ShareInv, Asks
  PROVE  ViewInv' /\ ShareInv'
<1>1. DoingInv /\ DOMAIN sess = SessionFields /\ DOMAIN engine = EngineFields /\ DecodersFollow
  BY DEF ViewInv
<1>2. /\ doing # <<>> /\ Head(doing).task \in {"ask", "media", "watched", "rewatch"}
      /\ UNCHANGED <<engine, starts>>
  BY DEF Asks
<1>3. CASE AsksNothing
  <2>1. doing' = Tail(doing) /\ sess' = sess
    BY <1>3 DEF Asks
  <2>2. ~Watches(Head(doing))
    BY <1>3 DEF AsksNothing, Watches
  <2>3. DoingInv' /\ (WatchPending => WatchPending')
    BY <1>1, <1>2, <2>1, <2>2, TaskEnded
  <2> QED BY <1>2, <2>1, <2>3, DoingChanged
<1>4. CASE ~AsksNothing
  <2>1. PICK req : /\ doing' = <<Await(pending.next, req)>> \o Tail(doing)
                   /\ Head(doing).task \in {"watched", "rewatch"} => req = Watched(Rewatched)
    BY <1>2, <1>4 DEF Asks, Ask
  <2>2. PICK t : t = Await(pending.next, req)
    OBVIOUS
  <2>3. TaskShaped(t) /\ (Head(doing).task \in {"watched", "rewatch"} => Watches(t))
    <3>1. TaskShaped(t) /\ t.task = "await" /\ t.req = req
      BY <2>2 DEF TaskShaped, Await
    <3>2. Watched(Rewatched).op = "watched"
      BY DEF Watched
    <3> QED BY <2>1, <3>1, <3>2 DEF Watches
  <2>4. /\ DoingInv' /\ (Watches(t) => WatchPending')
        /\ WatchPending => WatchPending' \/ Watches(Head(doing))
    BY <1>1, <1>2, <2>1, <2>2, <2>3, Replaced
  <2>5. Watches(Head(doing)) => Head(doing).task = "watched"
    BY <1>2 DEF Watches
  <2>6. WatchPending => WatchPending'
    BY <2>3, <2>4, <2>5
  <2>7. CASE Head(doing).task # "rewatch"
    <3>1. sess' = sess
      BY <1>4, <2>7 DEF Asks, Rewatched
    <3> QED BY <1>2, <2>4, <2>6, <3>1, DoingChanged
  <2>8. CASE Head(doing).task = "rewatch"
    <3>1. sess' = [sess EXCEPT !.watching = retry.watching]
      BY <1>4, <2>8 DEF Asks, Rewatched
    <3>2. /\ DOMAIN sess' = SessionFields /\ sess'.peers = sess.peers /\ sess'.decoding = sess.decoding
          /\ sess'.share = sess.share /\ sess'.sender = sess.sender /\ sess'.wanted = sess.wanted
          /\ sess'.tracks = sess.tracks
      BY <1>1, <3>1 DEF SessionFields
    <3>3. WatchPending'
      BY <2>3, <2>4, <2>8
    <3>4. DecodedTracks(sess') = DecodedTracks(sess)
      BY <3>2 DEF DecodedTracks
    <3>5. engine.shares = DecodedTracks(sess) /\ {sess.peers[u].tracks : u \in DOMAIN sess.peers} \subseteq engine.mics
      BY <1>1 DEF DecodersFollow
    <3>6. engine'.shares = DecodedTracks(sess')
          /\ {sess'.peers[u].tracks : u \in DOMAIN sess'.peers} \subseteq engine'.mics
      BY <1>2, <3>2, <3>4, <3>5
    <3>7. ViewInv'
      BY <1>1, <1>2, <2>4, <3>2, <3>3, <3>6, ViewChanged
    <3>8. ShareInv'
      BY <1>2, <3>2, ShareKept
    <3> QED BY <3>7, <3>8
  <2> QED BY <2>7, <2>8
<1> QED BY <1>3, <1>4

\* Placed by the server's answer, or left where we were.
LEMMA JoinedStep ==
  ASSUME ViewInv, ShareInv, Joined
  PROVE  ViewInv' /\ ShareInv'
<1>1. DoingInv /\ DOMAIN sess = SessionFields /\ DOMAIN engine = EngineFields /\ DecodersFollow
  BY DEF ViewInv
<1>2. doing # <<>> /\ ~Watches(Head(doing)) /\ UNCHANGED starts
  BY DEF Joined, Waits, Watches
<1>3. PICK p : p = Head(doing).got[1]
  OBVIOUS
<1>4. CASE p.type # "placement"
  <2>1. doing' = Tail(doing) /\ UNCHANGED <<sess, engine>>
    BY <1>3, <1>4 DEF Joined
  <2>2. DoingInv' /\ (WatchPending => WatchPending')
    BY <1>1, <1>2, <2>1, TaskEnded
  <2> QED BY <1>2, <2>1, <2>2, DoingChanged
<1>5. CASE p.type = "placement"
  <2>1. PICK g : g = EnginePlaced(engine, p)
    OBVIOUS
  <2>2. PICK x : x = [s |-> sess, e |-> g]
    OBVIOUS
  <2>3. sess' = AfterJoin(x, p).s /\ engine' = AfterJoin(x, p).e /\ doing' = <<Task("media")>> \o Tail(doing)
    BY <1>3, <1>5, <2>1, <2>2 DEF Joined
  <2>4. x.s = sess /\ x.e = g
    BY <2>2
  <2>5. DOMAIN g = EngineFields /\ (g.shares = engine.shares \/ g.shares = {})
    BY <1>1, <2>1, EnginePlacedDoes
  <2>6. LET r == AfterJoin(x, p)
        IN /\ DOMAIN r.s = SessionFields /\ DOMAIN r.e = EngineFields
           /\ r.s.share = NoShare /\ r.s.sender = NoTracks /\ r.s.wanted = NoStart
           /\ r.s.watching = {} /\ r.s.decoding = NoOne
           /\ r.e.shares = x.e.shares \ DecodedTracks(x.s)
           /\ {r.s.peers[u].tracks : u \in DOMAIN r.s.peers} \subseteq r.e.mics
    BY <1>1, <2>4, <2>5, AfterJoinDoes
  <2>7. /\ DOMAIN sess' = SessionFields /\ DOMAIN engine' = EngineFields
        /\ sess'.share = NoShare /\ sess'.sender = NoTracks /\ sess'.wanted = NoStart
        /\ sess'.watching = {} /\ sess'.decoding = NoOne
        /\ engine'.shares = g.shares \ DecodedTracks(sess)
        /\ {sess'.peers[u].tracks : u \in DOMAIN sess'.peers} \subseteq engine'.mics
    BY <2>3, <2>4, <2>6
  <2>8. engine'.shares = {}
    BY <1>1, <2>5, <2>7 DEF DecodersFollow
  <2>9. DoingInv'
    <3>1. PICK t : t = Task("media")
      OBVIOUS
    <3>2. TaskShaped(t) /\ doing' = <<t>> \o Tail(doing)
      BY <2>3, <3>1 DEF TaskShaped, Task
    <3> QED BY <1>1, <1>2, <3>2, Replaced
  <2>10. ViewInv'
    BY <2>7, <2>8, <2>9, ViewReset
  <2>11. ShareInv'
    BY <1>2, <2>7, ShareReset
  <2> QED BY <2>10, <2>11
<1> QED BY <1>4, <1>5

\* The answer to push_media.
LEMMA MediaTakenStep ==
  ASSUME ViewInv, ShareInv, MediaTaken
  PROVE  ViewInv' /\ ShareInv'
<1>1. DoingInv /\ DOMAIN sess = SessionFields /\ DOMAIN engine = EngineFields /\ DecodersFollow
  BY DEF ViewInv
<1>2. doing # <<>> /\ ~Watches(Head(doing)) /\ UNCHANGED <<starts, engine>>
  BY DEF MediaTaken, Waits, Watches
<1>3. doing' = Tail(doing) \/ doing' = <<Task("media")>> \o Tail(doing)
  BY DEF MediaTaken
<1>4. DoingInv' /\ (WatchPending => WatchPending')
  <2>1. CASE doing' = Tail(doing)
    BY <1>1, <1>2, <2>1, TaskEnded
  <2>2. CASE doing' = <<Task("media")>> \o Tail(doing)
    <3>1. PICK t : t = Task("media")
      OBVIOUS
    <3>2. TaskShaped(t) /\ doing' = <<t>> \o Tail(doing)
      BY <2>2, <3>1 DEF TaskShaped, Task
    <3> QED BY <1>1, <1>2, <3>2, Replaced
  <2> QED BY <1>3, <2>1, <2>2
<1>5. sess' = StopShare(sess) \/ sess' = sess \/ \E v : sess' = [sess EXCEPT !.serverShare = v]
  BY DEF MediaTaken
<1>6. CASE sess' = StopShare(sess)
  <2>1. /\ DOMAIN sess' = SessionFields /\ sess'.share = NoShare /\ sess'.sender = NoTracks
        /\ sess'.wanted = NoStart /\ sess'.peers = sess.peers /\ sess'.watching = sess.watching
        /\ sess'.decoding = sess.decoding
    BY <1>1, <1>6, StopShareDoes
  <2>2. ViewInv'
    BY <1>1, <1>2, <1>4, <2>1, ViewKept
  <2>3. ShareInv'
    BY <1>2, <2>1, ShareReset
  <2> QED BY <2>2, <2>3
<1>7. CASE sess' = sess \/ \E v : sess' = [sess EXCEPT !.serverShare = v]
  <2>1. /\ DOMAIN sess' = SessionFields /\ sess'.share = sess.share /\ sess'.sender = sess.sender
        /\ sess'.wanted = sess.wanted /\ sess'.tracks = sess.tracks /\ sess'.peers = sess.peers
        /\ sess'.watching = sess.watching /\ sess'.decoding = sess.decoding
    BY <1>1, <1>7 DEF SessionFields
  <2>2. ViewInv'
    BY <1>1, <1>2, <1>4, <2>1, ViewKept
  <2>3. ShareInv'
    BY <1>2, <2>1, ShareKept
  <2> QED BY <2>2, <2>3
<1> QED BY <1>5, <1>6, <1>7

\* The answer to push_watching.
LEMMA WatchedTakenStep ==
  ASSUME ViewInv, ShareInv, WatchedTaken
  PROVE  ViewInv' /\ ShareInv'
<1>1. DoingInv /\ DOMAIN sess = SessionFields /\ DOMAIN engine = EngineFields /\ DecodersFollow
  BY DEF ViewInv
<1>2. PICK x : x = [s |-> sess, e |-> engine]
  OBVIOUS
<1>3. doing # <<>> /\ doing' = Tail(doing) /\ UNCHANGED starts
      /\ sess' = SyncWatching(x).s /\ engine' = SyncWatching(x).e
  BY <1>2 DEF WatchedTaken, Waits
<1>4. x.s = sess /\ x.e = engine
  BY <1>2
<1>5. DOMAIN x.s = SessionFields /\ DOMAIN x.e = EngineFields /\ x.e.shares = DecodedTracks(x.s)
  BY <1>1, <1>4 DEF DecodersFollow
<1>6. /\ DOMAIN sess' = SessionFields /\ DOMAIN engine' = EngineFields
      /\ sess'.share = sess.share /\ sess'.sender = sess.sender
      /\ sess'.wanted = sess.wanted /\ sess'.tracks = sess.tracks
      /\ sess'.watching = sess.watching /\ sess'.peers = sess.peers
      /\ sess'.decoding = Running(sess)
      /\ engine'.shares = DecodedTracks(sess') /\ engine'.mics = engine.mics
  BY <1>3, <1>4, <1>5, SyncWatchingDoes
<1>7. DoingInv'
  BY <1>1, <1>3, TaskEnded
<1>8. Running(sess') = Running(sess)
  BY <1>6, RunningSame
<1>9. {sess'.peers[u].tracks : u \in DOMAIN sess'.peers} \subseteq engine'.mics
  BY <1>1, <1>6 DEF DecodersFollow
<1>10. ViewInv'
  BY <1>6, <1>7, <1>8, <1>9, ViewChanged
<1>11. ShareInv'
  BY <1>3, <1>6, ShareKept
<1> QED BY <1>10, <1>11

\* The answer to renew_encryption_key.
LEMMA KeyTakenStep ==
  ASSUME ViewInv, ShareInv, KeyTaken
  PROVE  ViewInv' /\ ShareInv'
<1>1. DoingInv
  BY DEF ViewInv
<1>2. doing # <<>> /\ ~Watches(Head(doing)) /\ doing' = Tail(doing) /\ UNCHANGED <<sess, engine, starts>>
  BY DEF KeyTaken, Waits, Watches
<1>3. DoingInv' /\ (WatchPending => WatchPending')
  BY <1>1, <1>2, TaskEnded
<1> QED BY <1>2, <1>3, DoingChanged

\* One task, or none, is left.
LEMMA OneTask ==
  ASSUME NEW t, TaskShaped(t), doing' = <<t>>
  PROVE  DoingInv' /\ (Watches(t) => WatchPending')
<1>1. PICK s : s = <<>> /\ Sequential(s) /\ Len(s) = 0
  BY EmptySequential
<1>2. <<t>> \o s = <<t>>
  BY <1>1
<1>3. doing' = <<t>> \o s /\ \A i \in 1..Len(s) : TaskShaped(s[i])
  BY <1>1, <1>2
<1> QED BY <1>1, <1>3, PutBefore

\* Nothing is left to do.
LEMMA NoTask ==
  ASSUME doing' = <<>>
  PROVE  DoingInv'
<1>1. Sequential(doing') /\ Len(doing') = 0
  BY EmptySequential
<1> QED BY <1>1 DEF DoingInv, DoingShaped

\* Between handlers no watched share is still to be asked for.
LEMMA NothingPending ==
  ASSUME doing = <<>>
  PROVE  ~WatchPending
<1>1. Len(doing) = 0
  BY EmptySequential
<1> QED BY <1>1 DEF WatchPending

\* server_event: put out of the room.
LEMMA KickedStep ==
  ASSUME ViewInv, ShareInv, NEW was, was = [s |-> sess, e |-> engine],
         sess' = PutOut(was).s, engine' = PutOut(was).e, UNCHANGED <<doing, starts>>
  PROVE  ViewInv' /\ ShareInv'
<1>1. DoingInv /\ DOMAIN sess = SessionFields /\ DOMAIN engine = EngineFields /\ DecodersFollow
  BY DEF ViewInv
<1>2. PICK p : p = [room |-> NoRoom, epoch |-> 0, peers |-> NoOne]
  OBVIOUS
<1>3. PICK g : g = EnginePlaced(engine, p)
  OBVIOUS
<1>4. PICK x : x = [s |-> sess, e |-> g]
  OBVIOUS
<1>5. was.s = sess /\ was.e = engine /\ x.s = sess /\ x.e = g
  BY <1>4
<1>6. PutOut(was) = ResetRoom(x)
  BY <1>2, <1>3, <1>4, <1>5 DEF PutOut
<1>7. DOMAIN g = EngineFields /\ (g.shares = engine.shares \/ g.shares = {})
  BY <1>1, <1>3, EnginePlacedDoes
<1>8. LET r == ResetRoom(x)
      IN /\ DOMAIN r.s = SessionFields /\ DOMAIN r.e = EngineFields
         /\ r.s.share = NoShare /\ r.s.sender = NoTracks /\ r.s.wanted = NoStart /\ r.s.tracks = NoTracks
         /\ r.s.peers = NoOne /\ r.s.watching = {} /\ r.s.decoding = NoOne
         /\ r.e.shares = x.e.shares \ DecodedTracks(x.s) /\ r.e.mics = x.e.mics /\ r.e.peers = x.e.peers
  BY <1>1, <1>5, <1>7, ResetRoomDoes
<1>9. /\ DOMAIN sess' = SessionFields /\ DOMAIN engine' = EngineFields
      /\ sess'.share = NoShare /\ sess'.sender = NoTracks /\ sess'.wanted = NoStart
      /\ sess'.peers = NoOne /\ sess'.watching = {} /\ sess'.decoding = NoOne
      /\ engine'.shares = g.shares \ DecodedTracks(sess)
  BY <1>5, <1>6, <1>8
<1>10. engine'.shares = {}
  BY <1>1, <1>7, <1>9 DEF DecodersFollow
<1>11. {sess'.peers[u].tracks : u \in DOMAIN sess'.peers} \subseteq engine'.mics
  BY <1>9 DEF NoOne
<1>12. DoingInv'
  BY <1>1 DEF DoingInv, DoingShaped, Sequential
<1>13. ViewInv'
  BY <1>9, <1>10, <1>11, <1>12, ViewReset
<1>14. ShareInv'
  BY <1>9, ShareReset
<1> QED BY <1>13, <1>14

\* server_event: the people of the room changed.
LEMMA PeersStep ==
  ASSUME ViewInv, ShareInv, doing = <<>>, NEW was, was = [s |-> sess, e |-> engine],
         sess' = SyncPeers(was).s, engine' = SyncPeers(was).e, UNCHANGED starts,
         doing' = IF sess'.peers # sess.peers /\ sess.watching # {} THEN <<Task("watched")>> ELSE <<>>
  PROVE  ViewInv' /\ ShareInv'
<1>1. DoingInv /\ DOMAIN sess = SessionFields /\ DOMAIN engine = EngineFields /\ DecodersFollow
  BY DEF ViewInv
<1>2. was.s = sess /\ was.e = engine
  OBVIOUS
<1>3. LET r == SyncPeers(was)
      IN /\ DOMAIN r.s = SessionFields /\ DOMAIN r.e = EngineFields
         /\ r.s.share = was.s.share /\ r.s.sender = was.s.sender /\ r.s.wanted = was.s.wanted
         /\ r.s.tracks = was.s.tracks /\ r.s.watching = was.s.watching /\ r.s.decoding = was.s.decoding
         /\ r.s.peers = was.e.peers /\ r.e.shares = was.e.shares
         /\ {was.e.peers[u].tracks : u \in DOMAIN was.e.peers} \subseteq r.e.mics
  BY <1>1, <1>2, SyncPeersDoes
<1>4. /\ DOMAIN sess' = SessionFields /\ DOMAIN engine' = EngineFields
      /\ sess'.share = sess.share /\ sess'.sender = sess.sender /\ sess'.wanted = sess.wanted
      /\ sess'.tracks = sess.tracks /\ sess'.watching = sess.watching /\ sess'.decoding = sess.decoding
      /\ sess'.peers = engine.peers /\ engine'.shares = engine.shares
      /\ {engine.peers[u].tracks : u \in DOMAIN engine.peers} \subseteq engine'.mics
  BY <1>2, <1>3
<1>5. {sess'.peers[u].tracks : u \in DOMAIN sess'.peers} \subseteq engine'.mics
  BY <1>4
<1>6. DecodedTracks(sess') = DecodedTracks(sess)
  BY <1>4 DEF DecodedTracks
<1>7. engine'.shares = DecodedTracks(sess')
  BY <1>1, <1>4, <1>6 DEF DecodersFollow
<1>8. DoingInv' /\ (sess'.decoding = Running(sess') \/ WatchPending')
  <2>1. CASE sess'.peers # sess.peers /\ sess.watching # {}
    <3>1. PICK t : t = Task("watched")
      OBVIOUS
    <3>2. TaskShaped(t) /\ Watches(t) /\ doing' = <<t>>
      BY <2>1, <3>1 DEF TaskShaped, Watches, Task
    <3> QED BY <3>2, OneTask
  <2>2. CASE ~(sess'.peers # sess.peers /\ sess.watching # {})
    <3>1. DoingInv'
      BY <2>2, NoTask
    <3>2. sess.decoding = Running(sess)
      BY <1>1, NothingPending DEF DecodersFollow
    <3>3. Running(sess') = Running(sess)
      <4>1. CASE sess'.peers = sess.peers
        BY <1>4, <4>1, RunningSame
      <4>2. CASE sess.watching = {}
        <5>1. Running(sess) = NoOne
          BY <4>2, RunningNone
        <5>2. Running(sess') = NoOne
          BY <1>4, <4>2, RunningNone
        <5> QED BY <5>1, <5>2
      <4> QED BY <2>2, <4>1, <4>2
    <3> QED BY <1>4, <3>1, <3>2, <3>3
  <2> QED BY <2>1, <2>2
<1>9. ViewInv'
  BY <1>4, <1>5, <1>7, <1>8, ViewChanged
<1>10. ShareInv'
  BY <1>4, ShareKept
<1> QED BY <1>9, <1>10

\* server_event.
LEMMA EventStep ==
  ASSUME ViewInv, ShareInv, Event
  PROVE  ViewInv' /\ ShareInv'
<1>1. doing = <<>> /\ UNCHANGED starts
  BY DEF Event, Idle
<1>2. PICK was : was = [s |-> sess, e |-> engine]
  OBVIOUS
<1>3. \/ UNCHANGED <<sess, engine, doing>>
      \/ sess' = PutOut(was).s /\ engine' = PutOut(was).e /\ UNCHANGED doing
      \/ /\ sess' = SyncPeers(was).s /\ engine' = SyncPeers(was).e
         /\ doing' = IF sess'.peers # sess.peers /\ sess.watching # {} THEN <<Task("watched")>> ELSE <<>>
  BY <1>2 DEF Event
<1>4. CASE UNCHANGED <<sess, engine, doing>>
  BY <1>1, <1>4, BesideSession
<1>5. CASE sess' = PutOut(was).s /\ engine' = PutOut(was).e /\ UNCHANGED doing
  BY <1>1, <1>2, <1>5, KickedStep
<1>6. CASE /\ sess' = SyncPeers(was).s /\ engine' = SyncPeers(was).e
           /\ doing' = IF sess'.peers # sess.peers /\ sess.watching # {} THEN <<Task("watched")>> ELSE <<>>
  BY <1>1, <1>2, <1>6, PeersStep
<1> QED BY <1>3, <1>4, <1>5, <1>6

\* share_started: the wanted start is sent on the tracks it was begun on, which are still ours.
LEMMA ShareStartedStep ==
  ASSUME ViewInv, ShareInv, ShareStarted
  PROVE  ViewInv' /\ ShareInv'
<1>1. DoingInv /\ DOMAIN sess = SessionFields /\ DOMAIN engine = EngineFields /\ DecodersFollow
  BY DEF ViewInv
<1>2. doing = <<>> /\ UNCHANGED engine
  BY DEF ShareStarted, Idle
<1>3. PICK r \in starts.running :
        /\ starts' = [starts EXCEPT !.running = starts.running \ {r}]
        /\ \/ UNCHANGED <<sess, doing>>
           \/ /\ r.number = sess.wanted /\ doing' = <<Task("media")>>
              /\ sess' = [sess EXCEPT !.wanted = NoStart, !.share = r.config, !.sender = r.tracks]
           \/ sess' = [sess EXCEPT !.wanted = NoStart] /\ UNCHANGED doing
  BY DEF ShareStarted
<1>4. /\ DOMAIN starts' = {"count", "running"} /\ starts'.count = starts.count
      /\ starts'.running = starts.running \ {r}
  BY <1>3 DEF ShareInv
<1>5. StartsNumbered'
  BY <1>4 DEF ShareInv, StartsNumbered
<1>6. \A k \in starts'.running : k.number # NoStart
  BY <1>4 DEF ShareInv, StartsNumbered, NoStart
<1>7. ~WatchPending
  BY <1>2, NothingPending
<1>8. CASE UNCHANGED <<sess, doing>>
  <2>1. DoingInv'
    BY <1>1, <1>8 DEF DoingInv, DoingShaped, Sequential
  <2>2. ViewInv'
    BY <1>1, <1>2, <1>7, <1>8, <2>1, ViewKept
  <2>3. ShareOnOwnTracks'
    BY <1>4, <1>8 DEF ShareInv, ShareOnOwnTracks
  <2> QED BY <1>4, <1>5, <2>2, <2>3 DEF ShareInv
<1>9. CASE /\ r.number = sess.wanted /\ doing' = <<Task("media")>>
           /\ sess' = [sess EXCEPT !.wanted = NoStart, !.share = r.config, !.sender = r.tracks]
  <2>1. /\ DOMAIN sess' = SessionFields /\ sess'.peers = sess.peers /\ sess'.watching = sess.watching
        /\ sess'.decoding = sess.decoding /\ sess'.tracks = sess.tracks
        /\ sess'.wanted = NoStart /\ sess'.share = r.config /\ sess'.sender = r.tracks
    BY <1>1, <1>9 DEF SessionFields
  <2>2. DoingInv'
    <3>1. PICK t : t = Task("media")
      OBVIOUS
    <3>2. TaskShaped(t) /\ doing' = <<t>>
      BY <1>9, <3>1 DEF TaskShaped, Task
    <3> QED BY <3>2, OneTask
  <2>3. ViewInv'
    BY <1>1, <1>2, <1>7, <2>1, <2>2, ViewKept
  <2>4. r.tracks = sess.tracks /\ r.tracks # NoTracks /\ r.config # NoShare
    BY <1>9 DEF ShareInv, ShareOnOwnTracks, StartsNumbered
  <2>5. ShareOnOwnTracks'
    BY <1>6, <2>1, <2>4 DEF ShareOnOwnTracks
  <2> QED BY <1>4, <1>5, <2>3, <2>5 DEF ShareInv
<1>10. CASE sess' = [sess EXCEPT !.wanted = NoStart] /\ UNCHANGED doing
  <2>1. /\ DOMAIN sess' = SessionFields /\ sess'.peers = sess.peers /\ sess'.watching = sess.watching
        /\ sess'.decoding = sess.decoding /\ sess'.tracks = sess.tracks
        /\ sess'.wanted = NoStart /\ sess'.share = sess.share /\ sess'.sender = sess.sender
    BY <1>1, <1>10 DEF SessionFields
  <2>2. DoingInv'
    BY <1>1, <1>10 DEF DoingInv, DoingShaped, Sequential
  <2>3. ViewInv'
    BY <1>1, <1>2, <1>7, <2>1, <2>2, ViewKept
  <2>4. ShareOnOwnTracks'
    BY <1>6, <2>1 DEF ShareInv, ShareOnOwnTracks
  <2> QED BY <1>4, <1>5, <2>3, <2>4 DEF ShareInv
<1> QED BY <1>3, <1>8, <1>9, <1>10

\* stop_ended_share.
LEMMA ShareEndedStep ==
  ASSUME ViewInv, ShareInv, ShareEnded
  PROVE  ViewInv' /\ ShareInv'
<1>1. DoingInv /\ DOMAIN sess = SessionFields /\ DOMAIN engine = EngineFields /\ DecodersFollow
  BY DEF ViewInv
<1>2. doing = <<>> /\ UNCHANGED <<engine, starts>> /\ sess' = StopShare(sess) /\ doing' = <<Task("media")>>
  BY DEF ShareEnded, Idle
<1>3. /\ DOMAIN sess' = SessionFields /\ sess'.share = NoShare /\ sess'.sender = NoTracks
      /\ sess'.wanted = NoStart /\ sess'.peers = sess.peers /\ sess'.watching = sess.watching
      /\ sess'.decoding = sess.decoding
  BY <1>1, <1>2, StopShareDoes
<1>4. DoingInv'
  <2>1. PICK t : t = Task("media")
    OBVIOUS
  <2>2. TaskShaped(t) /\ doing' = <<t>>
    BY <1>2, <2>1 DEF TaskShaped, Task
  <2> QED BY <2>2, OneTask
<1>5. ~WatchPending
  BY <1>2, NothingPending
<1>6. ViewInv'
  BY <1>1, <1>2, <1>3, <1>4, <1>5, ViewKept
<1>7. ShareInv'
  BY <1>2, <1>3, ShareReset
<1> QED BY <1>6, <1>7

\* apply_welcome: a new engine, and nothing of the old placement.
LEMMA SignInStep ==
  ASSUME ViewInv, ShareInv, SignIn
  PROVE  ViewInv' /\ ShareInv'
<1>1. DOMAIN sess = SessionFields /\ DOMAIN engine = EngineFields
  BY DEF ViewInv
<1>2. DOMAIN NewEngine = EngineFields /\ NewEngine.shares = {}
  BY DEF NewEngine, EngineFields
<1>3. PICK y : y = [s |-> sess, e |-> engine]
  OBVIOUS
<1>4. y.s = sess /\ y.e = engine
  BY <1>3
<1>5. PICK f : f = ResetRoom(y).s
  OBVIOUS
<1>6. /\ DOMAIN f = SessionFields /\ f.share = NoShare /\ f.sender = NoTracks /\ f.wanted = NoStart
      /\ f.peers = NoOne /\ f.watching = {} /\ f.decoding = NoOne
  <2>1. LET r == ResetRoom(y)
        IN /\ DOMAIN r.s = SessionFields /\ DOMAIN r.e = EngineFields
           /\ r.s.share = NoShare /\ r.s.sender = NoTracks /\ r.s.wanted = NoStart /\ r.s.tracks = NoTracks
           /\ r.s.peers = NoOne /\ r.s.watching = {} /\ r.s.decoding = NoOne
           /\ r.e.shares = y.e.shares \ DecodedTracks(y.s) /\ r.e.mics = y.e.mics /\ r.e.peers = y.e.peers
    BY <1>1, <1>4, ResetRoomDoes
  <2> QED BY <1>5, <2>1
<1>7. UNCHANGED starts /\ doing' = <<Task("media"), Task("rewatch"), Task("replay")>>
  BY DEF SignIn
<1>8. DoingInv'
  <2>1. PICK a, b, c : a = Task("media") /\ b = Task("rewatch") /\ c = Task("replay")
    OBVIOUS
  <2>2. TaskShaped(a) /\ TaskShaped(b) /\ TaskShaped(c)
    BY <2>1 DEF Task, TaskShaped
  <2>3. PICK d : d = <<a, b, c>>
    OBVIOUS
  <2>4. doing' = d
    BY <1>7, <2>1, <2>3
  <2>5. d \in Seq({a, b, c}) /\ Len(d) = 3 /\ d[1] = a /\ d[2] = b /\ d[3] = c
    BY <2>3
  <2>6. Sequential(doing') /\ \A i \in 1..Len(doing') : doing'[i] = a \/ doing'[i] = b \/ doing'[i] = c
    BY <2>4, <2>5 DEF Sequential
  <2>7. \A i \in 1..Len(doing') : TaskShaped(doing'[i])
    BY <2>2, <2>6
  <2> QED BY <2>6, <2>7 DEF DoingInv, DoingShaped, TaskShaped
<1>9. \/ sess' = f /\ engine' = NewEngine
      \/ \E p, x : /\ x = [s |-> f, e |-> EnginePlaced(NewEngine, p)]
                   /\ sess' = AfterJoin(x, p).s /\ engine' = AfterJoin(x, p).e
  BY <1>3, <1>5 DEF SignIn
<1>10. /\ DOMAIN sess' = SessionFields /\ DOMAIN engine' = EngineFields
       /\ sess'.share = NoShare /\ sess'.sender = NoTracks /\ sess'.wanted = NoStart
       /\ sess'.watching = {} /\ sess'.decoding = NoOne /\ engine'.shares = {}
       /\ {sess'.peers[u].tracks : u \in DOMAIN sess'.peers} \subseteq engine'.mics
  <2>1. CASE sess' = f /\ engine' = NewEngine
    <3>1. {sess'.peers[u].tracks : u \in DOMAIN sess'.peers} \subseteq engine'.mics
      BY <1>6, <2>1 DEF NoOne
    <3> QED BY <1>2, <1>6, <2>1, <3>1
  <2>2. ASSUME NEW p, NEW x, x = [s |-> f, e |-> EnginePlaced(NewEngine, p)],
               sess' = AfterJoin(x, p).s, engine' = AfterJoin(x, p).e
        PROVE  /\ DOMAIN sess' = SessionFields /\ DOMAIN engine' = EngineFields
               /\ sess'.share = NoShare /\ sess'.sender = NoTracks /\ sess'.wanted = NoStart
               /\ sess'.watching = {} /\ sess'.decoding = NoOne /\ engine'.shares = {}
               /\ {sess'.peers[u].tracks : u \in DOMAIN sess'.peers} \subseteq engine'.mics
    <3>1. PICK g : g = EnginePlaced(NewEngine, p)
      OBVIOUS
    <3>2. DOMAIN g = EngineFields /\ g.shares = {}
      BY <1>2, <3>1, EnginePlacedDoes
    <3>3. x.s = f /\ x.e = g
      BY <2>2, <3>1
    <3>4. LET r == AfterJoin(x, p)
          IN /\ DOMAIN r.s = SessionFields /\ DOMAIN r.e = EngineFields
             /\ r.s.share = NoShare /\ r.s.sender = NoTracks /\ r.s.wanted = NoStart
             /\ r.s.watching = {} /\ r.s.decoding = NoOne
             /\ r.e.shares = x.e.shares \ DecodedTracks(x.s)
             /\ {r.s.peers[u].tracks : u \in DOMAIN r.s.peers} \subseteq r.e.mics
      BY <1>6, <3>2, <3>3, AfterJoinDoes
    <3> QED BY <2>2, <3>2, <3>3, <3>4
  <2> QED BY <1>9, <2>1, <2>2
<1>11. ViewInv'
  BY <1>8, <1>10, ViewReset
<1>12. ShareInv'
  BY <1>7, <1>10, ShareReset
<1> QED BY <1>11, <1>12

-----------------------------------------------------------------------------

SessionInv == LinkInv /\ QueueInv /\ ViewInv /\ ShareInv

\* A session begins right.
LEMMA SessionFirst == SessionInit => SessionInv
<1> SUFFICES ASSUME SessionInit PROVE SessionInv
  OBVIOUS
<1>1. LinkInv
  <2>1. Sequential(up) /\ Len(up) = 0 /\ Sequential(down) /\ Len(down) = 0
    BY EmptySequential DEF SessionInit
  <2>2. pending \in [next : Nat, waiting : SUBSET Nat] /\ pending.waiting = {} /\ ~alarm
    BY DEF SessionInit
  <2>3. up = <<>> /\ down = <<>>
    BY DEF SessionInit
  <2> QED BY <2>1, <2>2, <2>3 DEF LinkInv, LinkTypes, AnswersAwaited
<1>2. QueueInv
  <2>1. "commands" \in DOMAIN story /\ story.commands \subseteq UiCommands
    BY SessionAssumption DEF SessionInit
  <2>2. commands = <<>> /\ retry = [want |-> NoRoom, before |-> NoRoom, watching |-> {}, queued |-> <<>>]
    BY DEF SessionInit
  <2>3. DOMAIN retry = {"want", "before", "watching", "queued"} /\ retry.queued = <<>>
    BY <2>2
  <2>4. <<>> \in Seq(UiCommands) /\ Once(<<>>)
    BY DEF Once
  <2> QED BY <2>1, <2>2, <2>3, <2>4 DEF QueueInv
<1>3. ViewInv
  <2>1. DoingInv
    <3>1. Sequential(doing) /\ Len(doing) = 0
      BY EmptySequential DEF SessionInit
    <3> QED BY <3>1 DEF DoingInv, DoingShaped
  <2>2. DOMAIN sess = SessionFields /\ sess.peers = NoOne /\ sess.watching = {} /\ sess.decoding = NoOne
    BY DEF SessionInit, NewSession, SessionFields
  <2>3. DOMAIN engine = EngineFields /\ engine.shares = {}
    BY DEF SessionInit, NewEngine, EngineFields
  <2>4. Running(sess) = NoOne
    BY <2>2, RunningNone
  <2>5. DecodedTracks(sess) = {} /\ {sess.peers[u].tracks : u \in DOMAIN sess.peers} \subseteq engine.mics
    BY <2>2 DEF DecodedTracks, NoOne
  <2> QED BY <2>1, <2>2, <2>3, <2>4, <2>5 DEF ViewInv, DecodersFollow
<1>4. ShareInv
  <2>1. starts = [count |-> 0, running |-> {}] /\ sess.sender = NoTracks /\ sess.share = NoShare
    BY DEF SessionInit, NewSession
  <2> QED BY <2>1 DEF ShareInv, StartsNumbered, ShareOnOwnTracks
<1> QED BY <1>1, <1>2, <1>3, <1>4 DEF SessionInv

\* Every step keeps it right.
LEMMA SessionStep ==
  ASSUME SessionInv, SessionNext
  PROVE  SessionInv'
<1>1. LinkInv' /\ QueueInv'
  BY LinkStep, QueueStep DEF SessionInv
<1>2. ViewInv /\ ShareInv /\ QueueInv
  BY DEF SessionInv
<1>3. ViewInv' /\ ShareInv'
  <2>1. CASE Read \/ Timeout \/ LinkClosed
    BY <1>2, <2>1, AnswerStep
  <2>2. CASE Pump
    BY <1>2, <2>2, PumpStep
  <2>3. CASE Command \/ Replay
    BY <1>2, <2>3, CommandStep
  <2>4. CASE Asks
    BY <1>2, <2>4, AsksStep
  <2>5. CASE Joined
    BY <1>2, <2>5, JoinedStep
  <2>6. CASE MediaTaken
    BY <1>2, <2>6, MediaTakenStep
  <2>7. CASE WatchedTaken
    BY <1>2, <2>7, WatchedTakenStep
  <2>8. CASE KeyTaken
    BY <1>2, <2>8, KeyTakenStep
  <2>9. CASE Event
    BY <1>2, <2>9, EventStep
  <2>10. CASE ShareStarted
    BY <1>2, <2>10, ShareStartedStep
  <2>11. CASE ShareEnded
    BY <1>2, <2>11, ShareEndedStep
  <2>12. CASE SignIn
    BY <1>2, <2>12, SignInStep
  <2>13. CASE \/ Serve \/ (\E o \in Others : OtherActs(o)) \/ PutOutByHub \/ Cut \/ LinkLost \/ QueueCommand
              \/ GiveUp \/ Click
    <3>1. UNCHANGED <<sess, engine, starts, doing>>
      BY <2>13 DEF Serve, OtherActs, PutOutByHub, Cut, LinkLost, QueueCommand, GiveUp, Click
    <3> QED BY <1>2, <3>1, BesideSession
  <2> QED BY <2>1, <2>2, <2>3, <2>4, <2>5, <2>6, <2>7, <2>8, <2>9, <2>10, <2>11, <2>12, <2>13 DEF SessionNext
<1> QED BY <1>1, <1>3 DEF SessionInv

\* However late answers are, whatever the server refuses and whenever the connection is cut:
\* the reader never takes an answer of a conforming server for one to a request never sent
\* (control.rs), a share is sent on the tracks of the placement it was started in and no other,
\* and between handlers the decoders are those of the running shares being watched, each
\* subscribed (session.rs).  Three of the four parts of SessionAgrees.
THEOREM SessionAlwaysFollows == SessionSpec => [](NoFalseAlarm /\ ShareOnOwnTracks /\ DecodesWatched)
<1>1. SessionInit => SessionInv
  BY SessionFirst
<1>2. SessionInv /\ [SessionNext]_sessionVars => SessionInv'
  <2> SUFFICES ASSUME SessionInv, [SessionNext]_sessionVars PROVE SessionInv'
    OBVIOUS
  <2>1. CASE SessionNext
    BY <2>1, SessionStep
  <2>2. CASE UNCHANGED sessionVars
    <3>1. LinkInv' /\ ViewInv' /\ ShareInv'
      BY <2>2, LinkSame, BesideSession DEF sessionVars, SessionInv
    <3>2. QueueInv'
      BY <2>2 DEF sessionVars, SessionInv, QueueInv, Once
    <3> QED BY <3>1, <3>2 DEF SessionInv
  <2> QED BY <2>1, <2>2
<1>3. SessionInv => NoFalseAlarm /\ ShareOnOwnTracks /\ DecodesWatched
  <2> SUFFICES ASSUME SessionInv PROVE NoFalseAlarm /\ ShareOnOwnTracks /\ DecodesWatched
    OBVIOUS
  <2>1. NoFalseAlarm /\ ShareOnOwnTracks
    BY DEF SessionInv, LinkInv, AnswersAwaited, NoFalseAlarm, ShareInv
  <2>2. ASSUME Idle PROVE sess.decoding = Running(sess)
    <3>1. ~WatchPending
      BY <2>2, NothingPending DEF Idle
    <3> QED BY <3>1 DEF SessionInv, ViewInv, DecodersFollow
  <2>3. DecodesWatched
    BY <2>2 DEF SessionInv, ViewInv, DecodersFollow, DecodesWatched
  <2> QED BY <2>1, <2>3
<1> QED BY <1>1, <1>2, <1>3, PTL DEF SessionSpec

=============================================================================
