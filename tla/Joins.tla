-------------------------------- MODULE Joins --------------------------------
(***************************************************************************)
(* Which server the window is on.  app.rs joins the server in the address   *)
(* field in the background, one attempt after another, attaches the client  *)
(* of the latest, and ends a session when the user moves on, removes the    *)
(* server or is put out.  The dialogs of dialogs.rs cover the window, so    *)
(* what is behind them is clicked only while there is none.                 *)
(*                                                                         *)
(* A profile is its version: how often the user has saved another one.      *)
(***************************************************************************)
EXTENDS Naturals, FiniteSets

CONSTANTS Hosts,        \* addresses of servers
          Nowhere,      \* the empty address field
          MaxAttempts,  \* bound: joins started
          MaxProfiles   \* bound: profiles saved

ASSUME JoinsAssumption ==
  /\ Nowhere \notin Hosts /\ MaxAttempts \in Nat /\ MaxProfiles \in Nat

VARIABLES page,       \* ThroccApp.screen
          dialog,     \* ThroccApp.dialog
          field,      \* the address field
          joining,    \* ThroccApp.joining
          attempt,    \* ThroccApp.join_attempt
          connecting, \* the background tasks of join: what each took along, whether it
                      \* has opened the key store, and the identity it found there
          client,     \* ThroccApp.client and its session, or NoClient
          listed,     \* known_servers, on disk and on the server bar
          profile,    \* settings.profile
          saving,     \* profile_form.status is Saving
          starting,   \* ThroccApp.start_over
          identity    \* history: which identity the key store holds, counting from one

joinsVars == <<page, dialog, field, joining, attempt, connecting, client, listed, profile,
               saving, starting, identity>>

NoClient == [on |-> FALSE]
NoJoinDialog == [is |-> "none"]
Pages == {"onboarding", "join", "main", "settings", "server"}

JoinsTypeOK ==
  /\ page \in Pages /\ field \in Hosts \cup {Nowhere} /\ joining \in BOOLEAN
  /\ attempt \in 0..MaxAttempts + Cardinality(Hosts) * MaxAttempts
  /\ connecting \subseteq [n: Nat, host: Hosts, profile: 0..MaxProfiles,
                           open: BOOLEAN, identity: 0..MaxAttempts + 1]
  /\ identity \in 1..MaxAttempts + 1
  /\ listed \subseteq Hosts /\ profile \in 0..MaxProfiles
  /\ saving \in BOOLEAN /\ starting \in {"not", "running", "recovered", "new", "failed"}

-----------------------------------------------------------------------------
\* connected_server: the session's server, unless the session gave up.
Connected == client.on /\ client.status # "failed"

\* end_session, which disconnect and a removal from the server also take.
SessionEnds ==
  /\ client' = NoClient /\ saving' = FALSE
  /\ page' = IF page = "settings" THEN page ELSE "join"

\* Connects to the address in the field: leaves the server we are on, keeping the dialog
\* open over it, and abandons a join under way by outnumbering it.
Start(host, after) ==
  /\ Cardinality(connecting) < 2 /\ attempt < MaxAttempts
  /\ IF client.on THEN SessionEnds ELSE UNCHANGED <<client, page, saving>>
  /\ dialog' = after
  /\ joining' = TRUE
  /\ attempt' = attempt + 1
  /\ connecting' = connecting \cup
       {[n |-> attempt + 1, host |-> host, profile |-> profile, open |-> FALSE, identity |-> 0]}

\* A server on the bar: shown when we are on it, left alone while being joined, else joined.
OpenServer(host) ==
  /\ dialog = NoJoinDialog /\ page # "onboarding" /\ host \in listed
  /\ IF Connected /\ client.host = host
       THEN /\ page' = IF page \in {"settings", "server"} THEN "main" ELSE page
            /\ page' # page
            /\ UNCHANGED <<dialog, field, joining, attempt, connecting, client, saving>>
     ELSE ~(joining /\ field = host) /\ field' = host /\ Start(host, dialog)
  /\ UNCHANGED <<listed, profile, starting, identity>>

OpenAddServer ==
  /\ dialog = NoJoinDialog /\ page # "onboarding"
  /\ field' = Nowhere
  /\ dialog' = [is |-> "add"]
  /\ UNCHANGED <<page, joining, attempt, connecting, client, listed, profile, saving,
                 starting, identity>>

TypeAddress(host) ==
  /\ dialog.is = "add" /\ field # host
  /\ field' = host
  /\ UNCHANGED <<page, dialog, joining, attempt, connecting, client, listed, profile,
                 saving, starting, identity>>

\* Join in the dialog, off while a join is under way.  try_again and trust_new_key close
\* their dialog and join what the field holds by then.
Joins ==
  /\ field # Nowhere
  /\ \/ dialog.is = "add" /\ ~joining /\ Start(field, dialog)
     \/ dialog.is = "missing" /\ starting \notin {"running", "new"} /\ Start(field, NoJoinDialog)
     \/ dialog.is = "mismatch" /\ Start(field, NoJoinDialog)
  /\ UNCHANGED <<field, listed, profile, starting, identity>>

\* "Use a Fresh Invite" turns the mismatch into adding the server.
UseInvite ==
  /\ dialog.is = "mismatch"
  /\ dialog' = [is |-> "add"]
  /\ UNCHANGED <<page, field, joining, attempt, connecting, client, listed, profile,
                 saving, starting, identity>>

-----------------------------------------------------------------------------
(* An attempt goes on and ends *)

\* The task opens the key store: what it finds is neither the old identity nor the new one
\* when it looks while the identity is being started over.
OpensStore(c) ==
  /\ ~c.open
  /\ connecting' = (connecting \ {c}) \cup
       {[c EXCEPT !.open = TRUE, !.identity = IF starting = "running" THEN 0 ELSE identity]}
  /\ UNCHANGED <<page, dialog, field, joining, attempt, client, listed, profile, saving,
                 starting, identity>>

\* Only the latest attempt's result counts.
Current(c) == c.n = attempt

\* The mutant: any attempt that ends while we are joining counts.
CurrentAny(c) == joining

Latest(c) == Current(c)

Attach(c) ==
  /\ c.open
  /\ client' = [on |-> TRUE, host |-> c.host, profile |-> c.profile, status |-> "connected",
                n |-> c.n, leaving |-> FALSE, identity |-> c.identity]
  /\ page' = "main" /\ joining' = FALSE /\ dialog' = NoJoinDialog
  /\ listed' = listed \cup {c.host}
  /\ UNCHANGED <<saving, starting>>

\* A join that is no longer wanted still enrolled, so its server is on the list again; the
\* client it made is dropped.
Overtaken(c) ==
  /\ listed' \in {listed} \cup (IF c.open THEN {listed \cup {c.host}} ELSE {})
  /\ UNCHANGED <<page, dialog, joining, client, saving, starting>>

Failed(c) ==
  /\ joining' = FALSE
  /\ \/ dialog' = [is |-> "mismatch", host |-> c.host] /\ c.open /\ c.host \in listed
        /\ UNCHANGED starting
     \/ dialog' = [is |-> "missing"] /\ ~c.open /\ starting' = "not"
     \/ UNCHANGED <<dialog, starting>>
  /\ UNCHANGED <<page, client, listed, saving>>

ConnectEnds(c) ==
  /\ connecting' = connecting \ {c}
  /\ IF Latest(c) THEN Attach(c) \/ Failed(c) ELSE Overtaken(c)
  /\ UNCHANGED <<field, attempt, profile, identity>>

-----------------------------------------------------------------------------
(* Starting over *)

Guarded == starting # "running"

\* The mutant: the dialog can be dismissed while starting over runs.
GuardedNever == TRUE

MayDismiss == Guarded

Dismiss ==
  /\ dialog # NoJoinDialog /\ MayDismiss
  /\ dialog' = NoJoinDialog
  /\ UNCHANGED <<page, field, joining, attempt, connecting, client, listed, profile,
                 saving, starting, identity>>

ClickStartOver ==
  /\ dialog.is = "missing" /\ starting \in {"not", "failed"}
  /\ starting' = "running"
  /\ UNCHANGED <<page, dialog, field, joining, attempt, connecting, client, listed,
                 profile, saving, identity>>

\* The new identity is written before the servers are forgotten, so a failure may come
\* before it, between the two or after both.
StartedOver ==
  /\ starting = "running"
  /\ \/ starting' \in {"recovered", "failed"} /\ UNCHANGED <<listed, identity>>
     \/ /\ starting' \in {"new", "failed"}
        /\ identity <= MaxAttempts /\ identity' = identity + 1
        /\ listed' \in {{}} \cup (IF starting' = "failed" THEN {listed} ELSE {})
  /\ UNCHANGED <<page, dialog, field, joining, attempt, connecting, client, profile,
                 saving>>

-----------------------------------------------------------------------------
(* Leaving and removing *)

OpenServerMenu(host) ==
  /\ dialog = NoJoinDialog /\ page # "onboarding" /\ host \in listed
  /\ dialog' = IF Connected /\ client.host = host THEN [is |-> "leave"]
               ELSE [is |-> "remove", host |-> host]
  /\ UNCHANGED <<page, field, joining, attempt, connecting, client, listed, profile,
                 saving, starting, identity>>

\* LeaveServer goes to the session, which says so once the membership ended.
Leave ==
  /\ dialog.is = "leave"
  /\ dialog' = NoJoinDialog
  /\ client' = IF client.on THEN [client EXCEPT !.leaving = TRUE] ELSE client
  /\ UNCHANGED <<page, field, joining, attempt, connecting, listed, profile, saving,
                 starting, identity>>

LeftServer ==
  /\ Connected /\ client.leaving
  /\ SessionEnds /\ dialog' = NoJoinDialog
  /\ listed' = listed \ {client.host}
  /\ UNCHANGED <<field, joining, attempt, connecting, profile, starting, identity>>

RemoveServer ==
  /\ dialog.is = "remove"
  /\ LET host == dialog.host
     IN /\ IF joining /\ field = host
             THEN joining' = FALSE /\ attempt' = attempt + 1
             ELSE UNCHANGED <<joining, attempt>>
        /\ listed' = listed \ {host}
        /\ IF client.on /\ client.host = host THEN SessionEnds
           ELSE UNCHANGED <<client, page, saving>>
  /\ dialog' = NoJoinDialog
  /\ UNCHANGED <<field, connecting, profile, starting, identity>>

-----------------------------------------------------------------------------
(* The session's events *)

\* The connection is lost and found again, or given up: a save waiting on it is settled.
StatusChanges ==
  /\ client.on /\ client.status # "failed"
  /\ \E s \in {"connected", "reconnecting", "failed"} \ {client.status}:
       /\ client' = [client EXCEPT !.status = s]
       /\ saving' = (saving /\ s # "failed")
  /\ UNCHANGED <<page, dialog, field, joining, attempt, connecting, listed, profile,
                 starting, identity>>

RemovedFromServer ==
  /\ Connected
  /\ SessionEnds /\ dialog' = NoJoinDialog
  /\ UNCHANGED <<field, joining, attempt, connecting, listed, profile, starting, identity>>

ProfileAnswered ==
  /\ saving /\ Connected
  /\ saving' = FALSE
  /\ UNCHANGED <<page, dialog, field, joining, attempt, connecting, client, listed,
                 profile, starting, identity>>

-----------------------------------------------------------------------------
(* Profile and pages *)

\* The attempt under way took the profile of before, so it must not change meanwhile.
MaySave == ~joining

\* The mutant: it may.
MaySaveJoining == TRUE

SaveAllowed == MaySave

SaveEdited ==
  /\ page = "settings" /\ dialog = NoJoinDialog
  /\ ~saving /\ SaveAllowed /\ profile < MaxProfiles
  /\ profile' = profile + 1
  /\ saving' = Connected
  /\ client' = IF Connected THEN [client EXCEPT !.profile = profile + 1] ELSE client
  /\ UNCHANGED <<page, dialog, field, joining, attempt, connecting, listed, starting, identity>>

FinishOnboarding ==
  /\ page = "onboarding" /\ profile < MaxProfiles
  /\ profile' = profile + 1
  /\ page' = "join"
  /\ UNCHANGED <<dialog, field, joining, attempt, connecting, client, listed, saving,
                 starting, identity>>

\* The settings page, a server's page, and back.
ShowScreen ==
  /\ dialog = NoJoinDialog /\ page # "onboarding"
  /\ \/ page' = "settings" /\ saving' = FALSE
     \/ page' = "server" /\ page = "main" /\ Connected /\ UNCHANGED saving
     \/ /\ page \in {"settings", "server"} /\ UNCHANGED saving
        /\ page' = IF client.on THEN "main" ELSE "join"
  /\ page' # page
  /\ UNCHANGED <<dialog, field, joining, attempt, connecting, client, listed, profile,
                 starting, identity>>

-----------------------------------------------------------------------------
JoinsInit ==
  /\ page = "onboarding" /\ dialog = NoJoinDialog /\ field = Nowhere
  /\ joining = FALSE /\ attempt = 0 /\ connecting = {} /\ client = NoClient
  /\ listed \in SUBSET Hosts /\ profile = 0 /\ saving = FALSE
  /\ starting = "not" /\ identity = 1

JoinsNext ==
  \/ \E h \in Hosts: OpenServer(h) \/ TypeAddress(h) \/ OpenServerMenu(h)
  \/ OpenAddServer \/ Joins \/ UseInvite \/ \E c \in connecting: OpensStore(c) \/ ConnectEnds(c)
  \/ Dismiss \/ ClickStartOver \/ StartedOver \/ Leave \/ LeftServer \/ RemoveServer
  \/ StatusChanges \/ RemovedFromServer \/ ProfileAnswered
  \/ SaveEdited \/ FinishOnboarding \/ ShowScreen

JoinsSpec == JoinsInit /\ [][JoinsNext]_joinsVars

-----------------------------------------------------------------------------
\* The window is on the server of the join started last, and joining nothing else: an
\* earlier join that succeeds late never takes the window back (app.rs join).
AttachedIsLatest == client.on => client.n = attempt /\ ~joining

\* A session that is not given up holds the profile kept on this computer, as it must for
\* the server to be given it: a save between the join and the attach would be lost on it
\* (app.rs save_profile).
ProfileTold == Connected => client.profile = profile

\* While the identity is being started over, no session runs and no join is waited for. One
\* that was overtaken may still be at the key store, but its result won't be looked at
\* (app.rs dismiss_dialog, start_over, join).
AloneStartingOver ==
  starting = "running" =>
    dialog.is = "missing" /\ ~joining /\ ~client.on /\ \A c \in connecting: ~Current(c)

\* The session signs in as the identity there is: no client is attached whose key store was
\* opened before the identity was started over or in the middle of it (app.rs join, start_over).
IdentityPresent == client.on => client.identity = identity

\* Joins, saves and starting over don't overtake each other (app.rs).
JoinsInOrder == AttachedIsLatest /\ ProfileTold /\ AloneStartingOver /\ IdentityPresent

=============================================================================
