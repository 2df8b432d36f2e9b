------------------------------- MODULE Pictures -------------------------------
(***************************************************************************)
(* The pictures people and the server carry, from the page they are chosen  *)
(* on to the server that stores them.  A picture is uploaded on its own and *)
(* set as somebody's afterwards; until then nobody uses it, and the server  *)
(* deletes unused ones some time after their upload whenever another        *)
(* arrives.  The names that go with the pictures are left out: they travel  *)
(* in the same requests.                                                   *)
(*                                                                         *)
(* One client is followed in detail: its two forms (PictureForm), its       *)
(* session's requests one at a time, its connection.  The other users       *)
(* reach the server by requests of their own.                              *)
(***************************************************************************)
EXTENDS Naturals, Sequences, SequencesExt, FiniteSets

CONSTANTS Pics,         \* pictures, as their hashes
          NoPic,
          MaxActs,      \* bound: picks, removals, resets and saves
          MaxCommands,  \* bound: commands in line for the session
          MaxKept,    \* commands kept while reconnecting
          MaxFaults     \* bound: cut connections and lost answers

ASSUME PicturesAssumption ==
  /\ NoPic \notin Pics /\ MaxActs \in Nat /\ MaxFaults \in Nat
  /\ MaxCommands \in Nat \ {0} /\ MaxKept \in Nat

Targets == {"profile", "server"}
\* Rows that name a picture: our user, another one, the server's profile.
Rows == {"me", "other", "server"}
Picture == Pics \cup {NoPic}
NoEdit == [is |-> FALSE]
NoRequest == [is |-> "nothing"]

VARIABLES blobs,    \* the server's pictures: "none", "fresh" within the grace, or "old"
          row,      \* database: the picture each row names
          spaced,   \* our last profile change is less than PROFILE_INTERVAL ago
          kept,     \* settings.profile's picture
          form,     \* profile_form and server_form
          picking,  \* files being chosen and shrunk
          orders, \* commands for the session, in order
          session,  \* connected, Session.profile, Session.server_profile and its request
          news,   \* what the session told the window and it has not handled
          heardOf,     \* history: the user was told of a refusal or drop since the last save
          lost,     \* history: an answer was lost on this connection
          faults

picturesVars == <<blobs, row, spaced, kept, form, picking, orders, session, news, heardOf,
                  lost, faults>>

PicturesInit ==
  /\ blobs = [p \in Pics |-> "none"] /\ row = [r \in Rows |-> NoPic] /\ spaced = FALSE
  /\ kept = NoPic
  /\ form = [t \in Targets |-> [edit |-> NoEdit, status |-> "none", pick |-> 0]]
  /\ picking = {} /\ orders = <<>> /\ news = <<>> /\ heardOf = FALSE /\ lost = FALSE
  /\ faults = 0
  /\ session = [up |-> TRUE, profile |-> NoPic, known |-> NoPic, doing |-> NoRequest]

-----------------------------------------------------------------------------
(* The server *)

PictureInUse == {row[r] : r \in Rows}

\* A mutant of Deleted: the server's own picture does not count as used.
DeletedBarServer(p) == blobs[p] = "old" /\ p \notin {row["me"], row["other"]}

\* delete_unused_blobs: what was uploaded before the grace and no row names goes.
Deleted(p) == blobs[p] = "old" /\ p \notin PictureInUse

\* set_avatar: deletes what is unused, then stores the picture or marks it as new again.
Store(p) ==
  blobs' = [q \in Pics |-> IF q = p THEN "fresh" ELSE IF Deleted(q) THEN "none" ELSE blobs[q]]

\* require_picture.
Has(p) == p # NoPic => blobs[p] # "none"

\* The grace of a picture runs out.
Ages(p) ==
  /\ blobs[p] = "fresh" /\ blobs' = [blobs EXCEPT ![p] = "old"]
  /\ UNCHANGED <<row, spaced, kept, form, picking, orders, session, news, heardOf, lost, faults>>

IntervalPasses ==
  /\ spaced /\ spaced' = FALSE
  /\ UNCHANGED <<blobs, row, kept, form, picking, orders, session, news, heardOf, lost, faults>>

\* Another user uploads a picture, or makes a stored one theirs.
OtherUploads(p) ==
  /\ Store(p)
  /\ UNCHANGED <<row, spaced, kept, form, picking, orders, session, news, heardOf, lost, faults>>

OtherSets(p) ==
  /\ Has(p) /\ row["other"] # p
  /\ row' = [row EXCEPT !["other"] = p]
  /\ UNCHANGED <<blobs, spaced, kept, form, picking, orders, session, news, heardOf, lost, faults>>

-----------------------------------------------------------------------------
(* The pages *)

Outdated(f) == [f EXCEPT !.pick = @ + 1]
Reset(f) == [edit |-> NoEdit, status |-> "none", pick |-> f.pick + 1]
Acts == form["profile"].pick + form["server"].pick
Editing(t) == form[t].status # "saving" /\ Acts < MaxActs

\* choose_picture, up to the file dialog and the shrinking it starts.
ChoosePicture(t, p) ==
  /\ Editing(t)
  /\ LET f == [Outdated(form[t]) EXCEPT !.status = "none"]
     IN form' = [form EXCEPT ![t] = f]
        /\ picking' = picking \cup {[target |-> t, pick |-> f.pick, pic |-> p]}
  /\ UNCHANGED <<blobs, row, spaced, kept, orders, session, news, heardOf, lost, faults>>

RemovePicture(t) ==
  /\ Editing(t)
  /\ LET f == Outdated(form[t])
     IN form' = [form EXCEPT ![t] = [f EXCEPT !.status = "none",
                   !.edit = [is |-> TRUE, pic |-> NoPic, act |-> f.pick]]]
  /\ UNCHANGED <<blobs, row, spaced, kept, picking, orders, session, news, heardOf, lost, faults>>

\* A mutant of Applies: every pick is applied.
AppliesAlways(f, k) == TRUE

\* Whether nothing overtook the pick.
Applies(f, k) == f.pick = k.pick

\* picked: the file was shrunk, could not be read, or the dialog was cancelled.
Picked(k) ==
  /\ picking' = picking \ {k}
  /\ \/ UNCHANGED form
     \/ Applies(form[k.target], k)
        /\ form' = [form EXCEPT ![k.target].edit =
                      [is |-> TRUE, pic |-> k.pic, act |-> k.pick]]
     \/ Applies(form[k.target], k) /\ form' = [form EXCEPT ![k.target].status = "failed"]
  /\ UNCHANGED <<blobs, row, spaced, kept, orders, session, news, heardOf, lost, faults>>

\* show_screen of the profile or overview page: the form starts afresh.
ShowPage(t) ==
  /\ Acts < MaxActs
  /\ form' = [form EXCEPT ![t] = Reset(@)]
  /\ UNCHANGED <<blobs, row, spaced, kept, picking, orders, session, news, heardOf, lost, faults>>

Send(c) == Len(orders) < MaxCommands /\ orders' = Append(orders, c)

\* save_profile on a server: kept on this computer first, then given to the session.
SaveProfile ==
  /\ Editing("profile") /\ form["profile"].edit.is /\ form["profile"].edit.pic # kept
  /\ kept' = form["profile"].edit.pic
  /\ form' = [form EXCEPT !["profile"] = [Outdated(@) EXCEPT !.edit = NoEdit,
                                            !.status = "saving"]]
  /\ Send([is |-> "profile", pic |-> form["profile"].edit.pic])
  /\ heardOf' = FALSE
  /\ UNCHANGED <<blobs, row, spaced, picking, session, news, lost, faults>>

\* save_server: the edit stays on the page until the server took it.
SaveServer ==
  /\ Editing("server") /\ form["server"].edit.is
  /\ form' = [form EXCEPT !["server"] = [Outdated(@) EXCEPT !.status = "saving"]]
  /\ Send([is |-> "server", pic |-> form["server"].edit.pic])
  /\ UNCHANGED <<blobs, row, spaced, kept, picking, session, news, heardOf, lost, faults>>

\* on_event.  A refusal nobody waits for becomes a notice.
OnSessionEvent ==
  /\ news # <<>> /\ news' = Tail(news)
  /\ LET asking == form["profile"].status = "saving"
     IN form' = CASE Head(news) = "saved" /\ asking ->
                       [form EXCEPT !["profile"].status = "saved"]
                  [] Head(news) = "refused" /\ asking ->
                       [form EXCEPT !["profile"].status = "failed"]
                  [] Head(news) = "serverSaved" ->
                       [form EXCEPT !["server"].status = "saved", !["server"].edit = NoEdit]
                  [] Head(news) = "serverRefused" ->
                       [form EXCEPT !["server"].status = "failed"]
                  [] OTHER -> form
  /\ heardOf' = (heardOf \/ Head(news) \in {"refused", "dropped"})
  /\ UNCHANGED <<blobs, row, spaced, kept, picking, orders, session, lost, faults>>

-----------------------------------------------------------------------------
(* The session *)

Tell(e) == news' = Append(news, e)

\* What try_push_profile asks first, given what the server is known to have.
FirstRequest(wanted, had) ==
  [is |-> "profile", pic |-> wanted,
   step |-> IF wanted # NoPic /\ wanted # had THEN "upload" ELSE "set"]

\* push_profile up to its first request; nothing to ask when the server has it already.
Push(s) ==
  IF s.profile = s.known
    THEN session' = s /\ Tell("saved")
    ELSE session' = [s EXCEPT !.doing = FirstRequest(s.profile, s.known)] /\ UNCHANGED news

\* The session takes its next command.  "push" is the push after a reconnect.
TakeCommand ==
  /\ session.up /\ session.doing = NoRequest /\ orders # <<>>
  /\ orders' = Tail(orders)
  /\ LET c == Head(orders)
     IN CASE c.is = "profile" -> Push([session EXCEPT !.profile = c.pic])
          [] c.is = "push" -> Push(session)
          [] c.is = "server" ->
               /\ session' = [session EXCEPT !.doing =
                    [is |-> "server", pic |-> c.pic,
                     step |-> IF c.pic = NoPic THEN "set" ELSE "upload"]]
               /\ UNCHANGED news
  /\ UNCHANGED <<blobs, row, spaced, kept, form, picking, heardOf, lost, faults>>

\* The server carries out the session's request.
Taken(d) ==
  CASE d.step = "upload" -> Store(d.pic) /\ UNCHANGED <<row, spaced>>
    [] d.step = "set" /\ d.is = "profile" ->
         /\ Has(d.pic) /\ ~spaced
         /\ row' = [row EXCEPT !["me"] = d.pic] /\ spaced' = TRUE /\ UNCHANGED blobs
    [] OTHER -> Has(d.pic) /\ row' = [row EXCEPT !["server"] = d.pic]
                /\ UNCHANGED <<blobs, spaced>>

\* It refuses one: the upload allowance, a picture gone by then, the interval.
Declined(d) == d.step = "upload" \/ ~Has(d.pic) \/ (d.is = "profile" /\ spaced)

Word(d, ok) ==
  IF ok THEN IF d.is = "profile" THEN "saved" ELSE "serverSaved"
  ELSE IF d.is = "profile" THEN "refused" ELSE "serverRefused"

\* The server's profile as the session knows it follows an answer, never a request.
Known(s, d) == IF d.is = "profile" THEN d.pic ELSE s.known

\* An answer arrives: the next step, or the event of the last.
Accepted ==
  /\ session.up /\ session.doing # NoRequest
  /\ LET d == session.doing
     IN /\ Taken(d)
        /\ IF d.step = "upload"
             THEN session' = [session EXCEPT !.doing.step = "set"] /\ UNCHANGED news
             ELSE session' = [session EXCEPT !.doing = NoRequest, !.known = Known(session, d)]
                  /\ Tell(Word(d, TRUE))
  /\ UNCHANGED <<kept, form, picking, orders, heardOf, lost, faults>>

\* A refusal, or an answer lost within a connection that lives on, carried out or not.
NotAccepted ==
  /\ session.up /\ session.doing # NoRequest
  /\ \/ Declined(session.doing) /\ UNCHANGED <<blobs, row, spaced, lost, faults>>
     \/ /\ faults < MaxFaults /\ faults' = faults + 1 /\ lost' = TRUE
        /\ Taken(session.doing) \/ UNCHANGED <<blobs, row, spaced>>
  /\ session' = [session EXCEPT !.doing = NoRequest]
  /\ Tell(Word(session.doing, FALSE))
  /\ UNCHANGED <<kept, form, picking, orders, heardOf>>

\* Whether a push that fails goes unreported: the closing connection cut it off.
CutOff(d) == d.is = "profile"

\* The connection closes, before or after the server carried out a request.  A push that
\* was cut off says nothing; everything else failed.
Closes ==
  /\ session.up /\ faults < MaxFaults /\ faults' = faults + 1
  /\ session' = [session EXCEPT !.up = FALSE, !.doing = NoRequest]
  /\ LET d == session.doing
     IN IF d = NoRequest THEN UNCHANGED <<blobs, row, spaced, news>>
        ELSE /\ Taken(d) \/ UNCHANGED <<blobs, row, spaced>>
             /\ IF CutOff(d) THEN UNCHANGED news ELSE Tell(Word(d, FALSE))
  /\ UNCHANGED <<kept, form, picking, orders, heardOf, lost>>

\* The commands at the places a test keeps.
Chosen(cs, places) ==
  LET idx == SelectSeq([i \in DOMAIN cs |-> i], LAMBDA i : i \in places)
  IN [i \in DOMAIN idx |-> cs[idx[i]]]

ProfilesAt(cs) == {i \in DOMAIN cs : cs[i].is = "profile"}
OthersAt(cs) == {i \in DOMAIN cs : cs[i].is \notin {"profile", "push"}}

\* Of the commands that arrived meanwhile, only the latest profile stays.
Superseded(cs) ==
  Chosen(cs, OthersAt(cs) \cup {i \in ProfilesAt(cs) : \A j \in ProfilesAt(cs) : j <= i})

\* A mutant of Welcomed: what the server has is taken to be what it had.
WelcomedKnowing(s) == [s EXCEPT !.up = TRUE]

\* apply_welcome: the server says which profile it has.
Welcomed(s) == [s EXCEPT !.up = TRUE, !.known = row["me"]]

\* reconnect, once the server takes us back: the queued commands are
\* carried out, those beyond the queue dropped with a notice, and the profile is pushed
\* again after them.
Reconnects ==
  /\ ~session.up
  /\ session' = Welcomed(session)
  /\ lost' = FALSE
  /\ LET cs == Superseded(orders)
         taken == SubSeq(cs, 1, IF Len(cs) < MaxKept THEN Len(cs) ELSE MaxKept)
     IN /\ orders' = Append(taken, [is |-> "push"])
        /\ IF Len(cs) > MaxKept THEN Tell("dropped") ELSE UNCHANGED news
  /\ UNCHANGED <<blobs, row, spaced, kept, form, picking, heardOf, faults>>

\* The server restarts between two connections: it deletes unused pictures and has
\* forgotten when we last changed our profile.
ServerRestarts ==
  /\ ~session.up
  /\ blobs' = [p \in Pics |-> IF Deleted(p) THEN "none" ELSE blobs[p]]
  /\ spaced' = FALSE
  /\ UNCHANGED <<row, kept, form, picking, orders, session, news, heardOf, lost, faults>>

PicturesNext ==
  \/ \E p \in Pics : Ages(p) \/ OtherUploads(p)
  \/ \E p \in Picture : OtherSets(p)
  \/ IntervalPasses
  \/ \E t \in Targets : ShowPage(t) \/ RemovePicture(t) \/ \E p \in Pics : ChoosePicture(t, p)
  \/ \E k \in picking : Picked(k)
  \/ SaveProfile \/ SaveServer \/ OnSessionEvent \/ TakeCommand
  \/ Accepted \/ NotAccepted \/ Closes \/ Reconnects \/ ServerRestarts

PicturesSpec == PicturesInit /\ [][PicturesNext]_picturesVars

-----------------------------------------------------------------------------
PicturesTypeOK ==
  /\ blobs \in [Pics -> {"none", "fresh", "old"}] /\ row \in [Rows -> Picture]
  /\ spaced \in BOOLEAN /\ kept \in Picture /\ heardOf \in BOOLEAN
  /\ \A t \in Targets : form[t].status \in {"none", "saving", "saved", "failed"}
  /\ session.up \in BOOLEAN /\ session.profile \in Picture /\ session.known \in Picture

\* Every picture a user or the server goes by is stored, however old, whatever was uploaded
\* and deleted since it was set (rooms.rs delete_unused_blobs, require_picture).
UsedStored == \A r \in Rows : Has(row[r])

\* What a page would save is never taken back by a file that was still being shrunk: an
\* edit is only followed by a later one, and none reappears once the page was shown
\* afresh or saved (app.rs PictureForm::picked).
PicksForward ==
  [][\A t \in Targets :
       LET was == form[t].edit
           is == form'[t].edit
       IN is.is /\ is # was => is.act = form'[t].pick]_picturesVars

\* Nothing of ours is under way and the profile page says "Saved", with no refusal or
\* dropped command told since.
SavedUntold ==
  /\ form["profile"].status = "saved" /\ session.up /\ session.doing = NoRequest
  /\ orders = <<>> /\ news = <<>> /\ ~heardOf

\* Once everything in line is done, "Saved" on the profile page means the server has the
\* profile kept on this computer, unless the user has been told of a refusal or a dropped
\* command since, or an answer got lost on this connection (session.rs push_profile,
\* supersedes; app.rs on_event).
SavedOrTold == SavedUntold /\ ~lost => row["me"] = kept

\* A picture chosen, saved and stored stays so (app.rs, session.rs, rooms.rs).
PicturesKept == [](UsedStored /\ SavedOrTold) /\ PicksForward

=============================================================================
