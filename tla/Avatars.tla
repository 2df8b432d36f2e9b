------------------------------- MODULE Avatars -------------------------------
(***************************************************************************)
(* How the pictures of the people on screen reach it.  The window asks for  *)
(* each picture it draws (ThroccApp::picture); the client notes that it is   *)
(* being fetched and sends the session a command (Client::avatar); the      *)
(* session starts a task that looks on the disk, then asks the server, a    *)
(* few at a time (fetch_avatar).  What arrived is kept by hash and decoded   *)
(* in the background.  While the session reconnects it forgets what it was   *)
(* asked for, to be asked again by a later drawing.                         *)
(***************************************************************************)
EXTENDS Naturals, Sequences, FiniteSets

CONSTANTS Hashes,
          Turns,        \* AVATAR_FETCHES
          SlotsKept,    \* AVATARS_KEPT
          ImagesKept,   \* PICTURES_KEPT
          MaxWaiting,   \* commands in the channel
          MaxUpsets     \* bound: disconnects, lost answers and changes of who is shown

ASSUME AvatarsAssumption ==
  /\ Turns \in Nat \ {0} /\ SlotsKept \in Nat /\ ImagesKept \in Nat
  /\ MaxWaiting \in Nat \ {0} /\ MaxUpsets \in Nat

VARIABLES onScreen,   \* State::avatars_in_use
          slots,   \* Shared.avatars: "none", "fetching", "ready", "missing"
          asks,    \* FetchAvatar commands in the channel
          tasks,   \* fetch tasks: the hash, the connection and how far they are
          disk,    \* the avatars directory
          images,  \* ThroccApp.pictures: "none", "empty" until decoded, "decoded"
          decoding,\* pictures being decoded in the background
          linkUp,    \* the session's connection: its number and whether it is open
          ended,   \* the session gave up
          upsets

avatarsVars == <<onScreen, slots, asks, tasks, disk, images, decoding, linkUp, ended, upsets>>

AvatarsInit ==
  /\ onScreen \in SUBSET Hashes /\ slots = [h \in Hashes |-> "none"] /\ asks = <<>> /\ tasks = {}
  /\ disk \in SUBSET Hashes /\ images = [h \in Hashes |-> "none"] /\ decoding = {}
  /\ linkUp = [n |-> 0, up |-> TRUE] /\ ended = FALSE /\ upsets = 0

Upset == upsets < MaxUpsets /\ upsets' = upsets + 1
Filled(f) == Cardinality({h \in Hashes : f[h] # "none"})

-----------------------------------------------------------------------------
(* Drawing *)

\* A mutant of Retained: decoding a picture clears the others, shown or not.
RetainedNone(h) == FALSE

\* Which decoded pictures stay when there are many: those in use.
Retained(h) == h \in onScreen

\* decode_picture, up to the decoding it starts.
Decode(h) ==
  /\ images' = [g \in Hashes |->
       IF g = h THEN "empty"
       ELSE IF Filled(images) >= ImagesKept /\ ~Retained(g) THEN "none" ELSE images[g]]
  /\ decoding' = decoding \cup {h}

\* Shared::avatar and Client::avatar: the first to ask sends a command, and takes the slot
\* back when the channel is full or the session gone.
AskFor(h) ==
  IF ~ended /\ Len(asks) < MaxWaiting
    THEN slots' = [slots EXCEPT ![h] = "fetching"] /\ asks' = Append(asks, h)
    ELSE UNCHANGED <<slots, asks>>

Draw(h) ==
  /\ h \in onScreen /\ images[h] = "none" /\ slots[h] \in {"none", "ready"}
  /\ IF slots[h] = "ready" THEN Decode(h) /\ UNCHANGED <<slots, asks>>
     ELSE AskFor(h) /\ UNCHANGED <<images, decoding>>
  /\ UNCHANGED <<onScreen, tasks, disk, linkUp, ended, upsets>>

\* A picture that does not decode keeps its empty place; one that does is kept even when
\* its place was cleared meanwhile.
Decoded(h) ==
  /\ h \in decoding /\ decoding' = decoding \ {h}
  /\ images' \in {[images EXCEPT ![h] = "decoded"], images}
  /\ UNCHANGED <<onScreen, slots, asks, tasks, disk, linkUp, ended, upsets>>

-----------------------------------------------------------------------------
(* The session *)

Forget(h) == slots' = [slots EXCEPT ![h] = "none"]

\* A mutant of PassOver: the command is dropped and the slot stays.
PassOverQuietly(h) == UNCHANGED slots

\* A FetchAvatar command during a reconnect: asked again on a later drawing.
PassOver(h) == Forget(h)

TakeAsk ==
  /\ asks # <<>> /\ ~ended
  /\ asks' = Tail(asks)
  /\ IF linkUp.up
       THEN /\ tasks' = tasks \cup {[hash |-> Head(asks), n |-> linkUp.n, step |-> "disk"]}
            /\ UNCHANGED slots
     ELSE PassOver(Head(asks)) /\ UNCHANGED tasks
  /\ UNCHANGED <<onScreen, disk, images, decoding, linkUp, ended, upsets>>

Drops ==
  /\ linkUp.up /\ ~ended /\ Upset /\ linkUp' = [linkUp EXCEPT !.up = FALSE]
  /\ UNCHANGED <<onScreen, slots, asks, tasks, disk, images, decoding, ended>>

\* Reconnected: the welcome may show other people.
Reconnected ==
  /\ ~linkUp.up /\ ~ended /\ linkUp' = [n |-> linkUp.n + 1, up |-> TRUE]
  /\ \E s \in SUBSET Hashes : onScreen' = s
  /\ UNCHANGED <<slots, asks, tasks, disk, images, decoding, ended, upsets>>

\* The server won't take us back: the commands in the channel go with the session.
GivesUp ==
  /\ ~linkUp.up /\ ~ended /\ ended' = TRUE /\ asks' = <<>>
  /\ UNCHANGED <<onScreen, slots, tasks, disk, images, decoding, linkUp, upsets>>

\* Somebody comes, goes or changes their picture.
PeopleChange ==
  /\ linkUp.up /\ ~ended /\ Upset
  /\ \E h \in Hashes : onScreen' = IF h \in onScreen THEN onScreen \ {h} ELSE onScreen \cup {h}
  /\ UNCHANGED <<slots, asks, tasks, disk, images, decoding, linkUp, ended>>

-----------------------------------------------------------------------------
(* A fetch *)

\* Shared::set_avatar: past the limit only what is being fetched or in use stays.
SetSlot(h, what) ==
  slots' = [g \in Hashes |->
    IF g = h THEN what
    ELSE IF Filled(slots) >= SlotsKept /\ slots[g] # "fetching" /\ g \notin onScreen THEN "none"
    ELSE slots[g]]

\* avatars::load: the file is there and matches its hash, or it is not.
LooksOnDisk(t) ==
  /\ t.step = "disk"
  /\ IF t.hash \in disk THEN SetSlot(t.hash, "ready") /\ tasks' = tasks \ {t}
     ELSE tasks' = (tasks \ {t}) \cup {[t EXCEPT !.step = "turn"]} /\ UNCHANGED slots
  /\ UNCHANGED <<onScreen, asks, disk, images, decoding, linkUp, ended, upsets>>

TakesTurn(t) ==
  /\ t.step = "turn" /\ Cardinality({u \in tasks : u.step = "asked"}) < Turns
  /\ tasks' = (tasks \ {t}) \cup {[t EXCEPT !.step = "asked"]}
  /\ UNCHANGED <<onScreen, slots, asks, disk, images, decoding, linkUp, ended, upsets>>

Reachable(t) == linkUp.up /\ ~ended /\ t.n = linkUp.n

\* A mutant of Failed: a fetch that failed leaves its slot.
FailedQuietly(t) == UNCHANGED slots

\* The request failed: the slot is free for another try.
Failed(t) == Forget(t.hash)

\* The answer: the picture, kept on the disk too; something else; nothing, or not in time.
Answered(t) ==
  /\ t.step = "asked" /\ tasks' = tasks \ {t}
  /\ \/ /\ Reachable(t) /\ SetSlot(t.hash, "ready")
        /\ disk' \in {disk, disk \cup {t.hash}} /\ UNCHANGED upsets
     \/ Reachable(t) /\ SetSlot(t.hash, "missing") /\ UNCHANGED <<disk, upsets>>
     \/ Reachable(t) /\ Upset /\ Failed(t) /\ UNCHANGED disk
     \/ ~Reachable(t) /\ Failed(t) /\ UNCHANGED <<disk, upsets>>
  /\ UNCHANGED <<onScreen, asks, images, decoding, linkUp, ended>>

FetchSteps == \E t \in tasks : LooksOnDisk(t) \/ TakesTurn(t) \/ Answered(t)

AvatarsNext ==
  \/ \E h \in Hashes : Draw(h) \/ Decoded(h)
  \/ TakeAsk \/ Drops \/ Reconnected \/ GivesUp \/ PeopleChange \/ FetchSteps

\* The window draws again at every change of state, the session loop and its tasks run on,
\* requests time out, and a session that lost its connection reconnects or gives up.
AvatarsFairness ==
  /\ \A h \in Hashes : WF_avatarsVars(Draw(h))
  /\ WF_avatarsVars(TakeAsk) /\ WF_avatarsVars(Reconnected \/ GivesUp)
  /\ WF_avatarsVars(FetchSteps)

AvatarsSpec == AvatarsInit /\ [][AvatarsNext]_avatarsVars /\ AvatarsFairness

-----------------------------------------------------------------------------
AvatarsTypeOK ==
  /\ onScreen \subseteq Hashes /\ slots \in [Hashes -> {"none", "fetching", "ready", "missing"}]
  /\ images \in [Hashes -> {"none", "empty", "decoded"}] /\ disk \subseteq Hashes
  /\ tasks \subseteq [hash: Hashes, n: Nat, step: {"disk", "turn", "asked"}]

\* A slot that says "fetching" has somebody fetching it: a command in the channel or a task,
\* and never both or two, which would race over the slot; however often the connection was
\* lost in between (session.rs fetch_avatar, reconnect; client.rs avatar).
OneFetcher ==
  ~ended => \A h \in Hashes :
    Cardinality({i \in DOMAIN asks : asks[i] = h}) + Cardinality({t \in tasks : t.hash = h})
      = IF slots[h] = "fetching" THEN 1 ELSE 0

\* A picture that stays on screen is never dropped to make room for another
\* (app.rs decode_picture).
ShownStays ==
  [][\A h \in onScreen : images[h] = "decoded" => images'[h] = "decoded"]_avatarsVars

\* Whoever is on screen is seen in the end, or the server said it has no picture: no lost
\* connection, answer or command leaves one waiting for good (session.rs fetch_avatar).
ShownArrives ==
  \A h \in Hashes : h \in onScreen ~> \/ h \notin onScreen \/ ended
                                   \/ slots[h] = "missing" \/ images[h] # "none"

\* Pictures on screen are fetched once, arrive and stay (session.rs, client.rs, app.rs).
AvatarsShown == []OneFetcher /\ ShownStays /\ ShownArrives

=============================================================================
