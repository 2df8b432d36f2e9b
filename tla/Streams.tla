------------------------------- MODULE Streams -------------------------------
(***************************************************************************)
(* How the window shows shares: in the room, filling the window, or popped  *)
(* out into windows of their own (app.rs, popout.rs, main.rs,               *)
(* person_menu.rs), and the display kept awake while one is watched.        *)
(*                                                                         *)
(* A window that is closed is released later, and tells the app so then; by *)
(* then the share may be back in another window.  The session's state       *)
(* arrives as the session likes.                                            *)
(***************************************************************************)
EXTENDS Naturals, FiniteSets

CONSTANTS Sharers,     \* other people who may share
          Me,          \* us, whose share can be previewed here
          NoUser,      \* nobody
          MaxWindows   \* bound: pop-out windows opened

ASSUME StreamsAssumption ==
  Me \notin Sharers /\ NoUser \notin Sharers \cup {Me} /\ MaxWindows \in Nat

VARIABLES attached,     \* a client is attached and its room is on the screen
          sharing,     \* State: who shares
          watching,    \* State: whose shares we watch
          preview,     \* preview_self
          popouts,     \* ThroccApp.popouts: per user the window, or 0
          windows,     \* pop-out windows by number: whether there, and of whose share
          focus,       \* ThroccApp.focus
          filled,      \* ThroccApp.fullscreen
          madeFull,        \* made_window_fullscreen
          osFull,      \* the window is fullscreen
          menu,        \* person_menu: whose, and in which window (0: the main one)
          awake,       \* keep_display_awake is held
          found        \* history: how the window was when a share filled it, if untouched

streamsVars == <<attached, sharing, watching, preview, popouts, windows, focus, filled,
                 madeFull, osFull, menu, awake, found>>

Users == Sharers \cup {Me}
NoMenu == [user |-> NoUser, in |-> 0]
NoWindow == [is |-> "none", of |-> NoUser]
Popped(u) == popouts[u] # 0

StreamsTypeOK ==
  /\ attached \in BOOLEAN /\ sharing \subseteq Users /\ watching \subseteq Sharers
  /\ preview \in BOOLEAN /\ popouts \in [Users -> 0..MaxWindows]
  /\ windows \in [1..MaxWindows -> [is: {"none", "open", "closing"}, of: Users \cup {NoUser}]]
  /\ focus \in Users \cup {NoUser} /\ filled \in Users \cup {NoUser}
  /\ madeFull \in BOOLEAN /\ osFull \in BOOLEAN /\ awake \in BOOLEAN
  /\ menu \in [user: Users \cup {NoUser}, in: 0..MaxWindows]
  /\ found \in {"touched", "full", "not"}

ShowsStreamWith(u, share, watch, self, out) ==
  /\ u \in share /\ out[u] = 0
  /\ IF u = Me THEN self ELSE u \in watch

ShowsStream(u) == attached /\ ShowsStreamWith(u, sharing, watching, preview, popouts)

\* The tiles and the person menu offer this only in the main window, below no full share.
Offered(u) == ShowsStream(u) /\ filled = NoUser

-----------------------------------------------------------------------------
(* Fullscreen *)

EnterFullscreen(u) ==
  /\ Offered(u)
  /\ filled' = u
  /\ osFull' = TRUE
  /\ madeFull' = (madeFull \/ ~osFull)
  /\ found' = IF osFull THEN "full" ELSE "not"
  /\ menu' = NoMenu
  /\ UNCHANGED <<attached, sharing, watching, preview, popouts, windows, focus, awake>>

\* exit_fullscreen undoes only what entering did.
Exited ==
  /\ filled' = NoUser /\ madeFull' = FALSE
  /\ osFull' = (osFull /\ ~madeFull)
  /\ UNCHANGED found

\* The mutant: leaving always leaves the window's fullscreen too.
ExitedAlways ==
  /\ filled' = NoUser /\ madeFull' = FALSE
  /\ osFull' = FALSE
  /\ UNCHANGED found

ExitFullscreen == Exited

StaysFilled == UNCHANGED <<filled, madeFull, osFull, found>>

\* From the share's button, its menu, the escape key or a page that takes the window.
LeaveFullscreen ==
  /\ filled # NoUser
  /\ ExitFullscreen
  /\ menu' = NoMenu
  /\ UNCHANGED <<attached, sharing, watching, preview, popouts, windows, focus, awake>>

\* The user makes the window fullscreen, or not, by the system's own button.
UserToggles ==
  /\ osFull' = ~osFull
  /\ found' = "touched"
  /\ UNCHANGED <<attached, sharing, watching, preview, popouts, windows, focus, filled,
                 madeFull, menu, awake>>

-----------------------------------------------------------------------------
(* Pop-outs *)

Closing(ids) == [w \in 1..MaxWindows |-> IF w \in ids THEN [windows[w] EXCEPT !.is = "closing"]
                                            ELSE windows[w]]

PopOut(u) ==
  /\ u # Me /\ Offered(u) /\ ~Popped(u)
  /\ focus' = IF focus = u THEN NoUser ELSE focus
  /\ menu' = NoMenu
  /\ \/ \E w \in 1..MaxWindows:
          /\ windows[w] = NoWindow
          /\ windows' = [windows EXCEPT ![w] = [is |-> "open", of |-> u]]
          /\ popouts' = [popouts EXCEPT ![u] = w]
     \/ UNCHANGED <<windows, popouts>>
  /\ UNCHANGED <<attached, sharing, watching, preview, filled, madeFull, osFull, awake, found>>

\* close_popout forgets the window at once and removes it later.
ClosePopouts(gone) ==
  /\ windows' = Closing({popouts[u]: u \in {v \in gone: Popped(v)}})
  /\ popouts' = [u \in Users |-> IF u \in gone THEN 0 ELSE popouts[u]]

BringBack(u) ==
  /\ Popped(u)
  /\ ClosePopouts({u})
  /\ menu' = NoMenu
  /\ UNCHANGED <<attached, sharing, watching, preview, focus, filled, madeFull, osFull, awake, found>>

\* The user closes a pop-out by the system's button: the app hears of it at its release.
CloseWindow(w) ==
  /\ windows[w].is = "open"
  /\ windows' = Closing({w})
  /\ UNCHANGED <<attached, sharing, watching, preview, popouts, focus, filled, madeFull,
                 osFull, menu, awake, found>>

\* PopOut's release: whatever still stands for that window goes.
Forgets(w) == [u \in Users |-> IF popouts[u] = w THEN 0 ELSE popouts[u]]

\* The mutant: what stands for the user whose window it was goes.
ForgetsUser(w) == [u \in Users |-> IF windows[w].of = u THEN 0 ELSE popouts[u]]

ReleaseForgets(w) == Forgets(w)

MenuOf(w) == IF menu.in = w THEN NoMenu ELSE menu

\* The mutant: the menu is left where it was.
MenuKept(w) == menu

ReleaseMenu(w) == MenuOf(w)

Released(w) ==
  /\ windows[w].is = "closing"
  /\ windows' = [windows EXCEPT ![w] = NoWindow]
  /\ popouts' = ReleaseForgets(w)
  /\ menu' = ReleaseMenu(w)
  /\ UNCHANGED <<attached, sharing, watching, preview, focus, filled, madeFull, osFull, awake, found>>

-----------------------------------------------------------------------------
(* Watching *)

\* Watch Stream and Preview; watching someone else is the session's to do.
Preview ==
  /\ attached /\ Me \in sharing /\ ~preview
  /\ preview' = TRUE
  /\ UNCHANGED <<attached, sharing, watching, popouts, windows, focus, filled, madeFull, osFull,
                 menu, awake, found>>

StopPreview ==
  /\ ShowsStream(Me)
  /\ preview' = FALSE
  /\ IF filled = Me THEN ExitFullscreen ELSE StaysFilled
  /\ UNCHANGED <<attached, sharing, watching, popouts, windows, focus, menu, awake>>

FocusTile(u) ==
  /\ Offered(u)
  /\ focus' = IF focus = u THEN NoUser ELSE u
  /\ UNCHANGED <<attached, sharing, watching, preview, popouts, windows, filled, madeFull,
                 osFull, menu, awake, found>>

\* The menu of a person, in the main window or in the pop-out of their share.
OpenMenu(u) ==
  /\ attached /\ menu = NoMenu
  /\ \E w \in {0} \cup {x \in {popouts[u]}: x # 0 /\ windows[x].is = "open"}:
       menu' = [user |-> u, in |-> w]
  /\ UNCHANGED <<attached, sharing, watching, preview, popouts, windows, focus, filled,
                 madeFull, osFull, awake, found>>

CloseMenu ==
  /\ menu # NoMenu
  /\ menu' = NoMenu
  /\ UNCHANGED <<attached, sharing, watching, preview, popouts, windows, focus, filled,
                 madeFull, osFull, awake, found>>

-----------------------------------------------------------------------------
(* The session *)

WatchesOne(share, watch) == share \cap watch # {}

\* on_event of a state: pop-outs of shares that ended close, the display is let sleep or kept
\* awake, and a share that no longer shows leaves the full window.
NewState(share, watch) ==
  /\ attached
  /\ sharing' = share /\ watching' = watch
  /\ ClosePopouts(Users \ (share \cap watch))
  /\ awake' = WatchesOne(share, watch)
  /\ IF filled # NoUser /\ ~ShowsStreamWith(filled, share, watch, preview, popouts')
       THEN ExitFullscreen ELSE StaysFilled
  /\ UNCHANGED <<attached, preview, focus, menu>>

RoomStateArrives ==
  \E share \in SUBSET Users, watch \in SUBSET Sharers:
    /\ watch \subseteq share /\ <<share, watch>> # <<sharing, watching>>
    /\ NewState(share, watch)

\* end_session drops what the session was.
SleepsAfter == FALSE

\* The mutant: the display is kept awake by a session that is gone.
SleepsAfterKept == awake

AwakeAfter == SleepsAfter

EndSession ==
  /\ attached
  /\ attached' = FALSE
  /\ ClosePopouts(Users)
  /\ ExitFullscreen
  /\ awake' = AwakeAfter
  /\ menu' = NoMenu /\ focus' = NoUser /\ preview' = FALSE
  /\ UNCHANGED <<sharing, watching>>

AttachRoom ==
  /\ ~attached
  /\ attached' = TRUE
  /\ sharing' \in SUBSET Users /\ watching' = {}
  /\ UNCHANGED <<preview, popouts, windows, focus, filled, madeFull, osFull, menu, awake, found>>

-----------------------------------------------------------------------------
StreamsInit ==
  /\ attached = FALSE /\ sharing = {} /\ watching = {} /\ preview = FALSE
  /\ popouts = [u \in Users |-> 0] /\ windows = [w \in 1..MaxWindows |-> NoWindow]
  /\ focus = NoUser /\ filled = NoUser /\ madeFull = FALSE /\ osFull \in BOOLEAN
  /\ menu = NoMenu /\ awake = FALSE /\ found = "touched"

StreamsNext ==
  \/ \E u \in Users: EnterFullscreen(u) \/ PopOut(u) \/ BringBack(u) \/ FocusTile(u)
                     \/ OpenMenu(u)
  \/ \E w \in 1..MaxWindows: CloseWindow(w) \/ Released(w)
  \/ LeaveFullscreen \/ UserToggles \/ Preview \/ StopPreview \/ CloseMenu
  \/ RoomStateArrives \/ EndSession \/ AttachRoom

StreamsSpec == StreamsInit /\ [][StreamsNext]_streamsVars

-----------------------------------------------------------------------------
\* Every pop-out that is open is one the app knows, of a share it watches, so that it closes
\* when the share ends: a window released late does not take the share's next one along
\* (popout.rs open, app.rs close_unwatched_popouts).
PopoutsTracked ==
  \A w \in 1..MaxWindows: windows[w].is = "open" =>
    \E u \in sharing \cap watching: attached /\ popouts[u] = w

\* The person menu is never left in a window that is gone, where it would still count as
\* open (popout.rs open, app.rs close_person_menu_in).
MenuInWindow == menu.in # 0 => windows[menu.in] # NoWindow

\* The display is kept awake exactly while a share is watched (app.rs
\* sync_keep_display_awake, end_session).
AwakeAgrees == awake = (attached /\ WatchesOne(sharing, watching))

\* A share that stops filling the window leaves it as it was found, unless the user changed
\* it meanwhile (app.rs exit_fullscreen).
LeavesAsFound ==
  [][filled # NoUser /\ filled' = NoUser /\ found # "touched" => osFull' = (found = "full")]_streamsVars

\* What the app keeps of its windows is how they are (app.rs, popout.rs).
WindowsAgree == [](PopoutsTracked /\ MenuInWindow /\ AwakeAgrees) /\ LeavesAsFound

=============================================================================
