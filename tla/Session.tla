------------------------------ MODULE Session ------------------------------
(***************************************************************************)
(* One client's session against one server: session.rs with the control    *)
(* link under it (control.rs), the call between them (call.rs) and what    *)
(* the hub records of this client (rooms.rs).                              *)
(*                                                                         *)
(* The session is one task.  A handler that asks the server waits for the  *)
(* answer or for REPLY_TIMEOUT and only then goes on, so it is split at    *)
(* each wait: `doing' holds what is left of it.  Answers pass the events   *)
(* that were sent before them, because an event first goes through the     *)
(* control link's queue and the call's pump.                               *)
(*                                                                         *)
(* A placement's tracks are one number, that of the placement; a share's   *)
(* configuration is a number, 0 for no share.                              *)
(***************************************************************************)
EXTENDS Integers, Sequences, FiniteSets

CONSTANTS
  Rooms,        \* the rooms, numbers from 1
  Others,       \* the other people signed in
  Configs,      \* share configurations, numbers from 1
  Stories,      \* what the user, the others and the network may do in a behaviour
  MaxQueued     \* MAX_QUEUED_WHILE_RECONNECTING

NoRoom == 0
NoShare == 0

\* The UiCommands modelled, a join of no room as "leave"; "renew" stands for the timer that renews
\* the encryption key, which is handled between the commands.
UiCommands ==
  [op : {"join"}, room : Rooms] \cup [op : {"leave", "renew", "stop"}]
  \cup [op : {"mic", "deafen"}, on : BOOLEAN] \cup [op : {"share"}, config : Configs]
  \cup [op : {"watch", "unwatch"}, user : Others]

ASSUME SessionAssumption ==
  /\ NoRoom \notin Rooms /\ NoShare \notin Configs
  /\ MaxQueued \in Nat \ {0}
  /\ Stories \subseteq
       [commands : SUBSET UiCommands, clicks : Nat, moves : Nat, kicks : Nat, timeouts : Nat, cuts : Nat,
        ends : Nat, others : [Others -> [room : Rooms \cup {NoRoom}, tracks : Nat, share : Configs \cup {NoShare}]]]

NoOne == <<>>     \* peers, as a function with an empty domain

VARIABLES
  story,     \* what may still happen: the commands the user may give, and how often each thing may
  hub,       \* the hub's session of this client and of the others
  up,        \* requests on their way to the server
  down,      \* the server's stream: answers and events, in the order sent
  pending,   \* Pending: [next, waiting], the ids of requests without an answer
  alarm,     \* whether the reader met an answer nobody waits for
  inbox,     \* events the reader queued for the call's pump
  engine,    \* the media engine's key manager: [room, epoch, peers, later], and its subscriptions
  events,    \* CallEvents queued for the session
  commands,  \* UiCommands queued for the session
  sess,      \* the Session's own fields
  starts,    \* ShareStarts: [wanted, count], the captures starting and the ones started
  doing,     \* what is left of the handler that runs, outermost last
  conn,      \* "up", "cut" (lost, not noticed), "lost" (reconnecting), "stopped"
  retry,     \* reconnect's locals: [want, before, watching, queued]
  missed     \* history: the ops whose answer timed out and was not made up for

sessionVars == <<story, hub, up, down, pending, alarm, inbox, engine, events, commands, sess,
                 starts, doing, conn, retry, missed>>

-----------------------------------------------------------------------------
(* The hub's side, as far as this client sees it. *)

\* Hub::peers, without us: who else is in `room', with their tracks and shares.
Peers(h, room) ==
  [u \in {o \in Others : room # NoRoom /\ h.others[o].room = room} |->
     [tracks |-> h.others[u].tracks, share |-> h.others[u].share]]

Placement(h) == [type |-> "placement", room |-> h.room, tracks |-> h.tracks, epoch |-> h.epoch,
                 peers |-> Peers(h, h.room)]

PeersChanged(h) == [type |-> "peers", room |-> h.room, epoch |-> h.epoch, peers |-> Peers(h, h.room)]

Ok == [type |-> "ok"]
Refused(code) == [type |-> "err", code |-> code]

\* Hub::place and Hub::set_membership: a move takes new tracks and ends what was sent and watched.
Placed(h, room) ==
  IF h.room = room THEN h
  ELSE [h EXCEPT !.room = room, !.epoch = @ + 1, !.share = NoShare, !.watched = {},
                 !.placed = @ + 1, !.tracks = IF room = NoRoom THEN 0 ELSE h.placed + 1]

\* Hub::set_media; `refused' is the share allowance or a room full of shares.
MediaSet(h, req, refused) ==
  [h EXCEPT !.mic = req.mic, !.deaf = req.deaf, !.share = IF refused THEN @ ELSE req.share]

MayRefuseShare(h, req) == req.share # NoShare /\ req.share # h.share

\* Hub::set_watched refuses the whole list for one track that is no share of our room.
MayWatch(h, ids) == ids \subseteq {h.others[o].tracks : o \in DOMAIN Peers(h, h.room)}

\* What the hub may do with a request: the state after it, and its answer.
Answers(h, req) ==
  CASE req.op = "join" ->
         {[hub |-> Placed(h, req.room), answer |-> Placement(Placed(h, req.room))],
          [hub |-> h, answer |-> Refused("full")]}
    [] req.op = "leave" -> {[hub |-> Placed(h, NoRoom), answer |-> Placement(Placed(h, NoRoom))]}
    [] req.op = "media" ->
         IF h.room = NoRoom THEN {[hub |-> h, answer |-> Refused("invalid")]}
         ELSE {[hub |-> MediaSet(h, req, FALSE), answer |-> Ok]} \cup
              (IF MayRefuseShare(h, req)
               THEN {[hub |-> MediaSet(h, req, TRUE), answer |-> Refused(c)] : c \in {"full", "limited"}}
               ELSE {})
    [] req.op = "watched" ->
         IF h.room # NoRoom /\ MayWatch(h, req.ids)
         THEN {[hub |-> [h EXCEPT !.watched = req.ids], answer |-> Ok]}
         ELSE {[hub |-> h, answer |-> Refused("invalid")]}
    [] req.op = "key" -> {[hub |-> h, answer |-> Ok]}

\* The hub handles the next request.  An own move is no PeersChanged to us.
Serve ==
  /\ conn = "up" /\ up # <<>>
  /\ \E a \in Answers(hub, Head(up).req) :
       /\ hub' = a.hub
       /\ down' = Append(down, [type |-> "reply", id |-> Head(up).id, answer |-> a.answer])
  /\ up' = Tail(up)
  /\ UNCHANGED <<story, pending, alarm, inbox, engine, events, commands, sess, starts, doing, conn,
                 retry, missed>>

\* Someone else moves between rooms, or starts, changes or ends their share.
OtherActed(h, o, room, share) ==
  LET moves == room # h.others[o].room
  IN [h EXCEPT !.others[o] = [room |-> room, share |-> IF moves THEN NoShare ELSE share,
                              tracks |-> IF room = NoRoom THEN 0
                                         ELSE IF moves THEN h.placed + 1 ELSE @.tracks],
               !.placed = IF moves THEN @ + 1 ELSE @,
               !.epoch = IF moves THEN @ + 1 ELSE @]

OtherActs(o) ==
  /\ story.moves > 0
  /\ \E room \in Rooms \cup {NoRoom}, share \in Configs \cup {NoShare} :
       LET was == hub.others[o]
       IN /\ \/ room # was.room /\ share = NoShare
             \/ room = was.room /\ room # NoRoom /\ share # was.share
          /\ hub' = OtherActed(hub, o, room, share)
          /\ down' = IF conn = "up" /\ hub.room # NoRoom /\ hub.room \in {room, was.room}
                     THEN Append(down, PeersChanged(hub')) ELSE down
  /\ story' = [story EXCEPT !.moves = @ - 1]
  /\ UNCHANGED <<up, pending, alarm, inbox, engine, events, commands, sess, starts, doing, conn,
                 retry, missed>>

\* Hub::kick_from_room and Hub::delete_room: the hub takes us out and says so.
PutOutByHub ==
  /\ story.kicks > 0 /\ conn = "up" /\ hub.room # NoRoom
  /\ hub' = Placed(hub, NoRoom)
  /\ down' = Append(down, [type |-> "kicked", room |-> hub.room])
  /\ story' = [story EXCEPT !.kicks = @ - 1]
  /\ UNCHANGED <<up, pending, alarm, inbox, engine, events, commands, sess, starts, doing, conn,
                 retry, missed>>

-----------------------------------------------------------------------------
(* The control link and the call. *)

Await(id, req) == [task |-> "await", id |-> id, req |-> req, got |-> <<>>]
Waits == doing # <<>> /\ Head(doing).task = "await"

\* spawn_link's reader: an answer goes to its waiter at once, an event into a queue.  An answer
\* without a waiter is a protocol error; the one whose waiter gave up is dropped.
Read ==
  /\ down # <<>>
  /\ LET m == Head(down)
     IN IF m.type = "reply"
        THEN /\ alarm' = (alarm \/ m.id \notin pending.waiting)
             /\ pending' = [pending EXCEPT !.waiting = @ \ {m.id}]
             /\ doing' = IF Waits /\ Head(doing).id = m.id /\ Head(doing).got = <<>>
                         THEN [doing EXCEPT ![1].got = <<m.answer>>] ELSE doing
             /\ UNCHANGED inbox
        ELSE /\ inbox' = Append(inbox, m)
             /\ UNCHANGED <<pending, alarm, doing>>
  /\ down' = Tail(down)
  /\ UNCHANGED <<story, hub, up, engine, events, commands, sess, starts, conn, retry, missed>>

\* KeyManager::peers_changed, without whom it trusts: an older epoch is nothing new, and the
\* state of a room we are not in is kept for the placement that may follow.
EnginePeers(e, room, epoch, peers) ==
  IF room # e.room
  THEN IF e.later = <<>> \/ e.later[1].room # room \/ e.later[1].epoch < epoch
       THEN [e EXCEPT !.later = <<[room |-> room, epoch |-> epoch, peers |-> peers]>>] ELSE e
  ELSE IF epoch < e.epoch THEN e
  ELSE [e EXCEPT !.epoch = epoch, !.peers = peers]

\* Call's pump: the engine learns of an event when it is queued for the session.
Pump ==
  /\ inbox # <<>>
  /\ LET m == Head(inbox)
     IN /\ engine' = IF m.type = "peers" THEN EnginePeers(engine, m.room, m.epoch, m.peers)
                     ELSE engine
        /\ events' = Append(events, m)
        /\ missed' = IF m.type # "peers" THEN missed
                     ELSE IF m.room = engine.room THEN missed \ {"state"}
                     ELSE IF engine' = engine THEN missed \cup {"kept"} ELSE missed
  /\ inbox' = Tail(inbox)
  /\ UNCHANGED <<story, hub, up, down, pending, alarm, commands, sess, starts, doing, conn, retry>>

\* MediaEngine::apply_placement: a new room forgets the old one's subscriptions, and takes the
\* state kept for it if that is of a later epoch.
KeptLater(e, p) == e.later # <<>> /\ e.later[1].room = p.room /\ e.later[1].epoch > p.epoch
EnginePlaced(e, p) ==
  IF p.room # NoRoom /\ p.room = e.room /\ p.epoch < e.epoch THEN e
  ELSE [room |-> p.room,
        epoch |-> IF p.room = NoRoom THEN 0 ELSE IF KeptLater(e, p) THEN e.later[1].epoch ELSE p.epoch,
        peers |-> IF KeptLater(e, p) THEN e.later[1].peers ELSE p.peers,
        later |-> <<>>,
        mics |-> IF p.room = e.room THEN e.mics ELSE {},
        shares |-> IF p.room = e.room THEN e.shares ELSE {}]

\* History: a state of the placement's own epoch came first, and is dropped for the placement's.
DropsState(e, p) ==
  \/ e.later # <<>> /\ e.later[1].room = p.room /\ e.later[1].epoch = p.epoch /\ e.later[1].peers # p.peers
  \/ e.room = p.room /\ e.epoch = p.epoch /\ e.peers # p.peers

NewEngine == [room |-> NoRoom, epoch |-> 0, peers |-> NoOne, later |-> <<>>, mics |-> {},
              shares |-> {}]

\* Bug variant of Forgotten: a waiter that gave up is forgotten.
ForgottenAtOnce(w, id) == w \ {id}
\* The waiter of a request that timed out stays registered.
Forgotten(w, id) == w

\* Requester::request, for the handler whose rest is `rest'.  On a closed link it fails at once,
\* see Closed.
Ask(req, rest) ==
  /\ doing' = <<Await(pending.next, req)>> \o rest
  /\ IF conn = "up"
     THEN /\ up' = Append(up, [id |-> pending.next, req |-> req])
          /\ pending' = [next |-> pending.next + 1, waiting |-> pending.waiting \cup {pending.next}]
     ELSE UNCHANGED <<up, pending>>

\* REPLY_TIMEOUT passes.
Timeout ==
  /\ Waits /\ Head(doing).got = <<>> /\ conn = "up" /\ story.timeouts > 0
  /\ story' = [story EXCEPT !.timeouts = @ - 1]
  /\ doing' = [doing EXCEPT ![1].got = <<Refused("timeout")>>]
  /\ pending' = [pending EXCEPT !.waiting = Forgotten(@, Head(doing).id)]
  /\ missed' = missed \cup {IF Head(doing).req.op = "leave" THEN "join" ELSE Head(doing).req.op}
  /\ UNCHANGED <<hub, up, down, alarm, inbox, engine, events, commands, sess, starts, conn, retry>>

\* The link is closed: whoever waits is told so.
LinkClosed ==
  /\ Waits /\ Head(doing).got = <<>> /\ conn = "cut"
  /\ doing' = [doing EXCEPT ![1].got = <<Refused("closed")>>]
  /\ UNCHANGED <<story, hub, up, down, pending, alarm, inbox, engine, events, commands, sess, starts,
                 conn, retry, missed>>

\* The connection is lost, with everything on it.
Cut ==
  /\ conn = "up" /\ story.cuts > 0
  /\ conn' = "cut" /\ story' = [story EXCEPT !.cuts = @ - 1]
  /\ up' = <<>> /\ down' = <<>> /\ pending' = [pending EXCEPT !.waiting = {}]
  /\ UNCHANGED <<hub, alarm, inbox, engine, events, commands, sess, starts, doing, retry, missed>>

-----------------------------------------------------------------------------
(* The session's fields. *)

NoStart == 0
NoTracks == 0

\* Session::new, in the lobby.
NewSession ==
  [room |-> NoRoom, tracks |-> NoTracks, mic |-> TRUE, deaf |-> FALSE, micBefore |-> FALSE,
   share |-> NoShare, serverShare |-> NoShare, wanted |-> NoStart, sender |-> NoTracks,
   peers |-> NoOne, watching |-> {}, decoding |-> NoOne]

\* Bug variant of StopShare: a start that still runs stays wanted.
StopShareRunning(s) == [s EXCEPT !.share = NoShare, !.sender = NoTracks]
\* Our share ends, and any start of one.
StopShare(s) == [s EXCEPT !.share = NoShare, !.sender = NoTracks, !.wanted = NoStart]

\* What follows works on the session and its engine together, x = [s, e].
DecodedTracks(s) == {s.decoding[u].tracks : u \in DOMAIN s.decoding}

\* reset_room: the server ends our share whenever it moves us.
ResetRoom(x) ==
  [s |-> [StopShare(x.s) EXCEPT !.serverShare = NoShare, !.room = NoRoom, !.tracks = NoTracks,
                                !.peers = NoOne, !.watching = {}, !.decoding = NoOne],
   e |-> [x.e EXCEPT !.shares = @ \ DecodedTracks(x.s)]]

\* sync_peers: hears every mic the engine trusts, and stops hearing who left or came back anew.
SyncPeers(x) ==
  LET gone == {u \in DOMAIN x.s.peers :
                 u \notin DOMAIN x.e.peers \/ x.e.peers[u].tracks # x.s.peers[u].tracks}
  IN [s |-> [x.s EXCEPT !.peers = x.e.peers],
      e |-> [x.e EXCEPT !.mics = (@ \ {x.s.peers[u].tracks : u \in gone})
                                 \cup {x.e.peers[u].tracks : u \in DOMAIN x.e.peers}]]

\* after_join: nothing of the old placement is kept.
AfterJoin(x, p) ==
  LET r == ResetRoom(x)
  IN SyncPeers([s |-> [r.s EXCEPT !.room = p.room, !.tracks = p.tracks], e |-> r.e])

PutOut(x) ==
  ResetRoom([s |-> x.s, e |-> EnginePlaced(x.e, [room |-> NoRoom, epoch |-> 0, peers |-> NoOne])])

\* The running shares among those we watch, with the tracks they come on.
Running(s) ==
  [u \in {w \in s.watching \cap DOMAIN s.peers : s.peers[w].share # NoShare} |-> s.peers[u]]

\* Bug variant of Stale: a decoder is kept while its share runs, whatever it now comes on.
StaleGone(s) == DOMAIN s.decoding \ DOMAIN Running(s)
\* Decoders set up for a share that ended, moved to other tracks or changed its configuration.
Stale(s) ==
  {u \in DOMAIN s.decoding : u \notin DOMAIN Running(s) \/ Running(s)[u] # s.decoding[u]}

SyncWatching(x) ==
  LET kept == DOMAIN x.s.decoding \ Stale(x.s)
      now == [u \in kept \cup DOMAIN Running(x.s) |->
                IF u \in kept THEN x.s.decoding[u] ELSE Running(x.s)[u]]
  IN [s |-> [x.s EXCEPT !.decoding = now],
      e |-> [x.e EXCEPT !.shares = (@ \ {x.s.decoding[u].tracks : u \in Stale(x.s)})
                                   \cup {now[u].tracks : u \in DOMAIN now}]]

Media(s) == [op |-> "media", mic |-> s.mic, deaf |-> s.deaf, share |-> s.share]
Watched(s) == [op |-> "watched", ids |-> {Running(s)[u].tracks : u \in DOMAIN Running(s)}]

Task(t) == [task |-> t]
AskTask(req) == [task |-> "ask", req |-> req]

\* Turning the mic on undeafens; deafening mutes and undeafening restores the mic.
SetMic(s, on) == [s EXCEPT !.mic = on, !.deaf = IF on THEN FALSE ELSE @]
SetDeafened(s, deaf) ==
  IF deaf = s.deaf THEN s
  ELSE [s EXCEPT !.deaf = deaf, !.micBefore = IF deaf THEN s.mic ELSE @,
                 !.mic = IF deaf THEN FALSE ELSE s.micBefore]

MayStartShare(s) == s.wanted = NoStart /\ s.sender = NoTracks /\ s.tracks # NoTracks

\* Session::command: the session after it, and what it still has to do.
AfterCommand(s, c, number) ==
  CASE c.op = "join"   -> [s |-> s, todo |-> <<AskTask(c)>>]
    [] c.op = "leave"  -> [s |-> s, todo |-> <<AskTask(c)>>]
    [] c.op = "renew"  -> [s |-> s, todo |-> <<AskTask([op |-> "key"])>>]
    [] c.op = "mic"    -> [s |-> SetMic(s, c.on), todo |-> <<Task("media")>>]
    [] c.op = "deafen" -> [s |-> SetDeafened(s, c.on), todo |-> <<Task("media")>>]
    [] c.op = "share"  -> [s |-> IF MayStartShare(s) THEN [s EXCEPT !.wanted = number] ELSE s,
                           todo |-> <<>>]
    [] c.op = "stop"   -> [s |-> StopShare(s), todo |-> <<Task("media")>>]
    [] c.op = "watch"  -> [s |-> [s EXCEPT !.watching = @ \cup {c.user}], todo |-> <<Task("watched")>>]
    [] c.op = "unwatch" -> [s |-> [s EXCEPT !.watching = @ \ {c.user}], todo |-> <<Task("watched")>>]

-----------------------------------------------------------------------------
(* The session's steps. *)

Idle == doing = <<>> /\ conn \in {"up", "cut"}

\* A capture begins beside the session loop when a command started one.
Starts(c) ==
  IF c.op = "share" /\ MayStartShare(sess)
  THEN [count |-> starts.count + 1,
        running |-> starts.running \cup {[number |-> starts.count + 1, tracks |-> sess.tracks,
                                          config |-> c.config]}]
  ELSE starts

Do(c, rest) ==
  LET done == AfterCommand(sess, c, starts.count + 1)
  IN /\ sess' = done.s
     /\ doing' = done.todo \o rest
     /\ starts' = Starts(c)

Command ==
  /\ Idle /\ commands # <<>>
  /\ Do(Head(commands), <<>>)
  /\ commands' = Tail(commands)
  /\ UNCHANGED <<story, hub, up, down, pending, alarm, inbox, engine, events, conn, retry, missed>>

\* The commands queued while reconnecting, one after the other.
Replay ==
  /\ doing # <<>> /\ Head(doing).task = "replay"
  /\ IF retry.queued = <<>>
     THEN /\ doing' = Tail(doing)
          /\ UNCHANGED <<sess, starts, retry>>
     ELSE /\ Do(Head(retry.queued), doing)
          /\ retry' = [retry EXCEPT !.queued = Tail(@)]
  /\ UNCHANGED <<story, hub, up, down, pending, alarm, inbox, engine, events, commands, conn, missed>>

\* push_media outside a room, and a rewatch of another room, ask nothing.
AsksNothing ==
  \/ Head(doing).task = "media" /\ sess.room = NoRoom
  \/ Head(doing).task = "rewatch" /\ (sess.room = NoRoom \/ sess.room # retry.before)

Rewatched == IF Head(doing).task = "rewatch" THEN [sess EXCEPT !.watching = retry.watching] ELSE sess

\* The running handler comes to its next request.
Asks ==
  /\ doing # <<>> /\ Head(doing).task \in {"ask", "media", "watched", "rewatch"}
  /\ IF AsksNothing
     THEN doing' = Tail(doing) /\ UNCHANGED <<up, pending, sess>>
     ELSE LET t == Head(doing).task
          IN /\ sess' = Rewatched
             /\ Ask(IF t = "ask" THEN Head(doing).req
                    ELSE IF t = "media" THEN Media(sess) ELSE Watched(Rewatched), Tail(doing))
  /\ UNCHANGED <<story, hub, down, alarm, inbox, engine, events, commands, starts, conn, retry, missed>>

\* Bug variant of RefusesStart: only the share allowance counts as a refusal.
RefusesStartLimited(req, answer) ==
  answer.type = "err" /\ answer.code = "limited" /\ req.share # NoShare /\ req.share # sess.serverShare
\* A share start that the server refused is taken back here, and what the server still holds of
\* an earlier share is stopped there.
RefusesStart(req, answer) ==
  /\ answer.type = "err" /\ answer.code \in {"full", "limited"}
  /\ req.share # NoShare /\ req.share # sess.serverShare

\* Call::join's answer: placed, or left where we were.
Joined ==
  /\ Waits /\ Head(doing).req.op \in {"join", "leave"} /\ Head(doing).got # <<>>
  /\ LET p == Head(doing).got[1]
         x == AfterJoin([s |-> sess, e |-> EnginePlaced(engine, p)], p)
     IN IF p.type = "placement"
        THEN /\ sess' = x.s /\ engine' = x.e
             /\ doing' = <<Task("media")>> \o Tail(doing)
             /\ missed' = IF DropsState(engine, p) \/ "kept" \in missed THEN {"state"} ELSE {}
        ELSE doing' = Tail(doing) /\ UNCHANGED <<sess, engine, missed>>
  /\ UNCHANGED <<story, hub, up, down, pending, alarm, inbox, events, commands, starts, conn, retry>>

\* push_media's answer.
MediaTaken ==
  /\ Waits /\ Head(doing).req.op = "media" /\ Head(doing).got # <<>>
  /\ LET req == Head(doing).req
         answer == Head(doing).got[1]
     IN \/ /\ RefusesStart(req, answer)
           /\ sess' = StopShare(sess)
           /\ doing' = IF sess.serverShare # NoShare THEN <<Task("media")>> \o Tail(doing)
                       ELSE Tail(doing)
           /\ UNCHANGED missed
        \/ /\ ~RefusesStart(req, answer)
           /\ sess' = IF answer.type = "ok" THEN [sess EXCEPT !.serverShare = req.share] ELSE sess
           /\ missed' = IF answer.type = "ok" THEN missed \ {"media"} ELSE missed
           /\ doing' = Tail(doing)
  /\ UNCHANGED <<story, hub, up, down, pending, alarm, inbox, engine, events, commands, starts, conn,
                 retry>>

\* push_watching goes on to its decoders whatever the answer.
WatchedTaken ==
  /\ Waits /\ Head(doing).req.op = "watched" /\ Head(doing).got # <<>>
  /\ LET x == SyncWatching([s |-> sess, e |-> engine]) IN sess' = x.s /\ engine' = x.e
  /\ doing' = Tail(doing)
  /\ missed' = IF Head(doing).got[1].type = "ok" THEN missed \ {"watched"} ELSE missed
  /\ UNCHANGED <<story, hub, up, down, pending, alarm, inbox, events, commands, starts, conn, retry>>

\* renew_encryption_key: a key that could not be published ends the connection.
KeyTaken ==
  /\ Waits /\ Head(doing).req.op = "key" /\ Head(doing).got # <<>>
  /\ doing' = Tail(doing)
  /\ IF Head(doing).got[1].type = "ok" \/ conn # "up" THEN UNCHANGED <<conn, up, down, pending>>
     ELSE /\ conn' = "cut" /\ up' = <<>> /\ down' = <<>>
          /\ pending' = [pending EXCEPT !.waiting = {}]
  /\ UNCHANGED <<story, hub, alarm, inbox, engine, events, commands, sess, starts, retry, missed>>

\* server_event.
Event ==
  /\ Idle /\ events # <<>>
  /\ LET m == Head(events)
         was == [s |-> sess, e |-> engine]
     IN IF m.room # sess.room THEN UNCHANGED <<sess, engine, doing, missed>>
        ELSE IF m.type = "kicked"
        THEN /\ sess' = PutOut(was).s /\ engine' = PutOut(was).e
             /\ missed' = IF hub.room = m.room THEN missed \cup {"kick"} ELSE missed
             /\ UNCHANGED doing
        ELSE /\ sess' = SyncPeers(was).s /\ engine' = SyncPeers(was).e
             /\ doing' = IF sess'.peers # sess.peers /\ sess.watching # {}
                         THEN <<Task("watched")>> ELSE <<>>
             /\ UNCHANGED missed
  /\ events' = Tail(events)
  /\ UNCHANGED <<story, hub, up, down, pending, alarm, inbox, commands, starts, conn, retry>>

\* share_started: the capture of a start is ready, or failed; only the wanted one is applied.
ShareStarted ==
  /\ Idle
  /\ \E r \in starts.running, ok \in BOOLEAN :
       /\ starts' = [starts EXCEPT !.running = @ \ {r}]
       /\ IF r.number # sess.wanted THEN UNCHANGED <<sess, doing>>
          ELSE IF ok THEN /\ sess' = [sess EXCEPT !.wanted = NoStart, !.share = r.config,
                                                  !.sender = r.tracks]
                          /\ doing' = <<Task("media")>>
          ELSE sess' = [sess EXCEPT !.wanted = NoStart] /\ UNCHANGED doing
  /\ UNCHANGED <<story, hub, up, down, pending, alarm, inbox, engine, events, commands, conn, retry,
                 missed>>

\* stop_ended_share: the capture stopped on its own.
ShareEnded ==
  /\ Idle /\ sess.sender # NoTracks /\ story.ends > 0
  /\ story' = [story EXCEPT !.ends = @ - 1]
  /\ sess' = StopShare(sess) /\ doing' = <<Task("media")>>
  /\ UNCHANGED <<hub, up, down, pending, alarm, inbox, engine, events, commands, starts, conn, retry,
                 missed>>

-----------------------------------------------------------------------------
(* Reconnecting. *)

\* The call's events end, and everything before them is handled.
LinkLost ==
  /\ conn = "cut" /\ doing = <<>> /\ inbox = <<>> /\ events = <<>>
  /\ conn' = "lost"
  /\ retry' = [want |-> sess.room, before |-> sess.room, watching |-> sess.watching, queued |-> <<>>]
  /\ UNCHANGED <<story, hub, up, down, pending, alarm, inbox, engine, events, commands, sess, starts,
                 doing, missed>>

Supersedes(newer, older) == newer.op \in {"mic", "deafen"} /\ newer.op = older.op

\* A command that arrives while reconnecting.  Of the commands it supersedes one at most is queued:
\* that one superseded those before it.
Queued(q, c) ==
  LET older == {i \in 1..Len(q) : Supersedes(c, q[i])}
      at == CHOOSE i \in older : TRUE
      kept == IF older = {} THEN q ELSE SubSeq(q, 1, at - 1) \o SubSeq(q, at + 1, Len(q))
  IN IF Len(kept) < MaxQueued THEN Append(kept, c) ELSE kept

QueueCommand ==
  /\ conn = "lost" /\ commands # <<>>
  /\ LET c == Head(commands)
     IN retry' = IF c.op \in {"join", "leave"}
                 THEN [retry EXCEPT !.want = IF c.op = "join" THEN c.room ELSE NoRoom]
                 ELSE [retry EXCEPT !.queued = Queued(@, c)]
  /\ commands' = Tail(commands)
  /\ UNCHANGED <<story, hub, up, down, pending, alarm, inbox, engine, events, sess, starts, doing, conn,
                 missed>>

\* Signed in again: Hub::connect evicts the old session, and may lead the new one into the room
\* it wants; then apply_welcome, and what the server has to be told again.
SignIn ==
  /\ conn = "lost"
  /\ \E room \in {retry.want, NoRoom} :
       LET evicted == [Placed(hub, NoRoom) EXCEPT !.mic = FALSE, !.deaf = FALSE]
           h == Placed(evicted, room)
           fresh == [s |-> ResetRoom([s |-> sess, e |-> engine]).s, e |-> NewEngine]
           x == IF room = NoRoom THEN fresh
                ELSE AfterJoin([s |-> fresh.s, e |-> EnginePlaced(NewEngine, Placement(h))], Placement(h))
       IN /\ hub' = h /\ sess' = x.s /\ engine' = x.e
  /\ conn' = "up" /\ pending' = [next |-> 1, waiting |-> {}] /\ missed' = {}
  /\ doing' = <<Task("media"), Task("rewatch"), Task("replay")>>
  /\ UNCHANGED <<story, up, down, alarm, inbox, events, commands, starts, retry>>

\* Told to stop, or refused for good.
GiveUp ==
  /\ conn = "lost" /\ conn' = "stopped"
  /\ UNCHANGED <<story, hub, up, down, pending, alarm, inbox, engine, events, commands, sess, starts,
                 doing, retry, missed>>

-----------------------------------------------------------------------------

\* The user clicks.  The application asks for no room it shows as ours already (join_room), and
\* offers to watch the shares it shows.
Click ==
  /\ conn # "stopped" /\ story.clicks > 0
  /\ \E c \in story.commands :
       /\ c.op = "join" => c.room # sess.room
       /\ c.op = "leave" => sess.room # NoRoom
       /\ c.op = "watch" => c.user \in DOMAIN sess.peers /\ sess.peers[c.user].share # NoShare
       /\ commands' = Append(commands, c)
  /\ story' = [story EXCEPT !.clicks = @ - 1]
  /\ UNCHANGED <<hub, up, down, pending, alarm, inbox, engine, events, sess, starts, doing, conn, retry,
                 missed>>

SessionInit ==
  /\ story \in Stories
  /\ hub = [room |-> NoRoom, tracks |-> NoTracks, epoch |-> 1, placed |-> Cardinality(Others),
            share |-> NoShare, watched |-> {}, mic |-> FALSE, deaf |-> FALSE, others |-> story.others]
  /\ up = <<>> /\ down = <<>> /\ inbox = <<>> /\ events = <<>> /\ commands = <<>> /\ doing = <<>>
  /\ pending = [next |-> 1, waiting |-> {}] /\ alarm = FALSE
  /\ engine = NewEngine /\ sess = NewSession
  /\ starts = [count |-> 0, running |-> {}]
  /\ conn = "up" /\ missed = {}
  /\ retry = [want |-> NoRoom, before |-> NoRoom, watching |-> {}, queued |-> <<>>]

SessionNext ==
  \/ Serve \/ (\E o \in Others : OtherActs(o)) \/ PutOutByHub
  \/ Read \/ Pump \/ Timeout \/ LinkClosed \/ Cut
  \/ Command \/ Replay \/ Asks \/ Joined \/ MediaTaken \/ WatchedTaken \/ KeyTaken
  \/ Event \/ ShareStarted \/ ShareEnded
  \/ LinkLost \/ QueueCommand \/ SignIn \/ GiveUp \/ Click

SessionSpec == SessionInit /\ [][SessionNext]_sessionVars

-----------------------------------------------------------------------------
(* Properties. *)

\* control.rs: "The waiter stays registered, so a late reply is dropped rather than taken for a
\* reply to a request never sent": no answer of a conforming server ends the connection, however
\* late it is.
NoFalseAlarm == ~alarm

\* Nothing is under way.
Settled ==
  /\ conn = "up" /\ doing = <<>>
  /\ up = <<>> /\ down = <<>> /\ inbox = <<>> /\ events = <<>> /\ commands = <<>>

\* Once nothing is under way the hub has this client in the room, on the tracks, and with the
\* switches, share and watched shares the session shows, and the session follows everyone the
\* hub has in that room.  What can break it is recorded in `missed': an answer given up on
\* (REPLY_TIMEOUT), a kick taken for one from the room entered again, and a room state kept for
\* a placement of its own epoch.
HubAgrees ==
  Settled =>
    /\ missed \cap {"join", "kick"} = {} => hub.room = sess.room /\ hub.tracks = sess.tracks
    /\ missed = {} /\ sess.room # NoRoom =>
         /\ <<hub.mic, hub.deaf, hub.share>> = <<sess.mic, sess.deaf, sess.share>>
         /\ sess.serverShare = hub.share
         /\ sess.peers = Peers(hub, hub.room)
         /\ hub.watched = Watched(sess).ids

\* A share is sent only on the tracks of the placement we are in, from the start that was asked
\* for in it, and is announced while it runs.
ShareOnOwnTracks ==
  /\ sess.sender # NoTracks => sess.sender = sess.tracks
  /\ sess.sender # NoTracks <=> sess.share # NoShare
  /\ \A r \in starts.running : r.number = sess.wanted => r.tracks = sess.tracks

\* The engine hands the session the mics of those it follows and the shares it decodes, nothing
\* is decoded that is not subscribed, and between handlers the decoders are those of the running
\* shares being watched.
DecodesWatched ==
  /\ engine.shares = DecodedTracks(sess)
  /\ {sess.peers[u].tracks : u \in DOMAIN sess.peers} \subseteq engine.mics
  /\ Idle => sess.decoding = Running(sess)

\* What the session shows and does is what the hub has of it, through late answers, kicks,
\* shares that start late and reconnects (session.rs against rooms.rs).
SessionAgrees == NoFalseAlarm /\ HubAgrees /\ ShareOnOwnTracks /\ DecodesWatched

=============================================================================
