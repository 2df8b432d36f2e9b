---------------------------- MODULE KeyExchange ----------------------------
(***************************************************************************)
(* The key managers of several clients around the hub: who ends up with    *)
(* whose sender secret.                                                    *)
(*                                                                         *)
(* The hub handles a request in one step and writes what it tells each     *)
(* client, the reply among it, to that client's control stream.  In the    *)
(* client the reply wakes the session task, the events go through the pump *)
(* task, and both apply what they carry to the one key manager (call.rs,   *)
(* engine.rs).  The requests the managers make are sent one after the      *)
(* other; the hub forwards the sealed secrets or refuses them.             *)
(*                                                                         *)
(* User u's n-th encryption key is <<u, n>>, and its media id u: Hub shows *)
(* that media ids are distinct.  Grace periods outlast what is under way   *)
(* (AnyServer lets them end at any time).                                  *)
(***************************************************************************)
EXTENDS KeyManager

CONSTANT
  Stories   \* what may happen in a behaviour: a set of stories

\* A story: the rooms people go to, the epochs the rooms come with, a bound on the requests that
\* move someone, renew a key or change a share; the users who renew their encryption key, once,
\* who may start and stop a share, whom an admin may kick, and whose connection may drop and come
\* back; whether a task may be held up between changing the keys and sending its requests, and
\* whether the session may take a command before a kick that is on its way.
IsStory(x) ==
  /\ x.visited \subseteq Rooms
  /\ x.first \in [Rooms -> Nat]
  /\ x.moves \in Nat
  /\ x.renewing \cup x.sharing \cup x.kickable \cup x.returning \subseteq Users
  /\ {x.sendRace, x.kickRace} \subseteq BOOLEAN

ASSUME ExchangeConstants == \A x \in Stories : IsStory(x)

VARIABLES
  story,      \* the one that happens
  hub,        \* the hub's state: [at, epoch, enc, share]
  k,          \* each client's key manager
  events,     \* what the hub wrote to each client's control stream
  reply,      \* what each session waits for
  kicks,      \* kicks the pump has passed on to each session
  unsent,     \* requests each task of a client has made and not sent
  pubs,       \* PublishSenderKey requests sent and not handled
  moves,      \* requests handled so far
  belonged,   \* history: the epochs of which rooms each user was a member
  knows,      \* history: the secrets each user ever unwrapped
  sentUnder   \* history: the secrets each user could send under, with the room and epoch

vars == <<story, hub, k, events, reply, kicks, unsent, pubs, moves, belonged, knows, sentUnder>>

AnyRoom == story.visited \cup {NoRoom}
Tasks == {"session", "pump"}
Idle == [kind |-> "idle"]
EncOf(u, n) == <<u, n>>

Init ==
  /\ story \in Stories
  /\ hub = [at |-> [u \in Users |-> NoRoom], epoch |-> story.first,
            enc |-> [u \in Users |-> EncOf(u, 1)], share |-> [u \in Users |-> 0]]
  /\ k = [u \in Users |-> New([r \in Rooms |-> NoEpoch], EncOf(u, 1), 0)]
  /\ events = [u \in Users |-> <<>>]
  /\ reply = [u \in Users |-> Idle]
  /\ kicks = [u \in Users |-> <<>>]
  /\ unsent = [u \in Users |-> [t \in Tasks |-> <<>>]]
  /\ pubs = [u \in Users |-> <<>>]
  /\ moves = 0
  /\ belonged = [u \in Users |-> {}]
  /\ knows = [u \in Users |-> {}]
  /\ sentUnder = [u \in Users |-> {}]

-----------------------------------------------------------------------------
(* The hub. *)

Members(h, r) == {u \in Users : h.at[u] = r}

PeersOf(h, r) ==
  {[user |-> u, id |-> u, enc |-> h.enc[u], ok |-> TRUE, media |-> u, share |-> h.share[u]] :
    u \in Members(h, r)}

PeersEvent(h, r) ==
  [kind |-> "peers", room |-> r, epoch |-> h.epoch[r], peers |-> PeersOf(h, r)]

\* place, as far as the state goes.
Placed(h, u, r) ==
  IF h.at[u] = r THEN h
  ELSE [h EXCEPT !.at[u] = r, !.share[u] = 0,
                 !.epoch = [q \in Rooms |-> h.epoch[q] + IF q \in {h.at[u], r} THEN 1 ELSE 0]]

\* Bug variant of ToldOfMove: those left behind hear nothing.
ToldOfArrival(h, u, r, v) ==
  LET next == Placed(h, u, r) IN
  IF h.at[u] = r \/ v = u THEN <<>>
  ELSE (IF r # NoRoom /\ next.at[v] = r THEN <<PeersEvent(next, r)>> ELSE <<>>)
       \o <<[kind |-> "presence", user |-> u, room |-> r]>>
\* What place writes to v's stream: the state of the room left, that of the room entered, and
\* the presence (one's own is not used).
ToldOfMove(h, u, r, v) ==
  LET next == Placed(h, u, r)
      old == h.at[u]
  IN IF old = r THEN <<>>
     ELSE (IF old # NoRoom /\ next.at[v] = old THEN <<PeersEvent(next, old)>> ELSE <<>>)
          \o (IF r # NoRoom /\ next.at[v] = r /\ v # u THEN <<PeersEvent(next, r)>> ELSE <<>>)
          \o (IF v # u THEN <<[kind |-> "presence", user |-> u, room |-> r]>> ELSE <<>>)

Placement(h, u) ==
  LET r == h.at[u] IN
  IF r = NoRoom THEN [kind |-> "placement", room |-> r, epoch |-> 0, peers |-> {}]
  ELSE [kind |-> "placement", room |-> r, epoch |-> h.epoch[r], peers |-> PeersOf(h, r)]

\* The Welcome of a new connection: its placement, and who is where.
Welcome(h, u) ==
  LET p == Placement(h, u) IN
  [kind |-> "welcome", room |-> p.room, epoch |-> p.epoch, peers |-> p.peers, present |-> h.at]

Belonging(b, h) ==
  [u \in Users |-> IF h.at[u] = NoRoom THEN b[u] ELSE b[u] \cup {<<h.at[u], h.epoch[h.at[u]]>>}]

\* A request is handled: the state becomes h and v is written tell[v].
Handles(h, tell) ==
  /\ moves < story.moves
  /\ moves' = moves + 1
  /\ hub' = h
  /\ belonged' = Belonging(belonged, h)
  /\ events' = [v \in Users |-> events[v] \o tell[v]]

\* The session takes a command.
Commands(u) ==
  /\ reply[u] = Idle
  /\ unsent[u]["session"] = <<>>
  /\ \/ story.kickRace
     \/ kicks[u] = <<>> /\ \A i \in DOMAIN events[u] : events[u][i].kind # "kicked"

\* Call::join, to the reply: JoinRoom, or LeaveRoom where r is NoRoom.  The GUI's join_room
\* asks for no room that is shown as ours.
Join(u, r) ==
  /\ Commands(u)
  /\ r # k[u].room
  /\ LET tell == [v \in Users |-> ToldOfMove(hub, u, r, v)] IN Handles(Placed(hub, u, r), tell)
  /\ reply' = [reply EXCEPT ![u] = Placement(Placed(hub, u, r), u)]
  /\ UNCHANGED <<k, kicks, unsent, pubs, knows, sentUnder>>

\* kick_from_room.
Kick(u) ==
  /\ u \in story.kickable
  /\ hub.at[u] # NoRoom
  /\ LET tell == [v \in Users |->
                    ToldOfMove(hub, u, NoRoom, v)
                    \o (IF v = u THEN <<[kind |-> "kicked", room |-> hub.at[u]]>> ELSE <<>>)]
     IN Handles(Placed(hub, u, NoRoom), tell)
  /\ UNCHANGED <<k, reply, kicks, unsent, pubs, knows, sentUnder>>

\* set_media, starting or stopping a share.
SetShare(u) ==
  /\ u \in story.sharing
  /\ Commands(u)
  /\ k[u].room # NoRoom /\ hub.at[u] # NoRoom
  /\ LET h == [hub EXCEPT !.share[u] = 1 - @]
         tell == [v \in Users |->
                    IF h.at[v] = h.at[u] THEN <<PeersEvent(h, h.at[u])>> ELSE <<>>]
     IN Handles(h, tell)
  /\ UNCHANGED <<k, reply, kicks, unsent, pubs, knows, sentUnder>>

\* renew_encryption_key, to the request.
Renew(u) ==
  /\ u \in story.renewing
  /\ k[u].enc = EncOf(u, 1)
  /\ Commands(u)
  /\ k' = [k EXCEPT ![u] = ReplaceEncryption(k[u], EncOf(u, 2))]
  /\ reply' = [reply EXCEPT ![u] = [kind |-> "renewal"]]
  /\ UNCHANGED <<hub, events, kicks, unsent, pubs, moves, belonged, knows, sentUnder>>

\* The hub's set_encryption_key; a sign-in publishes the key too, before its events are read.
SetEncryptionKey(u) ==
  /\ reply[u].kind \in {"renewal", "welcome"}
  /\ hub.enc[u] # k[u].enc
  /\ LET r == hub.at[u]
         stored == [hub EXCEPT !.enc[u] = k[u].enc]
         h == IF r = NoRoom THEN stored ELSE [stored EXCEPT !.epoch[r] = @ + 1]
         tell == [v \in Users |->
                    IF r # NoRoom /\ h.at[v] = r THEN <<PeersEvent(h, r)>> ELSE <<>>]
     IN Handles(h, tell)
  /\ reply' = IF reply[u].kind = "welcome" THEN reply ELSE [reply EXCEPT ![u] = Idle]
  /\ UNCHANGED <<k, kicks, unsent, pubs, knows, sentUnder>>

\* The connection drops and the session signs in again: the hub evicts the old session, and
\* places the new one in r, the room it wants.  What was under way on the old connection is lost.
Reconnect(u, r) ==
  /\ u \in story.returning
  /\ LET left == Placed(hub, u, NoRoom)
         back == Placed(left, u, r)
         tell(v) == ToldOfMove(hub, u, NoRoom, v) \o ToldOfMove(left, u, r, v)
     IN /\ moves < story.moves
        /\ moves' = moves + 1
        /\ hub' = back
        /\ belonged' = Belonging(Belonging(belonged, left), back)
        /\ events' = [v \in Users |-> IF v = u THEN <<>> ELSE events[v] \o tell(v)]
        /\ reply' = [reply EXCEPT ![u] = Welcome(back, u)]
  /\ kicks' = [kicks EXCEPT ![u] = <<>>]
  /\ unsent' = [unsent EXCEPT ![u] = [t \in Tasks |-> <<>>]]
  /\ pubs' = [pubs EXCEPT ![u] = <<>>]
  /\ UNCHANGED <<k, knows, sentUnder>>

\* publish_key: refused unless it is of the room's epoch and for its members only.
Accepted(u, request) ==
  /\ hub.at[u] # NoRoom
  /\ request.epoch = hub.epoch[hub.at[u]]
  /\ \A b \in request.blobs : b.user # u /\ hub.at[b.user] = hub.at[u]

PublishKey(u) ==
  /\ pubs[u] # <<>>
  /\ LET request == Head(pubs[u])
         for(v) == {b \in request.blobs : b.user = v}
         tell(v) == IF Accepted(u, request) /\ for(v) # {}
                    THEN <<[kind |-> "key", from |-> u, epoch |-> request.epoch,
                            blob |-> CHOOSE b \in for(v) : TRUE]>>
                    ELSE <<>>
     IN events' = [v \in Users |-> events[v] \o tell(v)]
  /\ pubs' = [pubs EXCEPT ![u] = Tail(@)]
  /\ UNCHANGED <<hub, k, reply, kicks, unsent, moves, belonged, knows, sentUnder>>

-----------------------------------------------------------------------------
(* The clients. *)

\* A task changes the keys, then sends the requests that makes.  A change makes two secrets at
\* the most; the bound keeps their numbers apart.
Applies(u, t, next) ==
  /\ unsent[u][t] = <<>>
  /\ k[u].made + 2 <= NumSecrets
  /\ k' = [k EXCEPT ![u] = [next EXCEPT !.out = <<>>]]
  /\ knows' = [knows EXCEPT ![u] = @ \cup {<<r.from, r.secret>> : r \in next.received}]
  /\ sentUnder' = [sentUnder EXCEPT ![u] =
                     IF next.secret = 0 THEN @ ELSE @ \cup {<<next.secret, next.room, next.epoch>>}]
  /\ IF story.sendRace
     THEN unsent' = [unsent EXCEPT ![u][t] = next.out] /\ UNCHANGED pubs
     ELSE pubs' = [pubs EXCEPT ![u] = @ \o next.out] /\ UNCHANGED unsent

Sends(u, t) ==
  /\ unsent[u][t] # <<>>
  /\ pubs' = [pubs EXCEPT ![u] = @ \o unsent[u][t]]
  /\ unsent' = [unsent EXCEPT ![u][t] = <<>>]
  /\ UNCHANGED <<hub, k, events, reply, kicks, moves, belonged, knows, sentUnder>>

\* The session wakes with the reply, before or after the pump has seen the events around it.
ApplyReply(u) ==
  /\ reply[u].kind = "placement"
  /\ Applies(u, "session", ApplyPlacement(k[u], u, reply[u].room, reply[u].epoch, u,
                                          reply[u].peers, {}))
  /\ reply' = [reply EXCEPT ![u] = Idle]
  /\ UNCHANGED <<hub, events, kicks, moves, belonged>>

\* Call::restart, with a manager over the floors of the last one.
ApplyWelcome(u) ==
  /\ reply[u].kind = "welcome"
  /\ hub.enc[u] = k[u].enc
  /\ LET fresh == [New(k[u].floors, k[u].enc, k[u].made) EXCEPT !.present = reply[u].present]
     IN Applies(u, "session",
                IF reply[u].room = NoRoom THEN fresh
                ELSE ApplyPlacement(fresh, u, reply[u].room, reply[u].epoch, u, reply[u].peers, {}))
  /\ reply' = [reply EXCEPT ![u] = Idle]
  /\ UNCHANGED <<hub, events, kicks, moves, belonged>>

\* MediaEngine::event, on the pump.
Pump(u) ==
  /\ events[u] # <<>>
  /\ reply[u].kind # "welcome"
  /\ LET x == Head(events[u]) IN
     /\ Applies(u, "pump",
          CASE x.kind = "peers" -> PeersChanged(k[u], u, x.room, x.epoch, x.peers, {})
            [] x.kind = "presence" -> SetPresence(k[u], u, x.user, x.room, {})
            [] x.kind = "key" -> SenderKey(k[u], u, x)
            [] x.kind = "kicked" -> k[u])
     /\ kicks' = IF x.kind = "kicked" THEN [kicks EXCEPT ![u] = Append(@, x.room)] ELSE kicks
  /\ events' = [events EXCEPT ![u] = Tail(@)]
  /\ UNCHANGED <<hub, reply, moves, belonged>>

\* Bug variant of PutOut: the notice is shown, and that is all.
NotPutOut(u, r) == k[u]
\* put_out_of_room, if it is the room the session is in.
PutOut(u, r) == IF r = k[u].room THEN ApplyPlacement(k[u], u, NoRoom, 0, 0, {}, {}) ELSE k[u]

\* The session hears of a kick.
Kicked(u) ==
  /\ kicks[u] # <<>>
  /\ reply[u] = Idle
  /\ Applies(u, "session", PutOut(u, Head(kicks[u])))
  /\ kicks' = [kicks EXCEPT ![u] = Tail(@)]
  /\ UNCHANGED <<hub, events, reply, moves, belonged>>

Next ==
  UNCHANGED story /\ \E u \in Users :
    \/ \E r \in AnyRoom : Join(u, r) \/ Reconnect(u, r)
    \/ Kick(u) \/ SetShare(u) \/ Renew(u) \/ SetEncryptionKey(u) \/ PublishKey(u)
    \/ ApplyReply(u) \/ ApplyWelcome(u) \/ Pump(u) \/ Kicked(u)
    \/ \E t \in Tasks : Sends(u, t)

Spec == Init /\ [][Next]_vars

-----------------------------------------------------------------------------
(* Properties. *)

\* Nothing is under way.
Quiet ==
  \A u \in Users : /\ events[u] = <<>> /\ reply[u] = Idle /\ kicks[u] = <<>> /\ pubs[u] = <<>>
                   /\ \A t \in Tasks : unsent[u][t] = <<>>

\* Everyone goes to one room, no request is held up and a kick is heard of before the next
\* command.  (A secret from a room of a lower epoch may arrive before the move there is applied
\* and be taken for an old one of the room left; a kick heard of late puts the session out of
\* the room it has come back to.)
Steady == Cardinality(story.visited) = 1 /\ ~story.sendRace /\ ~story.kickRace

\* Once nothing is under way each client is where the hub has it.
RoomsAgree == Steady /\ Quiet => \A u \in Users : k[u].room = hub.at[u]

\* And it has the room's state as the hub has it: the epoch, the members and their keys.  (Not
\* their shares: a state that changes no epoch is lost when it comes before the placement is
\* applied, for the stash keeps the first of an epoch.)
StatesAgree ==
  Steady /\ Quiet => \A u \in Users : k[u].room # NoRoom =>
    /\ k[u].epoch = hub.epoch[k[u].room]
    /\ {<<p.user, p.id, p.enc, p.media>> : p \in k[u].roomPeers} =
         {<<p.user, p.id, p.enc, p.media>> : p \in PeersOf(hub, k[u].room)}

\* And each member of a room holds every other member's present secret, for the room's epoch:
\* all of them hear all of them.
KeysAgree ==
  Steady /\ Quiet => \A u, v \in Users : u # v /\ hub.at[u] = hub.at[v] /\ hub.at[u] # NoRoom =>
    \E x \in k[u].received : /\ x.from = v /\ x.epoch = hub.epoch[hub.at[u]]
                             /\ x.secret = k[v].secret /\ ~x.retired

\* src/README.md: "a newcomer can't decrypt what came before and a leaver can't decrypt what
\* comes after": whoever ever unwraps a secret that a client sent under was a member of its
\* room in every epoch it sent under it in.
OnlyMembersKnow ==
  \A u, v \in Users : \A x \in sentUnder[v] :
    <<v, x[1]>> \in knows[u] => <<x[2], x[3]>> \in belonged[u]

\* Once all is delivered, clients and hub agree: on rooms, on who is in them, and on keys
\* (call.rs, engine.rs, keys.rs against rooms.rs).
ViewsAgree == RoomsAgree /\ StatesAgree /\ KeysAgree

=============================================================================
