----------------------------- MODULE AnyServer -----------------------------
(***************************************************************************)
(* One client's KeyManager against whatever a server sends: placements,    *)
(* room states, presences and sender keys in any order, repeated, of any   *)
(* epoch, as a server restored from a backup or repeating an earlier call  *)
(* would.  The client reconnects, restarts and may crash; the newest epoch *)
(* it took part in, per room, is its EpochFloors, in memory and on file.   *)
(*                                                                         *)
(* A room's epoch is bumped before anyone is placed in it, so epochs start *)
(* at 1 (0 is the manager's own "none yet").                               *)
(***************************************************************************)
EXTENDS KeyManager

CONSTANTS
  me,           \* our user id
  PeerLists,    \* what room states may list: sets of peers
  Sealed,       \* blobs that peers have sealed to us: [by, to, room, epoch, from, user, secret]
  OurKeys,      \* our encryption keys, in the order of renewal: 1..n
  OurMedia,     \* the media id the server gives us
  MaxEpoch      \* bound: epochs the server uses

ASSUME AnyServerConstants ==
  /\ me \in Users
  /\ MaxEpoch \in Nat /\ NumSecrets > 1
  /\ \A p \in UNION PeerLists : p.user \in Users /\ p.ok \in BOOLEAN

VARIABLES
  k,      \* the key manager
  saved,  \* the floors on file
  took,   \* history: the newest epoch we took part in, per room, that no crash has lost
  past    \* history: took, as it was when the present stay in a room began

vars == <<k, saved, took, past>>

Epochs == 1..MaxEpoch
AnyRoom == Rooms \cup {NoRoom}
NoFloors == [r \in Rooms |-> NoEpoch]
MediaIds == {p.media : p \in UNION PeerLists}
Peers == Users \ {me}

Init ==
  /\ k = New(NoFloors, 1, 0)
  /\ saved = NoFloors
  /\ took = NoFloors
  /\ past = NoFloors

\* The requests an operation made are sent before the next.
Ready == [k EXCEPT !.out = <<>>]

Max2(a, b) == IF a < b THEN b ELSE a

Becomes(next) ==
  /\ k' = next
  /\ took' = IF next.room = NoRoom THEN took
             ELSE [took EXCEPT ![next.room] = Max2(@, next.epoch)]

\* The session saves the floors right after a placement.
Placement(r, e, P) ==
  /\ Becomes(ApplyPlacement(Ready, me, r, e, OurMedia, P, {}))
  /\ saved' = k'.floors
  /\ past' = IF r = k.room THEN past ELSE took

\* The reply to LeaveRoom.
Lobby ==
  /\ Becomes(ApplyPlacement(Ready, me, NoRoom, 0, 0, {}, {}))
  /\ saved' = k'.floors
  /\ past' = took

\* put_out_of_room, after a KickedFromRoom or RoomDeleted: nothing is saved.
PutOut ==
  /\ k.room # NoRoom
  /\ Becomes(ApplyPlacement(Ready, me, NoRoom, 0, 0, {}, {}))
  /\ past' = took
  /\ UNCHANGED saved

RoomState(r, e, P) ==
  /\ Becomes(PeersChanged(Ready, me, r, e, P, {}))
  /\ UNCHANGED <<saved, past>>

Presence(u, r) ==
  /\ Becomes(SetPresence(Ready, me, u, r, {}))
  /\ UNCHANGED <<saved, past>>

SenderKeyPublished(e, blob) ==
  /\ Becomes(SenderKey(Ready, me, [from |-> blob.from, epoch |-> e, blob |-> blob]))
  /\ UNCHANGED <<saved, past>>

\* A datagram of this track and epoch arrives.
Media(m, e) ==
  /\ Becomes(RecvKey(Ready, m, e))
  /\ UNCHANGED <<saved, past>>

RenewKey ==
  /\ k.enc + 1 \in OurKeys
  /\ Becomes(ReplaceEncryption(Ready, k.enc + 1))
  /\ UNCHANGED <<saved, past>>

\* The engine's tick.  What runs out is independent of each other and ticks may follow each
\* other at once, so one thing runs out in each.
Ticks(spent, stale, graceOver, keyOver) ==
  /\ Becomes(Tick(Ready, spent, stale, graceOver, keyOver))
  /\ UNCHANGED <<saved, past>>

\* The session's health tick.
SaveFloors ==
  /\ Becomes(Ready)
  /\ saved' = k.floors
  /\ UNCHANGED past

\* Call::restart: another manager over the floors in memory.
Reconnect ==
  /\ k' = New(k.floors, k.enc, k.made)
  /\ past' = took
  /\ UNCHANGED <<saved, took>>

\* The client stops, having saved its floors, and starts again.
Restart ==
  /\ k' = New(k.floors, k.enc, k.made)
  /\ saved' = k.floors
  /\ past' = took
  /\ UNCHANGED took

\* The client stops without saving them: what room states brought since the last save is lost.
Crash ==
  /\ k' = New(saved, k.enc, k.made)
  /\ took' = saved
  /\ past' = saved
  /\ UNCHANGED saved

Next ==
  \/ \E r \in Rooms, e \in Epochs, P \in PeerLists :
       Placement(r, e, P) \/ RoomState(r, e, P)
  \/ Lobby
  \/ PutOut
  \/ \E u \in Peers, r \in AnyRoom : Presence(u, r)
  \/ \E e \in Epochs, blob \in Sealed : SenderKeyPublished(e, blob)
  \/ \E m \in MediaIds, e \in Epochs : Media(m, e)
  \/ RenewKey
  \/ \E r \in k.received : r.retired /\ Ticks({r}, {}, FALSE, FALSE)
  \/ \E e \in k.early : Ticks({}, {e}, FALSE, FALSE)
  \/ Ticks({}, {}, TRUE, FALSE)
  \/ Ticks({}, {}, FALSE, TRUE)
  \/ SaveFloors
  \/ Reconnect
  \/ Restart
  \/ Crash

Spec == Init /\ [][Next]_vars

-----------------------------------------------------------------------------
(* Properties. *)

\* Our present secret was sealed to exactly the peers we trust now, by the keys they present
\* now, and each of them is shown in our room: whatever order room states, presences and
\* refused keys come in, nobody holds it from before or after their membership.
AudienceCurrent ==
  k.secret # 0 =>
    /\ k.sealed = Sealable(k.peers)
    /\ \A p \in k.peers : k.present[p.user] = k.room

\* A secret is sealed once: while it is in use nobody else is given it, and nobody it was
\* sealed to leaves its audience.
AudienceFixed ==
  [][k.secret # 0 /\ k'.secret = k.secret /\ k'.room = k.room
     => k'.sealed = k.sealed /\ k'.out = <<>>]_vars

\* floors.rs: "so a server can't bring back an older epoch's sender keys and media after a trip
\* through the lobby, a reconnect or a restart": whatever is sent, no key of an epoch at or
\* before one taken part in during an earlier stay is ever handed to the decoder.
NoReplay ==
  k.room # NoRoom =>
    \A m \in MediaIds, e \in Epochs : RecvSecrets(k, m, e) # {} => e > past[k.room]

\* A key handed to the decoder is derived from the secret stored last for whoever the room
\* state says sends on that track: neither a replaced secret nor another peer's.
KeysOfOwner ==
  \A m \in MediaIds, e \in Epochs : \A s \in RecvSecrets(k, m, e) :
    \E r \in k.received : r.from \in Owner(k, m) /\ r.epoch = e /\ r.secret = s

\* A received secret that will not run out is one of our epoch, from a peer trusted now under
\* the identity that sent it.  Stated of peers who keep a key HPKE accepts while they are in
\* the room: the secrets of one whose key it refuses and who then presents another identity do
\* not start to run out (keys.rs wrap_for_new_peers, departed).
OldSecretsRunOut ==
  \A r \in k.received : ~r.retired =>
    r.epoch = k.epoch /\ \E p \in k.peers : p.user = r.from /\ p.id = r.id

\* The trusted set settles: applying the room state again makes no new secret, even where HPKE
\* refused to wrap to someone.
Settles == k.secret # 0 => ReapplyPeers(Ready, me, {}).secret = k.secret

\* Our secret and those it is sealed to go together, whatever the server sends (keys.rs
\* peers_changed, wrap_for_new_peers).
AudienceKept == [](AudienceCurrent /\ Settles) /\ AudienceFixed

\* What we decrypt with is what the track's owner sent last, or is running out (keys.rs
\* recv_key, departed).
SecretsCurrent == KeysOfOwner /\ OldSecretsRunOut

=============================================================================
