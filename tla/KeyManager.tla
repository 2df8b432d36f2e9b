----------------------------- MODULE KeyManager -----------------------------
(***************************************************************************)
(* A client's KeyManager (throcc-client-core: keys.rs, with floors.rs): the*)
(* sender secrets of one room, ours and our peers'.  Each operation is a   *)
(* function from one state of the manager to the next; AnyServer drives it *)
(* with whatever a server may send, KeyExchange with what the hub sends.   *)
(*                                                                         *)
(* A peer of a room state is a record: the user, the identity key `id` it  *)
(* presents, its encryption key `enc`, whether that key is signed by the   *)
(* identity and current (`ok`), the media id it sends on and its share.    *)
(* Our secrets are numbered in the order we make them, over again after    *)
(* NumSecrets.  HPKE is ideal: a blob opens for the keys and the context it*)
(* was sealed with, only.                                                  *)
(*                                                                         *)
(* Time is a choice: what a grace period keeps may be dropped at any tick, *)
(* the caller says which.  Caches that cannot be told from what they cache *)
(* (checked_signatures) and the change counter are left out.               *)
(***************************************************************************)
EXTENDS Integers, Sequences, FiniteSets

CONSTANTS
  Users,      \* user ids
  Rooms,      \* room ids
  Refused,    \* encryption keys HPKE can't wrap to
  MaxMembers, \* MAX_ROOM_MEMBERS
  MaxEarly,   \* MAX_EARLY
  MaxPresent, \* MAX_SIGNED_IN
  NumSecrets  \* bound: the secrets we make that are told apart

NoRoom == 0
NoEpoch == -1   \* no floor
NoStash == <<>>

ASSUME KeyConstants ==
  /\ NoRoom \notin Rooms
  /\ IsFiniteSet(Users)
  /\ MaxMembers \in Nat /\ MaxEarly \in Nat /\ MaxPresent \in Nat
  /\ NumSecrets \in Nat \ {0}

\* KeyManager::new, over the floors kept for us and the encryption key of the keystore.
New(floors, enc, made) ==
  [room |-> NoRoom, epoch |-> 0, graceOver |-> TRUE, floors |-> floors, floor |-> NoEpoch,
   present |-> [u \in Users |-> NoRoom], roomPeers |-> {}, peers |-> {}, media |-> 0,
   enc |-> enc, retiredEnc |-> {},
   secret |-> 0, made |-> made, sealed |-> {}, unwrappable |-> {},
   received |-> {}, cache |-> {}, early |-> {}, stashed |-> NoStash, out |-> <<>>]

Named(P) == {p.user : p \in P}
Sealable(P) == {<<p.user, p.enc>> : p \in P}

-----------------------------------------------------------------------------
(* Whom to trust. *)

\* A user or a media id appears twice, our own id among them.
ClashingTracks(k, me, P) ==
  LET others == {p \in P : p.user # me} IN
  \/ \E p, q \in others : p # q /\ (p.user = q.user \/ p.media = q.media)
  \/ k.media # 0 /\ \E p \in others : p.media = k.media

Invalid(k, me, P) == Cardinality(P) > MaxMembers \/ ClashingTracks(k, me, P)

\* Bug variant of TrustedPeers: presence is not asked for.
TrustedUnseen(k, me, r, P) ==
  {p \in P : p.user # me /\ p.ok /\ <<p.user, p.enc>> \notin k.unwrappable}
TrustedPeers(k, me, r, P) ==
  {p \in P : /\ p.user # me /\ k.present[p.user] = r
             /\ p.ok /\ <<p.user, p.enc>> \notin k.unwrappable}

\* Bug variant of BelowFloor: the floor of earlier stays is not asked for.
BelowEpoch(k, e) == e + 1 < k.epoch
BelowFloor(k, e) == e <= k.floor \/ e + 1 < k.epoch

-----------------------------------------------------------------------------
(* Received secrets. *)

Retired(r) == [r EXCEPT !.retired = TRUE]
\* retire_received: starts the grace period of these.
RetireReceived(R, old) == {IF r \in old THEN Retired(r) ELSE r : r \in R}

\* hpke::unwrap with our present key or the one it replaced: the blob was sealed by that
\* sender's encryption key, to ours, for this room, epoch and pair of users.
Opens(k, me, x) ==
  \E p \in k.peers :
    /\ p.user = x.from
    /\ x.blob.by = p.enc
    /\ x.blob.to \in {k.enc} \cup k.retiredEnc
    /\ <<x.blob.room, x.blob.epoch, x.blob.from, x.blob.user>> = <<k.room, x.epoch, x.from, me>>

IdOf(k, u) == (CHOOSE p \in k.peers : p.user = u).id

\* Bug variant of CacheWithout: a new secret leaves the keys derived from the old one.
CacheKept(C, opened) == C
CacheWithout(C, opened) ==
  {c \in C : \A x \in opened : ~(c.owner = x.from /\ c.epoch = x.epoch)}

\* sender_key_at for each of these messages (no two of one sender and epoch): too old, held
\* for a room state to come, or opened and stored.
Deliver(k, me, S) ==
  LET current == {x \in S : ~BelowFloor(k, x.epoch)}
      usable == {x \in current : /\ k.room # NoRoom /\ x.from \in Named(k.peers)
                                 /\ x.epoch <= k.epoch}
      opened == {x \in usable : (x.epoch = k.epoch \/ ~k.graceOver) /\ Opens(k, me, x)}
      same(a, b) == a.from = b.from /\ a.epoch = b.epoch
      held == {x \in current \ usable :
                 Cardinality(k.early) < MaxEarly \/ \E y \in k.early : same(x, y)}
      older == {r \in k.received : \E x \in opened : r.from = x.from /\ r.epoch < x.epoch}
  IN [k EXCEPT
       !.early = {y \in @ : \A x \in held : ~same(x, y)} \cup held,
       !.received =
         RetireReceived({r \in @ : \A x \in opened : ~same(x, r)}, older)
         \cup {[from |-> x.from, epoch |-> x.epoch, secret |-> x.blob.secret,
                id |-> IdOf(k, x.from), retired |-> x.epoch < k.epoch] : x \in opened},
       !.cache = CacheWithout(@, opened)]

-----------------------------------------------------------------------------
(* Our secret. *)

RaiseFloor(k, e) == [k.floors EXCEPT ![k.room] = IF @ < e THEN e ELSE @]

\* Bug variant of FreshSecret: the secret there is goes on.
KeptSecret(k) == IF k.secret # 0 THEN k.secret ELSE IF k.made = NumSecrets THEN 1 ELSE k.made + 1
FreshSecret(k) == IF k.made = NumSecrets THEN 1 ELSE k.made + 1

\* start_epoch: a new secret, sealed to nobody yet.
StartEpoch(k, e) ==
  LET old == {r \in k.received : r.epoch < e}
      moved == IF e = k.epoch THEN k
               ELSE [k EXCEPT !.received = RetireReceived(@, old), !.epoch = e,
                              !.graceOver = FALSE, !.floors = RaiseFloor(k, e)]
  IN [moved EXCEPT !.made = FreshSecret(k), !.secret = FreshSecret(k), !.sealed = {}]

\* Bug variant of Unwrappable: a key HPKE refused is tried again.
UnwrappableForgotten(k, refused) == k.unwrappable
Unwrappable(k, refused) ==
  {x \in k.unwrappable : x[1] \notin Named(refused)} \cup Sealable(refused)

\* wrap_for_new_peers: seals our secret to the trusted peers that lack it; those HPKE refuses
\* are left out from now on.
WrapForNewPeers(k, me) ==
  LET new == {p \in k.peers : <<p.user, p.enc>> \notin k.sealed}
      refused == {p \in new : p.enc \in Refused}
      wrapped == new \ refused
      blob(p) == [by |-> k.enc, to |-> p.enc, room |-> k.room, epoch |-> k.epoch,
                  from |-> me, user |-> p.user, secret |-> k.secret]
  IN [k EXCEPT !.unwrappable = Unwrappable(k, refused),
               !.peers = @ \ refused,
               !.sealed = @ \cup Sealable(wrapped),
               !.out = IF wrapped = {} THEN @
                       ELSE Append(@, [epoch |-> k.epoch, blobs |-> {blob(p) : p \in wrapped}])]

\* Bug variant of NeedsSecret: whoever comes within the epoch is given the secret there is.
NeedsSecretForEpoch(k, e, trusted) == e # k.epoch \/ k.secret = 0
\* The secret is replaced with the epoch, and whenever those trusted, or their keys, differ
\* from those it was sealed to.
NeedsSecret(k, e, trusted) ==
  e # k.epoch \/ k.secret = 0 \/ Sealable(trusted) # k.sealed

-----------------------------------------------------------------------------
(* The operations. *)

\* Bug variant of Stash: only the room we are in is followed.
StashNothing(k, r, e, P) == k.stashed
\* A state of a room we are not in (yet): kept if it is of another room or a newer epoch.
Stash(k, r, e, P) ==
  IF k.stashed = NoStash \/ k.stashed[1] # r \/ k.stashed[2] < e THEN <<r, e, P>> ELSE k.stashed

\* Bug variant of Departed: whoever still goes by the name has stayed.
DepartedByName(k, trusted) == {u \in Named(k.peers) : u \notin Named(trusted)}
Departed(k, trusted) ==
  {p.user : p \in {q \in k.peers : ~\E t \in trusted : t.user = q.user /\ t.id = q.id}}

\* The room state of our room is applied: those who are no longer trusted, or present another
\* identity, are gone, and what they sent runs out.
FollowPeers(k, me, e, P, stale) ==
  LET invalid == Invalid(k, me, P)
      listed == IF invalid THEN k.unwrappable
                ELSE {x \in k.unwrappable : x[1] \in Named(P)}
      checked == [k EXCEPT !.unwrappable = listed]
      trusted == IF invalid THEN {} ELSE TrustedPeers(checked, me, k.room, P)
      gone == {r \in k.received : r.from \in Departed(k, trusted)}
      followed == [checked EXCEPT !.roomPeers = P, !.peers = trusted,
                                  !.received = RetireReceived(@, gone)]
      keyed == IF NeedsSecret(k, e, trusted) THEN StartEpoch(followed, e) ELSE followed
      wrapped == WrapForNewPeers(keyed, me)
  IN Deliver([wrapped EXCEPT !.early = {}], me, k.early \ stale)

\* peers_changed; `stale` are the early messages that have waited too long.
PeersChanged(k, me, r, e, P, stale) ==
  IF r # k.room THEN [k EXCEPT !.stashed = Stash(k, r, e, P)]
  ELSE IF e < k.epoch THEN k
  ELSE FollowPeers(k, me, e, P, stale)

FloorOf(k, r) == IF r = NoRoom THEN NoEpoch ELSE k.floors[r]

\* What a change of room forgets.
Moved(k, r) ==
  IF r = k.room THEN k
  ELSE [k EXCEPT !.received = {}, !.cache = {}, !.peers = {}, !.roomPeers = {},
                 !.unwrappable = {}, !.epoch = 0, !.floor = FloorOf(k, r)]

\* Whether the placement is of an epoch we took part in before: KeyNotice::OldEpoch.
OldEpoch(k, r, e) == r # NoRoom /\ BelowFloor(Moved(k, r), e)

\* apply_placement: the reply to JoinRoom or LeaveRoom, or the placement of a Welcome.
ApplyPlacement(k, me, r, e, media, P, stale) ==
  IF r # NoRoom /\ r = k.room /\ e < k.epoch THEN k
  ELSE
  LET placed == [Moved(k, r) EXCEPT !.room = r, !.media = media, !.secret = 0, !.sealed = {},
                                    !.stashed = NoStash]
      first == PeersChanged(placed, me, r, e, P, stale)
      s == k.stashed
  IN IF r = NoRoom THEN placed
     ELSE IF s # NoStash /\ s[1] = r /\ s[2] > e
     THEN PeersChanged(first, me, r, s[2], s[3], stale)
     ELSE first

\* reapply_peers: the room state last applied, after a presence changed.
ReapplyPeers(k, me, stale) ==
  IF k.room = NoRoom THEN k ELSE PeersChanged(k, me, k.room, k.epoch, k.roomPeers, stale)

\* MediaEngine::set_presence: the room state is applied again if that changes who is shown in
\* our room.
SetPresence(k, me, u, r, stale) ==
  LET full == /\ r # NoRoom /\ k.present[u] = NoRoom
              /\ Cardinality({v \in Users : k.present[v] # NoRoom}) >= MaxPresent
      seen == [k EXCEPT !.present[u] = r]
      changes == u # me /\ k.room # NoRoom /\ (k.present[u] = k.room) # (r = k.room)
  IN IF full THEN k ELSE IF changes THEN ReapplyPeers(seen, me, stale) ELSE seen

SenderKey(k, me, x) == Deliver(k, me, {x})

ReplaceEncryption(k, enc) == [k EXCEPT !.enc = enc, !.retiredEnc = {k.enc}]

CachedFor(c, owner) == c.owner = owner

Owner(k, m) == {p.user : p \in {q \in k.peers : q.media = m}}

\* recv_key: the secrets it may answer with, at most one.
RecvSecrets(k, m, e) ==
  LET cached(u) == {c \in k.cache : c.media = m /\ c.epoch = e /\ CachedFor(c, u)}
      stored(u) == {r \in k.received : r.from = u /\ r.epoch = e}
      answers(u) == IF cached(u) # {} THEN cached(u) ELSE stored(u)
  IN IF BelowFloor(k, e) THEN {} ELSE {x.secret : x \in UNION {answers(u) : u \in Owner(k, m)}}

\* recv_key also keeps what it derived.
RecvKey(k, m, e) ==
  [k EXCEPT !.cache =
     IF RecvSecrets(k, m, e) = {} THEN @
     ELSE {c \in @ : ~(c.media = m /\ c.epoch = e)}
          \cup {[media |-> m, epoch |-> e, owner |-> u, secret |-> s] :
                 u \in Owner(k, m), s \in RecvSecrets(k, m, e)}]

\* tick: what has run out goes; the caller says which of the retired secrets and early messages,
\* and whether the grace period of our last epoch and of our last key are over.
Tick(k, spent, stale, graceOver, keyOver) ==
  LET received == k.received \ {r \in spent : r.retired} IN
  [k EXCEPT !.received = received,
            !.cache = {c \in @ : \E r \in received : r.from = c.owner /\ r.epoch = c.epoch},
            !.early = @ \ stale,
            !.graceOver = @ \/ graceOver,
            !.retiredEnc = IF keyOver THEN {} ELSE @]

=============================================================================
