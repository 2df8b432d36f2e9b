------------------------- MODULE KeyExchangeProofs -------------------------
(***************************************************************************)
(* That media secrets reach members only, for any number of clients and    *)
(* rooms and any story. Each secret is for one room and epoch: the ones    *)
(* its maker was in as it was made (For). A room state lists members of    *)
(* the epoch it names (Listed), a secret is sealed to those it lists       *)
(* (Sound), and what is sealed, under way, set aside or unwrapped goes to  *)
(* someone who belonged to the room in that epoch (BlobFits, Entitled).    *)
(* One lemma for each operation of the key manager shows that it keeps to  *)
(* this; one for each step of KeyExchange, that the invariant is kept.     *)
(***************************************************************************)
EXTENDS KeyExchange, SequenceTheorems, TLAPS

-----------------------------------------------------------------------------
(* The data. *)

\* Where a user can be.
Places == Rooms \cup {NoRoom}
\* Encryption keys.
Encs == Users \X Nat
\* The members a room state lists.
Peers == [user : Users, id : Users, enc : Encs, ok : BOOLEAN, media : Users, share : Int]
\* Secrets sealed to a key.
Blobs == [by : Encs, to : Encs, room : Places, epoch : Nat, from : Users, user : Users, secret : Nat]
\* PublishSenderKey requests.
Requests == [epoch : Nat, blobs : SUBSET Blobs]
\* The messages that bring a blob.
KeyMessages == [kind : {"key"}, from : Users, epoch : Nat, blob : Blobs]

\* The fields of a manager.
Fields ==
  {"room", "epoch", "graceOver", "floors", "floor", "present", "roomPeers", "peers", "media",
   "enc", "retiredEnc", "secret", "made", "sealed", "unwrappable", "received", "cache", "early",
   "stashed", "out"}

\* All blobs of a sequence of requests.
Sealed(q) == UNION {q[i].blobs : i \in 1..Len(q)}

\* Everyone of the room state P was a member of room r in epoch e.
Listed(B, r, e, P) == P \subseteq Peers /\ \A p \in P : <<r, e>> \in B[p.user]

\* The manager is in a state with what it goes by told by the hub.
Informed(m, B) ==
  /\ m = [f \in Fields |-> m[f]]
  /\ m.room \in Places /\ m.epoch \in Nat
  /\ m.enc \in Encs
  /\ m.made \in Nat /\ m.secret \in 0..m.made
  /\ Listed(B, m.room, m.epoch, m.peers)
  /\ Listed(B, m.room, m.epoch, m.roomPeers)
  /\ m.stashed # NoStash => m.stashed[2] \in Nat /\ Listed(B, m.stashed[1], m.stashed[2], m.stashed[3])
  /\ m.out \in Seq(Requests)

\* Secrets up to those m has made go on as they were.
KeepsSecret(n, m) ==
  n.secret # 0 /\ n.secret <= m.made => n.secret = m.secret /\ n.room = m.room /\ n.epoch = m.epoch

\* A blob sealed on the way from m to n.
SealedBetween(b, m, n, me, B) ==
  /\ b.from = me /\ <<b.room, b.epoch>> \in B[b.user]
  /\ b.secret \in 1..n.made
  /\ b.secret = n.secret => b.room = n.room /\ b.epoch = n.epoch
  /\ b.secret <= m.made => b.secret = m.secret /\ b.room = m.room /\ b.epoch = m.epoch

\* What the manager of `me` has become, from m: F are the key messages it may keep, K the secrets
\* (with whose they are) that it may know.
Sound(n, m, me, B, F, K) ==
  /\ Informed(n, B)
  /\ m.made <= n.made
  /\ KeepsSecret(n, m)
  /\ \A b \in Sealed(n.out) : SealedBetween(b, m, n, me, B)
  /\ n.early \subseteq F
  /\ \A r \in n.received : <<r.from, r.secret>> \in K

\* The blobs of a queue with one more request.
LEMMA SealedAppend ==
  ASSUME NEW q \in Seq(Requests), NEW x \in Requests
  PROVE  Sealed(Append(q, x)) = Sealed(q) \cup x.blobs
<1>1. /\ Len(Append(q, x)) = Len(q) + 1 /\ Len(q) \in Nat
      /\ Append(q, x)[Len(q) + 1] = x
      /\ \A i \in 1..Len(q) : Append(q, x)[i] = q[i]
  OBVIOUS
<1>2. 1..(Len(q) + 1) = 1..Len(q) \cup {Len(q) + 1}
  BY <1>1
<1> QED BY <1>1, <1>2 DEF Sealed

\* The blobs of two queues, one after the other.
LEMMA SealedConcat ==
  ASSUME NEW q \in Seq(Requests), NEW s \in Seq(Requests)
  PROVE  /\ q \o s \in Seq(Requests)
         /\ Sealed(q \o s) = Sealed(q) \cup Sealed(s)
<1>1. /\ q \o s \in Seq(Requests) /\ Len(q \o s) = Len(q) + Len(s) /\ Len(q) \in Nat /\ Len(s) \in Nat
      /\ \A i \in 1..Len(q) : (q \o s)[i] = q[i]
      /\ \A i \in 1..Len(s) : (q \o s)[Len(q) + i] = s[i]
  OBVIOUS
<1>2. \A i \in 1..(Len(q) + Len(s)) : i \in 1..Len(q) \/ \E j \in 1..Len(s) : i = Len(q) + j
  <2> SUFFICES ASSUME NEW i \in 1..(Len(q) + Len(s)), i \notin 1..Len(q)
               PROVE  \E j \in 1..Len(s) : i = Len(q) + j
    OBVIOUS
  <2>1. i - Len(q) \in 1..Len(s) /\ i = Len(q) + (i - Len(q))
    BY <1>1
  <2> QED BY <2>1
<1>3. /\ \A i \in 1..Len(q) : i \in 1..(Len(q) + Len(s))
      /\ \A j \in 1..Len(s) : Len(q) + j \in 1..(Len(q) + Len(s))
  BY <1>1
<1>4. Sealed(q \o s) \subseteq Sealed(q) \cup Sealed(s)
  BY SMTT(40), <1>1, <1>2 DEF Sealed
<1>5. Sealed(q) \subseteq Sealed(q \o s)
  BY <1>1, <1>3 DEF Sealed
<1>6. Sealed(s) \subseteq Sealed(q \o s)
  BY <1>1, <1>3 DEF Sealed
<1> QED BY <1>1, <1>4, <1>5, <1>6

\* The blobs of a queue without its head.
LEMMA SealedTail ==
  ASSUME NEW q \in Seq(Requests), q # <<>>
  PROVE  /\ Tail(q) \in Seq(Requests) /\ Sealed(Tail(q)) \subseteq Sealed(q)
         /\ Head(q) \in Requests /\ Head(q).blobs \subseteq Sealed(q)
<1>1. /\ Len(q) \in Nat /\ Len(q) > 0 /\ Head(q) = q[1] /\ Len(Tail(q)) = Len(q) - 1
      /\ \A i \in 1..(Len(q) - 1) : Tail(q)[i] = q[i + 1]
      /\ Tail(q) \in Seq(Requests) /\ Head(q) \in Requests
  OBVIOUS
<1>2. /\ 1 \in 1..Len(q)
      /\ \A i \in 1..(Len(q) - 1) : i + 1 \in 1..Len(q)
  BY <1>1
<1> QED BY <1>1, <1>2 DEF Sealed

\* An empty queue has no blobs.
LEMMA SealedEmpty == <<>> \in Seq(Requests) /\ Sealed(<<>>) = {}
  BY DEF Sealed

-----------------------------------------------------------------------------
(* The operations of a manager. *)

\* Messages that are delivered bring secrets that the manager may know, or are set aside
\* (sender_key_at).
LEMMA DeliverSound ==
  ASSUME NEW n, NEW m, NEW me, NEW B, NEW F, NEW K, NEW S,
         Sound(n, m, me, B, F, K), S \subseteq F,
         \A x \in F : x.blob.from = x.from /\ x.blob.user = me => <<x.from, x.blob.secret>> \in K
  PROVE  Sound(Deliver(n, me, S), m, me, B, F, K)
<1> DEFINE d == Deliver(n, me, S)
<1>0. n = [f \in Fields |-> n[f]]
  BY DEF Sound, Informed
<1>1. /\ d = [f \in Fields |-> d[f]]
      /\ \A f \in Fields \ {"early", "received", "cache"} : d[f] = n[f]
  BY ZenonT(60), <1>0 DEF Deliver, Fields
<1>2. d.early \subseteq n.early \cup S
  BY <1>0 DEF Deliver, Fields
<1>3. \A r \in d.received : <<r.from, r.secret>> \in K
  <2>1. \A r \in d.received :
          \/ \E o \in n.received : r = o \/ r = Retired(o)
          \/ \E x \in S : r.from = x.from /\ r.secret = x.blob.secret /\ Opens(n, me, x)
    BY <1>0 DEF Deliver, RetireReceived, Fields
  <2>2. \A x \in S : Opens(n, me, x) => x.blob.from = x.from /\ x.blob.user = me
    BY DEF Opens
  <2>3. \A o : Retired(o).from = o.from /\ Retired(o).secret = o.secret
    BY DEF Retired
  <2>4. \A o \in n.received : <<o.from, o.secret>> \in K
    BY DEF Sound
  <2> SUFFICES ASSUME NEW r \in d.received PROVE <<r.from, r.secret>> \in K
    OBVIOUS
  <2>5. CASE \E o \in n.received : r = o \/ r = Retired(o)
    BY <2>3, <2>4, <2>5
  <2>6. CASE \E x \in S : r.from = x.from /\ r.secret = x.blob.secret /\ Opens(n, me, x)
    BY <2>2, <2>6
  <2> QED BY <2>1, <2>5, <2>6
<1> HIDE DEF d
<1>4. /\ d.room = n.room /\ d.epoch = n.epoch /\ d.enc = n.enc /\ d.made = n.made
      /\ d.secret = n.secret /\ d.peers = n.peers /\ d.roomPeers = n.roomPeers
      /\ d.stashed = n.stashed /\ d.out = n.out
  BY <1>1 DEF Fields
<1>5. Informed(d, B)
  BY <1>1, <1>4 DEF Sound, Informed
<1>6. Sound(d, m, me, B, F, K)
  BY <1>2, <1>3, <1>4, <1>5 DEF Sound, KeepsSecret, SealedBetween
<1> QED BY <1>6 DEF d

\* While the bound is not reached a new secret has a number of its own.
LEMMA FreshSecretIsNew ==
  ASSUME NEW n, n.made \in Nat, n.made < NumSecrets
  PROVE  FreshSecret(n) = n.made + 1
  BY DEF FreshSecret

\* What start_epoch changes.
LEMMA StartEpochDoes ==
  ASSUME NEW n, n = [f \in Fields |-> n[f]], NEW e
  PROVE  LET s == StartEpoch(n, e) IN
         /\ s = [f \in Fields |-> s[f]]
         /\ s.room = n.room /\ s.epoch = e /\ s.enc = n.enc /\ s.peers = n.peers
         /\ s.roomPeers = n.roomPeers /\ s.stashed = n.stashed /\ s.out = n.out
         /\ s.early = n.early /\ s.made = FreshSecret(n) /\ s.secret = FreshSecret(n)
         /\ \A r \in s.received : \E o \in n.received : r = o \/ r = Retired(o)
<1> DEFINE old == {r \in n.received : r.epoch < e}
           moved == IF e = n.epoch THEN n
                    ELSE [n EXCEPT !.received = RetireReceived(@, old), !.epoch = e,
                                   !.graceOver = FALSE, !.floors = RaiseFloor(n, e)]
<1>1. moved = [f \in Fields |-> moved[f]]
  BY DEF Fields
<1>2. /\ moved.room = n.room /\ moved.epoch = e /\ moved.enc = n.enc /\ moved.peers = n.peers
      /\ moved.roomPeers = n.roomPeers /\ moved.stashed = n.stashed /\ moved.out = n.out
      /\ moved.early = n.early
      /\ moved.received = n.received \/ moved.received = RetireReceived(n.received, old)
  BY DEF Fields
<1>3. StartEpoch(n, e) = [moved EXCEPT !.made = FreshSecret(n), !.secret = FreshSecret(n), !.sealed = {}]
  BY DEF StartEpoch
<1>4. \A r \in moved.received : \E o \in n.received : r = o \/ r = Retired(o)
  BY <1>2 DEF RetireReceived
<1> HIDE DEF moved
<1> DEFINE s == StartEpoch(n, e)
<1>5. s = [f \in Fields |-> s[f]] /\ s.made = FreshSecret(n) /\ s.secret = FreshSecret(n)
  BY <1>1, <1>3 DEF Fields
<1>6. /\ s.room = moved.room /\ s.epoch = moved.epoch /\ s.enc = moved.enc /\ s.peers = moved.peers
      /\ s.roomPeers = moved.roomPeers /\ s.stashed = moved.stashed /\ s.out = moved.out
      /\ s.early = moved.early /\ s.received = moved.received
  BY <1>1, <1>3 DEF Fields
<1> HIDE DEF s
<1>7. \A r \in s.received : \E o \in n.received : r = o \/ r = Retired(o)
  BY <1>4, <1>6
<1> QED BY <1>2, <1>5, <1>6, <1>7 DEF s

\* What wrap_for_new_peers changes: peers are left out, and the secret is sealed to peers.
WrapsTo(n, w, me) ==
  /\ w = [f \in Fields |-> w[f]]
  /\ w.room = n.room /\ w.epoch = n.epoch /\ w.enc = n.enc /\ w.peers \subseteq n.peers
  /\ w.roomPeers = n.roomPeers /\ w.stashed = n.stashed /\ w.early = n.early
  /\ w.made = n.made /\ w.secret = n.secret /\ w.received = n.received
  /\ w.out \in Seq(Requests)
  /\ \A b \in Sealed(w.out) :
       \/ b \in Sealed(n.out)
       \/ /\ b.room = n.room /\ b.epoch = n.epoch /\ b.from = me /\ b.secret = n.secret
          /\ \E p \in n.peers : b.user = p.user

\* wrap_for_new_peers seals the present secret, for the present room and epoch, to peers of the
\* manager only.
LEMMA WrapDoes ==
  ASSUME NEW n, n = [f \in Fields |-> n[f]], NEW me \in Users, n.out \in Seq(Requests),
         n.peers \subseteq Peers, n.enc \in Encs, n.room \in Places, n.epoch \in Nat, n.secret \in Nat
  PROVE  WrapsTo(n, WrapForNewPeers(n, me), me)
<1> DEFINE w == WrapForNewPeers(n, me)
           blob(p) == [by |-> n.enc, to |-> p.enc, room |-> n.room, epoch |-> n.epoch,
                       from |-> me, user |-> p.user, secret |-> n.secret]
           request(W) == [epoch |-> n.epoch, blobs |-> {blob(p) : p \in W}]
<1>1. /\ w = [f \in Fields |-> w[f]]
      /\ w.room = n.room /\ w.epoch = n.epoch /\ w.enc = n.enc /\ w.peers \subseteq n.peers
      /\ w.roomPeers = n.roomPeers /\ w.stashed = n.stashed /\ w.early = n.early
      /\ w.made = n.made /\ w.secret = n.secret /\ w.received = n.received
  BY ZenonT(60) DEF WrapForNewPeers, Fields
<1>2. \E W \in SUBSET n.peers : w.out = n.out \/ w.out = Append(n.out, request(W))
  BY DEF WrapForNewPeers, Fields
<1>3. ASSUME NEW W \in SUBSET n.peers
      PROVE  request(W) \in Requests
  <2>1. \A p \in W : blob(p) \in Blobs
    BY <1>3 DEF Blobs, Peers
  <2> QED BY <2>1 DEF Requests
<1>4. \A W \in SUBSET n.peers : \A b \in request(W).blobs :
        /\ b.room = n.room /\ b.epoch = n.epoch /\ b.from = me /\ b.secret = n.secret
        /\ \E p \in n.peers : b.user = p.user
  OBVIOUS
<1> HIDE DEF w, request
<1>5. PICK W \in SUBSET n.peers : w.out = n.out \/ w.out = Append(n.out, request(W))
  BY <1>2
<1>6. w.out \in Seq(Requests)
  <2>1. request(W) \in Requests
    BY <1>3
  <2>2. Append(n.out, request(W)) \in Seq(Requests)
    BY <2>1
  <2> QED BY <1>5, <2>2
<1>7. Sealed(w.out) \subseteq Sealed(n.out) \cup request(W).blobs
  BY <1>3, <1>5, SealedAppend
<1>8. WrapsTo(n, w, me)
  BY <1>1, <1>4, <1>6, <1>7 DEF WrapsTo
<1> QED BY <1>8 DEF w

\* What the application of a room state of our room changes.
LEMMA FollowSound ==
  ASSUME NEW n, NEW m, NEW me \in Users, NEW B, NEW F, NEW K,
         Sound(n, m, me, B, F, K), n.made < NumSecrets,
         m.made \in Nat,
         \A x \in F : x.blob.from = x.from /\ x.blob.user = me => <<x.from, x.blob.secret>> \in K,
         NEW e \in Nat, NEW P, Listed(B, n.room, e, P), NEW stale
  PROVE  /\ Sound(FollowPeers(n, me, e, P, stale), m, me, B, F, K)
         /\ FollowPeers(n, me, e, P, stale).made <= n.made + 1
         /\ FollowPeers(n, me, e, P, stale).room = n.room
<1> DEFINE invalid == Invalid(n, me, P)
           listed == IF invalid THEN n.unwrappable
                     ELSE {x \in n.unwrappable : x[1] \in Named(P)}
           checked == [n EXCEPT !.unwrappable = listed]
           trusted == IF invalid THEN {} ELSE TrustedPeers(checked, me, n.room, P)
           gone == {r \in n.received : r.from \in Departed(n, trusted)}
           followed == [checked EXCEPT !.roomPeers = P, !.peers = trusted,
                                       !.received = RetireReceived(@, gone)]
           keyed == IF NeedsSecret(n, e, trusted) THEN StartEpoch(followed, e) ELSE followed
           wrapped == WrapForNewPeers(keyed, me)
           emptied == [wrapped EXCEPT !.early = {}]
<1>0. n = [f \in Fields |-> n[f]] /\ Informed(n, B)
  BY DEF Sound, Informed
<1>1. trusted \subseteq P
  BY DEF TrustedPeers
<1> HIDE DEF listed, trusted, invalid
<1>2. checked = [f \in Fields |-> checked[f]] /\ \A f \in Fields \ {"unwrappable"} : checked[f] = n[f]
  BY <1>0 DEF Fields
<1> HIDE DEF gone, checked
<1>3. /\ followed = [f \in Fields |-> followed[f]]
      /\ followed.room = n.room /\ followed.epoch = n.epoch /\ followed.enc = n.enc
      /\ followed.peers = trusted /\ followed.roomPeers = P /\ followed.stashed = n.stashed
      /\ followed.out = n.out /\ followed.made = n.made /\ followed.secret = n.secret
      /\ followed.received = RetireReceived(n.received, gone)
  BY <1>2 DEF Fields
<1>4. \A r \in followed.received : \E o \in n.received : r = o \/ r = Retired(o)
  BY <1>3 DEF RetireReceived
<1> HIDE DEF followed
<1>5. /\ keyed = [f \in Fields |-> keyed[f]]
      /\ keyed.room = n.room /\ keyed.epoch = e /\ keyed.enc = n.enc /\ keyed.peers = trusted
      /\ keyed.roomPeers = P /\ keyed.stashed = n.stashed /\ keyed.out = n.out
      /\ \/ keyed.made = n.made + 1 /\ keyed.secret = n.made + 1
         \/ keyed.made = n.made /\ keyed.secret = n.secret /\ e = n.epoch /\ n.secret # 0
  <2>1. CASE NeedsSecret(n, e, trusted)
    <3>1. FreshSecret(followed) = n.made + 1
      BY <1>0, <1>3, FreshSecretIsNew DEF Informed
    <3> QED BY <1>3, <2>1, <3>1, StartEpochDoes
  <2>2. CASE ~NeedsSecret(n, e, trusted)
    BY <1>3, <2>2 DEF NeedsSecret
  <2> QED BY <2>1, <2>2
<1>6. \A r \in keyed.received : <<r.from, r.secret>> \in K
  <2>1. \A o : Retired(o).from = o.from /\ Retired(o).secret = o.secret
    BY DEF Retired
  <2>2. \A r \in followed.received : <<r.from, r.secret>> \in K
    BY ZenonT(60), <1>4, <2>1 DEF Sound
  <2>3. \A r \in StartEpoch(followed, e).received :
          \E o \in followed.received : r = o \/ r = Retired(o)
    BY <1>3, StartEpochDoes
  <2>4. \A r \in StartEpoch(followed, e).received : <<r.from, r.secret>> \in K
    BY ZenonT(60), <2>1, <2>2, <2>3
  <2> QED BY <2>2, <2>4
<1> HIDE DEF keyed
<1>7. /\ keyed.out \in Seq(Requests) /\ keyed.peers \subseteq Peers /\ keyed.enc \in Encs
      /\ keyed.room \in Places /\ keyed.epoch \in Nat /\ keyed.secret \in 0..keyed.made
      /\ keyed.made \in Nat /\ keyed.secret \in Nat /\ n.made \in Nat /\ n.secret \in 0..n.made
  BY <1>0, <1>1, <1>5 DEF Informed, Listed
<1>8. /\ wrapped = [f \in Fields |-> wrapped[f]]
      /\ wrapped.room = n.room /\ wrapped.epoch = e /\ wrapped.enc = n.enc
      /\ wrapped.peers \subseteq trusted
      /\ wrapped.roomPeers = P /\ wrapped.stashed = n.stashed
      /\ wrapped.made = keyed.made /\ wrapped.secret = keyed.secret
      /\ wrapped.received = keyed.received
      /\ wrapped.out \in Seq(Requests)
      /\ \A b \in Sealed(wrapped.out) :
           \/ b \in Sealed(n.out)
           \/ /\ b.room = n.room /\ b.epoch = e /\ b.from = me /\ b.secret = keyed.secret
              /\ \E p \in trusted : b.user = p.user
  <2>1. WrapsTo(keyed, wrapped, me)
    BY <1>5, <1>7, WrapDoes
  <2> HIDE DEF wrapped
  <2> QED BY <1>5, <2>1 DEF WrapsTo
<1> HIDE DEF wrapped
<1>9. /\ emptied = [f \in Fields |-> emptied[f]] /\ emptied.early = {}
      /\ \A f \in Fields \ {"early"} : emptied[f] = wrapped[f]
  BY <1>8 DEF Fields
<1> HIDE DEF emptied
<1>10. /\ emptied.room = n.room /\ emptied.epoch = e /\ emptied.enc = n.enc
       /\ emptied.peers \subseteq trusted
       /\ emptied.roomPeers = P /\ emptied.stashed = n.stashed
       /\ emptied.made = keyed.made /\ emptied.secret = keyed.secret
       /\ emptied.received = keyed.received /\ emptied.out = wrapped.out
  BY <1>8, <1>9 DEF Fields
<1>11. Informed(emptied, B)
  BY <1>0, <1>1, <1>7, <1>8, <1>9, <1>10 DEF Informed, Listed
<1>12. n.made <= emptied.made /\ emptied.made <= n.made + 1 /\ m.made <= emptied.made
  BY <1>5, <1>7, <1>10 DEF Sound
<1>13. KeepsSecret(emptied, m)
  BY <1>5, <1>7, <1>10 DEF Sound, KeepsSecret
<1>14. \A b \in Sealed(emptied.out) : SealedBetween(b, m, emptied, me, B)
  <2> SUFFICES ASSUME NEW b \in Sealed(wrapped.out) PROVE SealedBetween(b, m, emptied, me, B)
    BY <1>10
  <2>1. CASE b \in Sealed(n.out)
    <3>1. SealedBetween(b, m, n, me, B)
      BY <2>1 DEF Sound
    <3>2. b.secret \in 1..n.made
      BY <3>1 DEF SealedBetween
    <3>3. b.secret = emptied.secret => n.secret = emptied.secret /\ e = n.epoch
      BY <3>2, <1>5, <1>7, <1>10
    <3>4. b.secret \in 1..emptied.made
      BY <3>2, <1>5, <1>7, <1>10
    <3> QED BY <3>1, <3>3, <3>4, <1>10 DEF SealedBetween
  <2>2. CASE /\ b.room = n.room /\ b.epoch = e /\ b.from = me /\ b.secret = keyed.secret
             /\ \E p \in trusted : b.user = p.user
    <3>1. <<b.room, b.epoch>> \in B[b.user]
      BY <2>2, <1>1 DEF Listed
    <3>2. keyed.secret # 0
      BY <1>5, <1>7
    <3>3. b.secret \in 1..emptied.made
      BY <2>2, <3>2, <1>7, <1>10
    <3>4. b.secret <= m.made => b.secret = m.secret /\ b.room = m.room /\ b.epoch = m.epoch
      BY <2>2, <3>2, <1>10, <1>13 DEF KeepsSecret
    <3> QED BY <2>2, <3>1, <3>3, <3>4, <1>10 DEF SealedBetween
  <2> QED BY <1>8, <2>1, <2>2
<1>15. Sound(emptied, m, me, B, F, K)
  BY <1>6, <1>9, <1>10, <1>11, <1>12, <1>13, <1>14 DEF Sound
<1>16. FollowPeers(n, me, e, P, stale) = Deliver(emptied, me, n.early \ stale)
  BY DEF FollowPeers, emptied, wrapped, keyed, followed, gone, checked, trusted, listed, invalid
<1>17. n.early \ stale \subseteq F
  BY DEF Sound
<1>18. Sound(Deliver(emptied, me, n.early \ stale), m, me, B, F, K)
  BY <1>15, <1>17, DeliverSound
<1>19. /\ Deliver(emptied, me, n.early \ stale).made = emptied.made
       /\ Deliver(emptied, me, n.early \ stale).room = emptied.room
  BY <1>9 DEF Deliver, Fields
<1> QED BY <1>10, <1>12, <1>16, <1>18, <1>19

\* peers_changed, for our room or another.
LEMMA PeersChangedSound ==
  ASSUME NEW n, NEW m, NEW me \in Users, NEW B, NEW F, NEW K,
         Sound(n, m, me, B, F, K), n.made < NumSecrets, m.made \in Nat,
         \A x \in F : x.blob.from = x.from /\ x.blob.user = me => <<x.from, x.blob.secret>> \in K,
         NEW r, NEW e \in Nat, NEW P, Listed(B, r, e, P), NEW stale
  PROVE  /\ Sound(PeersChanged(n, me, r, e, P, stale), m, me, B, F, K)
         /\ PeersChanged(n, me, r, e, P, stale).made <= n.made + 1
<1> DEFINE d == PeersChanged(n, me, r, e, P, stale)
<1>0. n = [f \in Fields |-> n[f]] /\ Informed(n, B) /\ n.made \in Nat
  BY DEF Sound, Informed
<1>1. CASE r # n.room
  <2>1. d = [n EXCEPT !.stashed = Stash(n, r, e, P)]
    BY <1>1 DEF PeersChanged
  <2>2. /\ d = [f \in Fields |-> d[f]] /\ d.stashed = Stash(n, r, e, P)
        /\ d.room = n.room /\ d.epoch = n.epoch /\ d.enc = n.enc /\ d.peers = n.peers
        /\ d.roomPeers = n.roomPeers /\ d.made = n.made /\ d.secret = n.secret
        /\ d.out = n.out /\ d.early = n.early /\ d.received = n.received
    BY <1>0, <2>1 DEF Fields
  <2> HIDE DEF d
  <2>3. d.stashed = n.stashed \/ d.stashed = <<r, e, P>>
    BY <2>2 DEF Stash
  <2>4. Informed(d, B)
    <3>1. d.stashed # NoStash => d.stashed[2] \in Nat /\ Listed(B, d.stashed[1], d.stashed[2], d.stashed[3])
      <4>1. CASE d.stashed = n.stashed
        BY <1>0, <4>1 DEF Informed
      <4>2. CASE d.stashed = <<r, e, P>>
        <5>1. d.stashed[1] = r /\ d.stashed[2] = e /\ d.stashed[3] = P
          BY <4>2
        <5> QED BY <5>1
      <4> QED BY <2>3, <4>1, <4>2
    <3> QED BY <1>0, <2>2, <3>1 DEF Informed
  <2>5. Sound(d, m, me, B, F, K) /\ d.made <= n.made + 1
    BY <1>0, <2>2, <2>4 DEF Sound, KeepsSecret, SealedBetween
  <2> QED BY <2>5 DEF d
<1>2. CASE r = n.room /\ e < n.epoch
  BY <1>0, <1>2 DEF PeersChanged
<1>3. CASE r = n.room /\ ~(e < n.epoch)
  <2>1. d = FollowPeers(n, me, e, P, stale)
    BY <1>3 DEF PeersChanged
  <2> QED BY <1>3, <2>1, FollowSound
<1> QED BY <1>1, <1>2, <1>3

\* A presence has the room state applied again (reapply_peers).
LEMMA PresenceSound ==
  ASSUME NEW n, NEW m, NEW me \in Users, NEW B, NEW F, NEW K,
         Sound(n, m, me, B, F, K), n.made < NumSecrets, m.made \in Nat,
         \A x \in F : x.blob.from = x.from /\ x.blob.user = me => <<x.from, x.blob.secret>> \in K,
         NEW u, NEW r, NEW stale
  PROVE  Sound(SetPresence(n, me, u, r, stale), m, me, B, F, K)
<1> DEFINE seen == [n EXCEPT !.present[u] = r]
<1>0. n = [f \in Fields |-> n[f]]
  BY DEF Sound, Informed
<1>1. /\ seen = [f \in Fields |-> seen[f]]
      /\ seen.room = n.room /\ seen.epoch = n.epoch /\ seen.enc = n.enc /\ seen.peers = n.peers
      /\ seen.roomPeers = n.roomPeers /\ seen.made = n.made /\ seen.secret = n.secret
      /\ seen.out = n.out /\ seen.early = n.early /\ seen.received = n.received
      /\ seen.stashed = n.stashed
  BY <1>0 DEF Fields
<1>2. SetPresence(n, me, u, r, stale) \in {n, seen, ReapplyPeers(seen, me, stale)}
  BY DEF SetPresence
<1> HIDE DEF seen
<1>3. Informed(seen, B)
  BY <1>1 DEF Sound, Informed
<1>4. Sound(seen, m, me, B, F, K)
  BY <1>1, <1>3 DEF Sound, KeepsSecret, SealedBetween
<1>5. Sound(ReapplyPeers(seen, me, stale), m, me, B, F, K)
  <2>1. seen.epoch \in Nat /\ Listed(B, seen.room, seen.epoch, seen.roomPeers)
    BY <1>3 DEF Informed
  <2>2. Sound(PeersChanged(seen, me, seen.room, seen.epoch, seen.roomPeers, stale), m, me, B, F, K)
    BY <1>1, <1>4, <2>1, PeersChangedSound
  <2> QED BY <1>4, <2>2 DEF ReapplyPeers
<1> QED BY <1>2, <1>4, <1>5

\* apply_placement makes two secrets at the most.
LEMMA PlacementSound ==
  ASSUME NEW m, NEW n, NEW me \in Users, NEW B, NEW F, NEW K,
         Sound(n, m, me, B, F, K), n.made + 2 <= NumSecrets, m.made \in Nat,
         NumSecrets \in Nat,
         \A x \in F : x.blob.from = x.from /\ x.blob.user = me => <<x.from, x.blob.secret>> \in K,
         NEW r \in Places, NEW e \in Nat, NEW P, Listed(B, r, e, P), NEW media, NEW stale
  PROVE  Sound(ApplyPlacement(n, me, r, e, media, P, stale), m, me, B, F, K)
<1> DEFINE moved == Moved(n, r)
           placed == [moved EXCEPT !.room = r, !.media = media, !.secret = 0, !.sealed = {},
                                   !.stashed = NoStash]
           first == PeersChanged(placed, me, r, e, P, stale)
<1>0. n = [f \in Fields |-> n[f]] /\ Informed(n, B) /\ n.made \in Nat
  BY DEF Sound, Informed
<1>1. /\ moved = [f \in Fields |-> moved[f]] /\ moved.enc = n.enc /\ moved.made = n.made
      /\ moved.out = n.out /\ moved.early = n.early
      /\ \/ r = n.room /\ moved = n
         \/ moved.received = {} /\ moved.peers = {} /\ moved.roomPeers = {} /\ moved.epoch = 0
  BY ZenonT(60), <1>0 DEF Moved, Fields
<1> HIDE DEF moved
<1>2. /\ placed = [f \in Fields |-> placed[f]] /\ placed.enc = moved.enc /\ placed.made = moved.made
      /\ placed.out = moved.out /\ placed.early = moved.early /\ placed.received = moved.received
      /\ placed.peers = moved.peers /\ placed.roomPeers = moved.roomPeers
      /\ placed.epoch = moved.epoch
      /\ placed.room = r /\ placed.secret = 0 /\ placed.stashed = NoStash
  BY <1>1 DEF Fields
<1> HIDE DEF placed
<1>3. Informed(placed, B)
  <2>1. /\ placed.epoch \in Nat
        /\ Listed(B, r, placed.epoch, placed.peers) /\ Listed(B, r, placed.epoch, placed.roomPeers)
    <3>1. CASE r = n.room /\ moved = n
      BY <1>0, <1>2, <3>1 DEF Informed
    <3>2. CASE moved.peers = {} /\ moved.roomPeers = {} /\ moved.epoch = 0
      BY <1>2, <3>2 DEF Listed
    <3> QED BY <1>1, <3>1, <3>2
  <2>2. placed.made \in Nat /\ placed.secret \in 0..placed.made
    BY <1>0, <1>1, <1>2
  <2>3. placed.enc \in Encs /\ placed.out \in Seq(Requests)
    BY <1>0, <1>1, <1>2 DEF Informed
  <2> QED BY <1>2, <2>1, <2>2, <2>3 DEF Informed
<1>4. \A b \in Sealed(placed.out) : SealedBetween(b, m, placed, me, B)
  <2> SUFFICES ASSUME NEW b \in Sealed(n.out) PROVE SealedBetween(b, m, placed, me, B)
    BY <1>1, <1>2
  <2>1. SealedBetween(b, m, n, me, B)
    BY DEF Sound
  <2>2. b.secret # 0
    BY <2>1 DEF SealedBetween
  <2> QED BY <2>1, <2>2, <1>1, <1>2 DEF SealedBetween
<1>5. Sound(placed, m, me, B, F, K)
  BY <1>0, <1>1, <1>2, <1>3, <1>4 DEF Sound, KeepsSecret
<1>6. Sound(first, m, me, B, F, K) /\ first.made <= n.made + 1
  <2>1. placed.made < NumSecrets /\ placed.made = n.made
    BY <1>0, <1>1, <1>2
  <2> QED BY <1>5, <2>1, PeersChangedSound
<1> HIDE DEF first
<1>7. ASSUME n.stashed # NoStash, n.stashed[1] = r
      PROVE  Sound(PeersChanged(first, me, r, n.stashed[2], n.stashed[3], stale), m, me, B, F, K)
  <2>1. n.stashed[2] \in Nat /\ Listed(B, r, n.stashed[2], n.stashed[3])
    BY <1>0, <1>7 DEF Informed
  <2>2. first.made \in Nat
    BY <1>6 DEF Sound, Informed
  <2>3. first.made < NumSecrets
    BY <1>0, <1>6, <2>2
  <2> QED BY <1>6, <2>1, <2>3, PeersChangedSound
<1> QED BY <1>5, <1>6, <1>7 DEF ApplyPlacement, first, placed, moved

-----------------------------------------------------------------------------
(* The invariant. *)

\* The events of a stream.
PeersEvents == [kind : {"peers"}, room : Rooms, epoch : Nat, peers : SUBSET Peers]
PresenceEvents == [kind : {"presence"}, user : Users, room : Places]
KickedEvents == [kind : {"kicked"}, room : Places]
Events == PeersEvents \cup PresenceEvents \cup KickedEvents \cup KeyMessages

\* The replies that place a session.
Placements == [kind : {"placement"}, room : Places, epoch : Nat, peers : SUBSET Peers]
Welcomes == [kind : {"welcome"}, room : Places, epoch : Nat, peers : SUBSET Peers,
             present : [Users -> Places]]
Replies == {Idle} \cup [kind : {"renewal"}] \cup Placements \cup Welcomes

\* The states of the hub.
HubStates ==
  [at : [Users -> Places], epoch : [Rooms -> Nat], enc : [Users -> Encs], share : [Users -> Int]]

\* Types, of what the argument needs.
ExchangeTypes ==
  /\ story \in Stories
  /\ hub \in HubStates
  /\ k = [u \in Users |-> k[u]]
  /\ events \in [Users -> Seq(Events)]
  /\ reply \in [Users -> Replies]
  /\ unsent \in [Users -> [Tasks -> Seq(Requests)]]
  /\ pubs \in [Users -> Seq(Requests)]
  /\ belonged = [u \in Users |-> belonged[u]]
  /\ knows = [u \in Users |-> knows[u]]
  /\ sentUnder = [u \in Users |-> sentUnder[u]]

\* Secret s of v is for room r and epoch e: under no other has it been, or could it be, sent.
\* (km are the managers, S the secrets sent under.)
For(km, S, v, s, r, e) ==
  /\ v \in Users /\ s \in 1..km[v].made
  /\ \A x \in S[v] : x[1] = s => x[2] = r /\ x[3] = e
  /\ km[v].secret = s => km[v].room = r /\ km[v].epoch = e

\* The blob b holds a secret for the room and epoch it names, and its receiver was a member.
BlobFits(b, km, S, B) ==
  /\ For(km, S, b.from, b.secret, b.room, b.epoch)
  /\ <<b.room, b.epoch>> \in B[b.user]

\* u was a member of the room v's secret s is for, in the epoch it is for.
Entitled(u, v, s, km, S, B) ==
  \E r, e : For(km, S, v, s, r, e) /\ <<r, e>> \in B[u]

\* An event tells of members, or brings a secret to a member.
EventFits(x, km, S, B) ==
  /\ x.kind = "peers" => Listed(B, x.room, x.epoch, x.peers)
  /\ x.kind = "key" => BlobFits(x.blob, km, S, B)

\* So does a reply.
ReplyFits(x, B) ==
  x.kind \in {"placement", "welcome"} => Listed(B, x.room, x.epoch, x.peers)

\* What u's manager holds.
KeysFit(u, km, S, B) ==
  /\ Informed(km[u], B) /\ km[u].out = <<>>
  /\ km[u].early \subseteq KeyMessages
  /\ \A x \in km[u].early : BlobFits(x.blob, km, S, B)
  /\ \A r \in km[u].received : Entitled(u, r.from, r.secret, km, S, B)
  /\ \A x \in S[u] : /\ x[1] \in 1..km[u].made
                     /\ x[1] = km[u].secret => x[2] = km[u].room /\ x[3] = km[u].epoch

\* All that is in a queue does.
QueueFits(q, km, S, B) == \A i \in 1..Len(q) : EventFits(q[i], km, S, B)
SealedFit(q, km, S, B) == \A b \in Sealed(q) : BlobFits(b, km, S, B)
\* u was entitled to every secret it knows.
KnownFit(u, kn, km, S, B) == \A v, s : <<v, s>> \in kn => Entitled(u, v, s, km, S, B)

\* The inductive invariant.
ExchangeInv ==
  /\ ExchangeTypes
  /\ \A u \in Users :
       /\ KeysFit(u, k, sentUnder, belonged)
       /\ QueueFits(events[u], k, sentUnder, belonged)
       /\ ReplyFits(reply[u], belonged)
       /\ \A t \in Tasks : SealedFit(unsent[u][t], k, sentUnder, belonged)
       /\ SealedFit(pubs[u], k, sentUnder, belonged)
       /\ KnownFit(u, knows[u], k, sentUnder, belonged)

\* From one state to another no secret comes to be for anything else, and nobody's past is lost.
Onward(km, S, B, km2, S2, B2) ==
  /\ \A v, s, r, e : For(km, S, v, s, r, e) => For(km2, S2, v, s, r, e)
  /\ \A u \in Users : B[u] \subseteq B2[u]

\* What fits one thing goes on fitting.
LEMMA OnwardKeeps ==
  ASSUME NEW km, NEW S, NEW B, NEW km2, NEW S2, NEW B2, Onward(km, S, B, km2, S2, B2)
  PROVE  /\ \A b : b.user \in Users /\ BlobFits(b, km, S, B) => BlobFits(b, km2, S2, B2)
         /\ \A u \in Users : \A v, s : Entitled(u, v, s, km, S, B) => Entitled(u, v, s, km2, S2, B2)
         /\ \A r, e, P : Listed(B, r, e, P) => Listed(B2, r, e, P)
         /\ \A x \in Events : EventFits(x, km, S, B) => EventFits(x, km2, S2, B2)
         /\ \A x : ReplyFits(x, B) => ReplyFits(x, B2)
         /\ \A m : Informed(m, B) => Informed(m, B2)
<1>1. \A b : b.user \in Users /\ BlobFits(b, km, S, B) => BlobFits(b, km2, S2, B2)
  BY DEF Onward, BlobFits
<1>2. \A u \in Users : \A v, s : Entitled(u, v, s, km, S, B) => Entitled(u, v, s, km2, S2, B2)
  BY DEF Onward, Entitled
<1>3. \A r, e, P : Listed(B, r, e, P) => Listed(B2, r, e, P)
  BY DEF Onward, Listed, Peers
<1>4. \A x \in Events : EventFits(x, km, S, B) => EventFits(x, km2, S2, B2)
  <2> SUFFICES ASSUME NEW x \in Events, EventFits(x, km, S, B) PROVE EventFits(x, km2, S2, B2)
    OBVIOUS
  <2>1. x.kind = "key" => x.blob.user \in Users
    BY DEF Events, PeersEvents, PresenceEvents, KickedEvents, KeyMessages, Blobs
  <2> QED BY <1>1, <1>3, <2>1 DEF EventFits
<1>5. \A x : ReplyFits(x, B) => ReplyFits(x, B2)
  BY <1>3 DEF ReplyFits
<1>6. \A m : Informed(m, B) => Informed(m, B2)
  BY <1>3 DEF Informed
<1> QED BY <1>1, <1>2, <1>3, <1>4, <1>5, <1>6

\* What fits goes on fitting.
LEMMA OnwardFits ==
  ASSUME NEW km, NEW S, NEW B, NEW km2, NEW S2, NEW B2, Onward(km, S, B, km2, S2, B2)
  PROVE  /\ \A q \in Seq(Events) : QueueFits(q, km, S, B) => QueueFits(q, km2, S2, B2)
         /\ \A q \in Seq(Requests) : SealedFit(q, km, S, B) => SealedFit(q, km2, S2, B2)
         /\ \A u \in Users : \A kn : KnownFit(u, kn, km, S, B) => KnownFit(u, kn, km2, S2, B2)
         /\ \A u \in Users : km2[u] = km[u] /\ S2[u] = S[u] /\ KeysFit(u, km, S, B)
                              => KeysFit(u, km2, S2, B2)
<1>1. \A q \in Seq(Events) : QueueFits(q, km, S, B) => QueueFits(q, km2, S2, B2)
  <2>1. \A q \in Seq(Events) : \A i \in 1..Len(q) : q[i] \in Events
    OBVIOUS
  <2> QED BY <2>1, OnwardKeeps DEF QueueFits
<1>2. \A q \in Seq(Requests) : SealedFit(q, km, S, B) => SealedFit(q, km2, S2, B2)
  <2>1. ASSUME NEW q \in Seq(Requests), NEW b \in Sealed(q) PROVE b.user \in Users
    <3>1. PICK i \in 1..Len(q) : b \in q[i].blobs
      BY DEF Sealed
    <3>2. q[i] \in Requests
      OBVIOUS
    <3>3. b \in Blobs
      BY <3>1, <3>2 DEF Requests
    <3> QED BY <3>3 DEF Blobs
  <2> QED BY <2>1, OnwardKeeps DEF SealedFit
<1>3. \A u \in Users : \A kn : KnownFit(u, kn, km, S, B) => KnownFit(u, kn, km2, S2, B2)
  BY OnwardKeeps DEF KnownFit
<1>4. ASSUME NEW u \in Users, km2[u] = km[u], S2[u] = S[u], KeysFit(u, km, S, B)
      PROVE  KeysFit(u, km2, S2, B2)
  <2>1. Informed(km[u], B2)
    BY <1>4, OnwardKeeps DEF KeysFit
  <2>2. \A x \in km[u].early : BlobFits(x.blob, km2, S2, B2)
    <3>1. \A x \in km[u].early : x.blob.user \in Users
      BY <1>4 DEF KeysFit, KeyMessages, Blobs
    <3> QED BY <1>4, <3>1, OnwardKeeps DEF KeysFit
  <2>3. \A r \in km[u].received : Entitled(u, r.from, r.secret, km2, S2, B2)
    BY <1>4, OnwardKeeps DEF KeysFit
  <2> QED BY <1>4, <2>1, <2>2, <2>3 DEF KeysFit
<1> QED BY <1>1, <1>2, <1>3, <1>4

\* Two queues that fit, one after the other, fit.
LEMMA QueueConcat ==
  ASSUME NEW km, NEW S, NEW B, NEW q \in Seq(Events), NEW s \in Seq(Events),
         QueueFits(q, km, S, B), QueueFits(s, km, S, B)
  PROVE  q \o s \in Seq(Events) /\ QueueFits(q \o s, km, S, B)
<1>1. /\ q \o s \in Seq(Events) /\ Len(q \o s) = Len(q) + Len(s) /\ Len(q) \in Nat /\ Len(s) \in Nat
      /\ \A i \in 1..Len(q) : (q \o s)[i] = q[i]
      /\ \A i \in 1..Len(s) : (q \o s)[Len(q) + i] = s[i]
  OBVIOUS
<1>2. \A i \in 1..(Len(q) + Len(s)) : i \in 1..Len(q) \/ \E j \in 1..Len(s) : i = Len(q) + j
  <2> SUFFICES ASSUME NEW i \in 1..(Len(q) + Len(s)), i \notin 1..Len(q)
               PROVE  \E j \in 1..Len(s) : i = Len(q) + j
    OBVIOUS
  <2>1. i - Len(q) \in 1..Len(s) /\ i = Len(q) + (i - Len(q))
    BY <1>1
  <2> QED BY <2>1
<1> QED BY <1>1, <1>2 DEF QueueFits

\* A queue of one event fits if the event does.
LEMMA QueueOfOne ==
  ASSUME NEW km, NEW S, NEW B
  PROVE  /\ <<>> \in Seq(Events) /\ QueueFits(<<>>, km, S, B)
         /\ \A x \in Events : <<x>> \in Seq(Events)
                            /\ (EventFits(x, km, S, B) => QueueFits(<<x>>, km, S, B))
<1>1. <<>> \in Seq(Events) /\ QueueFits(<<>>, km, S, B)
  BY DEF QueueFits
<1>2. \A x \in Events : <<x>> \in Seq(Events) /\ Len(<<x>>) = 1 /\ <<x>>[1] = x
  OBVIOUS
<1>3. \A x \in Events : EventFits(x, km, S, B) => QueueFits(<<x>>, km, S, B)
  <2> SUFFICES ASSUME NEW x \in Events, EventFits(x, km, S, B),
                      NEW i \in 1..Len(<<x>>) PROVE EventFits(<<x>>[i], km, S, B)
    BY DEF QueueFits
  <2>1. i = 1
    BY <1>2
  <2> QED BY <1>2, <2>1
<1> QED BY <1>1, <1>2, <1>3

\* A queue that fits has a head and a rest that do.
LEMMA QueueTail ==
  ASSUME NEW km, NEW S, NEW B, NEW q \in Seq(Events), q # <<>>, QueueFits(q, km, S, B)
  PROVE  /\ Tail(q) \in Seq(Events) /\ QueueFits(Tail(q), km, S, B)
         /\ Head(q) \in Events /\ EventFits(Head(q), km, S, B)
<1>1. /\ Len(q) \in Nat /\ Len(q) > 0 /\ Head(q) = q[1] /\ Len(Tail(q)) = Len(q) - 1
      /\ \A i \in 1..(Len(q) - 1) : Tail(q)[i] = q[i + 1]
      /\ Tail(q) \in Seq(Events) /\ Head(q) \in Events
  OBVIOUS
<1>2. /\ 1 \in 1..Len(q)
      /\ \A i \in 1..(Len(q) - 1) : i + 1 \in 1..Len(q)
  BY <1>1
<1> QED BY <1>1, <1>2 DEF QueueFits

-----------------------------------------------------------------------------
(* The hub. *)

\* Whoever is in a room in h belongs to its epoch.
Reflected(h, B) == \A u \in Users : h.at[u] # NoRoom => <<h.at[u], h.epoch[h.at[u]]>> \in B[u]

\* Whoever is in a room comes to belong to its epoch, and stops belonging to none.
LEMMA BelongingGrows ==
  ASSUME NEW b, NEW h
  PROVE  /\ Reflected(h, Belonging(b, h))
         /\ \A u \in Users : b[u] \subseteq Belonging(b, h)[u]
         /\ Belonging(b, h) = [u \in Users |-> Belonging(b, h)[u]]
  BY DEF Belonging, Reflected

\* peers lists members of the room's epoch.
LEMMA PeersListed ==
  ASSUME NEW h \in HubStates, NEW r \in Rooms, NEW B, Reflected(h, B)
  PROVE  /\ h.epoch[r] \in Nat
         /\ Listed(B, r, h.epoch[r], PeersOf(h, r))
<1>1. r # NoRoom
  BY KeyConstants
<1>2. /\ h.epoch[r] \in Nat
      /\ \A u \in Users : h.enc[u] \in Encs /\ h.share[u] \in Int
  BY DEF HubStates
<1>3. PeersOf(h, r) \subseteq Peers
  <2> SUFFICES ASSUME NEW u \in Members(h, r)
               PROVE  [user |-> u, id |-> u, enc |-> h.enc[u], ok |-> TRUE, media |-> u,
                       share |-> h.share[u]] \in Peers
    BY DEF PeersOf
  <2>1. u \in Users
    BY DEF Members
  <2> QED BY <1>2, <2>1 DEF Peers
<1>4. \A p \in PeersOf(h, r) : p.user \in Users /\ h.at[p.user] = r
  BY DEF PeersOf, Members
<1> QED BY <1>1, <1>2, <1>3, <1>4 DEF Listed, Reflected

\* So does the event that tells of them.
LEMMA PeersEventFits ==
  ASSUME NEW h \in HubStates, NEW r \in Rooms, NEW B, Reflected(h, B), NEW km, NEW S
  PROVE  PeersEvent(h, r) \in Events /\ EventFits(PeersEvent(h, r), km, S, B)
<1>1. h.epoch[r] \in Nat /\ Listed(B, r, h.epoch[r], PeersOf(h, r))
  BY PeersListed
<1>2. PeersEvent(h, r) \in PeersEvents
  BY <1>1 DEF PeersEvent, PeersEvents, Listed
<1>3. EventFits(PeersEvent(h, r), km, S, B)
  BY <1>1 DEF PeersEvent, EventFits
<1> QED BY <1>2, <1>3 DEF Events

\* place keeps the types of the hub.
LEMMA PlacedTypes ==
  ASSUME NEW h \in HubStates, NEW u \in Users, NEW r \in Places
  PROVE  Placed(h, u, r) \in HubStates /\ Placed(h, u, r).at[u] = r
<1>1. CASE h.at[u] = r
  BY <1>1 DEF Placed
<1>2. CASE h.at[u] # r
  <2> DEFINE at == [h.at EXCEPT ![u] = r]
             share == [h.share EXCEPT ![u] = 0]
             epoch == [q \in Rooms |-> h.epoch[q] + IF q \in {h.at[u], r} THEN 1 ELSE 0]
  <2>1. at \in [Users -> Places] /\ share \in [Users -> Int] /\ at[u] = r
    BY DEF HubStates
  <2>2. epoch \in [Rooms -> Nat]
    BY DEF HubStates
  <2>3. Placed(h, u, r) = [h EXCEPT !.at = at, !.share = share, !.epoch = epoch]
    BY <1>2 DEF Placed, HubStates
  <2> HIDE DEF at, share, epoch
  <2> QED BY <2>1, <2>2, <2>3 DEF HubStates
<1> QED BY <1>1, <1>2

\* What place tells of a move fits.
LEMMA ToldFits ==
  ASSUME NEW h \in HubStates, NEW u \in Users, NEW r \in Places, NEW v \in Users,
         NEW B, Reflected(Placed(h, u, r), B), NEW km, NEW S
  PROVE  ToldOfMove(h, u, r, v) \in Seq(Events) /\ QueueFits(ToldOfMove(h, u, r, v), km, S, B)
<1> DEFINE next == Placed(h, u, r)
           old == h.at[u]
           one == IF old # NoRoom /\ next.at[v] = old THEN <<PeersEvent(next, old)>> ELSE <<>>
           two == IF r # NoRoom /\ next.at[v] = r /\ v # u THEN <<PeersEvent(next, r)>> ELSE <<>>
           seen == [kind |-> "presence", user |-> u, room |-> r]
           three == IF v # u THEN <<seen>> ELSE <<>>
<1>1. next \in HubStates /\ old \in Places
  BY PlacedTypes DEF HubStates
<1>2. \A q \in Rooms : PeersEvent(next, q) \in Events /\ EventFits(PeersEvent(next, q), km, S, B)
  BY <1>1, PeersEventFits
<1>3. seen \in Events /\ EventFits(seen, km, S, B)
  BY DEF Events, PresenceEvents, EventFits
<1>4. ToldOfMove(h, u, r, v) = IF old = r THEN <<>> ELSE one \o two \o three
  BY DEF ToldOfMove
<1> HIDE DEF next, old, seen
<1>5. one \in Seq(Events) /\ QueueFits(one, km, S, B)
  BY <1>1, <1>2, QueueOfOne DEF Places
<1>6. two \in Seq(Events) /\ QueueFits(two, km, S, B)
  BY <1>1, <1>2, QueueOfOne DEF Places
<1>7. three \in Seq(Events) /\ QueueFits(three, km, S, B)
  BY <1>3, QueueOfOne
<1> HIDE DEF one, two, three
<1>8. one \o two \in Seq(Events) /\ QueueFits(one \o two, km, S, B)
  BY <1>5, <1>6, QueueConcat
<1>9. one \o two \o three \in Seq(Events) /\ QueueFits(one \o two \o three, km, S, B)
  BY <1>7, <1>8, QueueConcat
<1> QED BY <1>4, <1>9, QueueOfOne

-----------------------------------------------------------------------------
(* Steps outside the managers. *)

\* A step that changes no manager keeps the invariant if all that is under way fits.
LEMMA OutsideKeeps ==
  ASSUME ExchangeInv, UNCHANGED <<story, k, sentUnder, knows>>, hub' \in HubStates,
         belonged' = [u \in Users |-> belonged'[u]],
         \A u \in Users : belonged[u] \subseteq belonged'[u],
         events' \in [Users -> Seq(Events)], reply' \in [Users -> Replies],
         unsent' \in [Users -> [Tasks -> Seq(Requests)]], pubs' \in [Users -> Seq(Requests)],
         \A u \in Users :
           /\ QueueFits(events'[u], k, sentUnder, belonged')
           /\ ReplyFits(reply'[u], belonged')
           /\ \A t \in Tasks : SealedFit(unsent'[u][t], k, sentUnder, belonged)
           /\ SealedFit(pubs'[u], k, sentUnder, belonged)
  PROVE  ExchangeInv'
<1>1. Onward(k, sentUnder, belonged, k, sentUnder, belonged')
  BY DEF Onward
<1>2. ExchangeTypes'
  BY DEF ExchangeInv, ExchangeTypes
<1>3. \A u \in Users : KeysFit(u, k, sentUnder, belonged')
  BY <1>1, OnwardFits DEF ExchangeInv
<1>4. \A u \in Users : KnownFit(u, knows[u], k, sentUnder, belonged')
  BY <1>1, OnwardFits DEF ExchangeInv
<1>5. \A u \in Users : \A t \in Tasks : SealedFit(unsent'[u][t], k, sentUnder, belonged')
  BY <1>1, OnwardFits
<1>6. \A u \in Users : SealedFit(pubs'[u], k, sentUnder, belonged')
  BY <1>1, OnwardFits
<1> QED BY <1>2, <1>3, <1>4, <1>5, <1>6 DEF ExchangeInv

\* What the hub adds to the streams fits there.
LEMMA EventsTold ==
  ASSUME ExchangeInv, NEW B, \A u \in Users : belonged[u] \subseteq B[u],
         NEW tell, \A v \in Users : tell[v] \in Seq(Events) /\ QueueFits(tell[v], k, sentUnder, B)
  PROVE  \A v \in Users : /\ events[v] \o tell[v] \in Seq(Events)
                          /\ QueueFits(events[v] \o tell[v], k, sentUnder, B)
<1>1. Onward(k, sentUnder, belonged, k, sentUnder, B)
  BY DEF Onward
<1>2. \A v \in Users : events[v] \in Seq(Events) /\ QueueFits(events[v], k, sentUnder, B)
  BY <1>1, OnwardFits DEF ExchangeInv, ExchangeTypes
<1> QED BY <1>2, QueueConcat

\* A request the hub handles.
LEMMA HandlesKeeps ==
  ASSUME ExchangeInv, UNCHANGED <<story, k, sentUnder, knows, unsent, pubs>>,
         NEW h \in HubStates, NEW tell, Handles(h, tell),
         \A v \in Users : /\ tell[v] \in Seq(Events)
                          /\ QueueFits(tell[v], k, sentUnder, Belonging(belonged, h)),
         reply' \in [Users -> Replies],
         \A v \in Users : ReplyFits(reply'[v], Belonging(belonged, h))
  PROVE  ExchangeInv'
<1>1. /\ hub' = h /\ belonged' = Belonging(belonged, h)
      /\ events' = [v \in Users |-> events[v] \o tell[v]]
  BY DEF Handles
<1>2. /\ \A u \in Users : belonged[u] \subseteq belonged'[u]
      /\ belonged' = [u \in Users |-> belonged'[u]]
  BY <1>1, BelongingGrows
<1>3. \A v \in Users : /\ events'[v] \in Seq(Events)
                       /\ QueueFits(events'[v], k, sentUnder, belonged')
  BY <1>1, <1>2, EventsTold
<1>4. events' \in [Users -> Seq(Events)]
  BY <1>1, <1>3
<1>5. /\ unsent' \in [Users -> [Tasks -> Seq(Requests)]] /\ pubs' \in [Users -> Seq(Requests)]
      /\ \A u \in Users : /\ \A t \in Tasks : SealedFit(unsent'[u][t], k, sentUnder, belonged)
                          /\ SealedFit(pubs'[u], k, sentUnder, belonged)
  BY DEF ExchangeInv, ExchangeTypes
<1>6. UNCHANGED <<story, k, sentUnder, knows>> /\ hub' \in HubStates
  BY <1>1
<1>7. \A v \in Users : ReplyFits(reply'[v], belonged')
  BY <1>1
<1> QED BY <1>2, <1>3, <1>4, <1>5, <1>6, <1>7, OutsideKeeps

\* The replies that are there go on fitting.
LEMMA RepliesStay ==
  ASSUME ExchangeInv, NEW h
  PROVE  \A v \in Users : ReplyFits(reply[v], Belonging(belonged, h))
<1>1. Onward(k, sentUnder, belonged, k, sentUnder, Belonging(belonged, h))
  BY BelongingGrows DEF Onward
<1> QED BY <1>1, OnwardKeeps DEF ExchangeInv

\* The placement and the welcome list members of the room entered, in the epoch the move began.
LEMMA PlacementFits ==
  ASSUME NEW h \in HubStates, NEW u \in Users, NEW B, Reflected(h, B)
  PROVE  /\ Placement(h, u) \in Placements /\ ReplyFits(Placement(h, u), B)
         /\ Welcome(h, u) \in Welcomes /\ ReplyFits(Welcome(h, u), B)
<1>1. h.at[u] \in Places /\ h.at \in [Users -> Places]
  BY DEF HubStates
<1>2. CASE h.at[u] = NoRoom
  BY <1>1, <1>2 DEF Placement, Welcome, Placements, Welcomes, ReplyFits, Listed
<1>3. CASE h.at[u] # NoRoom
  <2>1. h.at[u] \in Rooms
    BY <1>1, <1>3 DEF Places
  <2>2. /\ h.epoch[h.at[u]] \in Nat
        /\ Listed(B, h.at[u], h.epoch[h.at[u]], PeersOf(h, h.at[u]))
    BY <2>1, PeersListed
  <2>3. PeersOf(h, h.at[u]) \in SUBSET Peers
    BY <2>2 DEF Listed
  <2>4. Placement(h, u) = [kind |-> "placement", room |-> h.at[u], epoch |-> h.epoch[h.at[u]],
                           peers |-> PeersOf(h, h.at[u])]
    BY <1>3 DEF Placement
  <2>5. Welcome(h, u) = [kind |-> "welcome", room |-> h.at[u], epoch |-> h.epoch[h.at[u]],
                         peers |-> PeersOf(h, h.at[u]), present |-> h.at]
    BY <2>4 DEF Welcome
  <2>6. Placement(h, u) \in Placements /\ Welcome(h, u) \in Welcomes
    BY <1>1, <2>2, <2>3, <2>4, <2>5 DEF Placements, Welcomes
  <2>7. ReplyFits(Placement(h, u), B) /\ ReplyFits(Welcome(h, u), B)
    BY <2>2, <2>4, <2>5 DEF ReplyFits
  <2> QED BY <2>6, <2>7
<1> QED BY <1>2, <1>3

\* A join or leave keeps the invariant (Call::join, Hub::place).
LEMMA JoinKeeps ==
  ASSUME ExchangeInv, UNCHANGED story, NEW u \in Users, NEW r \in Places, Join(u, r)
  PROVE  ExchangeInv'
<1> DEFINE h == Placed(hub, u, r)
           B == Belonging(belonged, h)
           tell == [v \in Users |-> ToldOfMove(hub, u, r, v)]
<1>1. hub \in HubStates /\ h \in HubStates
  BY PlacedTypes DEF ExchangeInv, ExchangeTypes
<1>2. Reflected(h, B)
  BY BelongingGrows
<1>3. \A v \in Users : tell[v] \in Seq(Events) /\ QueueFits(tell[v], k, sentUnder, B)
  BY <1>1, <1>2, ToldFits
<1>4. Handles(h, tell) /\ reply' = [reply EXCEPT ![u] = Placement(h, u)]
      /\ UNCHANGED <<k, sentUnder, knows, unsent, pubs>>
  BY DEF Join
<1>5. Placement(h, u) \in Replies /\ ReplyFits(Placement(h, u), B)
  BY <1>1, <1>2, PlacementFits DEF Replies
<1> HIDE DEF h, tell
<1>6. reply' \in [Users -> Replies] /\ \A v \in Users : ReplyFits(reply'[v], B)
  BY <1>4, <1>5, RepliesStay DEF ExchangeInv, ExchangeTypes
<1> QED BY <1>1, <1>3, <1>4, <1>6, HandlesKeeps

\* A kick does (Hub::kick_from_room).
LEMMA KickKeeps ==
  ASSUME ExchangeInv, UNCHANGED story, NEW u \in Users, Kick(u)
  PROVE  ExchangeInv'
<1> DEFINE h == Placed(hub, u, NoRoom)
           B == Belonging(belonged, h)
           notice == [kind |-> "kicked", room |-> hub.at[u]]
           last(v) == IF v = u THEN <<notice>> ELSE <<>>
           tell == [v \in Users |-> ToldOfMove(hub, u, NoRoom, v) \o last(v)]
<1>1. hub \in HubStates /\ h \in HubStates /\ NoRoom \in Places
  BY PlacedTypes DEF ExchangeInv, ExchangeTypes, Places
<1>2. Reflected(h, B)
  BY BelongingGrows
<1>3. notice \in Events /\ EventFits(notice, k, sentUnder, B)
  BY <1>1 DEF Events, KickedEvents, EventFits, HubStates
<1>4. Handles(h, tell) /\ UNCHANGED <<k, sentUnder, knows, unsent, pubs, reply>>
  BY DEF Kick
<1> HIDE DEF notice
<1>5. ASSUME NEW v \in Users
      PROVE  tell[v] \in Seq(Events) /\ QueueFits(tell[v], k, sentUnder, B)
  <2>1. /\ ToldOfMove(hub, u, NoRoom, v) \in Seq(Events)
        /\ QueueFits(ToldOfMove(hub, u, NoRoom, v), k, sentUnder, B)
    BY <1>1, <1>2, ToldFits
  <2>2. last(v) \in Seq(Events) /\ QueueFits(last(v), k, sentUnder, B)
    BY <1>3, QueueOfOne
  <2> HIDE DEF last, B
  <2>3. /\ ToldOfMove(hub, u, NoRoom, v) \o last(v) \in Seq(Events)
        /\ QueueFits(ToldOfMove(hub, u, NoRoom, v) \o last(v), k, sentUnder, B)
    BY <2>1, <2>2, QueueConcat
  <2> QED BY <2>3
<1> HIDE DEF h, tell
<1>6. reply' \in [Users -> Replies] /\ \A v \in Users : ReplyFits(reply'[v], B)
  BY <1>4, RepliesStay DEF ExchangeInv, ExchangeTypes
<1> QED BY <1>1, <1>4, <1>5, <1>6, HandlesKeeps

\* The members of a room are told its state.
LEMMA RoomTold ==
  ASSUME ExchangeInv, UNCHANGED <<story, k, sentUnder, knows, unsent, pubs>>,
         NEW h \in HubStates, NEW r \in Places, NEW D,
         Handles(h, [v \in Users |-> IF r # NoRoom /\ v \in D THEN <<PeersEvent(h, r)>> ELSE <<>>]),
         reply' \in [Users -> Replies],
         \A v \in Users : ReplyFits(reply'[v], Belonging(belonged, h))
  PROVE  ExchangeInv'
<1> DEFINE B == Belonging(belonged, h)
           tell == [v \in Users |-> IF r # NoRoom /\ v \in D THEN <<PeersEvent(h, r)>> ELSE <<>>]
<1>1. Reflected(h, B)
  BY BelongingGrows
<1>2. r # NoRoom => PeersEvent(h, r) \in Events /\ EventFits(PeersEvent(h, r), k, sentUnder, B)
  BY <1>1, PeersEventFits DEF Places
<1> HIDE DEF B
<1>3. \A v \in Users : tell[v] \in Seq(Events) /\ QueueFits(tell[v], k, sentUnder, B)
  BY <1>2, QueueOfOne
<1> HIDE DEF tell
<1> QED BY <1>3, HandlesKeeps DEF B, tell

\* A share that starts or stops does (Hub::set_media).
LEMMA SetShareKeeps ==
  ASSUME ExchangeInv, UNCHANGED story, NEW u \in Users, SetShare(u)
  PROVE  ExchangeInv'
<1> DEFINE h == [hub EXCEPT !.share[u] = 1 - @]
           r == h.at[u]
           D == {v \in Users : h.at[v] = r}
           tell == [v \in Users |-> IF h.at[v] = h.at[u] THEN <<PeersEvent(h, h.at[u])>> ELSE <<>>]
<1>1. hub \in HubStates
  BY DEF ExchangeInv, ExchangeTypes
<1>2. h \in HubStates /\ h.at = hub.at
  BY <1>1 DEF HubStates
<1>3. r \in Places /\ r # NoRoom
  BY <1>1, <1>2 DEF HubStates, SetShare
<1>4. Handles(h, tell) /\ UNCHANGED <<k, sentUnder, knows, unsent, pubs, reply>>
  BY DEF SetShare
<1> HIDE DEF h
<1>5. tell = [v \in Users |-> IF r # NoRoom /\ v \in D THEN <<PeersEvent(h, r)>> ELSE <<>>]
  BY <1>3
<1>6. reply' \in [Users -> Replies]
      /\ \A v \in Users : ReplyFits(reply'[v], Belonging(belonged, h))
  BY <1>4, RepliesStay DEF ExchangeInv, ExchangeTypes
<1> HIDE DEF r, D, tell
<1> QED BY <1>2, <1>3, <1>4, <1>5, <1>6, RoomTold

\* A key that is published does, and begins an epoch all its members belong to
\* (Hub::set_encryption_key).
LEMMA SetEncryptionKeyKeeps ==
  ASSUME ExchangeInv, UNCHANGED story, NEW u \in Users, SetEncryptionKey(u)
  PROVE  ExchangeInv'
<1> DEFINE r == hub.at[u]
           stored == [hub EXCEPT !.enc[u] = k[u].enc]
           h == IF r = NoRoom THEN stored ELSE [stored EXCEPT !.epoch[r] = @ + 1]
           D == {v \in Users : h.at[v] = r}
           tell == [v \in Users |-> IF r # NoRoom /\ h.at[v] = r THEN <<PeersEvent(h, r)>> ELSE <<>>]
<1>1. hub \in HubStates /\ k[u].enc \in Encs
  BY DEF ExchangeInv, ExchangeTypes, KeysFit, Informed
<1>2. stored \in HubStates /\ r \in Places
  BY <1>1 DEF HubStates
<1> HIDE DEF stored, r
<1>3. h \in HubStates
  <2>1. CASE r = NoRoom
    BY <1>2, <2>1
  <2>2. CASE r # NoRoom
    <3>1. [stored.epoch EXCEPT ![r] = @ + 1] \in [Rooms -> Nat]
      BY <1>2, <2>2 DEF HubStates, Places
    <3> QED BY <1>2, <2>2, <3>1 DEF HubStates
  <2> QED BY <2>1, <2>2
<1>4. /\ Handles(h, tell) /\ UNCHANGED <<k, sentUnder, knows, unsent, pubs>>
      /\ reply' = reply \/ reply' = [reply EXCEPT ![u] = Idle]
  BY DEF SetEncryptionKey, stored, r
<1> HIDE DEF h
<1>5. tell = [v \in Users |-> IF r # NoRoom /\ v \in D THEN <<PeersEvent(h, r)>> ELSE <<>>]
  OBVIOUS
<1>6. Idle \in Replies /\ \A B : ReplyFits(Idle, B)
  BY DEF Replies, Idle, ReplyFits
<1>7. reply' \in [Users -> Replies]
      /\ \A v \in Users : ReplyFits(reply'[v], Belonging(belonged, h))
  BY <1>4, <1>6, RepliesStay DEF ExchangeInv, ExchangeTypes
<1> HIDE DEF D, tell
<1> QED BY <1>2, <1>3, <1>4, <1>5, <1>7, RoomTold

\* A reconnect does, over the epoch in between, in which its user is not in the room
\* (Hub::connect).
LEMMA ReconnectKeeps ==
  ASSUME ExchangeInv, UNCHANGED story, NEW u \in Users, NEW r \in Places, Reconnect(u, r)
  PROVE  ExchangeInv'
<1> DEFINE left == Placed(hub, u, NoRoom)
           back == Placed(left, u, r)
           B == Belonging(Belonging(belonged, left), back)
           first(v) == ToldOfMove(hub, u, NoRoom, v)
           second(v) == ToldOfMove(left, u, r, v)
           tell == [v \in Users |-> first(v) \o second(v)]
<1>1. NoRoom \in Places /\ hub \in HubStates
  BY DEF ExchangeInv, ExchangeTypes, Places
<1>2. left \in HubStates /\ back \in HubStates
  BY <1>1, PlacedTypes
<1>3. /\ hub' = back /\ belonged' = B
      /\ events' = [v \in Users |-> IF v = u THEN <<>> ELSE events[v] \o (first(v) \o second(v))]
      /\ reply' = [reply EXCEPT ![u] = Welcome(back, u)]
      /\ unsent' = [unsent EXCEPT ![u] = [t \in Tasks |-> <<>>]]
      /\ pubs' = [pubs EXCEPT ![u] = <<>>]
      /\ UNCHANGED <<k, knows, sentUnder>>
  BY DEF Reconnect
<1>4. /\ Reflected(left, B) /\ Reflected(back, B)
      /\ \A v \in Users : belonged[v] \subseteq B[v]
      /\ B = [v \in Users |-> B[v]]
  BY BelongingGrows DEF Reflected
<1> HIDE DEF B
<1>5. \A v \in Users : /\ first(v) \in Seq(Events) /\ QueueFits(first(v), k, sentUnder, B)
                       /\ second(v) \in Seq(Events) /\ QueueFits(second(v), k, sentUnder, B)
  BY <1>1, <1>2, <1>4, ToldFits
<1>6. Welcome(back, u) \in Replies /\ ReplyFits(Welcome(back, u), B)
  BY <1>2, <1>4, PlacementFits DEF Replies
<1> HIDE DEF left, back, first, second
<1>7. \A v \in Users : tell[v] \in Seq(Events) /\ QueueFits(tell[v], k, sentUnder, B)
  BY <1>5, QueueConcat
<1>8. \A v \in Users : /\ events[v] \o tell[v] \in Seq(Events)
                       /\ QueueFits(events[v] \o tell[v], k, sentUnder, B)
  BY <1>4, <1>7, EventsTold
<1>9. \A v \in Users : events'[v] = IF v = u THEN <<>> ELSE events[v] \o tell[v]
  BY <1>3
<1> HIDE DEF tell
<1>10. events' \in [Users -> Seq(Events)] /\ \A v \in Users : QueueFits(events'[v], k, sentUnder, B)
  <2>1. \A v \in Users : events'[v] \in Seq(Events) /\ QueueFits(events'[v], k, sentUnder, B)
    BY <1>8, <1>9, QueueOfOne
  <2> QED BY <1>3, <2>1
<1>11. Onward(k, sentUnder, belonged, k, sentUnder, B)
  BY <1>4 DEF Onward
<1>12. reply' \in [Users -> Replies] /\ \A v \in Users : ReplyFits(reply'[v], B)
  BY <1>3, <1>6, <1>11, OnwardKeeps DEF ExchangeInv, ExchangeTypes
<1>13. /\ unsent' \in [Users -> [Tasks -> Seq(Requests)]]
       /\ \A v \in Users : \A t \in Tasks : SealedFit(unsent'[v][t], k, sentUnder, belonged)
  <2>1. [t \in Tasks |-> <<>>] \in [Tasks -> Seq(Requests)]
    BY SealedEmpty
  <2>2. SealedFit(<<>>, k, sentUnder, belonged)
    BY SealedEmpty DEF SealedFit
  <2> QED BY <1>3, <2>1, <2>2 DEF ExchangeInv, ExchangeTypes
<1>14. /\ pubs' \in [Users -> Seq(Requests)]
       /\ \A v \in Users : SealedFit(pubs'[v], k, sentUnder, belonged)
  <2>1. SealedFit(<<>>, k, sentUnder, belonged) /\ <<>> \in Seq(Requests)
    BY SealedEmpty DEF SealedFit
  <2> QED BY <1>3, <2>1 DEF ExchangeInv, ExchangeTypes
<1> QED BY <1>2, <1>3, <1>4, <1>10, <1>12, <1>13, <1>14, OutsideKeeps

\* A published secret is passed on to the member it was sealed to, unless it is refused
\* (Hub::publish_key).
LEMMA PublishKeyKeeps ==
  ASSUME ExchangeInv, UNCHANGED story, NEW u \in Users, PublishKey(u)
  PROVE  ExchangeInv'
<1> DEFINE request == Head(pubs[u])
           for(v) == {b \in request.blobs : b.user = v}
           message(v) == [kind |-> "key", from |-> u, epoch |-> request.epoch,
                          blob |-> CHOOSE b \in for(v) : TRUE]
           answer(v) == IF Accepted(u, request) /\ for(v) # {} THEN <<message(v)>> ELSE <<>>
           tell == [v \in Users |-> answer(v)]
<1>1. /\ pubs[u] # <<>> /\ pubs' = [pubs EXCEPT ![u] = Tail(@)]
      /\ events' = [v \in Users |-> events[v] \o tell[v]]
      /\ UNCHANGED <<hub, k, reply, unsent, belonged, knows, sentUnder>>
  <2>1. events' = [v \in Users |-> events[v] \o answer(v)]
    BY DEF PublishKey
  <2> HIDE DEF answer
  <2>2. events' = [v \in Users |-> events[v] \o tell[v]]
    BY <2>1
  <2> QED BY <2>2 DEF PublishKey
<1>2. /\ request \in Requests /\ request.blobs \subseteq Sealed(pubs[u])
      /\ Tail(pubs[u]) \in Seq(Requests) /\ Sealed(Tail(pubs[u])) \subseteq Sealed(pubs[u])
  BY <1>1, SealedTail DEF ExchangeInv, ExchangeTypes
<1>3. \A b \in request.blobs : BlobFits(b, k, sentUnder, belonged)
  BY <1>2 DEF ExchangeInv, SealedFit
<1> HIDE DEF request
<1>4. ASSUME NEW v \in Users, for(v) # {}
      PROVE  message(v) \in Events /\ EventFits(message(v), k, sentUnder, belonged)
  <2> DEFINE c == CHOOSE b \in for(v) : TRUE
  <2>1. c \in request.blobs
    BY <1>4
  <2>2. c \in Blobs /\ request.epoch \in Nat
    BY <1>2, <2>1 DEF Requests
  <2> HIDE DEF c
  <2>3. message(v) = [kind |-> "key", from |-> u, epoch |-> request.epoch, blob |-> c]
    BY DEF c
  <2>4. message(v) \in KeyMessages
    BY <2>2, <2>3 DEF KeyMessages
  <2>5. EventFits(message(v), k, sentUnder, belonged)
    BY <1>3, <2>1, <2>3 DEF EventFits
  <2> QED BY <2>4, <2>5 DEF Events
<1> HIDE DEF message
<1>5. \A v \in Users : tell[v] \in Seq(Events) /\ QueueFits(tell[v], k, sentUnder, belonged)
  BY <1>4, QueueOfOne
<1> HIDE DEF tell
<1>6. \A v \in Users : /\ events[v] \o tell[v] \in Seq(Events)
                       /\ QueueFits(events[v] \o tell[v], k, sentUnder, belonged)
  BY <1>5, EventsTold
<1>7. events' \in [Users -> Seq(Events)]
      /\ \A v \in Users : QueueFits(events'[v], k, sentUnder, belonged')
  BY <1>1, <1>6
<1>8. /\ pubs' \in [Users -> Seq(Requests)]
      /\ \A v \in Users : SealedFit(pubs'[v], k, sentUnder, belonged)
  BY <1>1, <1>2 DEF ExchangeInv, ExchangeTypes, SealedFit
<1>9. /\ hub' \in HubStates /\ belonged' = [v \in Users |-> belonged'[v]]
      /\ \A v \in Users : belonged[v] \subseteq belonged'[v]
      /\ reply' \in [Users -> Replies] /\ \A v \in Users : ReplyFits(reply'[v], belonged')
      /\ unsent' \in [Users -> [Tasks -> Seq(Requests)]]
      /\ \A v \in Users : \A t \in Tasks : SealedFit(unsent'[v][t], k, sentUnder, belonged)
  BY <1>1 DEF ExchangeInv, ExchangeTypes
<1> QED BY <1>1, <1>7, <1>8, <1>9, OutsideKeeps

\* A request that was held up and goes out late keeps the invariant.
LEMMA SendsKeeps ==
  ASSUME ExchangeInv, UNCHANGED story, NEW u \in Users, NEW t \in Tasks, Sends(u, t)
  PROVE  ExchangeInv'
<1>1. /\ pubs' = [pubs EXCEPT ![u] = @ \o unsent[u][t]]
      /\ unsent' = [unsent EXCEPT ![u][t] = <<>>]
      /\ UNCHANGED <<hub, k, events, reply, belonged, knows, sentUnder>>
  BY DEF Sends
<1>2. /\ pubs[u] \o unsent[u][t] \in Seq(Requests)
      /\ SealedFit(pubs[u] \o unsent[u][t], k, sentUnder, belonged)
  <2>1. pubs[u] \in Seq(Requests) /\ unsent[u][t] \in Seq(Requests)
    BY DEF ExchangeInv, ExchangeTypes
  <2>2. /\ SealedFit(pubs[u], k, sentUnder, belonged)
        /\ SealedFit(unsent[u][t], k, sentUnder, belonged)
    BY DEF ExchangeInv
  <2> QED BY <2>1, <2>2, SealedConcat DEF SealedFit
<1>3. /\ pubs' \in [Users -> Seq(Requests)]
      /\ \A v \in Users : SealedFit(pubs'[v], k, sentUnder, belonged)
  BY <1>1, <1>2 DEF ExchangeInv, ExchangeTypes
<1>4. SealedFit(<<>>, k, sentUnder, belonged) /\ <<>> \in Seq(Requests)
  BY SealedEmpty DEF SealedFit
<1>5. /\ unsent' \in [Users -> [Tasks -> Seq(Requests)]]
      /\ \A v \in Users : \A s \in Tasks : SealedFit(unsent'[v][s], k, sentUnder, belonged)
  BY <1>1, <1>4 DEF ExchangeInv, ExchangeTypes
<1>6. /\ hub' \in HubStates /\ belonged' = [v \in Users |-> belonged'[v]]
      /\ \A v \in Users : belonged[v] \subseteq belonged'[v]
      /\ reply' \in [Users -> Replies] /\ \A v \in Users : ReplyFits(reply'[v], belonged')
      /\ events' \in [Users -> Seq(Events)]
      /\ \A v \in Users : QueueFits(events'[v], k, sentUnder, belonged')
  BY <1>1 DEF ExchangeInv, ExchangeTypes
<1> QED BY <1>1, <1>3, <1>5, <1>6, OutsideKeeps

-----------------------------------------------------------------------------
(* Steps of the managers. *)

\* S has what the users sent under before, and what u, with manager n, can send under.
SendsUnder(S, before, u, n) ==
  /\ \A v \in Users : v # u => S[v] = before[v]
  /\ \A x \in S[u] : x \in before[u] \/ (n.secret # 0 /\ x = <<n.secret, n.room, n.epoch>>)

\* u's manager becomes n: its old secrets are for what they were for.
LEMMA ManagerOnward ==
  ASSUME ExchangeInv, NEW u \in Users, NEW n, NEW km, NEW S,
         km = [k EXCEPT ![u] = n],
         SendsUnder(S, sentUnder, u, n),
         n.made \in Nat, k[u].made <= n.made, KeepsSecret(n, k[u]), n.secret \in 0..n.made
  PROVE  /\ Onward(k, sentUnder, belonged, km, S, belonged)
         /\ \A x \in S[u] : /\ x[1] \in 1..n.made
                            /\ x[1] = n.secret => x[2] = n.room /\ x[3] = n.epoch
<1>1. km[u] = n /\ \A v \in Users : v # u => km[v] = k[v]
  BY DEF ExchangeInv, ExchangeTypes
<1>2. KeysFit(u, k, sentUnder, belonged)
  BY DEF ExchangeInv
<1>3. k[u].made \in Nat
  BY <1>2 DEF KeysFit, Informed
<1>4. ASSUME NEW s, NEW r, NEW e, For(k, sentUnder, u, s, r, e)
      PROVE  For(km, S, u, s, r, e)
  <2>1. s \in 1..k[u].made /\ s \in 1..n.made
    BY <1>3, <1>4 DEF For
  <2>2. n.secret = s => k[u].secret = s /\ n.room = k[u].room /\ n.epoch = k[u].epoch
    BY <1>3, <2>1 DEF KeepsSecret
  <2>3. n.secret = s => n.room = r /\ n.epoch = e
    BY <1>4, <2>2 DEF For
  <2>4. \A x \in S[u] : x[1] = s => x[2] = r /\ x[3] = e
    BY <1>4, <2>3 DEF For, SendsUnder
  <2> QED BY <1>1, <2>1, <2>3, <2>4 DEF For
<1>5. ASSUME NEW v, NEW s, NEW r, NEW e, For(k, sentUnder, v, s, r, e), v # u
      PROVE  For(km, S, v, s, r, e)
  BY <1>1, <1>5 DEF For, SendsUnder
<1>6. Onward(k, sentUnder, belonged, km, S, belonged)
  BY <1>4, <1>5 DEF Onward
<1>7. ASSUME NEW x \in S[u]
      PROVE  x[1] \in 1..n.made /\ (x[1] = n.secret => x[2] = n.room /\ x[3] = n.epoch)
  <2>1. CASE x \in sentUnder[u]
    <3>1. x[1] \in 1..k[u].made /\ (x[1] = k[u].secret => x[2] = k[u].room /\ x[3] = k[u].epoch)
      BY <1>2, <2>1 DEF KeysFit
    <3>2. x[1] \in 1..n.made
      BY <1>3, <3>1
    <3>3. x[1] = n.secret => k[u].secret = x[1] /\ n.room = k[u].room /\ n.epoch = k[u].epoch
      BY <1>3, <3>1 DEF KeepsSecret
    <3> QED BY <3>1, <3>2, <3>3
  <2>2. CASE n.secret # 0 /\ x = <<n.secret, n.room, n.epoch>>
    BY <2>2
  <2> QED BY <2>1, <2>2 DEF SendsUnder
<1> QED BY <1>6, <1>7

\* What is under way, and what is known, goes on fitting.
LEMMA WayOnward ==
  ASSUME ExchangeInv, NEW km, NEW S, Onward(k, sentUnder, belonged, km, S, belonged),
         NEW v \in Users
  PROVE  /\ QueueFits(events[v], km, S, belonged)
         /\ \A t \in Tasks : SealedFit(unsent[v][t], km, S, belonged)
         /\ SealedFit(pubs[v], km, S, belonged)
         /\ KnownFit(v, knows[v], km, S, belonged)
<1>1. /\ events[v] \in Seq(Events) /\ pubs[v] \in Seq(Requests)
      /\ \A t \in Tasks : unsent[v][t] \in Seq(Requests)
  BY DEF ExchangeInv, ExchangeTypes
<1>2. /\ QueueFits(events[v], k, sentUnder, belonged)
      /\ \A t \in Tasks : SealedFit(unsent[v][t], k, sentUnder, belonged)
      /\ SealedFit(pubs[v], k, sentUnder, belonged)
      /\ KnownFit(v, knows[v], k, sentUnder, belonged)
  BY DEF ExchangeInv
<1>3. QueueFits(events[v], km, S, belonged)
  BY <1>1, <1>2, OnwardFits
<1>4. \A t \in Tasks : SealedFit(unsent[v][t], km, S, belonged)
  BY <1>1, <1>2, OnwardFits
<1>5. SealedFit(pubs[v], km, S, belonged)
  BY <1>1, <1>2, OnwardFits
<1>6. KnownFit(v, knows[v], km, S, belonged)
  BY <1>2, OnwardFits
<1> QED BY <1>3, <1>4, <1>5, <1>6

\* A new encryption key changes no secret (renew_encryption_key).
LEMMA RenewKeeps ==
  ASSUME ExchangeInv, UNCHANGED story, NEW u \in Users, Renew(u)
  PROVE  ExchangeInv'
<1> DEFINE n == ReplaceEncryption(k[u], EncOf(u, 2))
<1>1. /\ k' = [k EXCEPT ![u] = n] /\ reply' = [reply EXCEPT ![u] = [kind |-> "renewal"]]
      /\ UNCHANGED <<hub, events, unsent, pubs, belonged, knows, sentUnder>>
  BY DEF Renew
<1>2. KeysFit(u, k, sentUnder, belonged) /\ Informed(k[u], belonged)
  BY DEF ExchangeInv, KeysFit
<1>3. /\ n = [f \in Fields |-> n[f]] /\ n.enc = EncOf(u, 2)
      /\ n.room = k[u].room /\ n.epoch = k[u].epoch /\ n.made = k[u].made /\ n.secret = k[u].secret
      /\ n.peers = k[u].peers /\ n.roomPeers = k[u].roomPeers /\ n.stashed = k[u].stashed
      /\ n.out = k[u].out /\ n.early = k[u].early /\ n.received = k[u].received
  BY <1>2 DEF ReplaceEncryption, Informed, Fields
<1>4. EncOf(u, 2) \in Encs
  BY DEF EncOf, Encs
<1> HIDE DEF n
<1>5. Informed(n, belonged)
  BY <1>2, <1>3, <1>4 DEF Informed
<1>6. /\ n.made \in Nat /\ k[u].made <= n.made /\ KeepsSecret(n, k[u]) /\ n.secret \in 0..n.made
  BY <1>2, <1>3 DEF Informed, KeepsSecret
<1>7. /\ Onward(k, sentUnder, belonged, k', sentUnder, belonged)
      /\ \A x \in sentUnder[u] : /\ x[1] \in 1..n.made
                                 /\ x[1] = n.secret => x[2] = n.room /\ x[3] = n.epoch
  <2>1. SendsUnder(sentUnder, sentUnder, u, n)
    BY DEF SendsUnder
  <2> QED BY <1>1, <1>6, <2>1, ManagerOnward
<1>8. k'[u] = n /\ \A v \in Users : v # u => k'[v] = k[v]
  BY <1>1 DEF ExchangeInv, ExchangeTypes
<1>9. ASSUME NEW v \in Users PROVE KeysFit(v, k', sentUnder, belonged)
  <2>1. CASE v # u
    BY <1>7, <1>8, <2>1, OnwardFits DEF ExchangeInv
  <2>2. CASE v = u
    <3>1. \A x \in n.early : BlobFits(x.blob, k', sentUnder, belonged)
      <4>1. \A x \in n.early : x.blob.user \in Users
        BY <1>2, <1>3 DEF KeysFit, KeyMessages, Blobs
      <4> QED BY <1>2, <1>3, <1>7, <4>1, OnwardKeeps DEF KeysFit
    <3>2. \A r \in n.received : Entitled(u, r.from, r.secret, k', sentUnder, belonged)
      BY <1>2, <1>3, <1>7, OnwardKeeps DEF KeysFit
    <3> QED BY <1>2, <1>3, <1>5, <1>7, <1>8, <2>2, <3>1, <3>2 DEF KeysFit
  <2> QED BY <2>1, <2>2
<1>10. ASSUME NEW v \in Users
       PROVE  /\ QueueFits(events[v], k', sentUnder, belonged)
              /\ \A t \in Tasks : SealedFit(unsent[v][t], k', sentUnder, belonged)
              /\ SealedFit(pubs[v], k', sentUnder, belonged)
              /\ KnownFit(v, knows[v], k', sentUnder, belonged)
  BY <1>7, WayOnward
<1>11. [kind |-> "renewal"] \in Replies /\ ReplyFits([kind |-> "renewal"], belonged)
  BY DEF Replies, ReplyFits
<1>12. reply' \in [Users -> Replies] /\ \A v \in Users : ReplyFits(reply'[v], belonged)
  BY <1>1, <1>11 DEF ExchangeInv, ExchangeTypes
<1>13. ExchangeTypes'
  BY <1>1, <1>12 DEF ExchangeInv, ExchangeTypes
<1> QED BY <1>1, <1>9, <1>10, <1>12, <1>13 DEF ExchangeInv

\* A task has changed u's manager, with the key messages of F at hand and the right to K.
LEMMA AppliesKeeps ==
  ASSUME ExchangeInv, UNCHANGED <<story, hub, belonged>>, NEW u \in Users, NEW t \in Tasks,
         NEW next, Applies(u, t, next), NEW F, NEW K,
         Sound(next, k[u], u, belonged, F, K),
         F \subseteq KeyMessages, \A x \in F : BlobFits(x.blob, k, sentUnder, belonged),
         \A v, s : <<v, s>> \in K => Entitled(u, v, s, k, sentUnder, belonged),
         events' \in [Users -> Seq(Events)], reply' \in [Users -> Replies],
         \A v \in Users : /\ QueueFits(events'[v], k, sentUnder, belonged)
                          /\ ReplyFits(reply'[v], belonged)
  PROVE  ExchangeInv'
<1> DEFINE n == [next EXCEPT !.out = <<>>]
<1>0. Informed(next, belonged)
  BY DEF Sound
<1>1. /\ k' = [k EXCEPT ![u] = n]
      /\ knows' = [knows EXCEPT ![u] = @ \cup {<<r.from, r.secret>> : r \in next.received}]
      /\ sentUnder' = [sentUnder EXCEPT ![u] =
           IF next.secret = 0 THEN @ ELSE @ \cup {<<next.secret, next.room, next.epoch>>}]
      /\ \/ unsent' = [unsent EXCEPT ![u][t] = next.out] /\ UNCHANGED pubs
         \/ pubs' = [pubs EXCEPT ![u] = @ \o next.out] /\ UNCHANGED unsent
  BY DEF Applies
<1>2. /\ n = [f \in Fields |-> n[f]] /\ n.enc = next.enc
      /\ n.room = next.room /\ n.epoch = next.epoch /\ n.made = next.made /\ n.secret = next.secret
      /\ n.peers = next.peers /\ n.roomPeers = next.roomPeers /\ n.stashed = next.stashed
      /\ n.out = <<>> /\ n.early = next.early /\ n.received = next.received
  BY <1>0 DEF Informed, Fields
<1> HIDE DEF n
<1>3. Informed(n, belonged)
  BY <1>0, <1>2, SealedEmpty DEF Informed
<1>4. /\ n.made \in Nat /\ k[u].made <= n.made /\ KeepsSecret(n, k[u]) /\ n.secret \in 0..n.made
  BY <1>2, <1>3 DEF Informed, KeepsSecret, Sound
<1>5. /\ k'[u] = n /\ \A v \in Users : v # u => k'[v] = k[v]
      /\ k' = [v \in Users |-> k'[v]]
  BY <1>1 DEF ExchangeInv, ExchangeTypes
<1>6. /\ \A v \in Users : v # u => sentUnder'[v] = sentUnder[v]
      /\ \A x \in sentUnder'[u] : x \in sentUnder[u] \/ (n.secret # 0 /\ x = <<n.secret, n.room, n.epoch>>)
      /\ sentUnder' = [v \in Users |-> sentUnder'[v]]
  BY <1>1, <1>2 DEF ExchangeInv, ExchangeTypes
<1>7. /\ Onward(k, sentUnder, belonged, k', sentUnder', belonged)
      /\ \A x \in sentUnder'[u] : /\ x[1] \in 1..n.made
                                  /\ x[1] = n.secret => x[2] = n.room /\ x[3] = n.epoch
  <2>1. SendsUnder(sentUnder', sentUnder, u, n)
    BY <1>6 DEF SendsUnder
  <2>2. k' = [k EXCEPT ![u] = n]
    BY <1>1
  <2> QED BY ONLY ExchangeInv, u \in Users, <1>4, <2>1, <2>2, ManagerOnward
<1>8. \A r \in next.received : Entitled(u, r.from, r.secret, k', sentUnder', belonged)
  <2>1. \A r \in next.received : Entitled(u, r.from, r.secret, k, sentUnder, belonged)
    BY DEF Sound
  <2> QED BY <1>7, <2>1, OnwardKeeps
<1>9. ASSUME NEW v \in Users PROVE KeysFit(v, k', sentUnder', belonged)
  <2>1. CASE v # u
    BY <1>5, <1>6, <1>7, <2>1, OnwardFits DEF ExchangeInv
  <2>2. CASE v = u
    <3>1. n.early \subseteq F
      BY <1>2 DEF Sound
    <3>2. \A x \in n.early : BlobFits(x.blob, k', sentUnder', belonged)
      <4>1. \A x \in n.early : x.blob.user \in Users
        BY <3>1 DEF KeyMessages, Blobs
      <4> QED BY <1>7, <3>1, <4>1, OnwardKeeps
    <3>3. \A r \in n.received : Entitled(u, r.from, r.secret, k', sentUnder', belonged)
      BY <1>2, <1>8
    <3>4. n.early \subseteq KeyMessages
      BY <3>1
    <3> QED BY <1>2, <1>3, <1>5, <1>7, <2>2, <3>2, <3>3, <3>4 DEF KeysFit
  <2> QED BY <2>1, <2>2
<1>10. ASSUME NEW b \in Sealed(next.out) PROVE BlobFits(b, k', sentUnder', belonged)
  <2>1. SealedBetween(b, k[u], next, u, belonged)
    BY DEF Sound
  <2>2. /\ b.from = u /\ <<b.room, b.epoch>> \in belonged[b.user] /\ b.secret \in 1..n.made
        /\ b.secret = n.secret => b.room = n.room /\ b.epoch = n.epoch
        /\ b.secret <= k[u].made => b.secret = k[u].secret /\ b.room = k[u].room /\ b.epoch = k[u].epoch
    BY <1>2, <2>1 DEF SealedBetween
  <2>3. \A x \in sentUnder'[u] : x[1] = b.secret => x[2] = b.room /\ x[3] = b.epoch
    <3> SUFFICES ASSUME NEW x \in sentUnder'[u], x[1] = b.secret
                 PROVE  x[2] = b.room /\ x[3] = b.epoch
      OBVIOUS
    <3>1. CASE x \in sentUnder[u]
      <4>1. x[1] \in 1..k[u].made /\ (x[1] = k[u].secret => x[2] = k[u].room /\ x[3] = k[u].epoch)
        BY <3>1 DEF ExchangeInv, KeysFit
      <4> QED BY <2>2, <4>1
    <3>2. CASE x = <<n.secret, n.room, n.epoch>>
      BY <2>2, <3>2
    <3> QED BY <1>6, <3>1, <3>2
  <2> QED BY <1>5, <2>2, <2>3 DEF BlobFits, For
<1>11. SealedFit(next.out, k', sentUnder', belonged) /\ next.out \in Seq(Requests)
  BY <1>0, <1>10 DEF SealedFit, Informed
<1>12. \A v \in Users : /\ QueueFits(events'[v], k', sentUnder', belonged)
                        /\ \A s \in Tasks : SealedFit(unsent[v][s], k', sentUnder', belonged)
                        /\ SealedFit(pubs[v], k', sentUnder', belonged)
                        /\ KnownFit(v, knows[v], k', sentUnder', belonged)
  <2>1. \A v \in Users : QueueFits(events'[v], k', sentUnder', belonged)
    BY <1>7, OnwardFits
  <2> QED BY <1>7, <2>1, WayOnward
<1>13. /\ unsent' \in [Users -> [Tasks -> Seq(Requests)]]
       /\ \A v \in Users : \A s \in Tasks : SealedFit(unsent'[v][s], k', sentUnder', belonged)
  <2>1. unsent \in [Users -> [Tasks -> Seq(Requests)]]
    BY DEF ExchangeInv, ExchangeTypes
  <2>2. CASE unsent' = [unsent EXCEPT ![u][t] = next.out]
    <3>1. unsent' \in [Users -> [Tasks -> Seq(Requests)]]
      BY <1>11, <2>1, <2>2
    <3>2. \A v \in Users : \A s \in Tasks :
            unsent'[v][s] = IF v = u /\ s = t THEN next.out ELSE unsent[v][s]
      BY <2>1, <2>2
    <3> QED BY <1>11, <1>12, <3>1, <3>2
  <2>3. CASE UNCHANGED unsent
    BY <1>12, <2>1, <2>3
  <2> QED BY <1>1, <2>2, <2>3
<1>14. /\ pubs' \in [Users -> Seq(Requests)]
       /\ \A v \in Users : SealedFit(pubs'[v], k', sentUnder', belonged)
  <2>1. pubs[u] \in Seq(Requests)
    BY DEF ExchangeInv, ExchangeTypes
  <2>2. /\ pubs[u] \o next.out \in Seq(Requests)
        /\ SealedFit(pubs[u] \o next.out, k', sentUnder', belonged)
    BY <1>11, <1>12, <2>1, SealedConcat DEF SealedFit
  <2> QED BY <1>1, <1>12, <2>2 DEF ExchangeInv, ExchangeTypes
<1>15. /\ knows' = [v \in Users |-> knows'[v]]
       /\ \A v \in Users : KnownFit(v, knows'[v], k', sentUnder', belonged)
  <2>1. /\ knows' = [v \in Users |-> knows'[v]] /\ \A v \in Users : v # u => knows'[v] = knows[v]
        /\ knows'[u] = knows[u] \cup {<<r.from, r.secret>> : r \in next.received}
    BY <1>1 DEF ExchangeInv, ExchangeTypes
  <2>2. KnownFit(u, knows'[u], k', sentUnder', belonged)
    BY <1>8, <1>12, <2>1 DEF KnownFit
  <2> QED BY <1>12, <2>1, <2>2
<1>16. ExchangeTypes'
  BY <1>5, <1>6, <1>13, <1>14, <1>15 DEF ExchangeInv, ExchangeTypes
<1> QED BY <1>9, <1>12, <1>13, <1>14, <1>15, <1>16 DEF ExchangeInv

\* The key messages a manager holds and those in S, and the secrets it has and these bring.
MessagesAt(u, S) == k[u].early \cup S
SecretsAt(u, S) ==
  {<<r.from, r.secret>> : r \in k[u].received}
  \cup {<<x.from, x.blob.secret>> :
          x \in {y \in MessagesAt(u, S) : y.blob.from = y.from /\ y.blob.user = u}}

\* The manager as it is, with what it holds and the messages S at hand.
LEMMA SoundAtFirst ==
  ASSUME ExchangeInv, NEW u \in Users, NEW S, S \subseteq KeyMessages,
         \A x \in S : BlobFits(x.blob, k, sentUnder, belonged)
  PROVE  /\ Sound(k[u], k[u], u, belonged, MessagesAt(u, S), SecretsAt(u, S))
         /\ k[u].made \in Nat
         /\ MessagesAt(u, S) \subseteq KeyMessages
         /\ \A x \in MessagesAt(u, S) : BlobFits(x.blob, k, sentUnder, belonged)
         /\ \A x \in MessagesAt(u, S) :
              x.blob.from = x.from /\ x.blob.user = u => <<x.from, x.blob.secret>> \in SecretsAt(u, S)
         /\ \A v, s : <<v, s>> \in SecretsAt(u, S) => Entitled(u, v, s, k, sentUnder, belonged)
<1>1. KeysFit(u, k, sentUnder, belonged)
  BY DEF ExchangeInv
<1>2. /\ MessagesAt(u, S) \subseteq KeyMessages
      /\ \A x \in MessagesAt(u, S) : BlobFits(x.blob, k, sentUnder, belonged)
  BY <1>1 DEF KeysFit, MessagesAt
<1>3. \A x \in MessagesAt(u, S) :
        x.blob.from = x.from /\ x.blob.user = u => <<x.from, x.blob.secret>> \in SecretsAt(u, S)
  BY DEF SecretsAt
<1>4. \A v, s : <<v, s>> \in SecretsAt(u, S) => Entitled(u, v, s, k, sentUnder, belonged)
  <2> SUFFICES ASSUME NEW v, NEW s, <<v, s>> \in SecretsAt(u, S)
               PROVE  Entitled(u, v, s, k, sentUnder, belonged)
    OBVIOUS
  <2>1. CASE \E r \in k[u].received : v = r.from /\ s = r.secret
    BY <1>1, <2>1 DEF KeysFit
  <2>2. CASE \E x \in MessagesAt(u, S) : /\ x.blob.from = x.from /\ x.blob.user = u
                                         /\ v = x.from /\ s = x.blob.secret
    BY <1>2, <2>2 DEF BlobFits, Entitled
  <2> QED BY <2>1, <2>2 DEF SecretsAt
<1>5. Informed(k[u], belonged) /\ Sealed(k[u].out) = {} /\ k[u].made \in Nat
  BY <1>1, SealedEmpty DEF KeysFit, Informed
<1>6. /\ k[u].early \subseteq MessagesAt(u, S)
      /\ \A r \in k[u].received : <<r.from, r.secret>> \in SecretsAt(u, S)
  BY DEF MessagesAt, SecretsAt
<1>7. Sound(k[u], k[u], u, belonged, MessagesAt(u, S), SecretsAt(u, S))
  BY <1>5, <1>6 DEF Sound, KeepsSecret
<1> QED BY <1>2, <1>3, <1>4, <1>5, <1>7

\* The events and replies of a step that takes a reply.
LEMMA ReplyTaken ==
  ASSUME ExchangeInv, NEW u \in Users, UNCHANGED events,
         reply' = reply \/ reply' = [reply EXCEPT ![u] = Idle]
  PROVE  /\ events' \in [Users -> Seq(Events)] /\ reply' \in [Users -> Replies]
         /\ \A v \in Users : /\ QueueFits(events'[v], k, sentUnder, belonged)
                             /\ ReplyFits(reply'[v], belonged)
<1>1. Idle \in Replies /\ ReplyFits(Idle, belonged)
  BY DEF Replies, Idle, ReplyFits
<1> QED BY <1>1 DEF ExchangeInv, ExchangeTypes

\* The session applies its placement (Call::join).
LEMMA ApplyReplyKeeps ==
  ASSUME ExchangeInv, UNCHANGED story, NEW u \in Users, ApplyReply(u)
  PROVE  ExchangeInv'
<1> DEFINE x == reply[u]
           F == MessagesAt(u, {})
           K == SecretsAt(u, {})
           next == ApplyPlacement(k[u], u, x.room, x.epoch, u, x.peers, {})
<1>1. x \in Placements /\ ReplyFits(x, belonged)
  <2>1. x \in Replies /\ ReplyFits(x, belonged) /\ x.kind = "placement"
    BY DEF ExchangeInv, ExchangeTypes, ApplyReply
  <2> HIDE DEF x
  <2> QED BY <2>1 DEF Replies, Idle, Welcomes, Placements
<1>2. x.room \in Places /\ x.epoch \in Nat /\ Listed(belonged, x.room, x.epoch, x.peers)
  BY <1>1 DEF Placements, ReplyFits
<1>3. /\ Applies(u, "session", next) /\ reply' = [reply EXCEPT ![u] = Idle]
      /\ UNCHANGED <<hub, events, belonged>> /\ "session" \in Tasks
  BY DEF ApplyReply, Tasks
<1> HIDE DEF x
<1>4. /\ Sound(k[u], k[u], u, belonged, F, K) /\ k[u].made \in Nat
      /\ F \subseteq KeyMessages /\ \A y \in F : BlobFits(y.blob, k, sentUnder, belonged)
      /\ \A y \in F : y.blob.from = y.from /\ y.blob.user = u => <<y.from, y.blob.secret>> \in K
      /\ \A v, s : <<v, s>> \in K => Entitled(u, v, s, k, sentUnder, belonged)
  BY SoundAtFirst
<1>5. k[u].made + 2 <= NumSecrets /\ NumSecrets \in Nat
  BY <1>3, KeyConstants DEF Applies
<1> HIDE DEF F, K
<1>6. Sound(next, k[u], u, belonged, F, K)
  BY <1>2, <1>4, <1>5, PlacementSound
<1> HIDE DEF next
<1> QED BY <1>3, <1>4, <1>6, AppliesKeeps, ReplyTaken

\* The session starts again with a new manager, which goes on numbering its secrets
\* (Call::restart).
LEMMA ApplyWelcomeKeeps ==
  ASSUME ExchangeInv, UNCHANGED story, NEW u \in Users, ApplyWelcome(u)
  PROVE  ExchangeInv'
<1> DEFINE x == reply[u]
           F == MessagesAt(u, {})
           K == SecretsAt(u, {})
           new == New(k[u].floors, k[u].enc, k[u].made)
           fresh == [new EXCEPT !.present = x.present]
           next == IF x.room = NoRoom THEN fresh
                   ELSE ApplyPlacement(fresh, u, x.room, x.epoch, u, x.peers, {})
<1>1. x \in Welcomes /\ ReplyFits(x, belonged)
  <2>1. x \in Replies /\ ReplyFits(x, belonged) /\ x.kind = "welcome"
    BY DEF ExchangeInv, ExchangeTypes, ApplyWelcome
  <2> HIDE DEF x
  <2> QED BY <2>1 DEF Replies, Idle, Welcomes, Placements
<1>2. x.room \in Places /\ x.epoch \in Nat /\ Listed(belonged, x.room, x.epoch, x.peers)
  BY <1>1 DEF Welcomes, ReplyFits
<1>3. /\ Applies(u, "session", next) /\ reply' = [reply EXCEPT ![u] = Idle]
      /\ UNCHANGED <<hub, events, belonged>> /\ "session" \in Tasks
  BY DEF ApplyWelcome, Tasks
<1> HIDE DEF x
<1>4. /\ Sound(k[u], k[u], u, belonged, F, K) /\ k[u].made \in Nat
      /\ F \subseteq KeyMessages /\ \A y \in F : BlobFits(y.blob, k, sentUnder, belonged)
      /\ \A y \in F : y.blob.from = y.from /\ y.blob.user = u => <<y.from, y.blob.secret>> \in K
      /\ \A v, s : <<v, s>> \in K => Entitled(u, v, s, k, sentUnder, belonged)
  BY SoundAtFirst
<1>5. k[u].made + 2 <= NumSecrets /\ NumSecrets \in Nat
  BY <1>3, KeyConstants DEF Applies
<1> HIDE DEF F, K
<1>6. /\ new = [f \in Fields |-> new[f]] /\ new.room = NoRoom /\ new.epoch = 0
      /\ new.enc = k[u].enc /\ new.made = k[u].made /\ new.secret = 0 /\ new.peers = {}
      /\ new.roomPeers = {} /\ new.stashed = NoStash /\ new.out = <<>> /\ new.early = {}
      /\ new.received = {}
  BY DEF New, Fields
<1> HIDE DEF new
<1>7. /\ fresh = [f \in Fields |-> fresh[f]] /\ fresh.room = NoRoom /\ fresh.epoch = 0
      /\ fresh.enc = k[u].enc /\ fresh.made = k[u].made /\ fresh.secret = 0 /\ fresh.peers = {}
      /\ fresh.roomPeers = {} /\ fresh.stashed = NoStash /\ fresh.out = <<>> /\ fresh.early = {}
      /\ fresh.received = {}
  BY <1>6 DEF Fields
<1> HIDE DEF fresh
<1>8. Informed(fresh, belonged)
  <2>1. k[u].enc \in Encs
    BY <1>4 DEF Sound, Informed
  <2>2. NoRoom \in Places
    BY DEF Places
  <2>3. fresh.secret \in 0..fresh.made /\ fresh.made \in Nat
    BY <1>4, <1>7
  <2>4. \A r, e : Listed(belonged, r, e, {})
    BY DEF Listed
  <2>5. <<>> \in Seq(Requests) /\ 0 \in Nat
    BY SealedEmpty
  <2> QED BY ONLY <1>7, <2>1, <2>2, <2>3, <2>4, <2>5 DEF Informed
<1>9. Sound(fresh, k[u], u, belonged, F, K)
  BY <1>4, <1>7, <1>8, SealedEmpty DEF Sound, KeepsSecret
<1>10. Sound(next, k[u], u, belonged, F, K)
  <2>1. fresh.made + 2 <= NumSecrets
    BY <1>5, <1>7
  <2>2. Sound(ApplyPlacement(fresh, u, x.room, x.epoch, u, x.peers, {}), k[u], u, belonged, F, K)
    BY <1>2, <1>4, <1>5, <1>9, <2>1, PlacementSound
  <2> QED BY <1>9, <2>2
<1> HIDE DEF next
<1> QED BY <1>3, <1>4, <1>10, AppliesKeeps, ReplyTaken

\* The session is put out of the room (put_out_of_room).
LEMMA KickedKeeps ==
  ASSUME ExchangeInv, UNCHANGED story, NEW u \in Users, Kicked(u)
  PROVE  ExchangeInv'
<1> DEFINE r == Head(kicks[u])
           F == MessagesAt(u, {})
           K == SecretsAt(u, {})
           next == PutOut(u, r)
<1>1. /\ Applies(u, "session", next) /\ UNCHANGED <<reply, hub, events, belonged>>
      /\ "session" \in Tasks
  BY DEF Kicked, Tasks
<1> HIDE DEF r
<1>2. /\ Sound(k[u], k[u], u, belonged, F, K) /\ k[u].made \in Nat
      /\ F \subseteq KeyMessages /\ \A y \in F : BlobFits(y.blob, k, sentUnder, belonged)
      /\ \A y \in F : y.blob.from = y.from /\ y.blob.user = u => <<y.from, y.blob.secret>> \in K
      /\ \A v, s : <<v, s>> \in K => Entitled(u, v, s, k, sentUnder, belonged)
  BY SoundAtFirst
<1>3. k[u].made + 2 <= NumSecrets /\ NumSecrets \in Nat
  BY <1>1, KeyConstants DEF Applies
<1> HIDE DEF F, K
<1>4. Sound(next, k[u], u, belonged, F, K)
  <2>1. NoRoom \in Places /\ Listed(belonged, NoRoom, 0, {}) /\ 0 \in Nat
    BY DEF Places, Listed
  <2>2. Sound(ApplyPlacement(k[u], u, NoRoom, 0, 0, {}, {}), k[u], u, belonged, F, K)
    BY <1>2, <1>3, <2>1, PlacementSound
  <2> QED BY <1>2, <2>2 DEF PutOut
<1> HIDE DEF next
<1> QED BY <1>1, <1>2, <1>4, AppliesKeeps, ReplyTaken

\* The pump applies an event (MediaEngine::event).
LEMMA PumpKeeps ==
  ASSUME ExchangeInv, UNCHANGED story, NEW u \in Users, Pump(u)
  PROVE  ExchangeInv'
<1> DEFINE x == Head(events[u])
           S == IF x.kind = "key" THEN {x} ELSE {}
           F == MessagesAt(u, S)
           K == SecretsAt(u, S)
           next == CASE x.kind = "peers" -> PeersChanged(k[u], u, x.room, x.epoch, x.peers, {})
                     [] x.kind = "presence" -> SetPresence(k[u], u, x.user, x.room, {})
                     [] x.kind = "key" -> SenderKey(k[u], u, x)
                     [] x.kind = "kicked" -> k[u]
<1>1. /\ events[u] # <<>> /\ Applies(u, "pump", next) /\ events' = [events EXCEPT ![u] = Tail(@)]
      /\ UNCHANGED <<hub, reply, belonged>> /\ "pump" \in Tasks
  BY DEF Pump, Tasks
<1>2. /\ x \in Events /\ EventFits(x, k, sentUnder, belonged)
      /\ Tail(events[u]) \in Seq(Events) /\ QueueFits(Tail(events[u]), k, sentUnder, belonged)
  BY <1>1, QueueTail DEF ExchangeInv, ExchangeTypes
<1> HIDE DEF x
<1>3. S \subseteq KeyMessages /\ \A y \in S : BlobFits(y.blob, k, sentUnder, belonged)
  BY <1>2 DEF Events, PeersEvents, PresenceEvents, KickedEvents, KeyMessages, EventFits
<1>4. x.kind = "key" => x \in F
  BY DEF MessagesAt
<1> HIDE DEF S
<1>5. /\ Sound(k[u], k[u], u, belonged, F, K) /\ k[u].made \in Nat
      /\ F \subseteq KeyMessages /\ \A y \in F : BlobFits(y.blob, k, sentUnder, belonged)
      /\ \A y \in F : y.blob.from = y.from /\ y.blob.user = u => <<y.from, y.blob.secret>> \in K
      /\ \A v, s : <<v, s>> \in K => Entitled(u, v, s, k, sentUnder, belonged)
  BY <1>3, SoundAtFirst
<1> HIDE DEF F, K
<1>6. k[u].made < NumSecrets
  BY SMTT(40), <1>1, <1>5, KeyConstants DEF Applies
<1>7. Sound(next, k[u], u, belonged, F, K)
  <2>1. CASE x.kind = "peers"
    <3>1. x.epoch \in Nat /\ Listed(belonged, x.room, x.epoch, x.peers)
      BY <1>2, <2>1 DEF Events, PeersEvents, PresenceEvents, KickedEvents, KeyMessages, EventFits
    <3>2. Sound(PeersChanged(k[u], u, x.room, x.epoch, x.peers, {}), k[u], u, belonged, F, K)
      BY <1>5, <1>6, <3>1, PeersChangedSound
    <3> QED BY <2>1, <3>2
  <2>2. CASE x.kind = "presence"
    <3>1. Sound(SetPresence(k[u], u, x.user, x.room, {}), k[u], u, belonged, F, K)
      BY <1>5, <1>6, PresenceSound
    <3> QED BY <2>2, <3>1
  <2>3. CASE x.kind = "key"
    <3>1. Sound(Deliver(k[u], u, {x}), k[u], u, belonged, F, K)
      <4>1. {x} \subseteq F
        BY <1>4, <2>3
      <4> QED BY <1>5, <4>1, DeliverSound
    <3> QED BY <2>3, <3>1 DEF SenderKey
  <2>4. CASE x.kind = "kicked"
    BY <1>5, <2>4
  <2> QED BY <1>2, <2>1, <2>2, <2>3, <2>4
      DEF Events, PeersEvents, PresenceEvents, KickedEvents, KeyMessages
<1> HIDE DEF next
<1>8. /\ events' \in [Users -> Seq(Events)] /\ reply' \in [Users -> Replies]
      /\ \A v \in Users : /\ QueueFits(events'[v], k, sentUnder, belonged)
                          /\ ReplyFits(reply'[v], belonged)
  BY <1>1, <1>2 DEF ExchangeInv, ExchangeTypes
<1> QED BY <1>1, <1>5, <1>7, <1>8, AppliesKeeps

-----------------------------------------------------------------------------

\* The invariant holds at first.
LEMMA ExchangeInit == Init => ExchangeInv
<1> SUFFICES ASSUME Init PROVE ExchangeInv
  OBVIOUS
<1> DEFINE new(u) == New([r \in Rooms |-> NoEpoch], EncOf(u, 1), 0)
<1>1. hub \in HubStates
  <2>1. \A u \in Users : EncOf(u, 1) \in Encs
    BY DEF EncOf, Encs
  <2>2. story.first \in [Rooms -> Nat]
    BY ExchangeConstants DEF Init, IsStory
  <2>3. NoRoom \in Places
    BY DEF Places
  <2> QED BY <2>1, <2>2, <2>3 DEF Init, HubStates
<1>2. /\ k = [u \in Users |-> new(u)] /\ story \in Stories
      /\ events = [u \in Users |-> <<>>] /\ reply = [u \in Users |-> Idle]
      /\ unsent = [u \in Users |-> [t \in Tasks |-> <<>>]] /\ pubs = [u \in Users |-> <<>>]
      /\ belonged = [u \in Users |-> {}] /\ knows = [u \in Users |-> {}]
      /\ sentUnder = [u \in Users |-> {}]
  BY DEF Init
<1>3. <<>> \in Seq(Events) /\ <<>> \in Seq(Requests) /\ Idle \in Replies
  BY DEF Replies
<1>4. ExchangeTypes
  BY <1>1, <1>2, <1>3 DEF ExchangeTypes
<1>5. ASSUME NEW u \in Users PROVE KeysFit(u, k, sentUnder, belonged)
  <2>1. /\ new(u) = [f \in Fields |-> new(u)[f]] /\ new(u).room = NoRoom /\ new(u).epoch = 0
        /\ new(u).enc = EncOf(u, 1) /\ new(u).made = 0 /\ new(u).secret = 0 /\ new(u).peers = {}
        /\ new(u).roomPeers = {} /\ new(u).stashed = NoStash /\ new(u).out = <<>>
        /\ new(u).early = {} /\ new(u).received = {}
    BY DEF New, Fields
  <2>2. k[u] = new(u) /\ sentUnder[u] = {}
    BY <1>2
  <2> HIDE DEF new
  <2>3. Informed(k[u], belonged)
    <3>1. EncOf(u, 1) \in Encs
      BY DEF EncOf, Encs
    <3>2. NoRoom \in Places /\ \A r, e : Listed(belonged, r, e, {})
      BY DEF Places, Listed
    <3>3. 0 \in Nat /\ 0 \in 0..0
      OBVIOUS
    <3> QED BY ONLY <1>3, <2>1, <2>2, <3>1, <3>2, <3>3 DEF Informed
  <2> QED BY <2>1, <2>2, <2>3 DEF KeysFit
<1>6. ASSUME NEW u \in Users
      PROVE  /\ QueueFits(events[u], k, sentUnder, belonged) /\ ReplyFits(reply[u], belonged)
             /\ \A t \in Tasks : SealedFit(unsent[u][t], k, sentUnder, belonged)
             /\ SealedFit(pubs[u], k, sentUnder, belonged)
             /\ KnownFit(u, knows[u], k, sentUnder, belonged)
  <2>1. QueueFits(<<>>, k, sentUnder, belonged) /\ SealedFit(<<>>, k, sentUnder, belonged)
    BY QueueOfOne, SealedEmpty DEF SealedFit
  <2>2. ReplyFits(Idle, belonged) /\ KnownFit(u, {}, k, sentUnder, belonged)
    BY DEF Idle, ReplyFits, KnownFit
  <2> QED BY <1>2, <2>1, <2>2
<1> QED BY <1>4, <1>5, <1>6 DEF ExchangeInv

\* Every step keeps it.
LEMMA ExchangeStep ==
  ASSUME ExchangeInv, [Next]_vars
  PROVE  ExchangeInv'
<1>1. CASE UNCHANGED vars
  BY <1>1 DEF vars, ExchangeInv, ExchangeTypes
<1>2. CASE Next
  <2>1. UNCHANGED story /\ AnyRoom \subseteq Places
    BY <1>2, ExchangeConstants DEF Next, AnyRoom, Places, ExchangeInv, ExchangeTypes, IsStory
  <2>2. PICK u \in Users :
          \/ \E r \in AnyRoom : Join(u, r) \/ Reconnect(u, r)
          \/ Kick(u) \/ SetShare(u) \/ Renew(u) \/ SetEncryptionKey(u) \/ PublishKey(u)
          \/ ApplyReply(u) \/ ApplyWelcome(u) \/ Pump(u) \/ Kicked(u)
          \/ \E t \in Tasks : Sends(u, t)
    BY <1>2 DEF Next
  <2>3. CASE \E r \in AnyRoom : Join(u, r) \/ Reconnect(u, r)
    BY <2>1, <2>3, JoinKeeps, ReconnectKeeps
  <2>4. CASE Kick(u) \/ SetShare(u) \/ Renew(u) \/ SetEncryptionKey(u) \/ PublishKey(u)
    BY <2>1, <2>4, KickKeeps, SetShareKeeps, RenewKeeps, SetEncryptionKeyKeeps, PublishKeyKeeps
  <2>5. CASE ApplyReply(u) \/ ApplyWelcome(u) \/ Pump(u) \/ Kicked(u)
    BY <2>1, <2>5, ApplyReplyKeeps, ApplyWelcomeKeeps, PumpKeeps, KickedKeeps
  <2>6. CASE \E t \in Tasks : Sends(u, t)
    BY <2>1, <2>6, SendsKeeps
  <2> QED BY <2>2, <2>3, <2>4, <2>5, <2>6
<1> QED BY <1>1, <1>2

\* Whoever ever unwraps a secret that a client sent under was a member of its room in every
\* epoch that it was sent under in: a newcomer can't decrypt what came before, nor a leaver
\* what comes after, in whichever order replies, events and held up requests are applied
\* (start_epoch, wrap_for_new_peers, sender_key, apply_placement in keys.rs).
THEOREM OnlyMembersEverKnow == Spec => []OnlyMembersKnow
<1>1. ExchangeInv => OnlyMembersKnow
  <2> SUFFICES ASSUME ExchangeInv, NEW u \in Users, NEW v \in Users, NEW x \in sentUnder[v],
                      <<v, x[1]>> \in knows[u]
               PROVE  <<x[2], x[3]>> \in belonged[u]
    BY DEF OnlyMembersKnow
  <2>1. Entitled(u, v, x[1], k, sentUnder, belonged)
    BY DEF ExchangeInv, KnownFit
  <2>2. PICK r, e : For(k, sentUnder, v, x[1], r, e) /\ <<r, e>> \in belonged[u]
    BY <2>1 DEF Entitled
  <2> QED BY <2>2 DEF For
<1> QED BY <1>1, ExchangeInit, ExchangeStep, PTL DEF Spec
=============================================================================
