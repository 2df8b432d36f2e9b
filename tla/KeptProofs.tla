----------------------------- MODULE KeptProofs -----------------------------
(***************************************************************************)
(* Of what is counted, kept and given back: that the replies of a control  *)
(* stream match their requests, that a server that starts again finds what *)
(* its data directory kept, that the gates count the passes held, and that *)
(* no timing gets past a limit.                                            *)
(*                                                                         *)
(* Of the stream the argument follows a request from place to place: it is *)
(* in one place only, its id was given out once, and whoever waits under   *)
(* that id asked it.  Of the directory it says what a process that got so  *)
(* far may count on, and that no other process takes that away.  Of the    *)
(* gates it says which passes a task holds in each phase, and that whoever *)
(* was turned away would be turned away still.  Of the limits it weighs    *)
(* what is left of an allowance against what it gave away, and the entries *)
(* of a window against the runs it should count.                           *)
(***************************************************************************)
EXTENDS
  Link, DataDir, Admission, Limits,
  FiniteSetTheorems, SequenceTheorems, WellFoundedInduction, TLAPS

-----------------------------------------------------------------------------
(* The control stream. *)

\* What a client writes.
RequestFrames == [kind : {"request"}, id : Nat, ask : Nat]
\* What a server writes.
ReplyFrames == [kind : {"reply"}, id : Nat, ask : Nat, picture : BOOLEAN] \cup {AnEvent}
\* All frames.
Frames == RequestFrames \cup ReplyFrames

\* Types, of what the argument needs.
LinkTypeOK ==
  /\ asker \in [Askers -> {NotAsking} \cup [at : {"send", "wait"}, id : Nat, ask : Nat]
                          \cup [at : {"answered"}, ask : Nat, answer : Nat]]
  /\ nextId \in Nat /\ askCount \in Nat
  /\ waiting \subseteq [id : Nat, by : Askers, ask : Nat]
  /\ outgoing \in Seq(RequestFrames) /\ toServer \in Seq(RequestFrames)
  /\ serverOut \in Seq(ReplyFrames) /\ toClient \in Seq(ReplyFrames)
  /\ shut \in BOOLEAN /\ accused \in BOOLEAN

-----------------------------------------------------------------------------
(* Queues. *)

\* Queue q carries request n, or the reply to it, and it is request a.
Brings(q, n, a) ==
  \E i \in 1..Len(q) : q[i].kind # "event" /\ q[i].id = n /\ q[i].ask = a

\* It carries each request once.
Once(q) ==
  \A i, j \in 1..Len(q) :
    q[i].kind # "event" /\ q[j].kind # "event" /\ q[i].id = q[j].id => i = j

\* An empty queue holds nothing.
LEMMA EmptyQueue ==
  /\ \A n, a : ~Brings(<<>>, n, a)
  /\ Once(<<>>)
  BY DEF Brings, Once

\* A frame put into a queue is what is new there.
LEMMA AppendBrings ==
  ASSUME NEW q \in Seq(Frames), NEW f \in Frames, NEW n, NEW a
  PROVE  Brings(Append(q, f), n, a) <=> Brings(q, n, a) \/ (f.kind # "event" /\ f.id = n /\ f.ask = a)
<1>1. /\ Len(Append(q, f)) = Len(q) + 1 /\ Len(q) \in Nat
      /\ Append(q, f)[Len(q) + 1] = f
      /\ \A i \in 1..Len(q) : Append(q, f)[i] = q[i]
  OBVIOUS
<1>2. \A i \in 1..(Len(q) + 1) : i \in 1..Len(q) \/ i = Len(q) + 1
  BY <1>1
<1>3. 1..Len(q) \subseteq 1..(Len(q) + 1) /\ Len(q) + 1 \in 1..(Len(q) + 1)
  BY <1>1
<1> QED BY <1>1, <1>2, <1>3 DEF Brings

\* One whose id is not there keeps ids apart.
LEMMA AppendOnce ==
  ASSUME NEW q \in Seq(Frames), NEW f \in Frames, Once(q),
         f.kind = "event" \/ \A a : ~Brings(q, f.id, a)
  PROVE  Once(Append(q, f))
<1>1. /\ Len(Append(q, f)) = Len(q) + 1 /\ Len(q) \in Nat
      /\ Append(q, f)[Len(q) + 1] = f
      /\ \A i \in 1..Len(q) : Append(q, f)[i] = q[i]
  OBVIOUS
<1>2. \A i \in 1..(Len(q) + 1) : i \in 1..Len(q) \/ i = Len(q) + 1
  BY <1>1
<1>3. \A i \in 1..Len(q) : f.kind # "event" /\ q[i].kind # "event" => q[i].id # f.id
  BY DEF Brings
<1> QED BY <1>1, <1>2, <1>3 DEF Once

\* A queue without its head holds the rest, and no longer what its head was.
LEMMA TailBrings ==
  ASSUME NEW q \in Seq(Frames), q # <<>>
  PROVE  /\ \A n, a : Brings(Tail(q), n, a) => Brings(q, n, a)
         /\ Head(q).kind # "event" => Brings(q, Head(q).id, Head(q).ask)
         /\ Once(q) => Once(Tail(q))
         /\ Once(q) /\ Head(q).kind # "event" => \A a : ~Brings(Tail(q), Head(q).id, a)
<1>1. /\ Len(q) \in Nat /\ Len(q) > 0 /\ Head(q) = q[1] /\ Len(Tail(q)) = Len(q) - 1
      /\ \A i \in 1..(Len(q) - 1) : Tail(q)[i] = q[i + 1]
  OBVIOUS
<1>2. /\ 1 \in 1..Len(q)
      /\ \A i \in 1..(Len(q) - 1) : i + 1 \in 1..Len(q) /\ i + 1 # 1
  BY <1>1
<1>3. \A n, a : Brings(Tail(q), n, a) => Brings(q, n, a)
  BY <1>1, <1>2 DEF Brings
<1>4. Head(q).kind # "event" => Brings(q, Head(q).id, Head(q).ask)
  BY <1>1, <1>2 DEF Brings
<1>5. ASSUME Once(q) PROVE Once(Tail(q))
  BY <1>1, <1>2, <1>5 DEF Once
<1>6. ASSUME Once(q), Head(q).kind # "event", NEW a PROVE ~Brings(Tail(q), Head(q).id, a)
  BY <1>1, <1>2, <1>6 DEF Once, Brings
<1> QED BY <1>3, <1>4, <1>5, <1>6

-----------------------------------------------------------------------------
(* Where requests are. *)

\* Where a request or its reply can be.
Places == {"send", "outgoing", "toServer", "serverOut", "toClient"}

\* Request a, whose id is n, is at p: about to be queued by its asker, or it or its reply is in
\* one of the queues.
At(p, n, a) ==
  \/ p = "send" /\ \E t \in Askers : asker[t].at = "send" /\ asker[t].id = n /\ asker[t].ask = a
  \/ p = "outgoing" /\ Brings(outgoing, n, a)
  \/ p = "toServer" /\ Brings(toServer, n, a)
  \/ p = "serverOut" /\ Brings(serverOut, n, a)
  \/ p = "toClient" /\ Brings(toClient, n, a)

\* All requests that are somewhere, each with its place.
Carried == {c \in Places \X Nat \X Nat : At(c[1], c[2], c[3])}

\* The requests of C are in one place each and were given out before id n, the waiters of W with
\* their ids wait for just these requests, and unless s nobody else has taken their waiters away.
Settled(C, W, s, n) ==
  /\ \A p, m, a : <<p, m, a>> \in C => m < n
  /\ \A p, q, m, a, b : <<p, m, a>> \in C /\ <<q, m, b>> \in C => p = q
  /\ \A p, m, a : <<p, m, a>> \in C => \A w \in W : w.id = m => w.ask = a
  /\ ~s => \A p, m, a : <<p, m, a>> \in C => \E w \in W : w.id = m

\* No two askers send under one id, and no queue carries an id twice.
NoDuplicates ==
  /\ \A t, u \in Askers :
       asker[t].at = "send" /\ asker[u].at = "send" /\ asker[t].id = asker[u].id => t = u
  /\ Once(outgoing) /\ Once(toServer) /\ Once(serverOut) /\ Once(toClient)

\* The inductive invariant.
LinkInv ==
  /\ LinkTypeOK
  /\ RepliesMatch
  /\ NoDuplicates
  /\ Settled(Carried, waiting, shut, nextId)

\* What is carried is at its place.
LEMMA InCarried ==
  \A p, n, a : <<p, n, a>> \in Carried <=> p \in Places /\ n \in Nat /\ a \in Nat /\ At(p, n, a)
  BY DEF Carried

\* The queues hold frames.
LEMMA QueueTypes ==
  ASSUME LinkTypeOK
  PROVE  /\ outgoing \in Seq(Frames) /\ toServer \in Seq(Frames)
         /\ serverOut \in Seq(Frames) /\ toClient \in Seq(Frames)
  BY DEF LinkTypeOK, Frames

\* What is at its place has a natural id and number.
LEMMA AtTypes ==
  ASSUME LinkTypeOK, NEW p, NEW n, NEW a, At(p, n, a)
  PROVE  <<p, n, a>> \in Carried
<1>1. p \in Places
  BY DEF At, Places
<1>2. ASSUME NEW q \in Seq(Frames), Brings(q, n, a)
      PROVE  n \in Nat /\ a \in Nat
  BY <1>2 DEF Brings, Frames, RequestFrames, ReplyFrames, AnEvent
<1>3. ASSUME NEW t \in Askers, asker[t].at = "send"
      PROVE  asker[t].id \in Nat /\ asker[t].ask \in Nat
  BY <1>3 DEF LinkTypeOK, NotAsking
<1>4. n \in Nat /\ a \in Nat
  BY <1>2, <1>3, QueueTypes DEF At
<1> QED BY <1>1, <1>4, InCarried

\* Requests may go out of sight, and those that wait for none of the rest give up.
LEMMA StaysSettled ==
  ASSUME NEW C, NEW D, NEW W, NEW V, NEW s, NEW n \in Nat, Settled(C, W, s, n),
         D \subseteq C, V \subseteq W,
         \A w \in W \ V : \A p, a : <<p, w.id, a>> \notin D
  PROVE  Settled(D, V, s, n) 
  BY DEF Settled

\* From C to D the request a, under id m, goes from one place to another, and no other appears.
Moved(C, D, from, to, m, a) ==
  /\ <<from, m, a>> \in C
  /\ \A p, k, b : <<p, k, b>> \in D => <<p, k, b>> \in C \/ (p = to /\ k = m /\ b = a)
  /\ \A b : <<from, m, b>> \notin D

\* What goes on from place to place stays settled.
LEMMA MovesSettled ==
  ASSUME NEW C, NEW D, NEW W, NEW s, NEW n \in Nat, Settled(C, W, s, n),
         NEW from, NEW to, NEW m, NEW a, Moved(C, D, from, to, m, a)
  PROVE  Settled(D, W, s, n)
  BY DEF Settled, Moved

\* The places after a step.
LEMMA CarriedAfter ==
  \A p, n, a : <<p, n, a>> \in Carried' =>
    \/ p = "send" /\ \E t \in Askers : asker'[t].at = "send" /\ asker'[t].id = n /\ asker'[t].ask = a
    \/ p = "outgoing" /\ Brings(outgoing', n, a)
    \/ p = "toServer" /\ Brings(toServer', n, a)
    \/ p = "serverOut" /\ Brings(serverOut', n, a)
    \/ p = "toClient" /\ Brings(toClient', n, a)
  BY DEF Carried, At

-----------------------------------------------------------------------------
(* Types. *)

\* The types hold of a new stream.
LEMMA LinkTypeInit == LinkInit => LinkTypeOK
<1> SUFFICES ASSUME LinkInit PROVE LinkTypeOK
  OBVIOUS
<1>1. asker \in [Askers -> {NotAsking} \cup [at : {"send", "wait"}, id : Nat, ask : Nat]
                          \cup [at : {"answered"}, ask : Nat, answer : Nat]]
  BY DEF LinkInit
<1>2. \A S : <<>> \in Seq(S)
  OBVIOUS
<1> QED BY <1>1, <1>2 DEF LinkInit, LinkTypeOK

\* Every step keeps the types.
LEMMA LinkTypeStep ==
  ASSUME LinkTypeOK, [LinkNext]_linkVars
  PROVE  LinkTypeOK'
<1> USE DEF LinkTypeOK
<1>1. CASE \E t \in Askers : Asks(t)
  <2> PICK t \in Askers : Asks(t)
    BY <1>1
  <2>1. [at |-> "send", id |-> nextId, ask |-> askCount] \in [at : {"send", "wait"}, id : Nat, ask : Nat]
    OBVIOUS
  <2>2. [id |-> nextId, by |-> t, ask |-> askCount] \in [id : Nat, by : Askers, ask : Nat]
    OBVIOUS
  <2>3. NextId(nextId) \in Nat /\ askCount' \in Nat
    BY DEF Asks, NextId
  <2>4. asker' \in [Askers -> {NotAsking} \cup [at : {"send", "wait"}, id : Nat, ask : Nat]
                              \cup [at : {"answered"}, ask : Nat, answer : Nat]]
    BY <2>1 DEF Asks
  <2> QED BY <2>2, <2>3, <2>4 DEF Asks
<1>2. CASE \E t \in Askers : Unsendable(t)
  BY <1>2 DEF Unsendable
<1>3. CASE \E t \in Askers : Queues(t)
  <2> PICK t \in Askers : Queues(t)
    BY <1>3
  <2>1. asker[t] \in [at : {"send", "wait"}, id : Nat, ask : Nat]
    BY DEF Queues, NotAsking
  <2>2. Request(asker[t].id, asker[t].ask) \in RequestFrames
    BY <2>1 DEF Request, RequestFrames
  <2>3. [asker[t] EXCEPT !.at = "wait"] \in [at : {"send", "wait"}, id : Nat, ask : Nat]
    BY <2>1
  <2>4. asker' \in [Askers -> {NotAsking} \cup [at : {"send", "wait"}, id : Nat, ask : Nat]
                              \cup [at : {"answered"}, ask : Nat, answer : Nat]]
    BY <2>3 DEF Queues
  <2>5. Append(outgoing, Request(asker[t].id, asker[t].ask)) \in Seq(RequestFrames)
    BY <2>2
  <2> QED BY <2>4, <2>5 DEF Queues
<1>4. CASE \E t \in Askers : TimesOut(t) \/ RequestOver(t)
  BY <1>4 DEF TimesOut, RequestOver, StillWaiting
<1>5. CASE Writes
  BY <1>5 DEF Writes
<1>6. CASE WriteFails \/ ReadFails
  <2>1. \A S : <<>> \in Seq(S)
    OBVIOUS
  <2> QED BY <1>6, <2>1 DEF WriteFails, ReadFails, Shuts
<1>7. CASE ReadsReply
  <2>1. toClient' \in Seq(ReplyFrames) /\ Head(toClient) \in ReplyFrames
    BY <1>7 DEF ReadsReply
  <2>2. Head(toClient).ask \in Nat
    BY <1>7, <2>1 DEF ReadsReply, ReplyFrames, AnEvent
  <2>3. ASSUME NEW w \in waiting
        PROVE  Delivered(w, Head(toClient)) \in
                 [Askers -> {NotAsking} \cup [at : {"send", "wait"}, id : Nat, ask : Nat]
                            \cup [at : {"answered"}, ask : Nat, answer : Nat]]
    BY <2>2 DEF Delivered
  <2> QED BY <1>7, <2>1, <2>3 DEF ReadsReply, Shuts
<1>8. CASE ReadsEvent
  BY <1>8 DEF ReadsEvent
<1>9. CASE Pumps \/ SessionTakes \/ GoesDown
  BY <1>9 DEF Pumps, SessionTakes, GoesDown
<1>10. CASE \E picture \in BOOLEAN : Serves(picture)
  <2> PICK picture \in BOOLEAN : Serves(picture)
    BY <1>10
  <2>1. Head(toServer) \in RequestFrames
    BY DEF Serves
  <2>2. Frame(Head(toServer).id, Head(toServer).ask, picture) \in ReplyFrames
    BY <2>1 DEF Frame, RequestFrames, ReplyFrames
  <2> QED BY <2>2 DEF Serves
<1>11. CASE Emits
  <2>1. AnEvent \in ReplyFrames
    BY DEF ReplyFrames
  <2>2. Append(serverOut, AnEvent) \in Seq(ReplyFrames)
    BY <2>1
  <2> QED BY <1>11, <2>2 DEF Emits
<1>12. CASE ServerWrites
  BY <1>12 DEF ServerWrites
<1>13. CASE UNCHANGED linkVars
  BY <1>13 DEF linkVars
<1> QED BY <1>1, <1>2, <1>3, <1>4, <1>5, <1>6, <1>7, <1>8, <1>9, <1>10, <1>11, <1>12, <1>13
        DEF LinkNext

-----------------------------------------------------------------------------
(* Steps. *)

\* A step that takes no request anywhere, fails no waiter and answers nobody changes nothing the
\* invariant speaks of but places that become empty.
LEMMA LinkCalm ==
  ASSUME LinkInv, LinkTypeOK', UNCHANGED <<waiting, shut, nextId, accused>>,
         \A t \in Askers : asker'[t] = asker[t] \/ asker'[t] = NotAsking \/
                            (asker[t].at = "wait" /\ asker'[t].at = "wait"),
         UNCHANGED <<outgoing, toServer, serverOut>> ,
         toClient' = toClient \/ (toClient # <<>> /\ toClient' = Tail(toClient))
  PROVE  LinkInv'
<1>1. \A n, a : Brings(toClient', n, a) => Brings(toClient, n, a)
  BY ZenonT(60), TailBrings, QueueTypes DEF LinkInv
<1>2. Once(toClient')
  BY TailBrings, QueueTypes DEF LinkInv, NoDuplicates
<1>3. \A t \in Askers : asker'[t].at = "send" => asker'[t] = asker[t]
  BY DEF NotAsking
<1>4. \A t \in Askers : asker'[t].at = "answered" => asker'[t] = asker[t]
  BY DEF NotAsking
<1>5. Carried' \subseteq Carried
  <2> SUFFICES ASSUME NEW c \in Carried' PROVE c \in Carried
    OBVIOUS
  <2>1. PICK p, n, a : c = <<p, n, a>>
    BY DEF Carried
  <2>2. At(p, n, a)
    BY <1>1, <1>3, <2>1, CarriedAfter DEF At
  <2> QED BY <2>1, <2>2, AtTypes DEF LinkInv
<1>6. Settled(Carried', waiting', shut', nextId')
  BY <1>5, StaysSettled DEF LinkInv, LinkTypeOK
<1>7. NoDuplicates'
  BY <1>2, <1>3 DEF LinkInv, NoDuplicates
<1>8. RepliesMatch'
  BY <1>4 DEF LinkInv, RepliesMatch, OwnAnswer, NeverAccused, ClosedFailsAll
<1> QED BY <1>6, <1>7, <1>8 DEF LinkInv

\* A new request has an id that is nowhere (Pending::register).
LEMMA AsksKeeps ==
  ASSUME LinkInv, LinkTypeOK', NEW t \in Askers, Asks(t)
  PROVE  LinkInv'
<1>0. CASE ~(MayRegister /\ NextId(nextId) <= LastId)
  BY <1>0, LinkCalm DEF Asks
<1> SUFFICES ASSUME MayRegister, NextId(nextId) <= LastId PROVE LinkInv'
  BY <1>0
<1> DEFINE new == [at |-> "send", id |-> nextId, ask |-> askCount]
<1>1. /\ asker' = [asker EXCEPT ![t] = new] /\ asker[t] = NotAsking
      /\ waiting' = {w \in waiting : w.id # nextId} \cup {[id |-> nextId, by |-> t, ask |-> askCount]}
      /\ nextId' = nextId + 1 /\ nextId \in Nat
      /\ UNCHANGED <<shut, outgoing, toServer, serverOut, toClient, accused>>
  BY DEF Asks, NextId, LinkInv, LinkTypeOK
<1>2. \A u \in Askers : asker'[u] = IF u = t THEN new ELSE asker[u]
  BY <1>1 DEF LinkInv, LinkTypeOK
<1>3. \A p, n, a : <<p, n, a>> \in Carried' =>
        <<p, n, a>> \in Carried \/ (p = "send" /\ n = nextId /\ a = askCount)
  <2> SUFFICES ASSUME NEW p, NEW n, NEW a, <<p, n, a>> \in Carried'
               PROVE  At(p, n, a) \/ (p = "send" /\ n = nextId /\ a = askCount)
    BY AtTypes DEF LinkInv
  <2> QED BY <1>1, <1>2, CarriedAfter DEF At
<1>4. \A p, a : <<p, nextId, a>> \notin Carried
  BY <1>1 DEF LinkInv, Settled
<1>5. Settled(Carried', waiting', shut', nextId')
  <2>1. \A p, m, a : <<p, m, a>> \in Carried' => m < nextId + 1
    <3> SUFFICES ASSUME NEW p, NEW m, NEW a, <<p, m, a>> \in Carried' PROVE m < nextId + 1
      OBVIOUS
    <3>1. m \in Nat
      BY DEF Carried
    <3> QED BY <1>1, <1>3, <3>1 DEF LinkInv, Settled
  <2>2. \A p, q, m, a, b : <<p, m, a>> \in Carried' /\ <<q, m, b>> \in Carried' => p = q
    BY <1>3, <1>4 DEF LinkInv, Settled
  <2>3. \A p, m, a : <<p, m, a>> \in Carried' => \A w \in waiting' : w.id = m => w.ask = a
    BY <1>1, <1>3, <1>4 DEF LinkInv, Settled
  <2>4. ~shut' => \A p, m, a : <<p, m, a>> \in Carried' => \E w \in waiting' : w.id = m
    <3> SUFFICES ASSUME ~shut, NEW p, NEW m, NEW a, <<p, m, a>> \in Carried'
                 PROVE  \E w \in waiting' : w.id = m
      BY <1>1
    <3>1. CASE m = nextId
      <4> DEFINE w == [id |-> nextId, by |-> t, ask |-> askCount]
      <4>1. w.id = nextId
        OBVIOUS
      <4>2. w \in waiting'
        BY <1>1
      <4> HIDE DEF w
      <4> QED BY <3>1, <4>1, <4>2
    <3>2. CASE m # nextId
      <4>1. PICK w \in waiting : w.id = m
        BY <1>3, <3>2 DEF LinkInv, Settled
      <4> QED BY <1>1, <3>2, <4>1
    <3> QED BY <3>1, <3>2
  <2> QED BY <1>1, <2>1, <2>2, <2>3, <2>4 DEF Settled
<1>6. \A u \in Askers : asker[u].at = "send" => asker[u].id # nextId
  <2> SUFFICES ASSUME NEW u \in Askers, asker[u].at = "send" PROVE asker[u].id # nextId
    OBVIOUS
  <2>1. At("send", asker[u].id, asker[u].ask)
    BY DEF At
  <2> QED BY <2>1, <1>4, AtTypes DEF LinkInv
<1>7. NoDuplicates'
  BY <1>1, <1>2, <1>6 DEF LinkInv, NoDuplicates
<1>8. RepliesMatch'
  BY <1>1, <1>2 DEF LinkInv, RepliesMatch, OwnAnswer, NeverAccused, ClosedFailsAll, MayRegister
<1> QED BY <1>5, <1>7, <1>8 DEF LinkInv

\* The asker is done with its request before it has been queued.
LEMMA UnsentKeeps ==
  ASSUME LinkInv, LinkTypeOK', NEW t \in Askers, asker[t].at = "send",
         asker' = [asker EXCEPT ![t] = NotAsking],
         waiting' = {w \in waiting : w.id # asker[t].id},
         UNCHANGED <<nextId, shut, outgoing, toServer, serverOut, toClient, accused>>
  PROVE  LinkInv'
<1>1. \A u \in Askers : asker'[u] = IF u = t THEN NotAsking ELSE asker[u]
  BY DEF LinkInv, LinkTypeOK
<1>2. \A u \in Askers : asker'[u].at \in {"send", "answered"} => u # t /\ asker'[u] = asker[u]
  BY <1>1 DEF NotAsking
<1>3. At("send", asker[t].id, asker[t].ask)
  BY DEF At
<1>4. \A p, n, a : <<p, n, a>> \in Carried' => <<p, n, a>> \in Carried /\ n # asker[t].id
  <2> SUFFICES ASSUME NEW p, NEW n, NEW a, <<p, n, a>> \in Carried'
               PROVE  At(p, n, a) /\ n # asker[t].id
    BY AtTypes DEF LinkInv
  <2>1. At(p, n, a)
    BY <1>2, CarriedAfter DEF At
  <2>2. CASE p = "send"
    <3>1. PICK u \in Askers : asker'[u].at = "send" /\ asker'[u].id = n
      BY <2>2, CarriedAfter
    <3> QED BY <2>1, <3>1, <1>2 DEF LinkInv, NoDuplicates
  <2>3. CASE p # "send"
    <3>1. <<p, n, a>> \in Carried /\ <<"send", asker[t].id, asker[t].ask>> \in Carried
      BY <2>1, <1>3, AtTypes DEF LinkInv
    <3> QED BY <2>1, <2>3, <3>1 DEF LinkInv, Settled
  <2> QED BY <2>1, <2>2, <2>3
<1>5. Carried' \subseteq Carried
  BY <1>4 DEF Carried
<1>6. Settled(Carried', waiting', shut', nextId')
  BY <1>4, <1>5, StaysSettled DEF LinkInv, LinkTypeOK
<1>7. NoDuplicates'
  BY <1>2 DEF LinkInv, NoDuplicates
<1>8. RepliesMatch'
  BY <1>2 DEF LinkInv, RepliesMatch, OwnAnswer, NeverAccused, ClosedFailsAll
<1> QED BY <1>6, <1>7, <1>8 DEF LinkInv

\* The request goes from its asker to the queue of requests (Requester::request).
LEMMA QueuesKeeps ==
  ASSUME LinkInv, LinkTypeOK', NEW t \in Askers, Queues(t)
  PROVE  LinkInv'
<1>0. CASE UNCHANGED outgoing
  <2>1. asker' = [asker EXCEPT ![t] = NotAsking]
    <3>1. outgoing \in Seq(RequestFrames)
      BY DEF LinkInv, LinkTypeOK
    <3>2. Append(outgoing, Request(asker[t].id, asker[t].ask)) # outgoing
      <4>1. Len(outgoing) \in Nat
        BY <3>1
      <4> HIDE DEF Request
      <4>2. Len(Append(outgoing, Request(asker[t].id, asker[t].ask))) = Len(outgoing) + 1
        BY <3>1
      <4> QED BY <4>1, <4>2
    <3> QED BY <1>0, <3>2 DEF Queues
  <2> QED BY <1>0, <2>1, LinkCalm DEF Queues, LinkInv, LinkTypeOK
<1>1. CASE ~UNCHANGED outgoing
  <2> DEFINE f == Request(asker[t].id, asker[t].ask)
  <2>0. /\ outgoing' = Append(outgoing, f) /\ asker' = [asker EXCEPT ![t].at = "wait"]
        /\ asker[t].at = "send"
        /\ UNCHANGED <<nextId, waiting, shut, toServer, serverOut, toClient, accused>>
    BY <1>1 DEF Queues
  <2>1. f \in Frames /\ f.kind # "event" /\ f.id = asker[t].id /\ f.ask = asker[t].ask
    BY <2>0 DEF Request, Frames, RequestFrames, LinkInv, LinkTypeOK, NotAsking
  <2> HIDE DEF f
  <2>2. \A u \in Askers : u # t => asker'[u] = asker[u]
    BY <2>0 DEF LinkInv, LinkTypeOK
  <2>3. asker'[t].at = "wait"
    BY <2>0 DEF LinkInv, LinkTypeOK
  <2>4. <<"send", f.id, f.ask>> \in Carried
    <3>1. At("send", f.id, f.ask)
      BY <2>0, <2>1 DEF At
    <3> QED BY <3>1, AtTypes DEF LinkInv
  <2>5. \A n, a : Brings(outgoing', n, a) => Brings(outgoing, n, a) \/ (n = f.id /\ a = f.ask)
    BY <2>0, <2>1, AppendBrings, QueueTypes DEF LinkInv
  <2>6. \A p, n, a : <<p, n, a>> \in Carried' =>
          <<p, n, a>> \in Carried \/ (p = "outgoing" /\ n = f.id /\ a = f.ask)
    <3> SUFFICES ASSUME NEW p, NEW n, NEW a, <<p, n, a>> \in Carried'
                 PROVE  At(p, n, a) \/ (p = "outgoing" /\ n = f.id /\ a = f.ask)
      BY AtTypes DEF LinkInv
    <3> QED BY <2>0, <2>2, <2>3, <2>5, CarriedAfter DEF At
  <2>7. \A b : <<"send", f.id, b>> \notin Carried'
    BY <2>0, <2>1, <2>2, <2>3, CarriedAfter DEF LinkInv, NoDuplicates
  <2>8. Settled(Carried', waiting', shut', nextId')
    <3>1. Settled(Carried, waiting, shut, nextId) /\ nextId \in Nat
      BY DEF LinkInv, LinkTypeOK
    <3>2. Moved(Carried, Carried', "send", "outgoing", f.id, f.ask)
      BY <2>4, <2>6, <2>7 DEF Moved
    <3>3. Settled(Carried', waiting, shut, nextId)
      BY <3>1, <3>2, MovesSettled
    <3> QED BY <2>0, <3>3
  <2>9. \A a : ~Brings(outgoing, f.id, a)
    <3> SUFFICES ASSUME NEW a, Brings(outgoing, f.id, a) PROVE FALSE
      OBVIOUS
    <3>1. <<"outgoing", f.id, a>> \in Carried
      BY AtTypes DEF At, LinkInv
    <3> QED BY <2>4, <3>1 DEF LinkInv, Settled
  <2>10. Once(outgoing')
    BY <2>0, <2>1, <2>9, AppendOnce, QueueTypes DEF LinkInv, NoDuplicates
  <2>11. NoDuplicates'
    BY <2>0, <2>2, <2>3, <2>10 DEF LinkInv, NoDuplicates
  <2>12. RepliesMatch'
    BY <2>0, <2>2, <2>3 DEF LinkInv, RepliesMatch, OwnAnswer, NeverAccused, ClosedFailsAll
  <2> QED BY <2>8, <2>11, <2>12 DEF LinkInv
<1> QED BY <1>0, <1>1

\* A frame goes from the head of one queue to the end of another, as itself or as the reply to it;
\* an event does so too.
LEMMA PassedOn ==
  ASSUME LinkInv, LinkTypeOK', NEW from \in Places, NEW to \in Places, from # to,
         NEW q \in Seq(Frames), NEW r \in Seq(Frames), NEW f \in Frames, q # <<>>, Once(q), Once(r),
         \A n, a : At(from, n, a) <=> Brings(q, n, a),
         \A n, a : At(to, n, a) <=> Brings(r, n, a),
         f.kind = "event" <=> Head(q).kind = "event",
         f.kind # "event" => f.id = Head(q).id /\ f.ask = Head(q).ask,
         \A p, n, a : <<p, n, a>> \in Carried' =>
           \/ p \notin {from, to} /\ At(p, n, a)
           \/ p = from /\ Brings(Tail(q), n, a)
           \/ p = to /\ Brings(Append(r, f), n, a),
         UNCHANGED <<waiting, shut, nextId>>
  PROVE  /\ Once(Tail(q)) /\ Once(Append(r, f))
         /\ Settled(Carried', waiting', shut', nextId')
<1>0. Settled(Carried, waiting, shut, nextId) /\ nextId \in Nat
  BY DEF LinkInv, LinkTypeOK
<1>1. \A n, a : Brings(Append(r, f), n, a) => Brings(r, n, a) \/ (f.kind # "event" /\ f.id = n /\ f.ask = a)
  BY AppendBrings
<1>2. \A p, n, a : At(p, n, a) => <<p, n, a>> \in Carried
  BY AtTypes DEF LinkInv
<1>3. \A p, n, a : <<p, n, a>> \in Carried' =>
        <<p, n, a>> \in Carried \/ (f.kind # "event" /\ p = to /\ n = f.id /\ a = f.ask)
  BY <1>1, <1>2, TailBrings
<1>4. Once(Tail(q))
  BY TailBrings
<1>5. CASE f.kind = "event"
  <2>1. Once(Append(r, f))
    BY <1>5, AppendOnce
  <2>2. Carried' \subseteq Carried
    BY <1>3, <1>5 DEF Carried
  <2>3. Settled(Carried', waiting, shut, nextId)
    BY <2>2, <1>0, StaysSettled
  <2> QED BY <1>4, <2>1, <2>3
<1>6. CASE f.kind # "event"
  <2>1. <<from, f.id, f.ask>> \in Carried
    BY <1>2, <1>6, TailBrings
  <2>2. \A b : <<from, f.id, b>> \notin Carried'
    BY <1>6, TailBrings
  <2>3. Settled(Carried', waiting, shut, nextId)
    <3>1. Moved(Carried, Carried', from, to, f.id, f.ask)
      BY <1>3, <2>1, <2>2 DEF Moved
    <3> QED BY <1>0, <3>1, MovesSettled
  <2>4. \A a : ~Brings(r, f.id, a)
    <3> SUFFICES ASSUME NEW a, Brings(r, f.id, a) PROVE FALSE
      OBVIOUS
    <3>1. <<to, f.id, a>> \in Carried
      BY <1>2
    <3> QED BY <1>0, <2>1, <3>1 DEF Settled
  <2>5. Once(Append(r, f))
    BY <2>4, AppendOnce
  <2> QED BY <1>4, <2>3, <2>5
<1> QED BY <1>5, <1>6

\* The writer puts it on the stream (spawn_link).
LEMMA WritesKeeps ==
  ASSUME LinkInv, LinkTypeOK', Writes
  PROVE  LinkInv'
<1>1. outgoing \in Seq(Frames) /\ toServer \in Seq(Frames)
  BY QueueTypes DEF LinkInv
<1>2. /\ outgoing # <<>> /\ outgoing' = Tail(outgoing) /\ toServer' = Append(toServer, Head(outgoing))
      /\ UNCHANGED <<asker, waiting, shut, nextId, serverOut, toClient, accused>>
  BY DEF Writes
<1>3. Head(outgoing) \in Frames
  BY <1>1, <1>2
<1>4. \A p, n, a : <<p, n, a>> \in Carried' =>
        \/ p \notin {"outgoing", "toServer"} /\ At(p, n, a)
        \/ p = "outgoing" /\ Brings(Tail(outgoing), n, a)
        \/ p = "toServer" /\ Brings(Append(toServer, Head(outgoing)), n, a)
  BY <1>2, CarriedAfter DEF At
<1>5. /\ Once(Tail(outgoing)) /\ Once(Append(toServer, Head(outgoing)))
      /\ Settled(Carried', waiting', shut', nextId')
  <2>1. /\ \A n, a : At("outgoing", n, a) <=> Brings(outgoing, n, a)
        /\ \A n, a : At("toServer", n, a) <=> Brings(toServer, n, a)
    BY DEF At
  <2>2. Once(outgoing) /\ Once(toServer)
    BY DEF LinkInv, NoDuplicates
  <2>3. "outgoing" \in Places /\ "toServer" \in Places
    BY DEF Places
  <2> QED BY <1>1, <1>2, <1>3, <1>4, <2>1, <2>2, <2>3, PassedOn
<1>6. NoDuplicates'
  BY <1>2, <1>5 DEF LinkInv, NoDuplicates
<1>7. RepliesMatch'
  BY <1>2 DEF LinkInv, RepliesMatch, OwnAnswer, NeverAccused, ClosedFailsAll
<1> QED BY <1>5, <1>6, <1>7 DEF LinkInv

\* The server answers it under the same id (read_loop).
LEMMA ServesKeeps ==
  ASSUME LinkInv, LinkTypeOK', NEW picture \in BOOLEAN, Serves(picture)
  PROVE  LinkInv'
<1> DEFINE f == Frame(Head(toServer).id, Head(toServer).ask, picture)
<1>1. toServer \in Seq(Frames) /\ serverOut \in Seq(Frames)
  BY QueueTypes DEF LinkInv
<1>2. /\ toServer # <<>> /\ toServer' = Tail(toServer) /\ serverOut' = Append(serverOut, f)
      /\ UNCHANGED <<asker, waiting, shut, nextId, outgoing, toClient, accused>>
  BY DEF Serves
<1>3. Head(toServer) \in RequestFrames
  BY <1>2 DEF LinkInv, LinkTypeOK
<1>4. /\ f \in Frames /\ f.kind # "event" /\ f.id = Head(toServer).id /\ f.ask = Head(toServer).ask
      /\ Head(toServer).kind # "event"
  BY <1>3 DEF Frame, Frames, RequestFrames, ReplyFrames
<1> HIDE DEF f
<1>5. \A p, n, a : <<p, n, a>> \in Carried' =>
        \/ p \notin {"toServer", "serverOut"} /\ At(p, n, a)
        \/ p = "toServer" /\ Brings(Tail(toServer), n, a)
        \/ p = "serverOut" /\ Brings(Append(serverOut, f), n, a)
  BY <1>2, CarriedAfter DEF At
<1>6. /\ Once(Tail(toServer)) /\ Once(Append(serverOut, f))
      /\ Settled(Carried', waiting', shut', nextId')
  <2>1. /\ \A n, a : At("toServer", n, a) <=> Brings(toServer, n, a)
        /\ \A n, a : At("serverOut", n, a) <=> Brings(serverOut, n, a)
    BY DEF At
  <2>2. Once(toServer) /\ Once(serverOut)
    BY DEF LinkInv, NoDuplicates
  <2>3. "toServer" \in Places /\ "serverOut" \in Places
    BY DEF Places
  <2> QED BY <1>1, <1>2, <1>4, <1>5, <2>1, <2>2, <2>3, PassedOn
<1>7. NoDuplicates'
  BY <1>2, <1>6 DEF LinkInv, NoDuplicates
<1>8. RepliesMatch'
  BY <1>2 DEF LinkInv, RepliesMatch, OwnAnswer, NeverAccused, ClosedFailsAll
<1> QED BY <1>6, <1>7, <1>8 DEF LinkInv

\* The server's writer puts the reply, or an event, on the stream (write_loop).
LEMMA ServerWritesKeeps ==
  ASSUME LinkInv, LinkTypeOK', ServerWrites
  PROVE  LinkInv'
<1>1. serverOut \in Seq(Frames) /\ toClient \in Seq(Frames)
  BY QueueTypes DEF LinkInv
<1>2. /\ serverOut # <<>> /\ serverOut' = Tail(serverOut)
      /\ toClient' = Append(toClient, Head(serverOut))
      /\ UNCHANGED <<asker, waiting, shut, nextId, outgoing, toServer, accused>>
  BY DEF ServerWrites
<1>3. Head(serverOut) \in Frames
  BY <1>1, <1>2
<1>4. \A p, n, a : <<p, n, a>> \in Carried' =>
        \/ p \notin {"serverOut", "toClient"} /\ At(p, n, a)
        \/ p = "serverOut" /\ Brings(Tail(serverOut), n, a)
        \/ p = "toClient" /\ Brings(Append(toClient, Head(serverOut)), n, a)
  BY <1>2, CarriedAfter DEF At
<1>5. /\ Once(Tail(serverOut)) /\ Once(Append(toClient, Head(serverOut)))
      /\ Settled(Carried', waiting', shut', nextId')
  <2>1. /\ \A n, a : At("serverOut", n, a) <=> Brings(serverOut, n, a)
        /\ \A n, a : At("toClient", n, a) <=> Brings(toClient, n, a)
    BY DEF At
  <2>2. Once(serverOut) /\ Once(toClient)
    BY DEF LinkInv, NoDuplicates
  <2>3. "serverOut" \in Places /\ "toClient" \in Places
    BY DEF Places
  <2> QED BY <1>1, <1>2, <1>3, <1>4, <2>1, <2>2, <2>3, PassedOn
<1>6. NoDuplicates'
  BY <1>2, <1>5 DEF LinkInv, NoDuplicates
<1>7. RepliesMatch'
  BY <1>2 DEF LinkInv, RepliesMatch, OwnAnswer, NeverAccused, ClosedFailsAll
<1> QED BY <1>5, <1>6, <1>7 DEF LinkInv

\* The stream has closed: nobody waits any more, and a queue has been dropped.
LEMMA ClosesKeeps ==
  ASSUME LinkInv, LinkTypeOK', Shuts, UNCHANGED <<asker, nextId, accused, toServer, serverOut>>,
         \/ outgoing' = <<>> /\ UNCHANGED toClient
         \/ toClient' = <<>> /\ UNCHANGED outgoing
         \/ toClient # <<>> /\ toClient' = Tail(toClient) /\ UNCHANGED outgoing
  PROVE  LinkInv'
<1>1. /\ \A n, a : Brings(outgoing', n, a) => Brings(outgoing, n, a)
      /\ \A n, a : Brings(toClient', n, a) => Brings(toClient, n, a)
  <2>1. toClient \in Seq(Frames)
    BY QueueTypes DEF LinkInv
  <2>2. toClient # <<>> => \A n, a : Brings(Tail(toClient), n, a) => Brings(toClient, n, a)
    BY <2>1, TailBrings
  <2> QED BY <2>2, EmptyQueue
<1>2. Once(outgoing') /\ Once(toClient')
  BY EmptyQueue, TailBrings, QueueTypes DEF LinkInv, NoDuplicates
<1>3. \A p, n, a : <<p, n, a>> \in Carried' => <<p, n, a>> \in Carried
  <2> SUFFICES ASSUME NEW p, NEW n, NEW a, <<p, n, a>> \in Carried' PROVE At(p, n, a)
    BY AtTypes DEF LinkInv
  <2> QED BY <1>1, CarriedAfter DEF At
<1>4. Settled(Carried', waiting', shut', nextId')
  BY <1>3 DEF LinkInv, Settled, Shuts
<1>5. NoDuplicates'
  BY <1>2 DEF LinkInv, NoDuplicates
<1>6. RepliesMatch'
  BY DEF LinkInv, RepliesMatch, OwnAnswer, NeverAccused, ClosedFailsAll, Shuts
<1> QED BY <1>4, <1>5, <1>6 DEF LinkInv

\* The reader finds who waits for the reply and hands it over: there is one, who asked it, so
\* the server is not accused (spawn_link).
LEMMA ReadsReplyKeeps ==
  ASSUME LinkInv, LinkTypeOK', ReadsReply
  PROVE  LinkInv'
<1> DEFINE frame == Head(toClient)
<1>1. /\ toClient # <<>> /\ toClient' = Tail(toClient) /\ frame.kind = "reply"
      /\ UNCHANGED <<nextId, outgoing, toServer, serverOut>>
  BY DEF ReadsReply
<1>2. toClient \in Seq(Frames)
  BY QueueTypes DEF LinkInv
<1>3. <<"toClient", frame.id, frame.ask>> \in Carried
  <2>1. Brings(toClient, frame.id, frame.ask)
    BY <1>1, <1>2, TailBrings
  <2>2. At("toClient", frame.id, frame.ask)
    BY <2>1 DEF At
  <2> QED BY <2>2, AtTypes DEF LinkInv
<1>4. CASE \E w \in waiting : w.id = frame.id /\ asker' = Delivered(w, frame)
                              /\ waiting' = waiting \ {w} /\ UNCHANGED <<shut, accused>>
  <2> PICK w \in waiting : w.id = frame.id /\ asker' = Delivered(w, frame)
                              /\ waiting' = waiting \ {w} /\ UNCHANGED <<shut, accused>>
    BY <1>4
  <2>1. w.ask = frame.ask /\ w.by \in Askers
    BY SMTT(40), <1>3 DEF LinkInv, Settled, LinkTypeOK
  <2> HIDE DEF frame
  <2>2. \A t \in Askers : asker'[t] = asker[t] \/
          (asker'[t] = [at |-> "answered", ask |-> w.ask, answer |-> frame.ask])
    BY <2>1 DEF Delivered, LinkInv, LinkTypeOK
  <2>3. \A t \in Askers : asker'[t].at = "send" => asker'[t] = asker[t]
    BY <2>2
  <2>4. \A t \in Askers : asker'[t].at = "answered" => asker'[t].answer = asker'[t].ask
    BY <2>1, <2>2 DEF LinkInv, RepliesMatch, OwnAnswer
  <2>5. /\ \A n, a : Brings(toClient', n, a) => Brings(toClient, n, a) /\ n # frame.id
        /\ Once(toClient')
    BY <1>1, <1>2, TailBrings DEF LinkInv, NoDuplicates, frame
  <2>6. \A p, n, a : <<p, n, a>> \in Carried' => <<p, n, a>> \in Carried
    <3> SUFFICES ASSUME NEW p, NEW n, NEW a, <<p, n, a>> \in Carried' PROVE At(p, n, a)
      BY AtTypes DEF LinkInv
    <3> QED BY <1>1, <2>3, <2>5, CarriedAfter DEF At
  <2>7. \A p, a : <<p, frame.id, a>> \notin Carried'
    <3> SUFFICES ASSUME NEW p, NEW a, <<p, frame.id, a>> \in Carried' PROVE FALSE
      OBVIOUS
    <3>1. p = "toClient"
      BY <1>3, <2>6 DEF LinkInv, Settled
    <3> QED BY <2>5, <3>1, CarriedAfter
  <2>8. Settled(Carried', waiting', shut', nextId')
    <3>1. Carried' \subseteq Carried
      BY <2>6 DEF Carried
    <3>2. Settled(Carried, waiting, shut, nextId) /\ nextId \in Nat
      BY DEF LinkInv, LinkTypeOK
    <3>3. \A v \in waiting \ waiting' : \A p, a : <<p, v.id, a>> \notin Carried'
      BY <2>7
    <3>4. Settled(Carried', waiting', shut, nextId)
      BY <3>1, <3>2, <3>3, StaysSettled
    <3> QED BY <1>1, <3>4
  <2>9. NoDuplicates'
    BY <1>1, <2>3, <2>5 DEF LinkInv, NoDuplicates
  <2>10. RepliesMatch'
    BY <2>4 DEF LinkInv, RepliesMatch, OwnAnswer, NeverAccused, ClosedFailsAll
  <2> QED BY <2>8, <2>9, <2>10 DEF LinkInv
<1>5. CASE (\A w \in waiting : w.id # frame.id) /\ accused' = (accused \/ ~shut) /\ Shuts
           /\ UNCHANGED asker
  <2>1. shut
    BY <1>3, <1>5 DEF LinkInv, Settled
  <2>2. UNCHANGED accused
    <3>1. accused = FALSE
      BY DEF LinkInv, RepliesMatch, NeverAccused, LinkTypeOK
    <3> QED BY <1>5, <2>1, <3>1
  <2> QED BY <1>1, <1>5, <2>2, ClosesKeeps
<1> QED BY <1>4, <1>5 DEF ReadsReply

\* An event overtakes no reply and is taken for none.
LEMMA EmitsKeeps ==
  ASSUME LinkInv, LinkTypeOK', Emits
  PROVE  LinkInv'
<1>1. CASE UNCHANGED serverOut
  BY <1>1, LinkCalm DEF Emits
<1>2. CASE serverOut' = Append(serverOut, AnEvent)
  <2>1. AnEvent \in Frames /\ AnEvent.kind = "event"
    BY DEF AnEvent, Frames, ReplyFrames
  <2>2. \A n, a : Brings(serverOut', n, a) => Brings(serverOut, n, a)
    BY <1>2, <2>1, AppendBrings, QueueTypes DEF LinkInv
  <2>3. Once(serverOut')
    BY <1>2, <2>1, AppendOnce, QueueTypes DEF LinkInv, NoDuplicates
  <2>4. UNCHANGED <<asker, nextId, waiting, shut, outgoing, toServer, toClient, accused>>
    BY DEF Emits
  <2>5. \A p, n, a : <<p, n, a>> \in Carried' => <<p, n, a>> \in Carried
    <3> SUFFICES ASSUME NEW p, NEW n, NEW a, <<p, n, a>> \in Carried' PROVE At(p, n, a)
      BY AtTypes DEF LinkInv
    <3> QED BY <2>2, <2>4, CarriedAfter DEF At
  <2>6. Settled(Carried', waiting', shut', nextId')
    BY <2>4, <2>5 DEF LinkInv, Settled
  <2>7. NoDuplicates'
    BY <2>3, <2>4 DEF LinkInv, NoDuplicates
  <2>8. RepliesMatch'
    BY <2>4 DEF LinkInv, RepliesMatch, OwnAnswer, NeverAccused, ClosedFailsAll
  <2> QED BY <2>6, <2>7, <2>8 DEF LinkInv
<1> QED BY <1>1, <1>2 DEF Emits

-----------------------------------------------------------------------------

\* The invariant holds of a new stream.
LEMMA LinkInvInit == LinkInit => LinkInv
<1> SUFFICES ASSUME LinkInit PROVE LinkInv
  OBVIOUS
<1>1. LinkTypeOK
  BY LinkTypeInit
<1>2. \A t \in Askers : asker[t].at = "idle"
  BY DEF LinkInit, NotAsking
<1>3. NoDuplicates
  BY <1>2, EmptyQueue DEF LinkInit, NoDuplicates
<1>4. RepliesMatch
  BY <1>2 DEF LinkInit, RepliesMatch, OwnAnswer, NeverAccused, ClosedFailsAll
<1>5. \A p, n, a : <<p, n, a>> \notin Carried
  <2>1. \A p, n, a : ~At(p, n, a)
    BY <1>2, EmptyQueue DEF LinkInit, At
  <2> QED BY <2>1, InCarried
<1>6. Settled(Carried, waiting, shut, nextId)
  BY <1>5 DEF Settled
<1> QED BY <1>1, <1>3, <1>4, <1>6 DEF LinkInv

\* Every step keeps it.
LEMMA LinkInvStep ==
  ASSUME LinkInv, [LinkNext]_linkVars
  PROVE  LinkInv'
<1> LinkTypeOK'
  BY LinkTypeStep DEF LinkInv
<1>1. CASE \E t \in Askers : Asks(t)
  BY <1>1, AsksKeeps
<1>2. CASE \E t \in Askers : Unsendable(t)
  BY <1>2, UnsentKeeps DEF Unsendable
<1>3. CASE \E t \in Askers : Queues(t)
  BY <1>3, QueuesKeeps
<1>4. CASE \E t \in Askers : TimesOut(t) \/ RequestOver(t)
  <2> PICK t \in Askers : TimesOut(t) \/ RequestOver(t)
    BY <1>4
  <2>1. \A u \in Askers : asker'[u] = asker[u] \/ asker'[u] = NotAsking
    BY DEF TimesOut, RequestOver, LinkInv, LinkTypeOK
  <2> QED BY <2>1, LinkCalm DEF TimesOut, RequestOver, StillWaiting
<1>5. CASE Writes
  BY <1>5, WritesKeeps
<1>6. CASE WriteFails
  BY <1>6, ClosesKeeps DEF WriteFails
<1>7. CASE ReadsReply
  BY <1>7, ReadsReplyKeeps
<1>8. CASE ReadFails
  BY <1>8, ClosesKeeps DEF ReadFails
<1>9. CASE ReadsEvent \/ Pumps \/ SessionTakes \/ GoesDown \/ UNCHANGED linkVars
  BY <1>9, LinkCalm DEF ReadsEvent, Pumps, SessionTakes, GoesDown, linkVars
<1>10. CASE \E picture \in BOOLEAN : Serves(picture)
  BY <1>10, ServesKeeps
<1>11. CASE Emits
  BY <1>11, EmitsKeeps
<1>12. CASE ServerWrites
  BY <1>12, ServerWritesKeeps
<1> QED BY <1>1, <1>2, <1>3, <1>4, <1>5, <1>6, <1>7, <1>8, <1>9, <1>10, <1>11, <1>12 DEF LinkNext

\* Whoever is answered has the answer to their own request, a server that answers each request
\* once is never accused of answering one that was not sent, whatever timed out, failed to be
\* sent or was cut off, and once the stream is closed nobody waits (Pending,
\* Requester::request, spawn_link in control.rs).
THEOREM RepliesAlwaysMatch == LinkSpec => []RepliesMatch
<1>1. LinkInv => RepliesMatch
  BY DEF LinkInv
<1> QED BY <1>1, LinkInvInit, LinkInvStep, PTL DEF LinkSpec

-----------------------------------------------------------------------------
(* The data directory. *)

Files == [there : BOOLEAN, own : BOOLEAN, open : BOOLEAN]
KeyFiles == [file : Files, key : Nat]
Databases == [file : Files, version : Nat, invites : SUBSET Nat]
Steps == {"prepare", "exist", "check", "read", "create", "write", "open", "migrate", "bind", "running", "mint"}
Begun == [at : Steps, mints : BOOLEAN, key : Nat]

\* What a process that got so far may count on, of the key on the disk and of the database.
Counts(s, key, db) ==
  /\ s.at \in {"open", "migrate", "bind", "running", "mint"} =>
       key.file.there /\ s.key = key.key /\ key.key # Partial
  /\ s.at \in {"create", "write"} => s.key # Partial
  /\ s.at = "write" => key.file.there /\ key.key = Partial
  /\ s.at \in {"read", "create", "write", "open", "migrate", "bind", "running", "mint"} =>
       (key.file.there => key.file = Private)
  /\ s.at \in {"migrate", "bind", "running", "mint"} => db.file = Private
  /\ s.mints => /\ s.at \in {"exist", "check", "read", "open", "mint"}
                /\ s.at # "exist" => key.file.there

\* The inductive invariant: with what each process counts on, one process at a time writes the
\* key, invites are under the key that is there, and whoever has the port runs.
DirInv ==
  /\ dir \in Files /\ keyFile \in KeyFiles /\ dbFile \in Databases
  /\ process \in [Processes -> {Off} \cup Begun] /\ drawn \in Nat
  /\ \A p \in Processes : process[p] # Off => Counts(process[p], keyFile, dbFile)
  /\ \A p, q \in Processes : process[p].at = "write" /\ process[q].at = "write" => p = q
  /\ \A i \in dbFile.invites : keyFile.file.there /\ i = keyFile.key /\ i # Partial
  /\ port # NoProcess => port \in Processes /\ process[port].at = "running"

\* One process goes on, the others stay where they are.
Alone(p, s) == process' = [process EXCEPT ![p] = s]

\* What is left to show where one process goes on: of it, and that what the others count on
\* stays.
LEMMA OneGoesOn ==
  ASSUME DirInv, NEW p \in Processes, NEW s \in {Off} \cup Begun, Alone(p, s),
         s # Off => Counts(s, keyFile', dbFile'),
         \A t \in Begun : Counts(t, keyFile, dbFile) => Counts(t, keyFile', dbFile'),
         dir' \in Files, keyFile' \in KeyFiles, dbFile' \in Databases, drawn' \in Nat,
         s.at = "write" => \A q \in Processes : process[q].at # "write",
         \A i \in dbFile'.invites : keyFile'.file.there /\ i = keyFile'.key /\ i # Partial,
         port' # NoProcess => port' \in Processes /\ process'[port'].at = "running"
  PROVE  DirInv'
<1>1. process' = [process EXCEPT ![p] = s] /\ process \in [Processes -> {Off} \cup Begun]
  BY DEF Alone, DirInv
<1>2. process' \in [Processes -> {Off} \cup Begun]
  BY <1>1
<1>3. \A q \in Processes : process'[q] = IF q = p THEN s ELSE process[q]
  BY <1>1
<1>4. ASSUME NEW q \in Processes, process'[q] # Off PROVE Counts(process'[q], keyFile', dbFile')
  <2>1. CASE q = p
    BY <1>3, <1>4, <2>1
  <2>2. CASE q # p
    <3>1. process'[q] = process[q] /\ process[q] \in Begun /\ Counts(process[q], keyFile, dbFile)
      BY <1>1, <1>3, <1>4, <2>2 DEF DirInv
    <3> QED BY <3>1
  <2> QED BY <2>1, <2>2
<1>5. ASSUME NEW q \in Processes, NEW r \in Processes,
             process'[q].at = "write", process'[r].at = "write" PROVE q = r
  BY <1>3, <1>5 DEF DirInv
<1> QED BY <1>2, <1>4, <1>5 DEF DirInv

\* A process that goes on is at its next step, with what it had.
LEMMA GoesOn ==
  ASSUME DirInv, NEW p \in Processes, process[p] # Off, NEW step \in Steps, Goes(p, step)
  PROVE  /\ [process[p] EXCEPT !.at = step] \in Begun
         /\ [process[p] EXCEPT !.at = step].at = step
         /\ [process[p] EXCEPT !.at = step].key = process[p].key
         /\ [process[p] EXCEPT !.at = step].mints = process[p].mints
         /\ Alone(p, [process[p] EXCEPT !.at = step])
<1>1. process[p] \in Begun
  BY DEF DirInv
<1>2. Alone(p, [process[p] EXCEPT !.at = step])
  BY DEF Goes, Alone
<1> QED BY <1>1, <1>2 DEF Begun

\* A process that ends leaves the rest as it was, and frees the port if it had it.
LEMMA EndsKeeps ==
  ASSUME DirInv, NEW p \in Processes, Fails(p), UNCHANGED <<dir, keyFile, dbFile, drawn>>,
         port' = port \/ port' = NoProcess, process[p].at = "running" => port' # p
  PROVE  DirInv'
<1>1. Alone(p, Off) /\ Off.at = "off"
  BY DEF Fails, Alone, Off
<1>2. ASSUME port' # NoProcess PROVE port' \in Processes /\ process'[port'].at = "running"
  <2>1. port' = port /\ port \in Processes /\ process[port].at = "running" /\ port # p
    BY <1>2 DEF DirInv
  <2> QED BY <1>1, <2>1 DEF Alone, DirInv
<1> QED BY <1>1, <1>2, OneGoesOn DEF DirInv

\* What nothing else than the process changes: a start, what it reads, and the port.
LEMMA GoesKeeps ==
  ASSUME DirInv, NEW p \in Processes, NEW s \in Begun, Alone(p, s), Counts(s, keyFile, dbFile),
         s.at # "write", UNCHANGED <<keyFile, dbFile>>, dir' \in Files, drawn' \in Nat,
         process[p].at # "running",
         port' = port \/ (port' = p /\ s.at = "running")
  PROVE  DirInv'
<1>1. ASSUME port' # NoProcess PROVE port' \in Processes /\ process'[port'].at = "running"
  <2>1. process'[p] = s /\ \A q \in Processes \ {p} : process'[q] = process[q]
    BY DEF Alone, DirInv
  <2>2. CASE port' = p /\ s.at = "running"
    BY <2>1, <2>2
  <2>3. CASE port' = port
    <3>1. port \in Processes /\ process[port].at = "running"
      BY <1>1, <2>3 DEF DirInv
    <3> QED BY <2>1, <2>3, <3>1
  <2> QED BY <2>2, <2>3
<1> QED BY <1>1, OneGoesOn DEF DirInv

\* A start, a mint, and their steps up to the key.
LEMMA StartsKeep ==
  ASSUME DirInv, NEW p \in Processes, StartServer(p) \/ StartMint(p)
  PROVE  DirInv'
<1>1. PICK m \in BOOLEAN, step \in {"prepare", "exist"} :
        /\ Alone(p, [at |-> step, mints |-> m, key |-> Partial]) /\ (m => step = "exist")
        /\ process[p] = Off /\ UNCHANGED <<dir, keyFile, dbFile, port, drawn>>
  BY DEF StartServer, StartMint, Alone
<1> DEFINE new == [at |-> step, mints |-> m, key |-> Partial]
<1>2. /\ new \in Begun /\ new.at = step /\ new.mints = m /\ process[p].at # "running"
      /\ new.at # "write"
  BY <1>1 DEF Begun, Steps, Partial, Off
<1>3. Counts(new, keyFile, dbFile)
  BY <1>1, <1>2 DEF Counts
<1>4. Alone(p, new)
  BY <1>1
<1> HIDE DEF new
<1> QED BY <1>1, <1>2, <1>3, <1>4, GoesKeeps DEF DirInv

\* tighten: a file of ours is there and closed to others afterwards.
LEMMA TightenedDoes ==
  ASSUME NEW f \in Files
  PROVE  /\ Tightened(f) \in Files /\ Tightened(f).there = f.there
         /\ f.there /\ ~Foreign(f) => Tightened(f) = Private
         /\ Private \in Files /\ Private.there = TRUE /\ ~Foreign(Private)
<1>1. Private \in Files /\ Private.there = TRUE /\ ~Foreign(Private)
  BY DEF Private, Files, Foreign
<1>2. CASE f.there /\ f.own
  BY <1>1, <1>2 DEF Tightened, Files, Foreign, Private
<1>3. CASE ~(f.there /\ f.own)
  BY <1>1, <1>3 DEF Tightened, Files, Foreign
<1> QED BY <1>1, <1>2, <1>3

\* The directory, the checks of a mint and the port: no file is written.
LEMMA UnwrittenKeeps ==
  ASSUME DirInv, NEW p \in Processes, PrepareDataDir(p) \/ MintChecks(p) \/ Bind(p) \/ Dies(p)
  PROVE  DirInv'
<1>1. process[p] # Off /\ process[p] \in Begun /\ Counts(process[p], keyFile, dbFile)
  BY DEF PrepareDataDir, MintChecks, Bind, Dies, Off, DirInv
<1>2. CASE PrepareDataDir(p)
  <2> DEFINE s == [process[p] EXCEPT !.at = "check"]
  <2>1. /\ s \in Begun /\ s.at = "check" /\ s.mints = process[p].mints /\ Alone(p, s)
    <3>1. Goes(p, "check") /\ "check" \in Steps
      BY <1>2 DEF PrepareDataDir, Steps
    <3> QED BY <1>1, <3>1, GoesOn
  <2> HIDE DEF s
  <2>2. Counts(s, keyFile, dbFile) /\ process[p].at # "running"
    BY <1>1, <1>2, <2>1 DEF Counts, PrepareDataDir
  <2>3. dir' \in Files
    BY <1>2, TightenedDoes DEF PrepareDataDir, DirInv
  <2> QED BY <1>2, <2>1, <2>2, <2>3, GoesKeeps DEF PrepareDataDir, DirInv
<1>3. CASE MintChecks(p) /\ MayMint
  <2> DEFINE s == [process[p] EXCEPT !.at = "check"]
  <2>1. /\ s \in Begun /\ s.at = "check" /\ s.mints = process[p].mints /\ Alone(p, s)
    <3>1. Goes(p, "check") /\ "check" \in Steps
      BY <1>3 DEF MintChecks, Steps
    <3> QED BY <1>1, <3>1, GoesOn
  <2> HIDE DEF s
  <2>2. Counts(s, keyFile, dbFile) /\ process[p].at # "running"
    BY <1>1, <1>3, <2>1 DEF Counts, MintChecks, MayMint
  <2> QED BY <1>3, <2>1, <2>2, GoesKeeps DEF MintChecks, DirInv
<1>4. CASE Bind(p) /\ port = NoProcess
  <2> DEFINE s == [process[p] EXCEPT !.at = "running"]
  <2>1. /\ s \in Begun /\ s.at = "running" /\ s.mints = process[p].mints /\ s.key = process[p].key
        /\ Alone(p, s)
    <3>1. Goes(p, "running") /\ "running" \in Steps
      BY <1>4 DEF Bind, Steps
    <3> QED BY <1>1, <3>1, GoesOn
  <2> HIDE DEF s
  <2>2. Counts(s, keyFile, dbFile) /\ process[p].at # "running"
    BY <1>1, <1>4, <2>1 DEF Counts, Bind
  <2> QED BY <1>4, <2>1, <2>2, GoesKeeps DEF Bind, DirInv
<1>5. CASE Dies(p)
  BY <1>5, EndsKeeps, DataDirAssumption DEF Dies
<1>6. CASE (MintChecks(p) /\ ~MayMint) \/ (Bind(p) /\ port # NoProcess)
  <2>1. /\ Fails(p) /\ UNCHANGED <<dir, keyFile, dbFile, drawn, port>> /\ process[p].at # "running"
    BY <1>6 DEF MintChecks, Bind
  <2> QED BY <2>1, EndsKeeps
<1> QED BY <1>2, <1>3, <1>4, <1>5, <1>6

\* The key is checked and read, or drawn.
LEMMA KeyReadKeeps ==
  ASSUME DirInv, NEW p \in Processes, CheckKey(p) \/ ReadKey(p)
  PROVE  DirInv'
<1>1. process[p] # Off /\ process[p] \in Begun /\ Counts(process[p], keyFile, dbFile)
  BY DEF CheckKey, ReadKey, Off, DirInv
<1>2. CASE (CheckKey(p) /\ Foreign(keyFile.file)) \/ (ReadKey(p) /\ keyFile.file.there /\ keyFile.key = Partial)
  <2>1. /\ Fails(p) /\ UNCHANGED <<dir, keyFile, dbFile, drawn, port>> /\ process[p].at # "running"
    BY <1>2 DEF CheckKey, ReadKey
  <2> QED BY <2>1, EndsKeeps
<1>3. CASE CheckKey(p) /\ ~Foreign(keyFile.file)
  <2> DEFINE s == [process[p] EXCEPT !.at = "read"]
  <2>1. /\ s \in Begun /\ s.at = "read" /\ s.mints = process[p].mints /\ Alone(p, s)
    <3>1. Goes(p, "read") /\ "read" \in Steps
      BY <1>3 DEF CheckKey, Steps
    <3> QED BY <1>1, <3>1, GoesOn
  <2> HIDE DEF s
  <2>2. keyFile \in KeyFiles /\ keyFile' = [keyFile EXCEPT !.file = Tightened(@)] /\ process[p].at = "check"
    BY <1>3 DEF CheckKey, Checked, DirInv
  <2>3. /\ keyFile' \in KeyFiles /\ keyFile'.key = keyFile.key
        /\ keyFile'.file.there = keyFile.file.there
        /\ keyFile'.file.there => keyFile'.file = Private
    BY <1>3, <2>2, TightenedDoes DEF KeyFiles
  <2>4. Counts(s, keyFile', dbFile') /\ dbFile' = dbFile
    BY <1>1, <1>3, <2>1, <2>2, <2>3 DEF Counts, CheckKey
  <2>5. \A t \in Begun : Counts(t, keyFile, dbFile) => Counts(t, keyFile', dbFile')
    BY <2>3, <2>4 DEF Counts
  <2>6. port' # NoProcess => port' \in Processes /\ process'[port'].at = "running"
    BY <1>3, <2>1, <2>2 DEF CheckKey, DirInv, Alone
  <2>7. \A i \in dbFile'.invites : keyFile'.file.there /\ i = keyFile'.key /\ i # Partial
    BY <2>3, <2>4 DEF DirInv
  <2> QED BY <1>3, <2>1, <2>3, <2>4, <2>5, <2>6, <2>7, OneGoesOn DEF CheckKey, DirInv
<1>4. CASE ReadKey(p) /\ ~(keyFile.file.there /\ keyFile.key = Partial)
  <2>1. PICK step \in {"open", "create"}, n \in Nat :
          /\ Alone(p, [process[p] EXCEPT !.at = step, !.key = n])
          /\ step = "open" => keyFile.file.there /\ n = keyFile.key /\ n # Partial
          /\ step = "create" => ~keyFile.file.there /\ n # Partial
    <3>1. keyFile.key \in Nat /\ drawn + 1 \in Nat /\ drawn + 1 # Partial
      BY DEF DirInv, KeyFiles, Partial
    <3>2. CASE keyFile.file.there
      <4>1. keyFile.key # Partial /\ Alone(p, [process[p] EXCEPT !.at = "open", !.key = keyFile.key])
        BY <1>4, <3>2 DEF ReadKey, Alone
      <4> QED BY <3>1, <3>2, <4>1
    <3>3. CASE ~keyFile.file.there
      <4>1. Alone(p, [process[p] EXCEPT !.at = "create", !.key = drawn + 1])
        BY <1>4, <3>3 DEF ReadKey, Alone
      <4> QED BY <3>1, <3>3, <4>1
    <3> QED BY <3>2, <3>3
  <2> DEFINE s == [process[p] EXCEPT !.at = step, !.key = n]
  <2>2. s \in Begun /\ s.at = step /\ s.mints = process[p].mints /\ s.key = n /\ Alone(p, s)
    BY <1>1, <2>1 DEF Begun, Steps
  <2> HIDE DEF s
  <2>3. /\ UNCHANGED <<dir, keyFile, dbFile, port>> /\ drawn' \in Nat /\ process[p].at = "read"
    BY <1>4 DEF ReadKey, DirInv
  <2>4. Counts(s, keyFile, dbFile)
    BY <1>1, <2>1, <2>2, <2>3 DEF Counts
  <2> QED BY <2>1, <2>2, <2>3, <2>4, GoesKeeps DEF DirInv
<1> QED BY <1>2, <1>3, <1>4

\* write_private: where there is no key file nobody counts on one, and whoever made it is the
\* only one to write it.
LEMMA KeyWrittenKeeps ==
  ASSUME DirInv, NEW p \in Processes, CreateKey(p) \/ WriteKey(p)
  PROVE  DirInv'
<1>1. process[p] # Off /\ process[p] \in Begun /\ Counts(process[p], keyFile, dbFile)
  BY DEF CreateKey, WriteKey, Off, DirInv
<1>2. CASE CreateKey(p) /\ ~MayCreateKey
  <2>1. /\ Fails(p) /\ UNCHANGED <<dir, keyFile, dbFile, drawn, port>> /\ process[p].at # "running"
    BY <1>2 DEF CreateKey
  <2> QED BY <2>1, EndsKeeps
<1>3. CASE CreateKey(p) /\ MayCreateKey
  <2> DEFINE s == [process[p] EXCEPT !.at = "write"]
  <2>1. /\ s \in Begun /\ s.at = "write" /\ s.mints = process[p].mints /\ s.key = process[p].key
        /\ Alone(p, s)
    <3>1. Goes(p, "write") /\ "write" \in Steps
      BY <1>3 DEF CreateKey, Steps
    <3> QED BY <1>1, <3>1, GoesOn
  <2> HIDE DEF s
  <2>2. /\ keyFile' = [file |-> Private, key |-> Partial] /\ process[p].at = "create"
        /\ UNCHANGED <<dir, dbFile, port, drawn>> /\ ~keyFile.file.there
    BY <1>3 DEF CreateKey, MayCreateKey
  <2>3. keyFile' \in KeyFiles /\ keyFile'.file = Private /\ keyFile'.key = Partial /\ Private.there = TRUE
    BY <2>2 DEF KeyFiles, Files, Private, Partial
  <2>4. Counts(s, keyFile', dbFile')
    BY <1>1, <2>1, <2>2, <2>3 DEF Counts
  <2>5. \A t \in Begun : Counts(t, keyFile, dbFile) => Counts(t, keyFile', dbFile')
    BY <2>2, <2>3 DEF Counts
  <2>6. ASSUME NEW q \in Processes, process[q].at = "write" PROVE FALSE
    BY <2>2, <2>6 DEF DirInv, Counts, Off
  <2>7. dbFile'.invites = {}
    BY <2>2 DEF DirInv
  <2>8. port' # NoProcess => port' \in Processes /\ process'[port'].at = "running"
    BY <2>1, <2>2 DEF DirInv, Alone
  <2> QED BY <2>1, <2>2, <2>3, <2>4, <2>5, <2>6, <2>7, <2>8, OneGoesOn DEF DirInv
<1>4. CASE WriteKey(p)
  <2> DEFINE s == [process[p] EXCEPT !.at = "open"]
  <2>1. /\ s \in Begun /\ s.at = "open" /\ s.mints = process[p].mints /\ s.key = process[p].key
        /\ Alone(p, s)
    <3>1. Goes(p, "open") /\ "open" \in Steps
      BY <1>4 DEF WriteKey, Steps
    <3> QED BY <1>1, <3>1, GoesOn
  <2> HIDE DEF s
  <2>2. /\ keyFile' = [keyFile EXCEPT !.key = process[p].key] /\ process[p].at = "write"
        /\ UNCHANGED <<dir, dbFile, port, drawn>> /\ keyFile \in KeyFiles
    BY <1>4 DEF WriteKey, DirInv
  <2>3. keyFile' \in KeyFiles /\ keyFile'.file = keyFile.file /\ keyFile'.key = process[p].key
    BY <1>1, <2>2 DEF KeyFiles, Begun
  <2>4. /\ keyFile.file.there /\ keyFile.key = Partial /\ process[p].key # Partial
        /\ keyFile.file.there => keyFile.file = Private
    BY <1>1, <2>2 DEF Counts
  <2>5. Counts(s, keyFile', dbFile')
    BY <1>1, <2>1, <2>2, <2>3, <2>4 DEF Counts
  <2>6. ASSUME NEW q \in Processes \ {p}, process[q] # Off PROVE Counts(process[q], keyFile', dbFile')
    <3>1. process[q].at # "write" /\ Counts(process[q], keyFile, dbFile)
      BY <2>2, <2>6 DEF DirInv
    <3> QED BY <2>2, <2>3, <2>4, <3>1 DEF Counts
  <2>7. dbFile'.invites = {}
    BY <2>2, <2>4 DEF DirInv
  <2>8. port' # NoProcess => port' \in Processes /\ process'[port'].at = "running"
    BY <2>1, <2>2 DEF DirInv, Alone
  <2>9. /\ process' \in [Processes -> {Off} \cup Begun]
        /\ \A q \in Processes : process'[q] = IF q = p THEN s ELSE process[q]
    BY <2>1 DEF DirInv, Alone
  <2>10. \A q \in Processes : process'[q] # Off => Counts(process'[q], keyFile', dbFile')
    BY <2>5, <2>6, <2>9
  <2>11. \A q, r \in Processes : process'[q].at = "write" /\ process'[r].at = "write" => q = r
    BY <2>1, <2>9 DEF DirInv
  <2> QED BY <2>2, <2>3, <2>7, <2>8, <2>9, <2>10, <2>11 DEF DirInv
<1> QED BY <1>2, <1>3, <1>4

\* Database::open and open_existing.
LEMMA OpensKeep ==
  ASSUME DirInv, NEW p \in Processes, OpenDatabase(p) \/ OpenExisting(p) \/ Migrate(p) \/ Mint(p)
  PROVE  DirInv'
<1>1. /\ process[p] # Off /\ process[p] \in Begun /\ Counts(process[p], keyFile, dbFile)
      /\ process[p].at \in {"open", "migrate", "mint"} /\ UNCHANGED <<dir, keyFile, port, drawn>>
      /\ dbFile \in Databases
  BY DEF OpenDatabase, OpenExisting, Migrate, Mint, Off, DirInv
<1>2. CASE Fails(p) /\ dbFile' = dbFile
  BY <1>1, <1>2, EndsKeeps
<1>3. ASSUME dbFile' \in Databases, dbFile'.file = Private \/ dbFile'.file = dbFile.file,
             dbFile'.invites \subseteq dbFile.invites \cup {keyFile.key},
             NEW s \in {Off} \cup Begun, Alone(p, s), s # Off => Counts(s, keyFile', dbFile'), s.at # "write"
      PROVE  DirInv'
  <2>1. \A t \in Begun : Counts(t, keyFile, dbFile) => Counts(t, keyFile', dbFile')
    BY <1>1, <1>3 DEF Counts
  <2>2. \A i \in dbFile'.invites : keyFile'.file.there /\ i = keyFile'.key /\ i # Partial
    BY <1>1, <1>3 DEF DirInv, Counts
  <2>3. port' # NoProcess => port' \in Processes /\ process'[port'].at = "running"
    BY <1>1, <1>3 DEF DirInv, Alone
  <2> QED BY <1>1, <1>3, <2>1, <2>2, <2>3, OneGoesOn DEF DirInv
<1>4. CASE (OpenDatabase(p) \/ OpenExisting(p)) /\ ~(Fails(p) /\ dbFile' = dbFile)
  <2>1. PICK step \in {"migrate", "mint"} :
          /\ Goes(p, step) /\ process[p].at = "open" /\ ~Foreign(dbFile.file)
          /\ step = "mint" <=> process[p].mints
          /\ \/ dbFile' = [dbFile EXCEPT !.file = Private]
             \/ dbFile.file.there /\ dbFile' = [dbFile EXCEPT !.file = Tightened(@)]
    BY <1>1, <1>4 DEF OpenDatabase, OpenExisting, Checked, Databases, Begun
  <2>2. dbFile' = [dbFile EXCEPT !.file = Private] /\ Private \in Files
    BY <1>1, <2>1, TightenedDoes DEF Databases
  <2>3. dbFile' \in Databases /\ dbFile'.file = Private /\ dbFile'.invites = dbFile.invites
    BY <1>1, <2>2 DEF Databases
  <2> DEFINE s == [process[p] EXCEPT !.at = step]
  <2>4. /\ s \in Begun /\ s.at = step /\ s.mints = process[p].mints /\ s.key = process[p].key
        /\ Alone(p, s)
    <3>1. step \in Steps
      BY DEF Steps
    <3> QED BY <1>1, <2>1, <3>1, GoesOn
  <2> HIDE DEF s
  <2>5. Counts(s, keyFile', dbFile')
    BY <1>1, <2>1, <2>3, <2>4 DEF Counts
  <2> QED BY <1>3, <2>3, <2>4, <2>5
<1>5. CASE Migrate(p) /\ ~(Fails(p) /\ dbFile' = dbFile)
  <2>1. Goes(p, "bind") /\ process[p].at = "migrate" /\ dbFile' = [dbFile EXCEPT !.version = Schema]
    BY <1>5 DEF Migrate
  <2>2. dbFile' \in Databases /\ dbFile'.file = dbFile.file /\ dbFile'.invites = dbFile.invites
    BY <1>1, <2>1 DEF Databases, Schema
  <2> DEFINE s == [process[p] EXCEPT !.at = "bind"]
  <2>3. /\ s \in Begun /\ s.at = "bind" /\ s.mints = process[p].mints /\ s.key = process[p].key
        /\ Alone(p, s)
    <3>1. "bind" \in Steps
      BY DEF Steps
    <3> QED BY <1>1, <2>1, <3>1, GoesOn
  <2> HIDE DEF s
  <2>4. Counts(s, keyFile', dbFile')
    BY <1>1, <2>1, <2>2, <2>3 DEF Counts
  <2> QED BY <1>3, <2>2, <2>3, <2>4
<1>6. CASE Mint(p)
  <2>1. /\ Alone(p, Off) /\ Off.at # "write" /\ process[p].at = "mint"
        /\ dbFile' = [dbFile EXCEPT !.invites = @ \cup {process[p].key}]
    BY <1>6 DEF Mint, Fails, Alone, Off
  <2>2. process[p].key = keyFile.key /\ process[p].key \in Nat
    BY <1>1, <2>1 DEF Counts, Begun
  <2>3. /\ dbFile' \in Databases /\ dbFile'.file = dbFile.file
        /\ dbFile'.invites = dbFile.invites \cup {keyFile.key}
    BY <1>1, <2>1, <2>2 DEF Databases
  <2> QED BY <1>3, <2>1, <2>3
<1> QED BY <1>2, <1>4, <1>5, <1>6

\* A mount finds no process.
LEMMA MountedKeeps ==
  ASSUME DirInv, Mounted
  PROVE  DirInv'
<1>1. /\ \A p \in Processes : process[p] = Off
      /\ dir' = [dir EXCEPT !.open = dir.there]
      /\ keyFile' = [keyFile EXCEPT !.file.open = keyFile.file.there]
      /\ dbFile' = [dbFile EXCEPT !.file.open = dbFile.file.there]
      /\ UNCHANGED <<process, port, drawn>>
  BY DEF Mounted
<1>2. /\ dir' \in Files /\ keyFile' \in KeyFiles /\ keyFile'.key = keyFile.key
      /\ keyFile'.file.there = keyFile.file.there
  BY <1>1 DEF DirInv, Files, KeyFiles
<1>3. dbFile' \in Databases /\ dbFile'.invites = dbFile.invites
  BY <1>1 DEF DirInv, Files, Databases
<1>4. port = NoProcess
  BY <1>1 DEF DirInv, Off
<1> QED BY <1>1, <1>2, <1>3, <1>4 DEF DirInv, Off

\* Every step keeps it.
LEMMA DirStep == DirInv /\ [DataDirNext]_dataDirVars => DirInv'
<1> SUFFICES ASSUME DirInv, [DataDirNext]_dataDirVars PROVE DirInv'
  OBVIOUS
<1>1. CASE DataDirNext
  BY <1>1, MountedKeeps, StartsKeep, UnwrittenKeeps, KeyReadKeeps, KeyWrittenKeeps, OpensKeep DEF DataDirNext
<1>2. CASE UNCHANGED dataDirVars
  BY <1>2 DEF dataDirVars, DirInv
<1> QED BY <1>1, <1>2

\* It says that servers and invites go by one key, and that what is served is private.
LEMMA DirSays == DirInv => OneIdentity /\ ServedPrivate
<1> SUFFICES ASSUME DirInv PROVE OneIdentity /\ ServedPrivate
  OBVIOUS
<1>1. \A p \in Processes : process[p].at \in {"running", "mint"} => process[p].key = keyFile.key
  BY DEF DirInv, Counts, Off
<1>2. OneIdentity
  BY <1>1 DEF DirInv, OneIdentity
<1>3. ASSUME port # NoProcess PROVE keyFile.file = Private /\ dbFile.file = Private
  <2>1. port \in Processes /\ process[port].at = "running"
    BY <1>3 DEF DirInv
  <2>2. Counts(process[port], keyFile, dbFile)
    BY <2>1 DEF DirInv, Off
  <2> QED BY <2>1, <2>2 DEF Counts
<1> QED BY <1>2, <1>3 DEF ServedPrivate

\* A mint past its first check writes no file that was not there.
LEMMA MintsNothing ==
  ASSUME DirInv, [DataDirNext]_dataDirVars, NEW p \in Processes,
         process[p].at \notin {"off", "exist"}, process[p].mints, process'[p] # process[p]
  PROVE  dir' = dir /\ keyFile'.file.there = keyFile.file.there
         /\ keyFile'.key = keyFile.key /\ dbFile'.version = dbFile.version
<1>1. /\ process[p] # Off /\ process[p] \in Begun /\ Counts(process[p], keyFile, dbFile)
      /\ process[p].at \in {"check", "read", "open", "mint"}
  BY DEF DirInv, Off, Counts
<1>2. DataDirNext /\ ~Mounted
  BY DEF dataDirVars, Mounted
<1>3. PICK q \in Processes :
       \/ StartServer(q) \/ StartMint(q) \/ PrepareDataDir(q) \/ MintChecks(q) \/ CheckKey(q)
       \/ ReadKey(q) \/ CreateKey(q) \/ WriteKey(q) \/ OpenDatabase(q) \/ Migrate(q)
       \/ Bind(q) \/ OpenExisting(q) \/ Mint(q) \/ Dies(q)
  BY <1>2 DEF DataDirNext
<1>4. q = p
  <2>1. \A r \in Processes \ {q} : process'[r] = process[r]
    BY <1>3 DEF StartServer, StartMint, PrepareDataDir, MintChecks, CheckKey, ReadKey, CreateKey, WriteKey,
                OpenDatabase, Migrate, Bind, OpenExisting, Mint, Dies, Goes, Fails, DirInv
  <2> QED BY <2>1
<1>5. CheckKey(p) \/ ReadKey(p) \/ OpenExisting(p) \/ Mint(p) \/ Dies(p)
  BY <1>1, <1>3, <1>4 DEF StartServer, StartMint, PrepareDataDir, MintChecks, CreateKey, WriteKey,
                          OpenDatabase, Migrate, Bind
<1>6. CASE CheckKey(p)
  <2>1. keyFile \in KeyFiles /\ keyFile' \in {keyFile, [keyFile EXCEPT !.file = Tightened(@)]}
    BY <1>6 DEF CheckKey, Checked, DirInv
  <2> QED BY <1>6, <2>1, TightenedDoes DEF CheckKey, KeyFiles
<1>7. CASE ReadKey(p) \/ OpenExisting(p) \/ Mint(p) \/ Dies(p)
  <2>1. UNCHANGED <<dir, keyFile>> /\ dbFile \in Databases
    BY <1>7 DEF ReadKey, OpenExisting, Mint, Dies, DirInv
  <2>2. dbFile'.version = dbFile.version
    BY <1>7, <2>1 DEF ReadKey, OpenExisting, Mint, Dies, Databases
  <2> QED BY <2>1, <2>2
<1> QED BY <1>5, <1>6, <1>7

\* One directory is one server: running servers and invites all go by the key on the disk, what
\* is served is private, and a mint creates nothing, for any number of processes that start,
\* mint and die at any step, whatever the volume was before (identity.rs load_or_create,
\* files.rs tighten, lib.rs admin_invite).
THEOREM DirectoryAlwaysKept == DataDirSpec => DirectoryKept
<1>1. DataDirInit => DirInv
  <2> SUFFICES ASSUME DataDirInit PROVE DirInv
    OBVIOUS
  <2>1. /\ NotThere \in Files /\ Private \in Files /\ [Private EXCEPT !.own = FALSE] \in Files
        /\ NoDatabase \in Databases
    BY DEF NotThere, Private, NoDatabase, Databases, Files
  <2>2. dir \in Files
    <3>1. PICK own, open \in BOOLEAN : dir \in {NotThere, [there |-> TRUE, own |-> own, open |-> open]}
      BY DEF DataDirInit
    <3>2. [there |-> TRUE, own |-> own, open |-> open] \in Files
      BY DEF Files
    <3> QED BY <2>1, <3>1, <3>2
  <2>3. keyFile \in KeyFiles
    <3>1. \/ keyFile = [file |-> NotThere, key |-> 0]
          \/ keyFile = [file |-> [Private EXCEPT !.own = FALSE], key |-> MaxKeys + 1]
      BY DEF DataDirInit, NoKeyFile, Partial
    <3>2. ASSUME NEW f \in Files, NEW n \in Nat PROVE [file |-> f, key |-> n] \in KeyFiles
      BY DEF KeyFiles
    <3>3. MaxKeys + 1 \in Nat
      BY DataDirAssumption
    <3> QED BY <2>1, <3>1, <3>2, <3>3
  <2>4. dbFile \in Databases /\ dbFile.invites = {}
    <3>1. \E f \in Files, n \in {0, 2} : dbFile = [file |-> f, version |-> n, invites |-> {}]
      <4>1. NoDatabase = [file |-> NotThere, version |-> 0, invites |-> {}]
        BY DEF NoDatabase
      <4>2. ASSUME NEW f
            PROVE  [NoDatabase EXCEPT !.file = f] = [file |-> f, version |-> 0, invites |-> {}]
        BY <4>1
      <4> QED BY <2>1, <4>1, <4>2 DEF DataDirInit, Newer
    <3> QED BY <3>1 DEF Databases
  <2>5. /\ process = [p \in Processes |-> Off] /\ port = NoProcess /\ drawn = 0
    BY DEF DataDirInit
  <2> QED BY <2>2, <2>3, <2>4, <2>5 DEF DirInv, Off
<1>2. DirInv /\ [DataDirNext]_dataDirVars =>
        [(\E p \in Processes : process[p].at \notin {"off", "exist"} /\ process[p].mints
                                 /\ process'[p] # process[p])
           => dir' = dir /\ keyFile'.file.there = keyFile.file.there
              /\ keyFile'.key = keyFile.key /\ dbFile'.version = dbFile.version]_dataDirVars
  BY MintsNothing
<1> QED BY <1>1, <1>2, DirStep, DirSays, PTL DEF DataDirSpec, DirectoryKept, MintCreatesNothing

-----------------------------------------------------------------------------
(* The gates. *)

\* Who holds a pass of a gate and counts under a key.
Holders(g, l, k) == {c \in Sockets : g \in passes[c] /\ KeyOf(l, c) = k}

\* The passes a task holds and the ones it is about to drop, in each phase.
Held(ph, held, left) ==
  \/ ph = "off" /\ held = {} /\ left = <<>>
  \/ ph \in {"tls", "trying", "tried", "asleep"} /\ held = {"unauthenticated"} /\ left = <<>>
  \/ ph = "greeting" /\ held = {"unauthenticated", "handshakes"} /\ left = <<>>
  \/ ph \in {"signing", "refusing"} /\ held = Gates /\ left = <<>>
  \/ ph = "served" /\ held = Gates /\ left = <<"handshakes", "unauthenticated">>
  \/ ph = "served" /\ held = {"connections", "unauthenticated"} /\ left = <<"unauthenticated">>
  \/ ph = "served" /\ held = {"connections"} /\ left = <<>>
  \/ ph = "end" /\ held = Gates /\ left = <<"connections", "handshakes", "unauthenticated">>
  \/ ph = "end" /\ held = {"unauthenticated", "handshakes"} /\ left = <<"handshakes", "unauthenticated">>
  \/ ph = "end" /\ held = {"unauthenticated"} /\ left = <<"unauthenticated">>
  \/ ph = "end" /\ held = {"connections"} /\ left = <<"connections">>
  \/ ph = "end" /\ held = {} /\ left = <<>>

Phases ==
  {"off", "tls", "trying", "tried", "asleep", "greeting", "signing", "refusing", "served", "end"}

\* Types, as far as the argument needs them.
GatesTypeOK ==
  /\ phase \in [Sockets -> Phases]
  /\ passes \in [Sockets -> SUBSET Gates]
  /\ drops \in [Sockets -> Seq(Gates)]
  /\ counts \in [Gates -> [Levels -> [SourceKeys -> Int]]]

\* Whoever was turned away and has not been woken since still would be, also between the try
\* and the sleep.
TurnedAway ==
  \A c \in Sockets :
    phase[c] \in {"tried", "asleep"} /\ c \notin woken /\ waking = {} => ~Admits("handshakes", c)

\* The inductive invariant.
AdmissionInv ==
  /\ GatesTypeOK
  /\ \A c \in Sockets : Held(phase[c], passes[c], drops[c])
  /\ PassesCounted
  /\ TurnedAway

\* A connection counts under a key of each level.
LEMMA KeyOfType ==
  ASSUME NEW l \in Levels, NEW c \in Sockets
  PROVE  KeyOf(l, c) \in SourceKeys
BY AdmissionConstants DEF KeyOf, SourceKeys, Levels

\* A pass that was not held is counted once on each level.
LEMMA EnterCounts ==
  ASSUME GatesTypeOK, PassesCounted, NEW g \in Gates, NEW c \in Sockets, g \notin passes[c], Enters(g, c)
  PROVE  /\ counts' \in [Gates -> [Levels -> [SourceKeys -> Int]]]
         /\ passes' \in [Sockets -> SUBSET Gates]
         /\ passes'[c] = passes[c] \cup {g}
         /\ \A d \in Sockets : d # c => passes'[d] = passes[d]
         /\ \A h \in Gates, l \in Levels, k \in SourceKeys : counts'[h][l][k] >= counts[h][l][k]
         /\ PassesCounted'
<1>1. /\ passes' = [passes EXCEPT ![c] = @ \cup {g}]
      /\ counts' = [counts EXCEPT ![g] = [l \in Levels |-> [counts[g][l] EXCEPT ![KeyOf(l, c)] = @ + 1]]]
  BY DEF Enters
<1>2. /\ passes' \in [Sockets -> SUBSET Gates] /\ passes'[c] = passes[c] \cup {g}
      /\ \A d \in Sockets : d # c => passes'[d] = passes[d]
  BY <1>1 DEF GatesTypeOK
<1> DEFINE Recounted(l) == [counts[g][l] EXCEPT ![KeyOf(l, c)] = counts[g][l][KeyOf(l, c)] + 1]
<1>a. /\ counts \in [Gates -> [Levels -> [SourceKeys -> Int]]]
      /\ counts' = [counts EXCEPT ![g] = [l \in Levels |-> Recounted(l)]]
  BY <1>1 DEF GatesTypeOK
<1>b. ASSUME NEW l \in Levels PROVE Recounted(l) \in [SourceKeys -> Int]
  <2>1. counts[g][l] \in [SourceKeys -> Int] /\ KeyOf(l, c) \in SourceKeys
    BY <1>a, KeyOfType
  <2>2. counts[g][l][KeyOf(l, c)] + 1 \in Int
    BY <2>1
  <2> QED BY <2>1, <2>2
<1>c. ASSUME NEW l \in Levels, NEW k \in SourceKeys
      PROVE  Recounted(l)[k] = IF k = KeyOf(l, c) THEN counts[g][l][k] + 1 ELSE counts[g][l][k]
  <2>1. counts[g][l] \in [SourceKeys -> Int]
    BY <1>a
  <2> QED BY <2>1
<1>d. [l \in Levels |-> Recounted(l)] \in [Levels -> [SourceKeys -> Int]]
  BY <1>b
<1> HIDE DEF Recounted
<1>3. counts' \in [Gates -> [Levels -> [SourceKeys -> Int]]]
  BY <1>a, <1>d
<1>4. ASSUME NEW h \in Gates, NEW l \in Levels, NEW k \in SourceKeys
      PROVE  counts'[h][l][k] = IF h = g /\ k = KeyOf(l, c) THEN counts[h][l][k] + 1 ELSE counts[h][l][k]
  <2>1. CASE h = g
    <3>1. counts'[h][l] = Recounted(l)
      BY <1>a, <2>1
    <3> QED BY <1>c, <2>1, <3>1
  <2>2. CASE h # g
    BY <1>a, <2>2
  <2> QED BY <2>1, <2>2
<1>5. ASSUME NEW h \in Gates, NEW l \in Levels, NEW k \in SourceKeys
      PROVE  counts'[h][l][k] >= counts[h][l][k]
  BY <1>4 DEF GatesTypeOK
<1>6. ASSUME NEW h \in Gates, NEW l \in Levels, NEW k \in SourceKeys
      PROVE  counts'[h][l][k] = Cardinality(Holders(h, l, k)')
  <2>1. counts[h][l][k] = Cardinality(Holders(h, l, k))
    BY DEF PassesCounted, Holders
  <2>2. CASE h = g /\ k = KeyOf(l, c)
    <3>1. Holders(h, l, k)' = Holders(h, l, k) \cup {c} /\ c \notin Holders(h, l, k)
      BY <1>2, <2>2 DEF Holders
    <3>2. IsFiniteSet(Holders(h, l, k))
      BY AdmissionConstants, FS_Subset DEF Holders
    <3>3. Cardinality(Holders(h, l, k)') = Cardinality(Holders(h, l, k)) + 1
      BY <3>1, <3>2, FS_AddElement, Zenon
    <3> QED BY <1>4, <2>1, <2>2, <3>3
  <2>3. CASE ~(h = g /\ k = KeyOf(l, c))
    <3>1. Holders(h, l, k)' = Holders(h, l, k)
      BY <1>2, <2>3 DEF Holders
    <3> QED BY <1>4, <2>1, <2>3, <3>1
  <2> QED BY <2>2, <2>3
<1>7. PassesCounted'
  BY <1>6 DEF PassesCounted, Holders
<1> QED BY <1>2, <1>3, <1>5, <1>7

\* And one that was held is counted down once.
LEMMA LeaveCounts ==
  ASSUME GatesTypeOK, PassesCounted, NEW g \in Gates, NEW c \in Sockets, g \in passes[c],
         counts' = Leaves(g, c), passes' = [passes EXCEPT ![c] = @ \ {g}]
  PROVE  /\ counts' \in [Gates -> [Levels -> [SourceKeys -> Int]]]
         /\ passes' \in [Sockets -> SUBSET Gates]
         /\ passes'[c] = passes[c] \ {g}
         /\ \A d \in Sockets : d # c => passes'[d] = passes[d]
         /\ \A h \in Gates : h # g => counts'[h] = counts[h]
         /\ PassesCounted'
<1>1. counts' = [counts EXCEPT ![g] = [l \in Levels |-> [counts[g][l] EXCEPT ![KeyOf(l, c)] = @ - 1]]]
  BY DEF Leaves
<1>2. /\ passes' \in [Sockets -> SUBSET Gates] /\ passes'[c] = passes[c] \ {g}
      /\ \A d \in Sockets : d # c => passes'[d] = passes[d]
  BY DEF GatesTypeOK
<1> DEFINE Recounted(l) == [counts[g][l] EXCEPT ![KeyOf(l, c)] = counts[g][l][KeyOf(l, c)] - 1]
<1>a. /\ counts \in [Gates -> [Levels -> [SourceKeys -> Int]]]
      /\ counts' = [counts EXCEPT ![g] = [l \in Levels |-> Recounted(l)]]
  BY <1>1 DEF GatesTypeOK
<1>b. ASSUME NEW l \in Levels PROVE Recounted(l) \in [SourceKeys -> Int]
  <2>1. counts[g][l] \in [SourceKeys -> Int] /\ KeyOf(l, c) \in SourceKeys
    BY <1>a, KeyOfType
  <2>2. counts[g][l][KeyOf(l, c)] - 1 \in Int
    BY <2>1
  <2> QED BY <2>1, <2>2
<1>c. ASSUME NEW l \in Levels, NEW k \in SourceKeys
      PROVE  Recounted(l)[k] = IF k = KeyOf(l, c) THEN counts[g][l][k] - 1 ELSE counts[g][l][k]
  <2>1. counts[g][l] \in [SourceKeys -> Int]
    BY <1>a
  <2> QED BY <2>1
<1>d. [l \in Levels |-> Recounted(l)] \in [Levels -> [SourceKeys -> Int]]
  BY <1>b
<1> HIDE DEF Recounted
<1>3. counts' \in [Gates -> [Levels -> [SourceKeys -> Int]]]
  BY <1>a, <1>d
<1>4. ASSUME NEW h \in Gates, NEW l \in Levels, NEW k \in SourceKeys
      PROVE  counts'[h][l][k] = IF h = g /\ k = KeyOf(l, c) THEN counts[h][l][k] - 1 ELSE counts[h][l][k]
  <2>1. CASE h = g
    <3>1. counts'[h][l] = Recounted(l)
      BY <1>a, <2>1
    <3> QED BY <1>c, <2>1, <3>1
  <2>2. CASE h # g
    BY <1>a, <2>2
  <2> QED BY <2>1, <2>2
<1>5. \A h \in Gates : h # g => counts'[h] = counts[h]
  BY <1>1 DEF GatesTypeOK
<1>6. ASSUME NEW h \in Gates, NEW l \in Levels, NEW k \in SourceKeys
      PROVE  counts'[h][l][k] = Cardinality(Holders(h, l, k)')
  <2>1. counts[h][l][k] = Cardinality(Holders(h, l, k))
    BY DEF PassesCounted, Holders
  <2>2. CASE h = g /\ k = KeyOf(l, c)
    <3>1. Holders(h, l, k)' = Holders(h, l, k) \ {c} /\ c \in Holders(h, l, k)
      BY <1>2, <2>2 DEF Holders
    <3>2. IsFiniteSet(Holders(h, l, k))
      BY AdmissionConstants, FS_Subset DEF Holders
    <3>3. Cardinality(Holders(h, l, k)') = Cardinality(Holders(h, l, k)) - 1
      BY <3>1, <3>2, FS_RemoveElement, ZenonT(60)
    <3> QED BY <1>4, <2>1, <2>2, <3>3
  <2>3. CASE ~(h = g /\ k = KeyOf(l, c))
    <3>1. Holders(h, l, k)' = Holders(h, l, k)
      BY <1>2, <2>3 DEF Holders
    <3> QED BY <1>4, <2>1, <2>3, <3>1
  <2> QED BY <2>2, <2>3
<1>7. PassesCounted'
  BY <1>6 DEF PassesCounted, Holders
<1> QED BY <1>2, <1>3, <1>5, <1>7

\* A gate that is full stays full while nobody leaves it.
LEMMA StaysFull ==
  ASSUME GatesTypeOK, NEW c \in Sockets, ~Admits("handshakes", c),
         counts' \in [Gates -> [Levels -> [SourceKeys -> Int]]],
         \A l \in Levels, k \in SourceKeys : counts'["handshakes"][l][k] >= counts["handshakes"][l][k]
  PROVE  ~Admits("handshakes", c)'
<1>1. PICK l \in Levels : ~(counts["handshakes"][l][KeyOf(l, c)] < Caps["handshakes"][l])
  BY DEF Admits
<1>2. KeyOf(l, c) \in SourceKeys /\ "handshakes" \in Gates
  BY KeyOfType DEF Gates
<1>3. counts'["handshakes"][l][KeyOf(l, c)] >= counts["handshakes"][l][KeyOf(l, c)]
  BY <1>2
<1>4. /\ counts'["handshakes"][l][KeyOf(l, c)] \in Int /\ counts["handshakes"][l][KeyOf(l, c)] \in Int
      /\ Caps["handshakes"][l] \in Int
  BY <1>2, AdmissionConstants DEF GatesTypeOK
<1>5. ~(counts'["handshakes"][l][KeyOf(l, c)] < Caps["handshakes"][l])
  BY <1>1, <1>3, <1>4
<1> QED BY <1>5 DEF Admits

\* Where one task takes a step and nobody leaves the handshakes without waking, whoever was
\* turned away still would be.
LEMMA StillTurnedAway ==
  ASSUME AdmissionInv, NEW c \in Sockets,
         \A d \in Sockets : d # c => phase'[d] = phase[d] /\ (d \in woken => d \in woken'),
         waking \subseteq waking',
         phase'[c] \in {"tried", "asleep"} =>
           \/ ~Admits("handshakes", c)'
           \/ phase[c] \in {"tried", "asleep"} /\ woken' = woken,
         \/ waking' # {}
         \/ /\ counts' \in [Gates -> [Levels -> [SourceKeys -> Int]]]
            /\ \A l \in Levels, k \in SourceKeys : counts'["handshakes"][l][k] >= counts["handshakes"][l][k]
  PROVE  TurnedAway'
<1> SUFFICES ASSUME NEW d \in Sockets, phase'[d] \in {"tried", "asleep"}, d \notin woken', waking' = {}
             PROVE  ~Admits("handshakes", d)'
  BY DEF TurnedAway
<1>1. waking = {}
  OBVIOUS
<1>2. CASE d = c /\ ~Admits("handshakes", c)'
  BY <1>2
<1>3. CASE d # c \/ (phase[c] \in {"tried", "asleep"} /\ woken' = woken)
  <2>1. phase[d] \in {"tried", "asleep"} /\ d \notin woken
    BY <1>3
  <2>2. ~Admits("handshakes", d)
    BY <1>1, <2>1 DEF AdmissionInv, TurnedAway
  <2> QED BY <2>2, StaysFull DEF AdmissionInv
<1> QED BY <1>2, <1>3

\* A step that leaves the counts alone leaves them at least as high.
LEMMA CountsStay ==
  ASSUME GatesTypeOK, counts'["handshakes"] = counts["handshakes"]
  PROVE  \A l \in Levels, k \in SourceKeys : counts'["handshakes"][l][k] >= counts["handshakes"][l][k]
<1>1. \A l \in Levels, k \in SourceKeys : counts["handshakes"][l][k] \in Int
  BY DEF GatesTypeOK, Gates
<1> QED BY <1>1

\* The gates count on where no pass changes hands.
LEMMA StillCounted ==
  ASSUME PassesCounted, UNCHANGED <<passes, counts>>
  PROVE  PassesCounted'
BY DEF PassesCounted

\* Of a task that takes a step it is enough to know what it holds then.
LEMMA OneHolds ==
  ASSUME AdmissionInv, NEW c \in Sockets, NEW ph \in Phases, phase' = [phase EXCEPT ![c] = ph],
         passes' \in [Sockets -> SUBSET Gates], \A d \in Sockets : d # c => passes'[d] = passes[d],
         NEW left \in Seq(Gates), drops' = [drops EXCEPT ![c] = left],
         Held(ph, passes'[c], left),
         counts' \in [Gates -> [Levels -> [SourceKeys -> Int]]]
  PROVE  /\ GatesTypeOK' /\ \A d \in Sockets : Held(phase[d], passes[d], drops[d])'
         /\ phase'[c] = ph /\ \A d \in Sockets : d # c => phase'[d] = phase[d]
<1>1. phase \in [Sockets -> Phases] /\ drops \in [Sockets -> Seq(Gates)]
  BY DEF AdmissionInv, GatesTypeOK
<1>2. /\ phase' \in [Sockets -> Phases] /\ drops' \in [Sockets -> Seq(Gates)]
      /\ phase'[c] = ph /\ drops'[c] = left
      /\ \A d \in Sockets : d # c => phase'[d] = phase[d] /\ drops'[d] = drops[d]
  BY <1>1
<1>3. GatesTypeOK'
  BY <1>2 DEF GatesTypeOK
<1>4. ASSUME NEW d \in Sockets PROVE Held(phase'[d], passes'[d], drops'[d])
  <2>1. CASE d = c
    BY <1>2, <2>1
  <2>2. CASE d # c
    BY <1>2, <2>2 DEF AdmissionInv
  <2> QED BY <2>1, <2>2
<1> QED BY <1>2, <1>3, <1>4

\* A step of a task that takes and drops no pass, nor goes to sleep.
LEMMA OneWaits ==
  ASSUME AdmissionInv, NEW c \in Sockets, NEW ph \in Phases, phase' = [phase EXCEPT ![c] = ph],
         NEW left \in Seq(Gates), drops' = [drops EXCEPT ![c] = left],
         UNCHANGED <<passes, counts, waking>>, Held(ph, passes[c], left),
         \A d \in Sockets : d # c => (d \in woken => d \in woken'),
         ph \in {"tried", "asleep"} =>
           \/ ~Admits("handshakes", c)
           \/ phase[c] \in {"tried", "asleep"} /\ woken' = woken
  PROVE  AdmissionInv'
<1>1. /\ passes' \in [Sockets -> SUBSET Gates] /\ counts' \in [Gates -> [Levels -> [SourceKeys -> Int]]]
  BY DEF AdmissionInv, GatesTypeOK
<1>2. /\ GatesTypeOK' /\ \A d \in Sockets : Held(phase[d], passes[d], drops[d])'
      /\ phase'[c] = ph /\ \A d \in Sockets : d # c => phase'[d] = phase[d]
  BY <1>1, OneHolds
<1>3. PassesCounted'
  BY StillCounted DEF AdmissionInv
<1>4. Admits("handshakes", c)' <=> Admits("handshakes", c)
  BY DEF Admits
<1>5. \A l \in Levels, k \in SourceKeys : counts'["handshakes"][l][k] >= counts["handshakes"][l][k]
  BY CountsStay DEF AdmissionInv
<1>6. TurnedAway'
  BY <1>1, <1>2, <1>4, <1>5, StillTurnedAway
<1> QED BY <1>2, <1>3, <1>6 DEF AdmissionInv

\* A task that enters a gate it has no pass of.
LEMMA OneEnters ==
  ASSUME AdmissionInv, NEW c \in Sockets, NEW ph \in Phases, phase' = [phase EXCEPT ![c] = ph],
         NEW g \in Gates, g \notin passes[c], Enters(g, c), UNCHANGED <<drops, waking>>,
         Held(ph, passes[c] \cup {g}, drops[c]), ph \notin {"tried", "asleep"},
         \A d \in Sockets : d # c => (d \in woken => d \in woken')
  PROVE  AdmissionInv'
<1>1. /\ counts' \in [Gates -> [Levels -> [SourceKeys -> Int]]]
      /\ passes' \in [Sockets -> SUBSET Gates]
      /\ passes'[c] = passes[c] \cup {g}
      /\ \A d \in Sockets : d # c => passes'[d] = passes[d]
      /\ \A h \in Gates, l \in Levels, k \in SourceKeys : counts'[h][l][k] >= counts[h][l][k]
      /\ PassesCounted'
  BY EnterCounts DEF AdmissionInv
<1>2. drops' = [drops EXCEPT ![c] = drops[c]] /\ drops[c] \in Seq(Gates)
  BY DEF AdmissionInv, GatesTypeOK
<1>6. Held(ph, passes'[c], drops[c])
  BY <1>1
<1>3. /\ GatesTypeOK' /\ \A d \in Sockets : Held(phase[d], passes[d], drops[d])'
      /\ phase'[c] = ph /\ \A d \in Sockets : d # c => phase'[d] = phase[d]
  BY <1>1, <1>2, <1>6, OneHolds
<1>4. \A l \in Levels, k \in SourceKeys : counts'["handshakes"][l][k] >= counts["handshakes"][l][k]
  BY <1>1 DEF Gates
<1>5. TurnedAway'
  BY <1>1, <1>3, <1>4, StillTurnedAway
<1> QED BY <1>1, <1>3, <1>5 DEF AdmissionInv

\* What lists of passes are put together to.
LEMMA ShortLists ==
  ASSUME NEW x, NEW y, NEW z
  PROVE  /\ <<x>> \o <<>> = <<x>> /\ <<>> \o <<x>> = <<x>>
         /\ <<>> \o <<>> = <<>>
         /\ <<x>> \o <<y>> = <<x, y>>
         /\ <<x, y>> \o <<z>> = <<x, y, z>>
<1>1. <<x>> \o <<>> = <<x>> /\ <<>> \o <<x>> = <<x>>
  OBVIOUS
<1>2. <<>> \o <<>> = <<>>
  OBVIOUS
<1> DEFINE S == {x, y, z}
<1>a. /\ <<x>> \in Seq(S) /\ <<y>> \in Seq(S) /\ <<z>> \in Seq(S)
      /\ <<x, y>> \in Seq(S) /\ <<x, y, z>> \in Seq(S)
      /\ 1..1 = {1} /\ 1..2 = {1, 2} /\ 1..3 = {1, 2, 3}
  OBVIOUS
<1> HIDE DEF S
<1>3. <<x>> \o <<y>> = <<x, y>>
  <2>1. /\ <<x>> \o <<y>> \in Seq(S) /\ Len(<<x>> \o <<y>>) = 2
        /\ (<<x>> \o <<y>>)[1] = x /\ (<<x>> \o <<y>>)[2] = y
    BY <1>a, ConcatProperties
  <2>2. Len(<<x, y>>) = 2 /\ \A i \in 1..2 : (<<x>> \o <<y>>)[i] = <<x, y>>[i]
    BY <1>a, <2>1
  <2> DEFINE s == <<x>> \o <<y>>
             t == <<x, y>>
  <2>3. s \in Seq(S) /\ t \in Seq(S) /\ Len(s) = Len(t) /\ \A i \in 1..Len(s) : s[i] = t[i]
    BY <1>a, <2>1, <2>2
  <2> HIDE DEF s, t
  <2>4. s = t
    BY <2>3, SeqEqual
  <2> QED BY <2>4 DEF s, t
<1>4. <<x, y>> \o <<z>> = <<x, y, z>>
  <2>1. /\ <<x, y>> \o <<z>> \in Seq(S) /\ Len(<<x, y>> \o <<z>>) = 3
        /\ (<<x, y>> \o <<z>>)[1] = x /\ (<<x, y>> \o <<z>>)[2] = y /\ (<<x, y>> \o <<z>>)[3] = z
    BY <1>a, ConcatProperties
  <2>2. Len(<<x, y, z>>) = 3 /\ \A i \in 1..3 : (<<x, y>> \o <<z>>)[i] = <<x, y, z>>[i]
    BY <1>a, <2>1
  <2> DEFINE s == <<x, y>> \o <<z>>
             t == <<x, y, z>>
  <2>3. s \in Seq(S) /\ t \in Seq(S) /\ Len(s) = Len(t) /\ \A i \in 1..Len(s) : s[i] = t[i]
    BY <1>a, <2>1, <2>2
  <2> HIDE DEF s, t
  <2>4. s = t
    BY <2>3, SeqEqual
  <2> QED BY <2>4 DEF s, t
<1> QED BY <1>1, <1>2, <1>3, <1>4

\* serve returns with the passes of some phase, and has them all to drop.
LEMMA EndHolds ==
  ASSUME AdmissionInv, NEW c \in Sockets, phase[c] \notin {"off", "end"}, drops[c] = <<>>
  PROVE  LET left == IfHeld("connections", c) \o IfHeld("handshakes", c) \o IfHeld("unauthenticated", c)
         IN  left \in Seq(Gates) /\ Held("end", passes[c], left)
<1> DEFINE left == IfHeld("connections", c) \o IfHeld("handshakes", c) \o IfHeld("unauthenticated", c)
<1>1. Held(phase[c], passes[c], drops[c])
  BY DEF AdmissionInv
<1>2. CASE passes[c] = {"unauthenticated"}
  <2>1. /\ IfHeld("connections", c) = <<>>
        /\ IfHeld("handshakes", c) = <<>>
        /\ IfHeld("unauthenticated", c) = <<"unauthenticated">>
    BY <1>2 DEF IfHeld, Gates
  <2>2. left = <<"unauthenticated">>
    BY <2>1, ShortLists
  <2>3. <<"unauthenticated">> \in Seq(Gates) /\ Held("end", passes[c], <<"unauthenticated">>)
    BY <1>2 DEF Held, Gates
  <2> QED BY <2>2, <2>3
<1>3. CASE passes[c] = {"unauthenticated", "handshakes"}
  <2>1. /\ IfHeld("connections", c) = <<>>
        /\ IfHeld("handshakes", c) = <<"handshakes">>
        /\ IfHeld("unauthenticated", c) = <<"unauthenticated">>
    BY <1>3 DEF IfHeld, Gates
  <2>2. left = <<"handshakes", "unauthenticated">>
    BY <2>1, ShortLists
  <2>3. <<"handshakes", "unauthenticated">> \in Seq(Gates) /\ Held("end", passes[c], <<"handshakes", "unauthenticated">>)
    BY <1>3 DEF Held, Gates
  <2> QED BY <2>2, <2>3
<1>4. CASE passes[c] = Gates
  <2>1. /\ IfHeld("connections", c) = <<"connections">>
        /\ IfHeld("handshakes", c) = <<"handshakes">>
        /\ IfHeld("unauthenticated", c) = <<"unauthenticated">>
    BY <1>4 DEF IfHeld, Gates
  <2>2. left = <<"connections", "handshakes", "unauthenticated">>
    BY <2>1, ShortLists
  <2>3. <<"connections", "handshakes", "unauthenticated">> \in Seq(Gates) /\ Held("end", passes[c], <<"connections", "handshakes", "unauthenticated">>)
    BY <1>4 DEF Held, Gates
  <2> QED BY <2>2, <2>3
<1>5. CASE passes[c] = {"connections"}
  <2>1. /\ IfHeld("connections", c) = <<"connections">>
        /\ IfHeld("handshakes", c) = <<>>
        /\ IfHeld("unauthenticated", c) = <<>>
    BY <1>5 DEF IfHeld, Gates
  <2>2. left = <<"connections">>
    BY <2>1, ShortLists
  <2>3. <<"connections">> \in Seq(Gates) /\ Held("end", passes[c], <<"connections">>)
    BY <1>5 DEF Held, Gates
  <2> QED BY <2>2, <2>3
<1> QED BY <1>1, <1>2, <1>3, <1>4, <1>5 DEF Held

\* A task whose serve returns.
LEMMA OneEnds ==
  ASSUME AdmissionInv, NEW c \in Sockets, phase[c] \notin {"off", "end"}, drops[c] = <<>>, Ends(c),
         UNCHANGED <<passes, counts, waking>>,
         \A d \in Sockets : d # c => (d \in woken => d \in woken')
  PROVE  AdmissionInv'
<1> DEFINE left == IfHeld("connections", c) \o IfHeld("handshakes", c) \o IfHeld("unauthenticated", c)
<1>1. left \in Seq(Gates) /\ Held("end", passes[c], left)
  BY EndHolds
<1>2. phase' = [phase EXCEPT ![c] = "end"] /\ drops' = [drops EXCEPT ![c] = left]
  BY DEF Ends
<1>3. "end" \in Phases /\ "end" \notin {"tried", "asleep"}
  BY DEF Phases
<1> QED BY <1>1, <1>2, <1>3, OneWaits

\* A pass that is dropped was held, and the others to drop still are.
LEMMA DropHolds ==
  ASSUME AdmissionInv, NEW c \in Sockets, drops[c] # <<>>
  PROVE  /\ Head(drops[c]) \in Gates /\ Head(drops[c]) \in passes[c]
         /\ Tail(drops[c]) \in Seq(Gates)
         /\ Held(phase[c], passes[c] \ {Head(drops[c])}, Tail(drops[c]))
<1>1. Held(phase[c], passes[c], drops[c])
  BY DEF AdmissionInv
<1>2. CASE phase[c] = "served" /\ passes[c] = Gates /\ drops[c] = <<"handshakes", "unauthenticated">>
  <2>1. Head(drops[c]) = "handshakes" /\ Tail(drops[c]) = <<"unauthenticated">>
    BY <1>2
  <2> QED BY <1>2, <2>1 DEF Held, Gates
<1>3. CASE phase[c] \in {"served", "end"} /\ drops[c] = <<"unauthenticated">>
           /\ passes[c] \in {{"unauthenticated"}, {"connections", "unauthenticated"}}
  <2>1. Head(drops[c]) = "unauthenticated" /\ Tail(drops[c]) = <<>>
    BY <1>3
  <2> QED BY <1>1, <1>3, <2>1 DEF Held, Gates
<1>4. CASE phase[c] = "end" /\ passes[c] = Gates
           /\ drops[c] = <<"connections", "handshakes", "unauthenticated">>
  <2>1. Head(drops[c]) = "connections" /\ Tail(drops[c]) = <<"handshakes", "unauthenticated">>
    BY <1>4
  <2> QED BY <1>4, <2>1 DEF Held, Gates
<1>5. CASE phase[c] = "end" /\ passes[c] = {"unauthenticated", "handshakes"}
           /\ drops[c] = <<"handshakes", "unauthenticated">>
  <2>1. Head(drops[c]) = "handshakes" /\ Tail(drops[c]) = <<"unauthenticated">>
    BY <1>5
  <2> QED BY <1>5, <2>1 DEF Held, Gates
<1>6. CASE phase[c] = "end" /\ passes[c] = {"connections"} /\ drops[c] = <<"connections">>
  <2>1. Head(drops[c]) = "connections" /\ Tail(drops[c]) = <<>>
    BY <1>6
  <2> QED BY <1>6, <2>1 DEF Held, Gates
<1> QED BY <1>1, <1>2, <1>3, <1>4, <1>5, <1>6 DEF Held

\* Pass::drop.
LEMMA DropKeeps ==
  ASSUME AdmissionInv, NEW c \in Sockets, Drop(c)
  PROVE  AdmissionInv'
<1> DEFINE g == Head(drops[c])
<1>1. /\ g \in Gates /\ g \in passes[c] /\ Tail(drops[c]) \in Seq(Gates)
      /\ Held(phase[c], passes[c] \ {g}, Tail(drops[c]))
  BY DropHolds DEF Drop
<1>2. /\ counts' = Leaves(g, c) /\ passes' = [passes EXCEPT ![c] = @ \ {g}]
      /\ waking' = IF g = "handshakes" THEN waking \cup {c} ELSE waking
      /\ drops' = [drops EXCEPT ![c] = Tail(drops[c])] /\ phase' = phase /\ woken' = woken
  BY DEF Drop
<1> HIDE DEF g
<1>3. /\ counts' \in [Gates -> [Levels -> [SourceKeys -> Int]]]
      /\ passes' \in [Sockets -> SUBSET Gates]
      /\ passes'[c] = passes[c] \ {g}
      /\ \A d \in Sockets : d # c => passes'[d] = passes[d]
      /\ \A h \in Gates : h # g => counts'[h] = counts[h]
      /\ PassesCounted'
  BY <1>1, <1>2, LeaveCounts DEF AdmissionInv
<1>4. phase' = [phase EXCEPT ![c] = phase[c]] /\ phase[c] \in Phases
  BY <1>2 DEF AdmissionInv, GatesTypeOK
<1>5. Held(phase[c], passes'[c], Tail(drops[c]))
  BY <1>1, <1>3
<1>6. GatesTypeOK' /\ \A d \in Sockets : Held(phase[d], passes[d], drops[d])'
  BY <1>1, <1>2, <1>3, <1>4, <1>5, OneHolds
<1>7. \/ waking' # {}
      \/ \A l \in Levels, k \in SourceKeys : counts'["handshakes"][l][k] >= counts["handshakes"][l][k]
  <2>1. CASE g = "handshakes"
    BY <1>2, <2>1
  <2>2. CASE g # "handshakes"
    BY <1>3, <2>2, CountsStay DEF AdmissionInv, Gates
  <2> QED BY <2>1, <2>2
<1>8. waking \subseteq waking'
  BY <1>2
<1>9. TurnedAway'
  BY <1>2, <1>3, <1>7, <1>8, StillTurnedAway
<1> QED BY <1>3, <1>6, <1>9 DEF AdmissionInv

\* notify_waiters.
LEMMA NotifyKeeps ==
  ASSUME AdmissionInv, NEW c \in Sockets, Notify(c)
  PROVE  AdmissionInv'
<1>1. UNCHANGED <<phase, passes, drops, counts>> /\ woken' = woken \cup Listening
  BY DEF Notify
<1>2. GatesTypeOK' /\ \A d \in Sockets : Held(phase[d], passes[d], drops[d])'
  BY <1>1 DEF AdmissionInv, GatesTypeOK
<1>3. PassesCounted'
  BY <1>1, StillCounted DEF AdmissionInv
<1>4. TurnedAway'
  BY <1>1 DEF TurnedAway, Listening
<1> QED BY <1>2, <1>3, <1>4 DEF AdmissionInv

\* The steps of a task keep the invariant.
LEMMA AdmissionKeeps ==
  ASSUME AdmissionInv, [AdmissionNext]_admissionVars
  PROVE  AdmissionInv'
<1>1. CASE UNCHANGED admissionVars
  <2>1. UNCHANGED <<phase, passes, drops, waking, woken, counts>>
    BY <1>1 DEF admissionVars
  <2>2. GatesTypeOK' /\ \A c \in Sockets : Held(phase[c], passes[c], drops[c])'
    BY <2>1 DEF AdmissionInv, GatesTypeOK
  <2>3. PassesCounted'
    BY <2>1, StillCounted DEF AdmissionInv
  <2>4. TurnedAway'
    BY <2>1 DEF AdmissionInv, TurnedAway, Admits
  <2> QED BY <2>2, <2>3, <2>4 DEF AdmissionInv
<1>2. ASSUME NEW c \in Sockets,
             \/ Accept(c) \/ Secured(c) \/ TrySlot(c) \/ Sleep(c) \/ Wake(c) \/ Greeted(c)
             \/ SignIn(c) \/ Refuse(c) \/ GiveUp(c)
             \/ Disconnect(c) \/ Ended(c) \/ Drop(c) \/ Notify(c)
      PROVE  AdmissionInv'
  <2>1. /\ Held(phase[c], passes[c], drops[c])
        /\ drops[c] \in Seq(Gates) /\ drops = [drops EXCEPT ![c] = drops[c]]
    BY DEF AdmissionInv, GatesTypeOK
  <2>2. CASE Accept(c)
    <3>1. passes[c] = {} /\ drops[c] = <<>>
      BY <2>1, <2>2 DEF Accept, Held
    <3>2. /\ "unauthenticated" \in Gates /\ "tls" \in Phases /\ "unauthenticated" \notin passes[c]
          /\ Held("tls", passes[c] \cup {"unauthenticated"}, drops[c])
      BY <3>1 DEF Held, Gates, Phases
    <3> QED BY <2>2, <3>2, OneEnters DEF Accept
  <2>3. CASE Secured(c)
    <3>1. Held("trying", passes[c], drops[c]) /\ "trying" \in Phases
      BY <2>1, <2>3 DEF Secured, Held, Phases
    <3> QED BY <2>1, <2>3, <3>1, OneWaits DEF Secured, gateVars
  <2>4. CASE TrySlot(c)
    <3>1. passes[c] = {"unauthenticated"} /\ drops[c] = <<>>
      BY <2>1, <2>4 DEF TrySlot, Held
    <3>2. CASE Admits("handshakes", c)
      <4>1. /\ "handshakes" \in Gates /\ "greeting" \in Phases /\ "handshakes" \notin passes[c]
            /\ Held("greeting", passes[c] \cup {"handshakes"}, drops[c])
        BY <3>1 DEF Held, Gates, Phases
      <4> QED BY <2>4, <3>2, <4>1, OneEnters DEF TrySlot
    <3>3. CASE ~Admits("handshakes", c)
      <4>1. Held("tried", passes[c], drops[c]) /\ "tried" \in Phases
        BY <3>1 DEF Held, Phases
      <4> QED BY <2>1, <2>4, <3>3, <4>1, OneWaits DEF TrySlot
    <3> QED BY <3>2, <3>3
  <2>5. CASE Sleep(c)
    <3>1. Held("asleep", passes[c], drops[c]) /\ "asleep" \in Phases
      BY <2>1, <2>5 DEF Sleep, Held, Phases
    <3> QED BY <2>1, <2>5, <3>1, OneWaits DEF Sleep, gateVars
  <2>6. CASE Wake(c)
    <3>1. Held("trying", passes[c], drops[c]) /\ "trying" \in Phases
      BY <2>1, <2>6 DEF Wake, Held, Phases
    <3> QED BY <2>1, <2>6, <3>1, OneWaits DEF Wake
  <2>7. CASE Greeted(c)
    <3>1. passes[c] = {"unauthenticated", "handshakes"} /\ drops[c] = <<>>
      BY <2>1, <2>7 DEF Greeted, Held
    <3>2. CASE Admits("connections", c)
      <4>1. /\ "connections" \in Gates /\ "signing" \in Phases /\ "connections" \notin passes[c]
            /\ Held("signing", passes[c] \cup {"connections"}, drops[c])
        BY <3>1 DEF Held, Gates, Phases
      <4> QED BY <2>7, <3>2, <4>1, OneEnters DEF Greeted
    <3>3. CASE ~Admits("connections", c)
      BY <2>7, <3>1, <3>3, OneEnds DEF Greeted
    <3> QED BY <3>2, <3>3
  <2>8. CASE SignIn(c)
    <3>1. passes[c] = Gates /\ drops' = [drops EXCEPT ![c] = <<"handshakes", "unauthenticated">>]
      BY <2>1, <2>8 DEF SignIn, Held, SignedInDrops
    <3>2. /\ <<"handshakes", "unauthenticated">> \in Seq(Gates) /\ "served" \in Phases
          /\ Held("served", passes[c], <<"handshakes", "unauthenticated">>)
      BY <3>1 DEF Held, Gates, Phases
    <3> QED BY <2>8, <3>1, <3>2, OneWaits DEF SignIn
  <2>9. CASE Refuse(c)
    <3>1. Held("refusing", passes[c], drops[c]) /\ "refusing" \in Phases
      BY <2>1, <2>9 DEF Refuse, Held, Phases
    <3> QED BY <2>1, <2>9, <3>1, OneWaits DEF Refuse, gateVars
  <2>10. CASE GiveUp(c)
    <3>1. drops[c] = <<>> /\ phase[c] \notin {"off", "end"}
      BY <2>1, <2>10 DEF GiveUp, Held
    <3> QED BY <2>10, <3>1, OneEnds DEF GiveUp
  <2>11. CASE Disconnect(c)
    <3>1. drops[c] = <<>> /\ phase[c] \notin {"off", "end"}
      BY <2>11 DEF Disconnect, Running
    <3> QED BY <2>11, <3>1, OneEnds DEF Disconnect
  <2>12. CASE Ended(c)
    <3>1. Held("off", passes[c], drops[c]) /\ "off" \in Phases
      BY <2>1, <2>12 DEF Ended, Running, Held, Phases
    <3> QED BY <2>1, <2>12, <3>1, OneWaits DEF Ended, gateVars
  <2>13. CASE Drop(c)
    BY <2>13, DropKeeps
  <2>14. CASE Notify(c)
    BY <2>14, NotifyKeeps
  <2> QED BY <1>2, <2>2, <2>3, <2>4, <2>5, <2>6, <2>7, <2>8, <2>9, <2>10, <2>11, <2>12, <2>13, <2>14
<1> QED BY <1>1, <1>2 DEF AdmissionNext

\* It holds at the start.
LEMMA AdmissionStarts ==
  ASSUME AdmissionInit
  PROVE  AdmissionInv
<1>1. GatesTypeOK
  BY DEF AdmissionInit, GatesTypeOK, Phases
<1>2. \A c \in Sockets : Held(phase[c], passes[c], drops[c])
  BY DEF AdmissionInit, Held
<1>3. ASSUME NEW g \in Gates, NEW l \in Levels, NEW k \in SourceKeys
      PROVE  counts[g][l][k] = Cardinality(Holders(g, l, k))
  <2>1. Holders(g, l, k) = {}
    BY DEF AdmissionInit, Holders
  <2> QED BY <2>1, FS_EmptySet DEF AdmissionInit
<1>4. PassesCounted
  BY <1>3 DEF PassesCounted, Holders
<1>5. TurnedAway
  BY DEF AdmissionInit, TurnedAway
<1> QED BY <1>1, <1>2, <1>4, <1>5 DEF AdmissionInv

\* limits.rs, Gate: every gate counts exactly the passes held, whichever way a connection ends,
\* and nobody sleeps in front of one that would admit them unless they are being woken: for any
\* number of connections, whatever their addresses and networks, and any caps.
THEOREM SlotsAlwaysCounted == AdmissionSpec => [](PassesCounted /\ NoLostWakeup)
<1>1. AdmissionInit => AdmissionInv
  BY AdmissionStarts
<1>2. AdmissionInv /\ [AdmissionNext]_admissionVars => AdmissionInv'
  BY AdmissionKeeps
<1>3. AdmissionInv => PassesCounted /\ NoLostWakeup
  BY DEF AdmissionInv, TurnedAway, NoLostWakeup
<1> QED BY <1>1, <1>2, <1>3, PTL DEF AdmissionSpec

-----------------------------------------------------------------------------
(* The limits. *)

\* What two ticks gave away and what is left of a bucket, against its burst.
Balanced(tokens, given, burst) ==
  /\ tokens + given[1] <= burst
  /\ tokens + given[1] + given[2] <= burst + 1

\* The buckets of arrivals, known or not, are in balance with what they let in.
ArrivalInv ==
  /\ arrived \in [AllArrivalKeys -> Nat \X Nat]
  /\ DOMAIN buckets \subseteq AllArrivalKeys
  /\ \A k \in DOMAIN buckets : buckets[k] \in Nat
  /\ \A k \in AllArrivalKeys : Balanced(Tokens(buckets, k), arrived[k], Arrivals[k[1]])

\* A bucket has a burst.
LEMMA BurstType ==
  ASSUME NEW k \in AllArrivalKeys
  PROVE  Arrivals[k[1]] \in Nat \ {0}
<1>1. PICK h \in Hosts : k \in ArrivalKeys(h)
  BY DEF AllArrivalKeys
<1>2. PICK s \in {"source", "network"} : k = ScopeKey(s, h)
  BY <1>1 DEF ArrivalKeys
<1>3. k[1] = s
  BY <1>2 DEF ScopeKey
<1> QED BY <1>3, LimitsConstants

\* A refill keeps the balance, of what was given in the tick that is over.
LEMMA RefillBalances ==
  ASSUME NEW tokens \in Nat, NEW given \in Nat \X Nat, NEW burst \in Nat,
         Balanced(tokens, given, burst)
  PROVE  /\ Refilled(tokens, burst) \in Nat
         /\ Balanced(Refilled(tokens, burst), <<0, given[1]>>, burst)
BY DEF Balanced, Refilled, Least

\* Giving tokens keeps it.
LEMMA GiveBalances ==
  ASSUME NEW tokens \in Nat, NEW given \in Nat \X Nat, NEW burst \in Nat, NEW n \in Nat,
         n <= tokens, Balanced(tokens, given, burst)
  PROVE  /\ [given EXCEPT ![1] = @ + n] \in Nat \X Nat
         /\ Balanced(tokens - n, [given EXCEPT ![1] = @ + n], burst)
BY DEF Balanced

\* A sweep forgets nothing: the buckets it drops are full.
LEMMA SweepForgetsNothing ==
  ASSUME ArrivalInv,
         NEW known, known = IF sweepDue THEN Swept(buckets) ELSE buckets
  PROVE  /\ DOMAIN known \subseteq AllArrivalKeys
         /\ \A k \in DOMAIN known : known[k] \in Nat
         /\ \A k \in AllArrivalKeys : Tokens(known, k) \in Nat /\ Tokens(known, k) = Tokens(buckets, k)
<1>1. \A k \in AllArrivalKeys : Tokens(buckets, k) \in Nat
  BY BurstType DEF ArrivalInv, Tokens
<1>2. CASE ~sweepDue
  BY <1>1, <1>2 DEF ArrivalInv
<1>3. CASE sweepDue
  <2>1. DOMAIN known = {k \in DOMAIN buckets : buckets[k] < Arrivals[k[1]]}
    BY <1>3 DEF Swept, Restrict
  <2>2. \A k \in DOMAIN known : known[k] = buckets[k]
    BY <1>3, <2>1 DEF Swept, Restrict
  <2>3. ASSUME NEW k \in AllArrivalKeys PROVE Tokens(known, k) = Tokens(buckets, k)
    <3>1. CASE k \in DOMAIN known
      BY <3>1, <2>1, <2>2 DEF Tokens
    <3>2. CASE k \notin DOMAIN buckets
      BY <3>2, <2>1 DEF Tokens
    <3>3. CASE k \in DOMAIN buckets /\ k \notin DOMAIN known
      <4>1. buckets[k] >= Arrivals[k[1]]
        BY <3>3, <2>1, BurstType DEF ArrivalInv
      <4>2. buckets[k] + arrived[k][1] <= Arrivals[k[1]]
        BY <3>3 DEF ArrivalInv, Balanced, Tokens
      <4>3. buckets[k] \in Nat /\ Arrivals[k[1]] \in Nat /\ arrived[k][1] \in Nat
        BY <3>3, BurstType DEF ArrivalInv
      <4>4. buckets[k] = Arrivals[k[1]]
        BY <4>1, <4>2, <4>3
      <4> QED BY <4>4, <3>3 DEF Tokens
    <3> QED BY <3>1, <3>2, <3>3
  <2> QED BY <1>1, <2>1, <2>2, <2>3 DEF ArrivalInv
<1> QED BY <1>2, <1>3

\* No step of the accept loop's limiter loses the balance.
LEMMA ArrivalStep ==
  ASSUME ArrivalInv, [ArrivalsNext]_arrivalVars
  PROVE  ArrivalInv'
<1>1. CASE ArrivalsTick
  <2>1. /\ DOMAIN buckets' = DOMAIN buckets
        /\ \A k \in DOMAIN buckets : buckets'[k] = Refilled(buckets[k], Arrivals[k[1]])
        /\ \A k \in AllArrivalKeys : arrived'[k] = <<0, arrived[k][1]>>
    BY <1>1 DEF ArrivalsTick
  <2>2. arrived' \in [AllArrivalKeys -> Nat \X Nat]
    BY <1>1 DEF ArrivalsTick, ArrivalInv
  <2>3. ASSUME NEW k \in AllArrivalKeys
        PROVE  /\ k \in DOMAIN buckets => buckets'[k] \in Nat
               /\ Balanced(Tokens(buckets', k), arrived'[k], Arrivals[k[1]])
    <3>1. Balanced(Tokens(buckets, k), arrived[k], Arrivals[k[1]]) /\ arrived[k] \in Nat \X Nat
      BY DEF ArrivalInv
    <3>2. CASE k \in DOMAIN buckets
      <4>1. Tokens(buckets, k) = buckets[k] /\ buckets[k] \in Nat
        BY <3>2 DEF Tokens, ArrivalInv
      <4>2. Tokens(buckets', k) = Refilled(buckets[k], Arrivals[k[1]])
        BY <3>2, <2>1 DEF Tokens
      <4> QED BY <3>1, <4>1, <4>2, <2>1, <3>2, BurstType, RefillBalances
    <3>3. CASE k \notin DOMAIN buckets
      <4>1. Tokens(buckets, k) = Arrivals[k[1]] /\ Tokens(buckets', k) = Arrivals[k[1]]
        BY <3>3, <2>1 DEF Tokens
      <4> QED BY <3>1, <4>1, <2>1, <3>3, BurstType DEF Balanced
    <3> QED BY <3>2, <3>3
  <2> QED BY <2>1, <2>2, <2>3 DEF ArrivalInv
<1>2. ASSUME NEW h \in Hosts, NewArrival(h) PROVE ArrivalInv'
  <2>1. PICK known : known = IF sweepDue THEN Swept(buckets) ELSE buckets
    OBVIOUS
  <2>2. /\ DOMAIN known \subseteq AllArrivalKeys
        /\ \A k \in DOMAIN known : known[k] \in Nat
        /\ \A k \in AllArrivalKeys : Tokens(known, k) \in Nat /\ Tokens(known, k) = Tokens(buckets, k)
    BY <2>1, SweepForgetsNothing
  <2>3. ArrivalKeys(h) \subseteq AllArrivalKeys
    BY DEF AllArrivalKeys
  <2>4. CASE buckets' = known /\ arrived' = arrived
    BY <2>2, <2>4 DEF ArrivalInv
  <2>5. CASE /\ \A k \in ArrivalKeys(h) : Tokens(known, k) >= 1
             /\ buckets' = [k \in ArrivalKeys(h) \cup DOMAIN known |->
                  IF k \in ArrivalKeys(h) THEN Tokens(known, k) - 1 ELSE known[k]]
             /\ arrived' = [k \in AllArrivalKeys |->
                  IF k \in ArrivalKeys(h) THEN [arrived[k] EXCEPT ![1] = @ + 1] ELSE arrived[k]]
    <3>1. ASSUME NEW k \in AllArrivalKeys
          PROVE  /\ arrived'[k] \in Nat \X Nat
                 /\ Balanced(Tokens(buckets', k), arrived'[k], Arrivals[k[1]])
      <4>1. Balanced(Tokens(known, k), arrived[k], Arrivals[k[1]]) /\ arrived[k] \in Nat \X Nat
        BY <2>2 DEF ArrivalInv
      <4>2. CASE k \in ArrivalKeys(h)
        <5>1. Tokens(buckets', k) = Tokens(known, k) - 1
          BY <4>2, <2>5 DEF Tokens
        <5>2. arrived'[k] = [arrived[k] EXCEPT ![1] = @ + 1]
          BY <4>2, <2>5
        <5>3. Tokens(known, k) \in Nat /\ 1 <= Tokens(known, k)
          BY <4>2, <2>2, <2>5
        <5> QED BY <4>1, <5>1, <5>2, <5>3, BurstType, GiveBalances
      <4>3. CASE k \notin ArrivalKeys(h)
        <5>1. Tokens(buckets', k) = Tokens(known, k)
          BY <4>3, <2>5 DEF Tokens
        <5>2. arrived'[k] = arrived[k]
          BY <4>3, <2>5
        <5> QED BY <4>1, <5>1, <5>2
      <4> QED BY <4>2, <4>3
    <3>2. arrived' \in [AllArrivalKeys -> Nat \X Nat]
      <4>1. arrived' = [k \in AllArrivalKeys |-> arrived'[k]]
        BY <2>5
      <4> QED BY <4>1, <3>1
    <3>3. DOMAIN buckets' = ArrivalKeys(h) \cup DOMAIN known
      BY <2>5
    <3>4. ASSUME NEW k \in DOMAIN buckets' PROVE buckets'[k] \in Nat
      <4>1. CASE k \in ArrivalKeys(h)
        BY <4>1, <2>2, <2>3, <2>5
      <4>2. CASE k \notin ArrivalKeys(h)
        BY <4>2, <3>3, <2>2, <2>5
      <4> QED BY <4>1, <4>2
    <3> QED BY <3>1, <3>2, <3>3, <3>4, <2>2, <2>3 DEF ArrivalInv
  <2> QED BY <1>2, <2>1, <2>4, <2>5 DEF NewArrival
<1>3. CASE UNCHANGED arrivalVars
  BY <1>3 DEF ArrivalInv, arrivalVars
<1> QED BY <1>1, <1>2, <1>3 DEF ArrivalsNext

\* The balance at the start.
LEMMA ArrivalStart == ArrivalsInit => ArrivalInv
<1> SUFFICES ASSUME ArrivalsInit PROVE ArrivalInv
  OBVIOUS
<1>1. DOMAIN buckets = {}
  BY DEF ArrivalsInit
<1>2. \A k \in AllArrivalKeys : arrived[k] = <<0, 0>> /\ Tokens(buckets, k) = Arrivals[k[1]]
  BY <1>1 DEF ArrivalsInit, Tokens
<1>3. arrived \in [AllArrivalKeys -> Nat \X Nat]
  BY DEF ArrivalsInit
<1> QED BY <1>1, <1>2, <1>3, BurstType DEF ArrivalInv, Balanced

\* What the balance says.
LEMMA ArrivalSays == ArrivalInv => ArrivalsLimited
<1> SUFFICES ASSUME ArrivalInv, NEW k \in AllArrivalKeys
             PROVE  arrived[k][1] + arrived[k][2] <= Arrivals[k[1]] + 1
  BY DEF ArrivalsLimited
<1>1. Tokens(buckets, k) \in Nat /\ Arrivals[k[1]] \in Nat /\ arrived[k] \in Nat \X Nat
  BY BurstType DEF ArrivalInv, Tokens
<1> QED BY <1>1 DEF ArrivalInv, Balanced

\* The track's allowance of bytes: all of it where it isn't known.
BytesOf(allowances, t) == IF t \in DOMAIN allowances THEN allowances[t].bytes ELSE TrackBurst.bytes

\* The allowances of the audio tracks are in balance with what they let through.
IngressInv ==
  /\ forwarded \in [IngressTracks -> Nat \X Nat]
  /\ \A t \in DOMAIN policer : policer[t] \in [packets : Nat, bytes : Nat]
  /\ \A t \in IngressTracks \ {VideoTrack} :
       Balanced(BytesOf(policer, t), forwarded[t], TrackBurst.bytes)

\* The sweep of the allowances forgets nothing either, and the track of a datagram is known then.
LEMMA PolicedForgetsNothing ==
  ASSUME IngressInv, NEW t \in IngressTracks, NEW known, known = Policed(t)
  PROVE  /\ t \in DOMAIN known
         /\ \A s \in DOMAIN known : known[s] \in [packets : Nat, bytes : Nat]
         /\ \A s \in IngressTracks : BytesOf(known, s) = BytesOf(policer, s)
<1>1. PICK kept : kept = IF policed
                         THEN Restrict(policer, {s \in DOMAIN policer : ~FullAllowance(policer[s])})
                         ELSE policer
  OBVIOUS
<1>2. known = [s \in DOMAIN kept \cup {t} |-> IF s \in DOMAIN kept THEN kept[s] ELSE TrackBurst]
  BY <1>1 DEF Policed
<1>3. /\ DOMAIN kept \subseteq DOMAIN policer
      /\ \A s \in DOMAIN kept : kept[s] = policer[s]
      /\ \A s \in DOMAIN policer \ DOMAIN kept : FullAllowance(policer[s])
  BY <1>1 DEF Restrict
<1>4. \A s \in DOMAIN policer \ DOMAIN kept : policer[s].bytes = TrackBurst.bytes
  BY <1>3 DEF FullAllowance
<1>5. TrackBurst \in [packets : Nat, bytes : Nat]
  BY LimitsConstants
<1>6. DOMAIN known = DOMAIN kept \cup {t}
  BY <1>2
<1>7. ASSUME NEW s \in IngressTracks PROVE BytesOf(known, s) = BytesOf(policer, s)
  <2>1. CASE s \in DOMAIN kept
    BY <2>1, <1>2, <1>3 DEF BytesOf
  <2>2. CASE s \notin DOMAIN kept
    BY <2>2, <1>2, <1>4, <1>6 DEF BytesOf
  <2> QED BY <2>1, <2>2
<1>8. ASSUME NEW s \in DOMAIN known PROVE known[s] \in [packets : Nat, bytes : Nat]
  BY <1>2, <1>3, <1>5, <1>6 DEF IngressInv
<1> QED BY <1>6, <1>7, <1>8

\* No step of Sfu::ingress loses the balance.
LEMMA IngressStep ==
  ASSUME IngressInv, [IngressNext]_ingressVars
  PROVE  IngressInv'
<1>0. TrackBurst.bytes \in Nat /\ TrackBurst.packets \in Nat
  BY LimitsConstants
<1>1. CASE IngressTick
  <2>1. /\ DOMAIN policer' = DOMAIN policer
        /\ \A t \in DOMAIN policer : policer'[t] =
             [packets |-> Refilled(policer[t].packets, TrackBurst.packets),
              bytes |-> Refilled(policer[t].bytes, TrackBurst.bytes)]
        /\ \A t \in IngressTracks : forwarded'[t] = <<0, forwarded[t][1]>>
    BY <1>1 DEF IngressTick
  <2>2. forwarded' \in [IngressTracks -> Nat \X Nat]
    BY <1>1 DEF IngressTick, IngressInv
  <2>3. ASSUME NEW t \in DOMAIN policer PROVE policer'[t] \in [packets : Nat, bytes : Nat]
    BY <1>0, <2>1 DEF IngressInv, Refilled, Least
  <2>4. ASSUME NEW t \in IngressTracks \ {VideoTrack}
        PROVE  Balanced(BytesOf(policer', t), forwarded'[t], TrackBurst.bytes)
    <3>1. /\ Balanced(BytesOf(policer, t), forwarded[t], TrackBurst.bytes)
          /\ forwarded[t] \in Nat \X Nat
      BY DEF IngressInv
    <3>2. CASE t \in DOMAIN policer
      <4>1. BytesOf(policer, t) = policer[t].bytes /\ policer[t].bytes \in Nat
        BY <3>2 DEF BytesOf, IngressInv
      <4>2. BytesOf(policer', t) = Refilled(policer[t].bytes, TrackBurst.bytes)
        BY <3>2, <2>1 DEF BytesOf
      <4> QED BY <1>0, <3>1, <4>1, <4>2, <2>1, RefillBalances
    <3>3. CASE t \notin DOMAIN policer
      <4>1. BytesOf(policer, t) = TrackBurst.bytes /\ BytesOf(policer', t) = TrackBurst.bytes
        BY <3>3, <2>1 DEF BytesOf
      <4> QED BY <1>0, <3>1, <4>1, <2>1 DEF Balanced
    <3> QED BY <3>2, <3>3
  <2> QED BY <2>1, <2>2, <2>3, <2>4 DEF IngressInv
<1>2. ASSUME NEW t \in IngressTracks, NEW bytes \in 1..2, AudioDatagram(t, bytes)
      PROVE  IngressInv'
  <2>1. CASE UNCHANGED <<policer, policed, forwarded>>
    BY <2>1 DEF IngressInv
  <2>2. CASE /\ t = VideoTrack
             /\ forwarded' = [forwarded EXCEPT ![t][1] = @ + bytes]
             /\ policer' = policer
    <3>1. forwarded[t] \in Nat \X Nat
      BY DEF IngressInv
    <3>2. [forwarded[t] EXCEPT ![1] = @ + bytes] \in Nat \X Nat
      BY <3>1
    <3>3. forwarded' \in [IngressTracks -> Nat \X Nat]
      BY <2>2, <3>2 DEF IngressInv
    <3>4. \A s \in IngressTracks \ {VideoTrack} : forwarded'[s] = forwarded[s]
      BY <2>2 DEF IngressInv
    <3> QED BY <2>2, <3>3, <3>4 DEF IngressInv
  <2>3. PICK known : known = Policed(t)
    OBVIOUS
  <2>4. /\ t \in DOMAIN known
        /\ \A s \in DOMAIN known : known[s] \in [packets : Nat, bytes : Nat]
        /\ \A s \in IngressTracks : BytesOf(known, s) = BytesOf(policer, s)
    BY <2>3, PolicedForgetsNothing
  <2>5. CASE policer' = known /\ forwarded' = forwarded
    BY <2>5, <2>4 DEF IngressInv
  <2>6. CASE /\ t # VideoTrack
             /\ known[t].packets >= 1 /\ known[t].bytes >= bytes
             /\ policer' = [known EXCEPT ![t].packets = @ - 1, ![t].bytes = @ - bytes]
             /\ forwarded' = [forwarded EXCEPT ![t][1] = @ + bytes]
    <3>1. /\ DOMAIN policer' = DOMAIN known
          /\ policer'[t] = [packets |-> known[t].packets - 1, bytes |-> known[t].bytes - bytes]
          /\ \A s \in DOMAIN known : s # t => policer'[s] = known[s]
      BY <2>4, <2>6
    <3>2. \A s \in DOMAIN policer' : policer'[s] \in [packets : Nat, bytes : Nat]
      BY <2>4, <2>6, <3>1
    <3>3. forwarded[t] \in Nat \X Nat
      BY DEF IngressInv
    <3>4. /\ forwarded'[t] = [forwarded[t] EXCEPT ![1] = @ + bytes]
          /\ \A s \in IngressTracks : s # t => forwarded'[s] = forwarded[s]
      BY <2>6 DEF IngressInv
    <3>5. /\ BytesOf(policer', t) = BytesOf(policer, t) - bytes
          /\ bytes <= BytesOf(policer, t) /\ BytesOf(policer, t) \in Nat
      BY <2>4, <2>6, <3>1 DEF BytesOf
    <3>6. /\ forwarded'[t] \in Nat \X Nat
          /\ Balanced(BytesOf(policer', t), forwarded'[t], TrackBurst.bytes)
      <4>1. Balanced(BytesOf(policer, t), forwarded[t], TrackBurst.bytes)
        BY <2>6 DEF IngressInv
      <4> QED BY <1>0, <4>1, <3>3, <3>4, <3>5, GiveBalances
    <3>7. forwarded' \in [IngressTracks -> Nat \X Nat]
      BY <2>6, <3>4, <3>6 DEF IngressInv
    <3>8. ASSUME NEW s \in IngressTracks \ {VideoTrack}, s # t
          PROVE  Balanced(BytesOf(policer', s), forwarded'[s], TrackBurst.bytes)
      <4>1. BytesOf(policer', s) = BytesOf(known, s)
        BY <3>1, <3>8 DEF BytesOf
      <4> QED BY <4>1, <2>4, <3>4, <3>8 DEF IngressInv
    <3> QED BY <3>2, <3>6, <3>7, <3>8 DEF IngressInv
  <2>7. \/ UNCHANGED <<policer, policed, forwarded>>
        \/ /\ t = VideoTrack
           /\ forwarded' = [forwarded EXCEPT ![t][1] = @ + bytes]
           /\ policer' = policer
        \/ policer' = known /\ forwarded' = forwarded
        \/ /\ t # VideoTrack
           /\ known[t].packets >= 1 /\ known[t].bytes >= bytes
           /\ policer' = [known EXCEPT ![t].packets = @ - 1, ![t].bytes = @ - bytes]
           /\ forwarded' = [forwarded EXCEPT ![t][1] = @ + bytes]
    BY <1>2, <2>3 DEF AudioDatagram
  <2> QED BY <2>1, <2>2, <2>5, <2>6, <2>7
<1>3. CASE UNCHANGED ingressVars
  BY <1>3 DEF IngressInv, ingressVars
<1> QED BY <1>1, <1>2, <1>3 DEF IngressNext

\* The balance at the start.
LEMMA IngressStart == IngressInit => IngressInv
<1> SUFFICES ASSUME IngressInit PROVE IngressInv
  OBVIOUS
<1>1. DOMAIN policer = {}
  BY DEF IngressInit
<1>2. \A t \in IngressTracks : forwarded[t] = <<0, 0>> /\ BytesOf(policer, t) = TrackBurst.bytes
  BY <1>1 DEF IngressInit, BytesOf
<1>3. forwarded \in [IngressTracks -> Nat \X Nat]
  BY DEF IngressInit
<1>4. TrackBurst.bytes \in Nat
  BY LimitsConstants
<1> QED BY <1>1, <1>2, <1>3, <1>4 DEF IngressInv, Balanced

\* What the balance says.
LEMMA IngressSays == IngressInv => AudioPoliced
<1> SUFFICES ASSUME IngressInv, NEW t \in IngressTracks \ {VideoTrack}
             PROVE  forwarded[t][1] + forwarded[t][2] <= TrackBurst.bytes + 1
  BY DEF AudioPoliced
<1>1. BytesOf(policer, t) \in Nat /\ TrackBurst.bytes \in Nat /\ forwarded[t] \in Nat \X Nat
  BY LimitsConstants DEF IngressInv, BytesOf
<1> QED BY <1>1 DEF IngressInv, Balanced

\* A failure is no older than the answer that told of it, and whoever may ask now has waited.
GuessInv ==
  /\ answered \in [Guessers -> Nat]
  /\ guess \in [Guessers -> SUBSET {"current", "replaced"}]
  /\ DOMAIN failures \subseteq Guessers
  /\ \A u \in DOMAIN failures :
       /\ failures[u] \in [count : Nat, age : Nat]
       /\ failures[u].age <= answered[u]
       /\ "current" \in guess[u] => failures[u].age >= WaitAfter(failures[u].count)

\* A wait is a number, and no longer than the longest.
LEMMA WaitType ==
  ASSUME NEW n \in Nat
  PROVE  WaitAfter(n) \in Int /\ WaitAfter(n) <= LongestWait
<1>1. FreeFailures \in Nat /\ LongestWait \in Nat
  BY LimitsConstants
<1>2. CASE n < FreeFailures
  BY <1>1, <1>2 DEF WaitAfter
<1>3. CASE ~(n < FreeFailures)
  <2>1. PICK m \in Nat : m = n - FreeFailures
    BY <1>1, <1>3
  <2>2. 2 ^ m \in Int
    BY SMT
  <2>3. WaitAfter(n) = Least(2 ^ m, LongestWait)
    BY <1>3, <2>1 DEF WaitAfter
  <2> QED BY <1>1, <2>2, <2>3 DEF Least
<1> QED BY <1>2, <1>3

\* One tick and the age stays a wait, as memory is longer than any wait.
LEMMA AgesOn ==
  ASSUME NEW age \in Nat, NEW since \in Nat, NEW n \in Nat, age <= since
  PROVE  /\ Least(age + 1, FailureMemory) \in Nat \ {0}
         /\ Least(age + 1, FailureMemory) <= Least(since + 1, FailureMemory)
         /\ Least(since + 1, FailureMemory) \in Nat
         /\ age >= WaitAfter(n) => Least(age + 1, FailureMemory) >= WaitAfter(n)
<1>1. FailureMemory \in Nat \ {0} /\ LongestWait \in Nat /\ FailureMemory > LongestWait
  BY LimitsConstants
<1> QED BY <1>1, WaitType DEF Least

\* A step that leaves failures and answers alone, and lets ask only those who have waited.
LEMMA GuessesOnly ==
  ASSUME GuessInv, UNCHANGED <<failures, answered>>,
         guess' \in [Guessers -> SUBSET {"current", "replaced"}],
         \A u \in DOMAIN failures :
           "current" \in guess'[u] =>
             "current" \in guess[u] \/ failures[u].age >= WaitAfter(failures[u].count)
  PROVE  GuessInv'
BY DEF GuessInv

\* The failures after one of u.
LEMMA FailsOnce ==
  ASSUME GuessInv, NEW u \in Guessers, FailGuess(u)
  PROVE  /\ "current" \in guess[u]
         /\ guess' = [guess EXCEPT ![u] = @ \ {"current"}]
         /\ answered' = [answered EXCEPT ![u] = 0]
         /\ DOMAIN failures' \subseteq DOMAIN failures \cup {u}
         /\ failures'[u] \in [count : Nat, age : Nat] /\ failures'[u].age = 0
         /\ \A v \in DOMAIN failures' : v # u => failures'[v] = failures[v]
<1>1. PICK from \in guess[u] \cap Answerable, swept \in BOOLEAN :
        LET kept == IF swept THEN Remembered(failures) ELSE failures
            count == IF u \in DOMAIN kept THEN kept[u].count ELSE 0 IN
        /\ guess' = [guess EXCEPT ![u] = @ \ {from}]
        /\ failures' = [v \in DOMAIN kept \cup {u} |->
             IF v = u THEN [count |-> count + 1, age |-> 0] ELSE kept[v]]
        /\ answered' = [answered EXCEPT ![u] = 0]
  BY DEF FailGuess
<1>2. from = "current"
  BY DEF Answerable
<1>3. PICK kept : kept = IF swept THEN Remembered(failures) ELSE failures
  OBVIOUS
<1>4. PICK count : count = IF u \in DOMAIN kept THEN kept[u].count ELSE 0
  OBVIOUS
<1>5. /\ DOMAIN kept \subseteq DOMAIN failures
      /\ \A v \in DOMAIN kept : kept[v] = failures[v]
  BY <1>3 DEF Remembered, Restrict
<1>6. count \in Nat
  BY <1>4, <1>5 DEF GuessInv
<1>7. failures' = [v \in DOMAIN kept \cup {u} |->
        IF v = u THEN [count |-> count + 1, age |-> 0] ELSE kept[v]]
  BY <1>1, <1>3, <1>4
<1>8. failures'[u] = [count |-> count + 1, age |-> 0]
  BY <1>7
<1>9. /\ DOMAIN failures' \subseteq DOMAIN failures \cup {u}
      /\ \A v \in DOMAIN failures' : v # u => failures'[v] = failures[v]
  BY <1>5, <1>7
<1>10. failures'[u] \in [count : Nat, age : Nat] /\ failures'[u].age = 0
  BY <1>6, <1>8
<1>11. guess' = [guess EXCEPT ![u] = @ \ {"current"}] /\ answered' = [answered EXCEPT ![u] = 0]
  BY <1>1, <1>2
<1> QED BY <1>2, <1>9, <1>10, <1>11

\* No step of Guesses takes a wait away.
LEMMA GuessStep ==
  ASSUME GuessInv, [GuessesNext]_guessVars
  PROVE  GuessInv'
<1>1. CASE GuessesTick
  <2>1. /\ DOMAIN failures' = DOMAIN failures
        /\ \A u \in DOMAIN failures :
             failures'[u] = [failures[u] EXCEPT !.age = Least(@ + 1, FailureMemory)]
        /\ \A u \in Guessers : answered'[u] = Least(answered[u] + 1, FailureMemory)
        /\ guess' = guess
    BY <1>1 DEF GuessesTick
  <2>2. answered' \in [Guessers -> Nat]
    <3>1. \A u \in Guessers : Least(answered[u] + 1, FailureMemory) \in Nat
      BY AgesOn DEF GuessInv
    <3> QED BY <1>1, <3>1 DEF GuessesTick
  <2>3. ASSUME NEW u \in DOMAIN failures
        PROVE  /\ failures'[u] \in [count : Nat, age : Nat]
               /\ failures'[u].age <= answered'[u]
               /\ "current" \in guess[u] => failures'[u].age >= WaitAfter(failures'[u].count)
    <3>1. /\ u \in Guessers /\ failures[u] \in [count : Nat, age : Nat] /\ answered[u] \in Nat
          /\ failures[u].age <= answered[u]
          /\ "current" \in guess[u] => failures[u].age >= WaitAfter(failures[u].count)
      BY DEF GuessInv
    <3>2. /\ failures'[u].age = Least(failures[u].age + 1, FailureMemory)
          /\ failures'[u].count = failures[u].count
          /\ answered'[u] = Least(answered[u] + 1, FailureMemory)
      BY <2>1, <3>1
    <3>3. failures'[u] = [count |-> failures'[u].count, age |-> failures'[u].age]
      BY <2>1, <3>1
    <3>4. failures[u].age \in Nat /\ failures[u].count \in Nat
      BY <3>1
    <3> QED BY <3>1, <3>2, <3>3, <3>4, AgesOn
  <2> QED BY <2>1, <2>2, <2>3 DEF GuessInv
<1>2. ASSUME NEW u \in Guessers, CheckGuess(u) PROVE GuessInv'
  <2>1. guess' \in [Guessers -> SUBSET {"current", "replaced"}]
    BY <1>2 DEF CheckGuess, GuessInv
  <2> QED BY <1>2, <2>1, GuessesOnly DEF CheckGuess, GuessInv
<1>3. ASSUME NEW u \in Guessers, ReplaceConnection(u) \/ DropGuess(u) PROVE GuessInv'
  <2>1. guess' \in [Guessers -> SUBSET {"current", "replaced"}]
    BY <1>3 DEF ReplaceConnection, DropGuess, GuessInv
  <2>2. \A v \in Guessers : "current" \in guess'[v] => "current" \in guess[v]
    BY <1>3 DEF ReplaceConnection, DropGuess, GuessInv
  <2> QED BY <1>3, <2>1, <2>2, GuessesOnly DEF ReplaceConnection, DropGuess, GuessInv
<1>4. ASSUME NEW u \in Guessers, FailGuess(u) PROVE GuessInv'
  <2>1. /\ guess' = [guess EXCEPT ![u] = @ \ {"current"}]
        /\ answered' = [answered EXCEPT ![u] = 0]
        /\ DOMAIN failures' \subseteq DOMAIN failures \cup {u}
        /\ failures'[u] \in [count : Nat, age : Nat] /\ failures'[u].age = 0
        /\ \A v \in DOMAIN failures' : v # u => failures'[v] = failures[v]
    BY <1>4, FailsOnce
  <2>2. /\ answered' \in [Guessers -> Nat]
        /\ guess' \in [Guessers -> SUBSET {"current", "replaced"}]
        /\ DOMAIN failures' \subseteq Guessers
    BY <2>1 DEF GuessInv
  <2>3. ASSUME NEW v \in DOMAIN failures'
        PROVE  /\ failures'[v] \in [count : Nat, age : Nat]
               /\ failures'[v].age <= answered'[v]
               /\ "current" \in guess'[v] => failures'[v].age >= WaitAfter(failures'[v].count)
    <3>1. CASE v = u
      <4>1. "current" \notin guess'[v] /\ answered'[v] = 0
        BY <2>1, <3>1 DEF GuessInv
      <4> QED BY <2>1, <3>1, <4>1
    <3>2. CASE v # u
      <4>1. /\ v \in DOMAIN failures /\ failures'[v] = failures[v]
            /\ guess'[v] = guess[v] /\ answered'[v] = answered[v]
        BY <2>1, <2>2, <3>2 DEF GuessInv
      <4> QED BY <4>1 DEF GuessInv
    <3> QED BY <3>1, <3>2
  <2> QED BY <2>2, <2>3 DEF GuessInv
<1>5. ASSUME NEW u \in Guessers, RightGuess(u) PROVE GuessInv'
  <2>1. /\ DOMAIN failures' = DOMAIN failures \ {u}
        /\ \A v \in DOMAIN failures' : failures'[v] = failures[v]
        /\ answered' = answered
    BY <1>5 DEF RightGuess, Restrict
  <2>2. /\ guess' \in [Guessers -> SUBSET {"current", "replaced"}]
        /\ \A v \in Guessers : v # u => guess'[v] = guess[v]
    BY <1>5 DEF RightGuess, GuessInv
  <2> QED BY <2>1, <2>2 DEF GuessInv
<1>6. CASE UNCHANGED guessVars
  BY <1>6 DEF GuessInv, guessVars
<1> QED BY <1>1, <1>2, <1>3, <1>4, <1>5, <1>6 DEF GuessesNext

\* Whoever is told again has waited.
LEMMA AnswersWait ==
  ASSUME GuessInv, [GuessesNext]_guessVars, NEW u \in Guessers,
         u \in DOMAIN failures \cap DOMAIN failures',
         failures'[u] # failures[u], failures'[u].age = 0
  PROVE  answered[u] >= WaitAfter(failures[u].count)
<1>0. /\ failures[u] \in [count : Nat, age : Nat] /\ answered[u] \in Nat
      /\ failures[u].age <= answered[u]
      /\ "current" \in guess[u] => failures[u].age >= WaitAfter(failures[u].count)
  BY DEF GuessInv
<1>1. CASE GuessesTick
  <2>1. failures'[u].age = Least(failures[u].age + 1, FailureMemory)
    BY <1>0, <1>1 DEF GuessesTick
  <2>2. failures[u].age \in Nat /\ failures[u].count \in Nat
    BY <1>0
  <2> QED BY <1>0, <2>1, <2>2, AgesOn
<1>2. ASSUME NEW v \in Guessers, FailGuess(v) PROVE answered[u] >= WaitAfter(failures[u].count)
  <2>1. /\ "current" \in guess[v]
        /\ \A w \in DOMAIN failures' : w # v => failures'[w] = failures[w]
    BY <1>2, FailsOnce
  <2>2. v = u
    BY <2>1
  <2>3. failures[u].age >= WaitAfter(failures[u].count)
    BY <1>0, <2>1, <2>2
  <2>4. WaitAfter(failures[u].count) \in Int
    BY <1>0, WaitType
  <2> QED BY <1>0, <2>3, <2>4
<1>3. ASSUME NEW v \in Guessers, RightGuess(v) PROVE FALSE
  BY <1>3 DEF RightGuess, Restrict
<1>4. ASSUME failures' = failures PROVE FALSE
  BY <1>4
<1> QED BY <1>1, <1>2, <1>3, <1>4
     DEF GuessesNext, CheckGuess, ReplaceConnection, DropGuess, guessVars

\* Nobody has failed at the start.
LEMMA GuessStart == GuessesInit => GuessInv
<1> SUFFICES ASSUME GuessesInit PROVE GuessInv
  OBVIOUS
<1>1. DOMAIN failures = {}
  BY DEF GuessesInit
<1>2. FailureMemory \in Nat
  BY LimitsConstants
<1> QED BY <1>1, <1>2 DEF GuessInv, GuessesInit

\* A set of numbers has a least one.
LEMMA LeastMember ==
  ASSUME NEW T, T \subseteq Nat, T # {}
  PROVE  \E x \in T : \A y \in T : x <= y
<1> DEFINE R == {ss \in Nat \X Nat : ss[1] < ss[2]}
<1>1. IsWellFoundedOn(R, Nat)
  BY NatLessThanWellFounded, Zenon DEF OpToRel
<1> HIDE DEF R
<1>2. PICK x \in T : \A y \in T : ~ (<<y, x>> \in R)
  BY <1>1, WFMin, Zenon
<1>3. ASSUME NEW y \in T PROVE x <= y
  <2>1. <<y, x>> \notin R
    BY <1>2
  <2>2. ~(y < x)
    BY <2>1 DEF R
  <2> QED BY <2>2
<1> QED BY <1>3

\* A queue of numbers has a length, and numbers.
LEMMA Numbers ==
  ASSUME NEW s \in Seq(Nat)
  PROVE  Len(s) \in Nat /\ \A i \in 1..Len(s) : s[i] \in Nat
OBVIOUS

\* What expire leaves of a queue is its end, from the first that is recent enough on.
LeavesOf(s, limit, e) ==
  \E n \in 0..Len(s) :
    /\ e \in Seq(Nat) /\ Len(e) = Len(s) - n
    /\ \A i \in 1..Len(e) : e[i] = s[n + i]
    /\ \A i \in 1..n : s[i] > limit
    /\ Len(e) > 0 => e[1] <= limit

\* Within does so.
LEMMA WithinDoes ==
  ASSUME NEW s \in Seq(Nat), NEW limit \in Nat, NEW e, e = Within(s, limit)
  PROVE  LeavesOf(s, limit, e)
<1>1. PICK recent : recent = {i \in DOMAIN s : s[i] <= limit}
  OBVIOUS
<1>2. DOMAIN s = 1..Len(s) /\ \A i \in 1..Len(s) : s[i] \in Nat
  OBVIOUS
<1>3. CASE recent = {}
  <2>1. e = <<>>
    BY <1>1, <1>3 DEF Within
  <2>2. \A i \in 1..Len(s) : s[i] > limit
    BY <1>1, <1>2, <1>3
  <2>3. Len(s) \in 0..Len(s) /\ Len(e) = Len(s) - Len(s) /\ e \in Seq(Nat) /\ ~(Len(e) > 0)
    BY <2>1, Numbers
  <2>4. \A i \in 1..Len(e) : e[i] = s[Len(s) + i]
    BY <2>1
  <2> QED BY <2>2, <2>3, <2>4 DEF LeavesOf
<1>4. CASE recent # {}
  <2>1. PICK m : m = Min(recent)
    OBVIOUS
  <2>2. \E x \in recent : \A y \in recent : x <= y
    <3>1. recent \subseteq Nat
      BY <1>1, <1>2
    <3> QED BY <1>4, <3>1, LeastMember
  <2>3. m \in recent /\ \A y \in recent : m <= y
    BY <2>1, <2>2 DEF Min
  <2>4. m \in 1..Len(s) /\ s[m] <= limit
    BY <1>1, <1>2, <2>3
  <2>5. e = SubSeq(s, m, Len(s))
    BY <1>1, <1>4, <2>1 DEF Within
  <2>6. /\ e \in Seq(Nat) /\ Len(e) = Len(s) - (m - 1)
        /\ \A i \in 1..Len(e) : e[i] = s[(m - 1) + i]
    BY <2>4, <2>5
  <2>7. ASSUME NEW i \in 1..(m - 1) PROVE s[i] > limit
    <3>1. i \in 1..Len(s) /\ ~(m <= i)
      BY <2>4, Numbers
    <3>2. i \notin recent
      BY <2>3, <3>1
    <3>3. ~(s[i] <= limit) /\ s[i] \in Nat
      BY <1>1, <1>2, <3>1, <3>2
    <3> QED BY <3>3
  <2>8. m - 1 \in 0..Len(s) /\ 1 \in 1..Len(e) /\ (m - 1) + 1 = m
    BY <2>4, <2>6, Numbers
  <2>9. e[1] <= limit
    <3>1. e[1] = s[(m - 1) + 1]
      BY <2>6, <2>8
    <3> QED BY <2>4, <2>8, <3>1
  <2> QED BY <2>6, <2>7, <2>8, <2>9 DEF LeavesOf
<1> QED BY <1>3, <1>4

\* And of a queue a tick older: s becomes a.
AgesTo(s, limit, a) ==
  \E n \in 0..Len(s) :
    /\ a \in Seq(Nat) /\ Len(a) = Len(s) - n
    /\ \A i \in 1..Len(a) : a[i] = s[n + i] + 1
    /\ \A i \in 1..n : s[i] + 1 > limit
    /\ Len(a) > 0 => a[1] <= limit

\* Aged does so.
LEMMA AgedDoes ==
  ASSUME NEW s \in Seq(Nat), NEW limit \in Nat, NEW a, a = Aged(s, limit)
  PROVE  AgesTo(s, limit, a)
<1>1. PICK older : older = [i \in DOMAIN s |-> s[i] + 1]
  OBVIOUS
<1>2. older \in Seq(Nat) /\ Len(older) = Len(s) /\ \A i \in 1..Len(s) : older[i] = s[i] + 1
  <2>1. DOMAIN s = 1..Len(s) /\ Len(s) \in Nat /\ \A i \in 1..Len(s) : s[i] \in Nat
    BY Numbers
  <2>2. older = [i \in 1..Len(s) |-> s[i] + 1]
    BY <1>1, <2>1
  <2>3. older \in [1..Len(s) -> Nat] /\ \A i \in 1..Len(s) : older[i] = s[i] + 1
    BY <2>1, <2>2
  <2> QED BY <2>1, <2>3
<1>3. a = Within(older, limit)
  BY <1>1 DEF Aged
<1>4. PICK n \in 0..Len(older) :
        /\ a \in Seq(Nat) /\ Len(a) = Len(older) - n
        /\ \A i \in 1..Len(a) : a[i] = older[n + i]
        /\ \A i \in 1..n : older[i] > limit
        /\ Len(a) > 0 => a[1] <= limit
  <2>1. LeavesOf(older, limit, a)
    BY <1>2, <1>3, WithinDoes
  <2> QED BY <2>1 DEF LeavesOf
<1>5. n \in 0..Len(s)
  BY <1>2, <1>4
<1>6. ASSUME NEW i \in 1..Len(a) PROVE a[i] = s[n + i] + 1
  <2>1. n + i \in 1..Len(s)
    BY <1>2, <1>4, <1>5, Numbers
  <2> QED BY <1>2, <1>4, <2>1
<1>7. ASSUME NEW i \in 1..n PROVE s[i] + 1 > limit
  <2>1. i \in 1..Len(s)
    BY <1>5, Numbers
  <2> QED BY <1>2, <1>4, <2>1
<1> QED BY <1>4, <1>2, <1>5, <1>6, <1>7 DEF AgesTo

\* For every run in the window, there are as many entries and forgivings no older than it as
\* runs since.
Covered(b, w, f) ==
  \A j \in 1..Len(b) : \E p \in 0..Len(f), q \in 0..Len(w) :
    /\ p + q >= j
    /\ p > 0 => f[Len(f) - p + 1] <= b[Len(b) - j + 1]
    /\ q > 0 => w[Len(w) - q + 1] <= b[Len(b) - j + 1]

\* The runs begun, the entries and the forgivings of one source, network or region.
ScopeInv(b, w, f, limit) ==
  /\ b \in Seq(Nat) /\ w \in Seq(Nat) /\ f \in Seq(Nat)
  /\ Len(w) <= limit
  /\ \A i, j \in 1..Len(b) : i <= j => b[j] <= b[i]
  /\ Len(b) > 0 => b[1] <= WindowLength
  /\ Covered(b, w, f)

\* A run begins where the window has room.
LEMMA ScopeBegins ==
  ASSUME NEW b, NEW w, NEW f, NEW limit \in Nat, ScopeInv(b, w, f, limit),
         NEW e, e = Expired(w), Len(e) < limit
  PROVE  ScopeInv(Append(b, 0), Append(e, 0), f, limit)
<1>1. WindowLength \in Nat /\ b \in Seq(Nat) /\ w \in Seq(Nat) /\ f \in Seq(Nat)
  BY LimitsConstants DEF ScopeInv
<1>2. /\ Len(b) \in Nat /\ Len(w) \in Nat /\ Len(f) \in Nat
      /\ \A i \in 1..Len(b) : b[i] \in Nat
      /\ \A i \in 1..Len(w) : w[i] \in Nat
  BY <1>1, Numbers
<1>3. PICK n \in 0..Len(w) :
        /\ e \in Seq(Nat) /\ Len(e) = Len(w) - n
        /\ \A i \in 1..Len(e) : e[i] = w[n + i]
        /\ \A i \in 1..n : w[i] > WindowLength
  <2>1. e = Within(w, WindowLength)
    BY DEF Expired
  <2>2. LeavesOf(w, WindowLength, e)
    BY <1>1, <2>1, WithinDoes
  <2> QED BY <2>2 DEF LeavesOf
<1>4. Len(e) \in Nat
  BY <1>3, Numbers
<1>5. PICK c : c = Append(b, 0)
  OBVIOUS
<1>6. PICK d : d = Append(e, 0)
  OBVIOUS
<1>7. c \in Seq(Nat) /\ d \in Seq(Nat)
  BY <1>1, <1>3, <1>5, <1>6
<1>8. /\ Len(c) = Len(b) + 1 /\ c[Len(b) + 1] = 0 /\ \A i \in 1..Len(b) : c[i] = b[i]
      /\ Len(d) = Len(e) + 1 /\ d[Len(e) + 1] = 0 /\ \A i \in 1..Len(e) : d[i] = e[i]
  BY <1>1, <1>3, <1>5, <1>6
<1>9. \A i \in 1..Len(b) : b[i] \in Nat /\ b[i] <= WindowLength
  <2> SUFFICES ASSUME NEW i \in 1..Len(b) PROVE b[i] \in Nat /\ b[i] <= WindowLength
    OBVIOUS
  <2>1. b[i] \in Nat /\ b[1] \in Nat /\ 1 \in 1..Len(b)
    BY <1>1
  <2>2. b[i] <= b[1] /\ b[1] <= WindowLength
    BY <2>1 DEF ScopeInv
  <2> QED BY <1>1, <2>1, <2>2
<1>10. ASSUME NEW i \in 1..Len(c), NEW j \in 1..Len(c), i <= j PROVE c[j] <= c[i]
  <2>1. CASE j \in 1..Len(b)
    <3>1. i \in 1..Len(b)
      BY <1>10, <1>2, <2>1
    <3>2. b[j] <= b[i]
      BY <1>10, <2>1, <3>1 DEF ScopeInv
    <3> QED BY <1>8, <2>1, <3>1, <3>2
  <2>2. CASE j = Len(b) + 1
    <3>1. c[j] = 0
      BY <1>8, <2>2
    <3>2. c[i] \in Nat
      BY <1>7, Numbers
    <3> QED BY <3>1, <3>2
  <2> QED BY <1>2, <1>8, <2>1, <2>2
<1>11. c[1] <= WindowLength
  <2>1. CASE Len(b) = 0
    BY <1>1, <1>8, <2>1
  <2>2. CASE 1 \in 1..Len(b)
    BY <1>8, <1>9, <2>2
  <2> QED BY <1>2, <2>1, <2>2
<1>12. ASSUME NEW j \in 1..Len(c)
      PROVE  \E p \in 0..Len(f), q \in 0..Len(d) :
               /\ p + q >= j
               /\ p > 0 => f[Len(f) - p + 1] <= c[Len(c) - j + 1]
               /\ q > 0 => d[Len(d) - q + 1] <= c[Len(c) - j + 1]
  <2>1. CASE j = 1
    <3>1. Len(d) - 1 + 1 = Len(e) + 1 /\ Len(c) - j + 1 = Len(b) + 1
      BY <1>2, <1>4, <1>8, <2>1
    <3>2. d[Len(d) - 1 + 1] <= c[Len(c) - j + 1]
      BY <1>8, <3>1
    <3>3. 0 \in 0..Len(f) /\ 1 \in 0..Len(d) /\ 0 + 1 >= j /\ ~(0 > 0)
      BY <1>2, <1>4, <1>8, <2>1
    <3> QED BY <3>2, <3>3
  <2>2. CASE j # 1
    <3>0. /\ j - 1 \in 1..Len(b) /\ Len(c) - j + 1 = Len(b) - (j - 1) + 1
          /\ Len(b) - (j - 1) + 1 \in 1..Len(b)
      BY <1>2, <1>8, <2>2
    <3>1. j - 1 \in 1..Len(b) /\ c[Len(c) - j + 1] = b[Len(b) - (j - 1) + 1]
      BY <1>8, <3>0
    <3>2. PICK p \in 0..Len(f), q \in 0..Len(w) :
            /\ p + q >= j - 1
            /\ p > 0 => f[Len(f) - p + 1] <= b[Len(b) - (j - 1) + 1]
            /\ q > 0 => w[Len(w) - q + 1] <= b[Len(b) - (j - 1) + 1]
      BY <3>1 DEF ScopeInv, Covered
    <3>3. b[Len(b) - (j - 1) + 1] \in Nat /\ b[Len(b) - (j - 1) + 1] <= WindowLength
      BY <1>9, <3>0
    <3>4. q <= Len(e)
      <4>1. SUFFICES ASSUME q > Len(e) PROVE FALSE
        BY <1>4, <1>2
      <4>2. q > 0 /\ Len(w) - q + 1 \in 1..n /\ Len(w) - q + 1 \in 1..Len(w)
        BY <1>4, <1>2, <1>3, <4>1
      <4>3. w[Len(w) - q + 1] \in Nat /\ w[Len(w) - q + 1] > WindowLength
        BY <1>2, <1>3, <4>2
      <4>4. w[Len(w) - q + 1] <= b[Len(b) - (j - 1) + 1]
        BY <3>2, <4>2
      <4>5. WindowLength \in Nat
        BY <1>1
      <4>6. PICK x, y : x = w[Len(w) - q + 1] /\ y = b[Len(b) - (j - 1) + 1]
        OBVIOUS
      <4>7. x \in Nat /\ x > WindowLength /\ x <= y /\ y \in Nat /\ y <= WindowLength
        BY <3>3, <4>3, <4>4, <4>6
      <4> QED BY <4>5, <4>7
    <3>5. q > 0 => d[Len(d) - (q + 1) + 1] <= c[Len(c) - j + 1]
      <4> SUFFICES ASSUME q > 0 PROVE d[Len(d) - (q + 1) + 1] <= c[Len(c) - j + 1]
        OBVIOUS
      <4>1. Len(e) - q + 1 \in 1..Len(e) /\ n + (Len(e) - q + 1) = Len(w) - q + 1
        BY <1>2, <1>4, <1>3, <3>4
      <4>2. d[Len(e) - q + 1] = w[Len(w) - q + 1]
        BY <1>3, <1>8, <4>1
      <4>3. Len(d) - (q + 1) + 1 = Len(e) - q + 1
        BY <1>8, <1>4
      <4> QED BY <3>1, <3>2, <4>2, <4>3
    <3>6. q = 0 => d[Len(d) - (q + 1) + 1] <= c[Len(c) - j + 1]
      <4> SUFFICES ASSUME q = 0 PROVE d[Len(d) - (q + 1) + 1] <= c[Len(c) - j + 1]
        OBVIOUS
      <4>1. Len(d) - (q + 1) + 1 = Len(e) + 1
        BY <1>4, <1>8
      <4> QED BY <1>8, <3>1, <3>3, <4>1
    <3>7. q + 1 \in 0..Len(d) /\ p + (q + 1) >= j
      BY <1>4, <1>2, <1>8, <3>2, <3>4
    <3>8. q > 0 \/ q = 0
      BY <3>2
    <3> QED BY <3>1, <3>2, <3>5, <3>6, <3>7, <3>8
  <2> QED BY <2>1, <2>2
<1>13. Len(d) <= limit
  BY <1>4, <1>8
<1> QED BY <1>1, <1>7, <1>5, <1>6, <1>10, <1>11, <1>12, <1>13 DEF ScopeInv, Covered

\* A run is forgiven: the newest entry goes, whichever run's it is.
LEMMA ScopeForgives ==
  ASSUME NEW b, NEW w, NEW f, NEW limit \in Nat, ScopeInv(b, w, f, limit),
         NEW v, v = IF w # <<>> THEN Front(w) ELSE w
  PROVE  ScopeInv(b, v, Append(f, 0), limit)
<1>1. b \in Seq(Nat) /\ w \in Seq(Nat) /\ f \in Seq(Nat) /\ Len(w) <= limit
  BY DEF ScopeInv
<1>2. /\ Len(b) \in Nat /\ Len(w) \in Nat /\ Len(f) \in Nat
      /\ \A i \in 1..Len(b) : b[i] \in Nat
  BY <1>1, Numbers
<1>3. /\ v \in Seq(Nat) /\ \A i \in 1..Len(v) : v[i] = w[i]
      /\ Len(v) = IF Len(w) > 0 THEN Len(w) - 1 ELSE 0
  <2>1. CASE w = <<>>
    BY <1>1, <2>1
  <2>2. CASE w # <<>>
    <3>1. Len(w) > 0
      BY <1>1, <2>2
    <3>2. v = SubSeq(w, 1, Len(w) - 1)
      BY <2>2 DEF Front
    <3>3. v \in Seq(Nat) /\ Len(v) = Len(w) - 1 /\ \A i \in 1..Len(v) : v[i] = w[i]
      <4>0. Len(w) - 1 \in 0..Len(w)
        BY <1>2, <3>1
      <4>1. PICK n \in 0..Len(w) : n = Len(w) - 1
        BY <4>0, Zenon
      <4>2. v = SubSeq(w, 1, n)
        BY <3>2, <4>1
      <4>3. n \in Int /\ \A i \in 1..n : w[i] \in Nat
        BY <1>1, <1>2, <4>1, Numbers
      <4>4. /\ v \in Seq(Nat) /\ Len(v) = IF 1 <= n THEN n - 1 + 1 ELSE 0
            /\ \A i \in 1..(n - 1 + 1) : v[i] = w[1 + i - 1]
        BY <4>2, <4>3, SubSeqProperties
      <4>5. Len(v) = n /\ \A i \in 1..n : v[i] = w[i]
        BY <4>1, <4>4
      <4> QED BY <4>1, <4>4, <4>5
    <3> QED BY <3>1, <3>3
  <2> QED BY <2>1, <2>2
<1>4. PICK g : g = Append(f, 0)
  OBVIOUS
<1>5. g \in Seq(Nat)
  BY <1>1, <1>4
<1>6. Len(g) = Len(f) + 1 /\ g[Len(f) + 1] = 0 /\ \A i \in 1..Len(f) : g[i] = f[i]
  BY <1>1, <1>4
<1>7. ASSUME NEW j \in 1..Len(b)
      PROVE  \E p \in 0..Len(g), q \in 0..Len(v) :
               /\ p + q >= j
               /\ p > 0 => g[Len(g) - p + 1] <= b[Len(b) - j + 1]
               /\ q > 0 => v[Len(v) - q + 1] <= b[Len(b) - j + 1]
  <2>1. PICK p \in 0..Len(f), q \in 0..Len(w) :
          /\ p + q >= j
          /\ p > 0 => f[Len(f) - p + 1] <= b[Len(b) - j + 1]
          /\ q > 0 => w[Len(w) - q + 1] <= b[Len(b) - j + 1]
    BY DEF ScopeInv, Covered
  <2>2. PICK age \in Nat : age = b[Len(b) - j + 1]
    BY <1>2
  <2>3. PICK r : r = IF q > 0 THEN q - 1 ELSE 0
    OBVIOUS
  <2>4. r \in 0..Len(v) /\ p + 1 \in 0..Len(g) /\ (p + 1) + r >= j
    BY <1>2, <1>3, <1>6, <2>1, <2>3
  <2>5. g[Len(g) - (p + 1) + 1] <= age
    <3>1. CASE p > 0
      <4>1. Len(f) - p + 1 \in 1..Len(f) /\ Len(g) - (p + 1) + 1 = Len(f) - p + 1
        BY <1>2, <1>6, <3>1
      <4>2. g[Len(f) - p + 1] = f[Len(f) - p + 1]
        BY <1>6, <4>1
      <4>3. f[Len(f) - p + 1] <= age
        BY <2>1, <2>2, <3>1
      <4> QED BY <4>1, <4>2, <4>3
    <3>2. CASE p = 0
      <4>1. Len(g) - (p + 1) + 1 = Len(f) + 1
        BY <1>2, <1>6, <3>2
      <4> QED BY <1>6, <4>1
    <3> QED BY <3>1, <3>2
  <2>6. ASSUME r > 0 PROVE v[Len(v) - r + 1] <= age
    <3>1. q > 0 /\ r = q - 1
      BY <2>3, <2>6
    <3>2. Len(v) = Len(w) - 1
      BY <1>2, <1>3, <3>1
    <3>3. Len(v) - r + 1 = Len(w) - q + 1 /\ Len(v) - r + 1 \in 1..Len(v)
      BY <1>2, <2>1, <2>6, <3>1, <3>2
    <3> QED BY <1>3, <2>1, <2>2, <3>1, <3>3
  <2> QED BY <2>2, <2>4, <2>5, <2>6
<1>8. Len(v) <= limit
  BY <1>1, <1>2, <1>3
<1>9. Covered(b, v, g)
  BY <1>7 DEF Covered
<1>10. /\ \A i, j \in 1..Len(b) : i <= j => b[j] <= b[i]
       /\ Len(b) > 0 => b[1] <= WindowLength
  BY DEF ScopeInv
<1>11. ScopeInv(b, v, g, limit)
  BY <1>1, <1>3, <1>5, <1>8, <1>9, <1>10 DEF ScopeInv
<1> QED BY <1>4, <1>11

\* An entry among the p newest stays among them while it is recent enough.
LEMMA EntryAges ==
  ASSUME NEW s \in Seq(Nat), NEW limit \in Nat, NEW a, a = Aged(s, limit),
         NEW age \in Nat, age + 1 <= limit,
         NEW p \in 0..Len(s), p > 0 => s[Len(s) - p + 1] <= age
  PROVE  p \in 0..Len(a) /\ (p > 0 => a[Len(a) - p + 1] <= age + 1)
<1>1. Len(s) \in Nat /\ \A i \in 1..Len(s) : s[i] \in Nat
  BY Numbers
<1>2. PICK n \in 0..Len(s) :
        /\ a \in Seq(Nat) /\ Len(a) = Len(s) - n
        /\ \A i \in 1..Len(a) : a[i] = s[n + i] + 1
        /\ \A i \in 1..n : s[i] + 1 > limit
        /\ Len(a) > 0 => a[1] <= limit
  <2>1. AgesTo(s, limit, a)
    BY AgedDoes
  <2> QED BY <2>1 DEF AgesTo
<1>3. CASE p = 0
  BY <1>1, <1>2, <1>3
<1>4. CASE p > 0
  <2>1. Len(s) - p + 1 \in 1..Len(s)
    BY <1>1, <1>4
  <2>2. PICK x \in Nat : x = s[Len(s) - p + 1]
    BY <1>1, <2>1
  <2>3. ~(x + 1 > limit)
    BY <1>4, <2>2
  <2>4. Len(s) - p + 1 \notin 1..n
    BY <1>2, <2>2, <2>3
  <2>5. p \in 0..Len(a) /\ Len(a) - p + 1 \in 1..Len(a) /\ n + (Len(a) - p + 1) = Len(s) - p + 1
    <3>1. n < Len(s) - p + 1
      BY <1>1, <1>2, <2>1, <2>4
    <3> QED BY <1>1, <1>2, <1>4, <3>1
  <2>6. a[Len(a) - p + 1] = x + 1
    BY <1>2, <2>2, <2>5
  <2>7. x <= age
    BY <1>4, <2>2
  <2> QED BY <2>5, <2>6, <2>7
<1> QED BY <1>3, <1>4

\* A tick passes.
LEMMA ScopeAges ==
  ASSUME NEW b, NEW w, NEW f, NEW limit \in Nat, ScopeInv(b, w, f, limit)
  PROVE  ScopeInv(Aged(b, WindowLength), Aged(w, WindowLength + 1), Aged(f, WindowLength), limit)
<1>1. /\ WindowLength \in Nat /\ WindowLength + 1 \in Nat
      /\ b \in Seq(Nat) /\ w \in Seq(Nat) /\ f \in Seq(Nat) /\ Len(w) <= limit
  <2>1. WindowLength \in Nat
    BY LimitsConstants
  <2> QED BY <2>1 DEF ScopeInv
<1>2. /\ Len(b) \in Nat /\ Len(w) \in Nat
      /\ \A i \in 1..Len(b) : b[i] \in Nat
  BY <1>1, Numbers
<1>3. PICK c : c = Aged(b, WindowLength)
  OBVIOUS
<1>4. PICK v : v = Aged(w, WindowLength + 1)
  OBVIOUS
<1>5. PICK g : g = Aged(f, WindowLength)
  OBVIOUS
<1>6. PICK m \in 0..Len(b) :
        /\ c \in Seq(Nat) /\ Len(c) = Len(b) - m
        /\ \A i \in 1..Len(c) : c[i] = b[m + i] + 1
        /\ \A i \in 1..m : b[i] + 1 > WindowLength
        /\ Len(c) > 0 => c[1] <= WindowLength
  <2>1. AgesTo(b, WindowLength, c)
    BY <1>1, <1>3, AgedDoes
  <2> QED BY <2>1 DEF AgesTo
<1>7. v \in Seq(Nat) /\ \E n \in 0..Len(w) : Len(v) = Len(w) - n
  <2>1. AgesTo(w, WindowLength + 1, v)
    BY <1>1, <1>4, AgedDoes
  <2> QED BY <2>1 DEF AgesTo
<1>8. g \in Seq(Nat)
  <2>1. AgesTo(f, WindowLength, g)
    BY <1>1, <1>5, AgedDoes
  <2> QED BY <2>1 DEF AgesTo
<1>9. ASSUME NEW i \in 1..Len(c), NEW j \in 1..Len(c), i <= j PROVE c[j] <= c[i]
  <2>1. m + i \in 1..Len(b) /\ m + j \in 1..Len(b) /\ m + i <= m + j
    BY <1>2, <1>6, <1>9
  <2>2. b[m + j] <= b[m + i]
    BY <2>1 DEF ScopeInv
  <2>3. c[j] = b[m + j] + 1 /\ c[i] = b[m + i] + 1
    BY <1>6
  <2>4. b[m + j] \in Nat /\ b[m + i] \in Nat
    BY <1>2, <2>1
  <2>5. PICK x, y : x = b[m + j] /\ y = b[m + i]
    OBVIOUS
  <2>6. x \in Nat /\ y \in Nat /\ x <= y /\ c[j] = x + 1 /\ c[i] = y + 1
    BY <2>2, <2>3, <2>4, <2>5
  <2> QED BY <2>6
<1>10. ASSUME NEW j \in 1..Len(c)
       PROVE  \E p \in 0..Len(g), q \in 0..Len(v) :
                /\ p + q >= j
                /\ p > 0 => g[Len(g) - p + 1] <= c[Len(c) - j + 1]
                /\ q > 0 => v[Len(v) - q + 1] <= c[Len(c) - j + 1]
  <2>1. /\ j \in 1..Len(b) /\ Len(c) - j + 1 \in 1..Len(c) /\ 1 \in 1..Len(c) /\ Len(c) > 0
        /\ m + (Len(c) - j + 1) = Len(b) - j + 1 /\ Len(b) - j + 1 \in 1..Len(b)
        /\ 1 <= Len(c) - j + 1
    BY <1>2, <1>6
  <2>2. PICK age \in Nat : age = b[Len(b) - j + 1]
    BY <1>2, <2>1
  <2>3. c[Len(c) - j + 1] = age + 1
    BY <1>6, <2>1, <2>2
  <2>4. age + 1 <= WindowLength
    <3>1. c[Len(c) - j + 1] <= c[1]
      BY <1>9, <2>1
    <3>2. c[1] <= WindowLength /\ c[1] \in Nat
      BY <1>6, <2>1, Numbers
    <3> QED BY <1>1, <2>3, <3>1, <3>2
  <2>5. PICK p \in 0..Len(f), q \in 0..Len(w) :
          /\ p + q >= j
          /\ p > 0 => f[Len(f) - p + 1] <= age
          /\ q > 0 => w[Len(w) - q + 1] <= age
    BY <2>1, <2>2 DEF ScopeInv, Covered
  <2>6. p \in 0..Len(g) /\ (p > 0 => g[Len(g) - p + 1] <= age + 1)
    BY <1>1, <1>5, <2>4, <2>5, EntryAges, Zenon
  <2>7. q \in 0..Len(v) /\ (q > 0 => v[Len(v) - q + 1] <= age + 1)
    <3>1. PICK last \in Nat : last = WindowLength + 1
      BY <1>1
    <3>2. age + 1 <= last
      BY <1>1, <2>4, <3>1
    <3>3. v = Aged(w, last)
      BY <1>4, <3>1, Zenon
    <3> QED BY <1>1, <2>5, <3>2, <3>3, EntryAges, Zenon
  <2> QED BY <2>3, <2>5, <2>6, <2>7
<1>11. Len(v) <= limit
  BY <1>1, <1>2, <1>7
<1>12. Covered(c, v, g)
  BY <1>10 DEF Covered
<1>13. ScopeInv(c, v, g, limit)
  BY <1>6, <1>7, <1>8, <1>9, <1>11, <1>12 DEF ScopeInv
<1> QED BY <1>3, <1>4, <1>5, <1>13

\* The limiter of enrollment runs, key by key.
RunInv ==
  \A k \in AllRunKeys : ScopeInv(begun[k], windows[k], forgiven[k], RunLimit[k[1]])

\* A key has a limit.
LEMMA LimitType ==
  ASSUME NEW k \in AllRunKeys
  PROVE  RunLimit[k[1]] \in Nat
<1>1. PICK h \in Hosts : k \in RunKeys(h)
  BY DEF AllRunKeys
<1>2. PICK s \in {"source", "network", "region"} : k = ScopeKey(s, h)
  BY <1>1 DEF RunKeys
<1>3. k[1] = s
  BY <1>2 DEF ScopeKey
<1> QED BY <1>3, LimitsConstants

\* No step of SourceLimiter breaks it.
LEMMA RunStep ==
  ASSUME RunInv, [RunsNext]_runVars
  PROVE  RunInv'
<1> SUFFICES ASSUME NEW k \in AllRunKeys
             PROVE  ScopeInv(begun'[k], windows'[k], forgiven'[k], RunLimit[k[1]])
  BY DEF RunInv
<1>0. ScopeInv(begun[k], windows[k], forgiven[k], RunLimit[k[1]]) /\ RunLimit[k[1]] \in Nat
  BY LimitType DEF RunInv
<1>1. CASE RunsTick
  <2>1. /\ windows'[k] = Aged(windows[k], WindowLength + 1)
        /\ begun'[k] = Aged(begun[k], WindowLength)
        /\ forgiven'[k] = Aged(forgiven[k], WindowLength)
    BY <1>1 DEF RunsTick
  <2> QED BY <1>0, <2>1, ScopeAges
<1>2. ASSUME NEW r \in Runners, BeginRun(r)
      PROVE  ScopeInv(begun'[k], windows'[k], forgiven'[k], RunLimit[k[1]])
  <2>1. CASE k \in RunKeys(HostOf[r])
    <3>1. /\ Len(Expired(windows[k])) < RunLimit[k[1]]
          /\ windows'[k] = Append(Expired(windows[k]), 0)
          /\ begun'[k] = Append(begun[k], 0) /\ forgiven'[k] = forgiven[k]
      BY <1>2, <2>1 DEF BeginRun
    <3> QED BY <1>0, <3>1, ScopeBegins
  <2>2. CASE k \notin RunKeys(HostOf[r])
    BY <1>0, <1>2, <2>2 DEF BeginRun
  <2> QED BY <2>1, <2>2
<1>3. ASSUME NEW r \in Runners, ForgiveRun(r)
      PROVE  ScopeInv(begun'[k], windows'[k], forgiven'[k], RunLimit[k[1]])
  <2>1. CASE k \in RunKeys(HostOf[r])
    <3>1. /\ windows'[k] = IF windows[k] # <<>> THEN Front(windows[k]) ELSE windows[k]
          /\ begun'[k] = begun[k] /\ forgiven'[k] = Append(forgiven[k], 0)
      BY <1>3, <2>1 DEF ForgiveRun
    <3> QED BY <1>0, <3>1, ScopeForgives
  <2>2. CASE k \notin RunKeys(HostOf[r])
    BY <1>0, <1>3, <2>2 DEF ForgiveRun
  <2> QED BY <2>1, <2>2
<1>4. ASSUME NEW r \in Runners, FailRun(r)
      PROVE  ScopeInv(begun'[k], windows'[k], forgiven'[k], RunLimit[k[1]])
  BY <1>0, <1>4 DEF FailRun
<1>5. CASE UNCHANGED runVars
  BY <1>0, <1>5 DEF runVars
<1> QED BY <1>1, <1>2, <1>3, <1>4, <1>5 DEF RunsNext

\* No runs at the start.
LEMMA RunStart == RunsInit => RunInv
<1> SUFFICES ASSUME RunsInit, NEW k \in AllRunKeys
             PROVE  ScopeInv(begun[k], windows[k], forgiven[k], RunLimit[k[1]])
  BY DEF RunInv
<1>1. begun[k] = <<>> /\ windows[k] = <<>> /\ forgiven[k] = <<>>
  BY DEF RunsInit
<1>2. ScopeInv(<<>>, <<>>, <<>>, RunLimit[k[1]])
  BY LimitType DEF ScopeInv, Covered
<1> QED BY <1>1, <1>2

\* What it says: the entries cover the runs that were not forgiven.
LEMMA RunSays == RunInv => RunsLimited
<1> SUFFICES ASSUME RunInv, NEW k \in AllRunKeys
             PROVE  Len(begun[k]) - Len(forgiven[k]) <= RunLimit[k[1]]
  BY DEF RunsLimited
<1>1. PICK b, w, f, limit : b = begun[k] /\ w = windows[k] /\ f = forgiven[k] /\ limit = RunLimit[k[1]]
  OBVIOUS
<1>2. ScopeInv(b, w, f, limit) /\ limit \in Nat
  BY <1>1, LimitType DEF RunInv
<1>3. b \in Seq(Nat) /\ w \in Seq(Nat) /\ f \in Seq(Nat) /\ Len(w) <= limit
  BY <1>2 DEF ScopeInv
<1>4. Len(b) \in Nat /\ Len(w) \in Nat /\ Len(f) \in Nat
  BY <1>3, Numbers
<1>5. Len(b) - Len(f) <= limit
  <2>1. CASE Len(b) = 0
    BY <1>2, <1>4, <2>1
  <2>2. CASE Len(b) > 0
    <3>1. Len(b) \in 1..Len(b)
      BY <1>4, <2>2
    <3>2. PICK p \in 0..Len(f), q \in 0..Len(w) : p + q >= Len(b)
      BY <1>2, <3>1 DEF ScopeInv, Covered
    <3> QED BY <1>2, <1>3, <1>4, <3>2
  <2> QED BY <1>4, <2>1, <2>2
<1> QED BY <1>1, <1>5, Zenon

\* LimitsHold: whatever the order of arrivals, runs, forgivings, guesses, reconnects, datagrams,
\* sweeps and ticks, no limit of limits.rs, room_password.rs and sfu.rs is passed.
THEOREM LimitsAlwaysHold == LimitsSpec => LimitsHold
<1>1. ArrivalsInit /\ [][ArrivalsNext]_arrivalVars => []ArrivalsLimited
  BY ArrivalStart, ArrivalStep, ArrivalSays, PTL
<1>2. RunsInit /\ [][RunsNext]_runVars => []RunsLimited
  BY RunStart, RunStep, RunSays, PTL
<1>3. IngressInit /\ [][IngressNext]_ingressVars => []AudioPoliced
  BY IngressStart, IngressStep, IngressSays, PTL
<1>4. GuessesInit /\ [][GuessesNext]_guessVars => AnswersSpaced
  <2>1. GuessesInit /\ [][GuessesNext]_guessVars => []GuessInv
    BY GuessStart, GuessStep, PTL
  <2>2. GuessInv /\ [GuessesNext]_guessVars =>
          [\A u \in Guessers :
             /\ u \in DOMAIN failures \cap DOMAIN failures'
             /\ failures'[u] # failures[u] /\ failures'[u].age = 0
             => answered[u] >= WaitAfter(failures[u].count)]_guessVars
    BY AnswersWait
  <2> QED BY <2>1, <2>2, PTL DEF AnswersSpaced
<1> QED BY <1>1, <1>2, <1>3, <1>4, PTL DEF LimitsSpec, LimitsHold

=============================================================================
