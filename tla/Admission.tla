----------------------------- MODULE Admission -----------------------------
(***************************************************************************)
(* How a connection gets to be served (throcc-server: lib.rs, session.rs,  *)
(* and Gate of limits.rs): the accept loop and three gates with caps per   *)
(* source, per network and in total.                                       *)
(*                                                                         *)
(* Each connection is a task; gates are counters behind a mutex, and a pass*)
(* of a gate is given back when it is dropped, which first counts down and *)
(* then, with the mutex released, wakes those who wait for the gate.  A    *)
(* slot of Conns stands for one connection after another from one address. *)
(* The arrival buckets and the window of enrollment runs, which refuse     *)
(* without a trace in the gates, are in Limits.                            *)
(***************************************************************************)
EXTENDS Integers, Sequences, FiniteSets

CONSTANTS
  Sockets,          \* slots for connections
  SourceOf,       \* the address each connects from
  NetworkOf,      \* the network of each address
  Caps            \* the caps of each gate: [gate -> [level -> Nat]]

Gates == {"unauthenticated", "handshakes", "connections"}
Levels == {"source", "network", "total"}

ASSUME AdmissionConstants ==
  /\ IsFiniteSet(Sockets)
  /\ \A c \in Sockets : SourceOf[c] \in DOMAIN NetworkOf
  /\ Caps \in [Gates -> [Levels -> Nat]]

VARIABLES
  phase,    \* what each connection's task is doing
  passes,     \* the gates whose pass it holds
  drops,    \* the passes it is about to drop, in this order
  waking,   \* tasks between counting a handshake pass down and waking the waiters
  woken,    \* waiters that have been notified since they enabled their notification
  counts    \* Gate.counts

admissionVars == <<phase, passes, drops, waking, woken, counts>>
gateVars == <<passes, drops, waking, woken, counts>>

Everyone == "everyone"
SourceKeys == DOMAIN NetworkOf \cup {NetworkOf[s] : s \in DOMAIN NetworkOf} \cup {Everyone}

\* SourceKey::of and network.
KeyOf(level, c) ==
  CASE level = "source" -> SourceOf[c]
    [] level = "network" -> NetworkOf[SourceOf[c]]
    [] level = "total" -> Everyone

AdmissionInit ==
  /\ phase = [c \in Sockets |-> "off"]
  /\ passes = [c \in Sockets |-> {}]
  /\ drops = [c \in Sockets |-> <<>>]
  /\ waking = {}
  /\ woken = {}
  /\ counts = [g \in Gates |-> [l \in Levels |-> [k \in SourceKeys |-> 0]]]

-----------------------------------------------------------------------------
(* Gates. *)

Admits(g, c) == \A l \in Levels : counts[g][l][KeyOf(l, c)] < Caps[g][l]

\* try_enter, where it admits.
Enters(g, c) ==
  /\ counts' = [counts EXCEPT ![g] = [l \in Levels |-> [counts[g][l] EXCEPT ![KeyOf(l, c)] = @ + 1]]]
  /\ passes' = [passes EXCEPT ![c] = @ \cup {g}]

\* Bug variant of Leaves: the network keeps counting whoever left.
LeavesSource(g, c) ==
  [counts EXCEPT ![g] = [l \in Levels |->
     IF l = "network" THEN counts[g][l] ELSE [counts[g][l] EXCEPT ![KeyOf(l, c)] = @ - 1]]]
Leaves(g, c) ==
  [counts EXCEPT ![g] = [l \in Levels |-> [counts[g][l] EXCEPT ![KeyOf(l, c)] = @ - 1]]]

\* Pass::drop, to the end of the mutex.
Drop(c) ==
  /\ drops[c] # <<>>
  /\ c \notin waking
  /\ LET g == Head(drops[c]) IN
     /\ counts' = Leaves(g, c)
     /\ passes' = [passes EXCEPT ![c] = @ \ {g}]
     /\ waking' = IF g = "handshakes" THEN waking \cup {c} ELSE waking
  /\ drops' = [drops EXCEPT ![c] = Tail(@)]
  /\ UNCHANGED <<phase, woken>>

\* Bug variant of Listening: only those already asleep are woken.
ListeningAsleep == {c \in Sockets : phase[c] = "asleep"}
\* Whom notify_waiters reaches: everyone who enabled a notification, asleep yet or not.
Listening == {c \in Sockets : phase[c] \in {"trying", "tried", "asleep"}}

\* And after it: notify_waiters.
Notify(c) ==
  /\ c \in waking
  /\ waking' = waking \ {c}
  /\ woken' = woken \cup Listening
  /\ UNCHANGED <<phase, passes, drops, counts>>

\* The task goes on once its drops are done.
Running(c) == drops[c] = <<>> /\ c \notin waking

\* serve returns: the passes go in the reverse order of their arrival.
IfHeld(g, c) == IF g \in passes[c] THEN <<g>> ELSE <<>>
Ends(c) ==
  /\ phase' = [phase EXCEPT ![c] = "end"]
  /\ drops' = [drops EXCEPT ![c] =
       IfHeld("connections", c) \o IfHeld("handshakes", c) \o IfHeld("unauthenticated", c)]

-----------------------------------------------------------------------------
(* A connection's task. *)

\* The accept loop, for a validated address that the arrival buckets admit: whoever finds the
\* gate full is refused, and a pass taken before the buckets refuse goes back at once.
Accept(c) ==
  /\ phase[c] = "off"
  /\ Admits("unauthenticated", c)
  /\ Enters("unauthenticated", c)
  /\ phase' = [phase EXCEPT ![c] = "tls"]
  /\ UNCHANGED <<drops, waking, woken>>

\* The TLS handshake is done and there are datagrams; serve enables its notification.
Secured(c) ==
  /\ phase[c] = "tls"
  /\ phase' = [phase EXCEPT ![c] = "trying"]
  /\ UNCHANGED gateVars

\* A turn of Gate::enter: try_enter, and where it is full, sleep.
TrySlot(c) ==
  /\ phase[c] = "trying"
  /\ \/ /\ Admits("handshakes", c)
        /\ Enters("handshakes", c)
        /\ phase' = [phase EXCEPT ![c] = "greeting"]
        /\ woken' = woken \ {c}
     \/ /\ ~Admits("handshakes", c)
        /\ phase' = [phase EXCEPT ![c] = "tried"]
        /\ UNCHANGED <<passes, counts, woken>>
  /\ UNCHANGED <<drops, waking>>

Sleep(c) ==
  /\ phase[c] = "tried"
  /\ phase' = [phase EXCEPT ![c] = "asleep"]
  /\ UNCHANGED gateVars

\* Notified: the next turn, with a new notification.
Wake(c) ==
  /\ phase[c] = "asleep" /\ c \in woken
  /\ phase' = [phase EXCEPT ![c] = "trying"]
  /\ woken' = woken \ {c}
  /\ UNCHANGED <<passes, drops, waking, counts>>

\* ServerHello is sent and ClientHello has arrived.
Greeted(c) ==
  /\ phase[c] = "greeting"
  /\ \/ /\ Admits("connections", c)
        /\ Enters("connections", c)
        /\ phase' = [phase EXCEPT ![c] = "signing"]
        /\ UNCHANGED drops
     \/ /\ ~Admits("connections", c)
        /\ Ends(c)
        /\ UNCHANGED <<passes, counts>>
  /\ UNCHANGED <<waking, woken>>

\* Bug variant of SignedInDrops: the sign-in slot is kept while the connection is served.
SignedInDropsPermit == <<"handshakes">>
SignedInDrops == <<"handshakes", "unauthenticated">>

\* authenticate and Hub::connect succeed: the two passes for signing in are dropped.
SignIn(c) ==
  /\ phase[c] = "signing"
  /\ phase' = [phase EXCEPT ![c] = "served"]
  /\ drops' = [drops EXCEPT ![c] = SignedInDrops]
  /\ UNCHANGED <<passes, waking, woken, counts>>

\* Refused, by authenticate or by the hub: the answer is written and the client given time to
\* read it.
Refuse(c) ==
  /\ phase[c] = "signing"
  /\ phase' = [phase EXCEPT ![c] = "refusing"]
  /\ UNCHANGED gateVars

\* A failure, or one of TLS_TIMEOUT, HELLO_TIMEOUT (twice), SIGN_IN_TIMEOUT and LINGER.
GiveUp(c) ==
  /\ phase[c] \in {"tls", "trying", "tried", "asleep", "greeting", "signing", "refusing"}
  /\ Ends(c)
  /\ woken' = woken \ {c}
  /\ UNCHANGED <<passes, waking, counts>>

\* read_loop is over.
Disconnect(c) ==
  /\ phase[c] = "served"
  /\ Running(c)
  /\ Ends(c)
  /\ UNCHANGED <<passes, waking, woken, counts>>

\* The task is gone.
Ended(c) ==
  /\ phase[c] = "end"
  /\ Running(c)
  /\ phase' = [phase EXCEPT ![c] = "off"]
  /\ UNCHANGED gateVars

AdmissionNext ==
  \E c \in Sockets :
    \/ Accept(c) \/ Secured(c) \/ TrySlot(c) \/ Sleep(c) \/ Wake(c) \/ Greeted(c)
    \/ SignIn(c) \/ Refuse(c) \/ GiveUp(c)
    \/ Disconnect(c) \/ Ended(c) \/ Drop(c) \/ Notify(c)

\* Timeouts end what takes too long, and a task that drops its passes needs nobody else.
AdmissionFairness ==
  \A c \in Sockets : WF_admissionVars(GiveUp(c)) /\ WF_admissionVars(Drop(c)) /\ WF_admissionVars(Notify(c))

AdmissionSpec == AdmissionInit /\ [][AdmissionNext]_admissionVars

-----------------------------------------------------------------------------
(* Properties. *)

\* Every gate counts exactly the passes held, on every level, whichever way a connection ends:
\* a pass that leaks would lock its network out for good, one counted down twice let more in.
PassesCounted ==
  \A g \in Gates, l \in Levels, k \in SourceKeys :
    counts[g][l][k] = Cardinality({c \in Sockets : g \in passes[c] /\ KeyOf(l, c) = k})

\* limits.rs, enter: whoever sleeps in front of a gate that would admit them has been woken or
\* is about to be, also if the slot was freed between their try and their sleep.
NoLostWakeup ==
  \A c \in Sockets : phase[c] = "asleep" /\ c \notin woken /\ waking = {} => ~Admits("handshakes", c)

\* A connection is bounded in how long it keeps a sign-in slot: it signs in, or it is gone.
SlotsComeBack ==
  \A c \in Sockets : ("unauthenticated" \in passes[c]) ~> ("unauthenticated" \notin passes[c])

\* Slots are counted, handed on and given back (limits.rs Gate, session.rs serve).
SlotsShared == [](PassesCounted /\ NoLostWakeup) /\ SlotsComeBack

=============================================================================
