------------------------------- MODULE Limits -------------------------------
(***************************************************************************)
(* The allowances of throcc-server that count over time: the arrival       *)
(* buckets of the accept loop and the window of enrollment runs (limits.rs,*)
(* auth.rs), and the wrong guesses at a room's password (room_password.rs, *)
(* rooms.rs), whose check and whose count are two steps with Argon2 between*)
(* them, and the datagrams a connection may send (Sfu::ingress of sfu.rs). *)
(* Instants are ages in ticks of the slowest refill, so one tick refills   *)
(* one token of a source; the constants are the code's in small.           *)
(*                                                                         *)
(* Four machines that share nothing, each with its own state, next-state   *)
(* relation and tick of the clock.                                         *)
(***************************************************************************)
EXTENDS Integers, Sequences, FiniteSets, FiniteSetsExt, Functions, SequencesExt

CONSTANTS
  Hosts,            \* source addresses
  NetOf,            \* the network of each
  RegionOf,         \* and the region
  Arrivals,         \* the burst of arrivals: [source |-> Nat, network |-> Nat]
  Runners,          \* connections that enroll, each from a host
  HostOf,
  RunLimit,         \* runs in the window: [source |-> Nat, network |-> Nat, region |-> Nat]
  WindowLength,           \* SOURCE_WINDOW
  Guessers,         \* users who guess at one room's password
  FreeFailures, LongestWait, FailureMemory, RoomFailures,
  MaxGuesses,       \* bound: wrong guesses counted
  IngressTracks,           \* the tracks a connection owns, audio but for VideoTrack
  VideoTrack,
  TrackBurst,       \* AudioAllowance: [packets |-> Nat, bytes |-> Nat]
  IngressBurst,     \* and of the connection
  MaxForgiven       \* bound: runs forgiven within a window

ASSUME LimitsConstants ==
  /\ DOMAIN NetOf = Hosts /\ DOMAIN RegionOf = Hosts
  /\ HostOf \in [Runners -> Hosts]
  /\ Arrivals \in [{"source", "network"} -> Nat \ {0}]
  /\ RunLimit \in [{"source", "network", "region"} -> Nat]
  /\ {FreeFailures, LongestWait, RoomFailures, WindowLength, FailureMemory} \subseteq Nat \ {0}
  /\ FailureMemory > LongestWait
  /\ {TrackBurst, IngressBurst} \subseteq [packets : Nat, bytes : Nat]

VARIABLES
  buckets,    \* ArrivalLimiter: tokens of each known source and network
  sweepDue,   \* Buckets.next_sweep has come
  arrived,    \* (history) arrivals of this tick and of the one before
  windows,       \* SourceLimiter: the ages of the recorded runs, oldest first
  running,    \* the connections with a run under way
  begun,      \* (history) ages of the runs begun, of each source and network
  forgiven,   \* (history) ages of the runs forgiven
  failures,   \* Guesses.users: [count, age] of each user with wrong guesses
  roomTokens, \* Guesses.rooms
  guess,      \* the work each user's connections wait on
  answered,   \* (history) how long ago each user was last told "wrong password"
  ingress,    \* the connection's buckets, and whether it is open
  policer,    \* AudioPolicer.tracks
  policed,    \* AudioPolicer.next_sweep has come
  forwarded   \* (history) bytes forwarded of each track in this tick and in the one before

arrivalVars == <<buckets, sweepDue, arrived>>
runVars == <<windows, running, begun, forgiven>>
guessVars == <<failures, roomTokens, guess, answered>>
ingressVars == <<ingress, policer, policed, forwarded>>

\* SourceKey, network and region.
ScopeKey(s, h) ==
  CASE s = "source" -> <<s, h>> [] s = "network" -> <<s, NetOf[h]>> [] s = "region" -> <<s, RegionOf[h]>>
ArrivalKeys(h) == {ScopeKey(s, h) : s \in {"source", "network"}}
RunKeys(h) == {ScopeKey(s, h) : s \in {"source", "network", "region"}}
AllArrivalKeys == UNION {ArrivalKeys(h) : h \in Hosts}
AllRunKeys == UNION {RunKeys(h) : h \in Hosts}
Least(a, b) == IF a < b THEN a ELSE b


ArrivalsInit ==
  /\ buckets = <<>>
  /\ sweepDue = TRUE
  /\ arrived = [k \in AllArrivalKeys |-> <<0, 0>>]

RunsInit ==
  /\ windows = [k \in AllRunKeys |-> <<>>]
  /\ running = {}
  /\ begun = [k \in AllRunKeys |-> <<>>]
  /\ forgiven = [k \in AllRunKeys |-> <<>>]

GuessesInit ==
  /\ failures = <<>>
  /\ roomTokens = RoomFailures
  /\ guess = [u \in Guessers |-> {}]
  /\ answered = [u \in Guessers |-> FailureMemory]

IngressInit ==
  /\ ingress = [open |-> TRUE, packets |-> IngressBurst.packets, bytes |-> IngressBurst.bytes]
  /\ policer = <<>>
  /\ policed = TRUE
  /\ forwarded = [t \in IngressTracks |-> <<0, 0>>]

-----------------------------------------------------------------------------
(* Arrivals: token buckets by source and network. *)

\* TokenBucket::refill of one tick.
Refilled(tokens, capacity) == Least(tokens + 1, capacity)

\* A bucket that isn't known is full.
Tokens(bs, k) == IF k \in DOMAIN bs THEN bs[k] ELSE Arrivals[k[1]]

\* Bug variant of Swept: buckets are forgotten when they have a token again.
SweptEarly(bs) == Restrict(bs, {k \in DOMAIN bs : bs[k] = 0})
\* Buckets::bucket, its sweep: full buckets are forgotten.
Swept(bs) == Restrict(bs, {k \in DOMAIN bs : bs[k] < Arrivals[k[1]]})

\* ArrivalLimiter::admit: both buckets must hold a token before either gives one.
NewArrival(h) ==
  LET known == IF sweepDue THEN Swept(buckets) ELSE buckets
      keys == ArrivalKeys(h) IN
  /\ sweepDue' = FALSE
  /\ \/ /\ \A k \in keys : Tokens(known, k) >= 1
        /\ buckets' = [k \in keys \cup DOMAIN known |->
             IF k \in keys THEN Tokens(known, k) - 1 ELSE known[k]]
        /\ arrived' = [k \in AllArrivalKeys |->
             IF k \in keys THEN [arrived[k] EXCEPT ![1] = @ + 1] ELSE arrived[k]]
     \/ /\ \E k \in keys : Tokens(known, k) < 1
        /\ buckets' = known
        /\ UNCHANGED arrived

-----------------------------------------------------------------------------
(* Enrollment runs: a sliding window by source, network and region. *)

\* The front is dropped for as long as it is older than limit.
Within(times, limit) ==
  LET recent == {i \in DOMAIN times : times[i] <= limit} IN
  IF recent = {} THEN <<>> ELSE SubSeq(times, Min(recent), Len(times))

\* Bug variant of Expired: a run leaves the window one tick early.
ExpiredEarly(times) == Within(times, WindowLength - 1)
\* expire, also of a sweep: forgetting the keys without runs changes nothing.
Expired(times) == Within(times, WindowLength)

\* SourceLimiter::begin, before the invite is looked at: a run counts from its start.
BeginRun(r) ==
  LET keys == RunKeys(HostOf[r]) IN
  /\ r \notin running
  /\ \A k \in keys : Len(Expired(windows[k])) < RunLimit[k[1]]
  /\ windows' = [k \in AllRunKeys |-> IF k \in keys THEN Append(Expired(windows[k]), 0) ELSE windows[k]]
  /\ begun' = [k \in AllRunKeys |-> IF k \in keys THEN Append(begun[k], 0) ELSE begun[k]]
  /\ running' = running \cup {r}
  /\ UNCHANGED forgiven

\* Enrollment::run, where it enrolled: the newest run of its source is forgiven, whichever it is.
ForgiveRun(r) ==
  LET keys == RunKeys(HostOf[r]) IN
  /\ r \in running
  /\ \A k \in keys : Len(forgiven[k]) < MaxForgiven
  /\ running' = running \ {r}
  /\ windows' = [k \in AllRunKeys |->
       IF k \in keys /\ windows[k] # <<>> THEN Front(windows[k]) ELSE windows[k]]
  /\ forgiven' = [k \in AllRunKeys |-> IF k \in keys THEN Append(forgiven[k], 0) ELSE forgiven[k]]
  /\ UNCHANGED begun

\* A run that fails, or whose connection goes, stays counted.
FailRun(r) ==
  /\ r \in running
  /\ running' = running \ {r}
  /\ UNCHANGED <<windows, begun, forgiven>>

-----------------------------------------------------------------------------
(* Guesses at a room's password. *)

\* Failures::next_try, as a wait: doubling from the last free failure on.
WaitAfter(count) ==
  IF count < FreeFailures THEN 0 ELSE Least(2 ^ (count - FreeFailures), LongestWait)

\* Guesses::check, and the work is handed out: a connection waits for its answer.
CheckGuess(u) ==
  /\ "current" \notin guess[u]
  /\ u \in DOMAIN failures => failures[u].age >= WaitAfter(failures[u].count) /\ roomTokens >= 1
  /\ guess' = [guess EXCEPT ![u] = @ \cup {"current"}]
  /\ UNCHANGED <<failures, roomTokens, answered>>

\* The user connects anew; the work of the old connection goes on.
ReplaceConnection(u) ==
  /\ "current" \in guess[u]
  /\ guess' = [guess EXCEPT ![u] = {"replaced"}]
  /\ UNCHANGED <<failures, roomTokens, answered>>

\* FAILURE_MEMORY is over for these; the sweep is left to chance, as FAILURE_SWEEP does.
Remembered(fs) == Restrict(fs, {u \in DOMAIN fs : fs[u].age < FailureMemory})

\* Bug variant of Answerable: the answer reaches whoever asked.
AnswerableAny == {"current", "replaced"}
\* Hub::finish: require_current.
Answerable == {"current"}

\* Guesses::failed: the allowance of the room and the count of the user.
FailGuess(u) ==
  \E from \in guess[u] \cap Answerable, swept \in BOOLEAN :
    LET kept == IF swept THEN Remembered(failures) ELSE failures
        count == IF u \in DOMAIN kept THEN kept[u].count ELSE 0 IN
    /\ count < MaxGuesses
    /\ guess' = [guess EXCEPT ![u] = @ \ {from}]
    /\ roomTokens' = IF roomTokens >= 1 THEN roomTokens - 1 ELSE roomTokens
    /\ failures' = [v \in DOMAIN kept \cup {u} |->
         IF v = u THEN [count |-> count + 1, age |-> 0] ELSE kept[v]]
    /\ answered' = [answered EXCEPT ![u] = 0]

\* Guesses::succeeded.
RightGuess(u) ==
  \E from \in guess[u] \cap Answerable :
    /\ guess' = [guess EXCEPT ![u] = @ \ {from}]
    /\ failures' = Restrict(failures, DOMAIN failures \ {u})
    /\ UNCHANGED <<roomTokens, answered>>

\* The result for a connection that was replaced is dropped.
DropGuess(u) ==
  /\ "replaced" \in guess[u]
  /\ guess' = [guess EXCEPT ![u] = @ \ {"replaced"}]
  /\ UNCHANGED <<failures, roomTokens, answered>>

-----------------------------------------------------------------------------
(* Datagrams of one connection. *)

\* Bug variant of FullAllowance: full packets are enough.
FullAllowancePackets(a) == a.packets = TrackBurst.packets
\* AudioAllowance::is_full.
FullAllowance(a) == a.packets = TrackBurst.packets /\ a.bytes = TrackBurst.bytes

\* AudioPolicer, after its sweep, with the track's allowance in it.
Policed(t) ==
  LET kept == IF policed THEN Restrict(policer, {s \in DOMAIN policer : ~FullAllowance(policer[s])})
              ELSE policer IN
  [s \in DOMAIN kept \cup {t} |-> IF s \in DOMAIN kept THEN kept[s] ELSE TrackBurst]

\* Sfu::ingress, a datagram on a track the connection owns; those on other tracks only cost tokens.
AudioDatagram(t, bytes) ==
  /\ ingress.open
  /\ IF ingress.bytes < bytes
     THEN ingress' = [ingress EXCEPT !.open = FALSE] /\ UNCHANGED <<policer, policed, forwarded>>
     ELSE IF ingress.packets < 1
     THEN ingress' = [ingress EXCEPT !.bytes = @ - bytes] /\ UNCHANGED <<policer, policed, forwarded>>
     ELSE /\ ingress' = [ingress EXCEPT !.bytes = @ - bytes, !.packets = @ - 1]
          /\ LET known == Policed(t)
                 admits == known[t].packets >= 1 /\ known[t].bytes >= bytes IN
             IF t = VideoTrack
             THEN /\ forwarded' = [forwarded EXCEPT ![t][1] = @ + bytes]
                  /\ UNCHANGED <<policer, policed>>
             ELSE /\ policed' = FALSE
                  /\ policer' = IF admits THEN [known EXCEPT ![t].packets = @ - 1, ![t].bytes = @ - bytes]
                                ELSE known
                  /\ forwarded' = IF admits THEN [forwarded EXCEPT ![t][1] = @ + bytes] ELSE forwarded

-----------------------------------------------------------------------------
\* A tick: everything grows older, buckets refill.  What no property can tell apart is dropped.
Aged(times, limit) == Within([i \in DOMAIN times |-> times[i] + 1], limit)

ArrivalsTick ==
  /\ sweepDue' = TRUE
  /\ buckets' = [k \in DOMAIN buckets |-> Refilled(buckets[k], Arrivals[k[1]])]
  /\ arrived' = [k \in AllArrivalKeys |-> <<0, arrived[k][1]>>]

RunsTick ==
  /\ windows' = [k \in AllRunKeys |-> Aged(windows[k], WindowLength + 1)]
  /\ begun' = [k \in AllRunKeys |-> Aged(begun[k], WindowLength)]
  /\ forgiven' = [k \in AllRunKeys |-> Aged(forgiven[k], WindowLength)]
  /\ UNCHANGED running

GuessesTick ==
  /\ failures' = [u \in DOMAIN failures |-> [failures[u] EXCEPT !.age = Least(@ + 1, FailureMemory)]]
  /\ roomTokens' = Refilled(roomTokens, RoomFailures)
  /\ answered' = [u \in Guessers |-> Least(answered[u] + 1, FailureMemory)]
  /\ UNCHANGED guess

IngressTick ==
  /\ ingress' = [ingress EXCEPT !.packets = Refilled(@, IngressBurst.packets),
                               !.bytes = Refilled(@, IngressBurst.bytes)]
  /\ policer' = [t \in DOMAIN policer |->
       [packets |-> Refilled(policer[t].packets, TrackBurst.packets),
        bytes |-> Refilled(policer[t].bytes, TrackBurst.bytes)]]
  /\ policed' = TRUE
  /\ forwarded' = [t \in IngressTracks |-> <<0, forwarded[t][1]>>]

ArrivalsNext == ArrivalsTick \/ \E h \in Hosts : NewArrival(h)
RunsNext == RunsTick \/ \E r \in Runners : BeginRun(r) \/ ForgiveRun(r) \/ FailRun(r)
GuessesNext ==
  \/ GuessesTick
  \/ \E u \in Guessers :
       CheckGuess(u) \/ ReplaceConnection(u) \/ FailGuess(u) \/ RightGuess(u) \/ DropGuess(u)
IngressNext == IngressTick \/ \E t \in IngressTracks, bytes \in 1..2 : AudioDatagram(t, bytes)

\* The four side by side.
LimitsSpec ==
  /\ ArrivalsInit /\ RunsInit /\ GuessesInit /\ IngressInit
  /\ [][ArrivalsNext]_arrivalVars /\ [][RunsNext]_runVars
  /\ [][GuessesNext]_guessVars /\ [][IngressNext]_ingressVars

-----------------------------------------------------------------------------
(* Properties. *)

\* limits.rs, Buckets: "forgetting it late changes nothing".  However a host times its
\* connections around the sweeps, two ticks admit no more than a burst and a refill.
ArrivalsLimited ==
  \A k \in AllArrivalKeys : arrived[k][1] + arrived[k][2] <= Arrivals[k[1]] + 1

\* limits.rs, SourceLimiter: the runs begun in a window, less those forgiven in it, stay within
\* the limit, also where runs overlap and a success forgives another run's entry.
RunsLimited ==
  \A k \in AllRunKeys : Len(begun[k]) - Len(forgiven[k]) <= RunLimit[k[1]]

\* room_password.rs: whoever is told "wrong password" has waited as long as their failures ask
\* since they were told so last, also across reconnects in the middle of a guess.
AnswersSpaced ==
  [][\A u \in Guessers :
       /\ u \in DOMAIN failures \cap DOMAIN failures'
       /\ failures'[u] # failures[u] /\ failures'[u].age = 0
       => answered[u] >= WaitAfter(failures[u].count)]_guessVars

\* sfu.rs: an audio track forwards no more bytes in two ticks than its burst and a refill, also
\* around the sweeps that forget allowances.
AudioPoliced ==
  \A t \in IngressTracks \ {VideoTrack} : forwarded[t][1] + forwarded[t][2] <= TrackBurst.bytes + 1

\* No timing gets past a limit (limits.rs, room_password.rs, sfu.rs).
LimitsHold == [](ArrivalsLimited /\ RunsLimited /\ AudioPoliced) /\ AnswersSpaced

=============================================================================
