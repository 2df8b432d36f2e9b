------------------------------ MODULE Verified ------------------------------
(***************************************************************************)
(* Whom the user verified.  verified.rs keeps the verified identity keys    *)
(* of the install in people.json, with the server-and-user pairs each was   *)
(* seen under and the changes noted against them; trust.rs holds which key  *)
(* each person presents in the session; the profile dialog of app.rs shows  *)
(* the safety number the user compares and marks.  One copy of the app uses *)
(* the file.                                                                *)
(*                                                                         *)
(* A pair is one user of one server.  The broadcast of the session's state  *)
(* to the window and the drawing of the window are steps of their own, so a *)
(* click acts on what was drawn and not on what the session holds by then.  *)
(***************************************************************************)
EXTENDS Naturals, FiniteSets

CONSTANTS Pairs,      \* (server, user) pairs a key is presented as
          Keys,       \* identity keys
          NoKey,      \* none presented, none recorded
          MaxSeen,    \* MAX_SEEN: pairs noted per verified key
          MaxNoted,   \* MAX_SIGNED_IN: presented keys noted at once
          ProfilesOpened,     \* pairs whose profile the user opens
          MaxAsked,   \* bound: clicks on their way at once
          MaxEvents   \* bound: keys shown, reconnects, restarts and file turns

ASSUME VerifiedAssumption ==
  /\ NoKey \notin Keys /\ IsFiniteSet(Pairs)
  /\ MaxSeen \in Nat \ {0} /\ MaxNoted \in Nat \ {0}
  /\ ProfilesOpened \subseteq Pairs /\ MaxAsked \in Nat \ {0} /\ MaxEvents \in Nat

VARIABLES file,       \* people.json, its VerifiedRecords
          readable,   \* whether this version of the app can read it
          mem,        \* VerifiedKeys.records
          since,      \* VerifiedKeys.shown_since
          presented,  \* Trust.presented
          told,       \* the window's copy of the people it shows
          shownProfile,    \* Dialog::Profile, or NoDialog
          drawn,      \* the profile as last drawn, or NoDialog
          asked,      \* SetVerified and DismissKeyChange on their way
          compared,   \* history: keys the user compared and marked
          happened,     \* bound: events so far
          expected,   \* history: the verified key last seen at a pair
          owed        \* history: unverified keys shown there since

verifiedVars == <<file, readable, mem, since, presented, told, shownProfile, drawn,
                  asked, compared, expected, owed, happened>>

Happens == happened < MaxEvents /\ happened' = happened + 1

MaybeKey == Keys \cup {NoKey}
NoDialog == [open |-> FALSE]
Records == [verified: SUBSET Keys, seen: [Keys -> SUBSET Pairs],
            changed: [Pairs -> MaybeKey]]
NoRecords == [verified |-> {}, seen |-> [k \in Keys |-> {}],
              changed |-> [at \in Pairs |-> NoKey]]
Nobody == [at \in Pairs |-> NoKey]

VerifiedTypeOK ==
  /\ file \in Records /\ readable \in BOOLEAN
  /\ mem \in Records
  /\ since \in [Pairs -> MaybeKey]
  /\ presented \in [Pairs -> MaybeKey]
  /\ told \in [Pairs -> [key: MaybeKey, verified: BOOLEAN, warned: BOOLEAN]]
  /\ compared \subseteq Keys
  /\ expected \in [Pairs -> MaybeKey] /\ owed \in [Pairs -> SUBSET Keys]

-----------------------------------------------------------------------------
(* VerifiedRecords *)

\* Forgets `at` on every verified key but `except`.
ForgetSeen(r, at, except) ==
  [r EXCEPT !.seen = [k \in Keys |-> IF k = except THEN r.seen[k] ELSE r.seen[k] \ {at}]]

See(r, k, at) ==
  LET others == ForgetSeen(r, at, k)
  IN IF k \in r.verified /\ Cardinality(r.seen[k]) < MaxSeen
       THEN [others EXCEPT !.seen[k] = @ \cup {at}]
       ELSE others

ForgetChange(r, at) == [r EXCEPT !.changed[at] = NoKey]

\* The verified key last seen at a pair, and the key a change there now shows.
VerifiedAt(r, at) ==
  IF \E k \in r.verified: at \in r.seen[k]
    THEN CHOOSE k \in r.verified: at \in r.seen[k] ELSE NoKey

ChangedAt(at) ==
  IF mem.changed[at] # NoKey /\ since[at] # NoKey
    THEN since[at] ELSE mem.changed[at]

Warned(at) == ChangedAt(at) # NoKey /\ VerifiedAt(mem, at) # NoKey

\* The keys shown since a change was recorded, which the next write takes along.
WithSince(r, shown) ==
  [r EXCEPT !.changed = [at \in Pairs |-> IF r.changed[at] # NoKey /\ shown[at] # NoKey
                                            THEN shown[at] ELSE r.changed[at]]]

\* VerifiedKeys::change: applies a change to the file as it is on disk, under the lock
\* every process takes, and keeps what the file then holds.
Written(next, shown) ==
  /\ file' = IF readable THEN next ELSE file
  /\ mem' = IF readable THEN next ELSE mem
  /\ since' = IF readable THEN Nobody ELSE shown

\* The mutant: a file that cannot be read is written from what is in memory.
WrittenBlindly(next, shown) ==
  /\ file' = IF readable THEN next ELSE mem
  /\ mem' = IF readable THEN next ELSE mem
  /\ since' = Nobody

Change(next, shown) == Written(next, shown)

-----------------------------------------------------------------------------
(* Presented keys *)

\* VerifiedKeys::presented: what a server shows as a user is noted where it is verified,
\* or where it replaces a verified key seen there.
NoteShown(at, k) ==
  LET r == WithSince(file, since)
      there == VerifiedAt(mem, at)
  IN IF k \in mem.verified
       THEN IF there = k THEN UNCHANGED <<file, mem, since>>
            ELSE Change(ForgetChange(See(r, k, at), at), since)
     ELSE IF there = NoKey THEN UNCHANGED <<file, mem, since>>
     ELSE IF mem.changed[at] # NoKey
       THEN since' = [since EXCEPT ![at] = k] /\ UNCHANGED <<file, mem>>
     ELSE Change([r EXCEPT !.changed[at] = k], since)

\* The mutant: the verified key shown again takes the change back.
NoteShownBack(at, k) ==
  LET r == WithSince(file, since)
      there == VerifiedAt(mem, at)
  IN IF k \in mem.verified
       THEN IF there = k /\ mem.changed[at] = NoKey THEN UNCHANGED <<file, mem, since>>
            ELSE Change(ForgetChange(See(r, k, at), at), since)
     ELSE IF there = NoKey THEN UNCHANGED <<file, mem, since>>
     ELSE Change([r EXCEPT !.changed[at] = k], since)

PresentedShown(at, k) == NoteShown(at, k)

\* Trust::note, once one more key is presented with a valid signature: past the bound only
\* the person shown now and those with a changed key stay noted.
Noted(at, k) ==
  LET noted == {a \in Pairs: presented[a] # NoKey}
      notedStill == IF Cardinality(noted) + 1 > MaxNoted
                THEN {a \in noted: a = at \/ ChangedAt(a) # NoKey} ELSE noted
  IN [a \in Pairs |-> IF a = at THEN k ELSE IF a \in notedStill THEN presented[a] ELSE NoKey]

Note(at, k) ==
  /\ Happens
  /\ presented[at] # k
  /\ presented' = Noted(at, k)
  /\ PresentedShown(at, k)
  /\ LET ours == mem.verified
     IN /\ expected' = IF readable /\ k \in ours THEN [expected EXCEPT ![at] = k] ELSE expected
        /\ owed' = IF /\ k \notin ours /\ expected[at] \in ours
                      /\ readable \/ mem.changed[at] # NoKey
                     THEN [owed EXCEPT ![at] = @ \cup {k}]
                   ELSE IF readable /\ k \in ours /\ expected[at] # k
                     THEN [owed EXCEPT ![at] = {}]
                   ELSE owed
  /\ UNCHANGED <<readable, told, shownProfile, drawn, asked, compared>>

\* A new connection, where each key must be presented again.
ForgetPresented ==
  /\ Happens
  /\ presented # Nobody
  /\ presented' = Nobody
  /\ UNCHANGED <<file, readable, mem, since, told, shownProfile, drawn, asked,
                 compared, expected, owed>>

\* VerifiedStore::reload on every join, and the first load: a file that cannot be read
\* leaves nobody verified.
Loaded == IF readable THEN file ELSE NoRecords

Reload ==
  /\ Happens
  /\ mem' = Loaded
  /\ since' = Nobody
  /\ presented' = Nobody
  /\ mem' # mem \/ since' # since
  /\ UNCHANGED <<file, readable, told, shownProfile, drawn, asked, compared,
                 expected, owed>>

\* A newer version writes the file, or it is restored.
FileTurns ==
  /\ Happens
  /\ readable' = ~readable
  /\ UNCHANGED <<file, mem, since, presented, told, shownProfile, drawn, asked,
                 compared, expected, owed>>

-----------------------------------------------------------------------------
(* The profile dialog *)

\* follow_presented_key: the number shown follows the key the person presents now.
Follow(d, people) ==
  IF ~d.open THEN d
  ELSE LET k == people[d.user].key
       IN IF k = NoKey \/ k = d.shown THEN d
          ELSE [d EXCEPT !.keyChanged = @ \/ d.shown # NoKey, !.shown = k]

\* The mutant: the number changes under the user with nothing said.
FollowQuietly(d, people) ==
  IF ~d.open \/ people[d.user].key = NoKey THEN d
  ELSE [d EXCEPT !.shown = people[d.user].key]

FollowPresentedKey(d, people) == Follow(d, people)

\* refresh_trust, and the state the session's update broadcasts of it.
People == [at \in Pairs |->
             [key |-> presented[at],
              verified |-> presented[at] \in mem.verified,
              warned |-> Warned(at)]]

\* on_event of the state: every event ends by following the presented key.
StateArrives ==
  /\ told # People
  /\ told' = People
  /\ shownProfile' = FollowPresentedKey(shownProfile, People)
  /\ UNCHANGED <<file, readable, mem, since, presented, drawn, asked, compared,
                 expected, owed, happened>>

OpenProfile(at) ==
  /\ ~shownProfile.open
  /\ shownProfile' = FollowPresentedKey([open |-> TRUE, user |-> at, shown |-> NoKey,
                                    keyChanged |-> FALSE, meant |-> NoKey], told)
  /\ UNCHANGED <<file, readable, mem, since, presented, told, drawn, asked, compared,
                 expected, owed, happened>>

\* The dialog as the next frame draws it.  `meant` is history: the user compares the number
\* of the first key drawn without the notice that it changed.
Meant == IF shownProfile.keyChanged \/ shownProfile.meant # NoKey THEN shownProfile.meant ELSE shownProfile.shown

View == IF ~shownProfile.open THEN NoDialog
        ELSE [open |-> TRUE, user |-> shownProfile.user, shown |-> shownProfile.shown, meant |-> Meant,
              keyChanged |-> shownProfile.keyChanged, person |-> told[shownProfile.user]]

Draw ==
  /\ drawn # View
  /\ drawn' = View
  /\ shownProfile' = IF shownProfile.open THEN [shownProfile EXCEPT !.meant = Meant] ELSE shownProfile
  /\ UNCHANGED <<file, readable, mem, since, presented, told, asked, compared, expected,
                 owed, happened>>

CloseProfile ==
  /\ shownProfile.open
  /\ shownProfile' = NoDialog
  /\ UNCHANGED <<file, readable, mem, since, presented, told, drawn, asked,
                 compared, expected, owed, happened>>

\* compare_again, from its button: the comparison starts over with the next frame.
CompareAgain ==
  /\ drawn.open /\ drawn.keyChanged /\ shownProfile.open
  /\ shownProfile' = [shownProfile EXCEPT !.keyChanged = FALSE, !.meant = NoKey]
  /\ UNCHANGED <<file, readable, mem, since, presented, told, drawn, asked, compared,
                 expected, owed, happened>>

\* The mark button, disabled while the number shown is not the one to compare.
MarkEnabled ==
  /\ drawn.open /\ ~drawn.keyChanged
  /\ drawn.shown # NoKey /\ drawn.shown = drawn.person.key

ClickMark ==
  /\ MarkEnabled
  /\ asked' = asked \cup {[do |-> "mark", at |-> drawn.user, key |-> drawn.shown,
                           verified |-> ~drawn.person.verified]}
  /\ asked' # asked /\ Cardinality(asked') <= MaxAsked
  /\ compared' = IF drawn.person.verified THEN compared ELSE compared \cup {drawn.meant}
  /\ UNCHANGED <<file, readable, mem, since, presented, told, shownProfile, drawn,
                 expected, owed, happened>>

\* The warning of a changed key, and its button.
ClickDismiss ==
  /\ drawn.open /\ drawn.person.warned
  /\ ~drawn.keyChanged /\ drawn.shown = drawn.person.key
  /\ asked' = asked \cup {[do |-> "dismiss", at |-> drawn.user, key |-> drawn.shown,
                           verified |-> FALSE]}
  /\ asked' # asked /\ Cardinality(asked') <= MaxAsked
  /\ UNCHANGED <<file, readable, mem, since, presented, told, shownProfile, drawn,
                 compared, expected, owed, happened>>

-----------------------------------------------------------------------------
(* What the user asked, taken by the session *)

\* History: pairs whose change a verification of k settles, unless another key was shown there
\* after it.
SettledKeys(k, at) ==
  [a \in Pairs |-> IF a = at THEN {}
                  ELSE IF k \in owed[a] THEN {WithSince(file, since).changed[a]} \ {k, NoKey}
                  ELSE owed[a]]

Verify(at, k) ==
  LET r == [WithSince(file, since) EXCEPT !.verified = @ \cup {k}]
      seen == ForgetChange(See(r, k, at), at)
  IN /\ Change([seen EXCEPT !.changed = [a \in Pairs |->
                     IF seen.changed[a] = k THEN NoKey ELSE seen.changed[a]]], since)
     /\ expected' = IF readable THEN [expected EXCEPT ![at] = k] ELSE expected
     /\ owed' = IF readable THEN SettledKeys(k, at) ELSE owed

Unverify(k) ==
  LET r == WithSince(file, since)
  IN /\ Change([verified |-> r.verified \ {k},
                   seen |-> [r.seen EXCEPT ![k] = {}],
                   changed |-> [a \in Pairs |-> IF k \in r.verified /\ a \in r.seen[k]
                                                  THEN NoKey ELSE r.changed[a]]], since)
     /\ expected' = IF readable THEN [a \in Pairs |-> IF expected[a] = k THEN NoKey
                                                      ELSE expected[a]]
                    ELSE expected
     /\ owed' = IF readable THEN [a \in Pairs |-> IF expected[a] = k THEN {} ELSE owed[a]]
                ELSE owed

\* Trust::set_verified: only while the person still presents the key compared.
StillPresents(at, k) == presented[at] = k

TakeMark ==
  \E c \in asked:
    /\ c.do = "mark"
    /\ asked' = asked \ {c}
    /\ IF ~StillPresents(c.at, c.key)
         THEN UNCHANGED <<file, mem, since, expected, owed>>
       ELSE IF c.verified THEN Verify(c.at, c.key)
       ELSE Unverify(c.key)
    /\ UNCHANGED <<readable, presented, told, shownProfile, drawn, compared, happened>>

\* dismiss_change: a verified key presented again stays watched, in the same write.
Dismissed(at) ==
  LET k == presented[at]
      shown == [since EXCEPT ![at] = NoKey]
      r == ForgetChange(ForgetSeen(WithSince(file, shown), at, NoKey), at)
      watched == k \in mem.verified
  IN /\ Change(IF watched THEN See(r, k, at) ELSE r, shown)
     /\ expected' = IF readable THEN [expected EXCEPT ![at] = IF watched THEN k ELSE NoKey]
                    ELSE expected
     /\ owed' = IF readable THEN [owed EXCEPT ![at] = {}] ELSE owed

TakeDismiss ==
  \E c \in asked:
    /\ c.do = "dismiss"
    /\ asked' = asked \ {c}
    /\ IF StillPresents(c.at, c.key) THEN Dismissed(c.at)
       ELSE UNCHANGED <<file, mem, since, expected, owed>>
    /\ UNCHANGED <<readable, presented, told, shownProfile, drawn, compared, happened>>

\* The list of verified people on the settings page takes any of them off.
UnverifyListed ==
  \E k \in mem.verified:
    /\ Unverify(k)
    /\ UNCHANGED <<readable, presented, told, shownProfile, drawn, asked, compared, happened>>

-----------------------------------------------------------------------------
VerifiedInit ==
  /\ file = NoRecords /\ readable = TRUE
  /\ mem = NoRecords
  /\ since = Nobody
  /\ presented = Nobody
  /\ told = [at \in Pairs |-> [key |-> NoKey, verified |-> FALSE, warned |-> FALSE]]
  /\ shownProfile = NoDialog /\ drawn = NoDialog /\ asked = {} /\ compared = {} /\ happened = 0
  /\ expected = Nobody /\ owed = [at \in Pairs |-> {}]

VerifiedNext ==
  \/ \E at \in Pairs, k \in Keys: Note(at, k)
  \/ ForgetPresented \/ Reload \/ UnverifyListed
  \/ FileTurns \/ StateArrives \/ Draw \/ CloseProfile \/ CompareAgain
  \/ \E at \in ProfilesOpened: OpenProfile(at)
  \/ ClickMark \/ ClickDismiss \/ TakeMark \/ TakeDismiss

VerifiedSpec == VerifiedInit /\ [][VerifiedNext]_verifiedVars

-----------------------------------------------------------------------------
\* A key is verified only if the user compared its number: the number changing under a
\* click, a click on a drawing already overtaken, a command taken after the key changed
\* again, none of them marks a key the user did not compare (app.rs follow_presented_key,
\* trust.rs set_verified).
OnlyCompared == file.verified \subseteq compared

\* A key shown in place of a verified one is warned of until the user verifies it, dismisses
\* the change or takes the verified key off: not flipping back and forth, not a restart and
\* not a new session loses it (verified.rs presented, changed_at).
SwapWarned ==
  \A at \in Pairs: owed[at] # {} =>
    /\ file.changed[at] # NoKey
    /\ \E k \in file.verified: at \in file.seen[k]

\* A file this version cannot read is never written over (verified.rs change, json_file.rs
\* update).
UnreadableKept == [][~readable => file' = file]_verifiedVars

\* What the user is told of a person is what the user found out (verified.rs, trust.rs,
\* app.rs).
TrustEarned == [](OnlyCompared /\ SwapWarned) /\ UnreadableKept

=============================================================================
