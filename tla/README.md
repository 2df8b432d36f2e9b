# throcc in TLA+

throcc is a self-hosted voice and screen-sharing system: a Rust server that
forwards end-to-end encrypted media between the members of rooms, and a client
library (`throcc-client-core`) with a GUI and a command line front end. This
directory holds the TLA+ models of both, the TLC configurations that check them,
and TLAPS proofs of what matters most about enrollment, the hub, its limits and its files,
the control stream, the exchange of keys, identity and trust, the session, the window, capture
and calls. All paths below are relative to `crates/` in the repository, which `PROJECT.json`
calls `src/crates/`.

## The system's parts

| Part | State | Operations | Interacts with | Modules |
|---|---|---|---|---|
| Invites and enrollment (`throcc-server`: `auth.rs`, `database.rs`) | tables `invites`, `users`; `Hub.invite_runs` | mint, claim a try, PAKE, enroll, drop of a run, purge, restart | hub lock, connection tasks, `admin-invite` in another process | `Enrollment`, `Handshake` |
| Hub: accounts and sessions (`rooms.rs`, `auth.rs`, `session.rs`) | one session per user, its connection and role | authenticate, connect (evict, rejoin), disconnect, set role, kick, remove, sweep | connection tasks under one mutex; Argon2 off it | `Hub` |
| Hub: rooms (`rooms.rs`, `database.rs`) | members, epoch, password of each room, `last_joined`, media id counter | join, leave, create, delete, set password | clients' key managers | `Hub`, `RoomEpochs` |
| Hub: routing (`rooms.rs`, `sfu.rs`) | forwarding table, audiences, watching, pending keyframes | set media, set watched, request keyframe, ticker | ingress reads the table without the lock | `Hub` |
| Ingress and egress (`sfu.rs`, `egress.rs`) | policers, inbox, units, copies, losses, turns | per datagram | forwarding table; quinn | `Limits`, `Egress` |
| Admission (`lib.rs`, `limits.rs`, `session.rs`, `room_password.rs`) | gates, buckets, windows, failures | accept, sign in, give up, sweep, guess | every connection task | `Admission`, `Limits` |
| Data directory (`identity.rs`, `files.rs`, `lib.rs`) | directory, key, database | start, mint, stop anywhere | other processes on it | `DataDir` |
| Control stream (`client-core`: `control.rs`, `call.rs`; server `session.rs`) | pending requests, bounded queues | ask, write, read, pump, serve, time out | session task | `Link` |
| Sign-in (`connection.rs`, `account.rs`, `throcc-crypto`) | pins, what either side has proved | greet, sign in, enroll, pin | whoever is between | `Handshake` |
| Key manager (`keys.rs`, `floors.rs`) | own and received secrets, trusted peers, early messages, floors | placement, room state, presence, sender key, media, tick | session and pump tasks share it | `KeyManager`, `AnyServer`, `KeyExchange` |
| Session (`client-core/src/session.rs`, `client.rs`, `state.rs`) | room, shares, watching, switches, pending handlers | commands, replies, events, reconnect | hub, window, share and media threads | `Session`, `KeyExchange` |
| Identity files (`keystore.rs`, `verified.rs`, `trust.rs`, `known_servers.rs`) | keychain, key files, verified keys | load, start over, renew, verify, dismiss | keychain, clock, window | `Keystore`, `Verified` |
| Received media (`media/engine.rs`, `fragment.rs`, `reorder.rs`, `jitter.rs`, `share_audio.rs`) | buffered fragments, gaps, jitter buffer, held pictures | per datagram, tick, pull | network, keys | `Track`, `Playout` |
| Sent media (`media/voice.rs`, `share.rs`, `video/encode.rs`) | calls, devices, encoder, recovery pacer | commands, capture, encode, recover | calls, hub, viewers | `Voice`, `SharePath` |
| Capture (`media/capture/*`) | lent buffers, pools, rings, clocks, links | callbacks, share loop | PipeWire, Windows, macOS | `Screencast`, `Callbacks`, `ShareClock`, `DesktopAudio` |
| GUI (`throcc-client`) | joins, dialogs, windows, forms, decoded pictures | clicks, results, releases | session, operating system | `Joins`, `Streams`, `Pictures`, `Avatars`, `Verified` |
| CLI, wire format, cryptographic libraries, vendored toolkit | | | | not modelled |

### What is hard in it

- **One mutex, many tasks.** Requests are handled under the hub lock, but
  authentication, Argon2 and PAKE run off it: what they read is stale when they come back.
- **One session per user.** A reconnect replaces a connection whose task still runs.
- **Epochs.** End-to-end encryption rests on the server never adding someone to an epoch
  that has begun, also when SQLite fails; derived state (routes, audiences, what each
  client was told) is recomputed by hand in each handler.
- **Two orders in one client.** A reply wakes the session while the events sent before it
  still go through reader and pump; both tasks work on one key manager.
- **Nobody to trust.** The key manager must hold against a server that repeats or reorders
  anything, sign-in against whoever is between, the stores against files and keychains that
  fail, are unreadable or come back.
- **Late answers.** Timeouts, background tasks and callbacks report to a state that moved
  on: another room, call, share, dialog, window or picture.
- **Limits.** Queues, gates, pools and windows are full when something must be given up,
  and counted in more than one place.
- **Stopping anywhere.** Tries, floors, keys, directories and identity files are written in
  several steps.

`hazards` in `PROJECT.json` gives lines and the properties that cover each.

## The modules

A component's module has its state, one action per operation or step, its properties and,
beside the definitions they change, its *bug variants*: the same definition with a mistake
one could make in that code. `mutants` records, for each property of a run, one variant that
breaks it. `map` gives the lines behind every definition. Most components state several
properties; one definition at the end of the module, named in the configuration, is their
conjunction.

`Hub` instantiates `RoomEpochs`; `AnyServer` and `KeyExchange` use `KeyManager`. The `MC`
modules give constants their values. Six of them (`MCIdentity`, `MCMedia`, `MCClient`,
`MCShare`, `MCCapture` and `MCKept`) hold several machines that share no state: the variable
`part` picks the one that runs in a behaviour, and the others stay as they began, so a run's
states are the sum and not the product.

Proofs are in modules of their own: `EnrollmentProofs` extends `Enrollment`, `HubProofs`
extends `Hub` and `HubClientsProofs` extends that; `KeyExchangeProofs` extends `KeyExchange`;
`KeptProofs` extends `Link`, `DataDir`, `Admission` and `Limits`, `ClientProofs` extends
`Session`, `Joins` and `Streams`, `CaptureProofs` extends `Voice`, `Screencast` and `Callbacks`,
`IdentityProofs` extends `AnyServer`, `Keystore`, `Handshake` and `Verified`.

### The server

**Enrollment.** `invites`, `users`, `minted` and `nextUser` are the two tables and their
counters; `inviteRuns` is `Hub.invite_runs`; `runs` is what each connection task holds on
its stack. The hub lock is taken three times in a run, and these are the actions: `ClaimTry`
(or `ClaimDecoy` for an id without a live invite), `Enroll` or `EnrollRefused`, and `EndRun`,
the drop of `InviteRun`, which may come at any time. `CreateInvite`, `AdminInvite`,
`SetRole`, `RemoveUsers`, `Restart` and the clock come in between. A secret is a serial
number, so guessing one is not modelled: the PAKE succeeds or it does not. `tried`,
`redeemed` and `wasAdmin` are history.

**Hub and RoomEpochs.** One variable per field of the hub, its sessions and the database. A
handler runs under the mutex and is one action; those that move several people one by one
(`connect` with eviction and rejoin, removals, deletion of a room) keep the mutex in `todo`
and go on in `LockHolderStep`. A connection task authenticates, connects, asks, may hand
work to Argon2 with the mutex released, and finishes; meanwhile it may have been replaced.
`Move` is `Hub::place` as a whole. `told` and `toldAud` hold what each session was last
sent, so that "everyone who must hear of it does" is an invariant; `untold` lists the
sessions that the two handlers which can stop halfway left with an old state. `byRank`
remembers whom rank alone let into a locked room. Rate limiters refuse and change nothing:
no step. `RoomEpochs` says only that a room gains a member with a new epoch alone;
`EpochsRefined` is the refinement.

**Admission and Limits.** Three gates with caps per source, network and in total, and a task
per connection that takes passes, waits for a slot, gives up or is dropped at any step; a
pass is counted down first and wakes waiters after. `Limits` has four machines: arrival
buckets with their sweep, the window of enrollment runs, guesses at a room's password with
Argon2 between check and count, and the policers of ingress. Instants are ages in ticks.

**Egress.** The inbox ingress offers to, and one receiver's queues: units with their
fragments, copies for resends, strays, losses at a full inbox and past the list of them
(`lost.over`, counted in `beyond`), budgets, the limit of a unit and histories, and the audio
queues with their turns. A unit is known by its first `seq`. The way in may reorder fragments
and resend a unit's start. A report that finds no room on the control channel leaves the
counts for the next.

**DataDir.** Starts, `admin-invite` and crashes between any two steps of either, on a
directory that may be missing, another's, or open to others.

### The client

**KeyManager, AnyServer.** A manager is a record; each operation (`ApplyPlacement`,
`PeersChanged`, `SetPresence`, `SenderKey`, `RecvKey`, `ReplaceEncryption`, `Tick`) is a
function from one record to the next and puts the requests it makes in `out`. HPKE is ideal.
Time is a choice of the caller: at a tick any retired secret, early message or grace period
may be over. `AnyServer` drives one manager with every placement, room state, presence and
sealed secret there is, in any order and as often as it likes, with lobby trips, kicks,
reconnects, restarts, crashes and key renewals. `saved` is the floors file; `took` and
`past` are history.

**KeyExchange.** Several managers around the hub as clients see it, in the order `place`,
`set_media`, `set_encryption_key` and `publish_key` write to the streams. `Pump` and
`ApplyReply`/`ApplyWelcome`/`Kicked` are the two tasks on one manager. A *story* (constant
`Stories`) says which rooms are visited, how old they are, who renews, shares, is kicked or
reconnects, and how far tasks may drift apart: `sendRace` (a pause between unlocking the
keys and sending), `kickRace` (a command is taken before a kick that is under way). `Steady`
marks the behaviours without the effects listed under *Known limits*, of which `ViewsAgree`
speaks; `OnlyMembersKnow` speaks of all. Media ids are the users, which `MembershipAgrees`
of `Hub` justifies.

**Session.** One client's session loop against what the hub records of it. A handler that
asks waits for the answer or `REPLY_TIMEOUT`; it is split at each wait and `doing` holds the
rest. Shares start off the loop and report late; commands given while reconnecting are
queued or dropped as in the code. Stories bound what happens in one behaviour.

**Link.** Askers, writer, reader, pump and session of one control stream and the server's
`read_loop` and `write_loop`, with every queue bounded; replies travel behind events.

**Handshake.** Sign-in and enrollment message by message. A connection's number stands for
its TLS exporter and nonces; a signature or confirmation is the record of what it covers.
Whoever is between repeats anything and has a key of their own.

**Verified, Keystore.** The verified keys with the profile dialog (the broadcast of the
session's state and the drawing of the window are steps, so a click acts on what was drawn);
and the identity in keychain and files, with a keychain that may be locked and come back,
starting over in its steps, and a clock that can be set back.

**Track, Playout.** A track from `Sealer` over a network that loses, repeats and reorders to
the units its listener gets, with keys that come late (`t` is the task's record); audio
through the jitter buffer across wraps, and the pictures that wait for it.

**Voice, SharePath.** The audio thread between calls, commands and devices; and a share's
pictures from the encoder to a viewer with losses on every stretch and recovery on the way
back. `SharePath` takes the network at the promise `Track` checks.

**Screencast, Callbacks, ShareClock, DesktopAudio.** PipeWire buffers lent to the share
thread across format changes, with `stuck` the entries of `Lent` that damaged pictures took; callbacks on pool threads, and loopback whose opening may hang
(Windows), and of macOS; the rings, chunker and limiter of a share's clock; and the links of
desktop audio while clients, nodes and ports come and go with ids that return.

**Joins, Streams, Pictures, Avatars.** The window: joins in the background, dialogs, removal,
starting over (a join's task opens the key store in a step of its own, and `identity` says
which one it found there); shares in the room, filling it or popped out; the profile's and the server's
picture from the file picked to the blob stored; and the pictures of those on screen, from
the drawing to the server and back.

## The runs

| Run | States | Shows |
|---|---|---|
| `enrollment` (`MCEnrollment`: `TypeOK`, `TriesBounded`, `RunsWatched`, `InviteCap`, `BurnedInTime`) | 795186 | Two enrolling connections, mints, removals, role changes, expiry, id reuse and restarts in any order: runs are counted exactly, no secret is run more often than it has tries, a spent invite always has a run to burn it and is eventually gone, no run's invite is burned under it, and the daily cap holds. |
| `enrollment_reuse` (`MCEnrollment`: `SingleUse`) | 1155 | With id reuse a second run that proved an already used code redeems the next invite of the same id, so one code enrolls two people. |
| `hub_accounts` (`MCHub`: `AccessEarned`, `RecordsLast`) | 1117904 | Sign-ins, joins, passwords, kicks, role changes, removals and restarts around authentication and Argon2: a reconnect leads past a password only those who were inside under it and not kicked since, a demoted manager is not returned to a locked room their rank had opened, no session outlives its account or keeps an old rank, limits checked before Argon2 hold after it, no request removes the last admin, nothing persistent is used twice. |
| `hub_rooms` (`MCHub`: `MembershipAgrees`, `ToldCurrent`, `EpochsRefined`) | 826016 | Two rooms, failing epoch writes and exhausted epochs: member lists and sessions agree, media ids name one membership, members were last sent the present state except after the two handlers that can stop halfway, and the rooms implement RoomEpochs: nobody joins an epoch that has begun. |
| `hub_media` (`MCHub`: `MediaAgrees`, `IdrServed`) | 72373 | Deafening, sharing, watching, moving, reconnecting, keyframe requests: the published routes and the announced audiences match the state, and a requested Idr survives later refresh requests, dies with its track, and reaches the owner of a track that lives on. |
| `identity` (`MCIdentity`: `NoReplay`, `SecretsCurrent`, `IdentityKept`, `IdentityProved`, `AudienceKept`, `TrustEarned`) | 965921 | Whom a client is and whom it takes others for: the key manager against a server that sends anything in any order and again, the verified keys across swaps, clicks, restarts and unreadable files, the key store across lost keychains, crashes and wrong clocks, and sign-in and enrollment message by message over connections that may lead to someone between. |
| `exchange` (`MCKeyExchange`: `ViewsAgree`, `OnlyMembersKnow`) | 1329035 | Two clients and the hub, in one room or in two of different age, with joins, leaves, kicks, a share, key renewals and reconnects, replies and events applied in any order: once all is delivered everyone knows where they are and who is there and holds the others' secrets, and secrets reach only those who were members of their epoch. |
| `media` (`MCMedia`: `UnitsDelivered`, `QueuesKept`, `CallsApart`) | 1927149 | Datagrams lost, repeated and reordered on a received track, the voice thread between calls and devices, and the server's egress queues at their limits: whole units once and in order with every skip reported, nothing said in one call in the next, and indexes, turns and counters that stay in step with what is queued. |
| `client` (`MCClient`: `SessionAgrees`, `JoinsInOrder`, `WindowsAgree`, `PicturesKept`) | 2878469 | The session loop and the window: commands, late answers, kicks, shares that start late and reconnects; joins overtaking each other, removed servers and starting over; streams, pop-outs and fullscreen; profile pictures from the file picked to the blob the server keeps. |
| `share` (`MCShare`: `PathRepairs`, `PlaysOn`) | 269193 | A share from the encoder through the hub to a viewer with losses, full queues and paced keyframe requests, and its playout: a broken picture is repaired once faults are over, audio is decoded forwards across wraps and gaps, and pictures held for it are shown even when it stops. |
| `capture` (`MCCapture`: `ClockKept`, `BuffersKept`, `CallbacksApart`, `OthersOnly`, `PicturesKeepGoing`) | 1141813 | Capture: PipeWire buffers lent to the share thread across format changes, Windows' pool threads and loopback, the clock, ring, chunker and rate limiter of a share, and the links of desktop audio as programs come and go. |
| `kept` (`MCKept`: `RepliesMatch`, `SlotsShared`, `LimitsHold`, `DirectoryKept`, `AvatarsShown`, `RequestsEnd`) | 182593 | What is counted, kept and given back: connection passes and the wait for a sign-in slot, the limiters around their sweeps, the server's data directory with crashes and second starts, profile pictures a window keeps, and requests and replies of a control stream whose queues are all bounded. |

### Bounds, and why they are enough

Two users, connections or rooms are enough for every hazard listed: each is between one
actor and another, or between something and its replacement; where a third is needed (a
waiter beside two holders, a second address) it is there. Limits are 1 to 3 so that they are
reached; `Lendable` equals the number of buffers, so that lending fails just when damaged
pictures have taken entries, and the egress list of losses is as long as its inbox, as in the
code, and overflows. Counters are capped by guards (a `bound:` comment at the constant); `MaxEpoch`
stands for `u32::MAX` and running into it is part of `hub_rooms`; request ids and timestamps
wrap at small moduli. `identity` has lists of peers of every kind there is: another identity,
another peer's media id, an unsigned key, a refused key, an invalid list. `exchange` and the
session part of `client` run stories: each bounds how often what may happen happens, and
together they cover every command, every fault and every pair the hazards name; the
shortest counterexamples to weaker statements needed two or three commands, stories have two
to four. `media` sends three units or more per track with every size and place of a keyframe, a
change of epoch and a repeat. Symmetry is used where connections or tasks are interchangeable
and no liveness is checked. `CHECK_DEADLOCK FALSE` stands where nobody need ask for anything
once the bounds are used up; `enrollment` and `enrollment_reuse` check for deadlock.

### Fairness

- `Enrollment`: weak, of `EndRun` of each connection. The PAKE has timeouts of 5 s and 30 s,
  and dropping a task runs `InviteRun::drop`.
- `Hub`: weak of the lock holder, who needs nobody else; strong of the keyframe ticker for
  each track, which wakes every interval and waits for a mutex that is free again and again.
- `Admission`: weak of giving up (sign-in has a timeout), of the drop of a pass and of the
  wake-up after it, which are a destructor's steps.
- `Link`: weak of each task's next step and of each request's timeout. The reader's failure
  is not owed while it is held up by a full queue, as it then doesn't read.
- `Avatars`: weak of the drawing of what is on screen (the window draws again with every
  state; an assumption, as `forget_avatar` itself emits nothing), of the session's loop, of fetching (each request times out) and of the reconnect
  or its end.
- `SharePath`: weak of the encoder, the pacer's timer, the send loop and the receiver, all
  loops of their own. That of `EncodesFrame` holds while the screen changes: on a still screen
  the share loop only sleeps (`share.rs:284`), and a viewer waits for the next picture. No fairness of the network: faults are bounded in number, and repair
  is promised once they are over.
- `Playout`: weak of the pull every 10 ms and of the decoder's look at what it holds.
- `Screencast`: weak of each loop's next step; strong of encoding or refusing a picture and of
  the use of each buffer, as the share loop serves them in turn and the compositor goes round its
  buffers.
- Everything else states safety, or what holds once nothing is under way.

## Findings

`enrollment_reuse` (run with an expected violation): `Database::enroll` looks an invite up
by its id alone. A second run that proved a code which is used up redeems the next invite
drawn with that id, against README.md's "Each code works once". Rare (ids are drawn from
32768), and only within one PAKE timeout.

### Known limits

Met while modelling. The models have the behaviour; properties are stated of the rest, and
say so in their comments where they had to be narrowed.

Server:
- A manager demoted inside a locked room who asks to join it again has `last_joined` back
  (`rooms.rs:758`, against the comment at 1306). `DemotedNotReturned` counts asking again as
  a way in.
- Two publishes in one epoch are free, and a member can have reason for three
  (`rooms.rs:487`); the request budget pays for the third.
- `JoinRoom` of the room one is in keeps `watching` on the hub; the client clears its own.
- Egress can count a unit as dropped at a full inbox and again when its rest is given up: of
  losses past the list of `INBOX` each packet counts as a unit (`egress.rs:84`), and the start
  of a unit lost there is not known of. `DroppedOnce` is of what counts under a unit and leaves
  out units with such a start; `AudioAccounted` counts every loss of audio, those past the list
  too. A unit over `MAX_UNIT_FRAGMENTS` is given up although its first fragments may be sent
  (`egress.rs:277`, against the comment there); `WholeUnits` excuses it.
- A crash between creating and writing `server_key` leaves an empty file, which every later
  start refuses. A second start on a running server's directory migrates and deletes spent
  invites before it fails to bind; nothing locks the directory, nor is its entry synced.

Client:
- A peer whose renewed key HPKE refuses leaves the trusted peers without its secrets being
  retired (`keys.rs:481`); another identity of it then goes unnoticed and the old one's
  secrets serve on, against the comment at 257.
- A secret pumped before the placement it belongs to is judged by the room being left, and
  dropped if that is two or more epochs ahead (`keys.rs:520`, against 496).
- A room state of the placement's own epoch that arrives first is dropped (`keys.rs:245`,
  271): a share started in that window stays unseen until the next state. `StatesAgree`, a part
  of `ViewsAgree`, therefore compares epoch, members, ids, keys and media, but not shares.
- The older of two secrets of one epoch can be published last, as keys are unlocked before
  sending.
- A `KickedFromRoom` heard after leaving and joining again puts the client out of a room the
  hub has it in (`session.rs:1766`, against 704).
- Floors raised by room states reach the file with the 2 s health tick or the next placement;
  a client that stops before takes the same epoch again.
- A join answered after `REPLY_TIMEOUT` leaves hub and client apart until the next move or
  reconnect.
- The send into the queue of requests is not under `REPLY_TIMEOUT` (`control.rs:296`, against
  24): with more requests than the queue holds, a caller waits as long as the writer does.
- A profile saved while reconnecting can be dropped and a later `ProfileSaved` speak for the
  old one; going back to an earlier profile whose answer was lost asks for nothing
  (`session.rs:413`, against 396). A `ServerProfileSaved` of an earlier save clears a newer
  edit of the picture (`app.rs:779`).
- `Encoder::submit` uses up an IDR request for a frame it then refuses (`encode.rs:340`);
  the picture stays broken until the next request (`wasted` in `SharePath`).
- After rebuffering across a wrap the jitter buffer can take a packet for far ahead; pictures
  can be held somewhat longer than `share_audio.rs:68` says.
- On Windows handlers can overtake each other before the limiter sees their stamps.
- On Linux the first frame in GPU memory is used for its size alone. A damaged picture in GPU
  memory takes an entry of `Lent` that nobody gives back: `frame.zip(self.lent.lend(buffer))`
  (`linux.rs:760`) lends before it is known that there is a frame, and the buffer is queued
  back, against "True when it was lent, so it must not be queued back yet" (743). After `LENT`
  of them no picture in GPU memory is taken until the format changes. `BuffersComeBack` is of the
  leases somebody was given, and `PicturesGoOn` promises pictures unless every entry is
  taken so for good (`stuck = Lendable`).
- A join that was overtaken goes on in the background (`app.rs:1696`). It may open the key store
  while the identity is being started over, or begin one itself when no server is listed any
  more, and enroll with what it found; its server is then back on the list. Its client is
  dropped (`app.rs:1721`): `AloneStartingOver` and `IdentityPresent` are of the join that is
  waited for and of the session.
- Removing a server, trusting its new key and trying again go by what is in the address field
  at that moment. Fullscreen that the user entered meanwhile is taken for ours. Push to talk
  held as the window loses focus goes on. A picture the server was once missing is not asked
  for again in that session.
- An identity made in the fallback file signs the encryption key that an earlier identity
  from the keychain had signed.

### Assumptions

Cryptography is ideal. `DesktopAudio`: the first information on a PipeWire client carries its
process id. `Verified`: one copy of the program uses people.json. `SharePath`: a refresh is an
IDR (no intra refresh).

## What is proved

Every theorem is stated of the specification that the runs check, for every value of the
constants that meets the named assumptions of its module. TLC evaluates these on the runs'
values. They say that sets are finite where they are counted (`Sockets`, `Conns`), that bounds
and allowances are numbers, that the special values (`NoRoom`, `Nowhere`, `NoProcess`) are
outside the sets they are special in, that stories are made of commands there are, and, of
`PeerLists` in `AnyServer`, that an entry names a user and has a verdict. Three theorems have a
hypothesis of their own: `~IdReuse` of `CodesWorkOnce`, `RefusedStay` of `SecretsAlwaysCurrent`
and `SeenFits` of `TrustAlwaysEarned`; the passing runs satisfy them. The argument is the
same everywhere: an inductive invariant, one lemma per action (or per kind of step), and PTL
at the end. Where a strengthening was in doubt, TLC checked it first.

**Enrollment** (`EnrollmentProofs`; `BoundsAssumption`, `LimitsAssumption`, `ConnsFinite`,
`FirstKeyAssumption`), for any number of connections, keys, ids, tries, users and any lifetime:

- `TypeCorrect`: `Spec => []TypeOK`; inductive as it stands.
- `TriesAreBounded`: `Spec => []TriesBounded`. That a secret was run at most `InviteTries`
  times says nothing about the row a claim reads. `TriesPaid` adds that a row's `failures`
  are exactly the runs begun against its secret, that two rows never share a secret, and that
  secrets not yet minted have never been run.
- `RunsAreCounted`: `Spec => []RunsWatched`, which is `RunsCounted` and `SpentIsWatched`.
  Inductive together with `TypeOK`: `SpentIsWatched` needs the count to be exact (the run
  that ends last must know that it is), and the count needs the cardinality lemmas on how a
  claim and an end change the runs in flight.
- `NeverBurnedUnderRun`: `Spec => NoBurnUnderRun`, the safety half of `BurnedInTime`. Two runs
  in flight make the count at least two (`TwoInFlight`), so that the one that ends is not the
  last.
- `CodesWorkOnce`: `~IdReuse => (Spec => []SingleUse)`. `OneSecretPerId` adds that an id
  names one secret for ever, that a run's id and secret match, and that the row of a redeemed
  secret is gone: what the finding shows to be false once ids return.
- `InvitesStayCapped`: `Spec => []InviteCap`. The cap speaks of live rows, but a run that
  began in time may redeem one that has expired. `CapKept` therefore counts the expired rows
  still in the table as well, which no mint adds to because every mint purges first, and says
  that whoever is an admin is in the history `wasAdmin`.

**The hub** (`HubConstants`), for any number of users, keys, tasks, rooms and media ids:

- `HubProofs`. The lemma `StepKinds` sorts the steps of `Next` by what they do to rooms and
  sessions (`Step`): the actions become twenty-two kinds, and the later proofs go by kind.
  `MembershipAlwaysAgrees`: `MembershipAgrees` is inductive because it contains `TypeOK`,
  `LockHeld` (what is left to do fits what was begun) and `RoomsAllotted` (rooms and media ids
  not yet given out are nowhere). `HubRefinesRoomEpochs`: `Spec => EpochsRefined`; each kind of
  step is a step of `RoomEpochs` or leaves epochs and members alone.
- `HubProofs`, of access. `AccessAlwaysEarned`: `AccessEarned` with `SessionsFresh` (what a task
  authenticated off the lock is compared with the tables again when it connects), and with
  `ReturnKnown` and `ReturnAlive`: `last_joined` names rooms that exist, so a room opened later
  inherits no way back. `RecordsAlwaysLast` proves the step property `RecordsLast`.
- `HubClientsProofs`. `ToldAlwaysCurrent` and `MediaAlwaysAgrees`: each handler's
  announcements, written as a function of the state, are shown to reach everyone whose view the
  handler changed (`Told`), the routes and audiences to be those of the state after the step
  (`Routed`), and pending keyframes, watch lists and shares to fit (`Tracked`).

**What is counted, kept and given back** (`KeptProofs`):

- `RepliesAlwaysMatch` (`LinkAssumption`), for any number of requests and any queue lengths.
  `LinkInv` adds that each request is in one place on the way out or back (`NoDuplicates`),
  that ids are given out once per stream, and that the waiter under an id is the one who asked
  with it.
- `DirectoryAlwaysKept` (`DataDirAssumption`), for any number of processes that start, mint and
  die at any step. `DirInv` says what a process that got so far may count on (`Counts`), that
  one process at most is writing the key, and that every invite on the disk is of the key
  there.
- `SlotsAlwaysCounted` (`AdmissionConstants`): `PassesCounted` and `NoLostWakeup`, the safety of
  `SlotsShared`. `Held` says which passes a task holds in each phase of its life, and
  `TurnedAway` that whoever was refused at a gate would be refused there still.
- `LimitsAlwaysHold` (`LimitsConstants`): `LimitsSpec => LimitsHold`, all four limiters.
  Buckets and allowances are `Balanced`: what is left and what was given in this tick fit the
  burst, and with the tick before the burst and a refill; a sweep forgets full ones only, so it
  changes nothing (`SweepForgetsNothing`, `PolicedForgetsNothing`). Of a window of runs a count
  is not enough, as a success removes the newest entry, whichever run's it is: `Covered` says
  that for each run still in the window there are, no older than it, as many entries and
  forgivings as runs begun since. Of guesses, that whoever waits for an answer has waited
  (`GuessInv`).

**The exchange of keys** (`KeyExchangeProofs`; `KeyConstants`, `ExchangeConstants`), for any
number of users, rooms and any stories: `OnlyMembersEverKnow`. `ExchangeInv` follows a secret
from the manager that makes it to the one that unwraps it: whom a manager lists was a member of
that room in that epoch, what it seals is for those, a secret is for one room and epoch and is sent under no other
(`For`), the receiver of a sealed secret that waits, is under way or is kept early was a member
of these (`BlobFits`), and so was whoever holds a secret (`Entitled`). The first attempt failed, and rightly: the history `belonged` left
out the epoch in which a client that reconnects is first evicted. The model now records it.
The bound `made + 2 <= NumSecrets` in `Applies` keeps the numbers that stand for secrets from
coming round, as random keys do.

**The client** (`ClientProofs`; `JoinsAssumption`, `StreamsAssumption`, `SessionAssumption`):

- `JoinsAlwaysInOrder`. `JoinsInv` adds that attempts under way have numbers of their own, none
  above the counter, and the latest the profile there is and, once it has opened the key store,
  the identity; that under the dialog of a missing
  identity nothing is joined and no session runs; and that nothing has begun while the user is
  being asked who they are.
- `WindowsAlwaysAgree`, for any number of people and windows. `StreamsInv` adds that each
  pop-out the app knows is a window that is there, of one share that is watched
  (`PopoutsKnown`), and that a share which fills the window made it fullscreen only where it
  was not (`FilledAsFound`).
- `SessionAlwaysFollows`: `NoFalseAlarm`, `ShareOnOwnTracks` and `DecodesWatched`, three of the
  four parts of `SessionAgrees`, for any stories. `SessionInv` adds that every request and
  answer under way is waited for under a number of its own (`AnswersAwaited`), that starts of a
  share are numbered once (`StartsNumbered`), and, of the decoders, what each handler still has
  to do (`DoingShaped`): between a change of what is watched and the handler's end there is
  always the step that asks for it (`DecodersFollow`). What is kept for a reconnect holds one
  command of a kind (`Once`), which is why `Queued` may drop the one that a new command
  replaces.

**Capture and calls** (`CaptureProofs`; `ScreencastAssumption`, `CallbacksAssumption`,
`VoiceAssumption`):

- `BuffersAlwaysKept`, for any number of buffers, slots and leases. `ScreenInv` follows the
  leases: one is in the ring, in the share thread's hand or on its way back, in one of these
  only (`LeasesApart`, `LentOnce`, `LeasesFollowed`), so that a late return frees the buffer it
  was lent for and no other. Entries that damaged pictures took are counted (`stuck`) and hold
  no buffer back.
- `CallbacksAlwaysApart`: `StampsRise` and `NoLoopbackLeft`, for any number of threads. No stamp
  handed on is above the last one, and a start that went on without the loopback had told it
  to stop.
- `CallsAlwaysApart`, for any number of calls, tracks and users. `VoiceInv` follows the tracks
  through the command channel (`TracksInTurn`): a track named there was given to one call,
  which names it until it names the next, so that the clock starts over only on a track
  nothing was sent on; and no command of a call comes after its end (`EndsLast`).

**Identity** (`IdentityProofs`; `HandshakeAssumption`, `KeystoreAssumption`, `KeyConstants`,
`AnyServerConstants`):

- `IdentityAlwaysProved`: `ShakeInv` says of everything ever heard, as whoever is between may
  repeat any of it, that a signature of ours is over a connection that we made and a confirmation
  of the server's over a transcript with its key, and that the server goes on with the transcript
  of the connection it is asked on.
- `IdentityAlwaysKept`: `StoreInv` says at every step of opening and of starting over what the
  keychain, the file and memory may hold (`Opening`), that no identity left behind is in any of
  them (`NoneDropped`) and none older than one made by starting over (`NoneOlder`), and that what
  was published with the present key is of the accounts and identities it may be of
  (`PublishedFits`).
- `NeverReplayed`: `ReplayInv` says that every epoch taken part in is at or below its room's
  floor, and every one of an earlier stay at or below the floor the present stay began with,
  through every operation of the key manager.
- `AudienceAlwaysKept`: `Attends` says of the manager after each operation that its peers are
  those of the room state it trusts and that its secret is sealed to exactly these, so that
  following the same state again needs no new one. `NumSecrets > 1` is assumed: the numbers that
  stand for secrets come round, and a new secret must differ from the one before it, as random
  ones do.
- `KeysAlwaysOwners`, and `SecretsAlwaysCurrent` under `RefusedStay`. `Tidy` says that there is
  one secret of each sender and epoch and that every derived key comes from one there is;
  `Lasts` that a secret which does not run out is of this epoch and of a peer who is listed.
  Without `RefusedStay` the statement is false: where a peer's key is refused and the next one,
  of another identity, is not, the first identity's secrets stay (see *Known limits*).
- `OnlyComparedVerified`, and `TrustAlwaysEarned` under `SeenFits`. `PeopleInv` follows a key
  from the number the user compares over the drawn dialog to the click (`MeantShown`,
  `ClicksCompared`). `WatchInv` says that a pair is noted under the verified key last seen there
  and no other, and that a change is recorded for as long as a warning is owed. `SeenFits` says
  that the pairs fit what the file notes of one key (`MAX_SEEN`, verified.rs:19); past it more
  are not noted, and the code's comment says that a change there goes without a warning. The
  first attempt failed over the history `owed` of the pairs other than the one where a key is
  verified; it now says what is still owed there.

### What is only model-checked

Liveness and fairness are out of the prover's reach: `IdrServed`, `PathRepairs`, `PlaysOn`,
`PicturesKeepGoing`, `RequestsEnd`, `AvatarsShown`, `SpentEventuallyBurned` of `BurnedInTime`,
`SlotsComeBack` of `SlotsShared`. So is `ENABLED`, which `StartNotHeld` of `CallbacksApart`
speaks of.

`ViewsAgree`, and `HubAgrees` of `SessionAgrees`, compare what the two ends of a connection hold
once everything is delivered; an inductive form would have to describe every message under way.
`OthersOnly` likewise speaks of what replaying the events in flight, with ids that are used
again, comes to. `UnitsDelivered`, `QueuesKept`, `ClockKept` and `PicturesKept` rest on folds
over sequences and on `SelectSeq`, of which nothing can be proved without induction over data.

## Not modelled

Codecs, pixel and signal processing, the set-up of a macOS stream, quinn and TLS, rendering
and pages that only show state, settings (preferences without an invariant), the presence
list, request budgets (a refusal changes nothing), labels such as room names, statistics and
the refusal log, the command line client, the wire format, the cryptographic primitives, and
vendored code. `components` gives the reason for each.

## Plan

What is left would need the model to be written in another way first:

1. `Track`, `Egress` and `ShareClock` with explicit indices in place of folds and `SelectSeq`,
   as `Limits` and `Session` have them, and then `UnitsDelivered`, `QueuesKept` and `ClockKept`.
2. An abstract state of both ends of a connection, with what is under way as the difference of
   the two, for `HubAgrees` and `ViewsAgree`.
