------------------------------ MODULE Keystore ------------------------------
(***************************************************************************)
(* The identity of the install.  keystore.rs keeps the identity key in the  *)
(* keychain of the operating system, or in a file where there is none, and  *)
(* the encryption key it signs in a file; known_servers.rs keeps the        *)
(* servers it is known at.  A keychain that reads empty may only be locked: *)
(* it can be unlocked, at a prompt, between any two steps, and the program  *)
(* can stop between any two steps.                                          *)
(*                                                                         *)
(* Identities and encryption keys are numbered as they are made.  Time is   *)
(* the computer's clock, which can be set back.                             *)
(***************************************************************************)
EXTENDS Integers, FiniteSets

CONSTANTS Addresses,      \* addresses of servers
          MaxIdentities,  \* bound: identities made
          MaxEnc,         \* bound: encryption keys made
          MaxNow,         \* bound: the latest time the clock shows
          Lifetime,       \* ENCRYPTION_KEY_LIFETIME
          RenewBefore,    \* ENCRYPTION_KEY_RENEW_BEFORE
          Skew            \* ENCRYPTION_KEY_CLOCK_SKEW

ASSUME KeystoreAssumption ==
  /\ {MaxIdentities, MaxEnc, MaxNow, Lifetime, RenewBefore, Skew} \subseteq Nat
  /\ RenewBefore < Lifetime

VARIABLES chain,      \* the keychain: its state and the identity it holds
          idFile,     \* identity_key, the file
          known,      \* servers.json: the addresses pinned
          enc,        \* encryption_key, the file
          open,       \* the running Keystore::open_platform, or the store it opened
          missing,    \* the user was told that the identity is missing
          now,        \* the computer's clock
          made,       \* identities made so far
          account,    \* at each server, the account an identity has (0: none)
          accounts,   \* history: accounts made at each server
          published,  \* history: encryption keys given to servers
          gave,       \* history: the last of them, and when
          startedOver,\* history: identities made by starting over
          dropped     \* history: identities whose servers starting over forgot

keystoreVars == <<chain, idFile, known, enc, open, missing, now, made, account,
                  accounts, published, gave, startedOver, dropped>>

None == 0
Identities == 1..MaxIdentities
Closed == [at |-> "closed"]
Opened(id) == [at |-> "open", id |-> id]

KeystoreTypeOK ==
  /\ chain \in [is: {"open", "locked", "absent"}, held: 0..MaxIdentities]
  /\ idFile \in 0..MaxIdentities /\ known \subseteq Addresses
  /\ enc \in [key: 0..MaxEnc, created: 0..MaxNow]
  /\ missing \in BOOLEAN /\ now \in 0..MaxNow /\ made \in 0..MaxIdentities
  /\ account \in [Addresses -> [Identities -> Nat]] /\ accounts \in [Addresses -> Nat]
  /\ startedOver \subseteq Identities /\ dropped \subseteq Identities

-----------------------------------------------------------------------------
(* The encryption key *)

RenewalDue(created) ==
  \/ created > now + Skew
  \/ (IF now > created THEN now - created ELSE 0) + RenewBefore >= Lifetime

\* The mutant: a key made while the clock ran ahead looks new.
RenewalDueAged(created) ==
  (IF now > created THEN now - created ELSE 0) + RenewBefore >= Lifetime

Due(created) == RenewalDue(created)

NewEncryptionKey == enc.key < MaxEnc /\ enc' = [key |-> enc.key + 1, created |-> now]

\* load_encryption_key and renew_encryption_key_if_due.
RenewIfDue == IF enc.key = None \/ Due(enc.created) THEN NewEncryptionKey ELSE UNCHANGED enc

-----------------------------------------------------------------------------
(* Opening the store *)

\* Keystore::assemble with the identity found.
Assemble(id) == RenewIfDue /\ open' = Opened(id)

Fails == open' = Closed /\ UNCHANGED enc

\* fallback_identity: without a keychain the identity is in a file, made only while no
\* server is known.
Fallback ==
  IF known # {} /\ idFile = None THEN Fails /\ UNCHANGED <<idFile, made>>
  ELSE IF idFile # None THEN Assemble(idFile) /\ UNCHANGED <<idFile, made>>
  ELSE /\ made < MaxIdentities /\ made' = made + 1
       /\ idFile' = made + 1
       /\ Assemble(made + 1)

\* The identity for a keychain that read empty: the one in the file, or else a new one.
FirstIdentity(startOver) ==
  IF idFile # None
    THEN /\ open' = [at |-> "second", id |-> idFile, new |-> FALSE, over |-> startOver]
         /\ UNCHANGED <<made, missing>>
  ELSE IF ~startOver /\ known # {}
    THEN open' = Closed /\ missing' = TRUE /\ UNCHANGED made
  ELSE /\ made < MaxIdentities /\ made' = made + 1
       /\ open' = [at |-> "second", id |-> made + 1, new |-> TRUE, over |-> startOver]
       /\ UNCHANGED missing

\* open_default, or start_over once the user was told the identity is missing and agreed.
OpenPlatform(startOver) ==
  /\ open = Closed
  /\ startOver => missing
  /\ CASE chain.is = "absent" -> Fallback /\ UNCHANGED missing
       [] chain.is = "open" /\ chain.held # None ->
            Assemble(chain.held) /\ UNCHANGED <<idFile, made, missing>>
       [] OTHER -> FirstIdentity(startOver) /\ UNCHANGED <<idFile, enc>>
  /\ UNCHANGED <<chain, known, now, account, accounts, published, gave, startedOver, dropped>>

\* The keychain is read once more, in case it was unlocked meanwhile.  Starting over renews
\* the encryption key before the new identity is written.
ReadAgain ==
  /\ open.at = "second"
  /\ CASE chain.is = "absent" -> Fails
       [] chain.is = "open" /\ chain.held # None -> Assemble(chain.held)
       [] OTHER -> IF open.new /\ open.over
                     THEN NewEncryptionKey /\ open' = [open EXCEPT !.at = "startOver"]
                     ELSE open' = [open EXCEPT !.at = "write"] /\ UNCHANGED enc
  /\ UNCHANGED <<chain, idFile, known, missing, now, made, account, accounts, published,
                 gave, startedOver, dropped>>

\* A write needs the keychain unlocked, and may be refused.
WriteIdentity ==
  /\ open.at = "write"
  /\ \/ Fails /\ UNCHANGED chain
     \/ /\ chain.is # "absent"
        /\ chain' = [is |-> "open", held |-> open.id]
        /\ Assemble(open.id)
  /\ UNCHANGED <<idFile, known, missing, now, made, account, accounts, published, gave,
                 startedOver, dropped>>

\* Starting over forgets the servers only once the new identity is in the keychain.
Replaced(next) ==
  \/ Fails /\ UNCHANGED <<chain, startedOver>>
  \/ /\ chain.is # "absent"
     /\ chain' = [is |-> "open", held |-> open.id]
     /\ startedOver' = startedOver \cup {open.id}
     /\ next

ForgetAll == known' = {} /\ dropped' = dropped \cup (1..made \ {open.id})

WriteThenForget ==
  \/ /\ open.at = "startOver"
     /\ Replaced(open' = [open EXCEPT !.at = "forget"] /\ UNCHANGED enc)
     /\ UNCHANGED <<known, dropped>>
  \/ /\ open.at = "forget"
     /\ ForgetAll
     /\ Assemble(open.id)
     /\ UNCHANGED <<chain, startedOver>>

\* The mutant: the servers are forgotten first.
ForgetThenWrite ==
  \/ /\ open.at = "startOver"
     /\ ForgetAll
     /\ open' = [open EXCEPT !.at = "forget"]
     /\ UNCHANGED <<chain, enc, startedOver>>
  \/ /\ open.at = "forget"
     /\ Replaced(Assemble(open.id))
     /\ UNCHANGED <<known, dropped>>

StartOverSteps == WriteThenForget

StartOver ==
  /\ StartOverSteps
  /\ UNCHANGED <<idFile, missing, now, made, account, accounts, published, gave>>

-----------------------------------------------------------------------------
(* Servers *)

\* publish_encryption_key: signed for the server and the account, until it expires.
Publish(addr, acct) ==
  /\ published' = published \cup {[server |-> addr, account |-> acct, id |-> open.id,
                                   enc |-> enc'.key]}
  /\ gave' = [created |-> enc'.created, at |-> now]

\* account.rs enroll: a new encryption key, an account (the one we have, or a new one that
\* may reuse a user id), the pin, and the key published.
EnrollKey == NewEncryptionKey

\* The mutant: the encryption key is renewed only when it is due.
EnrollKeyKept == RenewIfDue

EnrollsWith == EnrollKey

Enroll(addr) ==
  LET has == account[addr][open.id]
      acct == IF has # 0 THEN has ELSE accounts[addr] + 1
  IN /\ EnrollsWith
     /\ account' = [account EXCEPT ![addr][open.id] = acct]
     /\ accounts' = [accounts EXCEPT ![addr] = IF has # 0 THEN @ ELSE acct]
     /\ known' = known \cup {addr}
     /\ Publish(addr, acct)

\* sign_in after renew_encryption_key_if_due, as Client::connect and a reconnect do.
SignInKnown(addr) ==
  /\ addr \in known /\ account[addr][open.id] # 0
  /\ RenewIfDue
  /\ Publish(addr, account[addr][open.id])
  /\ UNCHANGED <<known, account, accounts>>

Join ==
  /\ open.at = "open"
  /\ \E addr \in Addresses: Enroll(addr) \/ SignInKnown(addr)
  /\ UNCHANGED <<chain, idFile, open, missing, now, made, startedOver, dropped>>

\* The user leaves a server for good, or takes it off the list and stays a member.
LeaveServer(addr) == account' = [account EXCEPT ![addr][open.id] = 0] /\ known' = known \ {addr}
Forget(addr) == known' = known \ {addr} /\ UNCHANGED account

Goes ==
  /\ \E addr \in known: (open.at = "open" /\ LeaveServer(addr)) \/ Forget(addr)
  /\ UNCHANGED <<chain, idFile, enc, open, missing, now, made, accounts, published, gave,
                 startedOver, dropped>>

-----------------------------------------------------------------------------
(* The world around *)

\* The program stops, by itself or halfway through.
Stop ==
  /\ open # Closed
  /\ open' = Closed
  /\ missing' = FALSE
  /\ UNCHANGED <<chain, idFile, known, enc, now, made, account, accounts, published, gave,
                 startedOver, dropped>>

KeychainTurns ==
  /\ \E s \in {"open", "locked", "absent"} \ {chain.is}: chain' = [chain EXCEPT !.is = s]
  /\ UNCHANGED <<idFile, known, enc, open, missing, now, made, account, accounts,
                 published, gave, startedOver, dropped>>

SetClock ==
  /\ \E t \in (0..MaxNow) \ {now}: now' = t
  /\ UNCHANGED <<chain, idFile, known, enc, open, missing, made, account, accounts,
                 published, gave, startedOver, dropped>>

KeystoreInit ==
  /\ chain = [is |-> "open", held |-> None] /\ idFile = None /\ known = {}
  /\ enc = [key |-> None, created |-> 0] /\ open = Closed /\ missing = FALSE
  /\ now = 0 /\ made = 0
  /\ account = [a \in Addresses |-> [i \in Identities |-> 0]]
  /\ accounts = [a \in Addresses |-> 0]
  /\ published = {} /\ gave = [created |-> 0, at |-> 0]
  /\ startedOver = {} /\ dropped = {}

KeystoreNext ==
  \/ \E over \in BOOLEAN: OpenPlatform(over)
  \/ ReadAgain \/ WriteIdentity \/ StartOver \/ Join \/ Goes
  \/ Stop \/ KeychainTurns \/ SetClock

KeystoreSpec == KeystoreInit /\ [][KeystoreNext]_keystoreVars

-----------------------------------------------------------------------------
\* Once starting over has forgotten the servers of an identity, that identity does not come
\* back to the empty list: not after a refused write, not after the program stopped halfway,
\* and not when the keychain is unlocked later (keystore.rs first_keychain_identity).
OldStaysGone == open.at = "open" => open.id \notin dropped

\* The encryption key ties nobody to an earlier account: a new account of ours at a server
\* and an identity started over get one that no earlier account or identity published
\* (account.rs enroll, keystore.rs first_keychain_identity).
KeysUntied ==
  \A x, y \in published: x.enc = y.enc =>
    /\ x.server = y.server /\ x.id = y.id => x.account = y.account
    /\ x.id # y.id => x.id \notin startedOver \/ x.id < y.id

\* A server is never given an encryption key about to expire, nor one that outlives a key
\* made by a right clock, whatever the clock did before (keystore.rs renewal_due).
KeyLifeBounded ==
  /\ gave.created + Lifetime > gave.at + RenewBefore
  /\ gave.created <= gave.at + Skew

\* The identity and its encryption key are one install's and one life's (keystore.rs,
\* account.rs).
IdentityKept == OldStaysGone /\ KeysUntied /\ KeyLifeBounded

=============================================================================
