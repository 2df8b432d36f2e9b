----------------------------- MODULE MCIdentity -----------------------------
(***************************************************************************)
(* Instances for TLC of what keeps identities apart: the key manager       *)
(* against any server, the verification store with the profile dialog, the *)
(* keystore, and the handshake.  They share no state here, so a behaviour  *)
(* runs one of them and leaves the others as they began.                   *)
(***************************************************************************)
EXTENDS AnyServer, Verified, Keystore, Handshake

CONSTANTS ann, bob, eve

VARIABLE part    \* the machine that runs

Peer(u, id, key, ok, media) ==
    [user |-> u, id |-> id, enc |-> key, ok |-> ok, media |-> media, share |-> 0]

Ann == Peer(ann, 1, 11, TRUE, 4)
\* Bob is given Ann's track.
Bob == Peer(bob, 2, 21, TRUE, 4)

\* Every kind of list there is: Ann, Ann by another identity beside a peer HPKE refuses,
\* another on her track beside a peer whose key is not signed, and two who claim one track.
ManyLists ==
    {{Ann}, {Peer(ann, 9, 12, TRUE, 4), Peer(eve, 3, 19, TRUE, 5)},
     {Bob, Peer(eve, 3, 31, FALSE, 5)}, {Ann, Bob}}

\* Ann has sealed a secret to the key we have next, her other identity and Bob to the one we
\* have now.
Blob(by, to, e, from, secret) ==
    [by |-> by, to |-> to, room |-> 1, epoch |-> e, from |-> from, user |-> me,
     secret |-> secret]
SealedByPeers ==
    {Blob(11, 2, 2, ann, 1), Blob(12, 1, 2, ann, 2), Blob(21, 1, 1, bob, 3)}

identityVars == <<part, vars, verifiedVars, keystoreVars, shakeVars>>

IdentityInit ==
    /\ part \in {"keys", "verified", "keystore", "handshake"}
    /\ Init /\ VerifiedInit /\ KeystoreInit /\ HandshakeInit
    /\ part # "handshake" => pinned = NotPinned

IdentityNext ==
    /\ UNCHANGED part
    /\ \/ part = "keys" /\ Next /\ UNCHANGED <<verifiedVars, keystoreVars, shakeVars>>
       \/ part = "verified" /\ VerifiedNext /\ UNCHANGED <<vars, keystoreVars, shakeVars>>
       \/ part = "keystore" /\ KeystoreNext /\ UNCHANGED <<vars, verifiedVars, shakeVars>>
       \/ part = "handshake" /\ HandshakeNext /\ UNCHANGED <<vars, verifiedVars, keystoreVars>>

IdentitySpec == IdentityInit /\ [][IdentityNext]_identityVars
=============================================================================
