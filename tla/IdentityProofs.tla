--------------------------- MODULE IdentityProofs ---------------------------
(***************************************************************************)
(* What keeps identities and epochs apart.                                 *)
(*                                                                         *)
(* Handshake: who is taken for whom, for any number of connections.  The   *)
(* argument follows what only its maker can make: a signature of ours is   *)
(* over the connection we made it on, a confirmation of the server's is    *)
(* over its own key, wherever those between carry them.                    *)
(*                                                                         *)
(* Keystore: which identity is opened and under which encryption key it is *)
(* published, wherever the program stops.                                  *)
(*                                                                         *)
(* AnyServer: which epochs' keys are used, for whom they are made and      *)
(* whose are taken, whatever a server sends.                               *)
(*                                                                         *)
(* Verified: whose keys count as verified, and that a key shown in place   *)
(* of a verified one is warned of.                                         *)
(***************************************************************************)
EXTENDS AnyServer, Keystore, Handshake, Verified, FiniteSetTheorems, TLAPS

\* Types, of what the argument needs.
ShakeTypes ==
  /\ conn \in [Numbers -> [by : {"us", "between", "nobody"}, to : {"server", "between", "nobody"}]]
  /\ client = [c \in Numbers |-> client[c]] /\ server = [c \in Numbers |-> server[c]]
  /\ toUs = [c \in Numbers |-> toUs[c]] /\ toThem = [c \in Numbers |-> toThem[c]]

\* On a connection nobody has made yet nothing was sent; only on our own we do anything.
Begun ==
  \A c \in Numbers :
    /\ conn[c] = Unused => toUs[c] = Nothing /\ toThem[c] = Nothing /\ server[c] = Out
    /\ client[c].at \in {"hello", "step", "result"} => conn[c].by = "us"

\* A signature of ours is over a connection that we made, by its exporter (auth_message,
\* Transcript).
SignatureFits(s, dialled) ==
  s.key = "us" =>
    \/ s.on[1] = "auth" /\ s.on[4] \in dialled
    \/ s.on[1] = "enroll" /\ s.on[6] \in dialled

\* All signatures that are under way or known to those between are such.
SignaturesFit ==
  /\ \A m \in heard : m.kind \in {"auth", "finish"} => SignatureFits(m.signature, Dialled("us"))
  /\ \A c \in Numbers : toThem[c].kind \in {"auth", "finish"} =>
                          SignatureFits(toThem[c].signature, Dialled("us"))

\* A confirmation of the server's is over a transcript with the server's key.
StepFits(m) == m.kind = "step" => m.confirm[3][5] = "server"
StepsFit == (\A m \in heard : StepFits(m)) /\ (\A c \in Numbers : StepFits(toUs[c]))

\* The server goes on with the transcript of the connection it is asked on.
ServerFits ==
  \A c \in Numbers : server[c].at = "finish" =>
    /\ server[c].transcript[1] = "enroll" /\ server[c].transcript[6] = c
    /\ conn[c].by = "us" => server[c].pubkey = "us"

\* What goes from us to the server and back: our own hellos, and a welcome for an account we have.
OwnFits ==
  \A c \in Numbers : conn[c].by = "us" =>
    /\ toThem[c].kind \in {"auth", "enroll"} => toThem[c].pubkey = "us"
    /\ client[c].at = "result" /\ client[c].how = "enroll" => conn[c].to = "server"
    /\ conn[c].to = "server" /\ toUs[c].kind = "welcome" => "us" \in enrolled

\* The inductive invariant.
ShakeInv ==
  ShakeTypes /\ Begun /\ SignaturesFit /\ StepsFit /\ ServerFits /\ OwnFits /\ IdentityProved

-----------------------------------------------------------------------------
\* Signatures go on fitting where what is sent is nothing, no signature, or one that fits.
LEMMA SignaturesGoOn ==
  ASSUME ShakeInv, UNCHANGED conn, NEW c \in Numbers, NEW m,
         m.kind \in {"auth", "finish"} => SignatureFits(m.signature, Dialled("us")),
         heard' \subseteq heard \cup {m},
         toThem' \in {[toThem EXCEPT ![c] = m], [toThem EXCEPT ![c] = Nothing]}
  PROVE  SignaturesFit'
<1>1. Dialled("us")' = Dialled("us")
  BY DEF Dialled
<1>2. \A x \in heard' : x.kind \in {"auth", "finish"} => SignatureFits(x.signature, Dialled("us"))
  BY DEF ShakeInv, SignaturesFit
<1>3. \A d \in Numbers : toThem'[d] \in {toThem[d], m, Nothing}
  BY DEF ShakeInv, ShakeTypes
<1>4. \A d \in Numbers : toThem'[d].kind \in {"auth", "finish"} =>
                          SignatureFits(toThem'[d].signature, Dialled("us"))
  BY <1>3 DEF ShakeInv, SignaturesFit, Nothing
<1> QED BY <1>1, <1>2, <1>4 DEF SignaturesFit

\* A connection that is made changes nothing of what was sent (connect_with).
LEMMA DialKeeps ==
  ASSUME ShakeInv, NEW c \in Numbers, NEW how \in {"login", "enroll"}, NEW secret,
         NEW to \in {"server", "between"}, Dial(c, how, secret, to)
  PROVE  ShakeInv'
<1> USE DEF ShakeInv, ShakeTypes, Nothing, Out, Unused
<1>0. /\ toUs' \in {toUs, [toUs EXCEPT ![c] = [kind |-> "hello", nonce |-> c, protocol |-> TRUE]]}
      /\ UNCHANGED <<toThem, heard, pinned, enrolled>>
  BY DEF Dial, GreetedBy
<1>1. ShakeTypes'
  BY DEF Dial, IsNext, GreetedBy
<1>2. Begun'
  BY DEF Begun, Dial, IsNext, GreetedBy
<1>3. SignaturesFit'
  BY DEF SignaturesFit, SignatureFits, Dialled, Begun, Dial, IsNext, GreetedBy
<1>4. StepsFit'
  <2>1. \A d \in Numbers : toUs'[d] = toUs[d] \/ toUs'[d].kind = "hello"
    BY <1>0
  <2> QED BY <2>1, <1>0 DEF StepsFit, StepFits
<1>5. ServerFits'
  BY DEF ServerFits, Begun, Dial, IsNext, GreetedBy
<1>6. OwnFits'
  BY DEF OwnFits, Begun, Dial, IsNext, GreetedBy
<1>7. IdentityProved'
  BY SMTT(40) DEF IdentityProved, OurselvesOnly, ProvedPinned, PinnedKnowsUs, Begun, Dial, IsNext, GreetedBy
<1> QED BY <1>1, <1>2, <1>3, <1>4, <1>5, <1>6, <1>7

\* A key that the user trusts is not one that a code proved (trust_new_key).
LEMMA TrustShownKeeps ==
  ASSUME ShakeInv, NEW c \in Numbers, TrustShown(c)
  PROVE  ShakeInv'
<1> USE DEF ShakeInv, ShakeTypes, Nothing, Out, Unused
<1>1. ShakeTypes'
  BY DEF ShakeTypes, Begun, TrustShown
<1>2. Begun'
  BY DEF Begun, TrustShown
<1>3. SignaturesFit'
  BY DEF SignaturesFit, SignatureFits, Dialled, Begun, TrustShown
<1>4. StepsFit'
  BY DEF StepsFit, StepFits, Begun, TrustShown
<1>5. ServerFits'
  BY DEF ServerFits, Begun, StepsFit, StepFits, OwnFits, TrustShown
<1>6. OwnFits'
  BY DEF OwnFits, Begun, StepsFit, StepFits, ServerFits, TrustShown
<1>7. IdentityProved'
  BY DEF IdentityProved, OurselvesOnly, ProvedPinned, PinnedKnowsUs, Begun, OwnFits, ServerFits,
         SignaturesFit, SignatureFits, Dialled, TrustShown
<1> QED BY <1>1, <1>2, <1>3, <1>4, <1>5, <1>6, <1>7

\* Our hello is signed over this connection (login, enroll).
LEMMA GreetKeeps ==
  ASSUME ShakeInv, NEW c \in Numbers, Greet(c)
  PROVE  ShakeInv'
<1> USE DEF ShakeInv, ShakeTypes, Nothing, Out, Unused
<1> DEFINE nonce == toUs[c].nonce
<1>0. PICK m :
        /\ toUs' = [toUs EXCEPT ![c] = Nothing] /\ toThem' = [toThem EXCEPT ![c] = m]
        /\ heard' \in {heard, heard \cup {m}}
        /\ m.kind \in {"auth", "enroll"} /\ m.pubkey = "us"
        /\ m.kind = "auth" => m.signature.on = <<"auth", nonce, c, c>>
        /\ client' \in {[client EXCEPT ![c] = [at |-> "result", how |-> "login"]],
                        [client EXCEPT ![c] = [at |-> "step", how |-> "enroll",
                                               secret |-> client[c].secret, nonce |-> nonce]]}
  <2>1. CASE client[c].how = "login"
    BY <2>1 DEF Greet, Takes, AuthHello, AuthMessage, Signed
  <2>2. CASE client[c].how # "login"
    BY <2>2 DEF Greet, Takes, EnrollHello
  <2> QED BY <2>1, <2>2
<1>a. conn[c].by = "us" /\ UNCHANGED <<conn, server, pinned, enrolled, invited>>
  BY DEF Greet, Begun
<1>1. ShakeTypes'
  BY <1>0, <1>a
<1>2. Begun'
  BY <1>0, <1>a DEF Begun
<1>3. SignaturesFit'
  <2>1. m.kind \in {"auth", "finish"} => SignatureFits(m.signature, Dialled("us"))
    BY <1>0, <1>a DEF SignatureFits, Dialled
  <2>2. heard' \subseteq heard \cup {m}
    BY <1>0
  <2> QED BY <1>0, <1>a, <2>1, <2>2, SignaturesGoOn
<1>4. StepsFit'
  BY <1>0, <1>a DEF StepsFit, StepFits
<1>5. ServerFits'
  BY <1>0, <1>a DEF ServerFits
<1>6. OwnFits'
  <2>1. \A d \in Numbers :
          client'[d] = client[d] \/ client'[d].at = "step" \/ client'[d].how = "login"
    BY <1>0
  <2>2. \A d \in Numbers : toUs'[d] = toUs[d] \/ toUs'[d].kind = "none"
    BY <1>0
  <2>3. \A d \in Numbers : toThem'[d] = toThem[d] \/ toThem'[d].pubkey = "us"
    BY <1>0
  <2> QED BY <2>1, <2>2, <2>3, <1>a DEF OwnFits
<1>7. IdentityProved'
  BY <1>a DEF IdentityProved, OurselvesOnly, ProvedPinned, PinnedKnowsUs
<1> QED BY <1>1, <1>2, <1>3, <1>4, <1>5, <1>6, <1>7

\* Our proof is given only on a connection that leads to the server: its confirmation is over the
\* key it has, ours over the key we were shown (ClientPake::finish).
LEMMA ProveKeeps ==
  ASSUME ShakeInv, NEW c \in Numbers, Prove(c)
  PROVE  ShakeInv'
<1> USE DEF ShakeInv, ShakeTypes, Nothing, Out, Unused
<1>0. PICK m :
        /\ toUs' = [toUs EXCEPT ![c] = Nothing] /\ toThem' = [toThem EXCEPT ![c] = m]
        /\ heard' \in {heard, heard \cup {m}}
        /\ m.kind = "finish" /\ m.signature.on[1] = "enroll" /\ m.signature.on[6] = c
        /\ client' = [client EXCEPT ![c] = [at |-> "result", how |-> "enroll"]]
  BY DEF Prove, Takes, Transcript, Signed
<1>a. conn[c].by = "us" /\ UNCHANGED <<conn, server, pinned, enrolled, invited>>
  BY DEF Prove, Begun, PinsKey, Pins
<1>b. conn[c].to = "server"
  <2>1. toUs[c].kind = "step" /\ toUs[c].confirm[3][5] = conn[c].to
    BY DEF Prove, Transcript, Confirms
  <2> QED BY <2>1 DEF StepsFit, StepFits
<1>1. ShakeTypes'
  BY <1>0, <1>a
<1>2. Begun'
  BY <1>0, <1>a DEF Begun
<1>3. SignaturesFit'
  <2>1. m.kind \in {"auth", "finish"} => SignatureFits(m.signature, Dialled("us"))
    BY <1>0, <1>a DEF SignatureFits, Dialled
  <2>2. heard' \subseteq heard \cup {m}
    BY <1>0
  <2> QED BY <1>0, <1>a, <2>1, <2>2, SignaturesGoOn
<1>4. StepsFit'
  BY <1>0, <1>a DEF StepsFit, StepFits
<1>5. ServerFits'
  BY <1>0, <1>a DEF ServerFits
<1>6. OwnFits'
  BY <1>0, <1>a, <1>b DEF OwnFits
<1>7. IdentityProved'
  BY <1>a DEF IdentityProved, OurselvesOnly, ProvedPinned, PinnedKnowsUs
<1> QED BY <1>1, <1>2, <1>3, <1>4, <1>5, <1>6, <1>7

\* The key that is pinned is that of the server that enrolled us (account.rs enroll).
LEMMA WelcomedKeeps ==
  ASSUME ShakeInv, NEW c \in Numbers, Welcomed(c)
  PROVE  ShakeInv'
<1> USE DEF ShakeInv, ShakeTypes, Nothing, Out, Unused
<1>1. ShakeTypes'
  BY DEF ShakeTypes, Begun, Welcomed, PinsKey, Pins
<1>2. Begun'
  BY DEF Begun, Welcomed, PinsKey, Pins
<1>3. SignaturesFit'
  BY DEF SignaturesFit, SignatureFits, Dialled, Begun, Welcomed, PinsKey, Pins
<1>4. StepsFit'
  BY DEF StepsFit, StepFits, Begun, Welcomed, PinsKey, Pins
<1>5. ServerFits'
  BY DEF ServerFits, Begun, StepsFit, StepFits, OwnFits, Welcomed, PinsKey, Pins
<1>6. OwnFits'
  BY DEF OwnFits, Begun, StepsFit, StepFits, ServerFits, Welcomed, PinsKey, Pins
<1>7. IdentityProved'
  BY DEF IdentityProved, OurselvesOnly, ProvedPinned, PinnedKnowsUs, Begun, OwnFits, ServerFits,
         SignaturesFit, SignatureFits, Dialled, Welcomed, PinsKey, Pins
<1> QED BY <1>1, <1>2, <1>3, <1>4, <1>5, <1>6, <1>7

\* Giving up sends nothing.
LEMMA AbandonsKeeps ==
  ASSUME ShakeInv, NEW c \in Numbers, Abandons(c)
  PROVE  ShakeInv'
<1> USE DEF ShakeInv, ShakeTypes, Nothing, Out, Unused
<1>1. ShakeTypes'
  BY DEF ShakeTypes, Begun, Abandons
<1>2. Begun'
  BY DEF Begun, Abandons
<1>3. SignaturesFit'
  BY DEF SignaturesFit, SignatureFits, Dialled, Begun, Abandons
<1>4. StepsFit'
  BY DEF StepsFit, StepFits, Begun, Abandons
<1>5. ServerFits'
  BY DEF ServerFits, Begun, StepsFit, StepFits, OwnFits, Abandons
<1>6. OwnFits'
  BY DEF OwnFits, Begun, StepsFit, StepFits, ServerFits, Abandons
<1>7. IdentityProved'
  BY DEF IdentityProved, OurselvesOnly, ProvedPinned, PinnedKnowsUs, Begun, OwnFits, ServerFits,
         SignaturesFit, SignatureFits, Dialled, Abandons
<1> QED BY <1>1, <1>2, <1>3, <1>4, <1>5, <1>6, <1>7

\* A refusal says nothing.
LEMMA RefusesKeeps ==
  ASSUME ShakeInv, NEW c \in Numbers, Refuses(c)
  PROVE  ShakeInv'
<1> USE DEF ShakeInv, ShakeTypes, Nothing, Out, Unused
<1>1. ShakeTypes'
  BY DEF ShakeTypes, Begun, Refuses, Answers
<1>2. Begun'
  BY DEF Begun, Refuses, Answers
<1>3. SignaturesFit'
  <2>1. heard' \subseteq heard \cup {Nothing} /\ toThem' = [toThem EXCEPT ![c] = Nothing]
    BY DEF Refuses, Answers
  <2> QED BY <2>1, SignaturesGoOn DEF Refuses
<1>4. StepsFit'
  BY DEF StepsFit, StepFits, Begun, Refuses, Answers
<1>5. ServerFits'
  BY DEF ServerFits, Begun, StepsFit, StepFits, OwnFits, Refuses, Answers
<1>6. OwnFits'
  BY DEF OwnFits, Begun, StepsFit, StepFits, ServerFits, Refuses, Answers
<1>7. IdentityProved'
  BY DEF IdentityProved, OurselvesOnly, ProvedPinned, PinnedKnowsUs, Begun, OwnFits, ServerFits,
         SignaturesFit, SignatureFits, Dialled, Refuses, Answers
<1> QED BY <1>1, <1>2, <1>3, <1>4, <1>5, <1>6, <1>7

\* Whom the server signs in has signed for this connection (authenticate).
LEMMA AuthenticateKeeps ==
  ASSUME ShakeInv, NEW c \in Numbers, Authenticate(c)
  PROVE  ShakeInv'
<1> USE DEF ShakeInv, ShakeTypes, Nothing, Out, Unused
<1>0. /\ server' = [server EXCEPT ![c] = [at |-> "in", who |-> toThem[c].pubkey]]
      /\ toThem' = [toThem EXCEPT ![c] = Nothing]
      /\ toUs' = [toUs EXCEPT ![c] = [kind |-> "welcome"]]
      /\ heard' \in {heard, heard \cup {[kind |-> "welcome"]}}
      /\ toThem[c].kind = "auth" /\ toThem[c].pubkey \in enrolled
      /\ UNCHANGED <<conn, client, pinned, enrolled, invited>>
  BY DEF Authenticate, Answers
<1>a. conn[c] # Unused
  <2>1. server[c].at = "hello"
    BY DEF Authenticate
  <2> QED BY <2>1 DEF Begun
<1>b. toThem[c].pubkey = "us" => conn[c].by = "us"
  <2>1. /\ toThem[c].signature.key = toThem[c].pubkey
        /\ toThem[c].signature.on = <<"auth", c, toThem[c].nonce, c>>
    BY DEF Authenticate, AuthMessage, Signed
  <2> QED BY <2>1, <1>0 DEF SignaturesFit, SignatureFits, Dialled
<1>1. ShakeTypes'
  BY <1>0
<1>2. Begun'
  BY <1>0, <1>a DEF Begun
<1>3. SignaturesFit'
  <2>1. heard' \subseteq heard \cup {[kind |-> "welcome"]}
    BY <1>0
  <2> QED BY <1>0, <2>1, SignaturesGoOn
<1>4. StepsFit'
  BY <1>0 DEF StepsFit, StepFits
<1>5. ServerFits'
  BY <1>0 DEF ServerFits
<1>6. OwnFits'
  <2>1. conn[c].by = "us" => "us" \in enrolled
    BY <1>0 DEF OwnFits
  <2> QED BY <2>1, <1>0 DEF OwnFits
<1>7. IdentityProved'
  BY <1>0, <1>b DEF IdentityProved, OurselvesOnly, ProvedPinned, PinnedKnowsUs
<1> QED BY <1>1, <1>2, <1>3, <1>4, <1>5, <1>6, <1>7

\* The server confirms its own key and this connection (Enrollment::exchange).
LEMMA RespondKeeps ==
  ASSUME ShakeInv, NEW c \in Numbers, Respond(c)
  PROVE  ShakeInv'
<1> USE DEF ShakeInv, ShakeTypes, Nothing, Out, Unused
<1>0. PICK next, m :
        /\ server' = [server EXCEPT ![c] = next]
        /\ toThem' = [toThem EXCEPT ![c] = Nothing]
        /\ toUs' = [toUs EXCEPT ![c] = m]
        /\ heard' \in {heard, heard \cup {m}}
        /\ next.at = "finish" /\ next.pubkey = toThem[c].pubkey
        /\ next.transcript[1] = "enroll" /\ next.transcript[6] = c
        /\ m.kind = "step" /\ m.confirm[3][5] = "server"
        /\ UNCHANGED <<conn, client, pinned, enrolled, invited>>
  <2> DEFINE b == Pake(c, "server", IF invited THEN "right" ELSE "decoy")
             tr == Transcript(c, toThem[c], "server", c, b)
             key == PakeKey("b", toThem[c].pake, b)
             next == [at |-> "finish", pubkey |-> toThem[c].pubkey, transcript |-> tr,
                      confirm |-> Confirms("a", key, tr), decoy |-> ~invited]
             m == [kind |-> "step", pake |-> b, confirm |-> Confirms("b", key, tr)]
  <2>1. Answers(c, next, m) /\ UNCHANGED <<conn, client, pinned, enrolled, invited>>
    BY DEF Respond
  <2>2. next.transcript[1] = "enroll" /\ next.transcript[6] = c /\ m.confirm[3][5] = "server"
    BY DEF Transcript, Confirms
  <2>3. next.at = "finish" /\ next.pubkey = toThem[c].pubkey /\ m.kind = "step"
    OBVIOUS
  <2> HIDE DEF next, m
  <2> QED BY <2>1, <2>2, <2>3 DEF Answers
<1>a. conn[c] # Unused /\ toThem[c].kind = "enroll"
  <2>1. server[c].at = "hello" /\ toThem[c].kind = "enroll"
    BY DEF Respond
  <2> QED BY <2>1 DEF Begun
<1>1. ShakeTypes'
  BY <1>0
<1>2. Begun'
  BY <1>0, <1>a DEF Begun
<1>3. SignaturesFit'
  <2>1. heard' \subseteq heard \cup {m} /\ m.kind \notin {"auth", "finish"}
    BY <1>0
  <2> QED BY <1>0, <2>1, SignaturesGoOn
<1>4. StepsFit'
  BY <1>0 DEF StepsFit, StepFits
<1>5. ServerFits'
  <2>1. conn[c].by = "us" => toThem[c].pubkey = "us"
    BY <1>a DEF OwnFits
  <2> QED BY <2>1, <1>0 DEF ServerFits
<1>6. OwnFits'
  BY <1>0 DEF OwnFits
<1>7. IdentityProved'
  BY <1>0 DEF IdentityProved, OurselvesOnly, ProvedPinned, PinnedKnowsUs
<1> QED BY <1>1, <1>2, <1>3, <1>4, <1>5, <1>6, <1>7

\* Whom the server enrolls has signed for this connection (Enrollment::run).
LEMMA EnrollsKeeps ==
  ASSUME ShakeInv, NEW c \in Numbers, NEW full \in BOOLEAN, Enrolls(c, full)
  PROVE  ShakeInv'
<1> USE DEF ShakeInv, ShakeTypes, Nothing, Out, Unused
<1>0. PICK next, m :
        /\ server' = [server EXCEPT ![c] = next]
        /\ toThem' = [toThem EXCEPT ![c] = Nothing]
        /\ toUs' = [toUs EXCEPT ![c] = m]
        /\ heard' \in {heard, heard \cup {m}}
        /\ next.at \in {"full", "in"} /\ next.who = server[c].pubkey
        /\ m.kind \in {"none", "welcome"}
        /\ enrolled' = enrolled \cup {server[c].pubkey}
        /\ UNCHANGED <<conn, client, pinned>>
  <2>1. CASE full
    BY <2>1 DEF Enrolls, Answers
  <2>2. CASE ~full
    BY <2>2 DEF Enrolls, Answers
  <2> QED BY <2>1, <2>2
<1>a. server[c].at = "finish" /\ conn[c] # Unused
  <2>1. server[c].at = "finish"
    BY DEF Enrolls
  <2> QED BY <2>1 DEF Begun
<1>b. server[c].pubkey = "us" => conn[c].by = "us"
  <2>1. /\ toThem[c].kind = "finish" /\ toThem[c].signature.key = server[c].pubkey
        /\ toThem[c].signature.on = server[c].transcript
    BY DEF Enrolls, Signed
  <2>2. server[c].transcript[1] = "enroll" /\ server[c].transcript[6] = c
    BY <1>a DEF ServerFits
  <2> QED BY <2>1, <2>2 DEF SignaturesFit, SignatureFits, Dialled
<1>1. ShakeTypes'
  BY <1>0
<1>2. Begun'
  BY <1>0, <1>a DEF Begun
<1>3. SignaturesFit'
  <2>1. heard' \subseteq heard \cup {m} /\ m.kind \notin {"auth", "finish"}
    BY <1>0
  <2> QED BY <1>0, <2>1, SignaturesGoOn
<1>4. StepsFit'
  BY <1>0 DEF StepsFit, StepFits
<1>5. ServerFits'
  BY <1>0 DEF ServerFits
<1>6. OwnFits'
  <2>1. conn[c].by = "us" => "us" \in enrolled'
    BY <1>0, <1>a DEF ServerFits
  <2> QED BY <2>1, <1>0 DEF OwnFits
<1>7. IdentityProved'
  BY <1>0, <1>b DEF IdentityProved, OurselvesOnly, ProvedPinned, PinnedKnowsUs
<1> QED BY <1>1, <1>2, <1>3, <1>4, <1>5, <1>6, <1>7

\* A connection of those between is none of ours.
LEMMA ReachKeeps ==
  ASSUME ShakeInv, NEW c \in Numbers, Reach(c)
  PROVE  ShakeInv'
<1> USE DEF ShakeInv, ShakeTypes, Nothing, Out, Unused
<1>1. ShakeTypes'
  BY DEF ShakeTypes, Begun, Reach, IsNext
<1>2. Begun'
  BY DEF Begun, Reach, IsNext
<1>3. SignaturesFit'
  BY DEF SignaturesFit, SignatureFits, Dialled, Begun, Reach, IsNext
<1>4. StepsFit'
  BY DEF StepsFit, StepFits, Begun, Reach, IsNext
<1>5. ServerFits'
  BY DEF ServerFits, Begun, StepsFit, StepFits, OwnFits, Reach, IsNext
<1>6. OwnFits'
  BY DEF OwnFits, Begun, StepsFit, StepFits, ServerFits, Reach, IsNext
<1>7. IdentityProved'
  BY DEF IdentityProved, OurselvesOnly, ProvedPinned, PinnedKnowsUs, Begun, OwnFits, ServerFits,
         SignaturesFit, SignatureFits, Dialled, Reach, IsNext
<1> QED BY <1>1, <1>2, <1>3, <1>4, <1>5, <1>6, <1>7

\* What those between send has signatures they heard or made, and confirmations they heard.
LEMMA BetweenKeeps ==
  ASSUME ShakeInv, NEW c \in Numbers, Between(c)
  PROVE  ShakeInv'
<1> USE DEF ShakeInv, ShakeTypes, Nothing, Out, Unused
<1>a. UNCHANGED <<conn, client, server, heard, pinned, enrolled, invited>>
  BY DEF Between
<1>1. CASE /\ conn[c].by = "between" /\ UNCHANGED toUs
           /\ \E m \in ToServer(c) : toThem' = [toThem EXCEPT ![c] = m]
  <2>1. PICK m \in ToServer(c) : toThem' = [toThem EXCEPT ![c] = m]
    BY <1>1
  <2>2. m.kind \in {"auth", "finish"} => m.signature \in Signatures \/ m.signature.key = "between"
    BY <2>1 DEF ToServer, Signed
  <2>3. m.kind \in {"auth", "finish"} => SignatureFits(m.signature, Dialled("us"))
    BY <2>2 DEF SignaturesFit, SignatureFits, Signatures, HeardOf
  <2>4. ShakeTypes'
    BY <2>1, <1>1, <1>a
  <2>5. Begun'
    BY <2>1, <1>1, <1>a DEF Begun
  <2>6. SignaturesFit'
    BY <2>1, <2>3, <1>a, SignaturesGoOn
  <2>7. StepsFit' /\ ServerFits' /\ IdentityProved'
    BY <1>1, <1>a DEF StepsFit, StepFits, ServerFits, IdentityProved, OurselvesOnly,
           ProvedPinned, PinnedKnowsUs
  <2>8. OwnFits'
    BY <2>1, <1>1, <1>a DEF OwnFits
  <2> QED BY <2>4, <2>5, <2>6, <2>7, <2>8
<1>2. CASE /\ conn[c] = [by |-> "us", to |-> "between"] /\ UNCHANGED toThem
           /\ \E m \in ToClient(c) : toUs' = [toUs EXCEPT ![c] = m]
  <2>1. PICK m \in ToClient(c) : toUs' = [toUs EXCEPT ![c] = m]
    BY <1>2
  <2>2. StepFits(m)
    BY <2>1 DEF ToClient, HeardOf, StepsFit, StepFits
  <2>3. ShakeTypes'
    BY <2>1, <1>2, <1>a
  <2>4. Begun'
    BY <2>1, <1>2, <1>a DEF Begun
  <2>5. SignaturesFit' /\ ServerFits' /\ IdentityProved'
    BY <1>2, <1>a DEF SignaturesFit, SignatureFits, Dialled, ServerFits, IdentityProved,
           OurselvesOnly, ProvedPinned, PinnedKnowsUs
  <2>6. StepsFit'
    BY <2>1, <2>2, <1>2, <1>a DEF StepsFit, StepFits
  <2>7. OwnFits'
    BY <2>1, <1>2, <1>a DEF OwnFits
  <2> QED BY <2>3, <2>4, <2>5, <2>6, <2>7
<1> QED BY <1>1, <1>2 DEF Between

-----------------------------------------------------------------------------
\* At the start nobody has sent anything, and no code has proved any key.
LEMMA ShakeInvInit == HandshakeInit => ShakeInv
BY DEF HandshakeInit, ShakeInv, ShakeTypes, Begun, SignaturesFit, SignatureFits, StepsFit, StepFits,
       ServerFits, OwnFits, IdentityProved, OurselvesOnly, ProvedPinned, PinnedKnowsUs,
       Nothing, Out, Unused, NotPinned

\* Every step of the client, of the server and of those between keeps it.
LEMMA ShakeInvStep == ShakeInv /\ [HandshakeNext]_shakeVars => ShakeInv'
<1> SUFFICES ASSUME ShakeInv, [HandshakeNext]_shakeVars PROVE ShakeInv'
  OBVIOUS
<1>1. CASE UNCHANGED shakeVars
  BY <1>1 DEF shakeVars, ShakeInv, ShakeTypes, Begun, SignaturesFit, SignatureFits, StepsFit,
         StepFits,
       ServerFits, OwnFits, IdentityProved, OurselvesOnly, ProvedPinned, PinnedKnowsUs, Dialled
<1>2. CASE Invite
  BY <1>2 DEF Invite, ShakeInv, ShakeTypes, Begun, SignaturesFit, SignatureFits, StepsFit, StepFits,
       ServerFits, OwnFits, IdentityProved, OurselvesOnly, ProvedPinned, PinnedKnowsUs, Dialled
<1>3. ASSUME NEW c \in Numbers, NEW to \in {"server", "between"},
             Dial(c, "login", "none", to) \/ \E s \in Secrets : Dial(c, "enroll", s, to)
      PROVE  ShakeInv'
  <2>1. CASE Dial(c, "login", "none", to)
    BY <2>1, DialKeeps
  <2>2. CASE \E s \in Secrets : Dial(c, "enroll", s, to)
    <3>1. PICK s \in Secrets : Dial(c, "enroll", s, to)
      BY <2>2
    <3> QED BY <3>1, DialKeeps
  <2> QED BY <1>3, <2>1, <2>2
<1>4. ASSUME NEW c \in Numbers,
             TrustShown(c) \/ Greet(c) \/ Prove(c) \/ Welcomed(c) \/ Abandons(c)
      PROVE  ShakeInv'
  BY <1>4, TrustShownKeeps, GreetKeeps, ProveKeeps, WelcomedKeeps, AbandonsKeeps
<1>5. ASSUME NEW c \in Numbers,
             Refuses(c) \/ Authenticate(c) \/ Respond(c) \/ \E full \in BOOLEAN : Enrolls(c, full)
      PROVE  ShakeInv'
  BY <1>5, RefusesKeeps, AuthenticateKeeps, RespondKeeps, EnrollsKeeps
<1>6. ASSUME NEW c \in Numbers, Reach(c) \/ Between(c)
      PROVE  ShakeInv'
  BY <1>6, ReachKeeps, BetweenKeeps
<1> QED BY <1>1, <1>2, <1>3, <1>4, <1>5, <1>6 DEF HandshakeNext

\* Each side is whom the other takes it for, whoever is between them and however many connections
\* there are: control.rs login and enroll, auth.rs authenticate, account.rs enroll.
THEOREM IdentityAlwaysProved == HandshakeSpec => []IdentityProved
<1>1. ShakeInv => IdentityProved
  BY DEF ShakeInv
<1> QED BY <1>1, ShakeInvInit, ShakeInvStep, PTL DEF HandshakeSpec

-----------------------------------------------------------------------------
(* The keystore. *)

\* Types, of what the argument needs.
StoreTypes ==
  /\ made \in 0..MaxIdentities /\ idFile \in 0..made
  /\ chain \in [is : {"open", "locked", "absent"}, held : 0..made]
  /\ enc \in [key : Nat, created : Nat] /\ now \in Nat
  /\ startedOver \subseteq 1..made /\ dropped \subseteq 1..made
  /\ account \in [Addresses -> [Identities -> Nat]] /\ accounts \in [Addresses -> Nat]

\* The store made or found an identity that it has yet to write: a new one is the last that was
\* made, and there is none in the file.
IsNew == open.at = "startOver" \/ (open.at \in {"second", "write"} /\ open.new)
Opening ==
  /\ open.at \in {"closed", "second", "write", "startOver", "forget", "open"}
  /\ open.at # "closed" => open.id \in 1..made
  /\ open.at \in {"second", "write", "startOver", "forget"} =>
       open = [at |-> open.at, id |-> open.id, new |-> open.new, over |-> open.over]
  /\ IsNew => idFile = None /\ open.id = made
  /\ open.at = "forget" => idFile = None /\ chain.held = open.id

\* The identities that can be opened, now or later, are none that starting over left behind.
NoneDropped ==
  /\ chain.held \notin dropped /\ idFile \notin dropped
  /\ open.at # "closed" => open.id \notin dropped

\* Nor are they older than one that was made by starting over.
NoneOlder ==
  \A i \in startedOver :
    /\ chain.held # None => i <= chain.held
    /\ idFile # None => i <= idFile
    /\ open.at # "closed" => i <= open.id

\* What was published with the key we have is of the accounts we have, and of no identity older
\* than one started over; a new identity has published nothing, and starting over has a new key.
PublishedFits ==
  /\ \A x \in published :
       /\ x.server \in Addresses /\ x.id \in 1..made /\ x.enc \in Nat /\ x.enc <= enc.key
       /\ x.enc = enc.key =>
            /\ account[x.server][x.id] \in {0, x.account}
            /\ \A i \in startedOver : i <= x.id
       /\ IsNew => x.id # open.id
       /\ open.at = "startOver" => x.enc < enc.key

\* The inductive invariant.
StoreInv == StoreTypes /\ Opening /\ NoneDropped /\ NoneOlder /\ PublishedFits /\ IdentityKept

\* Renewing leaves the key, or makes the next one, of now.
LEMMA Renewing ==
  ASSUME RenewIfDue
  PROVE  enc' = enc \/ enc' = [key |-> enc.key + 1, created |-> now]
BY DEF RenewIfDue, NewEncryptionKey

\* What doesn't touch accounts, what was published and starting over, keeps what was published
\* in order, if it renews the key or leaves it.
LEMMA PublishedStays ==
  ASSUME StoreInv, UNCHANGED <<account, published, startedOver>>, made' \in Nat, made <= made',
         enc' = enc \/ enc' = [key |-> enc.key + 1, created |-> now],
         IsNew' => (IsNew /\ open'.id = open.id) \/ open'.id > made,
         open'.at = "startOver" => enc' # enc \/ open.at = "startOver"
  PROVE  PublishedFits'
BY DEF StoreInv, StoreTypes, PublishedFits

\* Neither does it change what IdentityKept says of them.
LEMMA KeptStays ==
  ASSUME StoreInv, UNCHANGED <<published, startedOver, gave>>, NoneDropped'
  PROVE  IdentityKept'
BY DEF StoreInv, IdentityKept, NoneDropped, OldStaysGone, KeysUntied, KeyLifeBounded

\* Opening finds an identity that can be opened, or makes the next one (open_platform).
LEMMA OpenPlatformKeeps ==
  ASSUME StoreInv, NEW over \in BOOLEAN, OpenPlatform(over)
  PROVE  StoreInv'
<1> USE KeystoreAssumption DEF None, Closed, Opened, IsNew
<1>1. UNCHANGED <<chain, known, now, account, accounts, published, gave, startedOver, dropped>>
  BY DEF OpenPlatform
<1>2. enc' = enc \/ enc' = [key |-> enc.key + 1, created |-> now]
  BY Renewing DEF OpenPlatform, Fallback, Assemble, Fails, FirstIdentity
<1>3. \/ made' = made /\ idFile' = idFile /\ open' = Closed
      \/ made' = made /\ idFile' = idFile /\ open' = Opened(chain.held) /\ chain.held # None
      \/ made' = made /\ idFile' = idFile /\ open' = Opened(idFile) /\ idFile # None
      \/ made' = made + 1 /\ idFile' = made + 1 /\ open' = Opened(made + 1) /\ made < MaxIdentities
      \/ /\ made' = made /\ idFile' = idFile /\ idFile # None
         /\ open' = [at |-> "second", id |-> idFile, new |-> FALSE, over |-> over]
      \/ /\ made' = made + 1 /\ idFile' = idFile /\ idFile = None /\ made < MaxIdentities
         /\ open' = [at |-> "second", id |-> made + 1, new |-> TRUE, over |-> over]
  BY DEF OpenPlatform, Fallback, Assemble, Fails, FirstIdentity
<1>4. StoreTypes'
  BY <1>1, <1>2, <1>3 DEF StoreInv, StoreTypes
<1>5. Opening'
  BY <1>1, <1>3 DEF StoreInv, StoreTypes, Opening
<1>6. NoneDropped'
  BY <1>1, <1>3 DEF StoreInv, StoreTypes, NoneDropped
<1>7. NoneOlder'
  BY <1>1, <1>3 DEF StoreInv, StoreTypes, NoneOlder
<1>8. PublishedFits'
  BY <1>1, <1>2, <1>3, PublishedStays DEF StoreInv, StoreTypes
<1> QED BY <1>1, <1>4, <1>5, <1>6, <1>7, <1>8, KeptStays DEF StoreInv

\* Reading the keychain again opens what it holds, or goes on with the identity there is.
LEMMA ReadAgainKeeps ==
  ASSUME StoreInv, ReadAgain
  PROVE  StoreInv'
<1> USE KeystoreAssumption DEF None, Closed, Opened, IsNew
<1>1. /\ UNCHANGED <<chain, idFile, known, missing, now, made, account, accounts, published,
                     gave, startedOver, dropped>>
      /\ open.at = "second"
  BY DEF ReadAgain
<1>2. enc' = enc \/ enc' = [key |-> enc.key + 1, created |-> now]
  BY Renewing DEF ReadAgain, Assemble, Fails, NewEncryptionKey
<1>3. \/ open' = Closed
      \/ open' = Opened(chain.held) /\ chain.held # None
      \/ /\ open' = [at |-> "startOver", id |-> open.id, new |-> open.new, over |-> open.over]
         /\ open.new /\ enc' = [key |-> enc.key + 1, created |-> now]
      \/ open' = [at |-> "write", id |-> open.id, new |-> open.new, over |-> open.over]
  BY <1>1 DEF ReadAgain, Assemble, Fails, NewEncryptionKey, StoreInv, Opening
<1>4. StoreTypes'
  BY <1>1, <1>2 DEF StoreInv, StoreTypes
<1>5. Opening'
  BY <1>1, <1>3 DEF StoreInv, StoreTypes, Opening
<1>6. NoneDropped'
  BY <1>1, <1>3 DEF StoreInv, StoreTypes, NoneDropped
<1>7. NoneOlder'
  BY <1>1, <1>3 DEF StoreInv, StoreTypes, NoneOlder
<1>8. PublishedFits'
  BY <1>1, <1>2, <1>3, PublishedStays DEF StoreInv, StoreTypes
<1> QED BY <1>1, <1>4, <1>5, <1>6, <1>7, <1>8, KeptStays DEF StoreInv

\* The identity written to the keychain is the one in the file, or the newest.
LEMMA WriteIdentityKeeps ==
  ASSUME StoreInv, WriteIdentity
  PROVE  StoreInv'
<1> USE KeystoreAssumption DEF None, Closed, Opened, IsNew
<1>1. /\ UNCHANGED <<idFile, known, missing, now, made, account, accounts, published, gave,
                     startedOver, dropped>>
      /\ open.at = "write"
  BY DEF WriteIdentity
<1>2. enc' = enc \/ enc' = [key |-> enc.key + 1, created |-> now]
  BY Renewing DEF WriteIdentity, Assemble, Fails
<1>3. \/ open' = Closed /\ chain' = chain
      \/ open' = Opened(open.id) /\ chain' = [is |-> "open", held |-> open.id]
  BY DEF WriteIdentity, Assemble, Fails
<1>4. StoreTypes'
  BY <1>1, <1>2, <1>3 DEF StoreInv, StoreTypes, Opening
<1>5. Opening'
  BY <1>1, <1>3 DEF StoreInv, StoreTypes, Opening
<1>6. NoneDropped'
  BY <1>1, <1>3 DEF StoreInv, StoreTypes, NoneDropped
<1>7. NoneOlder'
  BY <1>1, <1>3 DEF StoreInv, StoreTypes, NoneOlder
<1>8. PublishedFits'
  BY <1>1, <1>2, <1>3, PublishedStays DEF StoreInv, StoreTypes
<1> QED BY <1>1, <1>4, <1>5, <1>6, <1>7, <1>8, KeptStays DEF StoreInv

\* Starting over writes an identity that has published nothing, under a key nobody was given, and
\* leaves no way back to an older one before it forgets the servers (first_keychain_identity).
LEMMA StartOverKeeps ==
  ASSUME StoreInv, StartOver
  PROVE  StoreInv'
<1> USE KeystoreAssumption DEF None, Closed, Opened, IsNew
<1>1. UNCHANGED <<idFile, missing, now, made, account, accounts, published, gave>>
  BY DEF StartOver
<1>2. CASE /\ open.at = "startOver" /\ open' = Closed
           /\ UNCHANGED <<chain, enc, startedOver, dropped>>
  <2>1. StoreTypes' /\ Opening' /\ NoneDropped' /\ NoneOlder'
    BY <1>1, <1>2 DEF StoreInv, StoreTypes, Opening, NoneDropped, NoneOlder
  <2>2. PublishedFits'
    BY <1>1, <1>2, PublishedStays DEF StoreInv, StoreTypes
  <2> QED BY <1>1, <1>2, <2>1, <2>2, KeptStays DEF StoreInv
<1>3. CASE /\ open.at = "startOver" /\ UNCHANGED <<enc, dropped>>
           /\ open' = [at |-> "forget", id |-> open.id, new |-> open.new, over |-> open.over]
           /\ chain' = [is |-> "open", held |-> open.id]
           /\ startedOver' = startedOver \cup {open.id}
  <2>1. idFile = None /\ open.id = made /\ made \in 1..MaxIdentities
    BY <1>3 DEF StoreInv, StoreTypes, Opening
  <2>2. StoreTypes' /\ Opening' /\ NoneDropped'
    BY <1>1, <1>3, <2>1 DEF StoreInv, StoreTypes, Opening, NoneDropped
  <2>3. NoneOlder'
    BY <1>1, <1>3, <2>1 DEF StoreInv, StoreTypes, NoneOlder
  <2>4. \A x \in published : x.id # open.id /\ x.enc < enc.key
    BY <1>3 DEF StoreInv, PublishedFits
  <2>5. PublishedFits'
    BY <1>1, <1>3, <2>4 DEF StoreInv, StoreTypes, PublishedFits
  <2>6. IdentityKept'
    BY <1>1, <1>3, <2>2, <2>4
       DEF StoreInv, IdentityKept, NoneDropped, OldStaysGone, KeysUntied, KeyLifeBounded
  <2> QED BY <2>2, <2>3, <2>5, <2>6 DEF StoreInv
<1>4. CASE /\ open.at = "forget" /\ UNCHANGED <<chain, startedOver>>
           /\ enc' = enc \/ enc' = [key |-> enc.key + 1, created |-> now]
           /\ open' = Opened(open.id) /\ dropped' = dropped \cup (1..made \ {open.id})
  <2>1. idFile = None /\ chain.held = open.id /\ open.id \in 1..made
    BY <1>4 DEF StoreInv, Opening
  <2>2. StoreTypes' /\ Opening'
    BY <1>1, <1>4, <2>1 DEF StoreInv, StoreTypes, Opening
  <2>3. NoneDropped' /\ NoneOlder'
    <3>1. open.id \notin dropped' /\ 0 \notin dropped'
      BY <1>4, <2>1 DEF StoreInv, StoreTypes, NoneDropped
    <3> QED BY <1>1, <1>4, <2>1, <3>1 DEF StoreInv, NoneDropped, NoneOlder
  <2>4. PublishedFits'
    BY <1>1, <1>4, PublishedStays DEF StoreInv, StoreTypes
  <2> QED BY <1>1, <1>4, <2>2, <2>3, <2>4, KeptStays DEF StoreInv
<1> QED
  BY <1>2, <1>3, <1>4, Renewing
     DEF StartOver, StartOverSteps, WriteThenForget, Replaced, Fails, ForgetAll, Assemble,
         StoreInv, Opening

\* What is published is of the identity that is open, under a key that no earlier account of it
\* had (enroll), or under one that is not due, for the account there is (sign_in).
LEMMA JoinKeeps ==
  ASSUME StoreInv, Join
  PROVE  StoreInv'
<1> USE KeystoreAssumption DEF None, IsNew
<1>1. /\ UNCHANGED <<chain, idFile, open, missing, now, made, startedOver, dropped>>
      /\ open.at = "open"
  BY DEF Join
<1>2. PICK addr \in Addresses : Enroll(addr) \/ SignInKnown(addr)
  BY DEF Join
<1>3. open.id \in 1..made /\ open.id \in Identities
  BY <1>1 DEF StoreInv, StoreTypes, Opening, Identities
<1>4. PICK acct \in Nat :
        /\ enc' = enc \/ enc' = [key |-> enc.key + 1, created |-> now]
        /\ account' = [account EXCEPT ![addr][open.id] = acct]
        /\ enc' = enc => account[addr][open.id] = acct /\ acct # 0 /\ ~Due(enc.created)
        /\ accounts' \in [Addresses -> Nat]
        /\ Publish(addr, acct)
  <2>0. accounts' \in [Addresses -> Nat]
    <3>1. account[addr][open.id] \in Nat /\ accounts[addr] + 1 \in Nat
      BY <1>3 DEF StoreInv, StoreTypes
    <3> QED BY <1>2, <3>1 DEF Enroll, SignInKnown, StoreInv, StoreTypes
  <2>1. CASE Enroll(addr)
    <3> DEFINE has == account[addr][open.id]
               new == IF has # 0 THEN has ELSE accounts[addr] + 1
    <3>1. new \in Nat
      BY <1>3 DEF StoreInv, StoreTypes
    <3>2. enc' = [key |-> enc.key + 1, created |-> now] /\ enc' # enc
      BY <2>1 DEF Enroll, EnrollsWith, EnrollKey, NewEncryptionKey, StoreInv, StoreTypes
    <3>3. account' = [account EXCEPT ![addr][open.id] = new] /\ Publish(addr, new)
      BY <2>1 DEF Enroll
    <3> QED BY <2>0, <3>1, <3>2, <3>3
  <2>2. CASE SignInKnown(addr)
    <3> DEFINE has == account[addr][open.id]
    <3>1. has \in Nat /\ has # 0 /\ Publish(addr, has)
      BY <2>2, <1>3 DEF SignInKnown, StoreInv, StoreTypes
    <3>2. account' = [account EXCEPT ![addr][open.id] = has]
      BY <2>2, <1>3 DEF SignInKnown, StoreInv, StoreTypes
    <3>3. enc' = enc \/ enc' = [key |-> enc.key + 1, created |-> now]
      BY <2>2, Renewing DEF SignInKnown
    <3>4. enc' = enc => ~Due(enc.created)
      BY <2>2 DEF SignInKnown, RenewIfDue, NewEncryptionKey, StoreInv, StoreTypes
    <3> QED BY <2>0, <3>1, <3>2, <3>3, <3>4
  <2> QED BY <1>2, <2>1, <2>2
<1> DEFINE y == [server |-> addr, account |-> acct, id |-> open.id, enc |-> enc'.key]
<1>5. published' = published \cup {y}
  BY <1>4 DEF Publish
<1>6. StoreTypes' /\ Opening' /\ NoneDropped' /\ NoneOlder'
  BY <1>1, <1>3, <1>4 DEF StoreInv, StoreTypes, Opening, NoneDropped, NoneOlder
<1>7. PublishedFits'
  BY <1>1, <1>3, <1>4, <1>5 DEF StoreInv, StoreTypes, PublishedFits, NoneOlder
<1>8. KeysUntied'
  <2>1. ASSUME NEW x \in published, x.enc = y.enc
        PROVE  /\ x.server = y.server /\ x.id = y.id => x.account = y.account
               /\ x.id # y.id => x.id \notin startedOver \/ x.id < y.id
               /\ y.id # x.id => y.id \notin startedOver \/ y.id < x.id
    <3>1. x.enc = enc.key /\ enc' = enc
      BY <2>1, <1>4 DEF StoreInv, StoreTypes, PublishedFits
    <3>2. /\ x.server \in Addresses /\ x.id \in 1..made
          /\ account[x.server][x.id] \in {0, x.account}
          /\ \A i \in startedOver : i <= x.id
      BY <3>1 DEF StoreInv, PublishedFits
    <3>3. account[addr][open.id] = acct /\ acct # 0
      BY <3>1, <1>4
    <3>4. \A i \in startedOver : i <= open.id
      BY <1>1 DEF StoreInv, NoneOlder
    <3>5. startedOver \subseteq Nat /\ x.id \in Nat /\ open.id \in Nat
      BY <3>2, <1>3 DEF StoreInv, StoreTypes
    <3> QED BY <3>2, <3>3, <3>4, <3>5
  <2>2. ASSUME NEW x \in published, NEW z \in published, x.enc = z.enc
        PROVE  /\ x.server = z.server /\ x.id = z.id => x.account = z.account
               /\ x.id # z.id => x.id \notin startedOver \/ x.id < z.id
    BY <2>2 DEF StoreInv, IdentityKept, KeysUntied
  <2> HIDE DEF y
  <2> QED BY <1>1, <1>5, <2>1, <2>2 DEF KeysUntied
<1>9. KeyLifeBounded'
  BY <1>1, <1>4 DEF StoreInv, StoreTypes, KeyLifeBounded, Publish, Due, RenewalDue
<1>10. OldStaysGone'
  BY <1>6 DEF OldStaysGone, NoneDropped
<1> QED BY <1>6, <1>7, <1>8, <1>9, <1>10 DEF StoreInv, IdentityKept

\* An account that is left is none; a server that is forgotten keeps it.
LEMMA GoesKeeps ==
  ASSUME StoreInv, Goes
  PROVE  StoreInv'
<1> USE KeystoreAssumption DEF None, IsNew
<1>1. UNCHANGED <<chain, idFile, enc, open, missing, now, made, accounts, published, gave,
                  startedOver, dropped>>
  BY DEF Goes
<1>2. account' = account \/ \E a : open.at = "open" /\ account' = [account EXCEPT ![a][open.id] = 0]
  BY DEF Goes, LeaveServer, Forget
<1>3. account' \in [Addresses -> [Identities -> Nat]]
  BY <1>2 DEF StoreInv, StoreTypes
<1>4. \A a \in Addresses, i \in Identities : account'[a][i] \in {0, account[a][i]}
  BY <1>2 DEF StoreInv, StoreTypes
<1>5. StoreTypes' /\ Opening' /\ NoneDropped' /\ NoneOlder'
  BY <1>1, <1>3 DEF StoreInv, StoreTypes, Opening, NoneDropped, NoneOlder
<1>6. PublishedFits'
  <2>1. \A x \in published : account'[x.server][x.id] \in {0, account[x.server][x.id]}
    <3>1. \A x \in published : x.server \in Addresses /\ x.id \in Identities
      BY DEF StoreInv, StoreTypes, PublishedFits, Identities
    <3> QED BY <3>1, <1>4
  <2> QED BY <1>1, <2>1 DEF StoreInv, PublishedFits
<1> QED BY <1>1, <1>5, <1>6, KeptStays DEF StoreInv

\* The program may stop anywhere, the keychain may change and the clock may be set back.
LEMMA WorldKeeps ==
  ASSUME StoreInv, Stop \/ KeychainTurns \/ SetClock \/ UNCHANGED keystoreVars
  PROVE  StoreInv'
<1> USE KeystoreAssumption DEF None, Closed, IsNew
<1>1. /\ UNCHANGED <<idFile, enc, made, account, accounts, published, gave, startedOver, dropped>>
      /\ chain'.held = chain.held /\ chain' \in [is : {"open", "locked", "absent"}, held : 0..made]
      /\ open' \in {open, Closed} /\ now' \in Nat
  BY DEF Stop, KeychainTurns, SetClock, keystoreVars, StoreInv, StoreTypes
<1>2. StoreTypes' /\ Opening' /\ NoneDropped' /\ NoneOlder'
  BY <1>1 DEF StoreInv, StoreTypes, Opening, NoneDropped, NoneOlder
<1>3. PublishedFits'
  BY <1>1, PublishedStays DEF StoreInv, StoreTypes
<1> QED BY <1>1, <1>2, <1>3, KeptStays DEF StoreInv

\* The identity and its encryption key are one install's and one life's, whatever the keychain
\* and the clock do and wherever the program stops: keystore.rs, account.rs enroll.
THEOREM IdentityAlwaysKept == KeystoreSpec => []IdentityKept
<1>1. KeystoreInit => StoreInv
  BY KeystoreAssumption
     DEF KeystoreInit, StoreInv, StoreTypes, Opening, NoneDropped, NoneOlder, PublishedFits, IsNew,
         IdentityKept, OldStaysGone, KeysUntied, KeyLifeBounded, None, Closed
<1>2. StoreInv /\ [KeystoreNext]_keystoreVars => StoreInv'
  BY OpenPlatformKeeps, ReadAgainKeeps, WriteIdentityKeeps, StartOverKeeps, JoinKeeps, GoesKeeps,
     WorldKeeps
     DEF KeystoreNext
<1>3. StoreInv => IdentityKept
  BY DEF StoreInv
<1> QED BY <1>1, <1>2, <1>3, PTL DEF KeystoreSpec

-----------------------------------------------------------------------------
(* The floors. *)

\* The fields of a key manager.
Fields ==
  {"room", "epoch", "graceOver", "floors", "floor", "present", "roomPeers", "peers", "media",
   "enc", "retiredEnc", "secret", "made", "sealed", "unwrappable", "received", "cache", "early",
   "stashed", "out"}

\* A key manager, of what the argument needs.
Manager(n) ==
  /\ n = [f \in Fields |-> n[f]]
  /\ n.room \in AnyRoom /\ n.epoch \in Nat
  /\ n.floors \in [Rooms -> Int] /\ n.floor \in Int
  /\ n.stashed # NoStash => n.stashed[2] \in Nat

\* The epoch we are in is one that the floors know of.
Floored(n) == Manager(n) /\ (n.room # NoRoom => n.epoch <= n.floors[n.room])

\* From m to n the floors only rise, and the stay goes on.
Raises(m, n) == \A r \in Rooms : m.floors[r] <= n.floors[r]
StaysOn(m, n) == n.room = m.room /\ n.floor = m.floor /\ Raises(m, n)

\* What start_epoch does to the epoch and the floors.
LEMMA StartEpochRaises ==
  ASSUME NEW m, Manager(m), m.room \in Rooms, NEW e \in Nat, e # m.epoch \/ Floored(m)
  PROVE  LET n == StartEpoch(m, e) IN Floored(n) /\ StaysOn(m, n) /\ n.epoch = e
<1> DEFINE n == StartEpoch(m, e)
           old == {r \in m.received : r.epoch < e}
           moved == IF e = m.epoch THEN m
                    ELSE [m EXCEPT !.received = RetireReceived(@, old), !.epoch = e,
                                   !.graceOver = FALSE, !.floors = RaiseFloor(m, e)]
<1>0. /\ m = [f \in Fields |-> m[f]] /\ m.floors \in [Rooms -> Int] /\ m.epoch \in Nat
      /\ NoRoom \notin Rooms
  BY KeyConstants DEF Manager
<1>1. /\ moved = [f \in Fields |-> moved[f]]
      /\ moved.room = m.room /\ moved.floor = m.floor /\ moved.stashed = m.stashed
      /\ moved.epoch = e
      /\ moved.floors = IF e = m.epoch THEN m.floors ELSE RaiseFloor(m, e)
  BY <1>0 DEF Fields
<1>2. n = [moved EXCEPT !.made = FreshSecret(m), !.secret = FreshSecret(m), !.sealed = {}]
  BY DEF StartEpoch
<1> HIDE DEF moved
<1>3. /\ n = [f \in Fields |-> n[f]]
      /\ n.room = m.room /\ n.floor = m.floor /\ n.stashed = m.stashed /\ n.epoch = e
      /\ n.floors = IF e = m.epoch THEN m.floors ELSE RaiseFloor(m, e)
  BY <1>1, <1>2 DEF Fields
<1> HIDE DEF n
<1>4. n.floors \in [Rooms -> Int] /\ Raises(m, n) /\ n.epoch <= n.floors[n.room]
  BY <1>0, <1>3 DEF RaiseFloor, Raises, Floored
<1>5. Floored(n) /\ StaysOn(m, n) /\ n.epoch = e
  BY <1>3, <1>4 DEF Manager, Floored, StaysOn
<1> QED BY <1>5 DEF n

\* Fields other than the room, the epoch and the floors don't matter.
LEMMA StaysFloored ==
  ASSUME NEW m, NEW n, n = [f \in Fields |-> n[f]],
         n.room = m.room, n.epoch = m.epoch, n.floors = m.floors, n.floor = m.floor,
         n.stashed = m.stashed
  PROVE  /\ Manager(m) => Manager(n) /\ StaysOn(m, n)
         /\ Floored(m) => Floored(n)
BY DEF Manager, Floored, StaysOn, Raises

\* Steps of a stay follow each other.
LEMMA StaysOnward ==
  ASSUME NEW l, NEW m, NEW n, Manager(l), Manager(m), Manager(n), StaysOn(l, m), StaysOn(m, n)
  PROVE  StaysOn(l, n)
<1>1. \A r \in Rooms : l.floors[r] \in Int /\ m.floors[r] \in Int /\ n.floors[r] \in Int
  BY DEF Manager
<1> QED BY <1>1 DEF StaysOn, Raises

\* Wrapping and delivering change neither the room nor the epoch nor the floors.
LEMMA WrapStays ==
  ASSUME NEW m, Floored(m)
  PROVE  LET n == WrapForNewPeers(m, me) IN Floored(n) /\ StaysOn(m, n)
<1> DEFINE n == WrapForNewPeers(m, me)
<1>1. /\ n = [f \in Fields |-> n[f]] /\ n.room = m.room /\ n.epoch = m.epoch
      /\ n.floors = m.floors /\ n.floor = m.floor /\ n.stashed = m.stashed
  BY ZenonT(60) DEF WrapForNewPeers, Fields, Floored, Manager
<1> HIDE DEF n
<1>2. Floored(n) /\ StaysOn(m, n)
  BY <1>1, StaysFloored DEF Floored
<1> QED BY <1>2 DEF n

\* The same of sender_key_at.
LEMMA DeliverStays ==
  ASSUME NEW m, Floored(m), NEW S
  PROVE  LET n == Deliver(m, me, S) IN Floored(n) /\ StaysOn(m, n)
<1> DEFINE n == Deliver(m, me, S)
<1>1. /\ n = [f \in Fields |-> n[f]] /\ n.room = m.room /\ n.epoch = m.epoch
      /\ n.floors = m.floors /\ n.floor = m.floor /\ n.stashed = m.stashed
  BY ZenonT(60) DEF Deliver, Fields, Floored, Manager
<1> HIDE DEF n
<1>2. Floored(n) /\ StaysOn(m, n)
  BY <1>1, StaysFloored DEF Floored
<1> QED BY <1>2 DEF n

\* A room state that is applied raises the floor to its epoch.
LEMMA FollowRaises ==
  ASSUME NEW m, Manager(m), m.room \in Rooms, NEW e \in Nat, NEW P, NEW stale,
         e # m.epoch \/ Floored(m)
  PROVE  LET n == FollowPeers(m, me, e, P, stale) IN Floored(n) /\ StaysOn(m, n)
<1> DEFINE invalid == Invalid(m, me, P)
           listed == IF invalid THEN m.unwrappable
                     ELSE {x \in m.unwrappable : x[1] \in Named(P)}
           checked == [m EXCEPT !.unwrappable = listed]
           trusted == IF invalid THEN {} ELSE TrustedPeers(checked, me, m.room, P)
           gone == {r \in m.received : r.from \in Departed(m, trusted)}
           followed == [checked EXCEPT !.roomPeers = P, !.peers = trusted,
                                       !.received = RetireReceived(@, gone)]
           needs == NeedsSecret(m, e, trusted)
           keyed == IF needs THEN StartEpoch(followed, e) ELSE followed
           wrapped == WrapForNewPeers(keyed, me)
           waiting == [wrapped EXCEPT !.early = {}]
           n == Deliver(waiting, me, m.early \ stale)
<1>0. FollowPeers(m, me, e, P, stale) = n
  BY DEF FollowPeers
<1>1. /\ checked = [f \in Fields |-> checked[f]]
      /\ \A f \in Fields \ {"unwrappable"} : checked[f] = m[f]
  BY DEF Manager, Fields
<1> HIDE DEF checked
<1>2. /\ followed = [f \in Fields |-> followed[f]]
      /\ \A f \in Fields \ {"unwrappable", "roomPeers", "peers", "received"} : followed[f] = m[f]
  BY <1>1 DEF Fields
<1> HIDE DEF followed
<1>3. /\ followed.room = m.room /\ followed.epoch = m.epoch /\ followed.floors = m.floors
      /\ followed.floor = m.floor /\ followed.stashed = m.stashed
  BY <1>2 DEF Fields
<1>4. Manager(followed) /\ StaysOn(m, followed) /\ (Floored(m) => Floored(followed))
  BY <1>2, <1>3, StaysFloored
<1>5. e # m.epoch => needs
  BY DEF NeedsSecret
<1> HIDE DEF needs
<1>6. Floored(keyed) /\ StaysOn(followed, keyed)
  <2>1. CASE needs
    <3>1. Floored(StartEpoch(followed, e)) /\ StaysOn(followed, StartEpoch(followed, e))
      BY <1>3, <1>4, StartEpochRaises
    <3> QED BY <2>1, <3>1
  <2>2. CASE ~needs
    <3>1. Floored(followed)
      BY <2>2, <1>4, <1>5
    <3>2. StaysOn(followed, followed)
      BY <3>1 DEF StaysOn, Raises, Floored, Manager
    <3> QED BY <2>2, <3>1, <3>2
  <2> QED BY <2>1, <2>2
<1> HIDE DEF keyed
<1>7. Floored(wrapped) /\ StaysOn(keyed, wrapped)
  BY <1>6, WrapStays
<1> HIDE DEF wrapped
<1>8. Floored(waiting) /\ StaysOn(wrapped, waiting)
  <2>1. /\ waiting = [f \in Fields |-> waiting[f]]
        /\ waiting.room = wrapped.room /\ waiting.epoch = wrapped.epoch
        /\ waiting.floors = wrapped.floors /\ waiting.floor = wrapped.floor
        /\ waiting.stashed = wrapped.stashed
    BY <1>7 DEF Floored, Manager, Fields
  <2> HIDE DEF waiting
  <2> QED BY <2>1, <1>7, StaysFloored DEF Floored
<1> HIDE DEF waiting
<1>9. Floored(n) /\ StaysOn(waiting, n)
  BY <1>8, DeliverStays
<1> HIDE DEF n
<1>10. StaysOn(m, n)
  <2>1. Manager(keyed) /\ Manager(wrapped) /\ Manager(waiting) /\ Manager(n)
    BY <1>6, <1>7, <1>8, <1>9 DEF Floored
  <2>2. StaysOn(m, keyed)
    BY <1>4, <1>6, <2>1, StaysOnward
  <2>3. StaysOn(m, wrapped)
    BY <1>7, <2>1, <2>2, StaysOnward
  <2>4. StaysOn(m, waiting)
    BY <1>8, <2>1, <2>3, StaysOnward
  <2> QED BY <1>9, <2>1, <2>4, StaysOnward
<1> QED BY <1>0, <1>9, <1>10

\* A room state of our room is followed or is old; one of another room is stashed.
LEMMA PeersChangedRaises ==
  ASSUME NEW m, Manager(m), NEW r \in Rooms, NEW e \in Nat, NEW P, NEW stale,
         Floored(m) \/ (r = m.room /\ e > m.epoch)
  PROVE  LET n == PeersChanged(m, me, r, e, P, stale) IN Floored(n) /\ StaysOn(m, n)
<1>1. CASE r # m.room
  <2> DEFINE n == [m EXCEPT !.stashed = Stash(m, r, e, P)]
  <2>1. /\ n = [f \in Fields |-> n[f]] /\ n.room = m.room /\ n.epoch = m.epoch
        /\ n.floors = m.floors /\ n.floor = m.floor /\ n.stashed = Stash(m, r, e, P)
    BY DEF Fields, Manager
  <2>2. PeersChanged(m, me, r, e, P, stale) = n
    BY <1>1 DEF PeersChanged
  <2> HIDE DEF n
  <2>3. n.stashed[2] \in Nat
    BY <2>1 DEF Stash, Manager
  <2>4. Floored(n) /\ StaysOn(m, n)
    BY <1>1, <2>1, <2>3 DEF Floored, Manager, StaysOn, Raises
  <2> QED BY <2>2, <2>4
<1>2. CASE r = m.room /\ e < m.epoch
  <2>1. PeersChanged(m, me, r, e, P, stale) = m
    BY <1>2 DEF PeersChanged
  <2>2. Floored(m) /\ StaysOn(m, m)
    BY <1>2 DEF Manager, StaysOn, Raises
  <2> QED BY <2>1, <2>2
<1>3. CASE r = m.room /\ e >= m.epoch
  <2>1. PeersChanged(m, me, r, e, P, stale) = FollowPeers(m, me, e, P, stale)
    BY <1>3 DEF PeersChanged, Manager
  <2>2. m.room \in Rooms /\ (e # m.epoch \/ Floored(m))
    BY <1>3 DEF Manager
  <2>3. LET n == FollowPeers(m, me, e, P, stale) IN Floored(n) /\ StaysOn(m, n)
    BY <2>2, FollowRaises
  <2> QED BY <2>1, <2>3
<1> QED BY <1>1, <1>2, <1>3 DEF Manager

\* A presence changes who is trusted, by the room state there is.
LEMMA PresenceStays ==
  ASSUME NEW m, Floored(m), NEW u \in Users, NEW r \in AnyRoom
  PROVE  LET n == SetPresence(m, me, u, r, {}) IN Floored(n) /\ StaysOn(m, n)
<1> DEFINE seen == [m EXCEPT !.present[u] = r]
<1>1. /\ seen = [f \in Fields |-> seen[f]] /\ seen.room = m.room /\ seen.epoch = m.epoch
      /\ seen.floors = m.floors /\ seen.floor = m.floor /\ seen.stashed = m.stashed
  BY DEF Fields, Floored, Manager
<1>2. SetPresence(m, me, u, r, {}) \in {m, seen, ReapplyPeers(seen, me, {})}
  BY DEF SetPresence
<1> HIDE DEF seen
<1>3. Floored(seen) /\ StaysOn(m, seen) /\ StaysOn(m, m)
  BY <1>1, StaysFloored DEF Floored, StaysOn, Raises, Manager
<1> DEFINE n == ReapplyPeers(seen, me, {})
<1>4. Floored(n) /\ StaysOn(seen, n)
  <2>1. CASE seen.room = NoRoom
    <3>1. n = seen
      BY <2>1 DEF ReapplyPeers
    <3>2. StaysOn(seen, seen)
      BY <1>3 DEF Floored, StaysOn, Raises, Manager
    <3> QED BY <1>3, <3>1, <3>2
  <2>2. CASE seen.room # NoRoom
    <3>1. n = PeersChanged(seen, me, seen.room, seen.epoch, seen.roomPeers, {})
      BY <2>2 DEF ReapplyPeers
    <3>2. seen.room \in Rooms /\ seen.epoch \in Nat /\ Manager(seen)
      BY <2>2, <1>3 DEF Floored, Manager, AnyRoom
    <3> QED BY <1>3, <3>1, <3>2, PeersChangedRaises
  <2> QED BY <2>1, <2>2
<1> HIDE DEF n
<1>5. StaysOn(m, n)
  BY <1>3, <1>4, StaysOnward DEF Floored
<1> QED BY <1>2, <1>3, <1>4, <1>5 DEF n

\* A placement in another room starts at the floor of the earlier stays there.
LEMMA PlacementRaises ==
  ASSUME NEW m, Floored(m), NEW r \in Rooms, NEW e \in Nat \ {0}, NEW media, NEW P
  PROVE  LET n == ApplyPlacement(m, me, r, e, media, P, {}) IN
         /\ Floored(n) /\ Raises(m, n)
         /\ n.room = r /\ n.floor = IF r = m.room THEN m.floor ELSE m.floors[r]
<1> DEFINE placed == [Moved(m, r) EXCEPT !.room = r, !.media = media, !.secret = 0,
                                         !.sealed = {}, !.stashed = NoStash]
           first == PeersChanged(placed, me, r, e, P, {})
           s == m.stashed
           second == PeersChanged(first, me, r, s[2], s[3], {})
           n == ApplyPlacement(m, me, r, e, media, P, {})
<1>0. r # NoRoom /\ Manager(m)
  BY KeyConstants DEF Floored
<1>1. CASE r = m.room /\ e < m.epoch
  <2>1. n = m
    BY <1>0, <1>1 DEF ApplyPlacement
  <2>2. Raises(m, m)
    BY <1>0 DEF Raises, Manager
  <2> QED BY <1>1, <2>1, <2>2
<1>2. CASE ~(r = m.room /\ e < m.epoch)
  <2>1. n = IF s # NoStash /\ s[1] = r /\ s[2] > e THEN second ELSE first
    BY <1>0, <1>2 DEF ApplyPlacement
  <2> HIDE DEF n
  <2>2. /\ placed = [f \in Fields |-> placed[f]] /\ placed.room = r /\ placed.stashed = NoStash
        /\ placed.floors = m.floors
        /\ placed.floor = IF r = m.room THEN m.floor ELSE m.floors[r]
        /\ placed.epoch = IF r = m.room THEN m.epoch ELSE 0
    <3>1. CASE r = m.room
      BY ZenonT(60), <1>0, <3>1 DEF Moved, Fields, Manager
    <3>2. CASE r # m.room
      BY ZenonT(60), <1>0, <3>2 DEF Moved, FloorOf, Fields, Manager
    <3> QED BY <3>1, <3>2
  <2> HIDE DEF placed
  <2>3. Manager(placed) /\ (Floored(placed) \/ e > placed.epoch)
    BY <1>0, <2>2 DEF Manager, Floored, AnyRoom, NoStash
  <2>4. Floored(first) /\ StaysOn(placed, first)
    BY <2>2, <2>3, PeersChangedRaises
  <2> HIDE DEF first
  <2>5. s # NoStash => Floored(second) /\ StaysOn(first, second)
    <3>1. s # NoStash => s[2] \in Nat
      BY <1>0 DEF Manager
    <3> QED BY <3>1, <2>4, PeersChangedRaises DEF Floored
  <2> HIDE DEF second
  <2>6. s # NoStash => StaysOn(placed, second)
    BY <2>3, <2>4, <2>5, StaysOnward DEF Floored
  <2>7. Floored(n) /\ StaysOn(placed, n)
    BY <2>1, <2>4, <2>5, <2>6
  <2> QED BY <2>2, <2>7 DEF StaysOn, Raises, n
<1> QED BY <1>1, <1>2

\* Leaving for the lobby leaves the floors.
LEMMA LobbyKeepsFloors ==
  ASSUME NEW m, Floored(m)
  PROVE  LET n == ApplyPlacement(m, me, NoRoom, 0, 0, {}, {}) IN
         Floored(n) /\ n.floors = m.floors /\ n.room = NoRoom
<1> DEFINE n == ApplyPlacement(m, me, NoRoom, 0, 0, {}, {})
<1>1. n = [Moved(m, NoRoom) EXCEPT !.room = NoRoom, !.media = 0, !.secret = 0, !.sealed = {},
                                   !.stashed = NoStash]
  BY DEF ApplyPlacement
<1>2. /\ n = [f \in Fields |-> n[f]] /\ n.room = NoRoom /\ n.stashed = NoStash
      /\ n.floors = m.floors /\ n.floor \in {m.floor, NoEpoch} /\ n.epoch \in {m.epoch, 0}
  <2>1. CASE NoRoom = m.room
    BY ZenonT(60), <1>1, <2>1 DEF Moved, Fields, Floored, Manager
  <2>2. CASE NoRoom # m.room
    <3> DEFINE moved == Moved(m, NoRoom)
    <3>1. /\ moved = [f \in Fields |-> moved[f]] /\ moved.floors = m.floors
          /\ moved.floor = FloorOf(m, NoRoom) /\ moved.epoch = 0
      BY <2>2 DEF Moved, Fields, Floored, Manager
    <3> HIDE DEF moved
    <3>2. FloorOf(m, NoRoom) = NoEpoch
      BY DEF FloorOf
    <3>3. n = [moved EXCEPT !.room = NoRoom, !.media = 0, !.secret = 0, !.sealed = {},
                            !.stashed = NoStash]
      BY <1>1 DEF moved
    <3> HIDE DEF n
    <3> QED BY <3>1, <3>2, <3>3 DEF Fields
  <2> QED BY <2>1, <2>2
<1> HIDE DEF n
<1>3. Floored(n)
  BY <1>2 DEF Floored, Manager, AnyRoom, NoEpoch, NoStash
<1> QED BY <1>2, <1>3 DEF n

\* The inductive invariant: the floors know of every epoch taken part in, and the floor of this
\* stay of every one that was before it.
ReplayInv ==
  /\ Floored(k)
  /\ saved \in [Rooms -> Int] /\ took \in [Rooms -> Int] /\ past \in [Rooms -> Int]
  /\ \A r \in Rooms : took[r] <= k.floors[r]
  /\ k.room # NoRoom => past[k.room] <= k.floor

\* The manager whose requests were sent is as it was.
LEMMA ReadyStays ==
  ASSUME ReplayInv
  PROVE  /\ Floored(Ready) /\ StaysOn(k, Ready)
         /\ Ready.room = k.room /\ Ready.floors = k.floors /\ Ready.floor = k.floor
<1>1. /\ Ready = [f \in Fields |-> Ready[f]] /\ Ready.room = k.room /\ Ready.epoch = k.epoch
      /\ Ready.floors = k.floors /\ Ready.floor = k.floor /\ Ready.stashed = k.stashed
  BY DEF Ready, Fields, ReplayInv, Floored, Manager
<1> QED BY <1>1, StaysFloored DEF ReplayInv, Floored

\* What was taken part in stays below the floors.
LEMMA TookKept ==
  ASSUME ReplayInv, NEW n, Floored(n), Raises(k, n), Becomes(n)
  PROVE  took' \in [Rooms -> Int] /\ \A r \in Rooms : took'[r] <= n.floors[r]
<1>1. n.epoch \in Int /\ n.floors \in [Rooms -> Int] /\ k.floors \in [Rooms -> Int]
  BY DEF ReplayInv, Floored, Manager
<1>2. \A r \in Rooms : took[r] \in Int /\ took[r] <= n.floors[r]
  BY <1>1 DEF ReplayInv, Raises
<1>3. CASE n.room = NoRoom
  BY <1>2, <1>3 DEF Becomes, ReplayInv
<1>4. CASE n.room # NoRoom
  <2>1. n.room \in Rooms /\ n.epoch <= n.floors[n.room]
    BY <1>4 DEF Floored, Manager, AnyRoom
  <2>2. took' = [took EXCEPT ![n.room] = Max2(took[n.room], n.epoch)]
    BY <1>4 DEF Becomes
  <2>3. /\ Max2(took[n.room], n.epoch) \in Int
        /\ Max2(took[n.room], n.epoch) <= n.floors[n.room]
    BY <1>1, <1>2, <2>1 DEF Max2
  <2> QED BY <1>2, <2>1, <2>2, <2>3 DEF ReplayInv
<1> QED BY <1>3, <1>4

\* What goes on with the stay keeps the invariant.
LEMMA StayKeeps ==
  ASSUME ReplayInv, NEW n, Floored(n), StaysOn(Ready, n), Becomes(n), UNCHANGED <<saved, past>>
  PROVE  ReplayInv'
<1>1. StaysOn(k, n) /\ k' = n
  BY ReadyStays DEF StaysOn, Raises, Becomes
<1>2. Raises(k, n)
  BY <1>1 DEF StaysOn
<1> QED BY <1>1, <1>2, TookKept DEF ReplayInv, StaysOn

\* Every action keeps it; those that begin a stay anew ask the floors of what was before.
LEMMA ReplayStep == ReplayInv /\ [Next]_vars => ReplayInv'
<1> SUFFICES ASSUME ReplayInv, [Next]_vars PROVE ReplayInv'
  OBVIOUS
<1> USE ReadyStays
<1>0. NoRoom \notin Rooms /\ Floored(k) /\ Raises(k, k)
  BY KeyConstants DEF ReplayInv, Floored, Manager, Raises
<1>1. ASSUME NEW r \in Rooms, NEW e \in Epochs, NEW P \in PeerLists, Placement(r, e, P)
      PROVE  ReplayInv'
  <2> DEFINE n == ApplyPlacement(Ready, me, r, e, OurMedia, P, {})
  <2>1. /\ Floored(n) /\ Raises(Ready, n) /\ n.room = r
        /\ n.floor = IF r = k.room THEN k.floor ELSE k.floors[r]
    BY PlacementRaises DEF Epochs
  <2>2. Becomes(n) /\ k' = n /\ saved' = n.floors /\ past' = IF r = k.room THEN past ELSE took
    BY <1>1 DEF Placement, Becomes
  <2> HIDE DEF n
  <2>3. Raises(k, n)
    BY <2>1 DEF Raises
  <2> QED BY <1>0, <2>1, <2>2, <2>3, TookKept DEF ReplayInv, Floored, Manager
<1>2. ASSUME NEW r \in Rooms, NEW e \in Epochs, NEW P \in PeerLists, RoomState(r, e, P)
      PROVE  ReplayInv'
  <2> DEFINE n == PeersChanged(Ready, me, r, e, P, {})
  <2>1. Floored(n) /\ StaysOn(Ready, n)
    BY PeersChangedRaises DEF Epochs, Floored
  <2>2. Becomes(n) /\ UNCHANGED <<saved, past>>
    BY <1>2 DEF RoomState
  <2> QED BY <2>1, <2>2, StayKeeps
<1>3. CASE Lobby \/ PutOut
  <2> DEFINE n == ApplyPlacement(Ready, me, NoRoom, 0, 0, {}, {})
  <2>1. Floored(n) /\ n.floors = k.floors /\ n.room = NoRoom
    BY LobbyKeepsFloors
  <2>2. Becomes(n) /\ k' = n /\ saved' \in {saved, n.floors} /\ past' = took
    BY <1>3 DEF Lobby, PutOut, Becomes
  <2> HIDE DEF n
  <2>3. Raises(k, n)
    BY <1>0, <2>1 DEF Raises
  <2> QED BY <2>1, <2>2, <2>3, TookKept DEF ReplayInv, Floored, Manager
<1>4. ASSUME NEW u \in Peers, NEW r \in AnyRoom, Presence(u, r)
      PROVE  ReplayInv'
  <2> DEFINE n == SetPresence(Ready, me, u, r, {})
  <2>1. Floored(n) /\ StaysOn(Ready, n)
    BY PresenceStays DEF Peers
  <2>2. Becomes(n) /\ UNCHANGED <<saved, past>>
    BY <1>4 DEF Presence
  <2> QED BY <2>1, <2>2, StayKeeps
<1>5. ASSUME NEW e \in Epochs, NEW blob \in Sealed, SenderKeyPublished(e, blob)
      PROVE  ReplayInv'
  <2> DEFINE n == SenderKey(Ready, me, [from |-> blob.from, epoch |-> e, blob |-> blob])
  <2>1. Floored(n) /\ StaysOn(Ready, n)
    BY DeliverStays DEF SenderKey
  <2>2. Becomes(n) /\ UNCHANGED <<saved, past>>
    BY <1>5 DEF SenderKeyPublished
  <2> QED BY <2>1, <2>2, StayKeeps
<1>6. ASSUME NEW m \in MediaIds, NEW e \in Epochs, Media(m, e)
      PROVE  ReplayInv'
  <2> DEFINE n == RecvKey(Ready, m, e)
  <2>1. /\ n = [f \in Fields |-> n[f]] /\ n.room = Ready.room /\ n.epoch = Ready.epoch
        /\ n.floors = Ready.floors /\ n.floor = Ready.floor /\ n.stashed = Ready.stashed
    <3> DEFINE found == RecvSecrets(Ready, m, e)
               cache == IF found = {} THEN Ready.cache
                        ELSE {c \in Ready.cache : ~(c.media = m /\ c.epoch = e)}
                             \cup {[media |-> m, epoch |-> e, owner |-> u, secret |-> s] :
                                    u \in Owner(Ready, m), s \in found}
    <3>1. n = [Ready EXCEPT !.cache = cache]
      BY DEF RecvKey
    <3> HIDE DEF n, cache
    <3> QED BY <3>1 DEF Fields, Floored, Manager
  <2>2. Becomes(n) /\ UNCHANGED <<saved, past>>
    BY <1>6 DEF Media
  <2> HIDE DEF n
  <2> QED BY <2>1, <2>2, StaysFloored, StayKeeps DEF Floored
<1>7. CASE RenewKey
  <2> DEFINE n == ReplaceEncryption(Ready, k.enc + 1)
  <2>1. /\ n = [f \in Fields |-> n[f]] /\ n.room = Ready.room /\ n.epoch = Ready.epoch
        /\ n.floors = Ready.floors /\ n.floor = Ready.floor /\ n.stashed = Ready.stashed
    BY DEF ReplaceEncryption, Fields, Floored, Manager
  <2>2. Becomes(n) /\ UNCHANGED <<saved, past>>
    BY <1>7 DEF RenewKey
  <2> HIDE DEF n
  <2> QED BY <2>1, <2>2, StaysFloored, StayKeeps DEF Floored
<1>8. ASSUME NEW spent, NEW stale, NEW g, NEW o, Ticks(spent, stale, g, o)
      PROVE  ReplayInv'
  <2> DEFINE n == Tick(Ready, spent, stale, g, o)
  <2>1. /\ n = [f \in Fields |-> n[f]] /\ n.room = Ready.room /\ n.epoch = Ready.epoch
        /\ n.floors = Ready.floors /\ n.floor = Ready.floor /\ n.stashed = Ready.stashed
    BY ZenonT(60) DEF Tick, Fields, Floored, Manager
  <2>2. Becomes(n) /\ UNCHANGED <<saved, past>>
    BY <1>8 DEF Ticks
  <2> HIDE DEF n
  <2> QED BY <2>1, <2>2, StaysFloored, StayKeeps DEF Floored
<1>9. CASE SaveFloors
  <2>1. Becomes(Ready) /\ k' = Ready /\ saved' = k.floors /\ past' = past
    BY <1>9 DEF SaveFloors, Becomes
  <2>2. Raises(k, Ready)
    BY DEF StaysOn
  <2> QED BY <2>1, <2>2, TookKept DEF ReplayInv, Floored, Manager
<1>10. CASE Reconnect \/ Restart \/ Crash
  <2>1. /\ \/ k' = New(k.floors, k.enc, k.made) /\ took' = took
           \/ k' = New(saved, k.enc, k.made) /\ took' = saved
        /\ past' \in {took, saved} /\ saved' \in {saved, k.floors}
    BY <1>10 DEF Reconnect, Restart, Crash
  <2>2. ASSUME NEW F \in [Rooms -> Int], k' = New(F, k.enc, k.made)
        PROVE  Floored(k') /\ k'.floors = F /\ k'.room = NoRoom
    <3>1. /\ k' = [f \in Fields |-> k'[f]] /\ k'.room = NoRoom /\ k'.epoch = 0
          /\ k'.floors = F /\ k'.floor = NoEpoch /\ k'.stashed = NoStash
      BY <2>2 DEF New, Fields
    <3> QED BY <3>1 DEF Floored, Manager, AnyRoom, NoEpoch, NoStash
  <2>3. k.floors \in [Rooms -> Int] /\ saved \in [Rooms -> Int] /\ took \in [Rooms -> Int]
    BY DEF ReplayInv, Floored, Manager
  <2>4. CASE k' = New(k.floors, k.enc, k.made) /\ took' = took
    BY <2>1, <2>2, <2>3, <2>4 DEF ReplayInv
  <2>5. CASE k' = New(saved, k.enc, k.made) /\ took' = saved
    BY <2>1, <2>2, <2>3, <2>5 DEF ReplayInv
  <2> QED BY <2>1, <2>4, <2>5
<1>11. CASE UNCHANGED vars
  BY <1>11 DEF vars, ReplayInv, Floored, Manager
<1> QED BY <1>1, <1>2, <1>3, <1>4, <1>5, <1>6, <1>7, <1>8, <1>9, <1>10, <1>11 DEF Next

\* At the start nothing was taken part in.
LEMMA ReplayInit == Init => ReplayInv
<1> SUFFICES ASSUME Init PROVE ReplayInv
  OBVIOUS
<1>1. /\ k = [f \in Fields |-> k[f]] /\ k.room = NoRoom /\ k.epoch = 0
      /\ k.floors = NoFloors /\ k.floor = NoEpoch /\ k.stashed = NoStash
  BY DEF Init, New, Fields
<1>2. NoFloors \in [Rooms -> Int] /\ saved = NoFloors /\ took = NoFloors /\ past = NoFloors
  BY DEF NoFloors, NoEpoch, Init
<1>3. Floored(k)
  BY <1>1, <1>2 DEF Floored, Manager, AnyRoom, NoEpoch, NoStash
<1> QED BY <1>1, <1>2, <1>3 DEF ReplayInv

\* No key of an epoch at or before one taken part in during an earlier stay is ever handed to the
\* decoder, whatever a server sends and whenever the client stops: floors.rs and keys.rs
\* below_floor, for every number of rooms, epochs and peers.
THEOREM NeverReplayed == Spec => []NoReplay
<1>1. ReplayInv => NoReplay
  <2> SUFFICES ASSUME ReplayInv, k.room # NoRoom, NEW m \in MediaIds, NEW e \in Epochs,
                      RecvSecrets(k, m, e) # {}
               PROVE  e > past[k.room]
    BY DEF NoReplay
  <2>1. ~BelowFloor(k, e)
    BY DEF RecvSecrets
  <2>2. k.room \in Rooms /\ past[k.room] \in Int /\ k.floor \in Int /\ past[k.room] <= k.floor
    BY DEF ReplayInv, Floored, Manager, AnyRoom
  <2> QED BY <2>1, <2>2 DEF BelowFloor, Epochs
<1> QED BY <1>1, ReplayInit, ReplayStep, PTL DEF Spec

-----------------------------------------------------------------------------
(* The audience of our secret, and the secrets of our peers. *)

\* A record of a key manager.
Complete(n) == n = [f \in Fields |-> n[f]]

\* Between m and n only these fields differ.
OnlyIn(m, n, F) == \A f \in Fields \ F : n[f] = m[f]

\* Those trusted of the peers P, as FollowPeers finds them.
TrustedOf(n, P) == IF Invalid(n, me, P) THEN {} ELSE TrustedPeers(n, me, n.room, P)

\* The received secrets when an epoch starts: those of earlier ones run out.
AgedBy(R, epoch, e) == IF e = epoch THEN R ELSE RetireReceived(R, {r \in R : r.epoch < e})

\* What start_epoch does to a manager, field by field.
LEMMA StartEpochFields ==
  ASSUME NEW m, Complete(m), NEW e
  PROVE  LET n == StartEpoch(m, e) IN
         /\ Complete(n)
         /\ OnlyIn(m, n, {"received", "epoch", "graceOver", "floors", "made", "secret", "sealed"})
         /\ n.made = FreshSecret(m) /\ n.secret = FreshSecret(m) /\ n.sealed = {} /\ n.epoch = e
         /\ n.received = AgedBy(m.received, m.epoch, e)
<1> DEFINE n == StartEpoch(m, e)
           old == {r \in m.received : r.epoch < e}
           moved == IF e = m.epoch THEN m
                    ELSE [m EXCEPT !.received = RetireReceived(@, old), !.epoch = e,
                                   !.graceOver = FALSE, !.floors = RaiseFloor(m, e)]
<1>1. /\ Complete(moved) /\ OnlyIn(m, moved, {"received", "epoch", "graceOver", "floors"})
      /\ moved.epoch = e
      /\ moved.received = IF e = m.epoch THEN m.received ELSE RetireReceived(m.received, old)
  BY DEF Fields, Complete, OnlyIn
<1>2. n = [moved EXCEPT !.made = FreshSecret(m), !.secret = FreshSecret(m), !.sealed = {}]
  BY DEF StartEpoch
<1> HIDE DEF moved
<1>3. /\ Complete(n)
      /\ OnlyIn(m, n, {"received", "epoch", "graceOver", "floors", "made", "secret", "sealed"})
      /\ n.made = FreshSecret(m) /\ n.secret = FreshSecret(m) /\ n.sealed = {} /\ n.epoch = e
      /\ n.received = moved.received
  BY <1>1, <1>2 DEF Fields, Complete, OnlyIn
<1> HIDE DEF n
<1>4. n.received = AgedBy(m.received, m.epoch, e)
  BY <1>1, <1>3 DEF AgedBy
<1> QED BY <1>3, <1>4 DEF n

\* The same of wrap_for_new_peers.
LEMMA WrapFields ==
  ASSUME NEW m, Complete(m)
  PROVE  LET n == WrapForNewPeers(m, me)
             new == {p \in m.peers : <<p.user, p.enc>> \notin m.sealed}
             refused == {p \in new : p.enc \in Refused} IN
         /\ Complete(n) /\ OnlyIn(m, n, {"unwrappable", "peers", "sealed", "out"})
         /\ n.unwrappable = Unwrappable(m, refused) /\ n.peers = m.peers \ refused
         /\ n.sealed = m.sealed \cup Sealable(new \ refused)
         /\ new = {} => n.out = m.out
<1> DEFINE new == {p \in m.peers : <<p.user, p.enc>> \notin m.sealed}
           refused == {p \in new : p.enc \in Refused}
           wrapped == new \ refused
           blob(p) == [by |-> m.enc, to |-> p.enc, room |-> m.room, epoch |-> m.epoch,
                       from |-> me, user |-> p.user, secret |-> m.secret]
           out == IF wrapped = {} THEN m.out
                  ELSE Append(m.out, [epoch |-> m.epoch, blobs |-> {blob(p) : p \in wrapped}])
           un == Unwrappable(m, refused)
           n == WrapForNewPeers(m, me)
<1>1. n = [m EXCEPT !.unwrappable = un, !.peers = m.peers \ refused,
                    !.sealed = m.sealed \cup Sealable(wrapped), !.out = out]
  BY DEF WrapForNewPeers, Complete, Fields
<1>2. new = {} => out = m.out
  OBVIOUS
<1> HIDE DEF n, out, un
<1>3. /\ Complete(n) /\ OnlyIn(m, n, {"unwrappable", "peers", "sealed", "out"})
      /\ n.unwrappable = un /\ n.peers = m.peers \ refused
      /\ n.sealed = m.sealed \cup Sealable(wrapped)
      /\ n.out = out
  BY <1>1 DEF Complete, OnlyIn, Fields
<1> QED BY <1>2, <1>3 DEF n, un

\* The same of sender_key_at: some of the messages are opened, some are held.
LEMMA DeliverFields ==
  ASSUME NEW m, Complete(m), NEW S
  PROVE  LET n == Deliver(m, me, S) IN
         /\ Complete(n) /\ OnlyIn(m, n, {"early", "received", "cache"})
         /\ \E opened \in SUBSET S, held \in SUBSET S : \E older :
              /\ \A x \in opened : x.from \in Named(m.peers) /\ x.epoch <= m.epoch
              /\ n.early = {y \in m.early : \A x \in held : ~(x.from = y.from /\ x.epoch = y.epoch)}
                           \cup held
              /\ n.received =
                   RetireReceived({r \in m.received :
                                     \A x \in opened : ~(x.from = r.from /\ x.epoch = r.epoch)}, older)
                   \cup {[from |-> x.from, epoch |-> x.epoch, secret |-> x.blob.secret,
                          id |-> IdOf(m, x.from), retired |-> x.epoch < m.epoch] : x \in opened}
              /\ n.cache = CacheWithout(m.cache, opened)
<1> DEFINE current == {x \in S : ~BelowFloor(m, x.epoch)}
           usable == {x \in current : /\ m.room # NoRoom /\ x.from \in Named(m.peers)
                                      /\ x.epoch <= m.epoch}
           opened == {x \in usable : (x.epoch = m.epoch \/ ~m.graceOver) /\ Opens(m, me, x)}
           same(a, b) == a.from = b.from /\ a.epoch = b.epoch
           held == {x \in current \ usable :
                      Cardinality(m.early) < MaxEarly \/ \E y \in m.early : same(x, y)}
           older == {r \in m.received : \E x \in opened : r.from = x.from /\ r.epoch < x.epoch}
           early == {y \in m.early : \A x \in held : ~same(x, y)} \cup held
           received ==
             RetireReceived({r \in m.received : \A x \in opened : ~same(x, r)}, older)
             \cup {[from |-> x.from, epoch |-> x.epoch, secret |-> x.blob.secret,
                    id |-> IdOf(m, x.from), retired |-> x.epoch < m.epoch] : x \in opened}
           cache == CacheWithout(m.cache, opened)
           n == Deliver(m, me, S)
<1>1. n = [m EXCEPT !.early = early, !.received = received, !.cache = cache]
  BY ZenonT(60) DEF Deliver, Complete, Fields
<1>2. /\ opened \in SUBSET S /\ held \in SUBSET S
      /\ \A x \in opened : x.from \in Named(m.peers) /\ x.epoch <= m.epoch
  OBVIOUS
<1>3. \E o \in SUBSET S, h \in SUBSET S : \E old :
        /\ \A x \in o : x.from \in Named(m.peers) /\ x.epoch <= m.epoch
        /\ early = {y \in m.early : \A x \in h : ~(x.from = y.from /\ x.epoch = y.epoch)} \cup h
        /\ received = RetireReceived({r \in m.received :
                                        \A x \in o : ~(x.from = r.from /\ x.epoch = r.epoch)}, old)
                      \cup {[from |-> x.from, epoch |-> x.epoch, secret |-> x.blob.secret,
                             id |-> IdOf(m, x.from), retired |-> x.epoch < m.epoch] : x \in o}
        /\ cache = CacheWithout(m.cache, o)
  <2> HIDE DEF opened, held, older
  <2> USE <1>2
  <2> WITNESS opened \in SUBSET S, held \in SUBSET S
  <2> WITNESS older
  <2> QED OBVIOUS
<1> HIDE DEF n, early, received, cache
<1>4. /\ Complete(n) /\ OnlyIn(m, n, {"early", "received", "cache"})
      /\ n.early = early /\ n.received = received /\ n.cache = cache
  BY <1>1 DEF Complete, OnlyIn, Fields
<1> QED BY <1>3, <1>4 DEF n

-----------------------------------------------------------------------------
\* A received secret.
Shape(r) == r = [f \in {"from", "epoch", "secret", "id", "retired"} |-> r[f]]

\* One of each sender and epoch.
OneEach(R) == \A r, s \in R : r.from = s.from /\ r.epoch = s.epoch => r = s

\* Two secrets that differ at most in running out.
SameSecret(r, s) == r.from = s.from /\ r.epoch = s.epoch /\ r.secret = s.secret /\ r.id = s.id

\* There is one secret of each sender and epoch, and a key that was derived is derived from one
\* there is.
Tidy(n) ==
  /\ (\A r \in n.received : Shape(r)) /\ OneEach(n.received)
  /\ (\A x \in n.early : x.epoch \in Nat) /\ OneEach(n.early)
  /\ \A c \in n.cache :
       \E r \in n.received : r.from = c.owner /\ r.epoch = c.epoch /\ r.secret = c.secret

\* A user whose signed key HPKE refuses has no other that it accepts.
RefusedStay ==
  \A p, q \in UNION PeerLists :
    p.user = q.user /\ p.ok /\ q.ok /\ p.enc \in Refused => q.enc \in Refused

\* What does not run out was sent in our epoch, by one we trust.
Lasts(n) ==
  \A r \in n.received : ~r.retired =>
    r.epoch = n.epoch /\ (RefusedStay => \E p \in n.peers : p.user = r.from /\ p.id = r.id)

\* A secret that starts to run out is otherwise as it was.
LEMMA RetireKeeps ==
  ASSUME NEW R, \A r \in R : Shape(r), NEW old
  PROVE  /\ \A q \in RetireReceived(R, old) :
              /\ Shape(q)
              /\ \E r \in R : SameSecret(q, r) /\ (~q.retired => ~r.retired /\ r \notin old)
         /\ \A r \in R : \E q \in RetireReceived(R, old) : SameSecret(q, r)
         /\ OneEach(R) => OneEach(RetireReceived(R, old))
<1> DEFINE f(r) == IF r \in old THEN Retired(r) ELSE r
<1>1. \A r \in R : /\ Shape(f(r)) /\ SameSecret(f(r), r)
                   /\ ~f(r).retired => ~r.retired /\ r \notin old
  <2> SUFFICES ASSUME NEW r \in R
               PROVE  /\ Shape(f(r)) /\ SameSecret(f(r), r)
                      /\ ~f(r).retired => ~r.retired /\ r \notin old
    OBVIOUS
  <2>1. Shape(Retired(r)) /\ SameSecret(Retired(r), r) /\ Retired(r).retired
    BY DEF Shape, SameSecret, Retired
  <2> QED BY <2>1 DEF SameSecret
<1>2. RetireReceived(R, old) = {f(r) : r \in R}
  BY DEF RetireReceived
<1> HIDE DEF f
<1>3. OneEach(R) => OneEach({f(r) : r \in R})
  BY <1>1 DEF OneEach, SameSecret
<1> QED BY <1>1, <1>2, <1>3

\* Delivering leaves one secret of each sender and epoch, and no key of one that was replaced.
LEMMA DeliverTidy ==
  ASSUME NEW m, Complete(m), m.epoch \in Nat, Tidy(m), Lasts(m),
         NEW S, OneEach(S), \A x \in S : x.epoch \in Nat
  PROVE  LET n == Deliver(m, me, S) IN Tidy(n) /\ Lasts(n)
<1> DEFINE n == Deliver(m, me, S)
<1>0. OnlyIn(m, n, {"early", "received", "cache"})
  BY DeliverFields
<1>1. PICK opened \in SUBSET S, held \in SUBSET S : \E older :
        /\ \A x \in opened : x.from \in Named(m.peers) /\ x.epoch <= m.epoch
        /\ n.early = {y \in m.early : \A x \in held : ~(x.from = y.from /\ x.epoch = y.epoch)}
                     \cup held
        /\ n.received =
             RetireReceived({r \in m.received :
                               \A x \in opened : ~(x.from = r.from /\ x.epoch = r.epoch)}, older)
             \cup {[from |-> x.from, epoch |-> x.epoch, secret |-> x.blob.secret,
                    id |-> IdOf(m, x.from), retired |-> x.epoch < m.epoch] : x \in opened}
        /\ n.cache = CacheWithout(m.cache, opened)
  BY DeliverFields
<1>2. PICK older :
        /\ \A x \in opened : x.from \in Named(m.peers) /\ x.epoch <= m.epoch
        /\ n.early = {y \in m.early : \A x \in held : ~(x.from = y.from /\ x.epoch = y.epoch)}
                     \cup held
        /\ n.received =
             RetireReceived({r \in m.received :
                               \A x \in opened : ~(x.from = r.from /\ x.epoch = r.epoch)}, older)
             \cup {[from |-> x.from, epoch |-> x.epoch, secret |-> x.blob.secret,
                    id |-> IdOf(m, x.from), retired |-> x.epoch < m.epoch] : x \in opened}
        /\ n.cache = CacheWithout(m.cache, opened)
  BY <1>1
<1> HIDE DEF n
<1> DEFINE left == {r \in m.received : \A x \in opened : ~(x.from = r.from /\ x.epoch = r.epoch)}
           stored(x) == [from |-> x.from, epoch |-> x.epoch, secret |-> x.blob.secret,
                         id |-> IdOf(m, x.from), retired |-> x.epoch < m.epoch]
           aged == RetireReceived(left, older)
<1>3. (\A r \in left : Shape(r)) /\ OneEach(left)
  BY DEF Tidy, OneEach
<1>4. /\ \A q \in aged : /\ Shape(q)
                         /\ \E r \in left : SameSecret(q, r) /\ (~q.retired => ~r.retired)
      /\ \A r \in left : \E q \in aged : SameSecret(q, r)
      /\ OneEach(aged)
  <2> HIDE DEF left
  <2> QED BY <1>3, RetireKeeps
<1>5. n.received = aged \cup {stored(x) : x \in opened}
  BY <1>2
<1>6. \A x \in opened : Shape(stored(x)) /\ stored(x).from = x.from /\ stored(x).epoch = x.epoch
  BY DEF Shape
<1> HIDE DEF aged
<1>7. (\A r \in n.received : Shape(r)) /\ OneEach(n.received)
  <2>1. \A q \in aged : \A x \in opened : ~(x.from = q.from /\ x.epoch = q.epoch)
    BY <1>4 DEF SameSecret
  <2>2. OneEach({stored(x) : x \in opened})
    BY <1>6 DEF OneEach
  <2> HIDE DEF stored
  <2> QED BY <1>4, <1>5, <1>6, <2>1, <2>2 DEF OneEach
<1>8. (\A x \in n.early : x.epoch \in Nat) /\ OneEach(n.early)
  BY <1>2 DEF Tidy, OneEach
<1>9. ASSUME NEW c \in n.cache
      PROVE  \E r \in n.received : r.from = c.owner /\ r.epoch = c.epoch /\ r.secret = c.secret
  <2>1. c \in m.cache /\ \A x \in opened : ~(c.owner = x.from /\ c.epoch = x.epoch)
    BY <1>2 DEF CacheWithout
  <2>2. PICK r \in m.received : r.from = c.owner /\ r.epoch = c.epoch /\ r.secret = c.secret
    BY <2>1 DEF Tidy
  <2>3. r \in left
    BY <2>1, <2>2
  <2> QED BY <2>2, <2>3, <1>4, <1>5 DEF SameSecret
<1>10. Lasts(n)
  <2>0. n.epoch = m.epoch /\ n.peers = m.peers
    BY <1>0 DEF OnlyIn, Fields
  <2>1. ASSUME NEW q \in aged, ~q.retired
        PROVE  q.epoch = n.epoch /\ (RefusedStay => \E p \in n.peers : p.user = q.from /\ p.id = q.id)
    BY <2>0, <2>1, <1>4 DEF Lasts, SameSecret
  <2>2. ASSUME NEW x \in opened, ~stored(x).retired
        PROVE  /\ stored(x).epoch = n.epoch
               /\ \E p \in n.peers : p.user = stored(x).from /\ p.id = stored(x).id
    <3>1. x.epoch = m.epoch
      <4>1. x \in S /\ x.epoch \in Nat /\ x.epoch <= m.epoch /\ ~(x.epoch < m.epoch)
        BY <2>2, <1>2
      <4> QED BY <4>1
    <3>2. \E p \in m.peers : p.user = x.from
      BY <1>2 DEF Named
    <3>3. (CHOOSE p \in m.peers : p.user = x.from) \in m.peers
          /\ (CHOOSE p \in m.peers : p.user = x.from).user = x.from
      BY <3>2
    <3> QED BY <2>0, <3>1, <3>3 DEF IdOf
  <2> HIDE DEF stored
  <2> QED BY <1>5, <2>1, <2>2 DEF Lasts
<1> QED BY <1>7, <1>8, <1>9, <1>10 DEF Tidy, n

-----------------------------------------------------------------------------
\* Our secret is the one made last, or there is none; whoever is trusted was listed, signed, has a
\* key that HPKE accepts, and goes by a name and a track of their own.
Sealing(n) ==
  /\ Complete(n) /\ n.present = [u \in Users |-> n.present[u]]
  /\ n.made \in 0..NumSecrets /\ n.secret \in {0, n.made}
  /\ n.secret # 0 => n.sealed = Sealable(n.peers)
  /\ \A p \in n.peers : p \in UNION PeerLists /\ p.ok /\ p.enc \notin Refused
  /\ \A p, q \in n.peers : p.user = q.user \/ p.media = q.media => p = q

\* In a room, we have a secret, and trust those of the last room state whom we may.
Follows(n) == n.secret # 0 /\ n.peers = TrustedOf(n, n.roomPeers)

\* From m to n the secret is a new one, or nobody is given anything.
Renewed(m, n) ==
  \/ n.secret = FreshSecret(m) /\ n.made = FreshSecret(m)
  \/ n.secret = m.secret /\ n.made = m.made /\ n.sealed = m.sealed /\ n.out = m.out

\* A secret that is made is another than the one before.
LEMMA FreshDiffers ==
  ASSUME NEW m, m.made \in 0..NumSecrets, m.secret \in {0, m.made}
  PROVE  FreshSecret(m) \in 1..NumSecrets /\ FreshSecret(m) # m.secret /\ FreshSecret(m) # 0
BY KeyConstants, AnyServerConstants DEF FreshSecret

\* What a room state P of epoch e does to a manager, in the steps of FollowPeers: the refusals that
\* go on, those it makes us trust, whether they call for a new secret, whom our secret is sealed to
\* before it is wrapped, who lacks it, whom HPKE refuses, and the received secrets.
ListedOf(m, P) ==
  IF Invalid(m, me, P) THEN m.unwrappable ELSE {x \in m.unwrappable : x[1] \in Named(P)}
TrustedBy(m, P) == TrustedOf([m EXCEPT !.unwrappable = ListedOf(m, P)], P)
NeedsBy(m, e, P) == NeedsSecret(m, e, TrustedBy(m, P))
SealedBefore(m, e, P) == IF NeedsBy(m, e, P) THEN {} ELSE m.sealed
Lacking(m, e, P) == {p \in TrustedBy(m, P) : <<p.user, p.enc>> \notin SealedBefore(m, e, P)}
RefusedNow(m, e, P) == {p \in Lacking(m, e, P) : p.enc \in Refused}
GoneBy(m, P) == {r \in m.received : r.from \in Departed(m, TrustedBy(m, P))}
LeftBy(m, e, P) ==
  IF NeedsBy(m, e, P) THEN AgedBy(RetireReceived(m.received, GoneBy(m, P)), m.epoch, e)
  ELSE RetireReceived(m.received, GoneBy(m, P))

\* From m to n, a room state is followed.
FollowedBy(m, n, e, P, stale) ==
  /\ Complete(n)
  /\ OnlyIn(m, n, {"received", "cache", "early", "epoch", "graceOver", "floors", "made",
                   "secret", "sealed", "unwrappable", "peers", "roomPeers", "out"})
  /\ n.epoch = IF NeedsBy(m, e, P) THEN e ELSE m.epoch
  /\ n.roomPeers = P /\ n.peers = TrustedBy(m, P) \ RefusedNow(m, e, P)
  /\ n.unwrappable = {x \in ListedOf(m, P) : x[1] \notin Named(RefusedNow(m, e, P))}
                     \cup Sealable(RefusedNow(m, e, P))
  /\ n.sealed = SealedBefore(m, e, P) \cup Sealable(Lacking(m, e, P) \ RefusedNow(m, e, P))
  /\ n.made = IF NeedsBy(m, e, P) THEN FreshSecret(m) ELSE m.made
  /\ n.secret = IF NeedsBy(m, e, P) THEN FreshSecret(m) ELSE m.secret
  /\ Lacking(m, e, P) = {} => n.out = m.out
  /\ \E waiting :
       /\ n = Deliver(waiting, me, m.early \ stale)
       /\ Complete(waiting) /\ waiting.early = {} /\ waiting.received = LeftBy(m, e, P)
       /\ waiting.cache = m.cache /\ waiting.peers = n.peers /\ waiting.epoch = n.epoch

\* A room state that is followed, field by field.
LEMMA FollowFields ==
  ASSUME NEW m, Complete(m), NEW e, NEW P, NEW stale
  PROVE  FollowedBy(m, FollowPeers(m, me, e, P, stale), e, P, stale)
<1> DEFINE invalid == Invalid(m, me, P)
           listed == ListedOf(m, P)
           checked == [m EXCEPT !.unwrappable = listed]
           trusted == TrustedBy(m, P)
           departed == GoneBy(m, P)
           gone == RetireReceived(m.received, departed)
           followed == [checked EXCEPT !.roomPeers = P, !.peers = trusted, !.received = gone]
           needs == NeedsBy(m, e, P)
           received == LeftBy(m, e, P)
           keyed == IF needs THEN StartEpoch(followed, e) ELSE followed
           sealed == SealedBefore(m, e, P)
           new == Lacking(m, e, P)
           refused == RefusedNow(m, e, P)
           wrapped == WrapForNewPeers(keyed, me)
           waiting == [wrapped EXCEPT !.early = {}]
           n == Deliver(waiting, me, m.early \ stale)
<1>1. Complete(checked) /\ OnlyIn(m, checked, {"unwrappable"}) /\ checked.unwrappable = listed
  BY DEF Complete, OnlyIn, Fields
<1> HIDE DEF listed
<1>2. (IF invalid THEN {} ELSE TrustedPeers(checked, me, m.room, P)) = trusted
  <2>1. checked.room = m.room /\ checked.media = m.media
    BY <1>1 DEF OnlyIn, Fields
  <2>2. Invalid(checked, me, P) = invalid
    BY <2>1 DEF Invalid, ClashingTracks
  <2> QED BY <2>1, <2>2 DEF TrustedOf, TrustedBy, listed
<1>3. FollowPeers(m, me, e, P, stale) = n
  <2> DEFINE t == IF invalid THEN {} ELSE TrustedPeers(checked, me, m.room, P)
             g == {r \in m.received : r.from \in Departed(m, t)}
             f == [checked EXCEPT !.roomPeers = P, !.peers = t, !.received = RetireReceived(@, g)]
  <2>0. checked.received = m.received
    BY <1>1 DEF OnlyIn, Fields
  <2> HIDE DEF checked
  <2>1. FollowPeers(m, me, e, P, stale)
          = Deliver([WrapForNewPeers(IF NeedsSecret(m, e, t) THEN StartEpoch(f, e) ELSE f, me)
                       EXCEPT !.early = {}], me, m.early \ stale)
    BY DEF FollowPeers, checked, listed, ListedOf
  <2>2. t = trusted /\ g = departed
    BY <1>2 DEF GoneBy
  <2>3. f = followed
    BY <2>0, <2>2, <1>1 DEF Complete, Fields
  <2> QED BY <2>1, <2>2, <2>3 DEF NeedsBy
<1> HIDE DEF checked, trusted, gone
<1>4. /\ Complete(followed)
      /\ OnlyIn(m, followed, {"unwrappable", "roomPeers", "peers", "received"})
      /\ followed.unwrappable = listed /\ followed.roomPeers = P /\ followed.peers = trusted
      /\ followed.received = gone
  BY <1>1 DEF Complete, OnlyIn, Fields
<1> HIDE DEF followed, needs
<1>5. /\ Complete(keyed)
      /\ OnlyIn(m, keyed, {"received", "epoch", "graceOver", "floors", "made",
                           "secret", "sealed", "unwrappable", "peers", "roomPeers"})
      /\ keyed.epoch = IF needs THEN e ELSE m.epoch
      /\ keyed.roomPeers = P /\ keyed.peers = trusted /\ keyed.unwrappable = listed
      /\ keyed.sealed = sealed
      /\ keyed.made = IF needs THEN FreshSecret(m) ELSE m.made
      /\ keyed.secret = IF needs THEN FreshSecret(m) ELSE m.secret
      /\ keyed.received = received
  <2>1. CASE needs
    <3> DEFINE l == StartEpoch(followed, e)
    <3>1. /\ Complete(l)
          /\ OnlyIn(followed, l, {"received", "epoch", "graceOver", "floors", "made", "secret", "sealed"})
          /\ l.made = FreshSecret(followed) /\ l.secret = FreshSecret(followed) /\ l.sealed = {}
          /\ l.epoch = e
          /\ l.received = AgedBy(followed.received, followed.epoch, e)
      BY <1>4, StartEpochFields
    <3>2. keyed = l
      BY <2>1
    <3>3. FreshSecret(followed) = FreshSecret(m) /\ followed.epoch = m.epoch
      BY <1>4 DEF OnlyIn, Fields, FreshSecret
    <3> HIDE DEF l, keyed
    <3>4. keyed.received = received
      BY <3>1, <3>2, <3>3, <1>4, <2>1 DEF LeftBy, gone, needs
    <3>5. keyed.sealed = sealed
      BY <3>1, <3>2, <2>1 DEF SealedBefore, needs
    <3> HIDE DEF received, sealed
    <3> QED BY <3>1, <3>2, <3>3, <3>4, <3>5, <1>4, <2>1 DEF OnlyIn, Fields
  <2>2. CASE ~needs
    <3>1. received = gone /\ sealed = m.sealed /\ keyed = followed
      BY <2>2 DEF LeftBy, gone, needs, SealedBefore
    <3> HIDE DEF received, sealed, keyed
    <3> QED BY <3>1, <1>4, <2>2 DEF OnlyIn, Fields
  <2> QED BY <2>1, <2>2
<1> HIDE DEF keyed, received
<1>6. /\ Complete(wrapped) /\ OnlyIn(keyed, wrapped, {"unwrappable", "peers", "sealed", "out"})
      /\ wrapped.unwrappable = Unwrappable(keyed, refused) /\ wrapped.peers = trusted \ refused
      /\ wrapped.sealed = sealed \cup Sealable(new \ refused)
      /\ new = {} => wrapped.out = keyed.out
  <2>1. /\ new = {p \in keyed.peers : <<p.user, p.enc>> \notin keyed.sealed}
        /\ refused = {p \in new : p.enc \in Refused}
    BY <1>5 DEF Lacking, RefusedNow, trusted, sealed
  <2> HIDE DEF new, refused
  <2> QED BY <2>1, <1>5, WrapFields
<1> HIDE DEF wrapped, sealed
<1>7. /\ Complete(waiting) /\ OnlyIn(wrapped, waiting, {"early"}) /\ waiting.early = {}
  BY <1>6 DEF Complete, OnlyIn, Fields
<1> HIDE DEF waiting
<1>8. Complete(n) /\ OnlyIn(waiting, n, {"early", "received", "cache"})
  BY <1>7, DeliverFields
<1>9. n = Deliver(waiting, me, m.early \ stale)
  OBVIOUS
<1> HIDE DEF n, refused, new
<1>10. /\ OnlyIn(m, n, {"received", "cache", "early", "epoch", "graceOver", "floors", "made",
                        "secret", "sealed", "unwrappable", "peers", "roomPeers", "out"})
       /\ waiting.cache = m.cache /\ waiting.received = received
  BY <1>5, <1>6, <1>7, <1>8 DEF OnlyIn, Fields
<1>11. /\ n.epoch = keyed.epoch /\ n.roomPeers = keyed.roomPeers /\ n.peers = wrapped.peers
       /\ n.unwrappable = wrapped.unwrappable /\ n.sealed = wrapped.sealed
       /\ n.made = keyed.made /\ n.secret = keyed.secret /\ n.out = wrapped.out
       /\ waiting.peers = n.peers /\ waiting.epoch = n.epoch
       /\ keyed.out = m.out
  BY <1>5, <1>6, <1>7, <1>8 DEF OnlyIn, Fields
<1>12. n.unwrappable = {x \in listed : x[1] \notin Named(refused)} \cup Sealable(refused)
  BY <1>5, <1>6, <1>11 DEF Unwrappable
<1>13. /\ n.epoch = IF needs THEN e ELSE m.epoch
       /\ n.roomPeers = P /\ n.peers = trusted \ refused
       /\ n.sealed = sealed \cup Sealable(new \ refused)
       /\ n.made = IF needs THEN FreshSecret(m) ELSE m.made
       /\ n.secret = IF needs THEN FreshSecret(m) ELSE m.secret
       /\ new = {} => n.out = m.out
  BY <1>5, <1>6, <1>11
<1> QED BY <1>3, <1>7, <1>8, <1>9, <1>10, <1>11, <1>12, <1>13
        DEF FollowedBy, listed, trusted, needs, sealed, new, refused, received

\* What was trusted under the keys refused before is trusted under those refused after: a list that
\* is followed names a user once, so a refusal tells of one peer only.
LEMMA TrustSettles ==
  ASSUME NEW m, NEW n, NEW P, NEW listed, NEW refused \in SUBSET TrustedPeers(m, me, m.room, P),
         n.room = m.room, n.media = m.media, n.present = m.present, ~Invalid(m, me, P),
         m.unwrappable = listed,
         n.unwrappable = {x \in listed : x[1] \notin Named(refused)} \cup Sealable(refused)
  PROVE  TrustedPeers(m, me, m.room, P) \ refused = TrustedPeers(n, me, n.room, P)
<1>1. \A p, q \in P : p.user # me /\ q.user # me /\ p.user = q.user => p = q
  BY DEF Invalid, ClashingTracks
<1>2. ASSUME NEW p \in P, p.user # me
      PROVE  <<p.user, p.enc>> \notin n.unwrappable
               <=> p \notin refused /\ <<p.user, p.enc>> \notin listed
  <2>1. p \in refused => <<p.user, p.enc>> \in Sealable(refused)
    BY DEF Sealable
  <2>2. \A q \in refused : q \in P /\ q.user # me
    BY DEF TrustedPeers
  <2>3. p.user \in Named(refused) => p \in refused
    BY <1>1, <1>2, <2>2 DEF Named
  <2>4. <<p.user, p.enc>> \in Sealable(refused) => p \in refused
    BY <1>1, <1>2, <2>2 DEF Sealable
  <2> QED BY <2>1, <2>3, <2>4
<1> QED BY <1>2 DEF TrustedPeers

\* A room state that is followed seals our secret to those it makes us trust, and what was sent by
\* those it does not runs out.
LEMMA FollowKeeps ==
  ASSUME NEW m, Sealing(m), Tidy(m), Lasts(m), m.epoch \in Nat,
         NEW e \in Nat, e >= m.epoch, NEW P \in SUBSET UNION PeerLists, NEW stale
  PROVE  LET n == FollowPeers(m, me, e, P, stale) IN
         /\ Sealing(n) /\ Tidy(n) /\ Lasts(n) /\ Follows(n) /\ Renewed(m, n) /\ n.epoch = e
         /\ n.room = m.room /\ n.stashed = m.stashed /\ n.roomPeers = P
<1> DEFINE n == FollowPeers(m, me, e, P, stale)
           listed == ListedOf(m, P)
           checked == [m EXCEPT !.unwrappable = listed]
           trusted == TrustedBy(m, P)
           needs == NeedsBy(m, e, P)
           sealed == SealedBefore(m, e, P)
           new == Lacking(m, e, P)
           refused == RefusedNow(m, e, P)
           gone == RetireReceived(m.received, GoneBy(m, P))
           received == LeftBy(m, e, P)
<1>0. Complete(m)
  BY DEF Sealing
<1>a. FollowedBy(m, n, e, P, stale)
  BY <1>0, FollowFields
<1> HIDE DEF n
<1>1. /\ Complete(n)
      /\ OnlyIn(m, n, {"received", "cache", "early", "epoch", "graceOver", "floors", "made",
                       "secret", "sealed", "unwrappable", "peers", "roomPeers", "out"})
      /\ n.epoch = IF needs THEN e ELSE m.epoch
      /\ n.roomPeers = P /\ n.peers = trusted \ refused
      /\ n.unwrappable = {x \in listed : x[1] \notin Named(refused)} \cup Sealable(refused)
      /\ n.sealed = sealed \cup Sealable(new \ refused)
      /\ n.made = IF needs THEN FreshSecret(m) ELSE m.made
      /\ n.secret = IF needs THEN FreshSecret(m) ELSE m.secret
      /\ new = {} => n.out = m.out
  BY <1>a DEF FollowedBy
<1>2. PICK waiting :
        /\ n = Deliver(waiting, me, m.early \ stale)
        /\ Complete(waiting) /\ waiting.early = {} /\ waiting.received = received
        /\ waiting.cache = m.cache /\ waiting.peers = n.peers /\ waiting.epoch = n.epoch
  BY <1>a DEF FollowedBy
<1>3. /\ checked.unwrappable = listed /\ checked.room = m.room /\ checked.media = m.media
      /\ checked.present = m.present
  BY <1>0 DEF Complete, Fields
<1>4. /\ n.room = m.room /\ n.media = m.media /\ n.present = m.present /\ n.stashed = m.stashed
  BY <1>1 DEF OnlyIn, Fields
<1> HIDE DEF checked
<1>5. /\ Invalid(m, me, P) => trusted = {}
      /\ Invalid(checked, me, P) = Invalid(m, me, P) /\ Invalid(n, me, P) = Invalid(m, me, P)
      /\ ~Invalid(m, me, P) => trusted = TrustedPeers(checked, me, checked.room, P)
  BY <1>3, <1>4 DEF TrustedBy, TrustedOf, Invalid, ClashingTracks, checked
<1>6. \A p \in trusted : p \in P /\ p.user # me /\ p.ok
  BY <1>5 DEF TrustedPeers
<1>7. \A p, q \in trusted : p.user = q.user \/ p.media = q.media => p = q
  BY <1>5, <1>6 DEF Invalid, ClashingTracks
<1>8. n.peers = TrustedOf(n, n.roomPeers)
  <2>1. CASE Invalid(m, me, P)
    BY <2>1, <1>1, <1>5 DEF TrustedOf
  <2>2. CASE ~Invalid(m, me, P)
    <3> HIDE DEF listed
    <3>1. refused \in SUBSET TrustedPeers(checked, me, checked.room, P)
      BY <2>2, <1>5 DEF RefusedNow, Lacking
    <3> HIDE DEF refused
    <3>2. TrustedPeers(checked, me, checked.room, P) \ refused = TrustedPeers(n, me, n.room, P)
      BY <3>1, <2>2, <1>1, <1>3, <1>4, <1>5, TrustSettles
    <3> QED BY <3>2, <2>2, <1>1, <1>5 DEF TrustedOf
  <2> QED BY <2>1, <2>2
<1> HIDE DEF trusted, listed
<1>9. /\ ~needs => e = m.epoch /\ m.secret # 0 /\ Sealable(trusted) = m.sealed
      /\ ~needs => new = {}
      /\ n.sealed = Sealable(n.peers)
      /\ \A p \in n.peers : p.enc \notin Refused
  <2>1. CASE needs
    BY <2>1, <1>1 DEF Lacking, RefusedNow, SealedBefore, trusted
  <2>2. CASE ~needs
    <3>1. e = m.epoch /\ m.secret # 0 /\ Sealable(trusted) = m.sealed
      BY <2>2 DEF NeedsSecret, NeedsBy, trusted
    <3>2. new = {}
      BY <2>2, <3>1 DEF Sealable, Lacking, SealedBefore, trusted
    <3>3. \A p \in trusted : p.enc \notin Refused
      <4> SUFFICES ASSUME NEW p \in trusted PROVE p.enc \notin Refused
        OBVIOUS
      <4>1. <<p.user, p.enc>> \in Sealable(m.peers)
        BY <3>1 DEF Sealing, Sealable
      <4>2. PICK q \in m.peers : <<p.user, p.enc>> = <<q.user, q.enc>>
        BY <4>1 DEF Sealable
      <4> QED BY <4>2 DEF Sealing
    <3>4. n.peers = trusted /\ n.sealed = m.sealed
      BY <2>2, <3>2, <1>1 DEF Sealable, RefusedNow, SealedBefore
    <3> QED BY <2>2, <3>1, <3>2, <3>3, <3>4
  <2> QED BY <2>1, <2>2
<1>10. n.epoch = e /\ Renewed(m, n) /\ Follows(n)
  <2>1. FreshSecret(m) # 0
    BY FreshDiffers DEF Sealing
  <2>2. ~needs => n.sealed = m.sealed /\ n.out = m.out
    BY <1>1, <1>9 DEF Sealable, SealedBefore
  <2> HIDE DEF needs
  <2> QED BY <2>1, <2>2, <1>1, <1>8, <1>9 DEF Renewed, Follows
<1>11. Sealing(n)
  <2>1. n.made \in 0..NumSecrets /\ n.secret \in {0, n.made}
    BY <1>1, FreshDiffers DEF Sealing
  <2>2. \A p \in n.peers : p \in trusted
    BY <1>1
  <2> QED BY <2>1, <2>2, <1>1, <1>4, <1>6, <1>7, <1>9 DEF Sealing
<1>12. Tidy(waiting) /\ Lasts(waiting)
  <2>1. (\A r \in m.received : Shape(r)) /\ OneEach(m.received)
    BY DEF Tidy
  <2>2. /\ \A q \in gone : /\ Shape(q)
                          /\ \E r \in m.received :
                               /\ SameSecret(q, r)
                               /\ ~q.retired => ~r.retired /\ r.from \notin Departed(m, trusted)
        /\ \A r \in m.received : \E q \in gone : SameSecret(q, r)
        /\ OneEach(gone)
    <3> DEFINE old == GoneBy(m, P)
    <3> HIDE DEF old
    <3>1. /\ \A q \in gone : /\ Shape(q)
                            /\ \E r \in m.received :
                                 SameSecret(q, r) /\ (~q.retired => ~r.retired /\ r \notin old)
          /\ \A r \in m.received : \E q \in gone : SameSecret(q, r)
          /\ OneEach(gone)
      BY <2>1, RetireKeeps DEF old
    <3>2. \A r \in m.received : r \notin old => r.from \notin Departed(m, trusted)
      BY DEF old, GoneBy, trusted
    <3> HIDE DEF gone
    <3> QED BY <3>1, <3>2
  <2> HIDE DEF gone
  <2>3. /\ \A q \in received :
             /\ Shape(q)
             /\ \E r \in gone : SameSecret(q, r) /\ (~q.retired => ~r.retired)
             /\ ~q.retired /\ e # m.epoch => ~(q.epoch < e)
        /\ \A r \in gone : \E q \in received : SameSecret(q, r)
        /\ OneEach(received)
    <3>1. CASE needs /\ e # m.epoch
      <4> DEFINE old == {r \in gone : r.epoch < e}
      <4>1. received = RetireReceived(gone, old)
        BY <3>1 DEF AgedBy, LeftBy, gone
      <4>2. \A r \in gone : r \notin old => ~(r.epoch < e)
        OBVIOUS
      <4> HIDE DEF received, old
      <4> QED BY <2>2, <4>1, <4>2, RetireKeeps DEF SameSecret
    <3>2. CASE ~(needs /\ e # m.epoch)
      <4>1. received = gone /\ e = m.epoch
        BY <3>2, <1>9 DEF AgedBy, LeftBy, gone
      <4> HIDE DEF received
      <4> QED BY <2>2, <4>1 DEF SameSecret
    <3> QED BY <3>1, <3>2
  <2> HIDE DEF received
  <2>4. /\ \A q \in received :
             \E r \in m.received :
               SameSecret(q, r) /\ (~q.retired => ~r.retired /\ r.from \notin Departed(m, trusted))
        /\ \A r \in m.received : \E q \in received : SameSecret(q, r)
    BY <2>2, <2>3 DEF SameSecret
  <2>5. Tidy(waiting)
    <3>1. (\A r \in waiting.received : Shape(r)) /\ OneEach(waiting.received)
      BY <1>2, <2>3
    <3>2. (\A x \in waiting.early : x.epoch \in Nat) /\ OneEach(waiting.early)
      BY <1>2 DEF OneEach
    <3>3. \A c \in waiting.cache : \E r \in waiting.received :
            r.from = c.owner /\ r.epoch = c.epoch /\ r.secret = c.secret
      BY <1>2, <2>4 DEF Tidy, SameSecret
    <3> QED BY <3>1, <3>2, <3>3 DEF Tidy
  <2>6. Lasts(waiting)
    <3> SUFFICES ASSUME NEW q \in received, ~q.retired
                 PROVE  /\ q.epoch = e
                        /\ RefusedStay => \E p \in n.peers : p.user = q.from /\ p.id = q.id
      BY <1>2, <1>10 DEF Lasts
    <3>1. PICK r \in m.received :
            SameSecret(q, r) /\ ~r.retired /\ r.from \notin Departed(m, trusted)
      BY <2>4
    <3>2. r.epoch = m.epoch /\ (RefusedStay => \E p \in m.peers : p.user = r.from /\ p.id = r.id)
      BY <3>1 DEF Lasts
    <3>3. q.epoch = e
      BY <2>3, <3>1, <3>2 DEF SameSecret
    <3>4. ASSUME RefusedStay PROVE \E p \in n.peers : p.user = q.from /\ p.id = q.id
      <4>1. PICK p \in m.peers : p.user = r.from /\ p.id = r.id
        BY <3>2, <3>4
      <4>2. PICK t \in trusted : t.user = p.user /\ t.id = p.id
        BY <3>1, <4>1 DEF Departed
      <4>3. t \in UNION PeerLists /\ t.ok /\ p \in UNION PeerLists /\ p.ok /\ p.enc \notin Refused
        BY <1>6 DEF Sealing
      <4>4. t.enc \notin Refused
        BY <3>4, <4>2, <4>3 DEF RefusedStay
      <4>5. t \in n.peers
        BY <4>4, <1>1 DEF RefusedNow
      <4> QED BY <3>1, <4>1, <4>2, <4>5 DEF SameSecret
    <3> QED BY <3>3, <3>4
  <2> QED BY <2>5, <2>6
<1>13. Tidy(n) /\ Lasts(n)
  <2>1. OneEach(m.early \ stale) /\ \A x \in m.early \ stale : x.epoch \in Nat
    BY DEF Tidy, OneEach
  <2>2. waiting.epoch \in Nat
    BY <1>2, <1>10
  <2> QED BY <1>2, <1>12, <2>1, <2>2, DeliverTidy
<1> QED BY <1>1, <1>4, <1>10, <1>11, <1>13 DEF n

-----------------------------------------------------------------------------
\* What holds of a manager that has been placed and is about to follow a room state.
Placed(n) ==
  /\ Sealing(n) /\ Tidy(n) /\ Lasts(n)
  /\ n.roomPeers \in SUBSET UNION PeerLists
  /\ n.stashed # NoStash => n.stashed[1] # n.room /\ n.stashed[3] \in SUBSET UNION PeerLists

\* The inductive invariant, of the manager: in a room it follows the room state, out of one it has
\* no secret.
Attends(n) ==
  Placed(n) /\ (n.room = NoRoom => n.secret = 0) /\ (n.room # NoRoom => Follows(n))

\* Fields that neither the secrets nor whom we trust depend on.
LEMMA AttendsStays ==
  ASSUME NEW m, NEW n, Complete(n),
         OnlyIn(m, n, {"graceOver", "floors", "floor", "enc", "retiredEnc", "stashed", "out"}),
         n.stashed # NoStash => n.stashed[1] # n.room /\ n.stashed[3] \in SUBSET UNION PeerLists,
         Attends(m)
  PROVE  Attends(n)
<1>1. /\ n.room = m.room /\ n.epoch = m.epoch /\ n.present = m.present
      /\ n.roomPeers = m.roomPeers /\ n.peers = m.peers /\ n.media = m.media
      /\ n.secret = m.secret /\ n.made = m.made /\ n.sealed = m.sealed
      /\ n.unwrappable = m.unwrappable /\ n.received = m.received /\ n.cache = m.cache
      /\ n.early = m.early
  BY DEF OnlyIn, Fields
<1>2. Sealing(n) /\ Tidy(n) /\ Lasts(n)
  BY <1>1 DEF Attends, Placed, Sealing, Tidy, Lasts
<1>3. TrustedOf(n, n.roomPeers) = TrustedOf(m, m.roomPeers)
  BY <1>1 DEF TrustedOf, TrustedPeers, Invalid, ClashingTracks
<1> QED BY <1>1, <1>2, <1>3 DEF Attends, Placed, Follows

\* A room state of our room is followed or is old; one of another room is stashed.
LEMMA PeersChangedKeeps ==
  ASSUME NEW m, Placed(m), m.epoch \in Nat, NEW r \in Rooms, NEW e \in Nat,
         NEW P \in SUBSET UNION PeerLists,
         Attends(m) \/ (r = m.room /\ e >= m.epoch)
  PROVE  LET n == PeersChanged(m, me, r, e, P, {}) IN
         /\ Attends(n) /\ Renewed(m, n) /\ n.room = m.room
         /\ r = m.room => n.stashed = m.stashed /\ (n.epoch \in Nat)
<1> DEFINE n == PeersChanged(m, me, r, e, P, {})
<1>0. Complete(m) /\ r # NoRoom
  BY KeyConstants DEF Placed, Sealing
<1>1. CASE r # m.room
  <2>1. n = [m EXCEPT !.stashed = Stash(m, r, e, P)]
    BY <1>1 DEF PeersChanged
  <2> HIDE DEF n
  <2>2. Complete(n) /\ OnlyIn(m, n, {"stashed"}) /\ n.stashed = Stash(m, r, e, P)
    BY <1>0, <2>1 DEF Complete, OnlyIn, Fields
  <2>3. /\ n.secret = m.secret /\ n.made = m.made /\ n.sealed = m.sealed /\ n.out = m.out
        /\ n.room = m.room
    BY <2>2 DEF OnlyIn, Fields
  <2>4. n.stashed[1] # n.room /\ n.stashed[3] \in SUBSET UNION PeerLists
    BY <1>1, <2>2, <2>3 DEF Stash, Placed
  <2>5. Attends(n)
    BY <1>1, <2>2, <2>4, AttendsStays DEF OnlyIn
  <2> QED BY <1>1, <2>3, <2>5 DEF Renewed, n
<1>2. CASE r = m.room /\ e < m.epoch
  <2>1. n = m
    BY <1>2 DEF PeersChanged
  <2>2. Attends(m)
    BY <1>2
  <2> QED BY <2>1, <2>2 DEF Renewed
<1>3. CASE r = m.room /\ e >= m.epoch
  <2>1. n = FollowPeers(m, me, e, P, {})
    BY <1>3 DEF PeersChanged
  <2>2. /\ Sealing(n) /\ Tidy(n) /\ Lasts(n) /\ Follows(n) /\ Renewed(m, n) /\ n.epoch = e
        /\ n.room = m.room /\ n.stashed = m.stashed /\ n.roomPeers = P
    BY <2>1, <1>3, FollowKeeps DEF Placed
  <2> HIDE DEF n
  <2> QED BY <1>0, <1>3, <2>2 DEF Attends, Placed, n
<1> QED BY <1>1, <1>2, <1>3

\* A presence that changes who is shown in our room makes us follow the room state again.
LEMMA PresenceKeeps ==
  ASSUME NEW m, Attends(m), Manager(m), NEW u \in Peers, NEW r \in AnyRoom
  PROVE  LET n == SetPresence(m, me, u, r, {}) IN
         Attends(n) /\ Renewed(m, n) /\ n.room = m.room
<1> DEFINE seen == [m EXCEPT !.present[u] = r]
           n == SetPresence(m, me, u, r, {})
           changes == u # me /\ m.room # NoRoom /\ (m.present[u] = m.room) # (r = m.room)
<1> SUFFICES Attends(n) /\ Renewed(m, n) /\ n.room = m.room
  OBVIOUS
<1>0. Complete(m) /\ u \in Users /\ u # me
  BY DEF Attends, Placed, Sealing, Peers
<1>1. /\ Complete(seen) /\ OnlyIn(m, seen, {"present"}) /\ seen.present = [m.present EXCEPT ![u] = r]
  BY <1>0 DEF Complete, OnlyIn, Fields
<1>2. n = m \/ (n = seen /\ ~changes) \/ (n = ReapplyPeers(seen, me, {}) /\ changes)
  BY DEF SetPresence
<1> HIDE DEF n, seen
<1>3. /\ seen.room = m.room /\ seen.epoch = m.epoch /\ seen.stashed = m.stashed
      /\ seen.roomPeers = m.roomPeers /\ seen.peers = m.peers /\ seen.media = m.media
      /\ seen.secret = m.secret /\ seen.made = m.made /\ seen.sealed = m.sealed
      /\ seen.unwrappable = m.unwrappable /\ seen.received = m.received
      /\ seen.cache = m.cache /\ seen.early = m.early /\ seen.out = m.out
  BY <1>1 DEF OnlyIn, Fields
<1>4. /\ m.present = [v \in Users |-> m.present[v]]
      /\ seen.present = [v \in Users |-> seen.present[v]]
      /\ \A v \in Users : seen.present[v] = IF v = u THEN r ELSE m.present[v]
  BY <1>0, <1>1 DEF Attends, Placed, Sealing
<1>5. Placed(seen)
  BY <1>1, <1>3, <1>4 DEF Attends, Placed, Sealing, Tidy, Lasts
<1>6. CASE n = m
  BY <1>6 DEF Renewed
<1>7. CASE n = seen /\ ~changes
  <2>1. m.room # NoRoom => \A v \in Users : (seen.present[v] = m.room) <=> (m.present[v] = m.room)
    BY <1>0, <1>4, <1>7
  <2>2. \A p \in m.roomPeers : p.user \in Users
    BY AnyServerConstants DEF Attends, Placed
  <2>3. m.room # NoRoom => TrustedOf(seen, seen.roomPeers) = TrustedOf(m, m.roomPeers)
    <3>1. Invalid(seen, me, m.roomPeers) = Invalid(m, me, m.roomPeers)
      BY <1>3 DEF Invalid, ClashingTracks
    <3>2. m.room # NoRoom =>
            TrustedPeers(seen, me, m.room, m.roomPeers) = TrustedPeers(m, me, m.room, m.roomPeers)
      BY <1>3, <2>1, <2>2 DEF TrustedPeers
    <3> QED BY <1>3, <3>1, <3>2 DEF TrustedOf
  <2> QED BY <1>3, <1>5, <1>7, <2>3 DEF Attends, Follows, Renewed
<1>8. CASE n = ReapplyPeers(seen, me, {}) /\ changes
  <2>1. n = PeersChanged(seen, me, seen.room, seen.epoch, seen.roomPeers, {})
    BY <1>3, <1>8 DEF ReapplyPeers
  <2>2. seen.room \in Rooms /\ seen.epoch \in Nat
    BY <1>3, <1>8 DEF Manager, AnyRoom
  <2>3. seen.roomPeers \in SUBSET UNION PeerLists
    BY <1>5 DEF Placed
  <2>4. Attends(n) /\ Renewed(seen, n) /\ n.room = seen.room
    BY <1>5, <2>1, <2>2, <2>3, PeersChangedKeeps
  <2>5. Renewed(m, n)
    BY <2>4, <1>3 DEF Renewed, FreshSecret
  <2> QED BY <1>3, <2>4, <2>5
<1> QED BY <1>2, <1>6, <1>7, <1>8

\* In m's room, what we seal next is another secret, or nobody is given anything.
GivenOnce(m, n) ==
  m.secret # 0 /\ n.secret = m.secret /\ n.room = m.room => n.sealed = m.sealed /\ n.out = m.out

\* A secret that is renewed is given to nobody it was not made for.
LEMMA RenewedOnce ==
  ASSUME NEW m, NEW n, Sealing(m), Renewed(m, n)
  PROVE  GivenOnce(m, n)
BY FreshDiffers DEF GivenOnce, Renewed, Sealing

\* A placement makes a new secret, for those of its room state or of the newer one stashed.
LEMMA PlacementKeeps ==
  ASSUME NEW m, Attends(m), Manager(m), NEW r \in Rooms, NEW e \in Nat \ {0}, NEW media,
         NEW P \in PeerLists
  PROVE  LET n == ApplyPlacement(m, me, r, e, media, P, {}) IN Attends(n) /\ GivenOnce(m, n)
<1> DEFINE placed == [Moved(m, r) EXCEPT !.room = r, !.media = media, !.secret = 0,
                                         !.sealed = {}, !.stashed = NoStash]
           first == PeersChanged(placed, me, r, e, P, {})
           s == m.stashed
           second == PeersChanged(first, me, r, s[2], s[3], {})
           n == ApplyPlacement(m, me, r, e, media, P, {})
<1> SUFFICES Attends(n) /\ GivenOnce(m, n)
  OBVIOUS
<1>0. /\ r # NoRoom /\ Placed(m) /\ Complete(m) /\ m.epoch \in Nat
      /\ P \in SUBSET UNION PeerLists
  BY KeyConstants DEF Attends, Placed, Sealing, Manager
<1>1. CASE r = m.room /\ e < m.epoch
  <2>1. n = m
    BY <1>0, <1>1 DEF ApplyPlacement
  <2> QED BY <2>1 DEF GivenOnce
<1>2. CASE ~(r = m.room /\ e < m.epoch)
  <2>1. n = IF s # NoStash /\ s[1] = r /\ s[2] > e THEN second ELSE first
    BY <1>0, <1>2 DEF ApplyPlacement
  <2> HIDE DEF n
  <2>2. /\ Complete(placed) /\ placed.room = r /\ placed.secret = 0 /\ placed.sealed = {}
        /\ placed.stashed = NoStash /\ placed.present = m.present /\ placed.made = m.made
        /\ placed.early = m.early
        /\ r = m.room =>
             /\ placed.epoch = m.epoch /\ placed.received = m.received /\ placed.cache = m.cache
             /\ placed.peers = m.peers /\ placed.roomPeers = m.roomPeers
        /\ r # m.room =>
             /\ placed.epoch = 0 /\ placed.received = {} /\ placed.cache = {}
             /\ placed.peers = {} /\ placed.roomPeers = {}
    <3>1. CASE r = m.room
      BY ZenonT(60), <1>0, <3>1 DEF Moved, Complete, Fields
    <3>2. CASE r # m.room
      BY ZenonT(60), <1>0, <3>2 DEF Moved, FloorOf, Complete, Fields
    <3> QED BY <3>1, <3>2
  <2> HIDE DEF placed
  <2>3. Placed(placed) /\ placed.epoch \in Nat
    <3>1. CASE r = m.room
      BY <1>0, <2>2, <3>1 DEF Placed, Sealing, Tidy, Lasts
    <3>2. CASE r # m.room
      BY <1>0, <2>2, <3>2 DEF Placed, Sealing, Tidy, Lasts, OneEach
    <3> QED BY <3>1, <3>2
  <2>4. e >= placed.epoch /\ e \in Nat
    BY <1>0, <1>2, <2>2
  <2>5. /\ Attends(first) /\ Renewed(placed, first) /\ first.room = r /\ first.epoch \in Nat
        /\ first.stashed = NoStash
    BY <1>0, <2>2, <2>3, <2>4, PeersChangedKeeps
  <2> HIDE DEF first
  <2>6. CASE s # NoStash /\ s[1] = r /\ s[2] > e
    <3>1. r # m.room /\ s[2] \in Nat /\ s[3] \in SUBSET UNION PeerLists
      BY <1>0, <2>6 DEF Placed, Manager
    <3>2. Attends(second) /\ second.room = r
      BY <2>5, <3>1, PeersChangedKeeps DEF Attends
    <3>3. n = second
      BY <2>1, <2>6
    <3> HIDE DEF second
    <3> QED BY <3>1, <3>2, <3>3 DEF GivenOnce
  <2>7. CASE ~(s # NoStash /\ s[1] = r /\ s[2] > e)
    <3>1. n = first
      BY <2>1, <2>7
    <3>2. first.secret # 0
      BY <1>0, <2>5 DEF Attends, Follows
    <3>3. first.secret = FreshSecret(m)
      BY <2>2, <2>5, <3>2 DEF Renewed, FreshSecret
    <3>4. FreshSecret(m) # m.secret
      BY <1>0, FreshDiffers DEF Placed, Sealing
    <3> QED BY <2>5, <3>1, <3>3, <3>4 DEF GivenOnce
  <2> QED BY <2>6, <2>7
<1> QED BY <1>1, <1>2

\* The lobby has no secret.
LEMMA LobbyForgets ==
  ASSUME NEW m, Attends(m), Manager(m)
  PROVE  LET n == ApplyPlacement(m, me, NoRoom, 0, 0, {}, {}) IN Attends(n) /\ n.secret = 0
<1> DEFINE n == ApplyPlacement(m, me, NoRoom, 0, 0, {}, {})
<1> SUFFICES Attends(n) /\ n.secret = 0
  OBVIOUS
<1>0. Complete(m)
  BY DEF Attends, Placed, Sealing
<1>1. n = [Moved(m, NoRoom) EXCEPT !.room = NoRoom, !.media = 0, !.secret = 0, !.sealed = {},
                                   !.stashed = NoStash]
  BY DEF ApplyPlacement
<1> HIDE DEF n
<1>2. /\ Complete(n) /\ n.room = NoRoom /\ n.secret = 0 /\ n.stashed = NoStash
      /\ n.present = m.present /\ n.made = m.made /\ n.early = m.early
      /\ NoRoom = m.room =>
           /\ n.epoch = m.epoch /\ n.received = m.received /\ n.cache = m.cache
           /\ n.peers = m.peers /\ n.roomPeers = m.roomPeers
      /\ NoRoom # m.room =>
           n.received = {} /\ n.cache = {} /\ n.peers = {} /\ n.roomPeers = {}
  <2>1. CASE NoRoom = m.room
    BY ZenonT(60), <1>0, <1>1, <2>1 DEF Moved, Complete, Fields
  <2>2. CASE NoRoom # m.room
    BY ZenonT(60), <1>0, <1>1, <2>2 DEF Moved, FloorOf, Complete, Fields
  <2> QED BY <2>1, <2>2
<1>3. CASE NoRoom = m.room
  BY <1>2, <1>3 DEF Attends, Placed, Sealing, Tidy, Lasts
<1>4. CASE NoRoom # m.room
  BY <1>2, <1>4 DEF Attends, Placed, Sealing, Tidy, Lasts, OneEach
<1> QED BY <1>3, <1>4

\* What received secrets, keys derived from them and messages held become is told by themselves.
LEMMA SecretsOnly ==
  ASSUME NEW m, NEW n, Attends(m), Complete(n), Tidy(n), Lasts(n),
         OnlyIn(m, n, {"received", "cache", "early", "graceOver", "retiredEnc"})
  PROVE  Attends(n) /\ GivenOnce(m, n)
<1>1. /\ n.room = m.room /\ n.epoch = m.epoch /\ n.present = m.present
      /\ n.roomPeers = m.roomPeers /\ n.peers = m.peers /\ n.media = m.media
      /\ n.secret = m.secret /\ n.made = m.made /\ n.sealed = m.sealed
      /\ n.unwrappable = m.unwrappable /\ n.stashed = m.stashed /\ n.out = m.out
  BY DEF OnlyIn, Fields
<1>2. Sealing(n)
  BY <1>1 DEF Attends, Placed, Sealing
<1>3. TrustedOf(n, n.roomPeers) = TrustedOf(m, m.roomPeers)
  BY <1>1 DEF TrustedOf, TrustedPeers, Invalid, ClashingTracks
<1> QED BY <1>1, <1>2, <1>3 DEF Attends, Placed, Follows, GivenOnce

\* A key is derived from what the one owner of the track sent.
LEMMA RecvKeeps ==
  ASSUME NEW m, Attends(m), NEW d, NEW e
  PROVE  LET n == RecvKey(m, d, e) IN Attends(n) /\ GivenOnce(m, n)
<1> DEFINE n == RecvKey(m, d, e)
           found == RecvSecrets(m, d, e)
           cache == IF found = {} THEN m.cache
                    ELSE {c \in m.cache : ~(c.media = d /\ c.epoch = e)}
                         \cup {[media |-> d, epoch |-> e, owner |-> u, secret |-> s] :
                                u \in Owner(m, d), s \in found}
<1> SUFFICES Attends(n) /\ GivenOnce(m, n)
  OBVIOUS
<1>0. Complete(m) /\ Sealing(m) /\ Tidy(m) /\ Lasts(m)
  BY DEF Attends, Placed, Sealing
<1>1. n = [m EXCEPT !.cache = cache]
  BY DEF RecvKey
<1>2. \A u, v \in Owner(m, d) : u = v
  BY <1>0 DEF Sealing, Owner
<1>3. \A u \in Owner(m, d), s \in found :
        \E r \in m.received : r.from = u /\ r.epoch = e /\ r.secret = s
  <2> SUFFICES ASSUME NEW u \in Owner(m, d), NEW s \in found
               PROVE  \E r \in m.received : r.from = u /\ r.epoch = e /\ r.secret = s
    OBVIOUS
  <2>1. PICK v \in Owner(m, d) :
          \/ \E c \in m.cache : c.epoch = e /\ c.owner = v /\ c.secret = s
          \/ \E r \in m.received : r.from = v /\ r.epoch = e /\ r.secret = s
    BY DEF RecvSecrets, CachedFor
  <2> QED BY <1>0, <1>2, <2>1 DEF Tidy
<1>4. \A c \in cache :
        \E r \in m.received : r.from = c.owner /\ r.epoch = c.epoch /\ r.secret = c.secret
  BY <1>0, <1>3 DEF Tidy
<1> HIDE DEF n, cache
<1>5. Complete(n) /\ OnlyIn(m, n, {"cache"}) /\ n.cache = cache
  BY <1>0, <1>1 DEF Complete, OnlyIn, Fields
<1>6. /\ n.received = m.received /\ n.early = m.early /\ n.epoch = m.epoch /\ n.peers = m.peers
      /\ OnlyIn(m, n, {"received", "cache", "early", "graceOver", "retiredEnc"})
  BY <1>5 DEF OnlyIn, Fields
<1>7. Tidy(n) /\ Lasts(n)
  BY <1>0, <1>4, <1>5, <1>6 DEF Tidy, Lasts
<1> QED BY <1>5, <1>6, <1>7, SecretsOnly

\* What runs out goes with the keys derived from it.
LEMMA TickKeeps ==
  ASSUME NEW m, Attends(m), NEW spent, NEW stale, NEW g, NEW o
  PROVE  LET n == Tick(m, spent, stale, g, o) IN Attends(n) /\ GivenOnce(m, n)
<1> DEFINE n == Tick(m, spent, stale, g, o)
           received == m.received \ {r \in spent : r.retired}
           cache == {c \in m.cache : \E r \in received : r.from = c.owner /\ r.epoch = c.epoch}
           early == m.early \ stale
           over == m.graceOver \/ g
           retired == IF o THEN {} ELSE m.retiredEnc
<1> SUFFICES Attends(n) /\ GivenOnce(m, n)
  OBVIOUS
<1>0. Complete(m) /\ Sealing(m) /\ Tidy(m) /\ Lasts(m)
  BY DEF Attends, Placed, Sealing
<1>1. n = [m EXCEPT !.received = received, !.cache = cache, !.early = early, !.graceOver = over,
                    !.retiredEnc = retired]
  BY ZenonT(60), <1>0 DEF Tick, Complete, Fields
<1>2. \A c \in cache :
        \E r \in received : r.from = c.owner /\ r.epoch = c.epoch /\ r.secret = c.secret
  BY <1>0 DEF Tidy, OneEach
<1>3. received \subseteq m.received /\ early \subseteq m.early
  OBVIOUS
<1> HIDE DEF n, cache, received, early, over, retired
<1>4. /\ Complete(n) /\ n.received = received /\ n.cache = cache /\ n.early = early
      /\ n.epoch = m.epoch /\ n.peers = m.peers
      /\ OnlyIn(m, n, {"received", "cache", "early", "graceOver", "retiredEnc"})
  BY <1>0, <1>1 DEF Complete, OnlyIn, Fields
<1>5. Tidy(n) /\ Lasts(n)
  BY <1>0, <1>2, <1>3, <1>4 DEF Tidy, Lasts, OneEach
<1> QED BY <1>4, <1>5, SecretsOnly

\* The manager whose requests were sent is as it was.
LEMMA ReadyAttends ==
  ASSUME Attends(k), Manager(k)
  PROVE  /\ Attends(Ready) /\ Manager(Ready) /\ Ready.room = k.room /\ Ready.secret = k.secret
         /\ Ready.sealed = k.sealed /\ Ready.out = <<>> /\ Complete(Ready)
         /\ OnlyIn(k, Ready, {"out"})
<1>0. Complete(k)
  BY DEF Attends, Placed, Sealing
<1>1. Complete(Ready) /\ OnlyIn(k, Ready, {"out"}) /\ Ready.out = <<>>
  BY <1>0 DEF Ready, Complete, OnlyIn, Fields
<1>2. /\ Ready.room = k.room /\ Ready.secret = k.secret /\ Ready.sealed = k.sealed
      /\ Ready.stashed = k.stashed /\ Ready.epoch = k.epoch /\ Ready.floors = k.floors
      /\ Ready.floor = k.floor
      /\ OnlyIn(k, Ready, {"graceOver", "floors", "floor", "enc", "retiredEnc", "stashed", "out"})
  BY <1>1 DEF OnlyIn, Fields
<1>3. Attends(Ready)
  BY <1>1, <1>2, AttendsStays DEF Attends, Placed
<1>4. Manager(Ready)
  BY <1>1, <1>2 DEF Manager, Complete
<1> QED BY <1>1, <1>2, <1>3, <1>4

\* Every action keeps the invariant and gives a secret once.
LEMMA AudienceStep ==
  ASSUME ReplayInv, Attends(k), Next
  PROVE  Attends(k') /\ GivenOnce(Ready, k')
<1>0. Manager(k)
  BY DEF ReplayInv, Floored
<1> USE <1>0, ReadyAttends
<1>1. ASSUME NEW r \in Rooms, NEW e \in Epochs, NEW P \in PeerLists, Placement(r, e, P)
      PROVE  Attends(k') /\ GivenOnce(Ready, k')
  <2>1. k' = ApplyPlacement(Ready, me, r, e, OurMedia, P, {})
    BY <1>1 DEF Placement, Becomes
  <2>2. e \in Nat \ {0}
    BY DEF Epochs
  <2> QED BY <2>1, <2>2, PlacementKeeps
<1>2. ASSUME NEW r \in Rooms, NEW e \in Epochs, NEW P \in PeerLists, RoomState(r, e, P)
      PROVE  Attends(k') /\ GivenOnce(Ready, k')
  <2>1. k' = PeersChanged(Ready, me, r, e, P, {})
    BY <1>2 DEF RoomState, Becomes
  <2>2. e \in Nat /\ P \in SUBSET UNION PeerLists /\ Placed(Ready) /\ Ready.epoch \in Nat
    BY DEF Epochs, Attends, Manager
  <2>3. Attends(k') /\ Renewed(Ready, k')
    BY <2>1, <2>2, PeersChangedKeeps
  <2> QED BY <2>2, <2>3, RenewedOnce DEF Placed
<1>3. CASE Lobby \/ PutOut
  <2>1. k' = ApplyPlacement(Ready, me, NoRoom, 0, 0, {}, {})
    BY <1>3 DEF Lobby, PutOut, Becomes
  <2>2. Attends(k') /\ k'.secret = 0
    BY <2>1, LobbyForgets
  <2> QED BY <2>2 DEF GivenOnce
<1>4. ASSUME NEW u \in Peers, NEW r \in AnyRoom, Presence(u, r)
      PROVE  Attends(k') /\ GivenOnce(Ready, k')
  <2>1. k' = SetPresence(Ready, me, u, r, {})
    BY <1>4 DEF Presence, Becomes
  <2>2. Attends(k') /\ Renewed(Ready, k')
    BY <2>1, PresenceKeeps
  <2> QED BY <2>2, RenewedOnce DEF Attends, Placed
<1>5. ASSUME NEW e \in Epochs, NEW blob \in Sealed, SenderKeyPublished(e, blob)
      PROVE  Attends(k') /\ GivenOnce(Ready, k')
  <2> DEFINE x == [from |-> blob.from, epoch |-> e, blob |-> blob]
  <2>1. k' = Deliver(Ready, me, {x})
    BY <1>5 DEF SenderKeyPublished, Becomes, SenderKey
  <2>2. OneEach({x}) /\ \A y \in {x} : y.epoch \in Nat
    BY DEF OneEach, Epochs
  <2>3. Tidy(Ready) /\ Lasts(Ready) /\ Ready.epoch \in Nat
    BY DEF Attends, Placed, Manager
  <2> HIDE DEF x
  <2>4. Tidy(k') /\ Lasts(k')
    BY <2>1, <2>2, <2>3, DeliverTidy
  <2>5. Complete(k') /\ OnlyIn(Ready, k', {"early", "received", "cache"})
    BY <2>1, DeliverFields
  <2>6. OnlyIn(Ready, k', {"received", "cache", "early", "graceOver", "retiredEnc"})
    BY <2>5 DEF OnlyIn
  <2> QED BY <2>4, <2>5, <2>6, SecretsOnly
<1>6. ASSUME NEW m \in MediaIds, NEW e \in Epochs, Media(m, e)
      PROVE  Attends(k') /\ GivenOnce(Ready, k')
  <2>1. k' = RecvKey(Ready, m, e)
    BY <1>6 DEF Media, Becomes
  <2> QED BY <2>1, RecvKeeps
<1>7. CASE RenewKey
  <2>1. k' = ReplaceEncryption(Ready, k.enc + 1)
    BY <1>7 DEF RenewKey, Becomes
  <2>2. Complete(k') /\ OnlyIn(Ready, k', {"enc", "retiredEnc"})
    BY <2>1 DEF ReplaceEncryption, Complete, OnlyIn, Fields
  <2>3. /\ k'.sealed = Ready.sealed /\ k'.out = Ready.out /\ k'.stashed = Ready.stashed
        /\ k'.room = Ready.room
        /\ OnlyIn(Ready, k', {"graceOver", "floors", "floor", "enc", "retiredEnc", "stashed", "out"})
    BY <2>2 DEF OnlyIn, Fields
  <2> QED BY <2>2, <2>3, AttendsStays DEF GivenOnce, Attends, Placed
<1>8. ASSUME NEW spent, NEW stale, NEW g, NEW o, Ticks(spent, stale, g, o)
      PROVE  Attends(k') /\ GivenOnce(Ready, k')
  <2>1. k' = Tick(Ready, spent, stale, g, o)
    BY <1>8 DEF Ticks, Becomes
  <2> QED BY <2>1, TickKeeps
<1>9. CASE SaveFloors
  BY <1>9 DEF SaveFloors, Becomes, GivenOnce
<1>10. CASE Reconnect \/ Restart \/ Crash
  <2>1. PICK F : k' = New(F, k.enc, k.made)
    BY <1>10 DEF Reconnect, Restart, Crash
  <2>2. /\ Complete(k') /\ k'.room = NoRoom /\ k'.secret = 0 /\ k'.made = k.made
        /\ k'.present = [u \in Users |-> NoRoom] /\ k'.roomPeers = {} /\ k'.peers = {}
        /\ k'.received = {} /\ k'.cache = {} /\ k'.early = {} /\ k'.stashed = NoStash
    BY <2>1 DEF New, Complete, Fields
  <2>3. k.made \in 0..NumSecrets
    BY DEF Attends, Placed, Sealing
  <2> QED BY <2>2, <2>3 DEF Attends, Placed, Sealing, Tidy, Lasts, OneEach, GivenOnce
<1> QED BY <1>1, <1>2, <1>3, <1>4, <1>5, <1>6, <1>7, <1>8, <1>9, <1>10 DEF Next

\* At the start there is no room, no secret and nothing received.
LEMMA AttendsInit == Init => Attends(k)
<1> SUFFICES ASSUME Init PROVE Attends(k)
  OBVIOUS
<1>1. /\ Complete(k) /\ k.room = NoRoom /\ k.secret = 0 /\ k.made = 0
      /\ k.present = [u \in Users |-> NoRoom] /\ k.roomPeers = {} /\ k.peers = {}
      /\ k.received = {} /\ k.cache = {} /\ k.early = {} /\ k.stashed = NoStash
  BY DEF Init, New, Complete, Fields
<1> QED BY <1>1, KeyConstants DEF Attends, Placed, Sealing, Tidy, Lasts, OneEach

\* Whom we trust does not depend on refusals of those who are not listed.
LEMMA TrustedAgain ==
  ASSUME NEW m, Complete(m), NEW P
  PROVE  TrustedBy(m, P) = TrustedOf(m, P)
<1> DEFINE checked == [m EXCEPT !.unwrappable = ListedOf(m, P)]
<1>1. /\ checked.unwrappable = ListedOf(m, P) /\ checked.room = m.room
      /\ checked.media = m.media /\ checked.present = m.present
  BY DEF Complete, Fields
<1>2. TrustedBy(m, P) = TrustedOf(checked, P)
  BY DEF TrustedBy
<1> HIDE DEF checked
<1>3. Invalid(checked, me, P) = Invalid(m, me, P)
  BY <1>1 DEF Invalid, ClashingTracks
<1>4. CASE Invalid(m, me, P)
  BY <1>2, <1>3, <1>4 DEF TrustedOf
<1>5. CASE ~Invalid(m, me, P)
  <2>1. \A p \in P : <<p.user, p.enc>> \in ListedOf(m, P) <=> <<p.user, p.enc>> \in m.unwrappable
    BY <1>5 DEF ListedOf, Named
  <2>2. TrustedPeers(checked, me, m.room, P) = TrustedPeers(m, me, m.room, P)
    BY <1>1, <2>1 DEF TrustedPeers
  <2> QED BY <1>1, <1>2, <1>3, <1>5, <2>2 DEF TrustedOf
<1> QED BY <1>4, <1>5

\* What the invariant says of the audience.
LEMMA AttendsSays ==
  ASSUME ReplayInv, Attends(k)
  PROVE  AudienceCurrent /\ Settles
<1> SUFFICES ASSUME k.secret # 0
             PROVE  /\ k.sealed = Sealable(k.peers)
                    /\ \A p \in k.peers : k.present[p.user] = k.room
                    /\ ReapplyPeers(Ready, me, {}).secret = k.secret
  BY DEF AudienceCurrent, Settles
<1>0. /\ Complete(k) /\ Manager(k) /\ k.room # NoRoom /\ Follows(k)
      /\ k.sealed = Sealable(k.peers)
  BY DEF Attends, Placed, Sealing, ReplayInv, Floored
<1>1. \A p \in k.peers : k.present[p.user] = k.room
  BY <1>0 DEF Follows, TrustedOf, TrustedPeers
<1>2. ReapplyPeers(Ready, me, {}).secret = k.secret
  <2>0. /\ Ready.room = k.room /\ Ready.epoch = k.epoch /\ Ready.roomPeers = k.roomPeers
        /\ Ready.secret = k.secret /\ Ready.sealed = k.sealed /\ Ready.peers = k.peers
        /\ Ready.epoch \in Nat /\ Complete(Ready) /\ Attends(Ready)
    BY <1>0, ReadyAttends DEF OnlyIn, Fields, Manager
  <2> DEFINE P == Ready.roomPeers
             e == Ready.epoch
             n == FollowPeers(Ready, me, e, P, {})
  <2>1. ReapplyPeers(Ready, me, {}) = n
    BY <1>0, <2>0 DEF ReapplyPeers, PeersChanged
  <2>2. FollowedBy(Ready, n, e, P, {})
    BY <2>0, FollowFields
  <2> HIDE DEF n
  <2>3. Ready.peers = TrustedBy(Ready, P)
    BY <1>0, <2>0, TrustedAgain DEF Attends, Follows
  <2>4. ~NeedsBy(Ready, e, P)
    BY <1>0, <2>0, <2>3 DEF NeedsBy, NeedsSecret
  <2>5. n.secret = Ready.secret
    BY <2>2, <2>4 DEF FollowedBy
  <2> QED BY <2>0, <2>1, <2>5
<1> QED BY <1>0, <1>1, <1>2

\* The invariant is kept.
LEMMA AttendsAlways == Spec => [](ReplayInv /\ Attends(k))
<1>1. Init => ReplayInv /\ Attends(k)
  BY ReplayInit, AttendsInit
<1>2. ReplayInv /\ Attends(k) /\ [Next]_vars => (ReplayInv /\ Attends(k))'
  <2> SUFFICES ASSUME ReplayInv, Attends(k), [Next]_vars PROVE (ReplayInv /\ Attends(k))'
    OBVIOUS
  <2>1. ReplayInv'
    BY ReplayStep
  <2>2. CASE Next
    BY <2>1, <2>2, AudienceStep
  <2>3. CASE UNCHANGED vars
    BY <2>1, <2>3 DEF vars
  <2> QED BY <2>2, <2>3
<1> QED BY <1>1, <1>2, PTL DEF Spec

\* The audience of our secret is those we trust, and stays, whatever order room states, presences
\* and refused keys come in: keys.rs peers_changed and wrap_for_new_peers, for every number of
\* rooms, epochs, peers and secrets.
THEOREM AudienceAlwaysKept == Spec => AudienceKept
<1>1. ReplayInv /\ Attends(k) => AudienceCurrent /\ Settles
  BY AttendsSays
<1>2. ReplayInv /\ Attends(k) /\ [Next]_vars =>
        [k.secret # 0 /\ k'.secret = k.secret /\ k'.room = k.room
           => k'.sealed = k.sealed /\ k'.out = <<>>]_vars
  <2> SUFFICES ASSUME ReplayInv, Attends(k), Next, k.secret # 0, k'.secret = k.secret,
                      k'.room = k.room
               PROVE  k'.sealed = k.sealed /\ k'.out = <<>>
    OBVIOUS
  <2>1. GivenOnce(Ready, k')
    BY AudienceStep
  <2>2. Manager(k)
    BY DEF ReplayInv, Floored
  <2> QED BY <2>1, <2>2, ReadyAttends DEF GivenOnce
<1> QED BY <1>1, <1>2, AttendsAlways, PTL DEF Spec, AudienceKept, AudienceFixed

\* A key handed to the decoder is derived from the secret stored last for whoever sends on that
\* track, whoever comes and goes: keys.rs recv_key, departed and tick.
THEOREM KeysAlwaysOwners == Spec => []KeysOfOwner
<1>1. Attends(k) => KeysOfOwner
  <2> SUFFICES ASSUME Attends(k), NEW m \in MediaIds, NEW e \in Epochs, NEW s \in RecvSecrets(k, m, e)
               PROVE  \E r \in k.received : r.from \in Owner(k, m) /\ r.epoch = e /\ r.secret = s
    BY DEF KeysOfOwner
  <2>1. PICK v \in Owner(k, m) :
          \/ \E c \in k.cache : c.epoch = e /\ c.owner = v /\ c.secret = s
          \/ \E r \in k.received : r.from = v /\ r.epoch = e /\ r.secret = s
    BY DEF RecvSecrets, CachedFor
  <2> QED BY <2>1 DEF Attends, Placed, Tidy
<1> QED BY <1>1, AttendsAlways, PTL

\* What we decrypt with is what the track's owner sent last, or is running out, where a user whose
\* signed key HPKE refuses has no other that it accepts: keys.rs recv_key and departed.
THEOREM SecretsAlwaysCurrent == RefusedStay => (Spec => []SecretsCurrent)
<1> SUFFICES ASSUME RefusedStay PROVE Spec => []SecretsCurrent
  OBVIOUS
<1>1. Attends(k) => OldSecretsRunOut
  BY DEF Attends, Placed, Lasts, OldSecretsRunOut
<1>2. KeysOfOwner /\ OldSecretsRunOut => SecretsCurrent
  BY DEF SecretsCurrent
<1> QED BY <1>1, <1>2, AttendsAlways, KeysAlwaysOwners, PTL

-----------------------------------------------------------------------------
(* Whom the user verified. *)

\* The pairs a verified key is seen under are never too many to note.
SeenFits == Cardinality(Pairs) <= MaxSeen

\* A profile as it is open, and as it was drawn.
Profiles == [open : {TRUE}, user : Pairs, shown : MaybeKey, keyChanged : BOOLEAN, meant : MaybeKey]
PersonsShown == [key : MaybeKey, verified : BOOLEAN, warned : BOOLEAN]
ProfilesDrawn == [open : {TRUE}, user : Pairs, shown : MaybeKey, meant : MaybeKey,
                  keyChanged : BOOLEAN, person : PersonsShown]
Clicks == [do : {"mark", "dismiss"}, at : Pairs, key : MaybeKey, verified : BOOLEAN]

PeopleTypes ==
  /\ file \in Records /\ readable \in BOOLEAN /\ mem \in {file, NoRecords}
  /\ since \in [Pairs -> MaybeKey] /\ presented \in [Pairs -> MaybeKey]
  /\ told \in [Pairs -> PersonsShown]
  /\ shownProfile \in Profiles \cup {NoDialog} /\ drawn \in ProfilesDrawn \cup {NoDialog}
  /\ asked \in SUBSET Clicks
  /\ expected \in [Pairs -> MaybeKey] /\ owed \in [Pairs -> SUBSET Keys]

\* The number that the user compares is the one shown, unless the notice says that it changed.
MeantShown ==
  /\ shownProfile.open /\ ~shownProfile.keyChanged => shownProfile.meant \in {NoKey, shownProfile.shown}
  /\ drawn.open /\ ~drawn.keyChanged /\ drawn.shown # NoKey => drawn.meant = drawn.shown

\* A click on its way marks a key that was compared.
ClicksCompared ==
  \A c \in asked : c.do = "mark" => c.key \in Keys /\ (c.verified => c.key \in compared)

\* The inductive invariant of what is verified.
PeopleInv == PeopleTypes /\ MeantShown /\ ClicksCompared /\ OnlyCompared

\* The file's watch: a pair is noted under the verified key last seen there and no other, and a
\* change is recorded there while keys are owed, one of them.
Watched(at) ==
  /\ expected[at] \in file.verified \cup {NoKey}
  /\ \A key \in Keys : at \in file.seen[key] <=> expected[at] = key
  /\ owed[at] = {} <=> file.changed[at] = NoKey
  /\ owed[at] # {} => expected[at] # NoKey /\ file.changed[at] \in owed[at]
  /\ since[at] # NoKey => since[at] \in owed[at]
WatchInv == \A at \in Pairs : Watched(at)

-----------------------------------------------------------------------------
\* The records without anybody are records.
LEMMA NoRecordsType == /\ NoRecords \in Records /\ NoRecords.verified = {}
                       /\ \A at \in Pairs : NoRecords.changed[at] = NoKey
                       /\ \A key \in Keys : NoRecords.seen[key] = {}
                       /\ Nobody \in [Pairs -> MaybeKey]
BY DEF NoRecords, Records, MaybeKey, Nobody

\* What a write takes along of the keys shown since.
LEMMA WithSinceDoes ==
  ASSUME NEW r \in Records, NEW s \in [Pairs -> MaybeKey]
  PROVE  LET n == WithSince(r, s) IN
         /\ n \in Records /\ n.verified = r.verified /\ n.seen = r.seen
         /\ \A at \in Pairs :
              /\ r.changed[at] # NoKey /\ s[at] # NoKey => n.changed[at] = s[at]
              /\ ~(r.changed[at] # NoKey /\ s[at] # NoKey) => n.changed[at] = r.changed[at]
BY DEF WithSince, Records

\* A pair is forgotten under all keys but one.
LEMMA ForgetSeenDoes ==
  ASSUME NEW r \in Records, NEW at \in Pairs, NEW except \in MaybeKey
  PROVE  LET n == ForgetSeen(r, at, except) IN
         /\ n \in Records /\ n.verified = r.verified /\ n.changed = r.changed
         /\ except \in Keys => n.seen[except] = r.seen[except]
         /\ \A key \in Keys \ {except} : n.seen[key] = r.seen[key] \ {at}
BY DEF ForgetSeen, Records

\* The change recorded for a pair is forgotten, and no other.
LEMMA ForgetChangeDoes ==
  ASSUME NEW r \in Records, NEW at \in Pairs
  PROVE  LET n == ForgetChange(r, at) IN
         /\ n \in Records /\ n.verified = r.verified /\ n.seen = r.seen
         /\ n.changed = [r.changed EXCEPT ![at] = NoKey]
BY DEF ForgetChange, Records, MaybeKey

\* A pair is noted under the key seen there and no other, where there is room.
LEMMA SeeDoes ==
  ASSUME NEW r \in Records, NEW at \in Pairs, NEW key \in Keys
  PROVE  LET n == See(r, key, at) IN
         /\ n \in Records /\ n.verified = r.verified /\ n.changed = r.changed
         /\ SeenFits /\ key \in r.verified =>
              /\ n.seen[key] = r.seen[key] \cup {at}
              /\ \A l \in Keys \ {key} : n.seen[l] = r.seen[l] \ {at}
<1> DEFINE others == ForgetSeen(r, at, key)
           n == See(r, key, at)
<1> SUFFICES /\ n \in Records /\ n.verified = r.verified /\ n.changed = r.changed
             /\ SeenFits /\ key \in r.verified =>
                  /\ n.seen[key] = r.seen[key] \cup {at}
                  /\ \A l \in Keys \ {key} : n.seen[l] = r.seen[l] \ {at}
  OBVIOUS
<1>1. /\ others \in Records /\ others.verified = r.verified /\ others.changed = r.changed
      /\ others.seen[key] = r.seen[key]
      /\ \A l \in Keys \ {key} : others.seen[l] = r.seen[l] \ {at}
  BY ForgetSeenDoes DEF MaybeKey
<1>2. n = IF key \in r.verified /\ Cardinality(r.seen[key]) < MaxSeen
            THEN [others EXCEPT !.seen[key] = @ \cup {at}] ELSE others
  BY DEF See
<1> HIDE DEF others, n
<1>3. CASE key \in r.verified /\ Cardinality(r.seen[key]) < MaxSeen
  <2>1. n = [others EXCEPT !.seen[key] = @ \cup {at}]
    BY <1>2, <1>3
  <2>2. /\ n \in Records /\ n.verified = r.verified /\ n.changed = r.changed
        /\ n.seen = [others.seen EXCEPT ![key] = @ \cup {at}]
    BY <1>1, <2>1 DEF Records
  <2> QED BY <1>1, <2>2 DEF Records
<1>4. CASE ~(key \in r.verified /\ Cardinality(r.seen[key]) < MaxSeen)
  <2>1. n = others
    BY <1>2, <1>4
  <2>2. SeenFits /\ key \in r.verified => at \in r.seen[key]
    <3> SUFFICES ASSUME SeenFits, key \in r.verified, at \notin r.seen[key] PROVE FALSE
      OBVIOUS
    <3>1. r.seen[key] \subseteq Pairs /\ IsFiniteSet(Pairs) /\ r.seen[key] # Pairs
      BY VerifiedAssumption DEF Records
    <3>2. /\ Cardinality(r.seen[key]) < Cardinality(Pairs)
          /\ Cardinality(r.seen[key]) \in Nat /\ Cardinality(Pairs) \in Nat
      BY <3>1, FS_Subset, FS_CardinalityType
    <3> QED BY <1>4, <3>2, VerifiedAssumption DEF SeenFits
  <2> QED BY <1>1, <2>1, <2>2
<1> QED BY <1>3, <1>4

\* The file as it is next read and written: with the keys shown since.
Present == WithSince(file, since)

\* What a verified key, an unverified one, a mark, its taking back and a dismissal write.
SeenAgain(key, at) == ForgetChange(See(Present, key, at), at)
ShownOther(key, at) == [Present EXCEPT !.changed[at] = key]
MarkedAs(key, at) ==
  LET seen == ForgetChange(See([Present EXCEPT !.verified = @ \cup {key}], key, at), at) IN
  [seen EXCEPT !.changed = [a \in Pairs |-> IF seen.changed[a] = key THEN NoKey ELSE seen.changed[a]]]
TakenBack(key) ==
  [verified |-> Present.verified \ {key},
   seen |-> [Present.seen EXCEPT ![key] = {}],
   changed |-> [a \in Pairs |-> IF key \in Present.verified /\ a \in Present.seen[key]
                                  THEN NoKey ELSE Present.changed[a]]]
LetGo(at) == ForgetChange(ForgetSeen(WithSince(file, [since EXCEPT ![at] = NoKey]), at, NoKey), at)

\* What the next write finds: a change recorded shows the key last seen, nothing else differs.
LEMMA PresentDoes ==
  ASSUME PeopleTypes
  PROVE  /\ Present \in Records /\ Present.verified = file.verified /\ Present.seen = file.seen
         /\ \A at \in Pairs :
              /\ file.changed[at] # NoKey /\ since[at] # NoKey => Present.changed[at] = since[at]
              /\ ~(file.changed[at] # NoKey /\ since[at] # NoKey) =>
                   Present.changed[at] = file.changed[at]
<1>1. file \in Records /\ since \in [Pairs -> MaybeKey]
  BY DEF PeopleTypes
<1> QED BY <1>1, WithSinceDoes DEF Present

\* A verified key that is seen: it is noted there, and its change is over.
LEMMA SeenAgainDoes ==
  ASSUME PeopleTypes, NEW key \in Keys, NEW at \in Pairs
  PROVE  LET n == SeenAgain(key, at) IN
         /\ n \in Records /\ n.verified = file.verified
         /\ n.changed = [Present.changed EXCEPT ![at] = NoKey]
         /\ SeenFits /\ key \in file.verified =>
              /\ n.seen[key] = file.seen[key] \cup {at}
              /\ \A l \in Keys \ {key} : n.seen[l] = file.seen[l] \ {at}
<1> DEFINE s == See(Present, key, at)
<1>1. /\ s \in Records /\ s.verified = file.verified /\ s.changed = Present.changed
      /\ SeenFits /\ key \in file.verified =>
           /\ s.seen[key] = file.seen[key] \cup {at}
           /\ \A l \in Keys \ {key} : s.seen[l] = file.seen[l] \ {at}
  BY PresentDoes, SeeDoes
<1> HIDE DEF s
<1>2. LET n == ForgetChange(s, at) IN
      /\ n \in Records /\ n.verified = s.verified /\ n.seen = s.seen
      /\ n.changed = [s.changed EXCEPT ![at] = NoKey]
  BY <1>1, ForgetChangeDoes
<1>3. SeenAgain(key, at) = ForgetChange(s, at)
  BY DEF SeenAgain, s
<1> QED BY <1>1, <1>2, <1>3

\* Another key shown where a verified one was seen: the change is recorded, there alone.
LEMMA ShownOtherDoes ==
  ASSUME PeopleTypes, NEW key \in Keys, NEW at \in Pairs
  PROVE  LET n == ShownOther(key, at) IN
         /\ n \in Records /\ n.verified = file.verified /\ n.seen = file.seen
         /\ n.changed = [Present.changed EXCEPT ![at] = key]
BY PresentDoes DEF ShownOther, Records, MaybeKey

\* A mark: the key is verified and noted, and every change that shows it is over.
LEMMA MarkedAsDoes ==
  ASSUME PeopleTypes, NEW key \in Keys, NEW at \in Pairs
  PROVE  LET n == MarkedAs(key, at) IN
         /\ n \in Records /\ n.verified = file.verified \cup {key}
         /\ n.changed[at] = NoKey
         /\ \A a \in Pairs \ {at} :
              /\ Present.changed[a] = key => n.changed[a] = NoKey
              /\ Present.changed[a] # key => n.changed[a] = Present.changed[a]
         /\ SeenFits =>
              /\ n.seen[key] = file.seen[key] \cup {at}
              /\ \A l \in Keys \ {key} : n.seen[l] = file.seen[l] \ {at}
<1> DEFINE added == [Present EXCEPT !.verified = @ \cup {key}]
           s == See(added, key, at)
           f == ForgetChange(s, at)
           n == [f EXCEPT !.changed = [a \in Pairs |-> IF f.changed[a] = key THEN NoKey ELSE f.changed[a]]]
<1>1. /\ added \in Records /\ added.verified = file.verified \cup {key}
      /\ added.seen = file.seen /\ added.changed = Present.changed
  BY PresentDoes DEF Records
<1> HIDE DEF added
<1>2. /\ s \in Records /\ s.verified = added.verified /\ s.changed = added.changed
      /\ SeenFits =>
           /\ s.seen[key] = added.seen[key] \cup {at}
           /\ \A l \in Keys \ {key} : s.seen[l] = added.seen[l] \ {at}
  BY <1>1, SeeDoes
<1> HIDE DEF s
<1>3. /\ f \in Records /\ f.verified = s.verified /\ f.seen = s.seen
      /\ f.changed = [s.changed EXCEPT ![at] = NoKey]
  BY <1>2, ForgetChangeDoes
<1> HIDE DEF f
<1>4. /\ n \in Records /\ n.verified = f.verified /\ n.seen = f.seen
      /\ \A a \in Pairs : n.changed[a] = IF f.changed[a] = key THEN NoKey ELSE f.changed[a]
  BY <1>3 DEF Records, MaybeKey
<1>5. MarkedAs(key, at) = n
  BY DEF MarkedAs, f, s, added
<1> HIDE DEF n
<1>6. f.changed[at] = NoKey /\ \A a \in Pairs \ {at} : f.changed[a] = Present.changed[a]
  <2>1. s.changed \in [Pairs -> MaybeKey]
    BY <1>2 DEF Records
  <2> QED BY <2>1, <1>1, <1>2, <1>3
<1>7. NoKey # key
  BY VerifiedAssumption
<1>8. /\ n.changed[at] = NoKey
      /\ \A a \in Pairs \ {at} :
           /\ Present.changed[a] = key => n.changed[a] = NoKey
           /\ Present.changed[a] # key => n.changed[a] = Present.changed[a]
  BY <1>4, <1>6, <1>7
<1>9. /\ n \in Records /\ n.verified = file.verified \cup {key}
      /\ SeenFits =>
           /\ n.seen[key] = file.seen[key] \cup {at}
           /\ \A l \in Keys \ {key} : n.seen[l] = file.seen[l] \ {at}
  BY <1>1, <1>2, <1>3, <1>4
<1> QED BY <1>5, <1>8, <1>9

\* A mark taken back: the key is verified no more, nor watched anywhere.
LEMMA TakenBackDoes ==
  ASSUME PeopleTypes, NEW key \in Keys
  PROVE  LET n == TakenBack(key) IN
         /\ n \in Records /\ n.verified = file.verified \ {key}
         /\ n.seen[key] = {} /\ \A l \in Keys \ {key} : n.seen[l] = file.seen[l]
         /\ \A a \in Pairs :
              /\ key \in file.verified /\ a \in file.seen[key] => n.changed[a] = NoKey
              /\ ~(key \in file.verified /\ a \in file.seen[key]) => n.changed[a] = Present.changed[a]
BY PresentDoes DEF TakenBack, Records, MaybeKey

\* A dismissal: the pair is watched under no key, and its change is over.
LEMMA LetGoDoes ==
  ASSUME PeopleTypes, NEW at \in Pairs
  PROVE  LET n == LetGo(at) IN
         /\ n \in Records /\ n.verified = file.verified
         /\ \A l \in Keys : n.seen[l] = file.seen[l] \ {at}
         /\ n.changed[at] = NoKey /\ \A a \in Pairs \ {at} : n.changed[a] = Present.changed[a]
<1> DEFINE s == [since EXCEPT ![at] = NoKey]
           w == WithSince(file, s)
           f == ForgetSeen(w, at, NoKey)
           n == ForgetChange(f, at)
<1>0. file \in Records /\ since \in [Pairs -> MaybeKey] /\ NoKey \in MaybeKey /\ NoKey \notin Keys
  BY VerifiedAssumption DEF PeopleTypes, MaybeKey
<1>1. s \in [Pairs -> MaybeKey] /\ \A a \in Pairs \ {at} : s[a] = since[a]
  BY <1>0
<1> HIDE DEF s
<1>2. /\ w \in Records /\ w.verified = file.verified /\ w.seen = file.seen
      /\ \A a \in Pairs :
           /\ file.changed[a] # NoKey /\ s[a] # NoKey => w.changed[a] = s[a]
           /\ ~(file.changed[a] # NoKey /\ s[a] # NoKey) => w.changed[a] = file.changed[a]
  BY <1>0, <1>1, WithSinceDoes
<1> HIDE DEF w
<1>3. /\ f \in Records /\ f.verified = w.verified /\ f.changed = w.changed
      /\ \A l \in Keys : f.seen[l] = w.seen[l] \ {at}
  BY <1>0, <1>2, ForgetSeenDoes
<1> HIDE DEF f
<1>4. /\ n \in Records /\ n.verified = f.verified /\ n.seen = f.seen
      /\ n.changed = [f.changed EXCEPT ![at] = NoKey]
  BY <1>3, ForgetChangeDoes
<1> HIDE DEF n
<1>5. n.changed[at] = NoKey /\ \A a \in Pairs \ {at} : n.changed[a] = w.changed[a]
  <2>1. f.changed \in [Pairs -> MaybeKey]
    BY <1>3 DEF Records
  <2> QED BY <2>1, <1>3, <1>4
<1>6. \A a \in Pairs \ {at} : w.changed[a] = Present.changed[a]
  BY <1>1, <1>2, PresentDoes
<1>7. LetGo(at) = n
  BY DEF LetGo, n, f, w, s
<1> QED BY <1>2, <1>3, <1>4, <1>5, <1>6, <1>7

-----------------------------------------------------------------------------
\* What is written is kept in memory, where the file can be read.
LEMMA WrittenKeeps ==
  ASSUME PeopleTypes, NEW next \in Records, NEW shown \in [Pairs -> MaybeKey], Written(next, shown)
  PROVE  /\ file' \in Records /\ mem' \in {file', NoRecords} /\ since' \in [Pairs -> MaybeKey]
         /\ file' \in {file, next}
BY NoRecordsType DEF PeopleTypes, Written

\* A key that is presented verifies nobody (VerifiedKeys::presented).
LEMMA NoteKeepsPeople ==
  ASSUME PeopleInv, NEW at \in Pairs, NEW key \in Keys, Note(at, key)
  PROVE  PeopleInv'
<1>0. PeopleTypes /\ since \in [Pairs -> MaybeKey]
  BY DEF PeopleInv, PeopleTypes
<1>1. /\ file' \in Records /\ mem' \in {file', NoRecords} /\ since' \in [Pairs -> MaybeKey]
      /\ file'.verified = file.verified
  <2>1. NoteShown(at, key)
    BY DEF Note, PresentedShown
  <2>2. CASE UNCHANGED <<file, mem, since>>
    BY <1>0, <2>2 DEF PeopleTypes
  <2>3. CASE Written(SeenAgain(key, at), since)
    <3>1. SeenAgain(key, at) \in Records /\ SeenAgain(key, at).verified = file.verified
      BY <1>0, SeenAgainDoes
    <3> QED BY <1>0, <2>3, <3>1, WrittenKeeps
  <2>4. CASE since' = [since EXCEPT ![at] = key] /\ UNCHANGED <<file, mem>>
    BY <1>0, <2>4 DEF PeopleTypes, MaybeKey
  <2>5. CASE Written(ShownOther(key, at), since)
    BY <1>0, <2>5, ShownOtherDoes, WrittenKeeps
  <2> QED BY <2>1, <2>2, <2>3, <2>4, <2>5
          DEF NoteShown, Change, SeenAgain, ShownOther, Present
<1>2. presented' \in [Pairs -> MaybeKey]
  BY <1>0 DEF Note, Noted, PeopleTypes, MaybeKey
<1>3. expected' \in [Pairs -> MaybeKey] /\ owed' \in [Pairs -> SUBSET Keys]
  BY <1>0 DEF Note, PeopleTypes, MaybeKey
<1>4. UNCHANGED <<readable, told, shownProfile, drawn, asked, compared>>
  BY DEF Note
<1> QED BY <1>1, <1>2, <1>3, <1>4
        DEF PeopleInv, PeopleTypes, MeantShown, ClicksCompared, OnlyCompared

\* A mark taken back verifies nobody.
LEMMA UnverifyKeepsPeople ==
  ASSUME PeopleInv, NEW key \in Keys, Unverify(key)
  PROVE  /\ file' \in Records /\ mem' \in {file', NoRecords} /\ since' \in [Pairs -> MaybeKey]
         /\ file'.verified \subseteq compared
         /\ expected' \in [Pairs -> MaybeKey] /\ owed' \in [Pairs -> SUBSET Keys]
<1>0. PeopleTypes /\ since \in [Pairs -> MaybeKey] /\ file.verified \subseteq compared
  BY DEF PeopleInv, PeopleTypes, OnlyCompared
<1>1. Written(TakenBack(key), since)
  BY DEF Unverify, Change, TakenBack, Present
<1>2. expected' \in [Pairs -> MaybeKey] /\ owed' \in [Pairs -> SUBSET Keys]
  BY <1>0 DEF Unverify, PeopleTypes, MaybeKey
<1> QED BY <1>0, <1>1, <1>2, TakenBackDoes, WrittenKeeps

\* A mark of a key that was compared (set_verified).
LEMMA VerifyKeepsPeople ==
  ASSUME PeopleInv, NEW key \in compared \cap Keys, NEW at \in Pairs, Verify(at, key)
  PROVE  /\ file' \in Records /\ mem' \in {file', NoRecords} /\ since' \in [Pairs -> MaybeKey]
         /\ file'.verified \subseteq compared
         /\ expected' \in [Pairs -> MaybeKey] /\ owed' \in [Pairs -> SUBSET Keys]
<1>0. PeopleTypes /\ since \in [Pairs -> MaybeKey] /\ file.verified \subseteq compared
  BY DEF PeopleInv, PeopleTypes, OnlyCompared
<1>1. Written(MarkedAs(key, at), since)
  BY DEF Verify, Change, MarkedAs, Present
<1>2. expected' \in [Pairs -> MaybeKey]
  BY <1>0 DEF Verify, PeopleTypes, MaybeKey
<1>3. owed' \in [Pairs -> SUBSET Keys]
  <2>1. \A a \in Pairs : key \in owed[a] => Present.changed[a] \in MaybeKey
    BY <1>0, PresentDoes DEF Records
  <2>2. SettledKeys(key, at) \in [Pairs -> SUBSET Keys]
    <3>1. \A a \in Pairs : owed[a] \in SUBSET Keys
      BY <1>0 DEF PeopleTypes
    <3>2. \A a \in Pairs : key \in owed[a] => {Present.changed[a]} \ {key, NoKey} \in SUBSET Keys
      BY <2>1 DEF MaybeKey
    <3> QED BY <3>1, <3>2 DEF SettledKeys, Present
  <2> QED BY <1>0, <2>2 DEF Verify, PeopleTypes
<1> QED BY <1>0, <1>1, <1>2, <1>3, MarkedAsDoes, WrittenKeeps

\* A change that is dismissed verifies nobody (dismiss_change).
LEMMA DismissedKeepsPeople ==
  ASSUME PeopleInv, NEW at \in Pairs, Dismissed(at)
  PROVE  /\ file' \in Records /\ mem' \in {file', NoRecords} /\ since' \in [Pairs -> MaybeKey]
         /\ file'.verified \subseteq compared
         /\ expected' \in [Pairs -> MaybeKey] /\ owed' \in [Pairs -> SUBSET Keys]
<1> DEFINE key == presented[at]
           shown == [since EXCEPT ![at] = NoKey]
           next == IF key \in mem.verified THEN See(LetGo(at), key, at) ELSE LetGo(at)
<1>0. /\ PeopleTypes /\ since \in [Pairs -> MaybeKey] /\ file.verified \subseteq compared
      /\ mem \in Records /\ presented[at] \in MaybeKey
  BY NoRecordsType DEF PeopleInv, PeopleTypes, OnlyCompared
<1>1. Written(next, shown)
  BY DEF Dismissed, Change, LetGo
<1>2. LetGo(at) \in Records /\ LetGo(at).verified = file.verified
  BY <1>0, LetGoDoes
<1>3. key \in mem.verified => key \in Keys
  BY <1>0 DEF Records
<1>4. next \in Records /\ next.verified = file.verified
  BY <1>2, <1>3, SeeDoes
<1>5. shown \in [Pairs -> MaybeKey]
  BY <1>0 DEF MaybeKey
<1>6. expected' \in [Pairs -> MaybeKey] /\ owed' \in [Pairs -> SUBSET Keys]
  BY <1>0 DEF Dismissed, PeopleTypes, MaybeKey
<1> HIDE DEF next, shown
<1> QED BY <1>0, <1>1, <1>4, <1>5, <1>6, WrittenKeeps

\* What the session takes of what the user asked.
LEMMA TakesKeepPeople ==
  ASSUME PeopleInv, TakeMark \/ TakeDismiss \/ UnverifyListed
  PROVE  PeopleInv'
<1>0. PeopleTypes /\ file.verified \subseteq compared
  BY DEF PeopleInv, OnlyCompared
<1>1. /\ UNCHANGED <<readable, presented, told, shownProfile, drawn, compared>> /\ asked' \subseteq asked
  BY DEF TakeMark, TakeDismiss, UnverifyListed
<1>2. /\ file' \in Records /\ mem' \in {file', NoRecords} /\ since' \in [Pairs -> MaybeKey]
      /\ file'.verified \subseteq compared
      /\ expected' \in [Pairs -> MaybeKey] /\ owed' \in [Pairs -> SUBSET Keys]
  <2>1. CASE UNCHANGED <<file, mem, since, expected, owed>>
    BY <1>0, <2>1 DEF PeopleTypes
  <2>2. CASE TakeMark
    <3>1. PICK c \in asked :
            /\ c.do = "mark"
            /\ \/ UNCHANGED <<file, mem, since, expected, owed>>
               \/ c.verified /\ Verify(c.at, c.key)
               \/ Unverify(c.key)
      BY <2>2 DEF TakeMark
    <3>2. c.at \in Pairs /\ c.key \in Keys /\ (c.verified => c.key \in compared)
      BY <3>1 DEF PeopleInv, PeopleTypes, ClicksCompared, Clicks
    <3> QED BY <2>1, <3>1, <3>2, VerifyKeepsPeople, UnverifyKeepsPeople
  <2>3. CASE TakeDismiss
    <3>1. PICK c \in asked : Dismissed(c.at) \/ UNCHANGED <<file, mem, since, expected, owed>>
      BY <2>3 DEF TakeDismiss
    <3>2. c.at \in Pairs
      BY DEF PeopleInv, PeopleTypes, Clicks
    <3> QED BY <2>1, <3>1, <3>2, DismissedKeepsPeople
  <2>4. CASE UnverifyListed
    <3>1. mem.verified \subseteq Keys
      BY <1>0, NoRecordsType DEF PeopleTypes, Records
    <3>2. PICK key \in mem.verified : Unverify(key)
      BY <2>4 DEF UnverifyListed
    <3> QED BY <3>1, <3>2, UnverifyKeepsPeople
  <2> QED BY <2>2, <2>3, <2>4
<1> QED BY <1>1, <1>2 DEF PeopleInv, PeopleTypes, MeantShown, ClicksCompared, OnlyCompared

\* A profile that follows the key presented says so, or shows it for the first time.
LEMMA FollowsPresented ==
  ASSUME NEW d \in Profiles \cup {NoDialog}, NEW people \in [Pairs -> PersonsShown],
         d.open /\ ~d.keyChanged => d.meant \in {NoKey, d.shown}
  PROVE  LET n == FollowPresentedKey(d, people) IN
         /\ n \in Profiles \cup {NoDialog}
         /\ n.open /\ ~n.keyChanged => n.meant \in {NoKey, n.shown}
<1>1. CASE ~d.open
  BY <1>1 DEF FollowPresentedKey, Follow
<1>2. CASE d.open
  <2>1. d \in Profiles
    BY <1>2 DEF NoDialog
  <2> DEFINE key == people[d.user].key
             n == [d EXCEPT !.keyChanged = @ \/ d.shown # NoKey, !.shown = key]
  <2>2. key \in MaybeKey
    BY <2>1 DEF Profiles, PersonsShown
  <2>3. /\ n \in Profiles /\ n.meant = d.meant /\ n.shown = key
        /\ n.keyChanged = (d.keyChanged \/ d.shown # NoKey)
    BY <2>1, <2>2 DEF Profiles
  <2>4. FollowPresentedKey(d, people) \in {d, n}
    BY DEF FollowPresentedKey, Follow
  <2> HIDE DEF n
  <2>5. n.open /\ ~n.keyChanged => n.meant \in {NoKey, n.shown}
    BY <1>2, <2>3
  <2> QED BY <2>1, <2>3, <2>4, <2>5
<1> QED BY <1>1, <1>2

\* What is shown of people.
LEMMA PeopleShown == PeopleTypes => People \in [Pairs -> PersonsShown]
<1> SUFFICES ASSUME PeopleTypes, NEW at \in Pairs
             PROVE  [key |-> presented[at], verified |-> presented[at] \in mem.verified,
                     warned |-> Warned(at)] \in PersonsShown
  BY DEF People
<1>1. presented[at] \in MaybeKey
  BY DEF PeopleTypes
<1>2. Warned(at) \in BOOLEAN
  BY DEF Warned
<1>3. (presented[at] \in mem.verified) \in BOOLEAN
  OBVIOUS
<1> QED BY <1>1, <1>2, <1>3 DEF PersonsShown

\* The dialog: a number that changes under the user is not the one they mark.
LEMMA DialogKeepsPeople ==
  ASSUME PeopleInv,
         \/ StateArrives \/ Draw \/ CloseProfile \/ CompareAgain \/ ClickMark \/ ClickDismiss
         \/ \E at \in ProfilesOpened : OpenProfile(at)
  PROVE  PeopleInv'
<1>0. /\ PeopleTypes /\ MeantShown /\ ClicksCompared /\ OnlyCompared
      /\ UNCHANGED <<file, readable, mem, since, presented, expected, owed>>
  BY DEF PeopleInv, StateArrives, Draw, CloseProfile, CompareAgain, ClickMark, ClickDismiss,
         OpenProfile
<1>1. CASE StateArrives
  <2>1. shownProfile' = FollowPresentedKey(shownProfile, People) /\ People \in [Pairs -> PersonsShown]
    BY <1>0, <1>1, PeopleShown DEF StateArrives
  <2>2. /\ shownProfile' \in Profiles \cup {NoDialog}
        /\ shownProfile'.open /\ ~shownProfile'.keyChanged =>
             shownProfile'.meant \in {NoKey, shownProfile'.shown}
    BY <1>0, <2>1, FollowsPresented DEF PeopleTypes, MeantShown
  <2>3. told' \in [Pairs -> PersonsShown] /\ UNCHANGED <<drawn, asked, compared>>
    BY <1>1, <2>1 DEF StateArrives
  <2> QED BY <1>0, <2>2, <2>3
          DEF PeopleInv, PeopleTypes, MeantShown, ClicksCompared, OnlyCompared
<1>2. ASSUME NEW at \in ProfilesOpened, OpenProfile(at) PROVE PeopleInv'
  <2> DEFINE d == [open |-> TRUE, user |-> at, shown |-> NoKey, keyChanged |-> FALSE, meant |-> NoKey]
  <2>1. d \in Profiles /\ (~d.keyChanged => d.meant \in {NoKey, d.shown})
    BY VerifiedAssumption DEF Profiles, MaybeKey
  <2> HIDE DEF d
  <2>2. shownProfile' = FollowPresentedKey(d, told)
    BY <1>2 DEF OpenProfile, d
  <2>3. /\ shownProfile' \in Profiles \cup {NoDialog}
        /\ shownProfile'.open /\ ~shownProfile'.keyChanged =>
             shownProfile'.meant \in {NoKey, shownProfile'.shown}
    BY <1>0, <2>1, <2>2, FollowsPresented DEF PeopleTypes
  <2>4. UNCHANGED <<told, drawn, asked, compared>>
    BY <1>2 DEF OpenProfile
  <2> QED BY <1>0, <2>3, <2>4
          DEF PeopleInv, PeopleTypes, MeantShown, ClicksCompared, OnlyCompared
<1>3. CASE Draw
  <2>0. UNCHANGED <<told, asked, compared>> /\ drawn' = View
    BY <1>3 DEF Draw
  <2>1. CASE ~shownProfile.open
    <3>1. drawn' = NoDialog /\ shownProfile' = shownProfile
      BY <1>3, <2>1 DEF Draw, View
    <3> QED BY <1>0, <2>0, <3>1
            DEF PeopleInv, PeopleTypes, MeantShown, ClicksCompared, OnlyCompared, NoDialog
  <2>2. CASE shownProfile.open
    <3>1. shownProfile \in Profiles
      BY <1>0, <2>2 DEF PeopleTypes, NoDialog
    <3>2. /\ Meant \in MaybeKey
          /\ ~shownProfile.keyChanged => Meant = shownProfile.shown
      BY <1>0, <2>2, <3>1 DEF Meant, Profiles, MeantShown
    <3>3. told[shownProfile.user] \in PersonsShown
      BY <1>0, <3>1 DEF PeopleTypes, Profiles
    <3>4. /\ drawn' \in ProfilesDrawn /\ drawn'.keyChanged = shownProfile.keyChanged
          /\ drawn'.meant = Meant /\ drawn'.shown = shownProfile.shown
      BY <2>0, <2>2, <3>1, <3>2, <3>3 DEF View, Profiles, ProfilesDrawn
    <3>5. shownProfile' = [shownProfile EXCEPT !.meant = Meant]
      BY <1>3, <2>2 DEF Draw
    <3>6. /\ shownProfile' \in Profiles /\ shownProfile'.meant = Meant
          /\ shownProfile'.shown = shownProfile.shown
          /\ shownProfile'.keyChanged = shownProfile.keyChanged
      BY <3>1, <3>2, <3>5 DEF Profiles
    <3> QED BY <1>0, <2>0, <3>2, <3>4, <3>6
            DEF PeopleInv, PeopleTypes, MeantShown, ClicksCompared, OnlyCompared
  <2> QED BY <2>1, <2>2
<1>4. CASE CloseProfile
  BY <1>0, <1>4
     DEF CloseProfile, PeopleInv, PeopleTypes, MeantShown, ClicksCompared, OnlyCompared, NoDialog
<1>5. CASE CompareAgain
  <2>1. shownProfile \in Profiles
    BY <1>0, <1>5 DEF CompareAgain, PeopleTypes, NoDialog
  <2>2. shownProfile' \in Profiles /\ shownProfile'.meant = NoKey
    BY <1>5, <2>1 DEF CompareAgain, Profiles, MaybeKey
  <2>3. UNCHANGED <<told, drawn, asked, compared>>
    BY <1>5 DEF CompareAgain
  <2> QED BY <1>0, <2>2, <2>3
          DEF PeopleInv, PeopleTypes, MeantShown, ClicksCompared, OnlyCompared
<1>6. CASE ClickMark \/ ClickDismiss
  <2>1. PICK c : /\ asked' = asked \cup {c} /\ UNCHANGED <<told, drawn, shownProfile>>
                 /\ drawn.open /\ ~drawn.keyChanged
                 /\ \/ /\ c = [do |-> "mark", at |-> drawn.user, key |-> drawn.shown,
                                verified |-> ~drawn.person.verified]
                       /\ drawn.shown # NoKey
                       /\ compared' = IF drawn.person.verified THEN compared
                                      ELSE compared \cup {drawn.meant}
                    \/ /\ c = [do |-> "dismiss", at |-> drawn.user, key |-> drawn.shown,
                                verified |-> FALSE]
                       /\ compared' = compared
    BY <1>6 DEF ClickMark, ClickDismiss, MarkEnabled
  <2>2. drawn \in ProfilesDrawn
    BY <1>0, <2>1 DEF PeopleTypes, NoDialog
  <2>3. c \in Clicks /\ (c.do = "mark" => c.key \in Keys)
    <3>1. /\ drawn.user \in Pairs /\ drawn.shown \in MaybeKey
      BY <2>2 DEF ProfilesDrawn
    <3>2. PICK how \in {"mark", "dismiss"}, b \in BOOLEAN :
            /\ c = [do |-> how, at |-> drawn.user, key |-> drawn.shown, verified |-> b]
            /\ how = "mark" => drawn.shown # NoKey
      <4>1. (~drawn.person.verified) \in BOOLEAN /\ FALSE \in BOOLEAN
        OBVIOUS
      <4> QED BY <2>1, <4>1, Zenon
    <3> QED BY <3>1, <3>2 DEF Clicks, MaybeKey
  <2>4. c.do = "mark" /\ c.verified => c.key \in compared'
    BY <1>0, <2>1, <2>2 DEF ProfilesDrawn, MeantShown
  <2>5. compared \subseteq compared'
    BY <2>1
  <2> QED BY <1>0, <2>1, <2>3, <2>4, <2>5
          DEF PeopleInv, PeopleTypes, MeantShown, ClicksCompared, OnlyCompared
<1> QED BY <1>1, <1>2, <1>3, <1>4, <1>5, <1>6

\* Every action keeps it.
LEMMA PeopleStep == PeopleInv /\ [VerifiedNext]_verifiedVars => PeopleInv'
<1> SUFFICES ASSUME PeopleInv, [VerifiedNext]_verifiedVars PROVE PeopleInv'
  OBVIOUS
<1>1. CASE ForgetPresented \/ Reload \/ FileTurns
  <2>1. /\ UNCHANGED <<file, told, shownProfile, drawn, asked, compared, expected, owed>>
        /\ mem' \in {mem, file, NoRecords} /\ since' \in {since, Nobody}
        /\ presented' \in {presented, Nobody} /\ readable' \in {readable, ~readable}
    BY <1>1 DEF ForgetPresented, Reload, FileTurns, Loaded
  <2>2. readable' \in BOOLEAN /\ mem' \in {file, NoRecords}
    BY <2>1 DEF PeopleInv, PeopleTypes
  <2>3. since' \in [Pairs -> MaybeKey] /\ presented' \in [Pairs -> MaybeKey]
    BY <2>1, NoRecordsType DEF PeopleInv, PeopleTypes
  <2>4. OnlyCompared'
    BY <2>1, <2>2, NoRecordsType DEF PeopleInv, OnlyCompared
  <2> QED BY <2>1, <2>2, <2>3, <2>4 DEF PeopleInv, PeopleTypes, MeantShown, ClicksCompared
<1>2. CASE UNCHANGED verifiedVars
  BY <1>2 DEF verifiedVars, PeopleInv, PeopleTypes, MeantShown, ClicksCompared, OnlyCompared
<1> QED BY <1>1, <1>2, NoteKeepsPeople, TakesKeepPeople, DialogKeepsPeople DEF VerifiedNext

-----------------------------------------------------------------------------
\* What the file says of a pair, where it was read.
LEMMA VerifiedThere ==
  ASSUME PeopleTypes, WatchInv, NEW at \in Pairs
  PROVE  /\ mem = file => VerifiedAt(mem, at) = expected[at]
         /\ mem # file => VerifiedAt(mem, at) = NoKey /\ mem.verified = {}
                         /\ \A a \in Pairs : mem.changed[a] = NoKey
         /\ NoKey \notin mem.verified /\ NoKey \notin file.verified
<1>1. CASE mem = file
  <2>1. Watched(at) /\ file.verified \subseteq Keys /\ NoKey \notin Keys
    BY VerifiedAssumption DEF WatchInv, PeopleTypes, Records
  <2>2. CASE expected[at] = NoKey
    BY <1>1, <2>1, <2>2 DEF Watched, VerifiedAt
  <2>3. CASE expected[at] # NoKey
    <3>1. expected[at] \in file.verified /\ at \in file.seen[expected[at]]
      BY <2>1, <2>3 DEF Watched
    <3>2. \A key \in file.verified : at \in file.seen[key] => key = expected[at]
      BY <2>1 DEF Watched
    <3> QED BY <1>1, <2>1, <3>1, <3>2 DEF VerifiedAt
  <2> QED BY <1>1, <2>1, <2>2, <2>3
<1>2. CASE mem # file
  <2>1. mem = NoRecords
    BY <1>2 DEF PeopleTypes
  <2>2. file.verified \subseteq Keys /\ NoKey \notin Keys
    BY VerifiedAssumption DEF PeopleTypes, Records
  <2> QED BY <1>2, <2>1, <2>2, NoRecordsType DEF VerifiedAt
<1> QED BY <1>1, <1>2

\* What the next write makes of a change is a key owed.
LEMMA PresentWatched ==
  ASSUME PeopleTypes, WatchInv, NEW at \in Pairs
  PROVE  /\ Present.changed[at] = NoKey <=> file.changed[at] = NoKey
         /\ owed[at] # {} => Present.changed[at] \in owed[at]
         /\ Present.changed[at] = NoKey <=> owed[at] = {}
<1>1. /\ owed[at] = {} <=> file.changed[at] = NoKey
      /\ owed[at] # {} => file.changed[at] \in owed[at]
      /\ since[at] # NoKey => since[at] \in owed[at]
  BY DEF WatchInv, Watched
<1>2. /\ file.changed[at] # NoKey /\ since[at] # NoKey => Present.changed[at] = since[at]
      /\ ~(file.changed[at] # NoKey /\ since[at] # NoKey) => Present.changed[at] = file.changed[at]
  BY PresentDoes
<1> QED BY <1>1, <1>2

\* A pair that neither the file nor the history tells anything new of.
LEMMA WatchedStays ==
  ASSUME PeopleTypes, WatchInv, NEW at \in Pairs, expected'[at] = expected[at],
         owed'[at] = owed[at],
         file'.verified = file.verified \/ (expected[at] \in file'.verified \cup {NoKey}),
         \A key \in Keys : at \in file'.seen[key] <=> at \in file.seen[key],
         file'.changed[at] \in {file.changed[at], Present.changed[at]},
         since'[at] \in {since[at], NoKey}
  PROVE  Watched(at)'
<1>1. Watched(at)
  BY DEF WatchInv
<1> QED BY <1>1, PresentWatched DEF Watched

\* A key shown is watched: a verified one is noted, another is recorded as a change.
LEMMA NoteWatches ==
  ASSUME PeopleInv, WatchInv, SeenFits, NEW at \in Pairs, NEW key \in Keys, Note(at, key)
  PROVE  WatchInv'
<1>0. /\ PeopleTypes /\ since \in [Pairs -> MaybeKey] /\ expected \in [Pairs -> MaybeKey]
      /\ owed \in [Pairs -> SUBSET Keys] /\ readable \in BOOLEAN /\ NoKey # key
      /\ mem \in {file, NoRecords}
  BY VerifiedAssumption DEF PeopleInv, PeopleTypes
<1> DEFINE there == VerifiedAt(mem, at)
<1>1. NoteShown(at, key)
  BY DEF Note, PresentedShown
<1>2. /\ expected' = IF readable /\ key \in mem.verified THEN [expected EXCEPT ![at] = key] ELSE expected
      /\ owed' = IF key \notin mem.verified /\ expected[at] \in mem.verified
                    /\ (readable \/ mem.changed[at] # NoKey)
                  THEN [owed EXCEPT ![at] = @ \cup {key}]
                  ELSE IF readable /\ key \in mem.verified /\ expected[at] # key
                  THEN [owed EXCEPT ![at] = {}] ELSE owed
  BY DEF Note
<1>3. \A a \in Pairs \ {at} : expected'[a] = expected[a] /\ owed'[a] = owed[a]
  BY <1>0, <1>2
<1> SUFFICES ASSUME NEW a \in Pairs PROVE Watched(a)'
  BY DEF WatchInv
<1>4. /\ mem = file => there = expected[at]
      /\ mem # file => there = NoKey /\ mem.verified = {} /\ mem.changed[at] = NoKey
      /\ NoKey \notin mem.verified
  BY <1>0, VerifiedThere
<1>w. Watched(at) /\ Watched(a)
  BY DEF WatchInv
<1> HIDE DEF there
<1>5. CASE key \in mem.verified /\ there = key
  <2>1. UNCHANGED <<file, mem, since>> /\ mem = file /\ expected[at] = key
    BY <1>1, <1>4, <1>5 DEF NoteShown, there
  <2>2. expected' = expected /\ owed' = owed
    BY <1>0, <1>2, <1>5, <2>1
  <2> QED BY <1>w, <2>1, <2>2 DEF Watched
<1>6. CASE key \in mem.verified /\ there # key
  <2>1. Written(SeenAgain(key, at), since) /\ mem = file
    BY <1>1, <1>4, <1>6 DEF NoteShown, there, Change, SeenAgain, Present
  <2>2. CASE ~readable
    <3>1. UNCHANGED <<file, since>> /\ expected' = expected /\ owed' = owed
      BY <1>2, <1>6, <2>1, <2>2 DEF Written
    <3> QED BY <1>w, <3>1 DEF Watched
  <2>3. CASE readable
    <3> DEFINE n == SeenAgain(key, at)
    <3>1. file' = n /\ since' = Nobody
      BY <2>1, <2>3 DEF Written
    <3>2. /\ n.verified = file.verified /\ n.changed = [Present.changed EXCEPT ![at] = NoKey]
          /\ n.seen[key] = file.seen[key] \cup {at}
          /\ \A l \in Keys \ {key} : n.seen[l] = file.seen[l] \ {at}
      BY <1>0, <1>6, <2>1, SeenAgainDoes
    <3>3. Present.changed \in [Pairs -> MaybeKey]
      BY <1>0, PresentDoes DEF Records
    <3> HIDE DEF n
    <3>4. expected[at] # key /\ expected'[at] = key /\ owed'[at] = {}
      BY <1>0, <1>2, <1>4, <1>6, <2>1, <2>3
    <3>5. CASE a = at
      BY <1>0, <1>6, <2>1, <3>1, <3>2, <3>3, <3>4, <3>5 DEF Watched, Nobody
    <3>6. CASE a # at
      BY <1>0, <1>3, <3>1, <3>2, <3>3, <3>6, WatchedStays DEF Nobody
    <3> QED BY <3>5, <3>6
  <2> QED BY <1>0, <2>2, <2>3
<1>7. CASE key \notin mem.verified /\ there = NoKey
  <2>1. UNCHANGED <<file, mem, since>>
    BY <1>1, <1>7 DEF NoteShown, there
  <2>2. expected[at] \notin mem.verified
    BY <1>4, <1>7
  <2>3. expected' = expected /\ owed' = owed
    BY <1>2, <1>7, <2>2
  <2> QED BY <1>w, <2>1, <2>3 DEF Watched
<1>8. CASE key \notin mem.verified /\ there # NoKey
  <2>1. mem = file /\ expected[at] \in mem.verified
    BY <1>4, <1>8, <1>w DEF Watched
  <2>2. expected' = expected
    BY <1>2, <1>8
  <2>3. CASE mem.changed[at] # NoKey
    <3>1. since' = [since EXCEPT ![at] = key] /\ UNCHANGED <<file, mem>>
      BY <1>1, <1>8, <2>3 DEF NoteShown, there
    <3>2. owed' = [owed EXCEPT ![at] = @ \cup {key}]
      BY <1>2, <1>8, <2>1, <2>3
    <3>3. owed[at] # {} /\ owed'[at] = owed[at] \cup {key} /\ since'[at] = key
      BY <1>0, <1>w, <2>1, <2>3, <3>1, <3>2 DEF Watched
    <3>4. a # at => since'[a] = since[a]
      BY <1>0, <3>1
    <3> QED BY <1>3, <1>w, <2>2, <3>1, <3>3, <3>4 DEF Watched
  <2>4. CASE mem.changed[at] = NoKey
    <3>1. Written(ShownOther(key, at), since)
      BY <1>1, <1>8, <2>4 DEF NoteShown, there, Change, ShownOther, Present
    <3>2. CASE ~readable
      <4>1. UNCHANGED <<file, since>> /\ owed' = owed
        BY <1>2, <1>8, <2>4, <3>1, <3>2 DEF Written
      <4> QED BY <1>w, <2>2, <4>1 DEF Watched
    <3>3. CASE readable
      <4>1. file' = ShownOther(key, at) /\ since' = Nobody
        BY <3>1, <3>3 DEF Written
      <4>2. /\ file'.verified = file.verified /\ file'.seen = file.seen
            /\ file'.changed = [Present.changed EXCEPT ![at] = key]
        BY <1>0, <4>1, ShownOtherDoes
      <4>3. Present.changed \in [Pairs -> MaybeKey]
        BY <1>0, PresentDoes DEF Records
      <4>4. owed'[at] = owed[at] \cup {key}
        BY <1>0, <1>2, <1>8, <2>1, <3>3
      <4>5. CASE a = at
        BY <1>0, <1>w, <2>1, <2>2, <1>4, <4>1, <4>2, <4>3, <4>4, <4>5 DEF Watched, Nobody
      <4>6. CASE a # at
        BY <1>0, <1>3, <4>1, <4>2, <4>3, <4>6, WatchedStays DEF Nobody
      <4> QED BY <4>5, <4>6
    <3> QED BY <1>0, <3>2, <3>3
  <2> QED BY <2>3, <2>4
<1> QED BY <1>5, <1>6, <1>7, <1>8

\* A mark settles the pair and the changes that now show its key.
LEMMA VerifyWatches ==
  ASSUME PeopleInv, WatchInv, SeenFits, NEW at \in Pairs, NEW key \in Keys, Verify(at, key)
  PROVE  WatchInv'
<1>0. /\ PeopleTypes /\ expected \in [Pairs -> MaybeKey] /\ owed \in [Pairs -> SUBSET Keys]
      /\ readable \in BOOLEAN /\ NoKey # key
  BY VerifiedAssumption DEF PeopleInv, PeopleTypes
<1> DEFINE n == MarkedAs(key, at)
<1>1. /\ Written(n, since)
      /\ expected' = IF readable THEN [expected EXCEPT ![at] = key] ELSE expected
      /\ owed' = IF readable THEN SettledKeys(key, at) ELSE owed
  BY DEF Verify, Change, MarkedAs, Present
<1>2. CASE ~readable
  BY <1>1, <1>2 DEF Written, WatchInv, Watched
<1>3. CASE readable
  <2>1. file' = n /\ since' = Nobody
    BY <1>1, <1>3 DEF Written
  <2>2. /\ n.verified = file.verified \cup {key} /\ n.changed[at] = NoKey
        /\ \A a \in Pairs \ {at} :
             /\ Present.changed[a] = key => n.changed[a] = NoKey
             /\ Present.changed[a] # key => n.changed[a] = Present.changed[a]
        /\ n.seen[key] = file.seen[key] \cup {at}
        /\ \A l \in Keys \ {key} : n.seen[l] = file.seen[l] \ {at}
    BY <1>0, MarkedAsDoes
  <2> HIDE DEF n
  <2>3. /\ expected'[at] = key /\ owed'[at] = {}
        /\ \A a \in Pairs \ {at} :
             /\ expected'[a] = expected[a]
             /\ key \notin owed[a] => owed'[a] = owed[a]
             /\ key \in owed[a] => owed'[a] = {Present.changed[a]} \ {key, NoKey}
    BY <1>0, <1>1, <1>3 DEF SettledKeys, Present
  <2> SUFFICES ASSUME NEW a \in Pairs PROVE Watched(a)'
    BY DEF WatchInv
  <2>4. Watched(a)
    BY DEF WatchInv
  <2>5. CASE a = at
    BY <1>0, <2>1, <2>2, <2>3, <2>5 DEF Watched, Nobody
  <2>6. CASE a # at
    <3>1. /\ owed[a] # {} => Present.changed[a] \in owed[a]
          /\ Present.changed[a] = NoKey <=> owed[a] = {}
      BY <1>0, PresentWatched
    <3>2. /\ expected'[a] = expected[a] /\ expected[a] \in file'.verified \cup {NoKey}
          /\ \A l \in Keys : a \in file'.seen[l] <=> expected'[a] = l
          /\ since'[a] = NoKey
      BY <2>1, <2>2, <2>3, <2>4, <2>6 DEF Watched, Nobody
    <3>3. owed'[a] # {} => expected[a] # NoKey
      BY <2>3, <2>4, <2>6 DEF Watched
    <3>4. CASE key \notin owed[a]
      BY <1>0, <2>1, <2>2, <2>3, <2>6, <3>1, <3>2, <3>3, <3>4 DEF Watched
    <3>5. CASE key \in owed[a]
      <4>1. Present.changed[a] # NoKey
        BY <3>1, <3>5
      <4>2. owed'[a] = {Present.changed[a]} \ {key, NoKey}
        BY <2>3, <2>6, <3>5
      <4>3. CASE Present.changed[a] = key
        BY <2>1, <2>2, <2>6, <3>2, <4>2, <4>3 DEF Watched
      <4>4. CASE Present.changed[a] # key
        <5>1. owed'[a] = {Present.changed[a]}
          BY <4>1, <4>2, <4>4
        <5> QED BY <2>1, <2>2, <2>6, <3>2, <3>3, <4>1, <4>4, <5>1 DEF Watched
      <4> QED BY <4>3, <4>4
    <3> QED BY <3>4, <3>5
  <2> QED BY <2>5, <2>6
<1> QED BY <1>0, <1>2, <1>3

\* A key that is taken off is watched for nowhere.
LEMMA UnverifyWatches ==
  ASSUME PeopleInv, WatchInv, NEW key \in Keys, Unverify(key)
  PROVE  WatchInv'
<1>0. /\ PeopleTypes /\ expected \in [Pairs -> MaybeKey] /\ owed \in [Pairs -> SUBSET Keys]
      /\ readable \in BOOLEAN /\ NoKey # key
  BY VerifiedAssumption DEF PeopleInv, PeopleTypes
<1> DEFINE n == TakenBack(key)
<1>1. /\ Written(n, since)
      /\ expected' = IF readable THEN [a \in Pairs |-> IF expected[a] = key THEN NoKey ELSE expected[a]]
                     ELSE expected
      /\ owed' = IF readable THEN [a \in Pairs |-> IF expected[a] = key THEN {} ELSE owed[a]] ELSE owed
  BY DEF Unverify, Change, TakenBack, Present
<1>2. CASE ~readable
  BY <1>1, <1>2 DEF Written, WatchInv, Watched
<1>3. CASE readable
  <2>1. file' = n /\ since' = Nobody
    BY <1>1, <1>3 DEF Written
  <2>2. /\ n.verified = file.verified \ {key}
        /\ n.seen[key] = {} /\ \A l \in Keys \ {key} : n.seen[l] = file.seen[l]
        /\ \A a \in Pairs :
             /\ key \in file.verified /\ a \in file.seen[key] => n.changed[a] = NoKey
             /\ ~(key \in file.verified /\ a \in file.seen[key]) => n.changed[a] = Present.changed[a]
    BY <1>0, TakenBackDoes
  <2> HIDE DEF n
  <2> SUFFICES ASSUME NEW a \in Pairs PROVE Watched(a)'
    BY DEF WatchInv
  <2>3. Watched(a)
    BY DEF WatchInv
  <2>4. CASE expected[a] = key
    <3>1. expected'[a] = NoKey /\ owed'[a] = {}
      BY <1>1, <1>3, <2>4
    <3>2. file'.changed[a] = NoKey /\ \A l \in Keys : a \notin file'.seen[l]
      BY <1>0, <2>1, <2>2, <2>3, <2>4 DEF Watched
    <3>3. since'[a] = NoKey /\ NoKey \notin Keys
      BY <2>1, VerifiedAssumption DEF Nobody
    <3> QED BY <3>1, <3>2, <3>3 DEF Watched
  <2>5. CASE expected[a] # key
    <3>1. expected'[a] = expected[a] /\ owed'[a] = owed[a]
      BY <1>1, <1>3, <2>5
    <3>2. /\ \A l \in Keys : a \in file'.seen[l] <=> a \in file.seen[l]
          /\ expected[a] \in file'.verified \cup {NoKey}
          /\ file'.changed[a] = Present.changed[a] /\ since'[a] = NoKey
      BY <2>1, <2>2, <2>3, <2>5 DEF Watched, Nobody
    <3> QED BY <1>0, <3>1, <3>2, WatchedStays
  <2> QED BY <2>4, <2>5
<1> QED BY <1>0, <1>2, <1>3

\* A change that is dismissed is settled; the verified key presented again stays watched.
LEMMA DismissedWatches ==
  ASSUME PeopleInv, WatchInv, SeenFits, NEW at \in Pairs, Dismissed(at)
  PROVE  WatchInv'
<1> DEFINE key == presented[at]
           shown == [since EXCEPT ![at] = NoKey]
           watched == key \in mem.verified
           next == IF watched THEN See(LetGo(at), key, at) ELSE LetGo(at)
<1>0. /\ PeopleTypes /\ expected \in [Pairs -> MaybeKey] /\ owed \in [Pairs -> SUBSET Keys]
      /\ since \in [Pairs -> MaybeKey] /\ readable \in BOOLEAN /\ NoKey \notin Keys
      /\ mem \in {file, NoRecords} /\ file.verified \subseteq Keys
  BY VerifiedAssumption DEF PeopleInv, PeopleTypes, Records
<1>1. /\ Written(next, shown)
      /\ expected' = IF readable THEN [expected EXCEPT ![at] = IF watched THEN key ELSE NoKey]
                     ELSE expected
      /\ owed' = IF readable THEN [owed EXCEPT ![at] = {}] ELSE owed
  BY DEF Dismissed, Change, LetGo
<1>2. CASE ~readable
  <2>1. /\ file' = file /\ since' = shown /\ expected' = expected /\ owed' = owed
    BY <1>1, <1>2 DEF Written
  <2>2. \A a \in Pairs : since'[a] \in {since[a], NoKey}
    BY <1>0, <2>1
  <2> QED BY <2>1, <2>2 DEF WatchInv, Watched
<1>3. CASE readable
  <2>1. file' = next /\ since' = Nobody
    BY <1>1, <1>3 DEF Written
  <2>2. LET g == LetGo(at) IN
        /\ g \in Records /\ g.verified = file.verified
        /\ \A l \in Keys : g.seen[l] = file.seen[l] \ {at}
        /\ g.changed[at] = NoKey /\ \A a \in Pairs \ {at} : g.changed[a] = Present.changed[a]
    BY <1>0, LetGoDoes
  <2>3. watched => key \in Keys /\ key \in file.verified
    BY <1>0, NoRecordsType
  <2>4. /\ next.verified = file.verified /\ next.changed[at] = NoKey
        /\ \A a \in Pairs \ {at} : next.changed[a] = Present.changed[a]
        /\ \A l \in Keys : next.seen[l] \ {at} = file.seen[l] \ {at}
        /\ \A l \in Keys : at \in next.seen[l] <=> watched /\ l = key
    <3> DEFINE g == LetGo(at)
    <3> HIDE DEF g
    <3>1. CASE watched
      <4> DEFINE s == See(g, key, at)
      <4>1. /\ s.verified = g.verified /\ s.changed = g.changed
            /\ s.seen[key] = g.seen[key] \cup {at}
            /\ \A l \in Keys \ {key} : s.seen[l] = g.seen[l] \ {at}
        BY <2>2, <2>3, <3>1, SeeDoes DEF g
      <4>2. next = s
        BY <3>1 DEF g
      <4> HIDE DEF s, next
      <4> QED BY <2>2, <2>3, <3>1, <4>1, <4>2 DEF g
    <3>2. CASE ~watched
      BY <2>2, <3>2
    <3> QED BY <3>1, <3>2
  <2> HIDE DEF next
  <2>5. /\ expected'[at] = (IF watched THEN key ELSE NoKey) /\ owed'[at] = {}
        /\ \A a \in Pairs \ {at} : expected'[a] = expected[a] /\ owed'[a] = owed[a]
    BY <1>0, <1>1, <1>3
  <2> SUFFICES ASSUME NEW a \in Pairs PROVE Watched(a)'
    BY DEF WatchInv
  <2>6. CASE a = at
    BY <1>0, <2>1, <2>3, <2>4, <2>5, <2>6 DEF Watched, Nobody
  <2>7. CASE a # at
    <3>1. \A l \in Keys : a \in file'.seen[l] <=> a \in file.seen[l]
      BY <2>1, <2>4, <2>7
    <3> QED BY <1>0, <2>1, <2>4, <2>5, <2>7, <3>1, WatchedStays DEF Nobody
  <2> QED BY <2>6, <2>7
<1> QED BY <1>0, <1>2, <1>3

\* Every action keeps the watch.
LEMMA WatchStep ==
  ASSUME PeopleInv, WatchInv, SeenFits, [VerifiedNext]_verifiedVars
  PROVE  WatchInv'
<1>1. CASE UNCHANGED <<file, since, expected, owed>>
  BY <1>1 DEF WatchInv, Watched
<1>2. CASE Reload
  <2>1. since' = Nobody /\ UNCHANGED <<file, expected, owed>>
    BY <1>2 DEF Reload
  <2> QED BY <2>1 DEF WatchInv, Watched, Nobody
<1>3. CASE TakeMark
  <2>1. PICK c \in asked :
          /\ c.do = "mark"
          /\ \/ UNCHANGED <<file, mem, since, expected, owed>>
             \/ Verify(c.at, c.key) \/ Unverify(c.key)
    BY <1>3 DEF TakeMark
  <2>2. c.at \in Pairs /\ c.key \in Keys
    BY <2>1 DEF PeopleInv, PeopleTypes, ClicksCompared, Clicks
  <2> QED BY <1>1, <2>1, <2>2, VerifyWatches, UnverifyWatches
<1>4. CASE TakeDismiss
  <2>1. PICK c \in asked : Dismissed(c.at) \/ UNCHANGED <<file, mem, since, expected, owed>>
    BY <1>4 DEF TakeDismiss
  <2>2. c.at \in Pairs
    BY DEF PeopleInv, PeopleTypes, Clicks
  <2> QED BY <1>1, <2>1, <2>2, DismissedWatches
<1>5. CASE UnverifyListed
  <2>1. mem.verified \subseteq Keys
    BY NoRecordsType DEF PeopleInv, PeopleTypes, Records
  <2>2. PICK key \in mem.verified : Unverify(key)
    BY <1>5 DEF UnverifyListed
  <2> QED BY <2>1, <2>2, UnverifyWatches
<1>6. CASE \/ ForgetPresented \/ FileTurns \/ StateArrives \/ Draw \/ CloseProfile \/ CompareAgain
           \/ ClickMark \/ ClickDismiss \/ (\E at \in ProfilesOpened : OpenProfile(at))
           \/ UNCHANGED verifiedVars
  BY <1>1, <1>6
     DEF ForgetPresented, FileTurns, StateArrives, Draw, CloseProfile, CompareAgain, ClickMark,
         ClickDismiss, OpenProfile, verifiedVars
<1> QED BY <1>2, <1>3, <1>4, <1>5, <1>6, NoteWatches DEF VerifiedNext

\* At the start nobody is verified.
LEMMA PeopleStart == VerifiedInit => PeopleInv /\ WatchInv
<1> SUFFICES ASSUME VerifiedInit PROVE PeopleInv /\ WatchInv
  OBVIOUS
<1>1. [key |-> NoKey, verified |-> FALSE, warned |-> FALSE] \in PersonsShown
  BY DEF PersonsShown, MaybeKey
<1>2. PeopleTypes
  BY <1>1, NoRecordsType DEF VerifiedInit, PeopleTypes
<1>3. MeantShown /\ ClicksCompared /\ OnlyCompared
  BY NoRecordsType DEF VerifiedInit, MeantShown, ClicksCompared, OnlyCompared, NoDialog
<1>4. WatchInv
  BY NoRecordsType, VerifiedAssumption DEF VerifiedInit, WatchInv, Watched, Nobody
<1> QED BY <1>2, <1>3, <1>4 DEF PeopleInv

\* A file that cannot be read is not written.
LEMMA UnreadableStays == ASSUME PeopleInv, VerifiedNext, ~readable PROVE file' = file
<1>1. ASSUME NEW next, NEW shown, Written(next, shown) PROVE file' = file
  BY <1>1 DEF Written
<1>2. ASSUME NEW at, NEW key, Note(at, key) PROVE file' = file
  BY <1>1, <1>2 DEF Note, PresentedShown, NoteShown, Change
<1>3. CASE TakeMark \/ TakeDismiss \/ UnverifyListed
  BY <1>1, <1>3 DEF TakeMark, TakeDismiss, UnverifyListed, Verify, Unverify, Dismissed, Change
<1> QED BY <1>2, <1>3
        DEF VerifiedNext, ForgetPresented, Reload, FileTurns, StateArrives, Draw, CloseProfile,
            CompareAgain, ClickMark, ClickDismiss, OpenProfile

\* Only what the user compared is verified, and a file that cannot be read is not written over,
\* whatever is shown, drawn and clicked in whichever order: app.rs follow_presented_key, trust.rs
\* set_verified, verified.rs change.
THEOREM OnlyComparedVerified == VerifiedSpec => []OnlyCompared /\ UnreadableKept
<1>1. PeopleInv => OnlyCompared
  BY DEF PeopleInv
<1>2. PeopleInv /\ [VerifiedNext]_verifiedVars => [~readable => file' = file]_verifiedVars
  BY UnreadableStays
<1>3. VerifiedInit => PeopleInv
  BY PeopleStart
<1> QED BY <1>1, <1>2, <1>3, PeopleStep, PTL DEF VerifiedSpec, UnreadableKept

\* And a key shown in place of a verified one is warned of until the user settles it, across
\* restarts, as long as a key is not seen under more pairs than are noted (verified.rs MAX_SEEN).
THEOREM TrustAlwaysEarned == SeenFits => (VerifiedSpec => TrustEarned)
<1> SUFFICES ASSUME SeenFits PROVE VerifiedSpec => TrustEarned
  OBVIOUS
<1>1. PeopleInv /\ WatchInv /\ [VerifiedNext]_verifiedVars => (PeopleInv /\ WatchInv)'
  BY PeopleStep, WatchStep
<1>2. PeopleInv /\ WatchInv => SwapWarned
  <2> SUFFICES ASSUME PeopleInv, WatchInv, NEW at \in Pairs, owed[at] # {}
               PROVE  file.changed[at] # NoKey /\ \E key \in file.verified : at \in file.seen[key]
    BY DEF SwapWarned
  <2>1. Watched(at)
    BY DEF WatchInv
  <2>2. file.verified \subseteq Keys
    BY DEF PeopleInv, PeopleTypes, Records
  <2> QED BY <2>1, <2>2 DEF Watched
<1> QED BY <1>1, <1>2, PeopleStart, OnlyComparedVerified, PTL DEF VerifiedSpec, TrustEarned

=============================================================================
