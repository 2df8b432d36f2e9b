----------------------------- MODULE Handshake -----------------------------
(***************************************************************************)
(* Signing in and enrolling, message by message, over connections that may *)
(* lead to the server or to someone between it and the client              *)
(* (connection.rs, control.rs and account.rs of the client; session.rs and *)
(* auth.rs of the server; the transcript of throcc-crypto).                *)
(*                                                                         *)
(* A connection's number stands for its TLS exporter and for the nonces    *)
(* drawn for it.  Cryptography is ideal: a signature or confirmation is    *)
(* the record of what it covers, and only its maker can make it.  Whoever  *)
(* is between has a key of their own, can repeat anything they were sent   *)
(* and anything of their own, and doesn't know the invite's secret.        *)
(***************************************************************************)
EXTENDS Naturals, FiniteSets

CONSTANTS
  MaxConns,   \* bound: connections
  MaxDials    \* bound: those of the client

ASSUME HandshakeAssumption == MaxConns \in Nat /\ MaxDials \in Nat

VARIABLES
  conn,      \* the connections: who dialled, and whose key the other end has
  client,    \* the client's side of each
  server,    \* the server's side of each
  toUs,      \* what was sent to whoever dialled
  toThem,    \* and to the other end
  heard,     \* what those between have been sent
  pinned,    \* known_servers: the key pinned for the address, and who vouched for it
  enrolled,  \* the identity keys with an account
  invited    \* the invite is live

shakeVars == <<conn, client, server, toUs, toThem, heard, pinned, enrolled, invited>>

Numbers == 1..MaxConns
Nothing == [kind |-> "none"]
Unused == [by |-> "nobody", to |-> "nobody"]
NotPinned == [key |-> "none", by |-> "nobody"]
Out == [at |-> "out"]

\* The invite's code, the secret of which the client may have mistyped.
Secrets == {"right", "typo"}

\* The client is new, or has enrolled and then trusted a key that was not the server's.
HandshakeInit ==
  /\ conn = [c \in Numbers |-> Unused]
  /\ client = [c \in Numbers |-> Out]
  /\ server = [c \in Numbers |-> Out]
  /\ toUs = [c \in Numbers |-> Nothing]
  /\ toThem = [c \in Numbers |-> Nothing]
  /\ heard = {}
  /\ \/ pinned = NotPinned /\ enrolled = {}
     \/ pinned = [key |-> "between", by |-> "user"] /\ enrolled = {"us"}
  /\ invited = TRUE

-----------------------------------------------------------------------------
(* What is signed and confirmed. *)

Signed(key, on) == [key |-> key, on |-> on]

\* Bug variant of AuthMessage: the connection is left out.
AuthMessageUnbound(serverNonce, clientNonce, exporter) == <<"auth", serverNonce, clientNonce>>
\* auth_message.
AuthMessage(serverNonce, clientNonce, exporter) == <<"auth", serverNonce, clientNonce, exporter>>

\* Bug variant of Transcript: neither the server's key nor the connection is in it.
TranscriptUnbound(serverNonce, hello, key, exporter, pakeB) ==
  <<"enroll", serverNonce, hello.nonce, hello.pubkey, hello.pake, pakeB>>
\* Transcript, as one side sees it: `key` is the server's that it used or was shown.
Transcript(serverNonce, hello, key, exporter, pakeB) ==
  <<"enroll", serverNonce, hello.nonce, hello.pubkey, key, exporter, hello.pake, pakeB>>

Pake(c, who, secret) == <<c, who, secret>>
Secret(pake) == pake[3]

\* SPAKE2: both sides have one key where they used one secret, else each a key nobody else has.
PakeKey(mine, a, b) == IF Secret(a) = Secret(b) THEN <<a, b>> ELSE <<mine, a, b>>

\* ConfirmKeys and mac.
Confirms(side, key, transcript) == <<side, key, transcript>>

-----------------------------------------------------------------------------
(* The client. *)

Dialled(who) == {c \in Numbers : conn[c].by = who}
IsNext(c) == conn[c] = Unused /\ \A d \in 1..(c - 1) : conn[d] # Unused

\* serve, greet: the server opens the stream with its hello.  Those between do as they like.
GreetedBy(c, to) ==
  IF to = "server"
  THEN /\ server' = [server EXCEPT ![c] = [at |-> "hello"]]
       /\ toUs' = [toUs EXCEPT ![c] = [kind |-> "hello", nonce |-> c, protocol |-> TRUE]]
  ELSE UNCHANGED <<server, toUs>>

\* PinVerifier: the pinned key alone, or whatever key where there is no pin.
Accepts(pin, key) == pin = "none" \/ pin = key

\* sign_in and enroll, to the connection: enrolling asks for no particular key.  A connection
\* that shows another key than the pinned one comes to nothing but the warning.
Dial(c, how, secret, to) ==
  /\ IsNext(c) /\ Cardinality(Dialled("us")) < MaxDials
  /\ how = "login" => pinned # NotPinned
  /\ conn' = [conn EXCEPT ![c] = [by |-> "us", to |-> to]]
  /\ IF Accepts(IF how = "login" THEN pinned.key ELSE "none", to)
     THEN /\ client' = [client EXCEPT ![c] = [at |-> "hello", how |-> how, secret |-> secret]]
          /\ GreetedBy(c, to)
     ELSE /\ client' = [client EXCEPT ![c] = [at |-> "mismatch", shown |-> to]]
          /\ UNCHANGED <<server, toUs>>
  /\ UNCHANGED <<toThem, heard, pinned, enrolled, invited>>

\* The user trusts the key the warning shows.
TrustShown(c) ==
  /\ client[c].at = "mismatch"
  /\ pinned' = [key |-> client[c].shown, by |-> "user"]
  /\ client' = [client EXCEPT ![c] = Out]
  /\ UNCHANGED <<conn, server, toUs, toThem, heard, enrolled, invited>>

\* One side takes the message sent to it, and goes on; the other is sent `message`.
Takes(c, message) ==
  /\ toUs' = [toUs EXCEPT ![c] = Nothing]
  /\ toThem' = [toThem EXCEPT ![c] = message]
  /\ heard' = IF conn[c].to = "between" THEN heard \cup {message} ELSE heard

\* The client gives up: a timeout, a refusal, or something it closes the connection over.
Abandons(c) ==
  /\ conn[c].by = "us" /\ client[c].at \in {"hello", "step", "result"}
  /\ client' = [client EXCEPT ![c] = Out]
  /\ toUs' = [toUs EXCEPT ![c] = Nothing]
  /\ UNCHANGED <<conn, server, toThem, heard, pinned, enrolled, invited>>

AuthHello(c, serverNonce) ==
  [kind |-> "auth", pubkey |-> "us", nonce |-> c,
   signature |-> Signed("us", AuthMessage(serverNonce, c, c))]
EnrollHello(c, secret) ==
  [kind |-> "enroll", pubkey |-> "us", nonce |-> c, pake |-> Pake(c, "us", secret)]

\* greet, and the hello of login or enroll.  A server of another protocol is left.
Greet(c) ==
  /\ client[c].at = "hello" /\ toUs[c].kind = "hello" /\ toUs[c].protocol
  /\ LET nonce == toUs[c].nonce IN
     IF client[c].how = "login"
     THEN /\ client' = [client EXCEPT ![c] = [at |-> "result", how |-> "login"]]
          /\ Takes(c, AuthHello(c, nonce))
     ELSE /\ client' = [client EXCEPT ![c] = [at |-> "step", how |-> "enroll",
                                              secret |-> client[c].secret, nonce |-> nonce]]
          /\ Takes(c, EnrollHello(c, client[c].secret))
  /\ UNCHANGED <<conn, server, pinned, enrolled, invited>>

\* Bug variant of Pins: the key is pinned as soon as the code is proved.
PinsProved(stage) == stage = "proved"
\* The key is pinned once the server has welcomed us.
Pins(stage) == stage = "welcomed"

\* trust, which may fail to write the file.
PinsKey(c, stage) ==
  IF Pins(stage) /\ client[c].how = "enroll"
  THEN pinned' \in {pinned, [key |-> conn[c].to, by |-> "code"]}
  ELSE UNCHANGED pinned

\* ClientPake::finish: a server that doesn't prove the code is left.
Prove(c) ==
  /\ client[c].at = "step" /\ toUs[c].kind = "step"
  /\ LET hello == EnrollHello(c, client[c].secret)
         t == Transcript(client[c].nonce, hello, conn[c].to, c, toUs[c].pake)
         key == PakeKey("a", hello.pake, toUs[c].pake)
     IN /\ toUs[c].confirm = Confirms("b", key, t)
        /\ Takes(c, [kind |-> "finish", confirm |-> Confirms("a", key, t),
                     signature |-> Signed("us", t)])
  /\ client' = [client EXCEPT ![c] = [at |-> "result", how |-> "enroll"]]
  /\ PinsKey(c, "proved")
  /\ UNCHANGED <<conn, server, enrolled, invited>>

\* finish_login, and enroll's last steps.
Welcomed(c) ==
  /\ client[c].at = "result" /\ toUs[c].kind = "welcome"
  /\ client' = [client EXCEPT ![c] = [at |-> "in"]]
  /\ toUs' = [toUs EXCEPT ![c] = Nothing]
  /\ PinsKey(c, "welcomed")
  /\ UNCHANGED <<conn, server, toThem, heard, enrolled, invited>>

-----------------------------------------------------------------------------
(* The server. *)

\* The server has taken what it was sent, and answers.
Answers(c, next, message) ==
  /\ server' = [server EXCEPT ![c] = next]
  /\ toThem' = [toThem EXCEPT ![c] = Nothing]
  /\ toUs' = [toUs EXCEPT ![c] = message]
  /\ heard' = IF conn[c].by = "between" /\ message.kind # "none" THEN heard \cup {message}
              ELSE heard

\* Refused, timed out or cut off; to the other side it is all an end.
Refuses(c) ==
  /\ server[c].at \in {"hello", "finish"}
  /\ Answers(c, Out, Nothing)
  /\ UNCHANGED <<conn, client, pinned, enrolled, invited>>

\* authenticate, of a ClientHello::Auth.
Authenticate(c) ==
  /\ server[c].at = "hello" /\ toThem[c].kind = "auth"
  /\ LET hello == toThem[c] IN
     /\ hello.signature = Signed(hello.pubkey, AuthMessage(c, hello.nonce, c))
     /\ hello.pubkey \in enrolled
     /\ Answers(c, [at |-> "in", who |-> hello.pubkey], [kind |-> "welcome"])
  /\ UNCHANGED <<conn, client, pinned, enrolled, invited>>

\* claim_try and exchange, to the reply: without a live invite the secret is a decoy.
Respond(c) ==
  /\ server[c].at = "hello" /\ toThem[c].kind = "enroll"
  /\ LET hello == toThem[c]
         b == Pake(c, "server", IF invited THEN "right" ELSE "decoy")
         t == Transcript(c, hello, "server", c, b)
         key == PakeKey("b", hello.pake, b)
     IN Answers(c, [at |-> "finish", pubkey |-> hello.pubkey, transcript |-> t,
                    confirm |-> Confirms("a", key, t), decoy |-> ~invited],
                [kind |-> "step", pake |-> b, confirm |-> Confirms("b", key, t)])
  /\ UNCHANGED <<conn, client, pinned, enrolled, invited>>

\* The rest of exchange, then db.enroll and the hub's connect, which may find the server full:
\* the account is made even so.
Enrolls(c, full) ==
  /\ server[c].at = "finish" /\ toThem[c].kind = "finish"
  /\ toThem[c].confirm = server[c].confirm
  /\ toThem[c].signature = Signed(server[c].pubkey, server[c].transcript)
  /\ ~server[c].decoy /\ invited
  /\ enrolled' = enrolled \cup {server[c].pubkey}
  /\ invited' = FALSE
  /\ Answers(c, [at |-> IF full THEN "full" ELSE "in", who |-> server[c].pubkey],
             IF full THEN Nothing ELSE [kind |-> "welcome"])
  /\ UNCHANGED <<conn, client, pinned>>

\* Another invite of that id and secret, as handed to the client.
Invite ==
  /\ ~invited /\ invited' = TRUE
  /\ UNCHANGED <<conn, client, server, toUs, toThem, heard, pinned, enrolled>>

-----------------------------------------------------------------------------
(* Those between. *)

HeardOf(kind) == {m \in heard : m.kind = kind}
Signatures == {m.signature : m \in HeardOf("auth") \cup HeardOf("finish")}

\* They dial the server.
Reach(c) ==
  /\ IsNext(c)
  /\ conn' = [conn EXCEPT ![c] = [by |-> "between", to |-> "server"]]
  /\ server' = [server EXCEPT ![c] = [at |-> "hello"]]
  /\ heard' = heard \cup {[kind |-> "hello", nonce |-> c, protocol |-> TRUE]}
  /\ UNCHANGED <<client, toUs, toThem, pinned, enrolled, invited>>

\* What they can send a server: what they heard, with their own values in the place of others.
ToServer(c) ==
  LET nonces == {c} \cup {m.nonce : m \in HeardOf("auth") \cup HeardOf("enroll")}
      pakes == {Pake(c, "between", "guess")} \cup {m.pake : m \in HeardOf("enroll")}
      own == IF server[c].at = "finish" THEN {Signed("between", server[c].transcript)} ELSE {}
  IN [kind : {"auth"}, pubkey : {"us"}, nonce : nonces, signature : Signatures]
     \cup [kind : {"enroll"}, pubkey : {"us", "between"}, nonce : nonces, pake : pakes]
     \cup [kind : {"finish"}, confirm : {m.confirm : m \in HeardOf("finish")},
           signature : Signatures \cup own]

\* And what they can send a client that dialled them.
ToClient(c) ==
  {[kind |-> "hello", nonce |-> c, protocol |-> p] : p \in BOOLEAN}
  \cup HeardOf("hello") \cup HeardOf("step") \cup {[kind |-> "welcome"]}

Between(c) ==
  /\ \/ /\ conn[c].by = "between" /\ server[c].at \in {"hello", "finish"} /\ toThem[c] = Nothing
        /\ \E m \in ToServer(c) :
             /\ m.kind \in (IF server[c].at = "hello" THEN {"auth", "enroll"} ELSE {"finish"})
             /\ toThem' = [toThem EXCEPT ![c] = m]
        /\ UNCHANGED toUs
     \/ /\ conn[c] = [by |-> "us", to |-> "between"] /\ toUs[c] = Nothing
        /\ \E m \in ToClient(c) :
             /\ client[c].at = (IF m.kind = "welcome" THEN "result" ELSE m.kind)
             /\ toUs' = [toUs EXCEPT ![c] = m]
        /\ UNCHANGED toThem
  /\ UNCHANGED <<conn, client, server, heard, pinned, enrolled, invited>>

-----------------------------------------------------------------------------

HandshakeNext ==
  \/ Invite
  \/ \E c \in Numbers :
       \/ \E to \in {"server", "between"} :
            Dial(c, "login", "none", to) \/ \E s \in Secrets : Dial(c, "enroll", s, to)
       \/ TrustShown(c) \/ Greet(c) \/ Prove(c) \/ Welcomed(c) \/ Abandons(c)
       \/ Refuses(c) \/ Authenticate(c) \/ Respond(c)
       \/ \E full \in BOOLEAN : Enrolls(c, full)
       \/ Reach(c) \/ Between(c)

HandshakeSpec == HandshakeInit /\ [][HandshakeNext]_shakeVars

-----------------------------------------------------------------------------
(* Properties. *)

\* Whom the server takes for us is us, on the very connection we dialled: what we sent to
\* someone between, even one whose key the user chose to trust, signs in or enrolls nobody
\* elsewhere (auth_message, Transcript).
OurselvesOnly ==
  \A c \in Numbers : server[c].at \in {"in", "full"} /\ server[c].who = "us" => conn[c].by = "us"

\* account.rs of enroll: "pins the server the PAKE proved": a key pinned by enrolling is the
\* server's, whoever answered.
ProvedPinned == pinned.by = "code" => pinned.key = "server"

\* A server pinned by enrolling knows us: no answer that is lost, and no sign-in that is refused
\* after the proof, leaves a pin behind for a server we can't sign in to.
PinnedKnowsUs == pinned.by = "code" => "us" \in enrolled

\* Each side is whom the other takes it for, whoever is between them (control.rs login and
\* enroll, auth.rs authenticate, account.rs enroll).
IdentityProved == OurselvesOnly /\ ProvedPinned /\ PinnedKnowsUs

=============================================================================
