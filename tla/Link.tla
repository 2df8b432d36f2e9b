-------------------------------- MODULE Link --------------------------------
(***************************************************************************)
(* One control stream, from whoever asks in the client to the server's      *)
(* session and back (control.rs, call.rs; the server's session.rs).        *)
(*                                                                         *)
(* Requests and replies meet in Pending, by request id.  Every queue on    *)
(* the way is bounded, and replies travel behind events: the reader passes *)
(* an event to the pump, the pump to the session, and the session takes    *)
(* none while it waits for a reply.  A frame that a task has taken and     *)
(* cannot pass on yet is counted where it came from.                       *)
(***************************************************************************)
EXTENDS Naturals, Sequences

CONSTANTS
  Askers,       \* the tasks that make requests; TheSession is one of them
  TheSession,
  LastId,       \* the largest request id
  Outgoing,     \* the size of the client's queue of encoded requests
  Wire,         \* frames the stream holds, each way
  ServerQueue,  \* the size of the server's queue of replies and events
  EventQueue,   \* the size of the reader's queue of events, and of the pump's
  Pictures,     \* pictures the server may have waiting for the client to read
  MaxAsks,      \* bound: requests
  MaxEmits      \* bound: events

ASSUME LinkAssumption ==
  /\ TheSession \in Askers
  /\ {LastId, Outgoing, Wire, ServerQueue, EventQueue, Pictures, MaxAsks, MaxEmits} \subseteq Nat

VARIABLES
  asker,      \* each asker: what it does, its request's id, and which request it is
  nextId,
  waiting,    \* Pending's waiters: [id, by, ask]
  shut,       \* Pending is closed
  outgoing,   \* encoded requests, to the writer
  writer,     \* the writer task runs
  toServer,   \* the stream, towards the server
  serverOut,  \* the server's replies and events, to its write_loop
  toClient,   \* the stream, towards the client
  reader,     \* the reader task runs
  inbox,      \* events the reader has passed to the pump
  calls,      \* events the pump has passed to the session
  up,         \* the connection is up
  accused,    \* the client closed it over a reply it says it never asked for
  askCount,   \* requests made so far
  emits       \* events so far

linkVars == <<asker, nextId, waiting, shut, outgoing, writer, toServer, serverOut, toClient,
              reader, inbox, calls, up, accused, askCount, emits>>

NotAsking == [at |-> "idle"]
AnEvent == [kind |-> "event"]
Request(id, ask) == [kind |-> "request", id |-> id, ask |-> ask]
Frame(id, ask, picture) == [kind |-> "reply", id |-> id, ask |-> ask, picture |-> picture]

LinkInit ==
  /\ asker = [t \in Askers |-> NotAsking]
  /\ nextId = 0 /\ waiting = {} /\ shut = FALSE
  /\ outgoing = <<>> /\ toServer = <<>> /\ serverOut = <<>> /\ toClient = <<>>
  /\ writer = TRUE /\ reader = TRUE /\ up = TRUE /\ accused = FALSE
  /\ inbox = 0 /\ calls = 0 /\ askCount = 0 /\ emits = 0

-----------------------------------------------------------------------------
(* The client's requests: Requester::request. *)

\* Bug variant of NextId: the ids start again.
NextIdWrapped(n) == IF n = LastId THEN 0 ELSE n + 1
\* Once the last id would be used the link is given up.
NextId(n) == n + 1

\* Bug variant of MayRegister: whether the stream has closed is not looked at.
MayRegisterAlways == TRUE
MayRegister == ~shut

\* Pending::register.  Refused once the stream has closed; when no id is left after this one
\* the connection is closed.
Asks(t) ==
  /\ asker[t] = NotAsking
  /\ askCount < MaxAsks
  /\ askCount' = askCount + 1
  /\ IF MayRegister /\ NextId(nextId) <= LastId
     THEN /\ asker' = [asker EXCEPT ![t] = [at |-> "send", id |-> nextId, ask |-> askCount]]
          /\ waiting' = {w \in waiting : w.id # nextId} \cup {[id |-> nextId, by |-> t, ask |-> askCount]}
          /\ nextId' = NextId(nextId)
          /\ UNCHANGED up
     ELSE /\ up' = (up /\ shut)
          /\ UNCHANGED <<asker, waiting, nextId>>
  /\ UNCHANGED <<shut, outgoing, writer, toServer, serverOut, toClient, reader, inbox, calls,
                 accused, emits>>

\* The request cannot be encoded: it fails alone.
Unsendable(t) ==
  /\ asker[t].at = "send"
  /\ waiting' = {w \in waiting : w.id # asker[t].id}
  /\ asker' = [asker EXCEPT ![t] = NotAsking]
  /\ UNCHANGED <<nextId, shut, outgoing, writer, toServer, serverOut, toClient, reader, inbox,
                 calls, up, accused, askCount, emits>>

\* The frame goes to the writer once its queue has room, if there still is a writer.
Queues(t) ==
  /\ asker[t].at = "send"
  /\ \/ /\ writer /\ Len(outgoing) < Outgoing
        /\ outgoing' = Append(outgoing, Request(asker[t].id, asker[t].ask))
        /\ asker' = [asker EXCEPT ![t].at = "wait"]
     \/ ~writer /\ asker' = [asker EXCEPT ![t] = NotAsking] /\ UNCHANGED outgoing
  /\ UNCHANGED <<nextId, waiting, shut, writer, toServer, serverOut, toClient, reader, inbox,
                 calls, up, accused, askCount, emits>>

\* Bug variant of StillWaiting: whoever gives up takes the waiter along.
StillWaitingNone(t) == {w \in waiting : w.id # asker[t].id}
\* The waiter of a request that timed out stays, for the reply that may come yet.
StillWaiting(t) == waiting

\* Bug variant of MayTimeOut: only the wait for room in the queue is timed.
MayTimeOutSending(t) == asker[t].at = "send"
\* REPLY_TIMEOUT, from the moment the frame is queued.
MayTimeOut(t) == asker[t].at = "wait"

TimesOut(t) ==
  /\ MayTimeOut(t)
  /\ waiting' = StillWaiting(t)
  /\ asker' = [asker EXCEPT ![t] = NotAsking]
  /\ UNCHANGED <<nextId, shut, outgoing, writer, toServer, serverOut, toClient, reader, inbox,
                 calls, up, accused, askCount, emits>>

\* The reply has come, or the waiter is gone as the stream closed.
RequestOver(t) ==
  /\ \/ asker[t].at = "answered"
     \/ asker[t].at = "wait" /\ ~\E w \in waiting : w.by = t /\ w.ask = asker[t].ask
  /\ asker' = [asker EXCEPT ![t] = NotAsking]
  /\ UNCHANGED <<nextId, waiting, shut, outgoing, writer, toServer, serverOut, toClient, reader,
                 inbox, calls, up, accused, askCount, emits>>

-----------------------------------------------------------------------------
(* The client's writer, reader and pump: spawn_link, start_after. *)

Writes ==
  /\ writer /\ up /\ outgoing # <<>> /\ Len(toServer) < Wire
  /\ toServer' = Append(toServer, Head(outgoing))
  /\ outgoing' = Tail(outgoing)
  /\ UNCHANGED <<asker, nextId, waiting, shut, writer, serverOut, toClient, reader, inbox, calls,
                 up, accused, askCount, emits>>

\* Pending::close.
Shuts == shut' = TRUE /\ waiting' = {}

\* A write fails, as the connection is down: every waiter fails, and the writer ends.
WriteFails ==
  /\ writer /\ ~up /\ outgoing # <<>>
  /\ writer' = FALSE /\ outgoing' = <<>>
  /\ Shuts
  /\ UNCHANGED <<asker, nextId, toServer, serverOut, toClient, reader, inbox, calls, up, accused,
                 askCount, emits>>

\* An asker that gave up has dropped its receiver: its reply is dropped too.
Delivered(w, frame) ==
  IF asker[w.by].at = "wait" /\ asker[w.by].ask = w.ask
  THEN [asker EXCEPT ![w.by] = [at |-> "answered", ask |-> w.ask, answer |-> frame.ask]]
  ELSE asker

\* A reply reaches its waiter; one nobody waits for closes the connection (which is down already
\* where a failed write has ended all waiting).
ReadsReply ==
  /\ reader /\ toClient # <<>> /\ Head(toClient).kind = "reply"
  /\ LET frame == Head(toClient)
         found == {w \in waiting : w.id = frame.id}
     IN \/ \E w \in found : /\ asker' = Delivered(w, frame)
                            /\ waiting' = waiting \ {w}
                            /\ UNCHANGED <<shut, reader, up, accused>>
        \/ /\ found = {}
           /\ accused' = (accused \/ ~shut) /\ up' = FALSE /\ reader' = FALSE
           /\ Shuts
           /\ UNCHANGED asker
  /\ toClient' = Tail(toClient)
  /\ UNCHANGED <<nextId, outgoing, writer, toServer, serverOut, inbox, calls, askCount, emits>>

\* An event waits for room in the pump's queue, and everything behind it with it.
ReadsEvent ==
  /\ reader /\ toClient # <<>> /\ Head(toClient).kind = "event"
  /\ inbox < EventQueue
  /\ inbox' = inbox + 1
  /\ toClient' = Tail(toClient)
  /\ UNCHANGED <<asker, nextId, waiting, shut, outgoing, writer, toServer, serverOut, reader,
                 calls, up, accused, askCount, emits>>

ReaderHeldUp == toClient # <<>> /\ Head(toClient).kind = "event" /\ inbox = EventQueue

\* The stream has ended, or what it brings is no message.
ReadFails ==
  /\ reader /\ ~up
  /\ reader' = FALSE /\ toClient' = <<>>
  /\ Shuts
  /\ UNCHANGED <<asker, nextId, outgoing, writer, toServer, serverOut, inbox, calls, up, accused,
                 askCount, emits>>

Pumps ==
  /\ inbox > 0 /\ calls < EventQueue
  /\ inbox' = inbox - 1 /\ calls' = calls + 1
  /\ UNCHANGED <<asker, nextId, waiting, shut, outgoing, writer, toServer, serverOut, toClient,
                 reader, up, accused, askCount, emits>>

\* The session takes an event, when it is not waiting for a reply.
SessionTakes ==
  /\ asker[TheSession] = NotAsking /\ calls > 0
  /\ calls' = calls - 1
  /\ UNCHANGED <<asker, nextId, waiting, shut, outgoing, writer, toServer, serverOut, toClient,
                 reader, inbox, up, accused, askCount, emits>>

-----------------------------------------------------------------------------
(* The server's session. *)

\* The replies with a picture that wait for the client.
QueuedPictures == Len(SelectSeq(serverOut, LAMBDA m : m.kind = "reply" /\ m.picture))

\* read_loop: the next request is taken once the reply to the last has been queued; a picture
\* also waits for its share of the budget, which write_loop gives back.
Serves(picture) ==
  /\ up /\ toServer # <<>> /\ Len(serverOut) < ServerQueue
  /\ picture => QueuedPictures < Pictures
  /\ serverOut' = Append(serverOut, Frame(Head(toServer).id, Head(toServer).ask, picture))
  /\ toServer' = Tail(toServer)
  /\ UNCHANGED <<asker, nextId, waiting, shut, outgoing, writer, toClient, reader, inbox, calls,
                 up, accused, askCount, emits>>

\* The hub's send: a client that leaves its queue full is cut off.
Emits ==
  /\ up /\ emits < MaxEmits
  /\ emits' = emits + 1
  /\ IF Len(serverOut) < ServerQueue
     THEN serverOut' = Append(serverOut, AnEvent) /\ UNCHANGED up
     ELSE up' = FALSE /\ UNCHANGED serverOut
  /\ UNCHANGED <<asker, nextId, waiting, shut, outgoing, writer, toServer, toClient, reader,
                 inbox, calls, accused, askCount>>

\* write_loop.
ServerWrites ==
  /\ up /\ serverOut # <<>> /\ Len(toClient) < Wire
  /\ toClient' = Append(toClient, Head(serverOut))
  /\ serverOut' = Tail(serverOut)
  /\ UNCHANGED <<asker, nextId, waiting, shut, outgoing, writer, toServer, reader, inbox, calls,
                 up, accused, askCount, emits>>

\* The connection drops.
GoesDown ==
  /\ up /\ up' = FALSE
  /\ UNCHANGED <<asker, nextId, waiting, shut, outgoing, writer, toServer, serverOut, toClient,
                 reader, inbox, calls, accused, askCount, emits>>

LinkNext ==
  \/ \E t \in Askers : Asks(t) \/ Unsendable(t) \/ Queues(t) \/ TimesOut(t) \/ RequestOver(t)
  \/ Writes \/ WriteFails \/ ReadsReply \/ ReadsEvent \/ ReadFails \/ Pumps \/ SessionTakes
  \/ \E picture \in BOOLEAN : Serves(picture)
  \/ Emits \/ ServerWrites \/ GoesDown

\* The tasks run, a timer fires, and the session takes events whenever it asks for nothing.  The
\* reader notices a closed stream unless it is held up by an event.  The server serves requests.
LinkFairness ==
  /\ \A t \in Askers : WF_linkVars(Queues(t)) /\ WF_linkVars(TimesOut(t) \/ RequestOver(t))
  /\ WF_linkVars(Writes \/ WriteFails)
  /\ WF_linkVars(ReadsReply \/ ReadsEvent \/ (ReadFails /\ ~ReaderHeldUp))
  /\ WF_linkVars(Pumps) /\ WF_linkVars(SessionTakes)
  /\ WF_linkVars(\E picture \in BOOLEAN : Serves(picture)) /\ WF_linkVars(ServerWrites)

LinkSpec == LinkInit /\ [][LinkNext]_linkVars /\ LinkFairness

-----------------------------------------------------------------------------
(* Properties. *)

\* An asker is handed the reply to its own request, however late the replies to earlier ones
\* come (Pending's ids never wrap).
OwnAnswer == \A t \in Askers : asker[t].at = "answered" => asker[t].answer = asker[t].ask

\* control.rs of request: "so a late reply is dropped rather than taken for a reply to a request
\* never sent": a server that answers each request once is never accused of a protocol error.
NeverAccused == ~accused

\* Once the stream is known to be closed nobody waits for a reply out of REPLY_TIMEOUT's mercy:
\* every waiter has been failed, and no later request gets one.
ClosedFailsAll == shut => waiting = {}

\* control.rs of REPLY_TIMEOUT: a request ends, with a reply or without, even where the reply is
\* stuck behind events that only the asker itself takes.
RequestsEnd == \A t \in Askers : (asker[t].at # "idle") ~> (asker[t].at = "idle")

\* Requests and replies meet, or fail together (control.rs Pending).
RepliesMatch == OwnAnswer /\ NeverAccused /\ ClosedFailsAll

=============================================================================
