------------------------------ MODULE MCClient -------------------------------
(***************************************************************************)
(* Instances of the client's parts for TLC: one session with its hub and   *)
(* what may happen around it, in stories small enough for TLC; the joins   *)
(* of the main window; the windows of watched shares; and the profile's    *)
(* and the server's picture. They share no state here, so a behaviour runs *)
(* one of them and leaves the others as they began.                        *)
(***************************************************************************)
EXTENDS Session, Joins, Streams, Pictures

CONSTANT bob

VARIABLE part    \* the machine that runs

Away == [o \in Others |-> [room |-> 0, tracks |-> 0, share |-> 0]]
Sharing == [o \in Others |-> [room |-> 1, tracks |-> 1, share |-> 1]]

Story(gives, where, clicks, moves, kicks, timeouts, cuts, ends) ==
  [commands |-> gives, others |-> where, clicks |-> clicks, moves |-> moves, kicks |-> kicks,
   timeouts |-> timeouts, cuts |-> cuts, ends |-> ends]

JoinRoom(r) == [op |-> "join", room |-> r]
Op(op) == [op |-> op]
Switch(op) == {[op |-> op, on |-> b] : b \in BOOLEAN}
Share(c) == [op |-> "share", config |-> c]
Watch(op) == [op |-> op, user |-> bob]

TheStories == {
  \* Watching someone who moves and shares, while answers are late or the link is cut.
  Story({JoinRoom(1), Watch("watch"), Watch("unwatch")}, Sharing, 3, 2, 0, 1, 0, 0),
  Story({JoinRoom(1), Watch("watch"), Op("leave")}, Sharing, 3, 2, 0, 0, 1, 0),
  Story({JoinRoom(1), Watch("watch")}, Sharing, 2, 2, 1, 0, 1, 0),
  \* Sharing, moving and being put out.
  Story({JoinRoom(1), JoinRoom(2), Share(1), Share(2), Op("stop")}, Away, 4, 0, 0, 1, 0, 1),
  Story({JoinRoom(1), JoinRoom(2), Share(1), Op("leave")}, Away, 4, 0, 1, 0, 1, 0),
  \* The switches and the encryption key.
  Story({JoinRoom(1), JoinRoom(2)} \cup Switch("mic") \cup Switch("deafen") \cup {Op("renew")}, Away, 3, 0, 0, 1, 1, 0)}

vars == <<part, sessionVars, joinsVars, streamsVars, picturesVars>>

Init ==
    /\ part \in {"session", "joins", "streams", "pictures"}
    /\ SessionInit /\ JoinsInit /\ StreamsInit /\ PicturesInit
    /\ part # "session" => story = CHOOSE s \in Stories : TRUE
    /\ part # "joins" => listed = {}
    /\ part # "streams" => osFull = FALSE

Next ==
    /\ UNCHANGED part
    /\ \/ /\ part = "session" /\ SessionNext
          /\ UNCHANGED <<joinsVars, streamsVars, picturesVars>>
       \/ /\ part = "joins" /\ JoinsNext
          /\ UNCHANGED <<sessionVars, streamsVars, picturesVars>>
       \/ /\ part = "streams" /\ StreamsNext
          /\ UNCHANGED <<sessionVars, joinsVars, picturesVars>>
       \/ /\ part = "pictures" /\ PicturesNext
          /\ UNCHANGED <<sessionVars, joinsVars, streamsVars>>

Spec == Init /\ [][Next]_vars
=============================================================================
