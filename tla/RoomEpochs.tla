----------------------------- MODULE RoomEpochs -----------------------------
(***************************************************************************)
(* What the clients' end-to-end encryption needs of the server's rooms.    *)
(* Sender keys are made for one epoch of one room and given to its members;*)
(* a client that joins must not be able to use keys made before it came,   *)
(* so nobody may be added to an epoch that has begun.  Losing members is   *)
(* harmless to those who stay (the server stops forwarding), and a server  *)
(* that can't record a new epoch still lets people go.                     *)
(***************************************************************************)
EXTENDS Integers

CONSTANTS Rooms, Users, limit

VARIABLES epoch, members

Init ==
  /\ epoch = [r \in Rooms |-> 0]
  /\ members = [r \in Rooms |-> {}]

\* A room may move to its next epoch, and only then may someone new be among its members.
Step(r) ==
  \/ epoch'[r] = epoch[r] /\ members'[r] \subseteq members[r]
  \/ epoch'[r] = epoch[r] + 1 /\ epoch'[r] <= limit /\ members'[r] \subseteq Users

Next ==
  /\ epoch' \in [Rooms -> 0..limit]
  /\ members' \in [Rooms -> SUBSET Users]
  /\ \A r \in Rooms : Step(r)

Spec == Init /\ [][Next]_<<epoch, members>>
=============================================================================
