--------------------------- MODULE MCKeyExchange ---------------------------
(***************************************************************************)
(* KeyExchange for two clients, in two stories.                            *)
(***************************************************************************)
EXTENDS KeyExchange

CONSTANTS ann, bob

\* A bound large enough for the secrets of every story to be told apart.
ManySecrets == 40

\* One new room: Ann renews her key and is kicked, Bob shares and his connection drops.
OneRoom ==
  [visited |-> {1}, first |-> [r \in Rooms |-> 0], moves |-> 4, renewing |-> {ann},
   sharing |-> {bob}, kickable |-> {ann}, returning |-> {bob}, sendRace |-> FALSE, kickRace |-> FALSE]

\* The first room has seen people come and go, the second is new: requests are sent late and
\* kicks heard of late.
TwoRooms ==
  [visited |-> {1, 2}, first |-> [r \in Rooms |-> IF r = 1 THEN 4 ELSE 0], moves |-> 4,
   renewing |-> {}, sharing |-> {}, kickable |-> {ann}, returning |-> {},
   sendRace |-> TRUE, kickRace |-> TRUE]

BothStories == {OneRoom, TwoRooms}
=============================================================================
