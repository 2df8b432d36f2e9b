------------------------------- MODULE MCHub -------------------------------
EXTENDS Hub, TLC

CONSTANTS ann, bob, t1, t2

\* An admin and a manager she invited, whom she may demote.
AdminAndManager == (ann :> "Admin") @@ (bob :> "Manager")
AnnInvitedBob == (ann :> NoUser) @@ (bob :> ann)

TaskSymmetry == Permutations(Tasks)
=============================================================================
