---------------------------- MODULE MCEnrollment ----------------------------
(* Enrollment on small instances. *)
EXTENDS Enrollment, TLC

AnyConn == Permutations(Conns)
=============================================================================
