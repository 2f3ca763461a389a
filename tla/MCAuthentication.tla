--------------------------- MODULE MCAuthentication ---------------------------
(* An instance of Authentication for TLC.                                   *)
EXTENDS Authentication, TLC

Symmetry == Permutations(Request) \cup Permutations(Session)
=============================================================================
