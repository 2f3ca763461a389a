-------------------------- MODULE MCRefreshSessions --------------------------
(* Instances of RefreshSessions for TLC.                                    *)
EXTENDS RefreshSessions, TLC

\* No definition depends on an order of requests or of session identifiers.
Symmetry == Permutations(Request) \cup Permutations(Session)
=============================================================================
