---------------------------- MODULE MCPasswordLogin ----------------------------
(* Instances of PasswordLogin for TLC.                                      *)
EXTENDS PasswordLogin, TLC

Symmetry == Permutations(Request)
=============================================================================
