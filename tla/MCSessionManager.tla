---------------------------- MODULE MCSessionManager ----------------------------
(* Instances of SessionManager for TLC.                                     *)
EXTENDS SessionManager, TLC

MCSymmetry == Permutations(Pairs) \cup Permutations(Requests)
=============================================================================
