------------------------------ MODULE MCServer ------------------------------
(* Small instances of Server for TLC. *)
EXTENDS Server, TLC

CONSTANTS t1, t2, s1, s2, s3, s4

SessionSymmetry == Permutations(Sessions)
=============================================================================
