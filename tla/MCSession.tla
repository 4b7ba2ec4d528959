----------------------------- MODULE MCSession -----------------------------
(* Small instances of Session for TLC. *)
EXTENDS Session, TLC

CONSTANTS a, b

MCThreads == {a, b}
ThreadSymmetry == Permutations(MCThreads)
=============================================================================
