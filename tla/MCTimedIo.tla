------------------------------ MODULE MCTimedIo ------------------------------
(* Every copy of the protocol on one and on two workers. *)
EXTENDS TimedIo

AllModes ==
    [call : Copies, workers : 1 .. 2, loop : BOOLEAN, own : BOOLEAN, timed : BOOLEAN]
=============================================================================
