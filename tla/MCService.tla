------------------------------ MODULE MCService ------------------------------
(* The modes of Service that TLC explores. *)
EXTENDS Service

CONSTANTS c1, c2

Mode(shared, polls, throws, again, overlap) ==
    [shared |-> shared, polls |-> polls, throws |-> throws, again |-> again, overlap |-> overlap]

AllModes == {
    \* two controllers whose calls overlap
    Mode(FALSE, {FALSE}, {}, TRUE, TRUE),
    \* one io_service, polling or not, and handlers that throw
    Mode(TRUE, BOOLEAN, {"not_connected", "other"}, TRUE, FALSE),
    \* as intended, one io_service for all threads or one for each
    Mode(FALSE, {FALSE}, {}, FALSE, FALSE),
    Mode(TRUE, {FALSE}, {}, FALSE, FALSE)}
=============================================================================
