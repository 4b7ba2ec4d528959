------------------------------ MODULE MCClient ------------------------------
(* The modes of Client that TLC explores. *)
EXTENDS Client

CONSTANTS a, b

Mode(strand, sync, receive, partial, connections) ==
    [strand |-> strand, sync |-> sync, receive |-> receive, partial |-> partial,
     connections |-> connections]

\* Two connections without a strand, with whole writes and with partial ones; one
\* connection on a strand with the synchronous calls, too; and one connection on
\* which the application calls receiveAsync.
AllModes == {
    Mode(FALSE, FALSE, FALSE, FALSE, 2),
    Mode(FALSE, FALSE, FALSE, TRUE, 2),
    Mode(TRUE, TRUE, FALSE, FALSE, 1),
    Mode(FALSE, FALSE, TRUE, FALSE, 1)}

\* One connection whose writes may be partial.
Partial == {Mode(FALSE, FALSE, FALSE, TRUE, 1)}
=============================================================================
