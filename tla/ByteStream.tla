----------------------------- MODULE ByteStream -----------------------------
(***************************************************************************)
(* What the sending half of a connection promises to the application, with *)
(* no buffers, locks, handlers or partial writes: bytes are numbered in    *)
(* the order in which sendAsync accepts them, and the socket carries       *)
(* exactly those bytes, once each and in that order, for as long as the    *)
(* connection is open.                                                     *)
(***************************************************************************)
EXTENDS Naturals, Sequences

VARIABLES
    phase,      \* "new", then "open" while the connection carries bytes, "closed"
    accepted,   \* how many bytes sendAsync has accepted
    wire        \* the bytes the socket has carried, each named by its number

vars == <<phase, accepted, wire>>

Init ==
    /\ phase = "new"
    /\ accepted = 0
    /\ wire = << >>

\* A connection opens once.
Open ==
    /\ phase = "new"
    /\ phase' = "open"
    /\ UNCHANGED <<accepted, wire>>

\* A caller that saw the connection open may be accepted after it closed:
\* those bytes are never carried.
Accept ==
    /\ phase # "new"
    /\ accepted' \in Nat
    /\ accepted' > accepted
    /\ UNCHANGED <<phase, wire>>

\* The socket carries the next n bytes, never one that was not accepted.
Transmit ==
    /\ phase = "open"
    /\ \E n \in 1 .. (accepted - Len(wire)) :
          wire' = wire \o [i \in 1 .. n |-> Len(wire) + i]
    /\ UNCHANGED <<phase, accepted>>

Close ==
    /\ phase = "open"
    /\ phase' = "closed"
    /\ UNCHANGED <<accepted, wire>>

Next == Open \/ Accept \/ Transmit \/ Close

Spec == Init /\ [][Next]_vars

\* An open connection does not sit on an accepted byte: when callers pause, all
\* that was accepted has been carried, or the connection closes.
Delivered == (Len(wire) < accepted) ~> (Len(wire) = accepted \/ phase = "closed")

=============================================================================
