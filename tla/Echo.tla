-------------------------------- MODULE Echo --------------------------------
(***************************************************************************)
(* The echo benchmarks: the client program with its main thread and its    *)
(* clients, and the server program with its echo sessions, over TCP and    *)
(* over TLS.  It composes the two ends of a connection as modules Session, *)
(* Client and Tls describe them: a call is refused or posted, an end that  *)
(* closes is noticed by the other, and the client may write a part of its  *)
(* buffer twice.  The messages are all the same zeros, so only the number  *)
(* of bytes under way is kept; time, errors printed and statistics are     *)
(* left out.                                                               *)
(***************************************************************************)
EXTENDS Naturals

CONSTANTS
    Modes,          \* subset of {"tcp", "tls"}: the two pairs of programs
    Clients,        \* --clients
    Messages,       \* --messages
    Size,           \* --size, in bytes
    PartialWrites,  \* a client's write may take a part of its buffer only
    MaxBytes        \* bound on a client's bytes under way when it repeats some

ASSUME ModesAssumption == Modes \subseteq {"tcp", "tls"}
ASSUME OptionsAssumption ==
    Clients \in Nat \ {0} /\ Messages \in Nat /\ Size \in Nat \ {0}
ASSUME WritesAssumption == PartialWrites \in BOOLEAN /\ MaxBytes \in Nat

K == 1 .. Clients

VARIABLES
    mode,
    main,       \* where the client's main() is, and the client it is at
    phase,      \* the phase of each client
    asked,      \* clients with a disconnect posted
    greeted,    \* how often onConnect, over TLS onHandshaked, was called for each
    runaway,    \* clients whose _send_flush_offset has passed the end of the buffer
    received,   \* _received of each client
    session,    \* the session at the other end
    up, down,   \* bytes on their way from sendAsync() to the session, and back
    server,     \* the server: "starting", "serving", "down"
    console,    \* the server's main(): "reading" lines, "stuck" in restart, "ended"
    broken      \* something failed that is not the client program's doing

data == <<greeted, runaway, received, up, down>>
vars == <<mode, main, phase, asked, data, session, server, console, broken>>

Init ==
    /\ mode \in Modes
    /\ main = [at |-> "connect", k |-> 1]
    /\ phase = [k \in K |-> "new"] /\ asked = {}
    /\ session = [k \in K |-> "none"]
    /\ greeted = [k \in K |-> 0] /\ runaway = {}
    /\ received = [k \in K |-> 0] /\ up = [k \in K |-> 0] /\ down = [k \in K |-> 0]
    /\ server = "starting" /\ console = "reading" /\ broken = FALSE

IsConnected(k) == phase[k] \in {"greeting", "shaking", "ready", "closing"}

\* The bytes a client has under way: in the two directions and in _received.
InFlight(k) == up[k] + down[k] + received[k]

-----------------------------------------------------------------------------
(* The client program's main() *)

\* The next turn of a loop over the clients, or the statement after it.
Advance(next) ==
    main' = IF main.k < Clients THEN [main EXCEPT !.k = @ + 1]
                                ELSE [at |-> next, k |-> 1]

MainConnect ==
    /\ main.at = "connect"
    /\ phase' = [phase EXCEPT ![main.k] = "connecting"]
    /\ Advance("awaitOn")
    /\ UNCHANGED <<mode, asked, data, session, server, console, broken>>

MainAwaitOn ==
    /\ main.at = "awaitOn"
    /\ IsConnected(main.k)
    /\ Advance("sleep")
    /\ UNCHANGED <<mode, phase, asked, data, session, server, console, broken>>

MainSleep ==
    /\ main.at = "sleep"
    /\ main' = [main EXCEPT !.at = "disconnect"]
    /\ UNCHANGED <<mode, phase, asked, data, session, server, console, broken>>

\* disconnectAsync() is refused, without a word, to a client that is off or shakes
\* hands.
MainDisconnect ==
    /\ main.at = "disconnect"
    /\ asked' = IF phase[main.k] \in {"greeting", "ready"} THEN asked \cup {main.k} ELSE asked
    /\ Advance("awaitOff")
    /\ UNCHANGED <<mode, phase, data, session, server, console, broken>>

\* The loop until the clients are off; then the service stops and the program ends.
MainAwaitOff ==
    /\ main.at = "awaitOff"
    /\ ~IsConnected(main.k)
    /\ Advance("done")
    /\ UNCHANGED <<mode, phase, asked, data, session, server, console, broken>>

Main == MainConnect \/ MainAwaitOn \/ MainSleep \/ MainDisconnect \/ MainAwaitOff

-----------------------------------------------------------------------------
(* EchoClient *)

\* onConnect, over TLS onHandshaked: all the messages are sent.
Greet(k) ==
    /\ greeted' = [greeted EXCEPT ![k] = @ + 1]
    /\ up' = [up EXCEPT ![k] = @ + Messages * Size]

\* Over TCP the handler calls onConnect and starts the first read, ...
Connected(k) ==
    /\ phase[k] = "connecting" /\ server = "serving"
    /\ IF mode = "tcp"
       THEN phase' = [phase EXCEPT ![k] = "greeting"] /\ Greet(k)
       ELSE phase' = [phase EXCEPT ![k] = "shaking"] /\ UNCHANGED <<greeted, up>>
    /\ UNCHANGED <<mode, main, asked, runaway, received, down, session, server, console,
                   broken>>

\* ... then onConnect once more, before its only thread does anything else.
GreetAgain(k) ==
    /\ phase[k] = "greeting"
    /\ phase' = [phase EXCEPT ![k] = "ready"]
    /\ Greet(k)
    /\ UNCHANGED <<mode, main, asked, runaway, received, down, session, server, console,
                   broken>>

Refused(k) ==
    /\ phase[k] = "connecting" /\ server # "serving"
    /\ phase' = [phase EXCEPT ![k] = "over"]
    /\ broken' = TRUE
    /\ UNCHANGED <<mode, main, asked, data, session, server, console>>

\* The client's handshake ends; the certificate may be refused.
Handshake(k) ==
    /\ phase[k] = "shaking" /\ session[k] = "shaking"
    /\ \/ /\ phase' = [phase EXCEPT ![k] = "ready"]
          /\ Greet(k)
          /\ UNCHANGED broken
       \/ /\ phase' = [phase EXCEPT ![k] = "over"]
          /\ broken' = TRUE
          /\ UNCHANGED <<greeted, up>>
    /\ UNCHANGED <<mode, main, asked, runaway, received, down, session, server, console>>

\* onReceive: one message is sent for every whole message received.
\* Fault: one at most.
ReceiveWith(k, loops) ==
    /\ phase[k] = "ready"
    /\ \E n \in 1 .. down[k] :
          LET whole == (received[k] + n) \div Size
              sent == IF loops \/ whole = 0 THEN whole ELSE 1
          IN /\ down' = [down EXCEPT ![k] = @ - n]
             /\ received' = [received EXCEPT ![k] = @ + n - sent * Size]
             /\ up' = [up EXCEPT ![k] = @ + sent * Size]
    /\ UNCHANGED <<mode, main, phase, asked, greeted, runaway, session, server, console,
                   broken>>

ReceiveIf(k) == ReceiveWith(k, FALSE)

Receive(k) == ReceiveWith(k, TRUE)

\* The write after a partial one starts at the front of the buffer again (module
\* Client).  Once the writes together pass its end the buffer is never empty, and it
\* is written again and again.
WriteAgain(k) ==
    /\ PartialWrites
    /\ phase[k] = "ready"
    /\ up[k] > 0 \/ k \in runaway
    /\ runaway' = runaway \cup {k}
    /\ InFlight(k) < MaxBytes
    /\ \E n \in 1 .. MaxBytes - InFlight(k) : up' = [up EXCEPT ![k] = @ + n]
    /\ UNCHANGED <<mode, main, phase, asked, greeted, received, down, session, server,
                   console, broken>>

\* The client goes off: because it was asked, or because its peer is closed.  Over
\* TLS it first says goodbye and waits for the peer.  What is under way is lost.
Disconnect(k) ==
    /\ \/ phase[k] = "ready" /\ k \in asked
       \/ phase[k] \in {"shaking", "ready"} /\ session[k] = "closed"
    /\ phase' = [phase EXCEPT ![k] = IF mode = "tls" THEN "closing" ELSE "over"]
    /\ runaway' = runaway \ {k}
    /\ up' = [up EXCEPT ![k] = 0] /\ down' = [down EXCEPT ![k] = 0]
    /\ UNCHANGED <<mode, main, asked, greeted, received, session, server, console, broken>>

Shutdown(k) ==
    /\ phase[k] = "closing" /\ session[k] = "closed"
    /\ phase' = [phase EXCEPT ![k] = "over"]
    /\ UNCHANGED <<mode, main, asked, data, session, server, console, broken>>

-----------------------------------------------------------------------------
(* The server program *)

Start ==
    /\ server = "starting" /\ console = "reading"
    /\ server' = "serving"
    /\ UNCHANGED <<mode, main, phase, asked, data, session, console, broken>>

\* "!" restarts: the server goes down, and main() reads on or is stuck in restart()
\* (module Server).  An empty line stops it and ends the program.
Line ==
    /\ console = "reading"
    /\ \/ server = "serving" /\ console' \in {"reading", "stuck"}
       \/ console' = "ended"
    /\ server' = "down"
    /\ broken' = TRUE
    /\ UNCHANGED <<mode, main, phase, asked, data, session>>

Accept(k) ==
    /\ server = "serving" /\ IsConnected(k) /\ session[k] = "none"
    /\ session' = [session EXCEPT ![k] = IF mode = "tcp" THEN "open" ELSE "shaking"]
    /\ UNCHANGED <<mode, main, phase, asked, data, server, console, broken>>

SessionHandshake(k) ==
    /\ session[k] = "shaking" /\ phase[k] = "ready"
    /\ session' = [session EXCEPT ![k] = "open"]
    /\ UNCHANGED <<mode, main, phase, asked, data, server, console, broken>>

\* EchoSession::onReceive: what was read is sent back.  Nothing of the greeting is
\* written before its handler ends.
EchoBytes(k) ==
    /\ session[k] = "open" /\ phase[k] # "greeting"
    /\ \E n \in 1 .. up[k] :
          /\ up' = [up EXCEPT ![k] = @ - n]
          /\ down' = [down EXCEPT ![k] = @ + n]
    /\ UNCHANGED <<mode, main, phase, asked, greeted, runaway, received, session, server,
                   console, broken>>

\* The session ends when its peer has closed or said goodbye, or with the server.
\* Fault: a goodbye alone does not end it.
SessionEndsWhen(k, gone) ==
    /\ session[k] # "closed"
    /\ \/ session[k] # "none" /\ phase[k] \in gone
       \/ server = "down" /\ (session[k] # "none" \/ IsConnected(k))
    /\ session' = [session EXCEPT ![k] = "closed"]
    /\ UNCHANGED <<mode, main, phase, asked, data, server, console, broken>>

SessionEndsLate(k) == SessionEndsWhen(k, {"over"})

SessionEnds(k) == SessionEndsWhen(k, {"over", "closing"})

\* The network drops a connection.
Drop(k) ==
    /\ IsConnected(k) /\ session[k] \in {"shaking", "open"}
    /\ session' = [session EXCEPT ![k] = "closed"]
    /\ broken' = TRUE
    /\ UNCHANGED <<mode, main, phase, asked, data, server, console>>

-----------------------------------------------------------------------------
Handlers(k) ==
    \/ Connected(k) \/ GreetAgain(k) \/ Refused(k) \/ Handshake(k)
    \/ Disconnect(k) \/ Shutdown(k)
    \/ Accept(k) \/ SessionHandshake(k) \/ SessionEnds(k)

Next ==
    \/ Main \/ Start \/ Line
    \/ \E k \in K : Handlers(k) \/ Receive(k) \/ WriteAgain(k) \/ EchoBytes(k) \/ Drop(k)

Spec == Init /\ [][Next]_vars

\* The threads run, and every handler queued at an end gets its turn, whatever the
\* traffic: the services run them in the order in which they were queued.
Fairness ==
    /\ WF_vars(Main) /\ WF_vars(Start)
    /\ \A k \in K : WF_vars(Handlers(k))

FairSpec == Spec /\ Fairness

-----------------------------------------------------------------------------
(* Properties *)

\* While a client is up and its session too, no byte of what onConnect or
\* onHandshaked sent is lost, however the reads cut the stream and although the
\* client writes parts of its buffer over and over, and none is made but by those
\* writes; the client never sits on a whole message (onReceive of both classes).
Circulates ==
    \A k \in K :
        phase[k] \in {"greeting", "ready"} /\ session[k] # "closed"
            => /\ InFlight(k) >= greeted[k] * Messages * Size
               /\ k \notin runaway => InFlight(k) = greeted[k] * Messages * Size
               /\ received[k] < Size

\* main() waits for a client that failed before main() looked at it, ...
Failed == broken /\ main.at = "awaitOn" /\ phase[main.k] = "over"

\* ... or for one whose disconnectAsync() was refused during its handshake.
Missed ==
    mode = "tls" /\ main.at = "awaitOff" /\ phase[main.k] = "ready" /\ main.k \notin asked

\* The client program ends, whatever fails, unless it waits for ever in one of
\* these two ways: over TCP, and with nothing failing, it always ends.
BenchmarkEnds == <>(main.at = "done") \/ <>[](Failed \/ Missed)

=============================================================================
