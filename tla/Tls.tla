--------------------------------- MODULE Tls ---------------------------------
(***************************************************************************)
(* SSL::Client and SSL::Session at the two ends of TLS connections: the    *)
(* handshake after the connect, the flags that refuse calls meanwhile, the *)
(* shutdown before the disconnect, and the stream that every connect       *)
(* replaces on the caller's thread.                                        *)
(*                                                                         *)
(* Streams of the client are numbered, and the session that accepts a      *)
(* connection has the number of its stream.  Handlers run one at a time on *)
(* the lane of their end, in order (no strand), and are atomic; sends,     *)
(* data and buffers are those of modules Session and Client.  The TLS      *)
(* library and the network are external: a handshake is answered once both *)
(* ends have begun it, and an end learns that the other has closed.        *)
(***************************************************************************)
EXTENDS Naturals, Sequences

CONSTANTS
    Threads,        \* application threads of the client
    Modes,          \* subset of {"async", "sync"}: how the client connects
    MaxConnects,    \* bound: streams, so connections
    MaxCalls        \* bound: calls by application threads

ASSUME ModesAssumption == Modes \subseteq {"async", "sync"}
ASSUME BoundsAssumption == MaxConnects \in Nat /\ MaxCalls \in Nat

Ids == 1 .. MaxConnects

VARIABLES
    mode,
    client,         \* the client's flags
    stream,         \* number of the client's stream
    conn,           \* number of the stream it connected last
    endpoint,       \* _endpoint was set
    session,        \* the flags of each session
    pend,           \* outstanding operations of both ends
    lane,           \* handlers and completions of each end, in order
    made, begun,    \* connections made, handshakes begun at an end
    closed, bye,    \* ends that are closed; connections with a close_notify
    pc, used,       \* application threads; calls and connects so far
    dead            \* an exception ended the client's lane

net == <<made, begun, closed, bye>>
app == <<pc, used>>
ends == <<client, stream, conn, endpoint, session>>

vars == <<mode, ends, pend, lane, net, app, dead>>

Off == [connecting |-> FALSE, connected |-> FALSE, handshaking |-> FALSE,
        handshaked |-> FALSE, receiving |-> FALSE]
NoSession == [connected |-> FALSE, handshaked |-> FALSE, receiving |-> FALSE]

Op(end, kind, id) == [end |-> end, kind |-> kind, id |-> id]
Done(kind, id, err) == [kind |-> kind, id |-> id, err |-> err]

Init ==
    /\ mode \in Modes
    /\ client = Off /\ stream = 0 /\ conn = 0 /\ endpoint = FALSE
    /\ session = [g \in Ids |-> NoSession]
    /\ pend = {} /\ lane = [end \in {"c", "s"} |-> << >>]
    /\ made = {} /\ begun = {} /\ closed = {} /\ bye = {}
    /\ pc = [t \in Threads |-> "idle"]
    /\ used = [calls |-> 0, connects |-> 0]
    /\ dead = FALSE

\* What cancel() and close() do to the operations of one end.
OpsOf(end, id) == {op \in pend : op.end = end /\ op.id = id}
AbortedOf(end, kind, id) ==
    IF Op(end, kind, id) \in pend THEN <<Done(kind, id, TRUE)>> ELSE << >>
Aborted(end, id) ==
    AbortedOf(end, "connect", id) \o AbortedOf(end, "handshake", id)
    \o AbortedOf(end, "read", id) \o AbortedOf(end, "shutdown", id)

-----------------------------------------------------------------------------
(* SSL::Client *)

\* The test of connect, connectAsync and of its handler; and that of disconnect,
\* disconnectAsync and of its handler.
MayConnect ==
    ~client.connected /\ ~client.handshaked /\ ~client.handshaking /\ ~client.connecting
MayDisconnect == client.connected /\ ~client.connecting /\ ~client.handshaking

At(t, point) == pc[t] = point
Go(t, point) == pc' = [pc EXCEPT ![t] = point]

\* In "sync" mode one thread at a time is in a call.
Call(t, point, connects) ==
    /\ At(t, "idle")
    /\ used.calls < MaxCalls
    /\ used.connects + connects <= MaxConnects
    /\ mode = "sync" => \A u \in Threads : At(u, "idle")
    /\ used' = [calls |-> used.calls + 1, connects |-> used.connects + connects]
    /\ Go(t, point)
    /\ UNCHANGED <<mode, ends, pend, lane, net, dead>>

ConnectAsync(t) == MayConnect /\ Call(t, "connectAsync", 1)
DisconnectAsync(t) == MayDisconnect /\ Call(t, "disconnectAsync", 0)
ReconnectAsync(t) == MayDisconnect /\ Call(t, "reconnectAsync", 1)
Disconnect(t) == MayDisconnect /\ Call(t, "disconnect", 0)

\* connect() is called in "sync" mode, when no asynchronous call is under way.
Connect(t) ==
    /\ mode = "sync"
    /\ lane["c"] = << >> /\ \A op \in pend : op.end = "s"
    /\ MayConnect
    /\ Call(t, "connect", 1)

PostTo(kind) == lane' = [lane EXCEPT !["c"] = Append(@, Done(kind, 0, FALSE))]

\* connectAsync() replaces the stream and posts its handler: what is outstanding
\* on the old stream is aborted, and its socket closed.
ConnectPost(t) ==
    /\ At(t, "connectAsync")
    /\ stream' = stream + 1
    /\ pend' = pend \ OpsOf("c", stream)
    /\ lane' = [lane EXCEPT !["c"] =
                   @ \o Aborted("c", stream) \o <<Done("connectAsync", 0, FALSE)>>]
    /\ closed' = closed \cup {<<"c", stream>>}
    /\ Go(t, "idle")
    /\ UNCHANGED <<mode, client, conn, endpoint, session, made, begun, bye, used, dead>>

DisconnectPost(t) ==
    /\ pc[t] \in {"disconnectAsync", "reconnectAsync"}
    /\ PostTo("disconnect")
    /\ Go(t, IF At(t, "reconnectAsync") THEN "wait" ELSE "idle")
    /\ UNCHANGED <<mode, ends, pend, net, used, dead>>

\* reconnectAsync() waits for the disconnect and calls connectAsync().
ReconnectStep(t) ==
    /\ At(t, "wait")
    /\ ~client.connected
    /\ Go(t, IF MayConnect THEN "connectAsync" ELSE "idle")
    /\ UNCHANGED <<mode, ends, pend, lane, net, used, dead>>

\* disconnect(): handshake flags, then that of Tcp::Client, which closes the socket.
\* Fault: the socket is not closed.
DoDisconnectWith(closes) ==
    IF MayDisconnect
    THEN /\ client' = Off
         /\ pend' = IF closes THEN pend \ OpsOf("c", stream) ELSE pend
         /\ closed' = IF closes THEN closed \cup {<<"c", stream>>} ELSE closed
    ELSE UNCHANGED <<client, pend, closed>>

DoDisconnectOpen == DoDisconnectWith(FALSE)

DoDisconnect == DoDisconnectWith(TRUE)

DisconnectStep(t) ==
    /\ At(t, "disconnect")
    /\ DoDisconnect
    /\ lane' = IF MayDisconnect THEN [lane EXCEPT !["c"] = @ \o Aborted("c", stream)] ELSE lane
    /\ Go(t, "idle")
    /\ UNCHANGED <<mode, stream, conn, endpoint, session, made, begun, bye, used, dead>>

\* connect(): it never sets _endpoint, and can reach the server only if an earlier
\* connectAsync() did.
ConnectStep(t) ==
    /\ At(t, "connect")
    /\ stream' = stream + 1
    /\ closed' = closed \cup {<<"c", stream>>}
    /\ \/ /\ endpoint
          /\ client' = [client EXCEPT !.connected = TRUE]
          /\ conn' = stream'
          /\ made' = made \cup {stream'} /\ begun' = begun \cup {<<"c", stream'>>}
          /\ Go(t, "handshake")
       \/ /\ Go(t, "idle")
          /\ UNCHANGED <<client, conn, made, begun>>
    /\ UNCHANGED <<mode, endpoint, session, pend, lane, bye, used, dead>>

\* ... the blocking handshake; when it fails the client stays _connected.
HandshakeStep(t) ==
    /\ At(t, "handshake")
    /\ \/ /\ <<"s", stream>> \in begun
          /\ client' = [client EXCEPT !.handshaked = TRUE]
       \/ /\ <<"s", stream>> \in begun \cup closed
          /\ UNCHANGED client
    /\ Go(t, "idle")
    /\ UNCHANGED <<mode, stream, conn, endpoint, session, pend, lane, net, used, dead>>

-----------------------------------------------------------------------------
(* Handlers on the client's lane *)

Runs(kind) == ~dead /\ lane["c"] # << >> /\ Head(lane["c"]).kind = kind
Take(aborted) == lane' = [lane EXCEPT !["c"] = Tail(@) \o aborted]

ConnectHandler ==
    /\ Runs("connectAsync")
    /\ Take(<< >>)
    /\ IF MayConnect
       THEN /\ client' = [client EXCEPT !.connecting = TRUE]
            /\ endpoint' = TRUE
            /\ pend' = pend \cup {Op("c", "connect", stream)}
       ELSE UNCHANGED <<client, endpoint, pend>>
    /\ UNCHANGED <<mode, stream, conn, session, net, app, dead>>

\* connectEndpoint.  If the stream was replaced since, setting an option on its
\* unopened socket throws, which ends the thread.
ConnectEndpoint ==
    LET op == Head(lane["c"])
        fresh == ~client.connected /\ ~client.handshaked /\ ~client.handshaking
    IN /\ Runs("connect")
       /\ Take(<< >>)
       /\ \/ /\ fresh /\ ~op.err /\ op.id = stream
             /\ client' = [Off EXCEPT !.connected = TRUE, !.handshaking = TRUE,
                                      !.receiving = client.receiving]
             /\ conn' = stream
             /\ pend' = pend \cup {Op("c", "handshake", stream)}
             /\ begun' = begun \cup {<<"c", stream>>}
             /\ UNCHANGED dead
          \/ /\ ~(fresh /\ ~op.err /\ op.id = stream)
             /\ client' = [client EXCEPT !.connecting = FALSE]
             /\ dead' = (fresh /\ ~op.err)
             /\ UNCHANGED <<conn, pend, begun>>
       /\ UNCHANGED <<mode, stream, endpoint, session, made, closed, bye, app>>

\* The handler of disconnectAsync(), also called inline with dispatch: cancel and
\* async_shutdown, which sends a close_notify if there was a handshake.
ShutDown(flags) ==
    IF flags.connected /\ ~flags.connecting /\ ~flags.handshaking
    THEN /\ Take(Aborted("c", stream))
         /\ pend' = (pend \ OpsOf("c", stream)) \cup {Op("c", "shutdown", stream)}
         /\ bye' = IF flags.handshaked /\ stream = conn THEN bye \cup {stream} ELSE bye
    ELSE Take(<< >>) /\ UNCHANGED <<pend, bye>>

DisconnectHandler ==
    /\ Runs("disconnect")
    /\ ShutDown(client)
    /\ UNCHANGED <<mode, ends, made, begun, closed, app, dead>>

ShutdownHandler ==
    /\ Runs("shutdown")
    /\ DoDisconnect
    /\ Take(IF MayDisconnect THEN Aborted("c", stream) ELSE << >>)
    /\ UNCHANGED <<mode, stream, conn, endpoint, session, made, begun, bye, app, dead>>

HandshakeHandler ==
    LET op == Head(lane["c"])
        flags == [client EXCEPT !.handshaking = FALSE]
    IN /\ Runs("handshake")
       /\ \/ /\ op.err
             /\ client' = flags
             /\ IF client.handshaked THEN Take(<< >>) /\ UNCHANGED <<pend, bye>>
                ELSE ShutDown(flags)
          \/ /\ ~op.err
             /\ client' = IF client.handshaked THEN flags
                          ELSE [flags EXCEPT !.handshaked = TRUE, !.receiving = TRUE]
             /\ pend' = IF client.handshaked \/ client.receiving THEN pend
                        ELSE pend \cup {Op("c", "read", stream)}
             /\ Take(<< >>) /\ UNCHANGED bye
       /\ UNCHANGED <<mode, stream, conn, endpoint, session, made, begun, closed, app, dead>>

\* The read handler of Tcp::Client, with isReady() of SSL::Client.
ReadHandler ==
    LET flags == [client EXCEPT !.receiving = FALSE]
    IN /\ Runs("read")
       /\ client' = flags
       /\ IF client.connected /\ client.handshaked
          THEN ShutDown(flags)
          ELSE Take(<< >>) /\ UNCHANGED <<pend, bye>>
       /\ UNCHANGED <<mode, stream, conn, endpoint, session, made, begun, closed, app, dead>>

-----------------------------------------------------------------------------
(* SSL::Session *)

\* tryReceive needs isConnectionComplete().
\* Fault: that of Tcp::Session, which does not ask for the handshake.
CompleteTcp(s) == s.connected
Complete(s) == s.connected /\ s.handshaked

TryReceive(g, flags, ops) ==
    LET reads == ~flags.receiving /\ Complete(flags)
    IN /\ session' = [session EXCEPT ![g] = [flags EXCEPT !.receiving = @ \/ reads]]
       /\ pend' = IF reads THEN ops \cup {Op("s", "read", g)} ELSE ops

\* The accepted session's connect(): tryReceive, then the handshake.
SessionConnect(g) ==
    /\ g \in made /\ <<"s", g>> \notin begun
    /\ TryReceive(g, [NoSession EXCEPT !.connected = TRUE],
                  pend \cup {Op("s", "handshake", g)})
    /\ begun' = begun \cup {<<"s", g>>}
    /\ UNCHANGED <<mode, client, stream, conn, endpoint, lane, made, closed, bye, app, dead>>

\* The application disconnects a session.
SessionDisconnect(g) ==
    /\ session[g].connected
    /\ \A k \in DOMAIN lane["s"] : lane["s"][k].kind # "disconnect"
    /\ lane' = [lane EXCEPT !["s"] = Append(@, Done("disconnect", g, FALSE))]
    /\ UNCHANGED <<mode, ends, pend, net, app, dead>>

\* The disconnect handler of Tcp::Session.
CloseSession(g) ==
    IF session[g].connected
    THEN /\ session' = [session EXCEPT ![g].connected = FALSE, ![g].receiving = FALSE]
         /\ pend' = pend \ OpsOf("s", g)
         /\ lane' = [lane EXCEPT !["s"] = Tail(@) \o Aborted("s", g)]
         /\ closed' = closed \cup {<<"s", g>>}
    ELSE /\ lane' = [lane EXCEPT !["s"] = Tail(@)]
         /\ UNCHANGED <<session, pend, closed>>

SessionRuns(kind) == lane["s"] # << >> /\ Head(lane["s"]).kind = kind

SessionDisconnectHandler ==
    /\ SessionRuns("disconnect")
    /\ CloseSession(Head(lane["s"]).id)
    /\ UNCHANGED <<mode, client, stream, conn, endpoint, made, begun, bye, app, dead>>

\* The handshake's completion does not ask whether the session is still connected.
\* Fault: a failed handshake does not disconnect.
SessionHandshakeWith(disconnects) ==
    LET op == Head(lane["s"])
        s == session[op.id]
    IN /\ SessionRuns("handshake")
       /\ \/ /\ ~s.handshaked /\ ~op.err
             /\ TryReceive(op.id, [s EXCEPT !.handshaked = TRUE], pend)
             /\ lane' = [lane EXCEPT !["s"] = Tail(@)]
          \/ /\ s.handshaked \/ op.err
             /\ lane' = [lane EXCEPT !["s"] =
                   Tail(@) \o IF disconnects /\ s.connected /\ ~s.handshaked
                              THEN <<Done("disconnect", op.id, FALSE)>> ELSE << >>]
             /\ UNCHANGED <<session, pend>>
       /\ UNCHANGED <<mode, client, stream, conn, endpoint, net, app, dead>>

SessionHandshakeIgnored == SessionHandshakeWith(FALSE)

SessionHandshake == SessionHandshakeWith(TRUE)

\* The read handler of Tcp::Session.  Fault: the end of the stream does not end
\* the session.
SessionReadWith(ends_it) ==
    LET g == Head(lane["s"]).id
    IN /\ SessionRuns("read")
       /\ IF ends_it /\ Complete(session[g])
          THEN CloseSession(g)
          ELSE /\ session' = [session EXCEPT ![g].receiving = FALSE]
               /\ lane' = [lane EXCEPT !["s"] = Tail(@)]
               /\ UNCHANGED <<pend, closed>>
       /\ UNCHANGED <<mode, client, stream, conn, endpoint, made, begun, bye, app, dead>>

SessionReadIgnored == SessionReadWith(FALSE)

SessionRead == SessionReadWith(TRUE)

-----------------------------------------------------------------------------
(* The network and the TLS library *)

Finish(op, err) ==
    /\ op \in pend
    /\ pend' = pend \ {op}
    /\ lane' = [lane EXCEPT ![op.end] = Append(@, Done(op.kind, op.id, err))]

ConnectPerform(op, err) ==
    /\ op.kind = "connect"
    /\ Finish(op, err)
    /\ made' = IF err THEN made ELSE made \cup {op.id}
    /\ UNCHANGED <<mode, ends, begun, closed, bye, app, dead>>

Other(end) == IF end = "c" THEN "s" ELSE "c"

\* A handshake ends, well or not, when both ends have begun it, or because the
\* other end is closed; a read ends when the other end closes or says goodbye; both
\* fail on a stream that replaced the connected one.  A shutdown ends when the
\* other end closes, or at once when there was no handshake or no connection.
Perform(op, err) ==
    /\ \/ /\ op.kind = "handshake"
          /\ \/ {<<"c", op.id>>, <<"s", op.id>>} \subseteq begun
             \/ err /\ <<Other(op.end), op.id>> \in closed
             \/ err /\ op.id \notin made
       \/ /\ op.kind = "read"
          /\ err
          /\ \/ <<Other(op.end), op.id>> \in closed
             \/ op.end = "s" /\ op.id \in bye
             \/ op.id \notin made
       \/ /\ op.kind = "shutdown"
          /\ err
          /\ <<"s", op.id>> \in closed \/ op.id \notin bye
    /\ Finish(op, err)
    /\ UNCHANGED <<mode, ends, net, app, dead>>

-----------------------------------------------------------------------------
ThreadEnter(t) ==
    \/ ConnectAsync(t) \/ DisconnectAsync(t) \/ ReconnectAsync(t)
    \/ Disconnect(t) \/ Connect(t)

ThreadStep(t) ==
    \/ ConnectPost(t) \/ DisconnectPost(t) \/ ReconnectStep(t)
    \/ DisconnectStep(t) \/ ConnectStep(t) \/ HandshakeStep(t)

ClientLane ==
    \/ ConnectHandler \/ ConnectEndpoint \/ DisconnectHandler
    \/ ShutdownHandler \/ HandshakeHandler \/ ReadHandler

ServerLane ==
    \/ SessionDisconnectHandler \/ SessionHandshake \/ SessionRead
    \/ \E g \in Ids : SessionConnect(g)

Network ==
    \E op \in pend, err \in BOOLEAN : ConnectPerform(op, err) \/ Perform(op, err)

Next ==
    \/ \E t \in Threads : ThreadEnter(t) \/ ThreadStep(t)
    \/ ClientLane \/ ServerLane \/ Network
    \/ \E g \in Ids : SessionDisconnect(g)

Spec == Init /\ [][Next]_vars

\* Threads inside a call and both lanes keep going, and the network delivers what
\* was sent.  (No operation waits for ever while others end: there are finitely
\* many, as only a connect or a handshake starts one.)
Fairness ==
    /\ \A t \in Threads : WF_vars(ThreadStep(t))
    /\ WF_vars(ClientLane) /\ WF_vars(ServerLane) /\ WF_vars(Network)

FairSpec == Spec /\ Fairness

-----------------------------------------------------------------------------
(* Properties *)

Ready(end, g) ==
    IF end = "c" THEN client.connected /\ client.handshaked /\ conn = g
                 ELSE Complete(session[g])

\* No data is read before the handshake or after the disconnect: while a read is
\* outstanding its end is connected and has shaken hands on that connection, and
\* a session that is complete has one.
ReadsWhenReady ==
    /\ \A op \in pend : op.kind = "read" /\ op.id \in made => Ready(op.end, op.id)
    /\ \A g \in Ids : session[g].receiving => session[g].handshaked
    /\ \A g \in Ids : Complete(session[g]) => session[g].receiving

\* A client that is off and has nothing to do has no operation outstanding and has
\* closed every connection it made, also those whose stream a second connect
\* replaced under way.
OffMeansClosed ==
    MayConnect /\ ~dead /\ lane["c"] = << >> /\ (\A t \in Threads : At(t, "idle"))
        => /\ \A op \in pend : op.end = "s"
           /\ \A g \in made : <<"c", g>> \in closed

\* disconnectAsync() ends a connection that is past its handshake, although it
\* waits for a shutdown and the shutdown for the peer.  (A call that saw an earlier
\* connection does nothing to one that is still shaking hands.)
DisconnectEnds ==
    (MayDisconnect /\ \E t \in Threads : pc[t] \in {"disconnectAsync", "reconnectAsync"})
        ~> (~client.connected \/ dead)

\* No half-open connection: when one end of a connection is closed, so is the
\* other in the end.  (A client that connected with connect() reads only if the
\* application does.)
HalfOpenSession(g) == session[g].connected /\ <<"c", g>> \in closed

NoHalfOpen ==
    /\ (mode = "async" /\ client.connected /\ <<"s", conn>> \in closed)
          ~> (~client.connected \/ dead)
    /\ (\E g \in Ids : HalfOpenSession(g)) ~> (\A g \in Ids : ~HalfOpenSession(g))

=============================================================================
