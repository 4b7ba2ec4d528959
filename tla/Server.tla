------------------------------- MODULE Server -------------------------------
(***************************************************************************)
(* Tcp::Server: starting and stopping, the accept loop and the map of      *)
(* connected sessions.                                                     *)
(*                                                                         *)
(* The server's handlers run one at a time on its lane: its strand when    *)
(* the service shares one io_service between threads (Strand), else the    *)
(* one thread of its io_service.  Application threads post to the lane;    *)
(* sessions end on lanes of their own and ask the server's lane to forget  *)
(* them, or do it at once if the two lanes are one thread (SharedLane).    *)
(*                                                                         *)
(* A completed accept enters the queue of its io_service at once.  With a  *)
(* strand a pool thread must first take it from there to the strand, and   *)
(* handlers posted to the strand can overtake it.                          *)
(*                                                                         *)
(* `crashed' is the loss of the program or of the thread that serves the   *)
(* lane; nothing happens after it.                                         *)
(***************************************************************************)
EXTENDS Naturals, Sequences, FiniteSets

CONSTANTS
    Threads,        \* application threads
    Sessions,       \* Session objects; one is used again once it is destroyed
    NoSession,      \* the null _session
    Strand,         \* _strand_needed
    SharedLane,     \* sessions run on the server's own thread
    BindMayFail,    \* open, bind or listen may throw
    MaxCalls,       \* bound: calls by application threads
    MaxClients,     \* bound: peers that connect
    MaxFailures     \* bound: accepts that fail on an open acceptor

ASSUME SessionAssumption == NoSession \notin Sessions
ASSUME ModeAssumption ==
    /\ Strand \in BOOLEAN /\ SharedLane \in BOOLEAN /\ BindMayFail \in BOOLEAN
    /\ ~(Strand /\ SharedLane)
ASSUME BoundsAssumption == MaxCalls \in Nat /\ MaxClients \in Nat /\ MaxFailures \in Nat

VARIABLES
    started,
    listening,      \* _acceptor is open
    session,        \* _session: the object the next accept fills
    sessions,       \* _sessions
    accept,         \* the async_accept into each session's socket
    late,           \* completed accepts that have not reached the lane
    sess,           \* what each Session does
    queue,          \* handlers posted to the lane, in order
    pc, todo,       \* application threads, and what a multicast has left
    backlog,        \* peers waiting to be accepted
    used,           \* calls, clients and failures so far, for the bounds
    crashed

lane == <<started, listening, session, accept, late>>
registry == <<sessions, sess>>
threads == <<pc, todo>>
peers == <<backlog, used>>

vars == <<lane, registry, queue, threads, peers, crashed>>

Handler(op, i) == [op |-> op, id |-> i]

Init ==
    /\ started = FALSE /\ listening = FALSE
    /\ session = NoSession /\ sessions = {}
    /\ accept = [i \in Sessions |-> "none"] /\ late = {}
    /\ sess = [i \in Sessions |-> "none"]
    /\ queue = << >>
    /\ pc = [t \in Threads |-> "idle"] /\ todo = [t \in Threads |-> {}]
    /\ backlog = 0
    /\ used = [calls |-> 0, clients |-> 0, failures |-> 0]
    /\ crashed = FALSE

\* What threads post cannot overtake a completion, except on a strand.
MayPost == Strand \/ late = {}

\* The shared lock on _sessions is held by the threads inside multicast.
Locked == \E t \in Threads : pc[t] = "sending"

Crash ==
    /\ crashed' = TRUE
    /\ UNCHANGED <<lane, registry, queue, threads, peers>>

-----------------------------------------------------------------------------
(* Calls by application threads: a test of _started, then a post.           *)

Call(t, at, test) ==
    /\ ~crashed
    /\ pc[t] = "idle"
    /\ used.calls < MaxCalls
    /\ test
    /\ pc' = [pc EXCEPT ![t] = at]
    /\ used' = [used EXCEPT !.calls = @ + 1]
    /\ UNCHANGED <<lane, registry, queue, todo, backlog, crashed>>

Start(t) == Call(t, "start", ~started)
Stop(t) == Call(t, "stop", started)
Restart(t) == Call(t, "restart", started)
DisconnectAll(t) == Call(t, "disconnectAll", started)
Multicast(t) == Call(t, "multicast", started)

\* restart() begins with stop().
PostHandler(t) ==
    /\ ~crashed
    /\ pc[t] \in {"start", "stop", "restart", "disconnectAll"}
    /\ MayPost
    /\ queue' = Append(queue, Handler(IF pc[t] = "restart" THEN "stop" ELSE pc[t],
                                      NoSession))
    /\ pc' = [pc EXCEPT ![t] = IF @ = "restart" THEN "wait" ELSE "idle"]
    /\ UNCHANGED <<lane, registry, todo, peers, crashed>>

\* The loop of restart() ends when the server is started ...
RestartWait(t) ==
    /\ ~crashed
    /\ pc[t] = "wait"
    /\ started
    /\ pc' = [pc EXCEPT ![t] = "again"]
    /\ UNCHANGED <<lane, registry, queue, todo, peers, crashed>>

\* ... and start() refuses a server that is.
RestartStart(t) ==
    /\ ~crashed
    /\ pc[t] = "again"
    /\ pc' = [pc EXCEPT ![t] = IF started THEN "idle" ELSE "start"]
    /\ UNCHANGED <<lane, registry, queue, todo, peers, crashed>>

\* multicast() iterates over the map under the shared lock.
MulticastLock(t) ==
    /\ ~crashed
    /\ pc[t] = "multicast"
    /\ pc' = [pc EXCEPT ![t] = "sending"]
    /\ todo' = [todo EXCEPT ![t] = sessions]
    /\ UNCHANGED <<lane, registry, queue, peers, crashed>>

MulticastSend(t) ==
    /\ ~crashed
    /\ pc[t] = "sending"
    /\ \/ /\ todo[t] = {}
          /\ pc' = [pc EXCEPT ![t] = "idle"]
          /\ UNCHANGED todo
       \/ \E i \in todo[t] :
             /\ todo' = [todo EXCEPT ![t] = @ \ {i}]
             /\ UNCHANGED pc
    /\ UNCHANGED <<lane, registry, queue, peers, crashed>>

-----------------------------------------------------------------------------
(* Handlers on the lane *)

Runs(op) == ~crashed /\ queue # << >> /\ Head(queue).op = op

\* accept(): a new Session takes the place of _session and the next
\* async_accept fills its socket.  `done' is an accept whose handler ends here.
Destroyed(i) == accept[i] = "none" /\ sess[i] = "none" /\ i \notin sessions /\ i # session

Accept(now, done) ==
    LET cleared == [i \in Sessions |-> IF i \in done THEN "none" ELSE accept[i]]
    IN IF now
       THEN \E i \in {j \in Sessions : Destroyed(j)} :
               session' = i /\ accept' = [cleared EXCEPT ![i] = "pending"]
       ELSE accept' = cleared /\ UNCHANGED session

StartHandler ==
    /\ Runs("start")
    /\ queue' = Tail(queue)
    /\ started' = TRUE
    /\ \/ started /\ UNCHANGED <<listening, session, accept>>
       \/ ~started /\ listening' = TRUE /\ Accept(TRUE, {})
    /\ UNCHANGED <<late, registry, threads, peers, crashed>>

\* open, bind or listen throws: serviceThread leaves its loop.  The strand goes on
\* while the pool has another thread.
StartThrows ==
    /\ BindMayFail /\ Runs("start") /\ ~started
    /\ \/ Crash
       \/ /\ Strand
          /\ queue' = Tail(queue)
          /\ UNCHANGED <<lane, registry, threads, peers, crashed>>

\* disconnectAll() posts a disconnect to every session in the map.
\* Faults: it is refused because _started is already false; the acceptor is
\* not closed and keeps its accept.
AskAll == [i \in Sessions |-> IF i \in sessions /\ sess[i] = "connected"
                              THEN "asked" ELSE sess[i]]
Aborted == {i \in Sessions : accept[i] = "pending"}

StopWith(ask, aborted) ==
    /\ Runs("stop")
    /\ queue' = Tail(queue)
    /\ started' = FALSE
    /\ \/ ~started /\ UNCHANGED <<listening, session, accept, late, sess, backlog>>
       \/ /\ started
          /\ listening' = FALSE /\ backlog' = 0
          /\ accept' = [i \in Sessions |-> IF i \in aborted THEN "error" ELSE accept[i]]
          /\ late' = late \cup aborted
          /\ session' = NoSession
          /\ sess' = ask
    /\ UNCHANGED <<sessions, threads, used, crashed>>

StopHandlerFlagFirst == StopWith(sess, Aborted)
StopHandlerOpen == StopWith(AskAll, {})

StopHandler == StopWith(AskAll, Aborted)

DisconnectAllHandler ==
    /\ Runs("disconnectAll")
    /\ queue' = Tail(queue)
    /\ sess' = IF started THEN AskAll ELSE sess
    /\ UNCHANGED <<lane, sessions, threads, peers, crashed>>

\* The completion of an accept: registerSession under the unique lock, connect,
\* and the next accept().  A stop, or a second chain of accepts, may have replaced
\* _session, and with it destroyed the Session whose socket the accept filled: a
\* use of freed memory, and a null or a foreign _session.  The model ends there.
\* Fault: only a success starts the next accept.
AcceptHandlerWith(i, next) ==
    /\ Runs("accept") /\ Head(queue).id = i
    /\ \/ /\ accept[i] = "error"
          /\ queue' = Tail(queue)
          /\ Accept(next, {i})
          /\ UNCHANGED <<started, listening, late, registry, threads, peers, crashed>>
       \/ /\ accept[i] = "ok" /\ session = i
          /\ ~Locked
          /\ queue' = Tail(queue)
          /\ Accept(started, {i})
          /\ sessions' = sessions \cup {i}
          /\ sess' = [sess EXCEPT ![i] = "connected"]
          /\ UNCHANGED <<started, listening, late, threads, peers, crashed>>
       \/ /\ accept[i] = "ok" /\ session # i
          /\ Crash

AcceptHandlerOnce(i) == AcceptHandlerWith(i, FALSE)

AcceptHandler(i) == AcceptHandlerWith(i, started)

\* unregisterSession takes no lock: erasing from a map that another thread
\* iterates over may go unnoticed, or not.
Unregister(i) ==
    /\ sessions' = sessions \ {i}
    /\ sess' = [sess EXCEPT ![i] = "none"]

UnregisterHandler ==
    /\ Runs("unregister")
    /\ queue' = Tail(queue)
    /\ Unregister(Head(queue).id)
    /\ UNCHANGED <<lane, threads, peers, crashed>>

UnregisterRace == Runs("unregister") /\ Locked /\ Crash

-----------------------------------------------------------------------------
(* Sessions: see module Session.  One ends because disconnect() was called  *)
(* or by itself; its last step is to have itself unregistered.              *)

\* Fault: it is not dispatched to the server when the lanes differ.
SessionEndsHere(i) ==
    /\ ~crashed
    /\ sess[i] \in {"connected", "asked"}
    /\ \/ SharedLane /\ Unregister(i)
       \/ ~SharedLane /\ sess' = [sess EXCEPT ![i] = "closed"] /\ UNCHANGED sessions
    /\ UNCHANGED <<lane, queue, threads, peers, crashed>>

SessionEnds(i) ==
    /\ ~crashed
    /\ sess[i] \in {"connected", "asked"}
    /\ \/ SharedLane /\ Unregister(i) /\ UNCHANGED queue
       \/ /\ ~SharedLane /\ MayPost
          /\ sess' = [sess EXCEPT ![i] = "closed"]
          /\ queue' = Append(queue, Handler("unregister", i))
          /\ UNCHANGED sessions
    /\ UNCHANGED <<lane, threads, peers, crashed>>

SessionRace(i) ==
    ~crashed /\ sess[i] \in {"connected", "asked"} /\ SharedLane /\ Locked /\ Crash

-----------------------------------------------------------------------------
(* The kernel and the io_service *)

Arrive ==
    /\ ~crashed
    /\ listening
    /\ used.clients < MaxClients
    /\ backlog' = backlog + 1
    /\ used' = [used EXCEPT !.clients = @ + 1]
    /\ UNCHANGED <<lane, registry, queue, threads, crashed>>

AcceptPerform(i) ==
    /\ ~crashed
    /\ accept[i] = "pending"
    /\ backlog > 0
    /\ backlog' = backlog - 1
    /\ accept' = [accept EXCEPT ![i] = "ok"]
    /\ late' = late \cup {i}
    /\ UNCHANGED <<started, listening, session, registry, queue, threads, used, crashed>>

AcceptFail(i) ==
    /\ ~crashed
    /\ accept[i] = "pending"
    /\ used.failures < MaxFailures
    /\ used' = [used EXCEPT !.failures = @ + 1]
    /\ accept' = [accept EXCEPT ![i] = "error"]
    /\ late' = late \cup {i}
    /\ UNCHANGED <<started, listening, session, registry, queue, threads, backlog, crashed>>

\* A completion reaches the lane.
Deliver(i) ==
    /\ ~crashed
    /\ i \in late
    /\ late' = late \ {i}
    /\ queue' = Append(queue, Handler("accept", i))
    /\ UNCHANGED <<started, listening, session, accept, registry, threads, peers, crashed>>

-----------------------------------------------------------------------------
ThreadEnter(t) ==
    Start(t) \/ Stop(t) \/ Restart(t) \/ DisconnectAll(t) \/ Multicast(t)

ThreadStep(t) ==
    \/ PostHandler(t) \/ RestartWait(t) \/ RestartStart(t)
    \/ MulticastLock(t) \/ MulticastSend(t)

LaneStep ==
    \/ StartHandler \/ StartThrows \/ StopHandler \/ DisconnectAllHandler
    \/ (\E i \in Sessions : AcceptHandler(i)) \/ UnregisterHandler \/ UnregisterRace

SessionStep(i) == SessionEnds(i) \/ SessionRace(i)

Next ==
    \/ \E t \in Threads : ThreadEnter(t) \/ ThreadStep(t)
    \/ LaneStep
    \/ \E i \in Sessions :
          SessionStep(i) \/ AcceptPerform(i) \/ AcceptFail(i) \/ Deliver(i)
    \/ Arrive

Spec == Init /\ [][Next]_vars

\* Threads inside a call, the lane, a posted disconnect, the io_service and an
\* accept for which a peer waits keep going.
Fairness ==
    /\ \A t \in Threads : WF_vars(ThreadStep(t))
    /\ WF_vars(LaneStep)
    /\ \A i \in Sessions :
          /\ WF_vars(sess[i] = "asked" /\ SessionStep(i))
          /\ WF_vars(AcceptPerform(i))
          /\ WF_vars(Deliver(i))

FairSpec == Spec /\ Fairness

-----------------------------------------------------------------------------
(* Properties *)

\* Every field and control point has its type.
TypeOK ==
    /\ started \in BOOLEAN /\ listening \in BOOLEAN /\ crashed \in BOOLEAN
    /\ session \in Sessions \cup {NoSession}
    /\ sessions \subseteq Sessions
    /\ accept \in [Sessions -> {"none", "pending", "ok", "error"}]
    /\ late \subseteq Sessions
    /\ sess \in [Sessions -> {"none", "connected", "asked", "closed"}]
    /\ queue \in Seq([op : {"start", "stop", "disconnectAll", "accept", "unregister"},
                      id : Sessions \cup {NoSession}])
    /\ pc \in [Threads -> {"idle", "start", "stop", "restart", "wait", "again",
                           "disconnectAll", "multicast", "sending"}]
    /\ todo \in [Threads -> SUBSET Sessions]
    /\ backlog \in Nat
    /\ used \in [calls : Nat, clients : Nat, failures : Nat]

\* The map holds exactly the sessions that are connected or whose removal is
\* waiting on the lane, once, whichever of stop, disconnectAll, a late completion
\* and the peer ends a session: no live session is forgotten (multicast and
\* disconnectAll would miss it) and no dead one stays.
Queued(op, i) == \E k \in DOMAIN queue : queue[k] = Handler(op, i)

RegistryExact ==
    /\ \A i \in Sessions : i \in sessions <=> sess[i] # "none"
    /\ \A i \in Sessions : sess[i] = "closed" <=> Queued("unregister", i)
    /\ \A j, k \in DOMAIN queue :
          queue[j].op = "unregister" /\ queue[j] = queue[k] => j = k

\* The inductive form of RegistryExact: an accept only ever fills the socket of
\* a Session that has not been connected yet.
RegistryInv ==
    /\ TypeOK
    /\ RegistryExact
    /\ \A i \in Sessions : accept[i] # "none" => sess[i] = "none"

\* A started server always has an accept outstanding, or the completion that
\* starts the next one on its way; a stopped server has none outstanding.
KeepsAccepting ==
    /\ started = listening
    /\ started => \E i \in Sessions : accept[i] # "none"
    /\ \A i \in Sessions : accept[i] = "pending" => started

\* Without a strand, and with one thread in charge of start and stop, there is
\* one chain of accepts, and the accept of a started server fills the socket of
\* the very session that its completion will register.
OneAccept ==
    /\ Cardinality({i \in Sessions : accept[i] # "none"}) <= 1
    /\ started => \A i \in Sessions : accept[i] # "none" => session = i

\* A stopped server gets rid of every session it had, also when it is started
\* again in between.
StopDrains ==
    \A i \in Sessions : (~started /\ i \in sessions) ~> (i \notin sessions \/ crashed)

\* A peer that connects is accepted unless the server is stopped.
Serves == (backlog > 0) ~> (backlog = 0 \/ crashed)

\* What tcp_server.hxx says of stop(): when it returns true the server stops,
\* with no accept and no session left.
CleanStop ==
    \A t \in Threads :
        (pc[t] = "stop") ~>
            (/\ ~started /\ sessions = {} /\ ~crashed
             /\ \A i \in Sessions : accept[i] = "none")

\* What tcp_server.hxx says of restart(): it returns, and true only when the
\* server has restarted.
RestartWorks == \A t \in Threads : (pc[t] = "wait") ~> (pc[t] = "idle" /\ started)

=============================================================================
