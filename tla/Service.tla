------------------------------- MODULE Service -------------------------------
(***************************************************************************)
(* Core::Service: the threads that run the io_services everything else is  *)
(* built on, and start(), stop() and restart().                            *)
(*                                                                         *)
(* Controllers are the application threads that call those three; Workers  *)
(* are the service's threads.  `mode' is how the service was built and how *)
(* the application uses it, and does not change.  With mode.shared (the    *)
(* constructor's own_io) all workers run one io_service and a strand       *)
(* serialises what is posted to the service; without it every worker runs  *)
(* an io_service of its own.                                               *)
(*                                                                         *)
(* `crashed' is a call of std::terminate.                                  *)
(***************************************************************************)
EXTENDS Naturals, Sequences

CONSTANTS
    NumThreads,     \* size of _threads
    Controllers,    \* application threads
    Modes,          \* the ways the service is used: records with the fields
                    \*   shared: one io_service for all threads
                    \*   polls: arguments start() is called with
                    \*   throws: what handlers may throw
                    \*   again: start() may be called after a stop()
                    \*   overlap: calls of different controllers may overlap
    MaxCalls,       \* bound: calls of start, stop and restart
    MaxPosts        \* bound: handlers posted by the application

ASSUME ThreadsAssumption == NumThreads \in Nat \ {0}
ASSUME ModesAssumption ==
    Modes \subseteq [shared : BOOLEAN, polls : SUBSET BOOLEAN,
                     throws : SUBSET {"not_connected", "other"},
                     again : BOOLEAN, overlap : BOOLEAN]
ASSUME BoundsAssumption == MaxCalls \in Nat /\ MaxPosts \in Nat

VARIABLES
    mode,
    started, polling,
    queue,          \* handlers waiting in each io_service, empty where there is none
    halted,         \* io_services that were stopped
    worker,         \* each service thread
    pc,             \* each controller
    used,           \* calls and posts so far, for the bounds
    crashed

io == <<queue, halted>>
flags == <<started, polling>>

vars == <<mode, flags, io, worker, pc, used, crashed>>

Workers == 0 .. NumThreads - 1
Services == IF mode.shared THEN {0} ELSE Workers

\* The io_service a worker runs.  Fault: every worker runs the first one.
ServiceOfFirst(w) == 0

ServiceOf(w) == IF mode.shared THEN 0 ELSE w

NoThread == [at |-> "none", polling |-> FALSE, handler |-> "none"]
Ready == [at |-> "idle", k |-> 0, restart |-> FALSE, polling |-> FALSE]

Init ==
    /\ mode \in Modes
    /\ started = FALSE /\ polling = FALSE
    /\ queue = [s \in Workers |-> << >>]
    /\ halted = {}
    /\ worker = [w \in Workers |-> NoThread]
    /\ pc = [c \in Controllers |-> Ready]
    /\ used = [calls |-> 0, posts |-> 0]
    /\ crashed = FALSE

Alive == ~crashed

Terminate ==
    /\ crashed' = TRUE
    /\ UNCHANGED <<flags, io, worker, pc, used>>

At(c, point) == Alive /\ pc[c].at = point
Go(c, point) == pc' = [pc EXCEPT ![c].at = point, ![c].k = 0]

-----------------------------------------------------------------------------
(* start(), stop() and restart() *)

Call(c, entry) ==
    /\ At(c, "idle")
    /\ mode.overlap \/ \A d \in Controllers : pc[d].at = "idle"
    /\ used.calls < MaxCalls
    /\ used' = [used EXCEPT !.calls = @ + 1]
    /\ pc' = [pc EXCEPT ![c] = entry]
    /\ UNCHANGED <<flags, io, worker, crashed>>

Start(c, poll) ==
    /\ ~started
    /\ mode.again \/ halted = {}
    /\ Call(c, [Ready EXCEPT !.at = "start", !.polling = poll])

Stop(c) == started /\ Call(c, [Ready EXCEPT !.at = "stop"])

Restart(c) ==
    started /\ Call(c, [Ready EXCEPT !.at = "stop", !.restart = TRUE, !.polling = polling])

\* start() posts its handler and creates the threads ...
StartPost(c) ==
    /\ At(c, "start")
    /\ polling' = pc[c].polling
    /\ queue' = [queue EXCEPT ![0] = Append(@, "start")]
    /\ Go(c, "create")
    /\ UNCHANGED <<started, halted, worker, used, crashed>>

\* ... one by one; a thread that was not joined cannot be assigned to ...
StartCreate(c) ==
    /\ At(c, "create")
    /\ \/ /\ pc[c].k < NumThreads
          /\ worker[pc[c].k].at # "none"
          /\ Terminate
       \/ /\ pc[c].k < NumThreads
          /\ worker[pc[c].k].at = "none"
          /\ worker' = [worker EXCEPT ![pc[c].k].at = "init"]
          /\ pc' = [pc EXCEPT ![c].k = @ + 1]
          /\ UNCHANGED <<flags, io, used, crashed>>
       \/ /\ pc[c].k = NumThreads
          /\ Go(c, "await")
          /\ UNCHANGED <<flags, io, worker, used, crashed>>

\* ... and waits for the handler.
StartReturn(c) ==
    /\ At(c, "await")
    /\ started
    /\ pc' = [pc EXCEPT ![c] = Ready]
    /\ UNCHANGED <<flags, io, worker, used, crashed>>

StopPost(c) ==
    /\ At(c, "stop")
    /\ queue' = [queue EXCEPT ![0] = Append(@, "stop")]
    /\ Go(c, "join")
    /\ UNCHANGED <<flags, halted, worker, used, crashed>>

\* Joining a thread twice is an error nobody catches.
\* Fault: the threads are not joined.
StopJoinNone(c) ==
    /\ At(c, "join")
    /\ polling' = FALSE
    /\ Go(c, "drain")
    /\ UNCHANGED <<started, io, worker, used, crashed>>

StopJoin(c) ==
    /\ At(c, "join")
    /\ \/ /\ pc[c].k < NumThreads
          /\ worker[pc[c].k].at = "none"
          /\ Terminate
       \/ /\ pc[c].k < NumThreads
          /\ worker[pc[c].k].at = "done"
          /\ worker' = [worker EXCEPT ![pc[c].k] = NoThread]
          /\ pc' = [pc EXCEPT ![c].k = @ + 1]
          /\ UNCHANGED <<flags, io, used, crashed>>
       \/ /\ pc[c].k = NumThreads
          /\ polling' = FALSE
          /\ Go(c, "drain")
          /\ UNCHANGED <<started, io, worker, used, crashed>>

\* stop() returns; restart() replaces the io_services, with what they still
\* held, and starts again.  Fault: the stopped io_services are used again.
StopReturnWith(c, fresh) ==
    /\ At(c, "drain")
    /\ ~started
    /\ \/ /\ ~pc[c].restart
          /\ pc' = [pc EXCEPT ![c] = Ready]
          /\ UNCHANGED io
       \/ /\ pc[c].restart
          /\ queue' = IF fresh THEN [s \in Workers |-> << >>] ELSE queue
          /\ halted' = IF fresh THEN {} ELSE halted
          /\ pc' = [pc EXCEPT ![c].at = "start", ![c].restart = FALSE]
    /\ UNCHANGED <<flags, worker, used, crashed>>

StopReturnSameIo(c) == StopReturnWith(c, FALSE)

StopReturn(c) == StopReturnWith(c, TRUE)

\* post() and dispatch() of the service, which go through its strand if it has
\* one, and those of an io_service it gave away, which do not ("direct").
Post(s) ==
    /\ Alive
    /\ used.posts < MaxPosts
    /\ used' = [used EXCEPT !.posts = @ + 1]
    /\ \E h \in IF mode.shared THEN {"user", "direct"} ELSE {"user"} :
          queue' = [queue EXCEPT ![s] = Append(@, h)]
    /\ UNCHANGED <<flags, halted, worker, pc, crashed>>

-----------------------------------------------------------------------------
(* serviceThread *)

Worker(w, point) == Alive /\ worker[w].at = point

WorkerInit(w) ==
    /\ Worker(w, "init")
    /\ worker' = [worker EXCEPT ![w].at = "loop", ![w].polling = polling]
    /\ UNCHANGED <<flags, io, pc, used, crashed>>

\* The strand runs one handler at a time; its others wait and do not hold up the
\* handlers posted to the io_service itself.
StrandBusy ==
    mode.shared /\ \E w \in Workers : worker[w].handler \notin {"none", "direct"}

Turn(s, i) ==
    LET may(j) == queue[s][j] = "direct" \/ ~StrandBusy
    IN s \notin halted /\ may(i) /\ \A j \in 1 .. i - 1 : ~may(j)

Available(s) == \E i \in 1 .. Len(queue[s]) : Turn(s, i)

Without(q, i) == [j \in 1 .. Len(q) - 1 |-> IF j < i THEN q[j] ELSE q[j + 1]]

WorkerTake(w) ==
    LET s == ServiceOf(w)
    IN /\ Worker(w, "loop")
       /\ \E i \in 1 .. Len(queue[s]) :
             /\ Turn(s, i)
             /\ worker' = [worker EXCEPT ![w].at = "handler", ![w].handler = queue[s][i]]
             /\ queue' = [queue EXCEPT ![s] = Without(@, i)]
       /\ UNCHANGED <<flags, halted, pc, used, crashed>>

\* poll() returns when nothing is ready, run() when the io_service is stopped.
\* Fault: without its work object run() returns when nothing is ready, too.
WorkerReturnWith(w, idle) ==
    /\ Worker(w, "loop")
    /\ \/ /\ worker[w].polling
          /\ ~Available(ServiceOf(w))
          /\ worker' = [worker EXCEPT ![w].at = "again"]
       \/ /\ ~worker[w].polling
          /\ ServiceOf(w) \in halted \/ idle
          /\ worker' = [worker EXCEPT ![w].at = "done"]
    /\ UNCHANGED <<flags, io, pc, used, crashed>>

WorkerReturnNoWork(w) == WorkerReturnWith(w, ~Available(ServiceOf(w)))

WorkerReturn(w) == WorkerReturnWith(w, FALSE)

\* The condition of the loop, after poll() or a skipped exception.
WorkerAgain(w) ==
    /\ Worker(w, "again")
    /\ worker' = [worker EXCEPT ![w].at = IF started THEN "loop" ELSE "done"]
    /\ UNCHANGED <<flags, io, pc, used, crashed>>

Handles(w, h) == Worker(w, "handler") /\ worker[w].handler = h
Handled(w) == worker' = [worker EXCEPT ![w].at = "loop", ![w].handler = "none"]

StartHandler(w) ==
    /\ Handles(w, "start")
    /\ started' = TRUE
    /\ Handled(w)
    /\ UNCHANGED <<polling, io, pc, used, crashed>>

\* The handler of stop() stops every io_service and then clears the flag.
\* Fault: only the first io_service is stopped.
StopHandlerWith(w, services) ==
    /\ Handles(w, "stop")
    /\ \/ /\ started
          /\ halted' = halted \cup services
          /\ worker' = [worker EXCEPT ![w].handler = "stopped"]
       \/ /\ ~started
          /\ Handled(w)
          /\ UNCHANGED halted
    /\ UNCHANGED <<flags, queue, pc, used, crashed>>

StopHandlerFirst(w) == StopHandlerWith(w, {0})

StopHandler(w) == StopHandlerWith(w, Services)

StoppedHandler(w) ==
    /\ Handles(w, "stopped")
    /\ started' = FALSE
    /\ Handled(w)
    /\ UNCHANGED <<polling, io, pc, used, crashed>>

\* A handler of the application returns, or throws: a disconnect error is
\* skipped, another one ends the thread.
UserHandler(w) ==
    /\ Handles(w, "user") \/ Handles(w, "direct")
    /\ \/ Handled(w)
       \/ /\ "not_connected" \in mode.throws
          /\ worker' = [worker EXCEPT ![w].at = "again", ![w].handler = "none"]
       \/ /\ "other" \in mode.throws
          /\ worker' = [worker EXCEPT ![w].at = "done", ![w].handler = "none"]
    /\ UNCHANGED <<flags, io, pc, used, crashed>>

-----------------------------------------------------------------------------
ControllerEnter(c) ==
    /\ Stop(c) \/ Restart(c) \/ \E poll \in mode.polls : Start(c, poll)
    /\ UNCHANGED mode

ControllerStep(c) ==
    /\ \/ StartPost(c) \/ StartCreate(c) \/ StartReturn(c)
       \/ StopPost(c) \/ StopJoin(c) \/ StopReturn(c)
    /\ UNCHANGED mode

WorkerStep(w) ==
    /\ \/ WorkerInit(w) \/ WorkerTake(w) \/ WorkerReturn(w) \/ WorkerAgain(w)
       \/ StartHandler(w) \/ StopHandler(w) \/ StoppedHandler(w) \/ UserHandler(w)
    /\ UNCHANGED mode

Next ==
    \/ \E c \in Controllers : ControllerEnter(c) \/ ControllerStep(c)
    \/ \E w \in Workers : WorkerStep(w)
    \/ \E s \in Services : Post(s) /\ UNCHANGED mode

Spec == Init /\ [][Next]_vars

\* Every thread keeps running, whatever it waits for.
Fairness ==
    /\ \A c \in Controllers : WF_vars(ControllerStep(c))
    /\ \A w \in Workers : WF_vars(WorkerStep(w))

FairSpec == Spec /\ Fairness

-----------------------------------------------------------------------------
(* Properties *)

\* Nothing is thrown, calls do not overlap and a stopped service is only used
\* again by restart().
Calm == ~mode.overlap /\ ~mode.again /\ mode.throws = {} /\ TRUE \notin mode.polls

AllReturned == \A c \in Controllers : pc[c].at = "idle"

\* A service that is started and that nobody is stopping has all its threads:
\* none has left its loop.  (A polling thread that looks before the start handler
\* ran, or one whose handler throws, does leave; and when calls overlap, a stop()
\* can return before its handler ran, which then stops what was started since.)
WorkersStay ==
    ~mode.overlap /\ mode.throws = {} /\ TRUE \notin mode.polls /\ started /\ AllReturned
        => \A w \in Workers : worker[w].at \notin {"none", "done"}

\* Once stop() has returned no thread of the service exists and no handler is
\* running, so what the handlers use may be destroyed; whatever handlers threw.
StopQuiesces ==
    ~mode.overlap /\ halted # {} /\ AllReturned
        => ~started /\ \A w \in Workers : worker[w].at = "none"

\* No std::thread is assigned to while it runs and none is joined twice, as long
\* as the calls do not overlap; whatever handlers threw.
NoTerminate == crashed => mode.overlap

\* start() and stop() return.
StartReturns ==
    \A c \in Controllers : (Calm /\ pc[c].at = "start") ~> (pc[c].at = "idle")

StopReturns ==
    \A c \in Controllers : (Calm /\ pc[c].at = "stop") ~> (pc[c].at \in {"idle", "start"})

\* A handler posted to any of the io_services of a started service is taken
\* unless the service is stopped.
HandlersRun ==
    \A s \in Workers :
        (Calm /\ started /\ queue[s] # << >>)
            ~> (s \in halted \/ queue[s] = << >>)

=============================================================================
