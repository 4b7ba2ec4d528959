------------------------------- MODULE TimedIo -------------------------------
(***************************************************************************)
(* The blocking send and receive of Tcp::Session and Tcp::Client: with a   *)
(* timeout the caller starts a timer and an asynchronous operation whose   *)
(* handlers share variables of the caller's stack frame, and waits until   *)
(* both have run.                                                          *)
(*                                                                         *)
(* The code has four copies of this protocol, which differ as their records*)
(* below say.  One call is modelled, on one connection: the caller, the    *)
(* workers of the io_service (the timer's handler runs on any of them, the *)
(* operation's on the connection's lane), the receive loop the connection  *)
(* may have outstanding, a disconnect and a peer that hangs up.            *)
(* socket().cancel() throws once the socket is closed, and an exception    *)
(* other than not_connected ends the worker (Service::serviceThread).      *)
(***************************************************************************)
EXTENDS Naturals

CONSTANTS Modes

Junk == 9       \* what an uninitialised size holds

\* How each copy initialises its counter and its size, and how it ends the
\* connection: a session posts the disconnect, a client disconnects itself.
SessionSend ==
    [copy |-> "session", op |-> "send", counters |-> {0}, size |-> Junk]
SessionReceive ==
    [copy |-> "session", op |-> "receive", counters |-> {0}, size |-> Junk]
ClientSend ==
    [copy |-> "client", op |-> "send", counters |-> 0 .. 3, size |-> Junk]
ClientReceive ==
    [copy |-> "client", op |-> "receive", counters |-> 0 .. 3, size |-> 0]

Copies == {SessionSend, SessionReceive, ClientSend, ClientReceive}

\* workers: threads of the io_service; loop: the connection has a read of its own
\* outstanding; own: the caller is the lane itself; timed: timeout is not zero.
ASSUME ModesAssumption ==
    Modes \subseteq [call : Copies, workers : Nat \ {0}, loop : BOOLEAN, own : BOOLEAN,
                     timed : BOOLEAN]

VARIABLES
    mode, start,        \* the call, and the value its counter starts with
    pc,                 \* the caller
    done, err, size,    \* the variables of its frame
    timer, op,          \* its timer and its operation
    loop,               \* the connection's own read
    open,               \* the socket is open and _connected is set
    posted,             \* a disconnect handler is on the lane
    hungup,             \* the peer closed the connection
    alive,              \* workers that were not ended by an exception
    moved,              \* history: bytes the operation sent or received
    result              \* what the call returned

fixed == <<mode, start>>
frame == <<done, err, size>>
conn == <<loop, open, posted>>

vars == <<fixed, pc, frame, timer, op, conn, hungup, alive, moved, result>>

NoOp == [at |-> "none", n |-> 0, err |-> "none"]

Init ==
    /\ mode \in Modes
    /\ start \in mode.call.counters
    /\ pc = "enter"
    /\ done = start /\ err = "none" /\ size = mode.call.size
    /\ timer = "none" /\ op = NoOp
    /\ loop = IF mode.loop THEN "pending" ELSE "none"
    /\ open = TRUE /\ posted = FALSE /\ hungup = FALSE
    /\ alive = mode.workers
    /\ moved = 0 /\ result = 0

\* What cancel() and close() do to an operation and to the loop's read.
Abort(o) == IF o.at = "pending" THEN [o EXCEPT !.at = "queued", !.err = "aborted"] ELSE o
Ended(l) == IF l = "pending" THEN "ended" ELSE l

\* disconnect(): the socket is closed.
Close ==
    /\ open' = FALSE
    /\ op' = Abort(op)
    /\ loop' = Ended(loop)

\* A worker is free, and for handlers on the connection's lane, so is the lane.
Blocked == mode.own /\ pc # "returned"
FreeWorker == alive > (IF op.at = "store" THEN 1 ELSE 0) + (IF Blocked THEN 1 ELSE 0)
LaneFree == FreeWorker /\ ~Blocked /\ op.at # "store"

-----------------------------------------------------------------------------
(* The caller *)

Enter ==
    /\ pc = "enter"
    /\ pc' = IF ~open THEN "returned" ELSE IF mode.timed THEN "arm" ELSE "block"
    /\ UNCHANGED <<fixed, frame, timer, op, conn, hungup, alive, moved, result>>

\* Without a timeout: writeSome or readSome, to the end or to an error.
Blocking ==
    /\ pc = "block"
    /\ pc' = "finish"
    /\ \/ open /\ moved' = 1 /\ size' = 1 /\ UNCHANGED err
       \/ (hungup \/ ~open) /\ size' = 0 /\ err' = "broken" /\ UNCHANGED moved
    /\ UNCHANGED <<fixed, done, timer, op, conn, hungup, alive, result>>

\* The timer is armed before the operation is started ...
Arm ==
    /\ pc = "arm"
    /\ pc' = "issue"
    /\ timer' = "armed"
    /\ UNCHANGED <<fixed, frame, op, conn, hungup, alive, moved, result>>

\* ... and may have expired by then.
Issue ==
    /\ pc = "issue"
    /\ pc' = "wait"
    /\ op' = IF open THEN [NoOp EXCEPT !.at = "pending"]
                     ELSE [NoOp EXCEPT !.at = "queued", !.err = "broken"]
    /\ UNCHANGED <<fixed, frame, timer, conn, hungup, alive, moved, result>>

\* cv.wait.  Fault: it waits for the first handler only.
WakeAt(n) ==
    /\ pc = "wait"
    /\ done = n
    /\ pc' = "finish"
    /\ UNCHANGED <<fixed, frame, timer, op, conn, hungup, alive, moved, result>>

WakeFirst == WakeAt(1)

Wake == WakeAt(2)

\* The callback and the counters get `size', a failed operation ends the
\* connection, and `size' is returned.
Finish ==
    /\ pc = "finish"
    /\ pc' = "returned"
    /\ result' = size
    /\ LET fails == err \notin {"none", "timed_out"}
       IN \/ /\ fails /\ open /\ mode.call.copy = "client"
             /\ Close /\ UNCHANGED posted
          \/ /\ fails /\ open /\ mode.call.copy = "session"
             /\ posted' = TRUE /\ UNCHANGED <<op, loop, open>>
          \/ /\ ~(fails /\ open)
             /\ UNCHANGED <<op, conn>>
    /\ UNCHANGED <<fixed, frame, timer, hungup, alive, moved>>

-----------------------------------------------------------------------------
(* The two handlers *)

First == done = 0

\* Part of `handler' that both run under the mutex: the first one notes its code
\* and cancels; cancel() of a closed socket throws.
Handler(code) ==
    /\ done' = done + 1
    /\ err' = IF First THEN code ELSE err
    /\ alive' = IF First /\ ~open THEN alive - 1 ELSE alive
    /\ loop' = IF First /\ open THEN Ended(loop) ELSE loop

\* The session's copy looks at `err' instead of at its argument.
TimerCode ==
    IF mode.call.copy = "session"
    THEN IF err # "none" THEN err ELSE "timed_out"
    ELSE IF timer = "cancelled" THEN "aborted" ELSE "timed_out"

\* Fault: the operation is not cancelled.
TimerHandlerWith(cancels) ==
    /\ timer \in {"expired", "cancelled"}
    /\ FreeWorker
    /\ timer' = "handled"
    /\ Handler(TimerCode)
    /\ op' = IF cancels /\ First /\ open THEN Abort(op) ELSE op
    /\ UNCHANGED <<fixed, pc, size, open, posted, hungup, moved, result>>

TimerHandlerAlone == TimerHandlerWith(FALSE)

TimerHandler == TimerHandlerWith(TRUE)

OpHandler ==
    /\ op.at = "queued"
    /\ LaneFree
    /\ op' = [op EXCEPT !.at = IF First /\ ~open THEN "lost" ELSE "store"]
    /\ Handler(op.err)
    /\ timer' = IF First /\ open /\ timer = "armed" THEN "cancelled" ELSE timer
    /\ UNCHANGED <<fixed, pc, size, open, posted, hungup, moved, result>>

\* The size is stored after the mutex is released.
\* Fault: it is not stored when the operation failed.
StoreSizeIf(stores) ==
    /\ op.at = "store"
    /\ op' = [op EXCEPT !.at = "handled"]
    /\ size' = IF stores THEN op.n ELSE size
    /\ UNCHANGED <<fixed, pc, done, err, timer, conn, hungup, alive, moved, result>>

StoreSizeOnSuccess == StoreSizeIf(op.err = "none")

StoreSize == StoreSizeIf(TRUE)

-----------------------------------------------------------------------------
(* The rest of the connection, the timer and the peer *)

Expire ==
    /\ timer = "armed"
    /\ timer' = "expired"
    /\ UNCHANGED <<fixed, pc, frame, op, conn, hungup, alive, moved, result>>

\* The operation moves data, or fails because the peer is gone.
Perform(n) ==
    /\ op.at = "pending"
    /\ n = 1 \/ hungup
    /\ op' = [at |-> "queued", n |-> n, err |-> IF n = 0 THEN "broken" ELSE "none"]
    /\ moved' = n
    /\ UNCHANGED <<fixed, pc, frame, timer, conn, hungup, alive, result>>

HangUp ==
    /\ ~hungup
    /\ hungup' = TRUE
    /\ loop' = Ended(loop)
    /\ UNCHANGED <<fixed, pc, frame, timer, op, open, posted, alive, moved, result>>

\* A read of the connection's own that failed or was cancelled ends it.
LoopHandler ==
    /\ loop = "ended"
    /\ LaneFree
    /\ IF open THEN open' = FALSE /\ op' = Abort(op) ELSE UNCHANGED <<open, op>>
    /\ loop' = "over"
    /\ UNCHANGED <<fixed, pc, frame, timer, posted, hungup, alive, moved, result>>

\* Another thread calls disconnectAsync, the client's cancels first; or the
\* client's disconnect, which closes the socket there and then.
Disconnect ==
    /\ open
    /\ \/ /\ ~posted
          /\ posted' = TRUE
          /\ op' = IF mode.call.copy = "client" THEN Abort(op) ELSE op
          /\ loop' = IF mode.call.copy = "client" THEN Ended(loop) ELSE loop
          /\ UNCHANGED open
       \/ /\ mode.call.copy = "client"
          /\ Close
          /\ UNCHANGED posted
    /\ UNCHANGED <<fixed, pc, frame, timer, hungup, alive, moved, result>>

DisconnectHandler ==
    /\ posted
    /\ LaneFree
    /\ posted' = FALSE
    /\ IF open THEN Close ELSE UNCHANGED <<open, op, loop>>
    /\ UNCHANGED <<fixed, pc, frame, timer, hungup, alive, moved, result>>

-----------------------------------------------------------------------------
Caller == Enter \/ Blocking \/ Arm \/ Issue \/ Wake \/ Finish
Lane == OpHandler \/ StoreSize \/ LoopHandler \/ DisconnectHandler

Next ==
    \/ Caller \/ Lane \/ TimerHandler \/ Expire
    \/ \E n \in 0 .. 1 : Perform(n)
    \/ HangUp \/ Disconnect

Spec == Init /\ [][Next]_vars

\* The caller and the workers keep going and the timer expires; nothing is
\* expected of the peer.
Fairness ==
    /\ WF_vars(Caller) /\ WF_vars(Lane) /\ WF_vars(TimerHandler) /\ WF_vars(Expire)

FairSpec == Spec /\ Fairness

-----------------------------------------------------------------------------
(* Properties *)

\* The counter started at zero, as the client's does only by luck, and the lane
\* does not wait for itself.
Sound == start = 0 /\ ~mode.own

\* With a timeout the call returns whatever the peer does, if the timer was still
\* running when the operation was started or the connection has a read whose
\* cancellation closes it; unless a handler found the socket closed and cancel()
\* threw on the last worker.
TimedReturns ==
    (Sound /\ pc = "wait" /\ (mode.loop \/ timer = "armed"))
        ~> (pc = "returned" \/ alive = 0)

\* The mutex, the condition variable and the timer live on the caller's frame:
\* both handlers have had the mutex when it is left.  (The operation's may still
\* have to store the size, into a frame that is gone: it does so after it unlocked.)
FrameOutlivesHandlers ==
    Sound /\ mode.timed /\ pc \in {"finish", "returned"} /\ timer # "none"
        => timer = "handled" /\ op.at \in {"store", "handled", "lost"}

\* On a lane with one thread a call that did not time out returns, and counts, as
\* many bytes as the operation moved.
ResultExact ==
    Sound /\ mode.workers = 1 /\ pc = "returned" /\ err # "timed_out" => result = moved

=============================================================================
