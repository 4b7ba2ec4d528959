--------------------------- MODULE TimedIoProofs ---------------------------
(***************************************************************************)
(* The stack frame and the result of a blocking send or receive, proved    *)
(* for every copy of the protocol and any number of workers.               *)
(***************************************************************************)
EXTENDS TimedIo, Integers, TLAPS

-----------------------------------------------------------------------------
(* The inductive invariant *)

Points == {"enter", "arm", "issue", "wait", "block", "finish", "returned"}
Codes == {"none", "aborted", "broken", "timed_out"}

TypeOK ==
    /\ mode \in Modes /\ start \in Nat
    /\ pc \in Points
    /\ done \in Nat /\ err \in Codes /\ size \in Nat
    /\ timer \in {"none", "armed", "expired", "cancelled", "handled"}
    /\ op \in [at : {"none", "pending", "queued", "store", "handled", "lost"},
               n : 0 .. 1, err : Codes]
    /\ loop \in {"none", "pending", "ended", "over"}
    /\ open \in BOOLEAN /\ posted \in BOOLEAN /\ hungup \in BOOLEAN
    /\ alive \in Nat /\ moved \in Nat /\ result \in Nat

OpRan == op.at \in {"store", "handled", "lost"}
TimerRan == timer = "handled"

\* The counter of the frame counts the handlers that have run.
Counted == done = start + (IF TimerRan THEN 1 ELSE 0) + (IF OpRan THEN 1 ELSE 0)

\* Where the caller is tells what it has started, and what it has waited for.
Progress ==
    /\ pc \in {"enter", "arm", "block"} => timer = "none"
    /\ pc \in {"enter", "arm", "block", "issue"} => op = NoOp /\ moved = 0
    /\ ~mode.timed => timer = "none" /\ op = NoOp /\ pc \notin {"arm", "issue", "wait"}
    /\ mode.timed => pc # "block" /\ moved = op.n
    /\ pc \in {"issue", "wait"} => timer # "none"
    /\ mode.timed /\ pc = "finish" => timer # "none" /\ done >= 2
    /\ pc = "returned" /\ timer # "none" => done >= 2
    /\ mode.timed /\ pc = "returned" /\ timer = "none" => op = NoOp
    /\ pc # "returned" => result = 0

\* One worker, a counter that starts at zero, and a caller that is not the lane.
Alone == Sound /\ mode.workers = 1

\* The worker that runs the operation's handler stores the size before it runs
\* the timer's; and the timer's, when it is first, notes a timeout.
Exact ==
    /\ alive <= 1
    /\ mode.timed /\ done = 0 => err = "none"
    /\ timer = "cancelled" => OpRan
    /\ TimerRan /\ op.at # "handled" => err = "timed_out"
    /\ op.at = "lost" => alive = 0 /\ ~TimerRan
    /\ op.at = "handled" => size = op.n
    /\ ~mode.timed /\ pc = "finish" => size = moved
    /\ pc = "returned" /\ err # "timed_out" => result = moved

IoInv == TypeOK /\ Counted /\ Progress /\ (Alone => Exact)

-----------------------------------------------------------------------------
(* Facts about the constants and the helpers *)

LEMMA ModeFacts ==
    ASSUME TypeOK
    PROVE  /\ mode.call \in Copies /\ mode.workers \in Nat \ {0}
           /\ mode.own \in BOOLEAN /\ mode.timed \in BOOLEAN
  BY ModesAssumption DEF TypeOK

\* A cancelled operation is queued with nothing moved; one that was not pending
\* is left alone.
LEMMA AbortFacts ==
    ASSUME TypeOK
    PROVE  /\ Abort(op) \in [at : {"none", "pending", "queued", "store", "handled", "lost"},
                             n : 0 .. 1, err : Codes]
           /\ Abort(op).n = op.n
           /\ op.at # "pending" => Abort(op) = op
           /\ op.at = "pending" => Abort(op).at = "queued"
  <1>1. CASE op.at = "pending"
    BY <1>1 DEF Abort, TypeOK, Codes
  <1>2. CASE op.at # "pending"
    BY <1>2 DEF Abort, TypeOK
  <1> QED  BY <1>1, <1>2

LEMMA NoOpFacts ==
    /\ NoOp \in [at : {"none", "pending", "queued", "store", "handled", "lost"},
                 n : 0 .. 1, err : Codes]
    /\ NoOp.at = "none" /\ NoOp.n = 0 /\ NoOp.err = "none"
  BY DEF NoOp, Codes

LEMMA IoInit == Init => IoInv
  <1> SUFFICES ASSUME Init PROVE IoInv
    OBVIOUS
  <1>1. /\ mode.call \in Copies /\ mode.workers \in Nat \ {0}
        /\ mode.own \in BOOLEAN /\ mode.timed \in BOOLEAN
    BY ModesAssumption DEF Init
  <1>2. mode.call.size \in Nat /\ start \in Nat
    BY <1>1 DEF Init, Copies, SessionSend, SessionReceive, ClientSend, ClientReceive, Junk
  <1>3. TypeOK
    BY <1>1, <1>2, NoOpFacts DEF Init, TypeOK, Points, Codes
  <1>4. Counted
    BY <1>2, NoOpFacts DEF Init, Counted, TimerRan, OpRan
  <1>5. Progress
    BY NoOpFacts DEF Init, Progress
  <1>6. Alone => Exact
    BY <1>1, NoOpFacts DEF Init, Alone, Exact, OpRan, TimerRan
  <1> QED  BY <1>3, <1>4, <1>5, <1>6 DEF IoInv

-----------------------------------------------------------------------------
(* The caller *)

\* The steps of the caller before it starts anything.
LEMMA EnterStep ==
    ASSUME IoInv, Enter \/ Arm \/ Blocking
    PROVE  IoInv'
  <1> USE ModeFacts, NoOpFacts DEF IoInv
  <1>1. /\ UNCHANGED <<fixed, done, op, conn, hungup, alive, result>>
        /\ pc' \in Points /\ op = NoOp
    BY DEF Enter, Arm, Blocking, Points, Progress, frame
  <1>2. TypeOK'
    BY <1>1 DEF TypeOK, Codes, Enter, Arm, Blocking, frame, fixed, conn
  <1>3. Counted'
    BY <1>1 DEF TypeOK, Counted, TimerRan, OpRan, Progress, Enter, Arm, Blocking, frame, fixed
  <1>4. Progress'
    BY <1>1 DEF TypeOK, Progress, Enter, Arm, Blocking, fixed, frame
  <1>5. Alone' => Exact'
    BY <1>1 DEF TypeOK, Progress, Alone, Sound, Exact, TimerRan, OpRan, Enter, Arm, Blocking,
                fixed, frame
  <1> QED  BY <1>2, <1>3, <1>4, <1>5

LEMMA IssueStep == ASSUME IoInv, Issue PROVE IoInv'
  <1> USE ModeFacts, NoOpFacts DEF IoInv, Issue, fixed, frame, conn
  <1>1. /\ op = NoOp /\ mode.timed /\ moved = 0
        /\ op' \in [at : {"pending", "queued"}, n : {0}, err : {"none", "broken"}]
    BY DEF Progress, NoOp
  <1>2. TypeOK'
    BY <1>1 DEF TypeOK, Points, Codes
  <1>3. Counted'
    BY <1>1 DEF TypeOK, Counted, TimerRan, OpRan
  <1>4. Progress'
    BY <1>1 DEF TypeOK, Progress
  <1>5. Alone' => Exact'
    BY <1>1 DEF TypeOK, Progress, Alone, Sound, Exact, TimerRan, OpRan
  <1> QED  BY <1>2, <1>3, <1>4, <1>5

\* The wait ends with the counter at two.
LEMMA WakeStep == ASSUME IoInv, Wake PROVE IoInv'
  <1> USE ModeFacts, NoOpFacts DEF IoInv, Wake, WakeAt, fixed, frame, conn
  <1>1. TypeOK'
    BY DEF TypeOK, Points
  <1>2. Counted'
    BY DEF Counted, TimerRan, OpRan
  <1>3. Progress'
    BY DEF TypeOK, Progress
  <1>4. Alone' => Exact'
    BY DEF TypeOK, Progress, Alone, Sound, Exact, TimerRan, OpRan
  <1> QED  BY <1>1, <1>2, <1>3, <1>4

\* When the caller leaves the operation's handler has run, if its counter started
\* at zero, and the size it stored is the one returned.
LEMMA FinishStep == ASSUME IoInv, Finish PROVE IoInv'
  <1> USE ModeFacts, NoOpFacts, AbortFacts DEF IoInv
  <1>1. /\ UNCHANGED <<fixed, frame, timer, hungup, alive, moved>>
        /\ pc = "finish" /\ pc' = "returned" /\ result' = size
        /\ op' = op \/ op' = Abort(op)
    BY DEF Finish, Close, conn
  <1>2. TypeOK'
    <2>1. loop' \in {"none", "pending", "ended", "over"} /\ open' \in BOOLEAN
          /\ posted' \in BOOLEAN
      BY DEF TypeOK, Finish, Close, Ended, conn
    <2> QED  BY <1>1, <2>1 DEF TypeOK, Points, fixed, frame
  <1>3. Counted'
    BY <1>1 DEF TypeOK, Counted, TimerRan, OpRan, fixed, frame
  <1>4. Progress'
    BY <1>1 DEF TypeOK, Progress, fixed, frame
  <1>5. Alone' => Exact'
    <2> SUFFICES ASSUME Alone PROVE Exact'
      BY <1>1 DEF Alone, Sound, fixed
    <2>1. CASE ~mode.timed
      BY <1>1, <2>1 DEF TypeOK, Progress, Exact, TimerRan, OpRan, Alone, fixed, frame
    <2>2. CASE mode.timed
      <3>1. TimerRan /\ OpRan /\ op' = op
        BY <1>1, <2>2
           DEF TypeOK, Progress, Counted, TimerRan, OpRan, Alone, Sound
      <3> QED  BY <1>1, <2>2, <3>1 DEF TypeOK, Progress, Exact, TimerRan, OpRan, fixed, frame
    <2> QED  BY <2>1, <2>2 DEF TypeOK
  <1> QED  BY <1>2, <1>3, <1>4, <1>5

-----------------------------------------------------------------------------
(* The handlers *)

\* The timer's handler: when it is first it notes a timeout; when it is second,
\* one worker has finished the operation's handler.
LEMMA TimerHandlerStep == ASSUME IoInv, TimerHandler PROVE IoInv'
  <1> USE ModeFacts, NoOpFacts, AbortFacts DEF IoInv
  <1>1. /\ UNCHANGED <<fixed, pc, size, open, posted, hungup, moved, result>>
        /\ timer \in {"expired", "cancelled"} /\ FreeWorker /\ timer' = "handled"
        /\ done' = done + 1
        /\ err' = IF done = 0 THEN TimerCode ELSE err
        /\ alive' = IF First /\ ~open THEN alive - 1 ELSE alive
        /\ op' = op \/ op' = Abort(op)
    BY DEF TimerHandler, TimerHandlerWith, Handler, First
  <1>2. mode.timed
    BY <1>1 DEF Progress, TypeOK
  <1>3. alive > 0 /\ alive' \in Nat /\ alive' <= alive
    BY <1>1 DEF FreeWorker, TypeOK
  <1>4. TypeOK'
    <2>1. err' \in Codes  BY <1>1 DEF TimerCode, Codes, TypeOK
    <2>2. loop' \in {"none", "pending", "ended", "over"}
      BY DEF TimerHandler, TimerHandlerWith, Handler, Ended, TypeOK
    <2> QED  BY <1>1, <1>3, <2>1, <2>2 DEF TypeOK, fixed
  <1>5. Counted'
    BY <1>1 DEF TypeOK, Counted, TimerRan, OpRan, fixed
  <1>6. Progress'
    BY <1>1, <1>2 DEF TypeOK, Progress, fixed
  <1>7. Alone' => Exact'
    <2> SUFFICES ASSUME Alone PROVE Exact'
      BY <1>1 DEF Alone, Sound, fixed
    <2>1. alive = 1 /\ op.at # "store" /\ op.at # "lost"
      BY <1>1, <1>3 DEF Exact, TypeOK, FreeWorker
    <2>2. CASE done = 0
      <3>1. ~OpRan /\ timer # "cancelled" /\ err = "none"
        BY <1>1, <1>2, <2>2 DEF Exact, TypeOK, Counted, TimerRan, OpRan, Alone, Sound
      <3>2. err' = "timed_out"
        BY <1>1, <2>2, <3>1 DEF TimerCode
      <3>3. ~OpRan'
        BY <1>1, <3>1 DEF OpRan
      <3> QED  BY <1>1, <1>2, <1>3, <2>1, <3>2, <3>3
                  DEF Exact, TypeOK, OpRan, TimerRan, fixed
    <2>3. CASE done # 0
      <3>1. op.at = "handled" /\ op' = op
        BY <1>1, <2>1, <2>3 DEF TypeOK, Counted, TimerRan, OpRan, Alone, Sound
      <3> QED  BY <1>1, <1>2, <1>3, <2>1, <2>3, <3>1
                  DEF Exact, TypeOK, OpRan, TimerRan, fixed
    <2> QED  BY <2>2, <2>3
  <1> QED  BY <1>4, <1>5, <1>6, <1>7

LEMMA OpHandlerStep == ASSUME IoInv, OpHandler PROVE IoInv'
  <1> USE ModeFacts, NoOpFacts DEF IoInv
  <1>1. /\ UNCHANGED <<fixed, pc, size, open, posted, hungup, moved, result>>
        /\ op.at = "queued" /\ LaneFree
        /\ done' = done + 1
        /\ err' = IF done = 0 THEN op.err ELSE err
        /\ alive' = IF done = 0 /\ ~open THEN alive - 1 ELSE alive
        /\ timer' = IF done = 0 /\ open /\ timer = "armed" THEN "cancelled" ELSE timer
        /\ op' = [op EXCEPT !.at = IF done = 0 /\ ~open THEN "lost" ELSE "store"]
    BY DEF OpHandler, Handler, First
  <1>2. /\ mode.timed
        /\ op'.n = op.n
        /\ op'.at = IF done = 0 /\ ~open THEN "lost" ELSE "store"
        /\ op' \in [at : {"none", "pending", "queued", "store", "handled", "lost"},
                    n : 0 .. 1, err : Codes]
    BY <1>1 DEF Progress, TypeOK
  <1>3. alive > 0 /\ alive' \in Nat /\ alive' <= alive
    BY <1>1 DEF LaneFree, FreeWorker, TypeOK
  <1>4. TypeOK'
    <2>1. loop' \in {"none", "pending", "ended", "over"}
      BY DEF OpHandler, Handler, Ended, TypeOK
    <2> QED  BY <1>1, <1>2, <1>3, <2>1 DEF TypeOK, fixed
  <1>5. Counted'
    BY <1>1, <1>2 DEF TypeOK, Counted, TimerRan, OpRan, fixed
  <1>6. Progress'
    BY <1>1, <1>2 DEF TypeOK, Progress, fixed
  <1>7. Alone' => Exact'
    <2> SUFFICES ASSUME Alone PROVE Exact'
      BY <1>1 DEF Alone, Sound, fixed
    <2>1. TimerRan \/ done = 0
      BY <1>1 DEF TypeOK, Counted, TimerRan, OpRan, Alone, Sound
    <2>2. pc # "returned"
      BY <1>1, <1>2 DEF TypeOK, Progress, Counted, TimerRan, OpRan, Alone, Sound
    <2> QED  BY <1>1, <1>2, <1>3, <2>1, <2>2
                DEF Exact, TypeOK, Counted, TimerRan, OpRan, Alone, Sound, fixed
  <1> QED  BY <1>4, <1>5, <1>6, <1>7

LEMMA StoreSizeStep == ASSUME IoInv, StoreSize PROVE IoInv'
  <1> USE ModeFacts, NoOpFacts DEF IoInv, fixed, conn
  <1>1. /\ UNCHANGED <<fixed, pc, done, err, timer, conn, hungup, alive, moved, result>>
        /\ op.at = "store" /\ op' = [op EXCEPT !.at = "handled"] /\ size' = op.n
    BY DEF StoreSize, StoreSizeIf
  <1>2. mode.timed /\ op'.n = op.n /\ op'.at = "handled"
    BY <1>1 DEF Progress, TypeOK
  <1>3. TypeOK'
    BY <1>1 DEF TypeOK
  <1>4. Counted'
    BY <1>1, <1>2 DEF TypeOK, Counted, TimerRan, OpRan
  <1>5. Progress'
    BY <1>1, <1>2 DEF TypeOK, Progress
  <1>6. Alone' => Exact'
    BY <1>1, <1>2 DEF TypeOK, Alone, Sound, Exact, TimerRan, OpRan
  <1> QED  BY <1>3, <1>4, <1>5, <1>6

-----------------------------------------------------------------------------
(* The rest of the connection, the timer and the peer *)

LEMMA ExpireStep == ASSUME IoInv, Expire PROVE IoInv'
  <1> USE ModeFacts, NoOpFacts DEF IoInv, Expire, fixed, frame, conn
  <1>1. TypeOK'
    BY DEF TypeOK
  <1>2. Counted'
    BY DEF TypeOK, Counted, TimerRan, OpRan
  <1>3. Progress'
    BY DEF TypeOK, Progress
  <1>4. Alone' => Exact'
    BY DEF TypeOK, Alone, Sound, Exact, TimerRan, OpRan
  <1> QED  BY <1>1, <1>2, <1>3, <1>4

LEMMA PerformStep == ASSUME IoInv, NEW n \in 0 .. 1, Perform(n) PROVE IoInv'
  <1> USE ModeFacts, NoOpFacts DEF IoInv, Perform, fixed, frame, conn
  <1>1. mode.timed /\ op'.at = "queued" /\ op'.n = n
    BY DEF Progress, TypeOK
  <1>2. TypeOK'
    BY DEF TypeOK, Codes
  <1>3. Counted'
    BY <1>1 DEF TypeOK, Counted, TimerRan, OpRan
  <1>4. Progress'
    BY <1>1 DEF TypeOK, Progress
  <1>5. Alone' => Exact'
    <2> SUFFICES ASSUME Alone PROVE Exact'
      BY DEF Alone, Sound
    <2>1. pc # "returned"
      BY <1>1 DEF TypeOK, Progress, Counted, TimerRan, OpRan, Alone, Sound
    <2> QED  BY <1>1, <2>1 DEF TypeOK, Exact, TimerRan, OpRan
  <1> QED  BY <1>2, <1>3, <1>4, <1>5

\* What happens to the connection only cancels a pending operation.
LEMMA ConnectionStep ==
    ASSUME IoInv, HangUp \/ LoopHandler \/ Disconnect \/ DisconnectHandler
    PROVE  IoInv'
  <1> USE ModeFacts, NoOpFacts, AbortFacts DEF IoInv
  <1>1. /\ UNCHANGED <<fixed, pc, frame, timer, alive, moved, result>>
        /\ op' = op \/ op' = Abort(op)
        /\ open' \in BOOLEAN /\ posted' \in BOOLEAN /\ hungup' \in BOOLEAN
        /\ loop' \in {"none", "pending", "ended", "over"}
    BY DEF TypeOK, HangUp, LoopHandler, Disconnect, DisconnectHandler, Close, Ended
  <1>2. TypeOK'
    BY <1>1 DEF TypeOK, fixed, frame
  <1>3. Counted'
    BY <1>1 DEF TypeOK, Counted, TimerRan, OpRan, fixed, frame
  <1>4. Progress'
    BY <1>1 DEF TypeOK, Progress, fixed, frame
  <1>5. Alone' => Exact'
    BY <1>1 DEF TypeOK, Alone, Sound, Exact, TimerRan, OpRan, fixed, frame
  <1> QED  BY <1>2, <1>3, <1>4, <1>5

LEMMA IoStutter == IoInv /\ UNCHANGED vars => IoInv'
  BY DEF vars, fixed, frame, conn, IoInv, TypeOK, Counted, Progress, Alone, Sound, Exact,
         TimerRan, OpRan

LEMMA IoInvariant == Spec => []IoInv
  <1>1. IoInv /\ [Next]_vars => IoInv'
    BY EnterStep, IssueStep, WakeStep, FinishStep, TimerHandlerStep, OpHandlerStep,
       StoreSizeStep, ExpireStep, PerformStep, ConnectionStep, IoStutter
       DEF Next, Caller, Lane
  <1> QED  BY <1>1, IoInit, PTL DEF Spec

-----------------------------------------------------------------------------
(* The theorems *)

\* The caller leaves the frame that holds the mutex, the condition variable and
\* the timer only when both handlers have counted themselves, so neither locks a
\* mutex that is gone; if the counter was initialised (the session's copies).
THEOREM FrameIsSafe == Spec => []FrameOutlivesHandlers
  <1>1. IoInv => FrameOutlivesHandlers
    BY ModeFacts DEF IoInv, TypeOK, Counted, Progress, TimerRan, OpRan,
                     FrameOutlivesHandlers, Sound
  <1> QED  BY <1>1, IoInvariant, PTL

\* With one worker a call that did not time out returns what the operation
\* moved, although the size is stored after the mutex is released.
THEOREM ResultIsExact == Spec => []ResultExact
  <1>1. IoInv => ResultExact
    BY DEF IoInv, Alone, Exact, ResultExact
  <1> QED  BY <1>1, IoInvariant, PTL

=============================================================================
