--------------------------- MODULE ServiceProofs ---------------------------
(***************************************************************************)
(* The threads of a Service, proved for any number of threads and of       *)
(* controllers, in every mode and for any number of calls: each std::thread*)
(* is created and joined in turn, a started service has its threads and    *)
(* after stop() none is left.                                              *)
(***************************************************************************)
EXTENDS Service, Integers, TLAPS

-----------------------------------------------------------------------------
(* The inductive invariant *)

Points == {"idle", "start", "create", "await", "stop", "join", "drain"}
Loops == {"none", "init", "loop", "handler", "again", "done"}
Posted == {"start", "stop", "user", "direct"}
Tasks == Posted \cup {"none", "stopped"}

TypeOK ==
    /\ mode \in Modes
    /\ started \in BOOLEAN /\ polling \in BOOLEAN /\ crashed \in BOOLEAN
    /\ queue \in [Workers -> Seq(Posted)]
    /\ halted = {} \/ halted = Services
    /\ worker \in [Workers -> [at : Loops, polling : BOOLEAN, handler : Tasks]]
    /\ pc \in [Controllers -> [at : Points, k : 0 .. NumThreads,
                               restart : BOOLEAN, polling : BOOLEAN]]
    /\ used \in [calls : Nat, posts : Nat]

\* A worker has a handler only while it runs it, and the second half of the stop
\* handler runs with the io_services stopped.
TasksOK ==
    \A w \in Workers :
        /\ worker[w].at # "handler" => worker[w].handler = "none"
        /\ ~mode.overlap /\ worker[w].handler = "stopped" => halted # {}

\* No stop handler is queued or running, unless on io_services that are stopped.
NoStops ==
    \/ halted # {}
    \/ /\ \A s \in Workers : \A i \in 1 .. Len(queue[s]) : queue[s][i] # "stop"
       /\ \A w \in Workers : worker[w].handler \notin {"stop", "stopped"}

NoThreads == \A w \in Workers : worker[w].at = "none"
AllThreads == \A w \in Workers : worker[w].at # "none"

\* A start() on stopped io_services gets nowhere.
Fresh ==
    halted # {} => ~started /\ \A w \in Workers : worker[w].at # "handler"

\* What holds while the only call under way is at a point, having created or
\* joined k threads; "idle" when there is none.
Stage(point, k) ==
    /\ point = "idle" /\ ~started => NoThreads /\ NoStops
    /\ point = "idle" /\ started => AllThreads /\ NoStops /\ halted = {}
    /\ point = "start" => ~started /\ NoThreads /\ NoStops
    /\ point = "create" =>
          /\ NoStops /\ Fresh
          /\ \A w \in Workers : worker[w].at = "none" <=> w >= k
    /\ point = "await" => NoStops /\ Fresh /\ AllThreads
    /\ point = "stop" => started /\ AllThreads /\ NoStops /\ halted = {}
    /\ point = "join" =>
          /\ started \/ halted # {}
          /\ \A w \in Workers : worker[w].at = "none" <=> w < k
    /\ point = "drain" => (started \/ halted # {}) /\ NoThreads

\* Calls that do not overlap run one at a time.
OneCall ==
    \A c, d \in Controllers : pc[c].at # "idle" /\ pc[d].at # "idle" => c = d

Staged ==
    /\ AllReturned => Stage("idle", 0)
    /\ \A c \in Controllers : pc[c].at # "idle" => Stage(pc[c].at, pc[c].k)

\* A thread leaves its loop only when its io_service is stopped, if nothing is
\* thrown and none of them polls.
Loyal ==
    mode.throws = {} /\ TRUE \notin mode.polls =>
        /\ ~polling
        /\ \A c \in Controllers : ~pc[c].polling
        /\ \A w \in Workers :
              /\ ~worker[w].polling /\ worker[w].at # "again"
              /\ worker[w].at = "done" => halted # {}

Sequential == ~crashed /\ OneCall /\ Staged /\ Loyal

ServiceInv == TypeOK /\ TasksOK /\ (~mode.overlap => Sequential)

-----------------------------------------------------------------------------
(* Facts about the constants and the helpers *)

LEMMA ModeFacts ==
    ASSUME mode \in Modes
    PROVE  /\ mode.shared \in BOOLEAN /\ mode.overlap \in BOOLEAN
           /\ mode.polls \subseteq BOOLEAN
           /\ mode.throws \subseteq {"not_connected", "other"}
  BY ModesAssumption

LEMMA WorkerFacts ==
    ASSUME TypeOK
    PROVE  /\ 0 \in Workers /\ Workers \subseteq Nat
           /\ \A w \in Workers : w < NumThreads
           /\ Services \subseteq Workers /\ Services # {}
           /\ \A w \in Workers : ServiceOf(w) \in Services
  <1>1. 0 \in Workers /\ Workers \subseteq Nat /\ \A w \in Workers : w < NumThreads
    BY ThreadsAssumption DEF Workers
  <1>2. CASE mode.shared
    BY <1>1, <1>2 DEF Services, ServiceOf
  <1>3. CASE ~mode.shared
    BY <1>1, <1>3 DEF Services, ServiceOf
  <1> QED  BY <1>1, <1>2, <1>3

\* What posting a handler does to the queues.
LEMMA Posting ==
    ASSUME TypeOK, NEW s \in Workers, NEW h \in Posted,
           queue' = [queue EXCEPT ![s] = Append(@, h)]
    PROVE  /\ queue' \in [Workers -> Seq(Posted)]
           /\ \A r \in Workers : \A i \in 1 .. Len(queue'[r]) :
                 queue'[r][i] = "stop" =>
                    h = "stop" \/ \E j \in 1 .. Len(queue[r]) : queue[r][j] = "stop"
  <1>1. Append(queue[s], h) \in Seq(Posted)
    BY DEF TypeOK
  <1>2. ASSUME NEW q \in Seq(Posted), NEW i \in 1 .. Len(Append(q, h)), Append(q, h)[i] = "stop"
        PROVE  h = "stop" \/ \E j \in 1 .. Len(q) : q[j] = "stop"
    BY <1>2
  <1>3. \A r \in Workers : queue'[r] = IF r = s THEN Append(queue[s], h) ELSE queue[r]
    BY DEF TypeOK
  <1>4. ASSUME NEW r \in Workers, NEW i \in 1 .. Len(queue'[r]), queue'[r][i] = "stop"
        PROVE  h = "stop" \/ \E j \in 1 .. Len(queue[r]) : queue[r][j] = "stop"
    <2>1. queue[r] \in Seq(Posted)  BY DEF TypeOK
    <2>2. CASE r = s  BY <1>2, <1>3, <1>4, <2>1, <2>2
    <2>3. CASE r # s  BY <1>3, <1>4, <2>3
    <2> QED  BY <2>2, <2>3
  <1> QED  BY <1>1, <1>4 DEF TypeOK

\* ... and what taking one of them does.
LEMMA Taking ==
    ASSUME TypeOK, NEW s \in Workers, NEW k \in 1 .. Len(queue[s]),
           queue' = [queue EXCEPT ![s] = Without(@, k)]
    PROVE  /\ queue' \in [Workers -> Seq(Posted)]
           /\ queue[s][k] \in Posted
           /\ \A r \in Workers : \A i \in 1 .. Len(queue'[r]) :
                 queue'[r][i] = "stop" => \E j \in 1 .. Len(queue[r]) : queue[r][j] = "stop"
  <1>1. queue[s] \in Seq(Posted)  BY DEF TypeOK
  <1>2. ASSUME NEW q \in Seq(Posted), NEW n \in 1 .. Len(q)
        PROVE  /\ Without(q, n) \in Seq(Posted) /\ q[n] \in Posted
               /\ \A i \in 1 .. Len(Without(q, n)) :
                     \E j \in 1 .. Len(q) : Without(q, n)[i] = q[j]
    <2>1. Len(q) \in Nat /\ \A i \in 1 .. Len(q) : q[i] \in Posted  OBVIOUS
    <2>2. PICK m \in Nat : m = Len(q) - 1  BY <2>1
    <2>3. \A i \in 1 .. m : /\ i \in 1 .. Len(q) /\ i + 1 \in 1 .. Len(q)
                            /\ Without(q, n)[i] = q[i] \/ Without(q, n)[i] = q[i + 1]
      BY <2>1, <2>2 DEF Without
    <2>4. Without(q, n) = [i \in 1 .. m |-> IF i < n THEN q[i] ELSE q[i + 1]]
      BY <2>2 DEF Without
    <2>5. \A i \in 1 .. m : (IF i < n THEN q[i] ELSE q[i + 1]) \in Posted
      BY <2>1, <2>3
    <2>6. Without(q, n) \in Seq(Posted) /\ Len(Without(q, n)) = m
      BY <2>4, <2>5
    <2> QED  BY <2>1, <2>3, <2>6
  <1>3. \A r \in Workers : queue'[r] = IF r = s THEN Without(queue[s], k) ELSE queue[r]
    BY DEF TypeOK
  <1>4. ASSUME NEW r \in Workers, NEW i \in 1 .. Len(queue'[r]), queue'[r][i] = "stop"
        PROVE  \E j \in 1 .. Len(queue[r]) : queue[r][j] = "stop"
    <2>1. CASE r = s
      <3>1. PICK j \in 1 .. Len(queue[s]) : Without(queue[s], k)[i] = queue[s][j]
        <4>1. i \in 1 .. Len(Without(queue[s], k))  BY <1>3, <2>1
        <4>2. \A n \in 1 .. Len(Without(queue[s], k)) :
                 \E j \in 1 .. Len(queue[s]) : Without(queue[s], k)[n] = queue[s][j]
          BY <1>1, <1>2
        <4> QED  BY <4>1, <4>2
      <3> QED  BY <1>3, <1>4, <2>1, <3>1
    <2>2. CASE r # s  BY <1>3, <1>4, <2>2
    <2> QED  BY <2>1, <2>2
  <1> QED  BY <1>1, <1>2, <1>3, <1>4 DEF TypeOK

LEMMA ServiceInit == Init => ServiceInv
  <1> SUFFICES ASSUME Init PROVE ServiceInv
    OBVIOUS
  <1>1. mode \in Modes  BY DEF Init
  <1>2. /\ queue = [s \in Workers |-> << >>] /\ << >> \in Seq(Posted) /\ halted = {}
        /\ worker = [w \in Workers |-> NoThread]
        /\ pc = [c \in Controllers |-> Ready]
    BY DEF Init
  <1>3. /\ NoThread \in [at : Loops, polling : BOOLEAN, handler : Tasks]
        /\ NoThread.at = "none" /\ NoThread.handler = "none" /\ NoThread.polling = FALSE
    BY DEF NoThread, Loops, Tasks
  <1>4. /\ Ready \in [at : Points, k : 0 .. NumThreads, restart : BOOLEAN, polling : BOOLEAN]
        /\ Ready.at = "idle" /\ Ready.polling = FALSE
    BY ThreadsAssumption DEF Ready, Points
  <1>5. TypeOK
    BY <1>1, <1>2, <1>3, <1>4 DEF Init, TypeOK
  <1>6. TasksOK
    BY <1>2, <1>3 DEF TasksOK
  <1>7. \A s \in Workers : queue[s] = << >> /\ Len(queue[s]) = 0
    BY <1>2
  <1>8. NoThreads /\ NoStops
    BY <1>2, <1>3, <1>7 DEF NoThreads, NoStops
  <1>9. Sequential
    BY <1>2, <1>3, <1>4, <1>8 DEF Init, Sequential, OneCall, Staged, Stage, Loyal
  <1> QED  BY <1>5, <1>6, <1>9 DEF ServiceInv

-----------------------------------------------------------------------------
(* The workers *)

\* The shape of a step of a worker: its own record changes, it neither comes into
\* being nor is joined, and it takes a handler only from an io_service that runs.
LEMMA WorkerShape ==
    ASSUME ServiceInv, NEW w \in Workers, WorkerStep(w)
    PROVE  /\ UNCHANGED <<mode, polling, pc, used, crashed>>
           /\ worker' \in [Workers -> [at : Loops, polling : BOOLEAN, handler : Tasks]]
           /\ \A v \in Workers \ {w} : worker'[v] = worker[v]
           /\ worker[w].at # "none" /\ worker'[w].at # "none"
           /\ worker'[w].at # "handler" => worker'[w].handler = "none"
           /\ worker'[w].polling = worker[w].polling \/ worker'[w].polling = polling
  <1> USE DEF ServiceInv, Worker, Handles, Handled
  <1>1. UNCHANGED <<mode, polling, pc, used, crashed>>
    BY DEF WorkerStep, WorkerInit, WorkerTake, WorkerReturn, WorkerReturnWith, WorkerAgain,
           StartHandler, StopHandler, StopHandlerWith, StoppedHandler, UserHandler, flags
  <1>2. worker[w].at # "none"
    BY DEF WorkerStep, WorkerInit, WorkerTake, WorkerReturn, WorkerReturnWith, WorkerAgain,
           StartHandler, StopHandler, StopHandlerWith, StoppedHandler, UserHandler
  <1> USE DEF TypeOK, TasksOK
  <1>3. CASE WorkerInit(w)
    BY <1>1, <1>2, <1>3 DEF WorkerInit, Loops
  <1>4. CASE WorkerTake(w)
    <2>1. ServiceOf(w) \in Workers  BY WorkerFacts
    <2>2. PICK i \in 1 .. Len(queue[ServiceOf(w)]) :
             /\ worker' = [worker EXCEPT ![w].at = "handler",
                                         ![w].handler = queue[ServiceOf(w)][i]]
             /\ queue' = [queue EXCEPT ![ServiceOf(w)] = Without(@, i)]
      BY <1>4 DEF WorkerTake
    <2>3. queue[ServiceOf(w)][i] \in Tasks
      BY <2>1, <2>2, Taking DEF Tasks
    <2> QED  BY <1>1, <1>2, <2>2, <2>3 DEF Loops
  <1>5. CASE WorkerReturn(w) \/ WorkerAgain(w)
    <2>1. PICK a \in Loops \ {"none", "handler"} : worker' = [worker EXCEPT ![w].at = a]
      BY <1>5 DEF WorkerReturn, WorkerReturnWith, WorkerAgain, Loops
    <2>2. worker[w].handler = "none"
      BY <1>5 DEF WorkerReturn, WorkerReturnWith, WorkerAgain
    <2> QED  BY <1>1, <1>2, <2>1, <2>2
  <1>6. ASSUME NEW a \in Loops \ {"none"},
               worker' = [worker EXCEPT ![w].at = a, ![w].handler = "none"]
        PROVE  /\ worker' \in [Workers -> [at : Loops, polling : BOOLEAN, handler : Tasks]]
               /\ \A v \in Workers \ {w} : worker'[v] = worker[v]
               /\ worker'[w].at # "none" /\ worker'[w].handler = "none"
               /\ worker'[w].polling = worker[w].polling
    BY <1>6 DEF Tasks
  <1>7. CASE StartHandler(w) \/ StoppedHandler(w)
    <2>1. worker' = [worker EXCEPT ![w].at = "loop", ![w].handler = "none"]
      BY <1>7 DEF StartHandler, StoppedHandler
    <2>2. "loop" \in Loops \ {"none"}  BY DEF Loops
    <2> QED  BY <1>1, <1>2, <1>6, <2>1, <2>2
  <1>8. CASE UserHandler(w)
    BY <1>1, <1>2, <1>6, <1>8 DEF UserHandler, Loops
  <1>9. CASE StopHandler(w)
    <2>1. CASE started
      <3>1. /\ worker' = [worker EXCEPT ![w].handler = "stopped"]
            /\ worker[w].at = "handler"
        BY <1>9, <2>1 DEF StopHandler, StopHandlerWith
      <3>2. "stopped" \in Tasks  BY DEF Tasks
      <3> QED  BY <1>1, <1>2, <3>1, <3>2
    <2>2. CASE ~started
      <3>1. worker' = [worker EXCEPT ![w].at = "loop", ![w].handler = "none"]
        BY <1>9, <2>2 DEF StopHandler, StopHandlerWith
      <3>2. "loop" \in Loops \ {"none"}  BY DEF Loops
      <3> QED  BY <1>1, <1>2, <1>6, <3>1, <3>2
    <2> QED  BY <2>1, <2>2
  <1> QED  BY <1>3, <1>4, <1>5, <1>7, <1>8, <1>9 DEF WorkerStep

\* How the flag, the queues and the io_services change with it.
LEMMA WorkerEffect ==
    ASSUME ServiceInv, NEW w \in Workers, WorkerStep(w)
    PROVE  \/ /\ UNCHANGED <<started, io>>
              /\ worker[w].at = "handler" \/ worker'[w].at # "handler"
              /\ worker'[w].handler \in {worker[w].handler, "none"}
           \/ /\ WorkerTake(w) /\ UNCHANGED <<started, halted>> /\ halted = {}
              /\ worker'[w].at = "handler"
              /\ \E i \in 1 .. Len(queue[ServiceOf(w)]) :
                    /\ worker'[w].handler = queue[ServiceOf(w)][i]
                    /\ queue' = [queue EXCEPT ![ServiceOf(w)] = Without(@, i)]
           \/ /\ worker[w].at = "handler" /\ worker[w].handler = "start"
              /\ started' = TRUE /\ UNCHANGED io /\ worker'[w].handler = "none"
              /\ worker'[w].at = "loop"
           \/ /\ worker[w].at = "handler" /\ worker[w].handler = "stop"
              /\ halted' = Services /\ UNCHANGED <<started, queue>>
              /\ worker'[w].at = "handler" /\ worker'[w].handler = "stopped"
           \/ /\ worker[w].at = "handler" /\ worker[w].handler = "stopped"
              /\ started' = FALSE /\ UNCHANGED io /\ worker'[w].handler = "none"
              /\ worker'[w].at = "loop"
  <1> USE DEF ServiceInv, TypeOK, TasksOK, Worker, Handles, Handled, flags, io
  <1>1. CASE WorkerInit(w)
    BY <1>1 DEF WorkerInit
  <1>2. CASE WorkerTake(w)
    <2>1. PICK i \in 1 .. Len(queue[ServiceOf(w)]) :
             /\ Turn(ServiceOf(w), i)
             /\ worker' = [worker EXCEPT ![w].at = "handler",
                                         ![w].handler = queue[ServiceOf(w)][i]]
             /\ queue' = [queue EXCEPT ![ServiceOf(w)] = Without(@, i)]
      BY <1>2 DEF WorkerTake
    <2>2. worker'[w].at = "handler" /\ worker'[w].handler = queue[ServiceOf(w)][i]
      BY <2>1
    <2>3. halted = {}  BY <2>1, WorkerFacts DEF Turn
    <2>4. UNCHANGED <<started, halted>>  BY <1>2 DEF WorkerTake
    <2> QED  BY <1>2, <2>1, <2>2, <2>3, <2>4
  <1>3. CASE WorkerReturn(w) \/ WorkerAgain(w)
    BY <1>3 DEF WorkerReturn, WorkerReturnWith, WorkerAgain
  <1>4. CASE StartHandler(w) \/ StoppedHandler(w)
    BY <1>4 DEF StartHandler, StoppedHandler
  <1>5. CASE StopHandler(w)
    <2>1. halted \cup Services = Services  OBVIOUS
    <2>2. CASE started
      <3>1. /\ worker[w].at = "handler" /\ worker[w].handler = "stop"
            /\ halted' = Services /\ queue' = queue /\ started' = started
            /\ worker' = [worker EXCEPT ![w].handler = "stopped"]
        BY <1>5, <2>1, <2>2 DEF StopHandler, StopHandlerWith
      <3>2. worker'[w].at = "handler" /\ worker'[w].handler = "stopped"
        BY <3>1
      <3> QED  BY <3>1, <3>2
    <2>3. CASE ~started  BY <1>5, <2>3 DEF StopHandler, StopHandlerWith
    <2> QED  BY <2>2, <2>3
  <1>6. CASE UserHandler(w)
    BY <1>6 DEF UserHandler
  <1> QED  BY <1>1, <1>2, <1>3, <1>4, <1>5, <1>6 DEF WorkerStep

LEMMA WorkerTypes ==
    ASSUME ServiceInv, NEW w \in Workers, WorkerStep(w)
    PROVE  TypeOK' /\ TasksOK'
  <1> USE DEF ServiceInv, io
  <1>1. Services' = Services /\ Services # {}
    BY WorkerShape, WorkerFacts DEF Services
  <1>2. queue' \in [Workers -> Seq(Posted)]
    <2>1. CASE queue' = queue  BY <2>1 DEF TypeOK
    <2>2. CASE WorkerTake(w)
      BY <2>2, Taking, WorkerFacts DEF WorkerTake
    <2> QED  BY <2>1, <2>2, WorkerEffect
  <1>3. TypeOK'
    BY <1>1, <1>2, WorkerShape, WorkerEffect DEF TypeOK
  <1>4. ASSUME NEW v \in Workers
        PROVE  /\ worker'[v].at # "handler" => worker'[v].handler = "none"
               /\ ~mode'.overlap /\ worker'[v].handler = "stopped" => halted' # {}
    <2>1. CASE WorkerTake(w)
      <3>1. PICK i \in 1 .. Len(queue[ServiceOf(w)]) :
               /\ worker' = [worker EXCEPT ![w].at = "handler",
                                           ![w].handler = queue[ServiceOf(w)][i]]
               /\ queue' = [queue EXCEPT ![ServiceOf(w)] = Without(@, i)]
        BY <2>1 DEF WorkerTake
      <3>2. queue[ServiceOf(w)][i] # "stopped"
        BY <3>1, WorkerFacts, Taking DEF Posted
      <3> QED  BY <2>1, <3>1, <3>2, WorkerShape DEF TypeOK, TasksOK, WorkerTake, Worker
    <2>2. CASE ~WorkerTake(w)
      BY <1>1, <2>2, WorkerShape, WorkerEffect DEF TasksOK
    <2> QED  BY <2>1, <2>2
  <1> QED  BY <1>3, <1>4 DEF TasksOK

\* A worker leaves every stage of a call as it was.
LEMMA WorkerStage ==
    ASSUME ServiceInv, NEW w \in Workers, WorkerStep(w), ~mode.overlap,
           NEW point \in Points, NEW k \in Nat, Stage(point, k)
    PROVE  Stage(point, k)'
  <1> USE DEF ServiceInv
  <1>0. \A v \in Workers : worker'[v].at = "none" <=> worker[v].at = "none"
    BY WorkerShape
  <1>1. NoThreads' = NoThreads /\ AllThreads' = AllThreads
    BY <1>0 DEF NoThreads, AllThreads
  <1>2. ~NoThreads
    BY WorkerShape DEF NoThreads
  <1>3. ASSUME NoStops PROVE NoStops' /\ (halted = {} => halted' = {} /\ (started => started'))
    <2>1. CASE halted # {}
      BY <2>1, WorkerEffect, WorkerFacts DEF NoStops, io
    <2>2. CASE halted = {} /\ WorkerTake(w)
      <3>1. PICK n \in 1 .. Len(queue[ServiceOf(w)]) :
               /\ queue' = [queue EXCEPT ![ServiceOf(w)] = Without(@, n)]
               /\ worker'[w].handler = queue[ServiceOf(w)][n]
        BY <2>2 DEF WorkerTake, TypeOK
      <3>a. ServiceOf(w) \in Workers /\ halted' = halted /\ started' = started
        BY <2>2, WorkerFacts DEF WorkerTake, flags
      <3>2. queue[ServiceOf(w)][n] \in Posted /\ queue[ServiceOf(w)][n] # "stop"
        BY <1>3, <2>2, <3>1, <3>a, Taking DEF NoStops
      <3>3. \A s \in Workers : \A i \in 1 .. Len(queue'[s]) : queue'[s][i] # "stop"
        BY <1>3, <2>2, <3>1, <3>a, Taking DEF NoStops
      <3>4. \A v \in Workers : worker'[v].handler \notin {"stop", "stopped"}
        BY <1>3, <2>2, <3>1, <3>2, WorkerShape DEF NoStops, Posted
      <3> QED  BY <3>a, <3>3, <3>4 DEF NoStops
    <2>3. CASE halted = {} /\ ~WorkerTake(w)
      <3>1. /\ halted' = halted /\ queue' = queue /\ (started => started')
            /\ worker'[w].handler \in {worker[w].handler, "none"}
        BY <1>3, <2>3, WorkerEffect DEF NoStops, io
      <3> QED  BY <1>3, <2>3, <3>1, WorkerShape DEF NoStops
    <2> QED  BY <2>1, <2>2, <2>3
  <1>4. ASSUME NoStops, Fresh PROVE Fresh'
    <2>1. CASE halted = {}
      BY <1>3, <1>4, <2>1 DEF Fresh
    <2>2. CASE halted # {}
      BY <1>4, <2>2, WorkerShape, WorkerEffect DEF Fresh, TasksOK
    <2> QED  BY <2>1, <2>2
  <1>5. started \/ halted # {} => started' \/ halted' # {}
    BY WorkerEffect, WorkerFacts DEF TasksOK, io
  <1>6. CASE point \in {"idle", "start", "stop"}
    BY <1>1, <1>2, <1>3, <1>6 DEF Stage
  <1>7. CASE point = "create"
    BY <1>0, <1>3, <1>4, <1>7 DEF Stage
  <1>8. CASE point = "await"
    BY <1>1, <1>3, <1>4, <1>8 DEF Stage
  <1>9. CASE point \in {"join", "drain"}
    BY <1>0, <1>1, <1>5, <1>9 DEF Stage
  <1> QED  BY <1>6, <1>7, <1>8, <1>9 DEF Points

LEMMA WorkerLoyal ==
    ASSUME ServiceInv, NEW w \in Workers, WorkerStep(w), Loyal
    PROVE  Loyal'
  <1> SUFFICES ASSUME mode.throws = {}, TRUE \notin mode.polls PROVE Loyal'
    BY WorkerShape DEF Loyal
  <1> USE DEF ServiceInv
  <1>1. ~polling /\ \A v \in Workers : ~worker[v].polling
    BY DEF Loyal
  <1>2. halted' = halted \/ halted' # {}
    BY WorkerEffect, WorkerFacts DEF io
  <1>3. worker'[w].at # "again" /\ (worker'[w].at = "done" => halted' # {})
    BY <1>1 DEF Loyal, WorkerStep, WorkerInit, WorkerTake, WorkerReturn, WorkerReturnWith,
                WorkerAgain, StartHandler, StopHandler, StopHandlerWith, StoppedHandler,
                UserHandler, Worker, Handles, Handled, TypeOK, io
  <1> QED  BY <1>1, <1>2, <1>3, WorkerShape DEF Loyal

LEMMA WorkerInvStep ==
    ASSUME ServiceInv, NEW w \in Workers, WorkerStep(w)
    PROVE  ServiceInv'
  <1>1. mode' = mode /\ pc' = pc /\ crashed' = crashed
    BY WorkerShape
  <1>2. ASSUME ~mode.overlap PROVE Sequential'
    <2>1. Sequential  BY <1>2 DEF ServiceInv
    <2>2. OneCall' /\ ~crashed'  BY <1>1, <2>1 DEF Sequential, OneCall
    <2>3. Loyal'  BY <2>1, WorkerLoyal DEF Sequential
    <2>4. ASSUME AllReturned PROVE Stage("idle", 0)'
      BY <1>2, <2>1, <2>4, WorkerStage DEF Sequential, Staged, Points
    <2>5. ASSUME NEW c \in Controllers, pc[c].at # "idle"
          PROVE  Stage(pc[c].at, pc[c].k)'
      <3>1. pc[c].at \in Points /\ pc[c].k \in Nat
        BY DEF ServiceInv, TypeOK
      <3>2. PICK a \in Points, j \in Nat : a = pc[c].at /\ j = pc[c].k
        BY <3>1
      <3>3. Stage(a, j)  BY <2>1, <2>5, <3>2 DEF Sequential, Staged
      <3>4. Stage(a, j)'  BY <1>2, <3>3, WorkerStage
      <3> QED  BY <1>1, <3>2, <3>4 DEF Stage
    <2> QED  BY <1>1, <2>2, <2>3, <2>4, <2>5 DEF Sequential, Staged, AllReturned
  <1> QED  BY <1>1, <1>2, WorkerTypes DEF ServiceInv

-----------------------------------------------------------------------------
(* The application's posts *)

LEMMA PostStep ==
    ASSUME ServiceInv, NEW s \in Services, Post(s), UNCHANGED mode
    PROVE  ServiceInv'
  <1> USE DEF ServiceInv, flags
  <1>1. s \in Workers /\ "stop" \notin {"user", "direct"} /\ {"user", "direct"} \subseteq Posted
    BY WorkerFacts DEF Posted
  <1>2. /\ UNCHANGED <<started, polling, halted, worker, pc, crashed, mode>>
        /\ \E h \in {"user", "direct"} : queue' = [queue EXCEPT ![s] = Append(@, h)]
    BY DEF Post
  <1>3. queue' \in [Workers -> Seq(Posted)]
    BY <1>1, <1>2, Posting
  <1>4. TypeOK' /\ TasksOK'
    <2>1. used' \in [calls : Nat, posts : Nat]  BY DEF Post, TypeOK
    <2> QED  BY <1>2, <1>3, <2>1 DEF TypeOK, TasksOK, Services
  <1>5. NoStops => NoStops'
    BY <1>1, <1>2, Posting DEF NoStops
  <1>6. Staged => Staged'
    BY <1>2, <1>5 DEF Staged, Stage, AllReturned, Fresh, NoThreads, AllThreads
  <1>7. OneCall' = OneCall /\ Loyal' = Loyal
    BY <1>2 DEF OneCall, Loyal
  <1> QED  BY <1>2, <1>4, <1>6, <1>7 DEF Sequential

-----------------------------------------------------------------------------
(* The controllers *)

\* When calls do not overlap only the caller's stage matters.
LEMMA OneStage ==
    ASSUME NEW c \in Controllers, NEW a \in Points, NEW j \in Nat,
           pc'[c].at = a, pc'[c].k = j,
           \A d \in Controllers \ {c} : pc'[d].at = "idle",
           Stage(a, j)'
    PROVE  OneCall' /\ Staged'
  <1>1. OneCall'  BY DEF OneCall
  <1>2. AllReturned' => Stage("idle", 0)'
    BY DEF AllReturned, Stage
  <1>3. ASSUME NEW d \in Controllers, pc'[d].at # "idle"
        PROVE  Stage(pc[d].at, pc[d].k)'
    BY <1>3 DEF Stage
  <1> QED  BY <1>1, <1>2, <1>3 DEF Staged

\* The controllers beside the one that is in a call are idle.
LEMMA OthersIdle ==
    ASSUME ServiceInv, ~mode.overlap, NEW c \in Controllers, pc[c].at # "idle"
    PROVE  /\ \A d \in Controllers \ {c} : pc[d].at = "idle"
           /\ \A a \in Points, j \in Nat :
                 pc[c].at = a /\ pc[c].k = j => Stage(a, j)
           /\ Loyal /\ ~crashed
  BY DEF ServiceInv, Sequential, OneCall, Staged

\* A call begins when no other is under way.
LEMMA EnterStep ==
    ASSUME ServiceInv, NEW c \in Controllers, ControllerEnter(c)
    PROVE  ServiceInv'
  <1> USE DEF ServiceInv
  <1> DEFINE Entries == [at : {"start", "stop"}, k : {0}, restart : BOOLEAN, polling : BOOLEAN]
  <1>1. PICK entry \in Entries :
          /\ Call(c, entry)
          /\ entry.at = "start" <=> ~started
          /\ entry.polling = FALSE \/ entry.polling = polling \/ entry.polling \in mode.polls
    <2>1. CASE Stop(c)
      <3> DEFINE e == [Ready EXCEPT !.at = "stop"]
      <3>1. e \in Entries /\ e.at = "stop" /\ e.polling = FALSE  BY DEF Ready
      <3>2. Call(c, e) /\ started  BY <2>1 DEF Stop
      <3> HIDE DEF e, Entries
      <3> QED  BY <3>1, <3>2
    <2>2. CASE Restart(c)
      <3> DEFINE e == [Ready EXCEPT !.at = "stop", !.restart = TRUE, !.polling = polling]
      <3>1. e \in Entries /\ e.at = "stop" /\ e.polling = polling  BY DEF Ready, TypeOK
      <3>2. Call(c, e) /\ started  BY <2>2 DEF Restart
      <3> HIDE DEF e, Entries
      <3> QED  BY <3>1, <3>2
    <2>3. ASSUME NEW poll \in mode.polls, Start(c, poll)
          PROVE  \E entry \in Entries :
                   /\ Call(c, entry)
                   /\ entry.at = "start" <=> ~started
                   /\ \/ entry.polling = FALSE \/ entry.polling = polling
                      \/ entry.polling \in mode.polls
      <3> DEFINE e == [Ready EXCEPT !.at = "start", !.polling = poll]
      <3>1. poll \in BOOLEAN  BY ModeFacts DEF TypeOK
      <3>2. e \in Entries /\ e.at = "start" /\ e.polling = poll  BY <3>1 DEF Ready
      <3>3. Call(c, e) /\ ~started  BY <2>3 DEF Start
      <3> HIDE DEF e, Entries
      <3> QED  BY <2>3, <3>2, <3>3
    <2> QED  BY <2>1, <2>2, <2>3 DEF ControllerEnter
  <1>2. PICK a \in {"start", "stop"} : a = entry.at
    OBVIOUS
  <1>3. /\ entry \in [at : Points, k : 0 .. NumThreads, restart : BOOLEAN, polling : BOOLEAN]
        /\ entry.k = 0
    BY ThreadsAssumption DEF Points
  <1>4. Call(c, entry)  BY <1>1
  <1>5. /\ UNCHANGED <<mode, started, polling, queue, halted, worker, crashed>>
        /\ pc' = [pc EXCEPT ![c] = entry]
        /\ used' \in [calls : Nat, posts : Nat]
        /\ mode.overlap \/ AllReturned
    <2>1. mode' = mode  BY DEF ControllerEnter
    <2>2. used' \in [calls : Nat, posts : Nat]  BY <1>4 DEF Call, TypeOK
    <2> QED  BY <1>4, <2>1, <2>2 DEF Call, flags, io, AllReturned
  <1>6. TypeOK' /\ TasksOK'
    BY <1>3, <1>5 DEF TypeOK, TasksOK, Services
  <1>7. ASSUME ~mode.overlap PROVE Sequential'
    <2>1. Sequential /\ AllReturned  BY <1>5, <1>7
    <2>2. Stage("idle", 0)  BY <2>1 DEF Sequential, Staged
    <2>3. Stage(a, 0)'
      BY <1>1, <1>2, <1>5, <2>2 DEF Stage, NoThreads, AllThreads, NoStops
    <2>4. pc'[c] = entry /\ \A d \in Controllers \ {c} : pc'[d].at = "idle"
      BY <1>5, <2>1 DEF AllReturned, TypeOK
    <2>5. OneCall' /\ Staged'
      <3>1. a \in Points /\ 0 \in Nat /\ pc'[c].at = a /\ pc'[c].k = 0
        BY <1>2, <1>3, <2>4 DEF Points
      <3> QED  BY <2>3, <2>4, <3>1, OneStage
    <2>6. Loyal'
      BY <1>1, <1>3, <1>5, <2>1, <2>4 DEF Sequential, Loyal, TypeOK
    <2> QED  BY <1>5, <2>1, <2>5, <2>6 DEF Sequential
  <1> QED  BY <1>5, <1>6, <1>7

\* The two posts.
LEMMA CallPostStep ==
    ASSUME ServiceInv, NEW c \in Controllers, StartPost(c) \/ StopPost(c), UNCHANGED mode
    PROVE  ServiceInv'
  <1> USE DEF ServiceInv
  <1>1. PICK a \in {"start", "stop"}, b \in {"create", "join"} :
          /\ b = "create" <=> a = "start"
          /\ pc[c].at = a
          /\ queue' = [queue EXCEPT ![0] = Append(@, a)]
          /\ pc' = [pc EXCEPT ![c].at = b, ![c].k = 0]
          /\ polling' = IF a = "start" THEN pc[c].polling ELSE polling
    BY DEF StartPost, StopPost, At, Go, flags
  <1>2. UNCHANGED <<mode, started, halted, worker, used, crashed>>
    BY DEF StartPost, StopPost, flags
  <1>3. queue' \in [Workers -> Seq(Posted)]
    BY <1>1, WorkerFacts, Posting DEF Posted
  <1>4. /\ pc' \in [Controllers -> [at : Points, k : 0 .. NumThreads,
                                    restart : BOOLEAN, polling : BOOLEAN]]
        /\ pc'[c].at = b /\ pc'[c].k = 0 /\ pc'[c].polling = pc[c].polling
        /\ \A d \in Controllers \ {c} : pc'[d] = pc[d]
    <2>1. b \in Points /\ 0 \in 0 .. NumThreads  BY ThreadsAssumption DEF Points
    <2>2. ASSUME NEW d \in Controllers \ {c} PROVE pc'[d] = pc[d]
      BY <1>1 DEF TypeOK
    <2>3. /\ pc'[c] \in [at : Points, k : 0 .. NumThreads,
                          restart : BOOLEAN, polling : BOOLEAN]
          /\ pc'[c].at = b /\ pc'[c].k = 0 /\ pc'[c].polling = pc[c].polling
      BY <1>1, <2>1 DEF TypeOK
    <2> QED  BY <1>1, <2>2, <2>3 DEF TypeOK
  <1>5. TypeOK' /\ TasksOK'
    BY <1>1, <1>2, <1>3, <1>4 DEF TypeOK, TasksOK, Services
  <1>6. ASSUME ~mode.overlap PROVE Sequential'
    <2>1. Stage(a, pc[c].k)
      BY <1>1, <1>6 DEF Sequential, Staged
    <2>2. NoStops /\ (b = "create" => NoStops')
      <3>1. NoStops  BY <1>1, <2>1 DEF Stage
      <3>2. 0 \in Workers  BY WorkerFacts
      <3> QED  BY <1>1, <1>2, <3>1, <3>2, Posting DEF NoStops, Posted
    <2>3. Stage(b, 0)'
      <3>1. CASE b = "create"
        BY <1>1, <1>2, <2>1, <2>2, <3>1, WorkerFacts DEF Stage, NoThreads, Fresh
      <3>2. CASE b = "join"
        BY <1>1, <1>2, <2>1, <3>2, WorkerFacts DEF Stage, AllThreads
      <3> QED  BY <3>1, <3>2
    <2>4. OneCall' /\ Staged'
      <3>1. b \in Points /\ 0 \in Nat  BY DEF Points
      <3> QED  BY <1>1, <1>4, <1>6, <2>3, <3>1, OneStage, OthersIdle
    <2>5. Loyal'
      BY <1>1, <1>2, <1>4, <1>6 DEF Sequential, Loyal
    <2> QED  BY <1>2, <1>6, <2>4, <2>5 DEF Sequential
  <1> QED  BY <1>2, <1>5, <1>6

\* The shape of the other steps of a controller, apart from a std::terminate.
LEMMA CallerShape ==
    ASSUME TypeOK, NEW c \in Controllers, NEW a \in Points, NEW j \in 0 .. NumThreads,
           \/ pc' = [pc EXCEPT ![c].at = a, ![c].k = j]
           \/ pc' = [pc EXCEPT ![c].k = j] /\ a = pc[c].at
           \/ pc' = [pc EXCEPT ![c].at = a, ![c].restart = FALSE] /\ j = pc[c].k
           \/ pc' = [pc EXCEPT ![c] = Ready] /\ a = "idle" /\ j = 0
    PROVE  /\ pc' \in [Controllers -> [at : Points, k : 0 .. NumThreads,
                                       restart : BOOLEAN, polling : BOOLEAN]]
           /\ pc'[c].at = a /\ pc'[c].k = j
           /\ pc'[c].polling \in {FALSE, pc[c].polling}
           /\ \A d \in Controllers \ {c} : pc'[d] = pc[d]
  <1>1. /\ Ready \in [at : Points, k : 0 .. NumThreads, restart : BOOLEAN, polling : BOOLEAN]
        /\ Ready.at = "idle" /\ Ready.k = 0 /\ Ready.polling = FALSE
    BY ThreadsAssumption DEF Ready, Points
  <1>2. CASE pc' = [pc EXCEPT ![c].at = a, ![c].k = j]
    BY <1>2 DEF TypeOK
  <1>3. CASE pc' = [pc EXCEPT ![c].k = j] /\ a = pc[c].at
    BY <1>3 DEF TypeOK
  <1>4. CASE pc' = [pc EXCEPT ![c].at = a, ![c].restart = FALSE] /\ j = pc[c].k
    <2>1. /\ pc'[c] \in [at : Points, k : 0 .. NumThreads, restart : BOOLEAN, polling : BOOLEAN]
          /\ pc'[c].at = a /\ pc'[c].k = j /\ pc'[c].polling = pc[c].polling
      <3> DEFINE R == [at : Points, k : 0 .. NumThreads, restart : BOOLEAN, polling : BOOLEAN]
      <3>1. ASSUME NEW r \in R, NEW q, q = [r EXCEPT !.at = a, !.restart = FALSE]
            PROVE  q \in R /\ q.at = a /\ q.k = r.k /\ q.polling = r.polling
        BY <3>1
      <3>2. pc[c] \in R  BY DEF TypeOK
      <3>3. pc'[c] = [pc[c] EXCEPT !.at = a, !.restart = FALSE]
        BY <1>4 DEF TypeOK
      <3> QED  BY <1>4, <3>1, <3>2, <3>3
    <2>2. \A d \in Controllers \ {c} : pc'[d] = pc[d]
      BY <1>4 DEF TypeOK
    <2> QED  BY <1>4, <2>1, <2>2 DEF TypeOK
  <1>5. CASE pc' = [pc EXCEPT ![c] = Ready] /\ a = "idle" /\ j = 0
    BY <1>1, <1>5 DEF TypeOK
  <1> QED  BY <1>2, <1>3, <1>4, <1>5

\* A step of a controller keeps the invariant if it keeps the types and, without
\* overlapping calls, leads to the stage of the point it reaches.
LEMMA CallerStep ==
    ASSUME ServiceInv, NEW c \in Controllers, pc[c].at # "idle",
           NEW a \in Points, NEW j \in 0 .. NumThreads,
           mode' = mode, TypeOK', TasksOK',
           pc'[c].at = a, pc'[c].k = j, pc'[c].polling \in {FALSE, pc[c].polling},
           \A d \in Controllers \ {c} : pc'[d] = pc[d],
           ~mode.overlap => ~crashed' /\ Stage(a, j)',
           polling' \in {FALSE, polling},
           ~mode.overlap /\ Loyal =>
              \A w \in Workers :
                 /\ worker'[w].polling \in {FALSE, worker[w].polling}
                 /\ worker'[w].at = worker[w].at \/ worker'[w].at \in {"none", "init"}
                 /\ worker'[w].at = "done" /\ halted # {} => halted' # {}
    PROVE  ServiceInv'
  <1>1. ASSUME ~mode.overlap PROVE Sequential'
    <2>1. j \in Nat  BY ThreadsAssumption
    <2>2. OneCall' /\ Staged'
      BY <1>1, <2>1, OthersIdle, OneStage
    <2>3. Loyal'
      BY <1>1, OthersIdle DEF Loyal
    <2> QED  BY <1>1, <2>2, <2>3 DEF Sequential
  <1> QED  BY <1>1 DEF ServiceInv

LEMMA CreateStep ==
    ASSUME ServiceInv, NEW c \in Controllers, StartCreate(c), UNCHANGED mode
    PROVE  ServiceInv'
  <1> USE DEF ServiceInv
  <1>1. PICK k \in 0 .. NumThreads : k = pc[c].k
    BY DEF TypeOK
  <1>2. /\ pc[c].at = "create"
        /\ ~mode.overlap => Stage("create", k)
        /\ UNCHANGED <<mode, started, polling, queue, halted, used>>
    BY <1>1 DEF StartCreate, At, Sequential, Staged, Terminate, flags, io, Go
  <1>3. CASE k < NumThreads /\ worker[k].at # "none"
    <2>1. k \in Workers  BY <1>1, <1>3, ThreadsAssumption DEF Workers
    <2>2. mode.overlap  BY <1>2, <1>3, <2>1, WorkerFacts DEF Stage
    <2>3. /\ crashed' = TRUE /\ UNCHANGED <<worker, pc>>
      BY <1>1, <1>3, ThreadsAssumption DEF StartCreate, Terminate
    <2> QED  BY <1>2, <2>2, <2>3 DEF TypeOK, TasksOK, Services
  <1>4. CASE k < NumThreads /\ worker[k].at = "none"
    <2>1. k \in Workers /\ k + 1 \in 0 .. NumThreads
      BY <1>1, <1>4, ThreadsAssumption DEF Workers
    <2>2. /\ worker' = [worker EXCEPT ![k].at = "init"]
          /\ pc' = [pc EXCEPT ![c].k = k + 1]
          /\ crashed' = crashed
      BY <1>1, <1>4, ThreadsAssumption DEF StartCreate
    <2>3. /\ worker' \in [Workers -> [at : Loops, polling : BOOLEAN, handler : Tasks]]
          /\ \A w \in Workers \ {k} : worker'[w] = worker[w]
          /\ worker'[k].at = "init" /\ worker'[k].handler = worker[k].handler
          /\ worker'[k].polling = worker[k].polling
      BY <2>1, <2>2 DEF TypeOK, Loops
    <2>4. /\ pc' \in [Controllers -> [at : Points, k : 0 .. NumThreads,
                                      restart : BOOLEAN, polling : BOOLEAN]]
          /\ pc'[c].at = "create" /\ pc'[c].k = k + 1
          /\ pc'[c].polling \in {FALSE, pc[c].polling}
          /\ \A d \in Controllers \ {c} : pc'[d] = pc[d]
      BY <1>2, <2>1, <2>2, CallerShape DEF Points
    <2>5. TypeOK' /\ TasksOK'
      BY <1>2, <1>4, <2>1, <2>2, <2>3, <2>4 DEF TypeOK, TasksOK, Services
    <2>6. ASSUME ~mode.overlap PROVE ~crashed' /\ Stage("create", k + 1)'
      <3>1. NoStops' /\ Fresh'
        BY <1>2, <2>1, <2>3, <2>6 DEF Stage, NoStops, Fresh
      <3>2. \A w \in Workers : worker'[w].at = "none" <=> w >= k + 1
        BY <1>2, <2>1, <2>3, <2>6, WorkerFacts DEF Stage
      <3> QED  BY <2>2, <2>6, <3>1, <3>2 DEF Stage, Sequential
    <2>7. PICK j \in 0 .. NumThreads : j = k + 1
      BY <2>1
    <2>8. "create" \in Points  BY DEF Points
    <2> QED  BY <1>2, <2>1, <2>3, <2>4, <2>5, <2>6, <2>7, <2>8, CallerStep
  <1>5. CASE k = NumThreads
    <2>1. pc' = [pc EXCEPT ![c].at = "await", ![c].k = 0] /\ UNCHANGED <<worker, crashed>>
      BY <1>1, <1>5, ThreadsAssumption DEF StartCreate, Go
    <2>2. "await" \in Points /\ 0 \in 0 .. NumThreads
      BY ThreadsAssumption DEF Points
    <2>3. /\ pc' \in [Controllers -> [at : Points, k : 0 .. NumThreads,
                                      restart : BOOLEAN, polling : BOOLEAN]]
          /\ pc'[c].at = "await" /\ pc'[c].k = 0
          /\ pc'[c].polling \in {FALSE, pc[c].polling}
          /\ \A d \in Controllers \ {c} : pc'[d] = pc[d]
      BY <2>1, <2>2, CallerShape
    <2>4. TypeOK' /\ TasksOK'
      BY <1>2, <2>1, <2>3 DEF TypeOK, TasksOK, Services
    <2>5. ASSUME ~mode.overlap PROVE ~crashed' /\ Stage("await", 0)'
      BY <1>2, <1>5, <2>1, <2>5, WorkerFacts, ThreadsAssumption
         DEF Stage, NoStops, Fresh, AllThreads, Sequential
    <2> QED  BY <1>2, <2>1, <2>2, <2>3, <2>4, <2>5, CallerStep
  <1> QED  BY <1>1, <1>3, <1>4, <1>5, ThreadsAssumption

LEMMA JoinStep ==
    ASSUME ServiceInv, NEW c \in Controllers, StopJoin(c), UNCHANGED mode
    PROVE  ServiceInv'
  <1> USE DEF ServiceInv
  <1>1. PICK k \in 0 .. NumThreads : k = pc[c].k
    BY DEF TypeOK
  <1>2. /\ pc[c].at = "join"
        /\ ~mode.overlap => Stage("join", k)
        /\ UNCHANGED <<mode, started, queue, halted, used>>
        /\ polling' \in {FALSE, polling}
    BY <1>1 DEF StopJoin, At, Sequential, Staged, Terminate, flags, io, Go
  <1>3. CASE k < NumThreads /\ worker[k].at = "none"
    <2>1. k \in Workers  BY <1>1, <1>3, ThreadsAssumption DEF Workers
    <2>2. mode.overlap  BY <1>2, <1>3, <2>1, WorkerFacts DEF Stage
    <2>3. /\ crashed' = TRUE /\ UNCHANGED <<worker, pc>>
      BY <1>1, <1>3, ThreadsAssumption DEF StopJoin, Terminate
    <2> QED  BY <1>2, <2>2, <2>3 DEF TypeOK, TasksOK, Services
  <1>4. CASE k < NumThreads /\ worker[k].at # "none"
    <2>1. k \in Workers /\ k + 1 \in 0 .. NumThreads
      BY <1>1, <1>4, ThreadsAssumption DEF Workers
    <2>2. /\ worker' = [worker EXCEPT ![k] = NoThread]
          /\ pc' = [pc EXCEPT ![c].k = k + 1]
          /\ crashed' = crashed
      BY <1>1, <1>4, ThreadsAssumption DEF StopJoin
    <2>3. /\ worker' \in [Workers -> [at : Loops, polling : BOOLEAN, handler : Tasks]]
          /\ \A w \in Workers \ {k} : worker'[w] = worker[w]
          /\ worker'[k].at = "none" /\ worker'[k].handler = "none"
          /\ worker'[k].polling = FALSE
      BY <2>1, <2>2 DEF TypeOK, Loops, Tasks, NoThread
    <2>4. /\ pc' \in [Controllers -> [at : Points, k : 0 .. NumThreads,
                                      restart : BOOLEAN, polling : BOOLEAN]]
          /\ pc'[c].at = "join" /\ pc'[c].k = k + 1
          /\ pc'[c].polling \in {FALSE, pc[c].polling}
          /\ \A d \in Controllers \ {c} : pc'[d] = pc[d]
      BY <1>2, <2>1, <2>2, CallerShape DEF Points
    <2>5. TypeOK' /\ TasksOK'
      BY <1>2, <1>4, <2>1, <2>2, <2>3, <2>4 DEF TypeOK, TasksOK, Services
    <2>6. ASSUME ~mode.overlap PROVE ~crashed' /\ Stage("join", k + 1)'
      <3>1. \A w \in Workers : worker'[w].at = "none" <=> w < k + 1
        <4>1. \A w \in Workers : worker[w].at = "none" <=> w < k
          BY <1>2, <2>6 DEF Stage
        <4>2. \A w \in Workers \ {k} : w < k <=> w < k + 1
          BY <2>1, WorkerFacts
        <4> QED  BY <2>1, <2>3, <4>1, <4>2
      <3> QED  BY <1>2, <2>2, <2>6, <3>1 DEF Stage, Sequential
    <2>7. PICK j \in 0 .. NumThreads : j = k + 1
      BY <2>1
    <2>8. "join" \in Points  BY DEF Points
    <2> QED  BY <1>2, <2>1, <2>3, <2>4, <2>5, <2>6, <2>7, <2>8, CallerStep
  <1>5. CASE k = NumThreads
    <2>1. pc' = [pc EXCEPT ![c].at = "drain", ![c].k = 0] /\ UNCHANGED <<worker, crashed>>
      BY <1>1, <1>5, ThreadsAssumption DEF StopJoin, Go
    <2>2. "drain" \in Points /\ 0 \in 0 .. NumThreads
      BY ThreadsAssumption DEF Points
    <2>3. /\ pc' \in [Controllers -> [at : Points, k : 0 .. NumThreads,
                                      restart : BOOLEAN, polling : BOOLEAN]]
          /\ pc'[c].at = "drain" /\ pc'[c].k = 0
          /\ pc'[c].polling \in {FALSE, pc[c].polling}
          /\ \A d \in Controllers \ {c} : pc'[d] = pc[d]
      BY <2>1, <2>2, CallerShape
    <2>4. TypeOK' /\ TasksOK'
      BY <1>2, <2>1, <2>3 DEF TypeOK, TasksOK, Services
    <2>5. ASSUME ~mode.overlap PROVE ~crashed' /\ Stage("drain", 0)'
      BY <1>2, <1>5, <2>1, <2>5, WorkerFacts, ThreadsAssumption
         DEF Stage, NoThreads, Sequential
    <2> QED  BY <1>2, <2>1, <2>2, <2>3, <2>4, <2>5, CallerStep
  <1> QED  BY <1>1, <1>3, <1>4, <1>5, ThreadsAssumption

\* start() returns with its threads running; stop() without any; restart() goes
\* on with fresh io_services.
LEMMA ReturnStep ==
    ASSUME ServiceInv, NEW c \in Controllers, StartReturn(c) \/ StopReturn(c), UNCHANGED mode
    PROVE  ServiceInv'
  <1> USE DEF ServiceInv
  <1>1. PICK k \in 0 .. NumThreads : k = pc[c].k
    BY DEF TypeOK
  <1>2. /\ pc[c].at \in {"await", "drain"}
        /\ ~mode.overlap => Stage(pc[c].at, k) /\ ~crashed
        /\ UNCHANGED <<mode, started, polling, worker, used, crashed>>
    BY <1>1 DEF StartReturn, StopReturn, StopReturnWith, At, Sequential, Staged, flags, io
  <1>3. "idle" \in Points /\ "start" \in Points /\ 0 \in 0 .. NumThreads
    BY ThreadsAssumption DEF Points
  <1>4. CASE pc' = [pc EXCEPT ![c] = Ready]
    <2>1. /\ pc' \in [Controllers -> [at : Points, k : 0 .. NumThreads,
                                      restart : BOOLEAN, polling : BOOLEAN]]
          /\ pc'[c].at = "idle" /\ pc'[c].k = 0
          /\ pc'[c].polling \in {FALSE, pc[c].polling}
          /\ \A d \in Controllers \ {c} : pc'[d] = pc[d]
      BY <1>3, <1>4, CallerShape
    <2>2. /\ UNCHANGED <<queue, halted>>
          /\ pc[c].at = "await" <=> started
      <3>1. CASE StartReturn(c)  BY <3>1 DEF StartReturn, At, io
      <3>2. CASE StopReturn(c)
        <4>1. pc[c].at = "drain" /\ ~started  BY <3>2 DEF StopReturn, StopReturnWith, At
        <4>2. ~pc[c].restart
          <5>1. "start" # "idle"  OBVIOUS
          <5>2. ASSUME pc[c].restart PROVE pc'[c].at = "start"
            BY <3>2, <5>2 DEF StopReturn, StopReturnWith, TypeOK
          <5> QED  BY <2>1, <5>1, <5>2
        <4> QED  BY <3>2, <4>1, <4>2 DEF StopReturn, StopReturnWith, io
      <3> QED  BY <3>1, <3>2
    <2>3. TypeOK' /\ TasksOK'
      BY <1>2, <2>1, <2>2 DEF TypeOK, TasksOK, Services
    <2>4. ASSUME ~mode.overlap PROVE ~crashed' /\ Stage("idle", 0)'
      BY <1>2, <2>2, <2>4 DEF Stage, NoStops, NoThreads, AllThreads, Fresh
    <2> QED  BY <1>2, <1>3, <2>1, <2>2, <2>3, <2>4, CallerStep
  <1>5. CASE StopReturn(c) /\ pc[c].restart
    <2>1. /\ pc' = [pc EXCEPT ![c].at = "start", ![c].restart = FALSE]
          /\ queue' = [s \in Workers |-> << >>] /\ halted' = {}
          /\ pc[c].at = "drain" /\ ~started
      BY <1>5 DEF StopReturn, StopReturnWith, At
    <2>2. /\ pc' \in [Controllers -> [at : Points, k : 0 .. NumThreads,
                                      restart : BOOLEAN, polling : BOOLEAN]]
          /\ pc'[c].at = "start" /\ pc'[c].k = k
          /\ pc'[c].polling \in {FALSE, pc[c].polling}
          /\ \A d \in Controllers \ {c} : pc'[d] = pc[d]
      BY <1>1, <1>3, <2>1, CallerShape
    <2>3. ASSUME ~mode.overlap PROVE NoThreads
      BY <1>2, <2>1, <2>3 DEF Stage
    <2>4. TypeOK' /\ TasksOK'
      <3>1. << >> \in Seq(Posted)  OBVIOUS
      <3>2. TypeOK'  BY <1>2, <2>1, <2>2, <3>1 DEF TypeOK
      <3> QED  BY <1>2, <2>3, <3>2 DEF TasksOK, NoThreads
    <2>5. ASSUME ~mode.overlap PROVE ~crashed' /\ Stage("start", k)'
      <3>1. \A s \in Workers : Len(queue'[s]) = 0  BY <2>1
      <3>2. NoStops'
        BY <1>2, <2>3, <2>5, <3>1 DEF NoStops, NoThreads, TasksOK
      <3> QED  BY <1>2, <2>1, <2>3, <2>5, <3>2 DEF Stage, NoThreads
    <2>6. ~mode.overlap => \A w \in Workers : worker'[w].at # "done"
      BY <1>2, <2>3 DEF NoThreads
    <2> QED  BY <1>1, <1>2, <1>3, <2>1, <2>2, <2>4, <2>5, <2>6, CallerStep
  <1> QED  BY <1>4, <1>5 DEF StartReturn, StopReturn, StopReturnWith

LEMMA ServiceStutter == ServiceInv /\ UNCHANGED vars => ServiceInv'
  <1> SUFFICES ASSUME ServiceInv, UNCHANGED vars PROVE ServiceInv'
    OBVIOUS
  <1> USE DEF vars, flags, io
  <1>1. NoStops' = NoStops /\ Fresh' = Fresh /\ NoThreads' = NoThreads
        /\ AllThreads' = AllThreads
    BY DEF NoStops, Fresh, NoThreads, AllThreads
  <1>2. Staged => Staged'
    BY <1>1 DEF Staged, Stage, AllReturned
  <1>3. OneCall' = OneCall /\ Loyal' = Loyal
    BY DEF OneCall, Loyal
  <1>4. TypeOK' /\ TasksOK'
    BY DEF ServiceInv, TypeOK, Services, TasksOK
  <1> QED  BY <1>2, <1>3, <1>4 DEF ServiceInv, Sequential

LEMMA ServiceInvariant == Spec => []ServiceInv
  <1>1. ServiceInv /\ [Next]_vars => ServiceInv'
    <2> SUFFICES ASSUME ServiceInv, [Next]_vars PROVE ServiceInv'
      OBVIOUS
    <2>1. ASSUME NEW c \in Controllers, ControllerEnter(c) PROVE ServiceInv'
      BY <2>1, EnterStep
    <2>2. ASSUME NEW c \in Controllers, ControllerStep(c) PROVE ServiceInv'
      BY <2>2, CallPostStep, CreateStep, JoinStep, ReturnStep DEF ControllerStep
    <2>3. ASSUME NEW w \in Workers, WorkerStep(w) PROVE ServiceInv'
      BY <2>3, WorkerInvStep
    <2>4. ASSUME NEW s \in Services, Post(s) /\ UNCHANGED mode PROVE ServiceInv'
      BY <2>4, PostStep
    <2>5. CASE UNCHANGED vars  BY <2>5, ServiceStutter
    <2> QED  BY <2>1, <2>2, <2>3, <2>4, <2>5 DEF Next
  <1> QED  BY <1>1, ServiceInit, PTL DEF Spec

-----------------------------------------------------------------------------
(* The theorems *)

\* No std::thread of the vector _threads is assigned to while it is joinable, and
\* none is joined twice, however many times start(), stop() and restart() are
\* called in sequence and whatever the handlers throw.
THEOREM ThreadsInTurn == Spec => []NoTerminate
  <1>1. ServiceInv => NoTerminate
    BY DEF ServiceInv, Sequential, NoTerminate
  <1> QED  BY <1>1, ServiceInvariant, PTL

\* When stop() has returned the service is stopped and none of its threads is
\* left to run a handler.
THEOREM StopLeavesNoThread == Spec => []StopQuiesces
  <1>1. ServiceInv => StopQuiesces
    BY DEF ServiceInv, Sequential, Staged, Stage, NoThreads, StopQuiesces
  <1> QED  BY <1>1, ServiceInvariant, PTL

\* Between calls a started service has all its threads, none of which has left
\* its loop, if handlers do not throw, the threads do not poll and calls do not
\* overlap.
THEOREM StartedHasThreads == Spec => []WorkersStay
  <1>1. ServiceInv => WorkersStay
    BY DEF ServiceInv, Sequential, Staged, Stage, AllThreads, Loyal, WorkersStay
  <1> QED  BY <1>1, ServiceInvariant, PTL

=============================================================================
