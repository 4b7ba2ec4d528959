---------------------------- MODULE ServerProofs ----------------------------
(* Proofs about Server: the map of sessions and the accept loop, for every   *)
(* number of threads and sessions, with and without strands.                 *)
EXTENDS Server, FiniteSetTheorems, TLAPS

HandlerRec == [op : {"start", "stop", "disconnectAll", "accept", "unregister"},
               id : Sessions \cup {NoSession}]

In(q, i) == \E k \in 1 .. Len(q) : q[k] = Handler("unregister", i)

Once(q) ==
    \A j, k \in 1 .. Len(q) : q[j].op = "unregister" /\ q[j] = q[k] => j = k

-----------------------------------------------------------------------------
(* The queue of the lane *)

LEMMA AppendFacts ==
    ASSUME NEW S, NEW q \in Seq(S), NEW e \in S
    PROVE  /\ Append(q, e) \in Seq(S)
           /\ Len(Append(q, e)) = Len(q) + 1
           /\ \A k \in 1 .. Len(q) : Append(q, e)[k] = q[k]
           /\ Append(q, e)[Len(q) + 1] = e
  OBVIOUS

LEMMA TailFacts ==
    ASSUME NEW S, NEW q \in Seq(S), q # << >>
    PROVE  /\ Tail(q) \in Seq(S)
           /\ Len(q) \in Nat /\ Len(q) >= 1
           /\ Len(Tail(q)) = Len(q) - 1
           /\ \A k \in 1 .. Len(q) - 1 : Tail(q)[k] = q[k + 1]
           /\ Head(q) = q[1] /\ Head(q) \in S
  OBVIOUS

LEMMA PushIn ==
    ASSUME NEW q \in Seq(HandlerRec), NEW e \in HandlerRec, NEW i
    PROVE  In(Append(q, e), i) <=> In(q, i) \/ e = Handler("unregister", i)
  <1> DEFINE r == Append(q, e)
  <1>1. /\ Len(r) = Len(q) + 1 /\ Len(q) \in Nat
        /\ \A k \in 1 .. Len(q) : r[k] = q[k]
        /\ r[Len(q) + 1] = e
    BY AppendFacts
  <1> HIDE DEF r
  <1>2. \A k \in 1 .. Len(r) : k \in 1 .. Len(q) \/ k = Len(q) + 1
    BY <1>1
  <1>3. (1 .. Len(q)) \subseteq 1 .. Len(r) /\ Len(q) + 1 \in 1 .. Len(r)
    BY <1>1
  <1>4. In(r, i) <=> In(q, i) \/ e = Handler("unregister", i)
    BY <1>1, <1>2, <1>3 DEF In
  <1> QED
    BY <1>4 DEF r

LEMMA PushOnce ==
    ASSUME NEW q \in Seq(HandlerRec), NEW e \in HandlerRec, Once(q),
           e.op = "unregister" => \A k \in 1 .. Len(q) : q[k] # e
    PROVE  Once(Append(q, e))
  <1> DEFINE r == Append(q, e)
  <1>1. /\ Len(r) = Len(q) + 1 /\ Len(q) \in Nat
        /\ \A k \in 1 .. Len(q) : r[k] = q[k]
        /\ r[Len(q) + 1] = e
    BY AppendFacts
  <1> HIDE DEF r
  <1>2. \A k \in 1 .. Len(r) : k \in 1 .. Len(q) \/ k = Len(q) + 1
    BY <1>1
  <1>3. ASSUME NEW j \in 1 .. Len(r), NEW k \in 1 .. Len(r),
               r[j].op = "unregister", r[j] = r[k]
        PROVE  j = k
    BY <1>1, <1>2, <1>3 DEF Once
  <1>4. Once(r)
    BY <1>3 DEF Once
  <1> QED
    BY <1>4 DEF r

LEMMA PopIn ==
    ASSUME NEW q \in Seq(HandlerRec), q # << >>, Once(q), NEW i
    PROVE  In(Tail(q), i) <=> In(q, i) /\ Head(q) # Handler("unregister", i)
  <1> DEFINE r == Tail(q)
  <1>1. /\ Len(q) \in Nat /\ Len(q) >= 1
        /\ Len(r) = Len(q) - 1
        /\ \A k \in 1 .. Len(q) - 1 : r[k] = q[k + 1]
        /\ Head(q) = q[1]
    BY TailFacts
  <1> HIDE DEF r
  <1>2. ASSUME In(r, i) PROVE In(q, i) /\ Head(q) # Handler("unregister", i)
    <2>1. PICK k \in 1 .. Len(r) : r[k] = Handler("unregister", i)
      BY <1>2 DEF In
    <2>2. k + 1 \in 1 .. Len(q) /\ 1 \in 1 .. Len(q) /\ k + 1 # 1
          /\ q[k + 1] = Handler("unregister", i)
      BY <1>1, <2>1
    <2>3. q[k + 1].op = "unregister"
      BY <2>2 DEF Handler
    <2> QED
      BY <1>1, <2>2, <2>3 DEF In, Once
  <1>3. ASSUME In(q, i), Head(q) # Handler("unregister", i) PROVE In(r, i)
    <2>1. PICK k \in 1 .. Len(q) : q[k] = Handler("unregister", i)
      BY <1>3 DEF In
    <2>2. k # 1
      BY <1>1, <1>3, <2>1
    <2>3. k - 1 \in 1 .. Len(r) /\ (k - 1) + 1 = k
      BY <1>1, <2>2
    <2>4. r[k - 1] = q[k]
      BY <1>1, <2>3
    <2> QED
      BY <2>1, <2>3, <2>4 DEF In
  <1> QED
    BY <1>2, <1>3 DEF r

LEMMA PopOnce ==
    ASSUME NEW q \in Seq(HandlerRec), q # << >>, Once(q)
    PROVE  Once(Tail(q))
  <1> DEFINE r == Tail(q)
  <1>1. /\ Len(q) \in Nat /\ Len(q) >= 1
        /\ Len(r) = Len(q) - 1
        /\ \A k \in 1 .. Len(q) - 1 : r[k] = q[k + 1]
    BY TailFacts
  <1> HIDE DEF r
  <1>2. ASSUME NEW j \in 1 .. Len(r), NEW k \in 1 .. Len(r),
               r[j].op = "unregister", r[j] = r[k]
        PROVE  j = k
    <2>1. j + 1 \in 1 .. Len(q) /\ k + 1 \in 1 .. Len(q)
      BY <1>1
    <2>2. q[j + 1].op = "unregister" /\ q[j + 1] = q[k + 1]
      BY <1>1, <1>2
    <2>3. j + 1 = k + 1
      BY <2>1, <2>2 DEF Once
    <2> QED
      BY <1>1, <2>3
  <1>3. Once(r)
    BY <1>2 DEF Once
  <1> QED
    BY <1>3 DEF r

-----------------------------------------------------------------------------
(* The map of sessions *)

\* The part of RegistryInv that relates the map, the sessions and the queue.
MapInv(ss, se, q, ac) ==
    /\ \A i \in Sessions : i \in ss <=> se[i] # "none"
    /\ \A i \in Sessions : se[i] = "closed" <=> In(q, i)
    /\ Once(q)
    /\ \A i \in Sessions : ac[i] # "none" => se[i] = "none"

LEMMA MapForm ==
    ASSUME TypeOK
    PROVE  RegistryInv <=> MapInv(sessions, sess, queue, accept)
  <1>1. DOMAIN queue = 1 .. Len(queue)
    BY DEF TypeOK
  <1> QED
    BY <1>1 DEF RegistryInv, RegistryExact, MapInv, In, Once, Queued

LEMMA MapFormPrime ==
    ASSUME TypeOK'
    PROVE  RegistryInv' <=> MapInv(sessions', sess', queue', accept')
  <1>1. DOMAIN queue' = 1 .. Len(queue')
    BY DEF TypeOK
  <1> QED
    BY <1>1 DEF RegistryInv, RegistryExact, MapInv, In, Once, Queued

LEMMA QueueType == TypeOK => queue \in Seq(HandlerRec)
  BY DEF TypeOK, HandlerRec

\* The head of the queue leaves it and is not a request to unregister.
LEMMA PopKeeps ==
    ASSUME TypeOK, NEW op \in {"start", "stop", "disconnectAll", "accept"},
           Runs(op), Once(queue)
    PROVE  /\ Tail(queue) \in Seq(HandlerRec)
           /\ Once(Tail(queue))
           /\ \A i \in Sessions : In(Tail(queue), i) <=> In(queue, i)
  <1>1. queue \in Seq(HandlerRec) /\ queue # << >> /\ Head(queue).op = op
    BY QueueType DEF Runs
  <1>2. \A i \in Sessions : Head(queue) # Handler("unregister", i)
    BY <1>1 DEF Handler
  <1>3. Tail(queue) \in Seq(HandlerRec)
    BY <1>1, TailFacts
  <1> QED
    BY <1>1, <1>2, <1>3, PopIn, PopOnce

-----------------------------------------------------------------------------
(* Types *)

LEMMA InitInv == Init => TypeOK /\ RegistryInv /\ KeepsAccepting
  <1> SUFFICES ASSUME Init PROVE TypeOK /\ RegistryInv /\ KeepsAccepting
    OBVIOUS
  <1>1. queue = << >> /\ << >> \in Seq(HandlerRec)
    BY DEF Init
  <1>2. TypeOK
    BY <1>1, SessionAssumption DEF Init, TypeOK, HandlerRec
  <1>3. RegistryInv
    BY <1>1, <1>2 DEF Init, RegistryInv, RegistryExact, Queued
  <1> QED
    BY <1>2, <1>3 DEF Init, KeepsAccepting

LEMMA PushType ==
    ASSUME TypeOK, NEW e \in HandlerRec
    PROVE  Append(queue, e) \in Seq(HandlerRec)
  BY QueueType, AppendFacts

LEMMA PopType ==
    ASSUME TypeOK, NEW op, Runs(op)
    PROVE  Tail(queue) \in Seq(HandlerRec) /\ Head(queue) \in HandlerRec
  BY QueueType, TailFacts DEF Runs

LEMMA AcceptType ==
    ASSUME TypeOK, NEW now, NEW done, Accept(now, done)
    PROVE  /\ session' \in Sessions \cup {NoSession}
           /\ accept' \in [Sessions -> {"none", "pending", "ok", "error"}]
  BY DEF TypeOK, Accept

LEMMA ThreadType ==
    ASSUME TypeOK, NEW t \in Threads, ThreadEnter(t) \/ ThreadStep(t)
    PROVE  TypeOK'
  <1>1. ASSUME NEW at \in {"start", "stop", "restart", "disconnectAll", "multicast"},
               NEW test, Call(t, at, test)
        PROVE  TypeOK'
    BY <1>1 DEF Call, TypeOK, lane, registry
  <1>2. CASE ThreadEnter(t)
    BY <1>1, <1>2 DEF ThreadEnter, Start, Stop, Restart, DisconnectAll, Multicast
  <1>3. CASE PostHandler(t)
    <2>1. Handler(IF pc[t] = "restart" THEN "stop" ELSE pc[t], NoSession) \in HandlerRec
      BY <1>3 DEF PostHandler, Handler, HandlerRec
    <2>2. queue' \in Seq(HandlerRec)
      BY <1>3, <2>1, PushType DEF PostHandler
    <2> QED
      BY <1>3, <2>2 DEF PostHandler, TypeOK, HandlerRec, lane, registry, peers
  <1>4. CASE RestartWait(t) \/ RestartStart(t)
    BY <1>4 DEF RestartWait, RestartStart, TypeOK, lane, registry, peers
  <1>5. CASE MulticastLock(t) \/ MulticastSend(t)
    BY <1>5 DEF MulticastLock, MulticastSend, TypeOK, lane, registry, peers
  <1> QED
    BY <1>2, <1>3, <1>4, <1>5 DEF ThreadStep

LEMMA CrashType == TypeOK /\ Crash => TypeOK'
  BY DEF Crash, TypeOK, lane, registry, threads, peers

LEMMA LaneType == TypeOK /\ LaneStep => TypeOK'
  <1> SUFFICES ASSUME TypeOK, LaneStep PROVE TypeOK'
    OBVIOUS
  <1>1. CASE StartHandler
    <2>1. queue' \in Seq(HandlerRec)
      BY <1>1, PopType DEF StartHandler
    <2>2. /\ session' \in Sessions \cup {NoSession}
          /\ accept' \in [Sessions -> {"none", "pending", "ok", "error"}]
      BY <1>1, AcceptType DEF StartHandler, TypeOK
    <2> QED
      BY <1>1, <2>1, <2>2
         DEF StartHandler, TypeOK, HandlerRec, registry, threads, peers
  <1>2. CASE StartThrows \/ UnregisterRace
    <2>1. CASE Crash  BY <2>1, CrashType
    <2>2. CASE ~Crash
      <3>1. queue' \in Seq(HandlerRec)
        BY <1>2, <2>2, PopType DEF StartThrows, UnregisterRace
      <3> QED
        BY <1>2, <2>2, <3>1
           DEF StartThrows, UnregisterRace, TypeOK, HandlerRec, lane, registry, threads, peers
    <2> QED  BY <2>1, <2>2
  <1>3. CASE StopHandler
    <2>1. queue' \in Seq(HandlerRec)
      BY <1>3, PopType DEF StopHandler, StopWith
    <2>2. /\ AskAll \in [Sessions -> {"none", "connected", "asked", "closed"}]
          /\ Aborted \subseteq Sessions
      BY DEF AskAll, Aborted, TypeOK
    <2>3. /\ accept' \in [Sessions -> {"none", "pending", "ok", "error"}]
          /\ late' \subseteq Sessions
          /\ sess' \in [Sessions -> {"none", "connected", "asked", "closed"}]
      BY <1>3, <2>2 DEF StopHandler, StopWith, TypeOK
    <2>4. /\ started' = FALSE
          /\ listening' = listening \/ listening' = FALSE
          /\ backlog' = backlog \/ backlog' = 0
          /\ session' = session \/ session' = NoSession
      BY <1>3 DEF StopHandler, StopWith
    <2>5. UNCHANGED <<sessions, pc, todo, used, crashed>>
      BY <1>3 DEF StopHandler, StopWith, threads
    <2>6. /\ started' \in BOOLEAN /\ listening' \in BOOLEAN
          /\ session' \in Sessions \cup {NoSession}
      BY <2>4, Zenon DEF TypeOK
    <2>7. backlog' \in Nat
      BY <2>4 DEF TypeOK
    <2>8. /\ sessions' \subseteq Sessions /\ crashed' \in BOOLEAN
          /\ pc' \in [Threads -> {"idle", "start", "stop", "restart", "wait", "again",
                                 "disconnectAll", "multicast", "sending"}]
          /\ todo' \in [Threads -> SUBSET Sessions]
          /\ used' \in [calls : Nat, clients : Nat, failures : Nat]
      BY <2>5 DEF TypeOK
    <2> QED
      BY <2>1, <2>3, <2>6, <2>7, <2>8 DEF TypeOK, HandlerRec
  <1>4. CASE DisconnectAllHandler
    <2>1. queue' \in Seq(HandlerRec)
      BY <1>4, PopType DEF DisconnectAllHandler
    <2>2. AskAll \in [Sessions -> {"none", "connected", "asked", "closed"}]
      BY DEF AskAll, TypeOK
    <2> QED
      BY <1>4, <2>1, <2>2
         DEF DisconnectAllHandler, TypeOK, HandlerRec, lane, threads, peers
  <1>5. ASSUME NEW i \in Sessions, AcceptHandler(i) PROVE TypeOK'
    <2>1. CASE Crash
      BY <2>1, CrashType
    <2>2. CASE ~Crash
      <3>1. queue' = Tail(queue) /\ \E now : Accept(now, {i})
        BY <1>5, <2>2 DEF AcceptHandler, AcceptHandlerWith
      <3>2. /\ session' \in Sessions \cup {NoSession}
            /\ accept' \in [Sessions -> {"none", "pending", "ok", "error"}]
        BY <3>1, AcceptType
      <3>3. queue' \in Seq(HandlerRec)
        BY <1>5, <3>1, PopType DEF AcceptHandler, AcceptHandlerWith
      <3> QED
        BY <1>5, <2>2, <3>2, <3>3
           DEF AcceptHandler, AcceptHandlerWith, TypeOK, HandlerRec, registry, threads, peers
    <2> QED
      BY <2>1, <2>2
  <1>6. CASE UnregisterHandler
    <2>1. queue' \in Seq(HandlerRec)
      BY <1>6, PopType DEF UnregisterHandler
    <2> QED
      BY <1>6, <2>1
         DEF UnregisterHandler, Unregister, TypeOK, HandlerRec, lane, threads, peers
  <1> QED
    BY <1>1, <1>2, <1>3, <1>4, <1>5, <1>6 DEF LaneStep

LEMMA OtherType ==
    ASSUME TypeOK, NEW i \in Sessions,
           SessionStep(i) \/ AcceptPerform(i) \/ AcceptFail(i) \/ Deliver(i)
    PROVE  TypeOK'
  <1>1. CASE SessionEnds(i)
    <2>1. Handler("unregister", i) \in HandlerRec
      BY DEF Handler, HandlerRec
    <2>2. queue' \in Seq(HandlerRec)
      BY <1>1, <2>1, PushType, QueueType DEF SessionEnds
    <2> QED
      BY <1>1, <2>2
         DEF SessionEnds, Unregister, TypeOK, HandlerRec, lane, threads, peers
  <1>2. CASE SessionRace(i)
    BY <1>2, CrashType DEF SessionRace
  <1>3. CASE AcceptPerform(i)
    BY <1>3 DEF AcceptPerform, TypeOK, registry, threads
  <1>4. CASE AcceptFail(i)
    BY <1>4 DEF AcceptFail, TypeOK, registry, threads
  <1>5. CASE Deliver(i)
    <2>1. Handler("accept", i) \in HandlerRec
      BY DEF Handler, HandlerRec
    <2>2. queue' \in Seq(HandlerRec)
      BY <1>5, <2>1, PushType DEF Deliver
    <2> QED
      BY <1>5, <2>2 DEF Deliver, TypeOK, HandlerRec, registry, threads, peers
  <1> QED
    BY <1>1, <1>2, <1>3, <1>4, <1>5 DEF SessionStep

LEMMA TypeStep == TypeOK /\ [Next]_vars => TypeOK'
  <1> SUFFICES ASSUME TypeOK, [Next]_vars PROVE TypeOK'
    OBVIOUS
  <1>1. CASE Arrive
    BY <1>1 DEF Arrive, TypeOK, lane, registry, threads
  <1>2. CASE UNCHANGED vars
    BY <1>2 DEF vars, TypeOK, lane, registry, threads, peers
  <1> QED
    BY <1>1, <1>2, ThreadType, LaneType, OtherType DEF Next

-----------------------------------------------------------------------------
(* The map of sessions along a step *)

\* Steps that leave the map, the sessions and the accepts alone, and post at
\* most something other than a request to unregister.
LEMMA MapKept ==
    ASSUME TypeOK, MapInv(sessions, sess, queue, accept),
           UNCHANGED <<sessions, sess>>,
           \A i \in Sessions : accept'[i] # "none" => accept[i] # "none",
           \/ queue' = queue
           \/ \E e \in HandlerRec : e.op # "unregister" /\ queue' = Append(queue, e)
    PROVE  MapInv(sessions', sess', queue', accept')
  <1>1. queue \in Seq(HandlerRec)
    BY QueueType
  <1>2. Once(queue') /\ \A i \in Sessions : In(queue', i) <=> In(queue, i)
    <2>1. CASE queue' = queue
      BY <2>1 DEF MapInv
    <2>2. ASSUME NEW e \in HandlerRec, e.op # "unregister", queue' = Append(queue, e)
          PROVE  Once(queue') /\ \A i \in Sessions : In(queue', i) <=> In(queue, i)
      <3>1. \A i \in Sessions : e # Handler("unregister", i)
        BY <2>2 DEF Handler
      <3>2. Once(queue')
        BY <1>1, <2>2, PushOnce DEF MapInv
      <3> QED
        BY <1>1, <2>2, <3>1, <3>2, PushIn
    <2> QED
      BY <2>1, <2>2
  <1> QED
    BY <1>2 DEF MapInv

\* The next accept uses a Session that is not alive.
LEMMA AcceptFresh ==
    ASSUME TypeOK, MapInv(sessions, sess, queue, accept), NEW now, NEW done, Accept(now, done)
    PROVE  \A i \in Sessions : accept'[i] # "none" => sess[i] = "none"
  BY DEF MapInv, Accept, Destroyed, TypeOK

LEMMA AcceptMap ==
    ASSUME TypeOK, MapInv(sessions, sess, queue, accept), NEW i \in Sessions, AcceptHandler(i)
    PROVE  MapInv(sessions', sess', queue', accept')
  <1>1. CASE Crash
    BY <1>1, MapKept DEF Crash, registry, lane
  <1>2. CASE ~Crash
    <2>1. /\ Runs("accept") /\ queue' = Tail(queue)
          /\ accept[i] \in {"error", "ok"}
          /\ \E now : Accept(now, {i})
          /\ \/ UNCHANGED <<sessions, sess>>
             \/ sessions' = sessions \cup {i} /\ sess' = [sess EXCEPT ![i] = "connected"]
      BY <1>2 DEF AcceptHandler, AcceptHandlerWith, registry
    <2>2. Once(queue') /\ \A j \in Sessions : In(queue', j) <=> In(queue, j)
      BY <2>1, PopKeeps DEF MapInv
    <2>3. \A j \in Sessions : accept'[j] # "none" => sess[j] = "none"
      BY <2>1, AcceptFresh
    <2>4. sess[i] = "none"
      BY <2>1 DEF MapInv
    <2>5. accept'[i] = "none"
      BY <2>1 DEF Accept, Destroyed, TypeOK
    <2>6. CASE UNCHANGED <<sessions, sess>>
      BY <2>2, <2>3, <2>6 DEF MapInv
    <2>7. CASE sessions' = sessions \cup {i} /\ sess' = [sess EXCEPT ![i] = "connected"]
      <3>1. \A j \in Sessions : sess'[j] = IF j = i THEN "connected" ELSE sess[j]
        BY <2>7 DEF TypeOK
      <3> QED
        BY <2>2, <2>3, <2>4, <2>5, <2>7, <3>1 DEF MapInv
    <2> QED
      BY <2>1, <2>6, <2>7
  <1> QED
    BY <1>1, <1>2

\* Asking the connected sessions to disconnect does not change the map.
LEMMA AskMap ==
    ASSUME TypeOK, MapInv(sessions, sess, queue, accept),
           NEW op \in {"stop", "disconnectAll"}, Runs(op), queue' = Tail(queue),
           sess' = sess \/ sess' = AskAll, sessions' = sessions,
           \A i \in Sessions : accept'[i] # "none" => accept[i] # "none"
    PROVE  MapInv(sessions', sess', queue', accept')
  <1>1. Once(queue') /\ \A j \in Sessions : In(queue', j) <=> In(queue, j)
    BY PopKeeps DEF MapInv
  <1>2. \A i \in Sessions : /\ sess'[i] = "none" <=> sess[i] = "none"
                            /\ sess'[i] = "closed" <=> sess[i] = "closed"
    BY DEF AskAll, TypeOK
  <1> QED
    BY <1>1, <1>2 DEF MapInv

LEMMA UnregisterMap ==
    ASSUME TypeOK, MapInv(sessions, sess, queue, accept), UnregisterHandler
    PROVE  MapInv(sessions', sess', queue', accept')
  <1> DEFINE i == Head(queue).id
  <1>1. /\ queue \in Seq(HandlerRec) /\ queue # << >> /\ queue' = Tail(queue)
        /\ Head(queue) \in HandlerRec /\ Head(queue).op = "unregister"
    BY QueueType, TailFacts DEF UnregisterHandler, Runs
  <1>2. \A j \in Sessions : Head(queue) = Handler("unregister", j) <=> j = i
    BY <1>1 DEF Handler, HandlerRec
  <1> HIDE DEF i
  <1>3. Once(queue') /\ \A j \in Sessions : In(queue', j) <=> In(queue, j) /\ j # i
    BY <1>1, <1>2, PopIn, PopOnce DEF MapInv
  <1>4. /\ sessions' = sessions \ {i} /\ accept' = accept
        /\ \A j \in Sessions : sess'[j] = IF j = i THEN "none" ELSE sess[j]
    BY DEF i, UnregisterHandler, Unregister, TypeOK, lane
  <1> QED
    BY <1>3, <1>4 DEF MapInv

LEMMA SessionMap ==
    ASSUME TypeOK, MapInv(sessions, sess, queue, accept), NEW i \in Sessions, SessionEnds(i)
    PROVE  MapInv(sessions', sess', queue', accept')
  <1>1. accept' = accept /\ sess[i] \in {"connected", "asked"} /\ ~In(queue, i)
    BY DEF SessionEnds, lane, MapInv
  <1>2. CASE SharedLane /\ Unregister(i) /\ UNCHANGED queue
    <2>1. \A j \in Sessions : sess'[j] = IF j = i THEN "none" ELSE sess[j]
      BY <1>2 DEF Unregister, TypeOK
    <2> QED
      BY <1>1, <1>2, <2>1 DEF Unregister, MapInv
  <1>3. CASE /\ sess' = [sess EXCEPT ![i] = "closed"] /\ sessions' = sessions
             /\ queue' = Append(queue, Handler("unregister", i))
    <2> DEFINE e == Handler("unregister", i)
    <2>1. e \in HandlerRec /\ queue \in Seq(HandlerRec)
      BY QueueType DEF Handler, HandlerRec
    <2>2. \A k \in 1 .. Len(queue) : queue[k] # e
      BY <1>1 DEF In
    <2>3. \A j \in Sessions : e = Handler("unregister", j) <=> j = i
      BY DEF Handler
    <2> HIDE DEF e
    <2>4. queue' = Append(queue, e)
      BY <1>3 DEF e
    <2>5. Once(queue') /\ \A j \in Sessions : In(queue', j) <=> In(queue, j) \/ j = i
      BY <2>1, <2>2, <2>3, <2>4, PushIn, PushOnce DEF MapInv
    <2>6. \A j \in Sessions : sess'[j] = IF j = i THEN "closed" ELSE sess[j]
      BY <1>3 DEF TypeOK
    <2> QED
      BY <1>1, <1>3, <2>5, <2>6 DEF MapInv
  <1> QED
    BY <1>2, <1>3 DEF SessionEnds

LEMMA MapStep ==
    ASSUME TypeOK, MapInv(sessions, sess, queue, accept), [Next]_vars
    PROVE  MapInv(sessions', sess', queue', accept')
  <1>1. ASSUME NEW t \in Threads, ThreadEnter(t) \/ ThreadStep(t)
        PROVE  MapInv(sessions', sess', queue', accept')
    <2>1. UNCHANGED <<sessions, sess, accept>>
      BY <1>1 DEF ThreadEnter, ThreadStep, Start, Stop, Restart, DisconnectAll, Multicast,
         Call, PostHandler, RestartWait, RestartStart, MulticastLock, MulticastSend,
         lane, registry
    <2>2. \/ queue' = queue
          \/ \E e \in HandlerRec : e.op # "unregister" /\ queue' = Append(queue, e)
      <3>1. CASE PostHandler(t)
        <4> DEFINE e == Handler(IF pc[t] = "restart" THEN "stop" ELSE pc[t], NoSession)
        <4>1. e \in HandlerRec /\ e.op # "unregister"
          BY <3>1 DEF PostHandler, Handler, HandlerRec
        <4>2. queue' = Append(queue, e)
          BY <3>1 DEF PostHandler
        <4> QED
          BY <4>1, <4>2
      <3>2. CASE ~PostHandler(t)
        BY <1>1, <3>2 DEF ThreadEnter, ThreadStep, Start, Stop, Restart, DisconnectAll,
           Multicast, Call, RestartWait, RestartStart, MulticastLock, MulticastSend
      <3> QED
        BY <3>1, <3>2
    <2> QED
      BY <2>1, <2>2, MapKept
  <1>2. CASE StartHandler
    <2>1. /\ Runs("start") /\ queue' = Tail(queue) /\ UNCHANGED <<sessions, sess>>
          /\ accept' = accept \/ Accept(TRUE, {})
      BY <1>2 DEF StartHandler, registry
    <2>2. Once(queue') /\ \A j \in Sessions : In(queue', j) <=> In(queue, j)
      BY <2>1, PopKeeps DEF MapInv
    <2>3. \A i \in Sessions : accept'[i] # "none" => sess[i] = "none"
      BY <2>1, AcceptFresh DEF MapInv
    <2> QED
      BY <2>1, <2>2, <2>3 DEF MapInv
  <1>3. CASE Crash
    BY <1>3, MapKept DEF Crash, registry, lane
  <1>4. CASE StopHandler
    <2>1. \A i \in Sessions : accept'[i] # "none" => accept[i] # "none"
      BY <1>4 DEF StopHandler, StopWith, Aborted, TypeOK
    <2> QED
      BY <1>4, <2>1, AskMap DEF StopHandler, StopWith
  <1>5. CASE DisconnectAllHandler
    BY <1>5, AskMap DEF DisconnectAllHandler, lane
  <1>a. CASE StartThrows /\ ~Crash
    <2>1. Runs("start") /\ queue' = Tail(queue) /\ UNCHANGED <<sessions, sess, accept>>
      BY <1>a DEF StartThrows, registry, lane
    <2>2. Once(queue') /\ \A j \in Sessions : In(queue', j) <=> In(queue, j)
      BY <2>1, PopKeeps DEF MapInv
    <2> QED
      BY <2>1, <2>2 DEF MapInv
  <1>6. CASE LaneStep
    BY <1>2, <1>3, <1>4, <1>5, <1>6, <1>a, AcceptMap, UnregisterMap
       DEF LaneStep, UnregisterRace
  <1>7. ASSUME NEW i \in Sessions,
               SessionStep(i) \/ AcceptPerform(i) \/ AcceptFail(i) \/ Deliver(i)
        PROVE  MapInv(sessions', sess', queue', accept')
    <2>1. CASE SessionStep(i)
      BY <1>3, <2>1, SessionMap DEF SessionStep, SessionRace
    <2>2. CASE AcceptPerform(i)
      BY <2>2, MapKept DEF AcceptPerform, registry, TypeOK
    <2>3. CASE AcceptFail(i)
      BY <2>3, MapKept DEF AcceptFail, registry, TypeOK
    <2>4. CASE Deliver(i)
      <3>1. Handler("accept", i) \in HandlerRec /\ Handler("accept", i).op # "unregister"
        BY DEF Handler, HandlerRec
      <3> QED
        BY <2>4, <3>1, MapKept DEF Deliver, registry
    <2> QED
      BY <1>7, <2>1, <2>2, <2>3, <2>4
  <1>8. CASE Arrive \/ UNCHANGED vars
    BY <1>8, MapKept DEF Arrive, vars, lane, registry
  <1> QED
    BY <1>1, <1>6, <1>7, <1>8 DEF Next

-----------------------------------------------------------------------------
(* The accept loop along a step *)

LEMMA AcceptingStep == TypeOK /\ KeepsAccepting /\ [Next]_vars => KeepsAccepting'
  <1> SUFFICES ASSUME TypeOK, KeepsAccepting, [Next]_vars PROVE KeepsAccepting'
    OBVIOUS
  <1>1. CASE UNCHANGED <<started, listening, accept>>
    BY <1>1 DEF KeepsAccepting
  <1>2. ASSUME NEW now \in BOOLEAN, NEW done, Accept(now, done)
        PROVE  /\ now => \E i \in Sessions : accept'[i] # "none"
               /\ \A i \in Sessions : accept'[i] = "pending" => accept[i] = "pending" \/ now
    BY <1>2 DEF Accept, TypeOK
  <1>3. CASE StartHandler
    BY <1>2, <1>3 DEF StartHandler, KeepsAccepting
  <1>4. CASE StopHandler
    BY <1>4 DEF StopHandler, StopWith, Aborted, KeepsAccepting, TypeOK
  <1>5. ASSUME NEW i \in Sessions, AcceptHandler(i) PROVE KeepsAccepting'
    <2>1. CASE Crash
      BY <1>1, <2>1 DEF Crash, lane
    <2>2. CASE ~Crash
      <3>1. Accept(started, {i}) /\ UNCHANGED <<started, listening>>
        BY <1>5, <2>2 DEF AcceptHandler, AcceptHandlerWith
      <3>2. started \in BOOLEAN
        BY DEF TypeOK
      <3> QED
        BY <1>2, <3>1, <3>2 DEF KeepsAccepting
    <2> QED
      BY <2>1, <2>2
  <1>6. CASE LaneStep
    BY <1>1, <1>3, <1>4, <1>5, <1>6
       DEF LaneStep, StartThrows, UnregisterRace, Crash, DisconnectAllHandler,
           UnregisterHandler, lane
  <1>7. ASSUME NEW i \in Sessions,
               SessionStep(i) \/ AcceptPerform(i) \/ AcceptFail(i) \/ Deliver(i)
        PROVE  KeepsAccepting'
    <2>1. CASE SessionStep(i) \/ Deliver(i)
      BY <1>1, <2>1 DEF SessionStep, SessionEnds, SessionRace, Crash, Deliver, lane
    <2>2. CASE AcceptPerform(i)
      BY <2>2 DEF AcceptPerform, KeepsAccepting, TypeOK
    <2>3. CASE AcceptFail(i)
      BY <2>3 DEF AcceptFail, KeepsAccepting, TypeOK
    <2> QED
      BY <1>7, <2>1, <2>2, <2>3
  <1>8. ASSUME NEW t \in Threads, ThreadEnter(t) \/ ThreadStep(t) PROVE KeepsAccepting'
    BY <1>1, <1>8 DEF ThreadEnter, ThreadStep, Start, Stop, Restart, DisconnectAll, Multicast,
       Call, PostHandler, RestartWait, RestartStart, MulticastLock, MulticastSend, lane
  <1>9. CASE Arrive \/ UNCHANGED vars
    BY <1>1, <1>9 DEF Arrive, vars, lane
  <1> QED
    BY <1>6, <1>7, <1>8, <1>9 DEF Next

-----------------------------------------------------------------------------
(* Theorems *)

LEMMA RegistryStep == TypeOK /\ RegistryInv /\ [Next]_vars => TypeOK' /\ RegistryInv'
  BY TypeStep, MapForm, MapFormPrime, MapStep

\* The inductive invariant of the map of sessions, types included.
THEOREM RegistryInvariant == Spec => []RegistryInv
  <1>1. Init => TypeOK /\ RegistryInv
    BY InitInv
  <1> QED
    BY <1>1, RegistryStep, PTL DEF Spec

\* The map holds exactly the connected sessions and those whose removal waits
\* on the server's lane, for any number of threads, sessions and clients, in
\* every threading mode of the service.
THEOREM RegistryIsExact == Spec => []RegistryExact
  <1>1. RegistryInv => RegistryExact
    BY DEF RegistryInv
  <1> QED
    BY <1>1, RegistryInvariant, PTL

\* A started server never stops accepting, and a stopped one has no accept
\* outstanding, in every threading mode.
THEOREM AcceptLoop == Spec => []KeepsAccepting
  <1>1. Init => TypeOK /\ KeepsAccepting
    BY InitInv
  <1>2. TypeOK /\ KeepsAccepting /\ [Next]_vars => TypeOK' /\ KeepsAccepting'
    BY TypeStep, AcceptingStep
  <1> QED
    BY <1>1, <1>2, PTL DEF Spec

-----------------------------------------------------------------------------
(* One chain of accepts: no strand, and one thread that starts and stops.    *)
(* Handlers then reach the lane in the order they are posted, a start is     *)
(* only posted for a server that is stopped or about to start, and only when *)
(* no completion is on its way: the completions of the chain before are      *)
(* served first.                                                             *)

Has(q, op) == \E k \in 1 .. Len(q) : q[k].op = op

\* No handler `second' waits behind a handler `first'.
Never(q, first, second) ==
    \A j, k \in 1 .. Len(q) : j < k /\ q[j].op = first => q[k].op # second

Coming(q, i) == \E k \in 1 .. Len(q) : q[k] = Handler("accept", i)

Orderly ==
    /\ started => Never(queue, "stop", "start")
    /\ ~started => Never(queue, "start", "stop") /\ Never(queue, "start", "accept")
    /\ ~started /\ late # {} => ~Has(queue, "start")
    /\ \A t \in Threads :
          /\ pc[t] \in {"stop", "restart"} /\ ~started => ~Has(queue, "start")
          /\ pc[t] = "start" /\ started => ~Has(queue, "stop")

Chain ==
    /\ \A i \in Sessions : accept[i] \in {"ok", "error"} => i \in late \/ Coming(queue, i)
    /\ \A i, j \in Sessions : accept[i] # "none" /\ accept[j] # "none" => i = j
    /\ started => \A i \in Sessions : accept[i] # "none" => session = i

OneController == ~Strand /\ \A t, u \in Threads : t = u

ChainInv == TypeOK /\ KeepsAccepting /\ (OneController => Orderly /\ Chain)

LEMMA PushOrder ==
    ASSUME NEW q \in Seq(HandlerRec), NEW e \in HandlerRec
    PROVE  /\ \A op : Has(Append(q, e), op) <=> Has(q, op) \/ e.op = op
           /\ \A a, b : Never(q, a, b) /\ (e.op = b => ~Has(q, a)) => Never(Append(q, e), a, b)
           /\ \A i : Coming(q, i) \/ e = Handler("accept", i) => Coming(Append(q, e), i)
  <1> DEFINE r == Append(q, e)
  <1>1. /\ Len(r) = Len(q) + 1 /\ Len(q) \in Nat
        /\ \A k \in 1 .. Len(q) : r[k] = q[k]
        /\ r[Len(q) + 1] = e
    BY AppendFacts
  <1> HIDE DEF r
  <1>2. \A k \in 1 .. Len(r) : k \in 1 .. Len(q) \/ k = Len(q) + 1
    BY <1>1
  <1>3. (1 .. Len(q)) \subseteq 1 .. Len(r) /\ Len(q) + 1 \in 1 .. Len(r)
    BY <1>1
  <1>4. \A op : Has(r, op) <=> Has(q, op) \/ e.op = op
    BY <1>1, <1>2, <1>3 DEF Has
  <1>5. ASSUME NEW a, NEW b, Never(q, a, b), e.op = b => ~Has(q, a) PROVE Never(r, a, b)
    <2> SUFFICES ASSUME NEW j \in 1 .. Len(r), NEW k \in 1 .. Len(r), j < k, r[j].op = a
                 PROVE  r[k].op # b
      BY DEF Never
    <2>1. j \in 1 .. Len(q)  BY <1>1, <1>2
    <2>2. CASE k \in 1 .. Len(q)  BY <1>1, <1>5, <2>1, <2>2 DEF Never
    <2>3. CASE k = Len(q) + 1  BY <1>1, <1>5, <2>1, <2>3 DEF Has
    <2> QED  BY <1>2, <2>2, <2>3
  <1>6. \A i : Coming(q, i) \/ e = Handler("accept", i) => Coming(r, i)
    BY <1>1, <1>3 DEF Coming
  <1> QED
    BY <1>4, <1>5, <1>6 DEF r

LEMMA PopOrder ==
    ASSUME NEW q \in Seq(HandlerRec), q # << >>
    PROVE  /\ \A op : Has(Tail(q), op) => Has(q, op)
           /\ \A a, b : Never(q, a, b) =>
                 Never(Tail(q), a, b) /\ (Head(q).op = a => ~Has(Tail(q), b))
           /\ \A i : Coming(q, i) => Coming(Tail(q), i) \/ Head(q) = Handler("accept", i)
  <1> DEFINE r == Tail(q)
  <1>1. /\ Len(q) \in Nat /\ Len(q) >= 1
        /\ Len(r) = Len(q) - 1
        /\ \A k \in 1 .. Len(q) - 1 : r[k] = q[k + 1]
        /\ Head(q) = q[1]
    BY TailFacts
  <1> HIDE DEF r
  <1>2. /\ 1 \in 1 .. Len(q)
        /\ \A k \in 1 .. Len(r) : k + 1 \in 1 .. Len(q) /\ 1 < k + 1 /\ r[k] = q[k + 1]
    BY <1>1
  <1>3. \A op : Has(r, op) => Has(q, op)
    BY <1>2 DEF Has
  <1>4. ASSUME NEW a, NEW b, Never(q, a, b)
        PROVE  Never(r, a, b) /\ (Head(q).op = a => ~Has(r, b))
    <2>1. ASSUME NEW j \in 1 .. Len(r), NEW k \in 1 .. Len(r), j < k, r[j].op = a
          PROVE  r[k].op # b
      <3>1. j + 1 < k + 1  BY <2>1
      <3> QED  BY <1>2, <1>4, <2>1, <3>1 DEF Never
    <2>2. ASSUME Head(q).op = a PROVE ~Has(r, b)
      BY <1>1, <1>2, <1>4, <2>2 DEF Never, Has
    <2> QED  BY <2>1, <2>2 DEF Never
  <1>5. ASSUME NEW i, Coming(q, i) PROVE Coming(r, i) \/ Head(q) = Handler("accept", i)
    <2>1. PICK k \in 1 .. Len(q) : q[k] = Handler("accept", i)  BY <1>5 DEF Coming
    <2>2. CASE k = 1  BY <1>1, <2>1, <2>2
    <2>3. CASE k # 1
      <3>1. k - 1 \in 1 .. Len(r) /\ (k - 1) + 1 = k  BY <1>1, <2>3
      <3>2. r[k - 1] = q[k]  BY <1>2, <3>1
      <3> QED  BY <2>1, <3>1, <3>2 DEF Coming
    <2> QED  BY <2>2, <2>3
  <1> QED
    BY <1>3, <1>4, <1>5 DEF r

\* A handler that neither starts nor stops leaves the lane.
LEMMA OrderPops ==
    ASSUME TypeOK, Orderly, queue # << >>, queue' = Tail(queue),
           UNCHANGED <<started, late, pc>>
    PROVE  Orderly'
  <1>1. PICK q \in Seq(HandlerRec) : q = queue  BY QueueType
  <1>2. PICK r : r = Tail(q)  OBVIOUS
  <1>3. /\ \A op : Has(r, op) => Has(q, op)
        /\ \A a, b : Never(q, a, b) => Never(r, a, b)
    BY <1>1, <1>2, PopOrder
  <1> QED  BY <1>1, <1>2, <1>3 DEF Orderly

\* What a handler that leaves the lane means for the chain.
LEMMA ChainPops ==
    ASSUME TypeOK, Chain, queue # << >>, queue' = Tail(queue), Head(queue).op # "accept",
           UNCHANGED <<started, late, accept, session>>
    PROVE  Chain'
  <1>1. PICK q \in Seq(HandlerRec) : q = queue  BY QueueType
  <1>2. \A i : Head(q) # Handler("accept", i)  BY <1>1 DEF Handler
  <1>3. \A i : Coming(q, i) => Coming(Tail(q), i)  BY <1>1, <1>2, PopOrder
  <1> QED  BY <1>1, <1>3 DEF Chain

LEMMA StartChain ==
    ASSUME TypeOK, KeepsAccepting, OneController, Orderly, Chain, StartHandler
    PROVE  Orderly' /\ Chain'
  <1>1. /\ queue # << >> /\ queue' = Tail(queue) /\ Head(queue).op = "start"
        /\ started' = TRUE /\ UNCHANGED <<late, pc>>
    BY DEF StartHandler, Runs, threads
  <1>2. CASE started /\ UNCHANGED <<listening, session, accept>>
    <2>1. started' = started  BY <1>1, <1>2 DEF TypeOK
    <2> QED  BY <1>1, <1>2, <2>1, OrderPops, ChainPops
  <1>3. CASE ~started /\ listening' = TRUE /\ Accept(TRUE, {})
    <2>1. PICK q \in Seq(HandlerRec) : q = queue  BY QueueType
    <2>2. Never(q, "start", "stop") /\ Never(q, "start", "accept") /\ Head(q).op = "start"
          /\ q # << >>
      BY <1>1, <1>3, <2>1 DEF Orderly
    <2>3. PICK r : r = Tail(q)  OBVIOUS
    <2>4. ~Has(r, "stop") /\ ~Has(r, "accept")  BY <2>2, <2>3, PopOrder
    <2>5. Has(q, "start")
      <3>1. q[1].op = "start" /\ 1 \in 1 .. Len(q)  BY <2>2, TailFacts
      <3> QED  BY <3>1 DEF Has
    <2>6. late = {}  BY <1>3, <2>1, <2>5 DEF Orderly
    <2>7. Never(r, "stop", "start")  BY <2>4 DEF Never, Has
    <2>8. Orderly'  BY <1>1, <2>1, <2>3, <2>4, <2>7 DEF Orderly
    <2>9. \A i \in Sessions : ~Coming(q, i)
      <3>1. \A i : Coming(r, i) => Has(r, "accept")  BY DEF Coming, Has, Handler
      <3>2. \A i : Head(q) # Handler("accept", i)  BY <2>2 DEF Handler
      <3> QED  BY <2>2, <2>3, <2>4, <3>1, <3>2, PopOrder
    <2>10. \A i \in Sessions : accept[i] = "none"
      BY <1>3, <2>1, <2>6, <2>9 DEF Chain, KeepsAccepting, TypeOK
    <2>11. PICK i \in Sessions : session' = i /\ accept' = [accept EXCEPT ![i] = "pending"]
      <3>1. [j \in Sessions |-> IF j \in {} THEN "none" ELSE accept[j]] = accept
        BY DEF TypeOK
      <3> QED  BY <1>3, <3>1 DEF Accept
    <2>12. accept'[i] = "pending" /\ \A j \in Sessions : j # i => accept'[j] = "none"
      BY <2>10, <2>11 DEF TypeOK
    <2> QED  BY <2>8, <2>11, <2>12 DEF Chain
  <1> QED  BY <1>2, <1>3 DEF StartHandler

LEMMA StopChain ==
    ASSUME TypeOK, Orderly, Chain, StopHandler
    PROVE  Orderly' /\ Chain'
  <1>1. /\ queue # << >> /\ queue' = Tail(queue) /\ Head(queue).op = "stop"
        /\ started' = FALSE /\ pc' = pc
    BY DEF StopHandler, StopWith, Runs, threads
  <1>2. CASE ~started /\ UNCHANGED <<listening, session, accept, late, sess, backlog>>
    <2>1. started' = started  BY <1>1, <1>2 DEF TypeOK
    <2> QED  BY <1>1, <1>2, <2>1, OrderPops, ChainPops
  <1>3. CASE /\ started
             /\ accept' = [i \in Sessions |-> IF i \in Aborted THEN "error" ELSE accept[i]]
             /\ late' = late \cup Aborted
    <2>1. PICK q \in Seq(HandlerRec) : q = queue  BY QueueType
    <2>2. Never(q, "stop", "start") /\ Head(q).op = "stop" /\ q # << >>
      BY <1>1, <1>3, <2>1 DEF Orderly
    <2>3. PICK r : r = Tail(q)  OBVIOUS
    <2>4. ~Has(r, "start")  BY <2>2, <2>3, PopOrder
    <2>5. Never(r, "start", "stop") /\ Never(r, "start", "accept")  BY <2>4 DEF Never, Has
    <2>6. Orderly'  BY <1>1, <2>1, <2>3, <2>4, <2>5 DEF Orderly
    <2>7. \A i : Coming(q, i) => Coming(r, i)
      <3>1. \A i : Head(q) # Handler("accept", i)  BY <2>2 DEF Handler
      <3> QED  BY <2>2, <2>3, <3>1, PopOrder
    <2>8. ASSUME NEW i \in Sessions
          PROVE  /\ accept'[i] # "none" => accept[i] # "none"
                 /\ accept'[i] \in {"ok", "error"} => i \in late' \/ Coming(r, i)
      BY <1>3, <2>1, <2>7 DEF Chain, Aborted, TypeOK
    <2> QED  BY <1>1, <2>1, <2>3, <2>6, <2>8 DEF Chain
  <1> QED  BY <1>2, <1>3 DEF StopHandler, StopWith

LEMMA AcceptChain ==
    ASSUME TypeOK, Orderly, Chain, NEW i \in Sessions, AcceptHandler(i), ~crashed'
    PROVE  Orderly' /\ Chain'
  <1>1. /\ queue # << >> /\ queue' = Tail(queue) /\ Head(queue).op = "accept"
        /\ Head(queue).id = i /\ UNCHANGED <<started, late, pc>>
        /\ accept[i] # "none" /\ Accept(started, {i})
    BY DEF AcceptHandler, AcceptHandlerWith, Runs, threads, Crash
  <1>2. Orderly'  BY <1>1, OrderPops
  <1>3. PICK q \in Seq(HandlerRec) : q = queue  BY QueueType
  <1>4. \A j \in Sessions : Coming(q, j) => Coming(Tail(q), j) \/ j = i
    <2>1. \A j : Head(q) = Handler("accept", j) => j = i  BY <1>1, <1>3 DEF Handler
    <2> QED  BY <1>1, <1>3, <2>1, PopOrder
  <1>5. \A j \in Sessions : j # i => accept[j] = "none"  BY <1>1 DEF Chain
  <1> DEFINE cleared == [j \in Sessions |-> IF j \in {i} THEN "none" ELSE accept[j]]
  <1>6. cleared = [j \in Sessions |-> "none"]  BY <1>5
  <1>7. CASE started
    <2>1. PICK n \in Sessions : session' = n /\ accept' = [cleared EXCEPT ![n] = "pending"]
      BY <1>1, <1>7 DEF Accept
    <2> HIDE DEF cleared
    <2>2. accept'[n] = "pending" /\ \A j \in Sessions : j # n => accept'[j] = "none"
      BY <1>6, <2>1
    <2> QED  BY <1>2, <2>1, <2>2 DEF Chain
  <1>8. CASE ~started
    <2>1. accept' = cleared  BY <1>1, <1>8 DEF Accept
    <2>2. \A j \in Sessions : accept'[j] = "none"  BY <1>6, <2>1
    <2> QED  BY <1>2, <2>2 DEF Chain
  <1> QED  BY <1>7, <1>8

LEMMA HandlerType ==
    ASSUME NEW op \in {"start", "stop", "disconnectAll", "accept", "unregister"},
           NEW i \in Sessions \cup {NoSession}
    PROVE  Handler(op, i) \in HandlerRec /\ Handler(op, i).op = op
  BY DEF Handler, HandlerRec

LEMMA ChainKept ==
    ASSUME Orderly, Chain, UNCHANGED <<started, late, accept, session, queue, pc>>
    PROVE  Orderly' /\ Chain'
  BY DEF Orderly, Chain

\* A handler joins the queue.
LEMMA ChainPushes ==
    ASSUME TypeOK, Chain, NEW e \in HandlerRec, queue' = Append(queue, e),
           UNCHANGED <<started, accept, session>>,
           \A i \in Sessions : i \in late => i \in late' \/ e = Handler("accept", i)
    PROVE  Chain'
  <1>1. PICK q \in Seq(HandlerRec) : q = queue  BY QueueType
  <1>2. \A i : Coming(q, i) \/ e = Handler("accept", i) => Coming(Append(q, e), i)
    BY PushOrder
  <1> QED  BY <1>1, <1>2 DEF Chain

LEMMA ThreadChain ==
    ASSUME TypeOK, OneController, Orderly, Chain, NEW t \in Threads,
           ThreadEnter(t) \/ ThreadStep(t)
    PROVE  Orderly' /\ Chain'
  <1>1. /\ \A u \in Threads : u = t
        /\ ~Strand /\ pc \in [Threads -> {"idle", "start", "stop", "restart", "wait", "again",
                                           "disconnectAll", "multicast", "sending"}]
    BY DEF OneController, TypeOK
  <1>2. ASSUME UNCHANGED <<started, late, accept, session, queue>>,
               pc'[t] \in {"stop", "restart"} => started,
               pc'[t] = "start" => ~started
        PROVE  Orderly' /\ Chain'
    <2>1. Chain'  BY <1>2 DEF Chain
    <2>2. \A u \in Threads : (pc'[u] \in {"stop", "restart"} => started)
                              /\ (pc'[u] = "start" => ~started)
      BY <1>1, <1>2
    <2>3. Orderly'  BY <1>2, <2>2 DEF Orderly
    <2> QED  BY <2>1, <2>3
  <1>3. CASE ThreadEnter(t)
    <2>1. PICK at, test : Call(t, at, test)
      BY <1>3 DEF ThreadEnter, Start, Stop, Restart, DisconnectAll, Multicast
    <2>2. UNCHANGED <<started, late, accept, session, queue>>  BY <2>1 DEF Call, lane
    <2>3. /\ pc'[t] \in {"stop", "restart"} => started
          /\ pc'[t] = "start" => ~started
      BY <1>1, <1>3 DEF ThreadEnter, Start, Stop, Restart, DisconnectAll, Multicast, Call
    <2> QED  BY <1>2, <2>2, <2>3
  <1>4. CASE PostHandler(t)
    <2> DEFINE op == IF pc[t] = "restart" THEN "stop" ELSE pc[t]
    <2>1. op \in {"start", "stop", "disconnectAll"}  BY <1>4 DEF PostHandler
    <2>2. PICK e \in HandlerRec : e = Handler(op, NoSession) /\ e.op = op
      <3>1. op \in {"start", "stop", "disconnectAll", "accept", "unregister"}  BY <2>1
      <3>2. NoSession \in Sessions \cup {NoSession}  OBVIOUS
      <3> HIDE DEF op
      <3>3. Handler(op, NoSession) \in HandlerRec /\ Handler(op, NoSession).op = op
        BY <3>1, <3>2, HandlerType
      <3> QED  BY <3>3
    <2>3. /\ queue' = Append(queue, e) /\ late = {} /\ pc'[t] \in {"wait", "idle"}
          /\ UNCHANGED <<started, late, accept, session>>
      BY <1>1, <1>4, <2>2 DEF PostHandler, MayPost, lane
    <2>4. Chain'  BY <2>3, ChainPushes
    <2>5. PICK q \in Seq(HandlerRec) : q = queue  BY QueueType
    <2>6. PICK r : r = Append(q, e)  OBVIOUS
    <2>7. op = "stop" => pc[t] \in {"stop", "restart"}  BY <1>4 DEF PostHandler
    <2>8. op = "start" => pc[t] = "start"  BY <2>1
    <2> HIDE DEF op
    <2>9. started => Never(r, "stop", "start")
      BY <2>2, <2>5, <2>6, <2>8, PushOrder DEF Orderly
    <2>10. ~started => Never(r, "start", "stop")
      BY <2>2, <2>5, <2>6, <2>7, PushOrder DEF Orderly
    <2>11. ~started => Never(r, "start", "accept")
      BY <2>1, <2>2, <2>5, <2>6, PushOrder DEF Orderly
    <2>12. \A u \in Threads : pc'[u] \in {"wait", "idle"}  BY <1>1, <2>3
    <2>13. Orderly'
      BY <2>3, <2>5, <2>6, <2>9, <2>10, <2>11, <2>12 DEF Orderly
    <2> QED  BY <2>4, <2>13
  <1>5. CASE RestartWait(t)
    <2>1. UNCHANGED <<started, late, accept, session, queue>> /\ pc'[t] = "again"
      BY <1>1, <1>5 DEF RestartWait, lane
    <2> QED  BY <1>2, <2>1
  <1>6. CASE RestartStart(t)
    <2>1. /\ UNCHANGED <<started, late, accept, session, queue>>
          /\ pc'[t] = IF started THEN "idle" ELSE "start"
      BY <1>1, <1>6 DEF RestartStart, lane
    <2> QED  BY <1>2, <2>1
  <1>7. CASE MulticastLock(t)
    <2>1. UNCHANGED <<started, late, accept, session, queue>> /\ pc'[t] = "sending"
      BY <1>1, <1>7 DEF MulticastLock, lane
    <2> QED  BY <1>2, <2>1
  <1>8. CASE MulticastSend(t)
    <2>1. UNCHANGED <<started, late, accept, session, queue>> /\ pc'[t] \in {"sending", "idle"}
      BY <1>1, <1>8 DEF MulticastSend, lane
    <2> QED  BY <1>2, <2>1
  <1> QED  BY <1>3, <1>4, <1>5, <1>6, <1>7, <1>8 DEF ThreadStep

\* Accepts complete and reach the lane; sessions end.
LEMMA OutsideChain ==
    ASSUME TypeOK, KeepsAccepting, Orderly, Chain, NEW i \in Sessions,
           SessionEnds(i) \/ AcceptPerform(i) \/ AcceptFail(i) \/ Deliver(i)
    PROVE  Orderly' /\ Chain'
  <1>1. PICK q \in Seq(HandlerRec) : q = queue  BY QueueType
  <1>2. CASE SessionEnds(i)
    <2>1. UNCHANGED <<started, late, accept, session, pc>>
      BY <1>2 DEF SessionEnds, lane, threads
    <2>2. CASE queue' = queue  BY <2>1, <2>2, ChainKept
    <2>3. CASE queue' = Append(queue, Handler("unregister", i))
      <3>1. PICK e \in HandlerRec : e = Handler("unregister", i) /\ e.op = "unregister"
        <4>1. Handler("unregister", i) \in HandlerRec /\ Handler("unregister", i).op = "unregister"
          BY HandlerType
        <4> QED  BY <4>1
      <3>2. Chain'  BY <2>1, <2>3, <3>1, ChainPushes
      <3>3. /\ \A op \in {"start", "stop"} : Has(Append(q, e), op) <=> Has(q, op)
            /\ \A a : \A b \in {"start", "stop", "accept"} :
                  Never(q, a, b) => Never(Append(q, e), a, b)
        BY <3>1, PushOrder
      <3>4. queue' = Append(q, e)  BY <1>1, <2>3, <3>1
      <3>5. Orderly'  BY <1>1, <2>1, <3>3, <3>4 DEF Orderly
      <3> QED  BY <3>2, <3>5
    <2> QED  BY <1>2, <2>2, <2>3 DEF SessionEnds
  <1>3. CASE AcceptPerform(i) \/ AcceptFail(i)
    <2>1. /\ UNCHANGED <<started, session, queue, pc>> /\ accept[i] = "pending"
          /\ late' = late \cup {i}
          /\ accept' = [accept EXCEPT ![i] = "ok"] \/ accept' = [accept EXCEPT ![i] = "error"]
      BY <1>3 DEF AcceptPerform, AcceptFail, threads
    <2>2. started  BY <2>1 DEF KeepsAccepting
    <2>3. Orderly'  BY <2>1, <2>2 DEF Orderly
    <2>4. \A j \in Sessions : /\ accept'[j] # "none" => accept[j] # "none"
                              /\ j # i => accept'[j] = accept[j]
      BY <2>1 DEF TypeOK
    <2>5. Chain'  BY <2>1, <2>4 DEF Chain
    <2> QED  BY <2>3, <2>5
  <1>4. CASE Deliver(i)
    <2>1. PICK e \in HandlerRec : e = Handler("accept", i) /\ e.op = "accept"
      <3>1. Handler("accept", i) \in HandlerRec /\ Handler("accept", i).op = "accept"
        BY HandlerType
      <3> QED  BY <3>1
    <2>2. /\ UNCHANGED <<started, accept, session, pc>> /\ late' = late \ {i} /\ i \in late
          /\ queue' = Append(queue, e)
      BY <1>4, <2>1 DEF Deliver, threads
    <2>3. Chain'  BY <2>1, <2>2, ChainPushes
    <2>4. \A op \in {"start", "stop"} : Has(Append(q, e), op) <=> Has(q, op)
      BY <2>1, PushOrder
    <2>5. /\ Never(q, "stop", "start") => Never(Append(q, e), "stop", "start")
          /\ Never(q, "start", "stop") => Never(Append(q, e), "start", "stop")
          /\ Never(q, "start", "accept") /\ ~Has(q, "start")
                => Never(Append(q, e), "start", "accept")
      BY <2>1, PushOrder
    <2>6. Orderly'  BY <1>1, <2>2, <2>4, <2>5 DEF Orderly
    <2> QED  BY <2>3, <2>6
  <1> QED  BY <1>2, <1>3, <1>4

LEMMA ChainStep == ChainInv /\ [Next]_vars => ChainInv'
  <1> SUFFICES ASSUME ChainInv, [Next]_vars PROVE ChainInv'  OBVIOUS
  <1>1. TypeOK /\ KeepsAccepting /\ TypeOK' /\ KeepsAccepting'
    BY TypeStep, AcceptingStep DEF ChainInv
  <1>2. ASSUME OneController PROVE Orderly' /\ Chain'
    <2>1. Orderly /\ Chain  BY <1>2 DEF ChainInv
    <2>2. CASE UNCHANGED vars
      BY <2>1, <2>2, ChainKept DEF vars, lane, threads
    <2>3. CASE Arrive
      BY <2>1, <2>3, ChainKept DEF Arrive, lane, threads
    <2>4. CASE Crash
      BY <2>1, <2>4, ChainKept DEF Crash, lane, threads
    <2>5. ASSUME NEW t \in Threads, ThreadEnter(t) \/ ThreadStep(t) PROVE Orderly' /\ Chain'
      BY <1>1, <1>2, <2>1, <2>5, ThreadChain
    <2>6. ASSUME NEW i \in Sessions,
                 SessionStep(i) \/ AcceptPerform(i) \/ AcceptFail(i) \/ Deliver(i)
          PROVE  Orderly' /\ Chain'
      BY <1>1, <2>1, <2>4, <2>6, OutsideChain DEF SessionStep, SessionRace
    <2>7. CASE LaneStep
      <3>1. CASE StartHandler  BY <1>1, <1>2, <2>1, <3>1, StartChain
      <3>2. CASE StartThrows \/ UnregisterRace
        BY <1>2, <2>4, <3>2 DEF StartThrows, UnregisterRace, OneController
      <3>3. CASE StopHandler  BY <1>1, <2>1, <3>3, StopChain
      <3>4. CASE DisconnectAllHandler \/ UnregisterHandler
        <4>1. /\ queue # << >> /\ queue' = Tail(queue) /\ Head(queue).op # "accept"
              /\ UNCHANGED <<started, late, accept, session, pc>>
          BY <3>4 DEF DisconnectAllHandler, UnregisterHandler, Runs, lane, threads
        <4> QED  BY <1>1, <2>1, <4>1, OrderPops, ChainPops
      <3>5. ASSUME NEW i \in Sessions, AcceptHandler(i) PROVE Orderly' /\ Chain'
        <4>1. CASE crashed'
          <5>1. Crash
            BY <3>5, <4>1 DEF AcceptHandler, AcceptHandlerWith, Runs
          <5> QED  BY <2>4, <5>1
        <4>2. CASE ~crashed'  BY <1>1, <2>1, <3>5, <4>2, AcceptChain
        <4> QED  BY <4>1, <4>2
      <3> QED  BY <2>7, <3>1, <3>2, <3>3, <3>4, <3>5 DEF LaneStep
    <2> QED  BY <2>2, <2>3, <2>5, <2>6, <2>7 DEF Next
  <1> QED  BY <1>1, <1>2 DEF ChainInv, OneController

LEMMA ChainInit == Init => ChainInv
  <1> SUFFICES ASSUME Init PROVE ChainInv  OBVIOUS
  <1>1. TypeOK /\ KeepsAccepting  BY InitInv
  <1>2. queue = << >> /\ Len(<< >>) = 0 /\ late = {} /\ ~started  BY DEF Init
  <1>3. \A op, other : ~Has(queue, op) /\ Never(queue, op, other)  BY <1>2 DEF Has, Never
  <1>4. Orderly  BY <1>2, <1>3 DEF Orderly
  <1>5. Chain  BY <1>2 DEF Init, Chain
  <1> QED  BY <1>1, <1>4, <1>5 DEF ChainInv

LEMMA AtMostOneIn ==
    ASSUME NEW S, \A x, y \in S : x = y
    PROVE  Cardinality(S) <= 1
  <1>1. CASE S = {}  BY <1>1, FS_EmptySet
  <1>2. CASE S # {}
    <2>1. PICK x \in S : TRUE  BY <1>2
    <2>2. S = {x}  BY <2>1
    <2>3. Cardinality({x}) = 1  BY FS_Singleton
    <2> QED  BY <2>2, <2>3
  <1> QED  BY <1>1, <1>2

\* Without a strand, and with one thread in charge, a server that is stopped and
\* started any number of times never runs two accept loops, and while it is
\* started the accept fills the socket of the _session its handler registers.
THEOREM OneAcceptLoop == Spec => [](OneController => OneAccept)
  <1>1. ChainInv => (OneController => OneAccept)
    <2> SUFFICES ASSUME Chain PROVE OneAccept  BY DEF ChainInv
    <2>1. \A x, y \in {i \in Sessions : accept[i] # "none"} : x = y  BY DEF Chain
    <2>2. Cardinality({i \in Sessions : accept[i] # "none"}) <= 1  BY <2>1, AtMostOneIn
    <2> QED  BY <2>2 DEF OneAccept, Chain
  <1> QED  BY <1>1, ChainInit, ChainStep, PTL DEF Spec

=============================================================================
