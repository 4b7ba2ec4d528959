---------------------------- MODULE SessionSafety ----------------------------
(***************************************************************************)
(* What a Session never does, for every set of threads, all limits and     *)
(* sizes: the action properties of its writes, the limits of its buffers,  *)
(* the refinement of ByteStream; that buffered bytes have a wakeup on its  *)
(* way; that onDisconnect is the last callback and, on a shared lane,      *)
(* onConnect the first; and that the receive loop reads once at a time.    *)
(***************************************************************************)
EXTENDS SessionProofs, SequenceTheorems, FiniteSetTheorems

-----------------------------------------------------------------------------
(* Writes *)

\* Every action but these seven leaves the outstanding write and the send
\* buffers alone.
LEMMA SenderFrame ==
    ASSUME [Next]_vars
    PROVE  \/ UNCHANGED <<connected, sender, stream>>
           \/ \E t \in Threads : SendAppend(t)
           \/ \E n \in Sizes : LaneSend(n)
           \/ TrySend \/ WriteHandler \/ DisconnectClose \/ ClearBuffs
           \/ Connect
           \/ WriteFail \/ \E n \in 1 .. write.len : WritePerform(n)
  <1>1. ASSUME NEW t \in Threads, ThreadEnter(t) \/ ThreadStep(t), ~SendAppend(t)
        PROVE  UNCHANGED <<connected, sender, stream>>
    BY <1>1 DEF ThreadEnter, ThreadStep, SendAsync, Disconnect, ReceiveAsync, Enter,
                SendRefuse, Post, ReceiveAsyncStart, StartReceive
  <1>2. RunPosted \/ EarlyReturn \/ TryReceive \/ Received
        \/ OnDisconnect \/ Unregister \/ (\E k \in ReadOps : ReadHandler(k))
          => UNCHANGED <<connected, sender, stream>>
    BY DEF RunPosted, EarlyReturn, TryReceive, StartReceive, Received, OnDisconnect,
           Unregister, ReadHandler
  <1>3. ServerLane => Connect \/ UNCHANGED <<connected, sender, stream>>
    BY DEF ServerLane, ConnectTryReceive, ConnectStartReceive, StartReceive,
           ConnectNotify, ConnectReturn, UnregisterSession
  <1>4. (\E k \in ReadOps : ReadSome(k)) => UNCHANGED <<connected, sender, stream>>
    BY DEF ReadSome, ReadPerform, ReadFail
  <1>5. UNCHANGED vars => UNCHANGED <<connected, sender, stream>>
    BY DEF vars
  <1> QED
    BY <1>1, <1>2, <1>3, <1>4, <1>5 DEF Next, LaneStep, WriteSome

\* clearBuffs() runs on a session that is closed, so with no write pending.
LEMMA ClearOnlyClosed ==
    ASSUME SendInv, ClearBuffs
    PROVE  ~connected /\ write.st # "pending"
  <1>1. At("clearBuffs")
    BY DEF ClearBuffs
  <1>2. connected => Head(lane) \in OpenFrames
    BY <1>1 DEF SendInv, At
  <1>3. ~connected
    BY <1>1, <1>2 DEF At, OpenFrames, Callbacks
  <1> QED
    BY <1>3 DEF SendInv, WriteInv

\* trySend() starts a write only when no other one is unfinished.
LEMMA TrySendAlone ==
    ASSUME SendInv, TrySend
    PROVE  write.st = "none"
  BY DEF TrySend, MaySend, SendInv, BufferInv

\* A write is started, performed or cancelled, and completed, in this order.
LEMMA WriteCycle ==
    ASSUME TypeOK, SendInv, [Next]_vars, write' # write
    PROVE  \/ write.st = "none" /\ write'.st = "pending"
           \/ write.st = "pending" /\ write'.st = "done"
           \/ write.st = "done" /\ write'.st = "none"
  <1>0. write \in WriteOp
    BY DEF TypeOK
  <1>1. CASE TrySend
    <2>1. write' = [NoWrite EXCEPT !.st = "pending", !.from = send_flush_offset',
                                   !.len = Len(send_buff_flush') - send_flush_offset']
      BY <1>1 DEF TrySend, AsyncWriteSome
    <2>2. write'.st = "pending"
      BY <2>1 DEF NoWrite
    <2> QED
      BY <1>1, <2>2, TrySendAlone
  <1>2. CASE WriteHandler
    BY <1>2 DEF WriteHandler, NoWrite
  <1>3. CASE DisconnectClose \/ WriteFail
    BY <1>0, <1>3 DEF DisconnectClose, WriteFail, Cancel, WriteOp
  <1>4. ASSUME NEW n \in 1 .. write.len, WritePerform(n)
        PROVE  write.st = "pending" /\ write'.st = "done"
    BY <1>0, <1>4 DEF WritePerform, WriteOp
  <1>5. UNCHANGED sender => UNCHANGED write
    BY DEF sender
  <1>6. \A t \in Threads : SendAppend(t) => UNCHANGED write
    BY DEF SendAppend
  <1>7. (\E n \in Sizes : LaneSend(n)) \/ ClearBuffs \/ Connect => UNCHANGED write
    BY DEF LaneSend, ClearBuffs, Connect
  <1> QED
    BY <1>1, <1>2, <1>3, <1>4, <1>5, <1>6, <1>7, SenderFrame

\* _sending allows one write at a time: whatever threads and completions do, a
\* write is started only after the handler of the one before it has run.
THEOREM OneWriteAtATime == Spec => NoOverlappingWrites
  <1>1. TypeOK /\ SendInv /\ [Next]_vars =>
          [write' # write =>
             \/ write.st = "none" /\ write'.st = "pending"
             \/ write.st = "pending" /\ write'.st = "done"
             \/ write.st = "done" /\ write'.st = "none"]_vars
    BY WriteCycle
  <1> QED
    BY <1>1, SendInvariant, PTL DEF Spec, NoOverlappingWrites

\* What an outstanding write points into stays where it is.
LEMMA PinnedStep ==
    ASSUME TypeOK, SendInv, [Next]_vars, write.st = "pending", write'.st = "pending"
    PROVE  /\ send_buff_flush' = send_buff_flush
           /\ write.from + write.len <= Len(send_buff_flush)
  <1>1. write.from + write.len <= Len(send_buff_flush)
    <2>1. /\ write.from = send_flush_offset
          /\ write.len = Len(send_buff_flush) - send_flush_offset
      BY DEF SendInv, WriteInv
    <2> QED
      BY <2>1, Basics
  <1>2. ~TrySend /\ ~WriteHandler /\ ~ClearBuffs
    BY TrySendAlone, ClearOnlyClosed DEF WriteHandler
  <1>3. \A t \in Threads : SendAppend(t) => UNCHANGED send_buff_flush
    BY DEF SendAppend, AppendBytes, Insert, Fresh
  <1>4. \A n \in Sizes : LaneSend(n) => UNCHANGED send_buff_flush
    BY DEF LaneSend, AppendBytes, Insert, Fresh, buffers
  <1>5. DisconnectClose \/ Connect \/ WriteFail \/ UNCHANGED sender
          => UNCHANGED send_buff_flush
    BY DEF DisconnectClose, Connect, WriteFail, sender, buffers
  <1>6. \A n \in 1 .. write.len : WritePerform(n) => UNCHANGED send_buff_flush
    BY DEF WritePerform, buffers
  <1>7. send_buff_flush' = send_buff_flush
    BY <1>2, <1>3, <1>4, <1>5, <1>6, SenderFrame
  <1> QED
    BY <1>1, <1>7

\* The vector given to async_write_some is neither swapped, cleared nor resized
\* while the kernel may read it, and the write lies within it.
THEOREM WriteBufferStays == Spec => FlushPinned
  <1>1. TypeOK /\ SendInv /\ [Next]_vars =>
          [write.st = "pending" /\ write'.st = "pending"
             => /\ send_buff_flush' = send_buff_flush
                /\ write.from + write.len <= Len(send_buff_flush)]_vars
    BY PinnedStep
  <1> QED
    BY <1>1, SendInvariant, PTL DEF Spec, FlushPinned

-----------------------------------------------------------------------------
(* Limits *)

LEMMA AppendBounded ==
    ASSUME TypeOK, BuffersBounded, NEW n \in Nat, ~OverLimit(n), AppendBytes(n),
           UNCHANGED receive_buff
    PROVE  BuffersBounded'
  <1>1. Len(send_buff_main') = Len(send_buff_main) + n /\ UNCHANGED send_buff_flush
    BY AppendTypes DEF AppendBytes, Insert, Fresh
  <1>2. SendLimit > 0 => Len(send_buff_main) + n <= SendLimit
    BY Basics, LimitsAssumption DEF OverLimit
  <1> QED
    BY <1>1, <1>2 DEF BuffersBounded

LEMMA SwapBounded ==
    ASSUME BuffersBounded, Swap, UNCHANGED receive_buff
    PROVE  BuffersBounded'
  <1>1. Len(<< >>) = 0
    OBVIOUS
  <1> QED
    BY <1>1, LimitsAssumption DEF BuffersBounded, Swap, SwapWith

LEMMA BoundedStep == TypeOK /\ BuffersBounded /\ [Next]_vars => BuffersBounded'
  <1> SUFFICES ASSUME TypeOK, BuffersBounded, [Next]_vars PROVE BuffersBounded'
    OBVIOUS
  <1>1. ASSUME NEW t \in Threads, SendAppend(t) PROVE BuffersBounded'
    <2>1. pc[t].n \in Nat
      BY DEF TypeOK
    <2> QED
      BY <1>1, <2>1, AppendBounded DEF SendAppend, receiver
  <1>2. ASSUME NEW n \in Sizes, LaneSend(n) PROVE BuffersBounded'
    <2>1. UNCHANGED receive_buff
      BY <1>2 DEF LaneSend, receiver
    <2>2. CASE UNCHANGED buffers
      BY <2>1, <2>2 DEF BuffersBounded, buffers
    <2>3. CASE ~OverLimit(n) /\ AppendBytes(n)
      BY <2>1, <2>3, AppendBounded, SizesAssumption
    <2> QED
      BY <1>2, <2>2, <2>3 DEF LaneSend
  <1>3. CASE TrySend
    BY <1>3, SwapBounded DEF TrySend, receiver
  <1>4. CASE WriteHandler
    <2>1. /\ UNCHANGED <<send_buff_main, receive_buff>>
          /\ send_buff_flush' \in {<< >>, send_buff_flush}
      BY <1>4 DEF WriteHandler, buffers, receiver
    <2>2. Len(<< >>) = 0
      OBVIOUS
    <2> QED
      BY <2>1, <2>2, LimitsAssumption DEF BuffersBounded
  <1>5. CASE ClearBuffs
    <2>1. Len(<< >>) = 0
      OBVIOUS
    <2> QED
      BY <1>5, <2>1, LimitsAssumption DEF ClearBuffs, BuffersBounded, receiver
  <1>6. CASE Connect
    BY <1>6, LimitsAssumption DEF Connect, BuffersBounded
  <1>7. CASE Received
    <2>1. UNCHANGED <<send_buff_main, send_buff_flush>>
      BY <1>7 DEF Received, sender, buffers
    <2>2. UNCHANGED receive_buff \/ (receive_buff' = size * 2 /\ ~OverReceiveLimit)
      BY <1>7 DEF Received
    <2>3. size * 2 \in Nat /\ ReceiveLimit \in Nat
      BY LimitsAssumption DEF TypeOK
    <2>4. ReceiveLimit > 0 /\ ~OverReceiveLimit => size * 2 <= ReceiveLimit
      BY <2>3 DEF OverReceiveLimit
    <2> QED
      BY <2>1, <2>2, <2>4 DEF BuffersBounded
  <1>8. ASSUME UNCHANGED <<send_buff_main, send_buff_flush, receive_buff>>
        PROVE  BuffersBounded'
    BY <1>8 DEF BuffersBounded
  <1> USE DEF sender, buffers, receiver
  <1>9. ASSUME NEW t \in Threads, ThreadEnter(t) \/ ThreadStep(t), ~SendAppend(t)
        PROVE  UNCHANGED <<send_buff_main, send_buff_flush, receive_buff>>
    BY <1>9 DEF ThreadEnter, ThreadStep, SendAsync, Disconnect, ReceiveAsync, Enter,
                SendRefuse, Post, ReceiveAsyncStart, StartReceive
  <1>10. LaneStep => \/ TrySend \/ WriteHandler \/ ClearBuffs \/ Received
                     \/ UNCHANGED <<send_buff_main, send_buff_flush, receive_buff>>
    BY DEF LaneStep, RunPosted, EarlyReturn, TryReceive, StartReceive, ReadHandler,
           DisconnectClose, OnDisconnect, Unregister
  <1>11. ServerLane => \/ Connect
                       \/ UNCHANGED <<send_buff_main, send_buff_flush, receive_buff>>
    BY DEF ServerLane, ConnectTryReceive, ConnectStartReceive, StartReceive,
           ConnectNotify, ConnectReturn, UnregisterSession
  <1>12. WriteSome \/ (\E k \in ReadOps : ReadSome(k)) \/ UNCHANGED vars
           => UNCHANGED <<send_buff_main, send_buff_flush, receive_buff>>
    BY DEF WriteSome, WriteFail, WritePerform, ReadSome, ReadPerform, ReadFail, vars
  <1> QED
    BY <1>1, <1>2, <1>3, <1>4, <1>5, <1>6, <1>7, <1>8, <1>9, <1>10, <1>11, <1>12
    DEF Next

\* However threads and callbacks race for the lock, neither send buffer exceeds
\* _send_limit, and doubling stops before _receive_limit is exceeded.
THEOREM LimitsHold == Spec => []BuffersBounded
  <1>1. Init => BuffersBounded
    <2>1. Len(<< >>) = 0
      OBVIOUS
    <2> QED
      BY <2>1, LimitsAssumption DEF Init, BuffersBounded
  <1> QED
    BY <1>1, BoundedStep, Types, PTL DEF Spec

-----------------------------------------------------------------------------
(* The session implements the abstract byte stream.  Its `phase' is read off  *)
(* conn and connected; connect() opens it, sendAsync accepts, the kernel's    *)
(* write transmits, the disconnect handler closes, and every other step is a  *)
(* stutter.                                                                   *)

\* A sequence is determined by its length and its elements.
LEMMA SameSequence ==
    ASSUME NEW s \in Seq(Nat), NEW m \in Nat, NEW n \in Nat, Len(s) = n,
           \A i \in 1 .. n : s[i] = m + i
    PROVE  s = [i \in 1 .. n |-> m + i]
  OBVIOUS

\* A write carries the bytes that follow those the socket has carried.
LEMMA CarriesNext ==
    ASSUME TypeOK, SendInv, NEW n \in 1 .. write.len, WritePerform(n)
    PROVE  /\ n \in 1 .. (accepted - Len(wire))
           /\ wire' = wire \o [i \in 1 .. n |-> Len(wire) + i]
  <1> DEFINE part == SubSeq(send_buff_flush, send_flush_offset + 1, send_flush_offset + n)
  <1>1. /\ connected /\ write.n = 0 /\ write.from = send_flush_offset
        /\ write.len = Len(send_buff_flush) - send_flush_offset
    BY DEF WritePerform, SendInv, WriteInv
  <1>2. BufferBytes /\ BufferCounts
    BY <1>1 DEF SendInv, BufferInv
  <1>3. /\ send_buff_flush \in Seq(Nat) /\ send_flush_offset \in Nat
        /\ Len(send_buff_flush) \in Nat /\ Len(send_buff_main) \in Nat
        /\ accepted \in Nat /\ Len(wire) \in Nat
    BY Basics
  <1>4. n \in Nat /\ n >= 1 /\ send_flush_offset + n <= Len(send_buff_flush)
    BY <1>1, <1>3
  <1>5. Before \in Int /\ Len(wire) = Before + send_flush_offset
    <2>1. Before \in Int
      BY <1>3 DEF Before
    <2>2. Len(wire) = Before + send_flush_offset + write.n
      BY <1>2 DEF BufferCounts
    <2> QED
      BY <1>1, <1>3, <2>1, <2>2
  <1>6. Before + Len(send_buff_flush) <= accepted
    BY <1>3 DEF Before
  <1>7. n \in 1 .. (accepted - Len(wire))
    BY <1>3, <1>4, <1>5, <1>6
  <1>8. /\ part \in Seq(Nat) /\ Len(part) = n
        /\ \A i \in 1 .. n : part[i] = send_buff_flush[send_flush_offset + i]
    BY <1>3, <1>4, SubSeqFacts
  <1>9. wire' = wire \o part
    BY <1>1 DEF WritePerform
  <1> HIDE DEF part
  <1>10. ASSUME NEW i \in 1 .. n PROVE part[i] = Len(wire) + i
    <2>1. i \in Nat /\ send_flush_offset + i \in 1 .. Len(send_buff_flush)
      BY <1>3, <1>4
    <2>2. send_buff_flush[send_flush_offset + i] = Before + (send_flush_offset + i)
      BY <1>2, <2>1 DEF BufferBytes
    <2>3. part[i] = Before + (send_flush_offset + i)
      BY <1>8, <2>2
    <2> QED
      BY <1>3, <1>5, <2>1, <2>3
  <1>11. part = [i \in 1 .. n |-> Len(wire) + i]
    BY <1>3, <1>4, <1>8, <1>10, SameSequence
  <1> QED
    BY <1>7, <1>9, <1>11

\* connect() runs once: nothing moves conn back to its start.
LEMMA ConnFrame ==
    ASSUME [Next]_vars
    PROVE  Connect \/ (conn' = "start" <=> conn = "start")
  BY DEF Next, vars, ThreadEnter, ThreadStep, LaneStep, ServerLane, WriteSome,
         ReadSome, SendAsync, Disconnect, ReceiveAsync, Enter, SendRefuse,
         SendAppend, Post, ReceiveAsyncStart, StartReceive, LaneSend, RunPosted,
         EarlyReturn, TrySend, WriteHandler, TryReceive, ReadHandler, Received,
         DisconnectClose, ClearBuffs, OnDisconnect, Unregister,
         ConnectTryReceive, ConnectStartReceive, ConnectNotify, ConnectReturn,
         UnregisterSession, WritePerform, WriteFail, ReadPerform, ReadFail, server

LEMMA AppendRefines ==
    ASSUME TypeOK, SendInv, NEW n \in Nat, AppendBytes(n), conn # "start",
           UNCHANGED connected, conn' # "start"
    PROVE  Stream!Next \/ UNCHANGED Stream!vars
  <1>1. phase' = phase /\ phase # "new"
    BY DEF phase
  <1>2. accepted' = accepted + n /\ wire' = wire /\ accepted \in Nat
    BY DEF AppendBytes, Insert, Fresh, TypeOK
  <1>3. CASE n = 0
    BY <1>1, <1>2, <1>3 DEF Stream!vars
  <1>4. CASE n > 0
    BY <1>1, <1>2, <1>4 DEF Stream!Next, Stream!Accept
  <1> QED
    BY <1>3, <1>4

LEMMA StepRefines ==
    ASSUME TypeOK, SendInv, [Next]_vars
    PROVE  Stream!Next \/ UNCHANGED Stream!vars
  <1>1. CASE Connect
    <2>1. conn = "start" /\ conn' = "tryReceive" /\ connected' /\ UNCHANGED stream
      BY <1>1 DEF Connect
    <2>2. phase = "new" /\ phase' = "open"
      BY <2>1 DEF phase
    <2> QED
      BY <2>1, <2>2 DEF Stream!Next, Stream!Open, stream
  <1> SUFFICES ASSUME ~Connect PROVE Stream!Next \/ UNCHANGED Stream!vars
    BY <1>1
  <1>2. conn' = "start" <=> conn = "start"
    BY ConnFrame
  <1>3. connected => conn # "start"
    BY DEF SendInv, FreshInv
  <1>4. ASSUME NEW t \in Threads, SendAppend(t)
        PROVE  Stream!Next \/ UNCHANGED Stream!vars
    <2>1. pc[t].n \in Nat
      BY DEF TypeOK
    <2>2. conn # "start"
      BY <1>4 DEF SendAppend, SendInv, FreshInv, Idle
    <2> QED
      BY <1>2, <1>4, <2>1, <2>2, AppendRefines DEF SendAppend
  <1>5. ASSUME NEW n \in Sizes, LaneSend(n)
        PROVE  Stream!Next \/ UNCHANGED Stream!vars
    <2>1. connected /\ UNCHANGED connected
      BY <1>5 DEF LaneSend
    <2>2. CASE AppendBytes(n)
      BY <1>2, <1>3, <2>1, <2>2, SizesAssumption, AppendRefines
    <2>3. CASE UNCHANGED stream
      BY <1>2, <2>1, <2>3 DEF phase, stream, Stream!vars
    <2> QED
      BY <1>5, <2>2, <2>3 DEF LaneSend
  <1>6. CASE DisconnectClose
    <2>1. connected /\ ~connected' /\ UNCHANGED stream
      BY <1>6 DEF DisconnectClose, MayDisconnect
    <2>2. phase = "open" /\ phase' = "closed"
      BY <1>2, <1>3, <2>1 DEF phase
    <2> QED
      BY <2>1, <2>2 DEF Stream!Next, Stream!Close, stream
  <1>7. ASSUME NEW n \in 1 .. write.len, WritePerform(n)
        PROVE  Stream!Next \/ UNCHANGED Stream!vars
    <2>1. connected /\ UNCHANGED <<connected, accepted>>
      BY <1>7 DEF WritePerform, SendInv, WriteInv
    <2>2. phase = "open" /\ phase' = phase
      BY <1>2, <1>3, <2>1 DEF phase
    <2>3. /\ n \in 1 .. (accepted - Len(wire))
          /\ wire' = wire \o [i \in 1 .. n |-> Len(wire) + i]
      BY <1>7, CarriesNext
    <2> QED
      BY <2>1, <2>2, <2>3 DEF Stream!Next, Stream!Transmit
  <1>8. ASSUME UNCHANGED <<connected, stream>>
        PROVE  UNCHANGED Stream!vars
    BY <1>2, <1>8 DEF phase, stream, Stream!vars
  <1>9. TrySend \/ WriteHandler \/ ClearBuffs \/ WriteFail
          => UNCHANGED <<connected, stream>>
    BY DEF TrySend, WriteHandler, ClearBuffs, WriteFail
  <1> QED
    BY <1>4, <1>5, <1>6, <1>7, <1>8, <1>9, SenderFrame

\* The double-buffered send path with its partial writes, swaps, callbacks and
\* late completions implements the abstract byte stream: what the socket carries
\* is at every moment what a stream with no buffers at all could have carried.
THEOREM Refinement == Spec => StreamSpec
  <1>1. Init => Stream!Init
    BY DEF Init, Stream!Init, phase
  <1>2. TypeOK /\ SendInv /\ [Next]_vars => [Stream!Next]_(Stream!vars)
    BY StepRefines
  <1> QED
    BY <1>1, <1>2, SendInvariant, PTL DEF Spec, StreamSpec, Stream!Spec

-----------------------------------------------------------------------------
(* Nothing is left in the buffers with nobody to send it. *)

LEMMA AppendElements ==
    ASSUME NEW S, NEW s \in Seq(S), NEW x \in S
    PROVE  Elements(Append(s, x)) = Elements(s) \cup {x}
  <1> DEFINE t == Append(s, x)
  <1>1. /\ t \in Seq(S) /\ Len(t) = Len(s) + 1 /\ Len(s) \in Nat
        /\ t[Len(s) + 1] = x /\ \A i \in 1 .. Len(s) : t[i] = s[i]
    OBVIOUS
  <1> HIDE DEF t
  <1>2. /\ DOMAIN t = 1 .. Len(s) + 1 /\ DOMAIN s = 1 .. Len(s)
        /\ Len(s) + 1 \in 1 .. Len(s) + 1
        /\ \A i \in 1 .. Len(s) : i \in 1 .. Len(s) + 1
        /\ \A i \in 1 .. Len(s) + 1 : i \in 1 .. Len(s) \/ i = Len(s) + 1
    BY <1>1
  <1>3. \A i \in DOMAIN t : t[i] \in Elements(s) \cup {x}
    BY <1>1, <1>2 DEF Elements
  <1>4. \A i \in DOMAIN s : s[i] \in Elements(t)
    BY <1>1, <1>2 DEF Elements
  <1>5. x \in Elements(t)
    BY <1>1, <1>2 DEF Elements
  <1> QED
    BY <1>3, <1>4, <1>5 DEF Elements, t

LEMMA ElementsFacts ==
    ASSUME NEW S, NEW s \in Seq(S), NEW x \in S
    PROVE  /\ Elements(Append(s, x)) = Elements(s) \cup {x}
           /\ Elements(<<x>> \o s) = {x} \cup Elements(s)
           /\ Elements(<<x>>) = {x}
           /\ s # << >> => Elements(s) = {Head(s)} \cup Elements(Tail(s))
  <1>1. Elements(Append(s, x)) = Elements(s) \cup {x}
    BY AppendElements
  <1>2. Elements(<<x>>) = {x}
    BY DEF Elements
  <1>3. Elements(<<x>> \o s) = {x} \cup Elements(s)
    <2> DEFINE t == <<x>> \o s
    <2>1. /\ t \in Seq(S) /\ Len(t) = Len(s) + 1 /\ Len(s) \in Nat
          /\ t[1] = x /\ \A i \in 1 .. Len(s) : t[i + 1] = s[i]
      OBVIOUS
    <2> HIDE DEF t
    <2>2. \A i \in 1 .. Len(t) : i = 1 \/ (i - 1 \in 1 .. Len(s) /\ t[i] = s[i - 1])
      <3> SUFFICES ASSUME NEW i \in 1 .. Len(t), i # 1
                   PROVE  i - 1 \in 1 .. Len(s) /\ t[i] = s[i - 1]
        OBVIOUS
      <3>1. i - 1 \in 1 .. Len(s) /\ (i - 1) + 1 = i
        BY <2>1
      <3> QED
        BY <2>1, <3>1
    <2>3. \A i \in 1 .. Len(s) : i + 1 \in 1 .. Len(t)
      BY <2>1
    <2>4. 1 \in 1 .. Len(t) /\ DOMAIN t = 1 .. Len(t) /\ DOMAIN s = 1 .. Len(s)
      BY <2>1
    <2>5. \A i \in DOMAIN t : t[i] \in {x} \cup Elements(s)
      BY <2>1, <2>2, <2>4 DEF Elements
    <2>6. \A i \in DOMAIN s : s[i] \in Elements(t)
      BY <2>1, <2>3, <2>4 DEF Elements
    <2>7. x \in Elements(t)
      BY <2>1, <2>4 DEF Elements
    <2> QED
      BY <2>5, <2>6, <2>7 DEF Elements, t
  <1>4. ASSUME s # << >> PROVE Elements(s) = {Head(s)} \cup Elements(Tail(s))
    <2> DEFINE t == Tail(s)
    <2>1. /\ t \in Seq(S) /\ Len(t) = Len(s) - 1 /\ Len(s) \in Nat /\ Len(s) > 0
          /\ Head(s) = s[1] /\ \A i \in 1 .. Len(t) : t[i] = s[i + 1]
      BY <1>4
    <2> HIDE DEF t
    <2>2. \A i \in 1 .. Len(s) : i = 1 \/ (i - 1 \in 1 .. Len(t) /\ s[i] = t[i - 1])
      <3> SUFFICES ASSUME NEW i \in 1 .. Len(s), i # 1
                   PROVE  i - 1 \in 1 .. Len(t) /\ s[i] = t[i - 1]
        OBVIOUS
      <3>1. i - 1 \in 1 .. Len(t) /\ (i - 1) + 1 = i
        BY <2>1
      <3> QED
        BY <2>1, <3>1
    <2>3. \A i \in 1 .. Len(t) : i + 1 \in 1 .. Len(s)
      BY <2>1
    <2>4. 1 \in 1 .. Len(s) /\ DOMAIN t = 1 .. Len(t) /\ DOMAIN s = 1 .. Len(s)
      BY <2>1
    <2>5. \A i \in DOMAIN s : s[i] \in {Head(s)} \cup Elements(t)
      BY <2>1, <2>2, <2>4 DEF Elements
    <2>6. \A i \in DOMAIN t : t[i] \in Elements(s)
      BY <2>1, <2>3, <2>4 DEF Elements
    <2>7. Head(s) \in Elements(s)
      BY <2>1, <2>4 DEF Elements
    <2> QED
      BY <2>5, <2>6, <2>7 DEF Elements, t
  <1> QED
    BY <1>1, <1>2, <1>3, <1>4

\* What promises that buffered bytes are sent, or dropped with the session.
Handlers == Elements(queue) \cup Elements(lane)
Wakeup ==
    \/ write.st # "none"
    \/ "trySend" \in Handlers \/ "disconnect" \in Handlers
    \/ \E t \in Threads : pc[t].at = "trySend"
Buffered == send_buff_main # << >> \/ send_buff_flush # << >>

LEMMA WakeupIs == NoLostWakeup <=> (connected /\ Buffered => Wakeup)
  BY DEF NoLostWakeup, Wakeup, Handlers, Buffered

\* A step that keeps the write, the threads and the handlers keeps the promise.
LEMMA WakeupKept ==
    ASSUME Wakeup, UNCHANGED write,
           \A t \in Threads : pc[t].at = "trySend" =>
               pc'[t].at = "trySend" \/ "trySend" \in Handlers',
           {"trySend", "disconnect"} \cap Handlers \subseteq Handlers'
    PROVE  Wakeup'
  BY DEF Wakeup

\* An entry of the queue moves to the lane, or a thread's entry to the queue; the
\* lane loses its top frame only when that frame has done what it promises.
LEMMA HandlersMove ==
    ASSUME TypeOK
    PROVE  /\ RunPosted => Handlers' = Handlers
           /\ \A t \in Threads : Post(t) => Handlers' = Handlers \cup {pc[t].at}
           /\ lane # << >> /\ UNCHANGED queue /\ Return
                => Handlers \subseteq {Head(lane)} \cup Handlers'
           /\ UNCHANGED queue /\ lane' = <<"trySend">> \o lane
                => Handlers' = Handlers \cup {"trySend"}
           /\ UNCHANGED queue /\ lane' = <<"disconnect">> => "disconnect" \in Handlers'
  <1>0. lane \in Seq(Frames) /\ queue \in Seq({"trySend", "disconnect"})
    BY DEF TypeOK
  <1>1. ASSUME RunPosted PROVE Handlers' = Handlers
    <2>1. /\ lane = << >> /\ queue # << >> /\ lane' = <<Head(queue)>>
          /\ queue' = Tail(queue)
      BY <1>1 DEF RunPosted, LaneFree
    <2>2. Head(queue) \in {"trySend", "disconnect"}
      BY <1>0, <2>1
    <2>3. Elements(queue) = {Head(queue)} \cup Elements(queue')
      BY <1>0, <2>1, <2>2, ElementsFacts
    <2>4. Elements(lane') = {Head(queue)}
      BY <1>0, <2>1, <2>2, ElementsFacts
    <2>5. Elements(lane) = {}
      BY <2>1 DEF Elements
    <2> QED
      BY <2>3, <2>4, <2>5 DEF Handlers, Elements
  <1>2. ASSUME NEW t \in Threads, Post(t) PROVE Handlers' = Handlers \cup {pc[t].at}
    <2>1. /\ pc[t].at \in {"trySend", "disconnect"} /\ queue' = Append(queue, pc[t].at)
          /\ UNCHANGED lane
      BY <1>2 DEF Post
    <2>2. ASSUME NEW x \in {"trySend", "disconnect"}
          PROVE  Elements(Append(queue, x)) = Elements(queue) \cup {x}
      BY <1>0, AppendElements
    <2>3. Elements(queue') = Elements(queue) \cup {pc[t].at}
      BY <2>1, <2>2
    <2> QED
      BY <2>1, <2>3 DEF Handlers, Elements
  <1>3. ASSUME lane # << >>, UNCHANGED queue, Return
        PROVE  Handlers \subseteq {Head(lane)} \cup Handlers'
    <2>1. Head(lane) \in Frames
      BY <1>0, <1>3
    <2>2. Elements(lane) = {Head(lane)} \cup Elements(lane')
      BY <1>0, <1>3, <2>1, ElementsFacts DEF Return
    <2> QED
      BY <1>3, <2>2 DEF Handlers, Elements
  <1>4. ASSUME UNCHANGED queue, lane' = <<"trySend">> \o lane
        PROVE  Handlers' = Handlers \cup {"trySend"}
    <2>1. "trySend" \in Frames
      BY FrameTypes
    <2>2. Elements(lane') = {"trySend"} \cup Elements(lane)
      BY <1>0, <1>4, <2>1, ElementsFacts
    <2> QED
      BY <1>4, <2>2 DEF Handlers, Elements
  <1>5. ASSUME UNCHANGED queue, lane' = <<"disconnect">> PROVE "disconnect" \in Handlers'
    BY <1>5 DEF Handlers, Elements
  <1> QED
    BY <1>1, <1>2, <1>3, <1>4, <1>5

LEMMA AfterWriteWakes ==
    ASSUME NEW op
    PROVE  "trySend" \in Elements(AfterWrite(op)) \/ "disconnect" \in Elements(AfterWrite(op))
  <1>1. /\ Elements(<<"trySend">>) = {"trySend"}
        /\ Elements(<<"disconnect">>) = {"disconnect"}
        /\ Elements(<< >> \o <<"trySend">>) = {"trySend"}
        /\ Elements(<< >> \o <<"disconnect">>) = {"disconnect"}
        /\ "trySend" \in Elements(<<"onSend">> \o <<"trySend">>)
        /\ "disconnect" \in Elements(<<"onSend">> \o <<"disconnect">>)
    BY DEF Elements
  <1> QED
    BY <1>1 DEF AfterWrite

\* sendAsync appends: either it kicks the sender itself, or both buffers had data
\* and somebody had already promised to send it.
LEMMA AppendWakes ==
    ASSUME NoLostWakeup, connected, NEW n \in Nat, AppendBytes(n), ~MultipleSends
    PROVE  Wakeup
  BY WakeupIs DEF MultipleSends, Buffered

LEMMA WakeupStep == TypeOK /\ SendInv /\ NoLostWakeup /\ [Next]_vars => NoLostWakeup'
  <1> SUFFICES ASSUME TypeOK, SendInv, NoLostWakeup, [Next]_vars, connected', Buffered'
               PROVE  Wakeup'
    BY WakeupIs DEF NoLostWakeup, Wakeup, Handlers, Buffered
  <1>0. connected /\ Buffered => Wakeup
    BY WakeupIs
  <1>1. ASSUME connected, Buffered, UNCHANGED <<write, pc, queue, lane>> PROVE Wakeup'
    <2>1. Handlers' = Handlers
      BY <1>1 DEF Handlers, Elements
    <2> QED
      BY <1>0, <1>1, <2>1, WakeupKept
  <1>2. ASSUME NEW t \in Threads, ThreadEnter(t) PROVE Wakeup'
    <2>1. /\ connected /\ Buffered /\ UNCHANGED <<write, queue, lane>>
          /\ pc[t] = Idle /\ \A u \in Threads \ {t} : pc'[u] = pc[u]
      BY <1>2 DEF ThreadEnter, SendAsync, Disconnect, ReceiveAsync, Enter, sender, buffers,
                  lanes, Buffered, TypeOK
    <2>2. \A u \in Threads : pc[u].at = "trySend" => pc'[u].at = "trySend"
      BY <2>1 DEF Idle
    <2>3. Handlers' = Handlers
      BY <2>1 DEF Handlers, Elements
    <2> QED
      BY <1>0, <2>1, <2>2, <2>3, WakeupKept
  <1>3. ASSUME NEW t \in Threads, SendRefuse(t) \/ ReceiveAsyncStart(t) PROVE Wakeup'
    <2>1. /\ connected /\ Buffered /\ UNCHANGED <<write, queue, lane>>
          /\ pc[t].at # "trySend" /\ \A u \in Threads \ {t} : pc'[u] = pc[u]
      BY <1>3 DEF SendRefuse, ReceiveAsyncStart, StartReceive, sender, buffers, lanes,
                  Buffered, TypeOK
    <2>2. \A u \in Threads : pc[u].at = "trySend" => pc'[u].at = "trySend"
      BY <2>1
    <2>3. Handlers' = Handlers
      BY <2>1 DEF Handlers, Elements
    <2> QED
      BY <1>0, <2>1, <2>2, <2>3, WakeupKept
  <1>4. ASSUME NEW t \in Threads, SendAppend(t) PROVE Wakeup'
    <2>1. /\ connected /\ UNCHANGED <<write, queue, lane>> /\ AppendBytes(pc[t].n)
          /\ pc[t].at = "append" /\ pc[t].n \in Nat
          /\ pc' = [pc EXCEPT ![t] = IF MultipleSends THEN [at |-> "trySend", n |-> 0]
                                                      ELSE Idle]
      BY <1>4 DEF SendAppend, lanes, TypeOK
    <2>2. CASE MultipleSends
      <3>1. pc'[t] = [at |-> "trySend", n |-> 0]
        BY <2>1, <2>2 DEF TypeOK
      <3> QED
        BY <3>1 DEF Wakeup
    <2>3. CASE ~MultipleSends
      <3>1. Wakeup
        BY <2>1, <2>3, AppendWakes
      <3>2. \A u \in Threads : pc[u].at = "trySend" => pc'[u].at = "trySend"
        BY <2>1 DEF TypeOK
      <3>3. Handlers' = Handlers
        BY <2>1 DEF Handlers, Elements
      <3> QED
        BY <2>1, <3>1, <3>2, <3>3, WakeupKept
    <2> QED
      BY <2>2, <2>3
  <1>5. ASSUME NEW t \in Threads, Post(t) PROVE Wakeup'
    <2>1. Handlers' = Handlers \cup {pc[t].at} /\ pc[t].at \in {"trySend", "disconnect"}
      BY <1>5, HandlersMove DEF Post
    <2> QED
      BY <2>1 DEF Wakeup
  <1>6. ASSUME NEW n \in Sizes, LaneSend(n) PROVE Wakeup'
    <2>1. connected /\ UNCHANGED <<write, queue, pc>> /\ n \in Nat
      BY <1>6, SizesAssumption DEF LaneSend
    <2>2. CASE UNCHANGED <<buffers, lane, stream>>
      BY <1>1, <2>1, <2>2 DEF Buffered, buffers
    <2>3. CASE AppendBytes(n) /\ MultipleSends /\ lane' = <<"trySend">> \o lane
      BY <2>1, <2>3, HandlersMove DEF Wakeup
    <2>4. CASE AppendBytes(n) /\ ~MultipleSends /\ UNCHANGED lane
      <3>1. Wakeup
        BY <2>1, <2>4, AppendWakes
      <3>2. Handlers' = Handlers
        BY <2>1, <2>4 DEF Handlers, Elements
      <3> QED
        BY <2>1, <3>1, <3>2, WakeupKept
    <2> QED
      BY <1>6, <2>2, <2>3, <2>4 DEF LaneSend
  <1>7. CASE RunPosted
    <2>1. connected /\ Buffered /\ UNCHANGED <<write, pc>>
      BY <1>7 DEF RunPosted, sender, buffers, Buffered, app
    <2> QED
      BY <1>0, <1>7, <2>1, HandlersMove, WakeupKept
  <1>8. ASSUME connected, Buffered, UNCHANGED <<write, pc, queue>>, lane # << >>, Return,
               Head(lane) \notin {"trySend", "disconnect"}
        PROVE  Wakeup'
    <2>1. Handlers \subseteq {Head(lane)} \cup Handlers'
      BY <1>8, HandlersMove
    <2>2. {"trySend", "disconnect"} \cap Handlers \subseteq Handlers'
      BY <1>8, <2>1
    <2> QED
      BY <1>0, <1>8, <2>2, WakeupKept
  <1>9. CASE EarlyReturn
    <2>1. /\ connected /\ Buffered /\ UNCHANGED <<write, pc, queue>> /\ lane # << >>
          /\ Return
      BY <1>9 DEF EarlyReturn, At, InCallback, sender, buffers, Buffered, app
    <2>2. CASE At("trySend") /\ ~MaySend
      <3>1. sending
        BY <2>1, <2>2 DEF MaySend, TypeOK
      <3>2. write.st # "none"
        BY <2>1, <3>1 DEF SendInv, BufferInv
      <3> QED
        BY <2>1, <3>2 DEF Wakeup
    <2>3. CASE InCallback \/ At("tryReceive")
      <3>1. Head(lane) \notin {"trySend", "disconnect"}
        BY <2>3 DEF InCallback, At, Callbacks
      <3> QED
        BY <1>8, <2>1, <3>1
    <2> QED
      BY <1>9, <2>1, <2>2, <2>3 DEF EarlyReturn, MayDisconnect
  <1>10. CASE TryReceive
    <2>1. /\ connected /\ Buffered /\ UNCHANGED <<write, pc, queue>> /\ lane # << >>
          /\ Return /\ Head(lane) = "tryReceive"
      BY <1>10 DEF TryReceive, StartReceive, At, sender, buffers, Buffered
    <2> QED
      BY <1>8, <2>1
  <1>11. CASE Received
    <2>1. /\ connected /\ Buffered /\ UNCHANGED <<write, pc, queue>> /\ lane # << >>
          /\ Head(lane) = "received" /\ (Return \/ lane' = <<"disconnect">>)
      BY <1>11 DEF Received, At, sender, buffers, Buffered, app
    <2>2. CASE lane' = <<"disconnect">>
      BY <2>1, <2>2, HandlersMove DEF Wakeup
    <2> QED
      BY <1>8, <2>1, <2>2
  <1>12. CASE TrySend
    <2>1. CASE send_buff_flush' = << >>
      <3>1. send_buff_flush = << >> /\ send_buff_main' = << >>
        BY <1>12, <2>1 DEF TrySend, Swap, SwapWith
      <3> QED
        BY <2>1, <3>1 DEF Buffered
    <2>2. CASE send_buff_flush' # << >>
      <3>1. write' = [NoWrite EXCEPT !.st = "pending", !.from = send_flush_offset',
                                     !.len = Len(send_buff_flush') - send_flush_offset']
        BY <1>12, <2>2 DEF TrySend, AsyncWriteSome
      <3>2. write'.st = "pending"
        BY <3>1 DEF NoWrite
      <3> QED
        BY <3>2 DEF Wakeup
    <2> QED
      BY <2>1, <2>2
  <1>13. CASE WriteHandler
    <2>1. connected /\ lane' = AfterWrite(write)
      BY <1>13 DEF WriteHandler
    <2> QED
      BY <2>1, AfterWriteWakes DEF Wakeup, Handlers, Elements
  <1>14. ASSUME NEW k \in ReadOps, ReadHandler(k) PROVE Wakeup'
    <2>1. /\ connected /\ Buffered /\ UNCHANGED <<write, pc, queue>> /\ lane = << >>
      BY <1>14 DEF ReadHandler, LaneFree, sender, buffers, Buffered, app
    <2>2. Handlers \subseteq Handlers'
      BY <2>1 DEF Handlers, Elements
    <2> QED
      BY <1>0, <2>1, <2>2, WakeupKept
  <1>15. ~DisconnectClose /\ ~ClearBuffs /\ ~OnDisconnect /\ ~Unregister
    <2>1. ~DisconnectClose
      BY DEF DisconnectClose
    <2>2. ASSUME connected, lane # << >> PROVE Head(lane) \in OpenFrames
      BY <2>2 DEF SendInv
    <2>3. ClearBuffs \/ OnDisconnect \/ Unregister => connected /\ lane # << >>
      BY DEF ClearBuffs, OnDisconnect, Unregister, At
    <2>4. /\ "clearBuffs" \notin OpenFrames /\ "onDisconnect" \notin OpenFrames
          /\ "unregister" \notin OpenFrames
      BY DEF OpenFrames, Callbacks
    <2> QED
      BY <2>1, <2>2, <2>3, <2>4 DEF ClearBuffs, OnDisconnect, Unregister, At
  <1>16. CASE Connect
    BY <1>16 DEF Connect, SendInv, FreshInv, Buffered
  <1>17. (ServerLane /\ ~Connect) \/ UNCHANGED vars
           => connected /\ Buffered /\ UNCHANGED <<write, pc, queue, lane>>
    BY DEF ServerLane, ConnectTryReceive, ConnectStartReceive, StartReceive,
           ConnectNotify, ConnectReturn, UnregisterSession, sender, buffers, lanes,
           app, Buffered, vars
  <1>18. CASE WriteSome
    <2>1. write \in WriteOp
      BY DEF TypeOK
    <2>2. CASE WriteFail
      BY <2>1, <2>2 DEF WriteFail, Cancel, WriteOp, Wakeup
    <2>3. ASSUME NEW n \in 1 .. write.len, WritePerform(n) PROVE Wakeup'
      BY <2>1, <2>3 DEF WritePerform, WriteOp, Wakeup
    <2> QED
      BY <1>18, <2>2, <2>3 DEF WriteSome
  <1>19. (\E k \in ReadOps : ReadSome(k))
           => connected /\ Buffered /\ UNCHANGED <<write, pc, queue, lane>>
    BY DEF ReadSome, ReadPerform, ReadFail, sender, buffers, lanes, app, Buffered
  <1> QED
    BY <1>1, <1>2, <1>3, <1>4, <1>5, <1>6, <1>7, <1>9, <1>10, <1>11, <1>12, <1>13,
       <1>14, <1>15, <1>16, <1>17, <1>18, <1>19
    DEF Next, ThreadStep, LaneStep

\* Buffered bytes are never forgotten: sendAsync skips trySend when both buffers
\* hold data, and then the write that fills the flush buffer, or the trySend that
\* will start one, is still to come.
THEOREM NoForgottenBytes == Spec => []NoLostWakeup
  <1>1. Init => NoLostWakeup
    BY DEF Init, NoLostWakeup
  <1> QED
    BY <1>1, WakeupStep, SendInvariant, PTL DEF Spec

-----------------------------------------------------------------------------
(* The end of a session. *)

\* In the call stack of the lane, f can only be the last call.
OnlyLast(f) == \A i \in 1 .. Len(lane) : lane[i] = f => i = Len(lane)

NoBye == \A i \in DOMAIN told : told[i] # "onDisconnect"
OneBye == \E i \in DOMAIN told : \A j \in DOMAIN told : told[j] = "onDisconnect" <=> j = i

\* The stages of disconnect(): as long as the session is connected nothing of it
\* has happened; then the lane runs clearBuffs, the callbacks and unregister, with
\* nothing else on its stack; afterwards it only runs handlers that return at once.
ClosedStage ==
    \/ lane \in {<<"clearBuffs">>, <<"onDisconnect">>} /\ NoBye /\ unregister = "none"
    \/ lane = <<"unregister">> /\ OneBye /\ unregister = "none"
    \/ lane \in {<< >>, <<"trySend">>, <<"disconnect">>} /\ OneBye /\ unregister # "none"

CloseInv ==
    /\ OnlyLast("disconnect")
    /\ connected \/ conn = "start" => NoBye /\ unregister = "none"
    /\ ~connected /\ conn # "start" => ClosedStage

LEMMA EndFacts ==
    ASSUME NEW S, NEW s \in Seq(S), NEW f, NEW g \in S, g # f,
           \A i \in 1 .. Len(s) : s[i] = f => i = Len(s)
    PROVE  /\ s # << >> => \A i \in 1 .. Len(Tail(s)) : Tail(s)[i] = f => i = Len(Tail(s))
           /\ \A i \in 1 .. Len(<<g>> \o s) : (<<g>> \o s)[i] = f => i = Len(<<g>> \o s)
           /\ s # << >> /\ Head(s) = f => Len(s) = 1 /\ Tail(s) = << >>
  <1>0. Len(s) \in Nat
    OBVIOUS
  <1>1. ASSUME s # << >>
        PROVE  \A i \in 1 .. Len(Tail(s)) : Tail(s)[i] = f => i = Len(Tail(s))
    <2> SUFFICES ASSUME NEW i \in 1 .. Len(Tail(s)), Tail(s)[i] = f
                 PROVE  i = Len(Tail(s))
      OBVIOUS
    <2>1. Len(Tail(s)) = Len(s) - 1 /\ Tail(s)[i] = s[i + 1]
      BY <1>1
    <2>2. i + 1 \in 1 .. Len(s)
      BY <1>0, <2>1
    <2> QED
      BY <1>0, <2>1, <2>2
  <1>2. \A i \in 1 .. Len(<<g>> \o s) : (<<g>> \o s)[i] = f => i = Len(<<g>> \o s)
    <2> DEFINE t == <<g>> \o s
    <2>1. Len(t) = Len(s) + 1 /\ t[1] = g /\ \A i \in 1 .. Len(s) : t[i + 1] = s[i]
      OBVIOUS
    <2> SUFFICES ASSUME NEW i \in 1 .. Len(t), t[i] = f PROVE i = Len(t)
      OBVIOUS
    <2> HIDE DEF t
    <2>2. i # 1
      BY <2>1
    <2>3. i - 1 \in 1 .. Len(s) /\ (i - 1) + 1 = i
      BY <1>0, <2>1, <2>2
    <2>4. s[i - 1] = f
      BY <2>1, <2>3
    <2> QED
      BY <1>0, <2>1, <2>3, <2>4
  <1>3. ASSUME s # << >>, Head(s) = f PROVE Len(s) = 1 /\ Tail(s) = << >>
    <2>1. 1 \in 1 .. Len(s) /\ s[1] = f
      BY <1>0, <1>3
    <2>2. Len(s) = 1
      BY <2>1
    <2>3. Tail(s) \in Seq(S) /\ Len(Tail(s)) = 0
      BY <1>3, <2>2
    <2> QED
      BY <2>2, <2>3, EmptySeq
  <1> QED
    BY <1>1, <1>2, <1>3

LEMMA ConcatEnd ==
    ASSUME NEW S, NEW a \in Seq(S), NEW b \in Seq(S), NEW f, Len(b) = 1,
           \A i \in 1 .. Len(a) : a[i] # f
    PROVE  \A i \in 1 .. Len(a \o b) : (a \o b)[i] = f => i = Len(a \o b)
  <1>1. Len(a) \in Nat
    OBVIOUS
  <1>2. /\ Len(a \o b) = Len(a) + Len(b)
        /\ \A i \in 1 .. Len(a) + Len(b) :
              (a \o b)[i] = IF i <= Len(a) THEN a[i] ELSE b[i - Len(a)]
    BY ConcatFacts
  <1> DEFINE c == a \o b
  <1> HIDE DEF c
  <1>3. Len(c) = Len(a) + 1 /\ \A i \in 1 .. Len(a) + 1 : i <= Len(a) => c[i] = a[i]
    BY <1>1, <1>2 DEF c
  <1>4. \A i \in 1 .. Len(c) : c[i] = f => i = Len(c)
    BY <1>1, <1>3
  <1> QED
    BY <1>4 DEF c

\* What the read and write handlers still have to call ends in a disconnect, if
\* at all, and in tryReceive, if at all.
LEMMA AfterFacts ==
    ASSUME NEW op, NEW f \in {"disconnect", "tryReceive"}
    PROVE  /\ \A i \in 1 .. Len(AfterWrite(op)) :
                 AfterWrite(op)[i] = f => i = Len(AfterWrite(op))
           /\ \A i \in 1 .. Len(AfterRead(op)) :
                 AfterRead(op)[i] = f => i = Len(AfterRead(op))
  <1>1. /\ <<"onSend">> \in Seq(OpenFrames) /\ <<"onReceive", "received">> \in Seq(OpenFrames)
        /\ << >> \in Seq(OpenFrames) /\ <<"disconnect">> \in Seq(OpenFrames)
        /\ <<"trySend">> \in Seq(OpenFrames) /\ <<"tryReceive">> \in Seq(OpenFrames)
    BY DEF OpenFrames, Callbacks
  <1>2. \A i \in 1 .. Len(AfterWrite(op)) :
           AfterWrite(op)[i] = f => i = Len(AfterWrite(op))
    <2> DEFINE a == IF op.n > 0 THEN <<"onSend">> ELSE << >>
               b == IF op.err THEN <<"disconnect">> ELSE <<"trySend">>
    <2>1. /\ a \in Seq(OpenFrames) /\ b \in Seq(OpenFrames) /\ Len(b) = 1
          /\ \A i \in 1 .. Len(a) : a[i] # f
      BY <1>1
    <2>2. AfterWrite(op) = a \o b
      BY DEF AfterWrite
    <2> HIDE DEF a, b
    <2>3. \A i \in 1 .. Len(a \o b) : (a \o b)[i] = f => i = Len(a \o b)
      BY <2>1, ConcatEnd
    <2> QED
      BY <2>2, <2>3
  <1>3. \A i \in 1 .. Len(AfterRead(op)) :
           AfterRead(op)[i] = f => i = Len(AfterRead(op))
    <2> DEFINE a == IF op.n > 0 THEN <<"onReceive", "received">> ELSE << >>
               b == IF op.err THEN <<"disconnect">> ELSE <<"tryReceive">>
    <2>1. /\ a \in Seq(OpenFrames) /\ b \in Seq(OpenFrames) /\ Len(b) = 1
          /\ \A i \in 1 .. Len(a) : a[i] # f
      BY <1>1
    <2>2. AfterRead(op) = a \o b
      BY DEF AfterRead
    <2> HIDE DEF a, b
    <2>3. \A i \in 1 .. Len(a \o b) : (a \o b)[i] = f => i = Len(a \o b)
      BY <2>1, ConcatEnd
    <2> QED
      BY <2>2, <2>3
  <1> QED
    BY <1>2, <1>3

\* The ways in which a step changes the stack of the lane.
LEMMA LaneChanges ==
    ASSUME TypeOK, [Next]_vars
    PROVE  \/ UNCHANGED lane
           \/ lane # << >> /\ Return
           \/ \E f \in {"onEmpty", "clearBuffs", "onDisconnect", "unregister"} :
                 lane # << >> /\ GoTo(f)
           \/ lane' = <<"trySend">> \o lane
           \/ \E f \in {"trySend", "disconnect"} : lane' = <<f>>
           \/ \E op : lane' = AfterWrite(op) \/ lane' = AfterRead(op)
  <1>1. \A t \in Threads : ThreadEnter(t) \/ ThreadStep(t) => UNCHANGED lane
    BY DEF ThreadEnter, ThreadStep, SendAsync, Disconnect, ReceiveAsync, Enter,
           SendRefuse, SendAppend, Post, ReceiveAsyncStart, StartReceive, lanes
  <1>2. \A n \in Sizes : LaneSend(n) => UNCHANGED lane \/ lane' = <<"trySend">> \o lane
    BY DEF LaneSend
  <1>3. RunPosted => \E f \in {"trySend", "disconnect"} : lane' = <<f>>
    BY DEF RunPosted, TypeOK
  <1>4. EarlyReturn \/ TryReceive \/ Unregister => lane # << >> /\ Return
    BY DEF EarlyReturn, TryReceive, Unregister, At, InCallback
  <1>5. TrySend => lane # << >> /\ (Return \/ GoTo("onEmpty"))
    BY DEF TrySend, At
  <1>6. WriteHandler => UNCHANGED lane \/ lane' = AfterWrite(write)
    BY DEF WriteHandler
  <1>7. \A k \in ReadOps : ReadHandler(k) => UNCHANGED lane \/ lane' = AfterRead(read[k])
    BY DEF ReadHandler
  <1>8. Received => (lane # << >> /\ Return) \/ lane' = <<"disconnect">>
    BY DEF Received, At
  <1>9. /\ DisconnectClose => lane # << >> /\ GoTo("clearBuffs")
        /\ ClearBuffs => lane # << >> /\ GoTo("onDisconnect")
        /\ OnDisconnect => lane # << >> /\ GoTo("unregister")
    BY DEF DisconnectClose, ClearBuffs, OnDisconnect, At
  <1>10. ServerLane \/ WriteSome \/ (\E k \in ReadOps : ReadSome(k)) \/ UNCHANGED vars
           => UNCHANGED lane
    BY DEF ServerLane, Connect, ConnectTryReceive, ConnectStartReceive, StartReceive,
           ConnectNotify, ConnectReturn, UnregisterSession, WriteSome, WriteFail,
           WritePerform, ReadSome, ReadPerform, ReadFail, lanes, vars
  <1> QED
    BY <1>1, <1>2, <1>3, <1>4, <1>5, <1>6, <1>7, <1>8, <1>9, <1>10 DEF Next, LaneStep

LEMMA OnlyLastStep ==
    ASSUME TypeOK, [Next]_vars, NEW f \in {"disconnect", "tryReceive"}, OnlyLast(f)
    PROVE  OnlyLast(f)'
  <1>0. lane \in Seq(Frames) /\ \A i \in 1 .. Len(lane) : lane[i] = f => i = Len(lane)
    BY DEF TypeOK, OnlyLast
  <1>1. CASE UNCHANGED lane
    BY <1>1 DEF OnlyLast
  <1>2. ASSUME lane # << >>
        PROVE  /\ Tail(lane) \in Seq(Frames)
               /\ \A i \in 1 .. Len(Tail(lane)) : Tail(lane)[i] = f => i = Len(Tail(lane))
    <2>1. "trySend" \in Frames /\ "trySend" # f
      BY FrameTypes
    <2> QED
      BY <1>0, <1>2, <2>1, EndFacts
  <1>3. CASE lane # << >> /\ Return
    BY <1>2, <1>3 DEF OnlyLast, Return
  <1>4. ASSUME NEW g \in {"onEmpty", "clearBuffs", "onDisconnect", "unregister"},
               lane # << >>, GoTo(g)
        PROVE  OnlyLast(f)'
    <2>1. g \in Frames /\ g # f
      BY FrameTypes DEF Frames
    <2> DEFINE s == Tail(lane)
    <2>2. s \in Seq(Frames) /\ \A i \in 1 .. Len(s) : s[i] = f => i = Len(s)
      BY <1>2, <1>4
    <2>3. lane' = <<g>> \o s
      BY <1>4 DEF GoTo
    <2> HIDE DEF s
    <2>4. \A i \in 1 .. Len(<<g>> \o s) : (<<g>> \o s)[i] = f => i = Len(<<g>> \o s)
      BY <2>1, <2>2, EndFacts
    <2> QED
      BY <2>3, <2>4 DEF OnlyLast
  <1>5. CASE lane' = <<"trySend">> \o lane
    <2>1. "trySend" \in Frames /\ "trySend" # f
      BY FrameTypes
    <2>2. \A i \in 1 .. Len(<<"trySend">> \o lane) :
             (<<"trySend">> \o lane)[i] = f => i = Len(<<"trySend">> \o lane)
      BY <1>0, <2>1, EndFacts
    <2> QED
      BY <1>5, <2>2 DEF OnlyLast
  <1>6. ASSUME NEW g, lane' = <<g>> PROVE OnlyLast(f)'
    BY <1>6 DEF OnlyLast
  <1>7. ASSUME NEW op, lane' = AfterWrite(op) \/ lane' = AfterRead(op) PROVE OnlyLast(f)'
    BY <1>7, AfterFacts DEF OnlyLast
  <1> QED
    BY <1>1, <1>3, <1>4, <1>5, <1>6, <1>7, LaneChanges

LEMMA ByeFacts ==
    ASSUME TypeOK, NEW c \in {"onConnect", "onDisconnect"}, told' = Append(told, c)
    PROVE  /\ c = "onConnect" /\ NoBye => NoBye'
           /\ c = "onConnect" /\ OneBye => OneBye'
           /\ c = "onDisconnect" /\ NoBye => OneBye'
  <1>1. /\ Len(told) \in Nat /\ DOMAIN told = 1 .. Len(told)
        /\ DOMAIN told' = 1 .. Len(told) + 1 /\ told'[Len(told) + 1] = c
        /\ \A i \in 1 .. Len(told) : told'[i] = told[i]
    BY DEF TypeOK
  <1>2. /\ \A i \in 1 .. Len(told) + 1 : i \in 1 .. Len(told) \/ i = Len(told) + 1
        /\ Len(told) + 1 \in 1 .. Len(told) + 1 /\ Len(told) + 1 \notin 1 .. Len(told)
        /\ \A i \in 1 .. Len(told) : i \in 1 .. Len(told) + 1
    BY <1>1
  <1>3. ASSUME c = "onConnect", NoBye PROVE NoBye'
    BY <1>1, <1>2, <1>3 DEF NoBye
  <1>4. ASSUME c = "onConnect", OneBye PROVE OneBye'
    <2>1. PICK i \in 1 .. Len(told) :
             \A j \in 1 .. Len(told) : told[j] = "onDisconnect" <=> j = i
      BY <1>1, <1>4 DEF OneBye
    <2>2. \A j \in 1 .. Len(told) + 1 : told'[j] = "onDisconnect" <=> j = i
      BY <1>1, <1>2, <1>4, <2>1
    <2>3. i \in DOMAIN told' /\ \A j \in DOMAIN told' : told'[j] = "onDisconnect" <=> j = i
      BY <1>1, <1>2, <2>2
    <2> QED
      BY <2>3 DEF OneBye
  <1>5. ASSUME c = "onDisconnect", NoBye PROVE OneBye'
    <2>1. \A j \in 1 .. Len(told) + 1 : told'[j] = "onDisconnect" <=> j = Len(told) + 1
      BY <1>1, <1>2, <1>5 DEF NoBye
    <2> QED
      BY <1>1, <1>2, <2>1 DEF OneBye
  <1> QED
    BY <1>3, <1>4, <1>5

\* Facts about the short stacks of a closed session.
LEMMA ShortStacks ==
    /\ \A f : <<f>> # << >> /\ Head(<<f>>) = f /\ Tail(<<f>>) = << >>
    /\ \A f, g : <<f>> \o Tail(<<g>>) = <<f>>
    /\ \A f : <<f>> \o << >> = <<f>>
  <1>1. \A f : <<f>> # << >> /\ Head(<<f>>) = f /\ Tail(<<f>>) = << >>
    OBVIOUS
  <1>2. \A f : <<f>> \o << >> = <<f>>
    OBVIOUS
  <1> QED
    BY <1>1, <1>2

\* On a closed session the lane runs the rest of disconnect() and handlers that
\* find nothing to do.
LEMMA ClosedLane ==
    ASSUME TypeOK, ~connected, ClosedStage, LaneStep
    PROVE  ClosedStage'
  <1> USE DEF server
  <1>0. lane \in {<< >>, <<"clearBuffs">>, <<"onDisconnect">>, <<"unregister">>,
                  <<"trySend">>, <<"disconnect">>}
    BY DEF ClosedStage
  <1>1. \A f : At(f) => lane = <<f>>
    BY <1>0, ShortStacks DEF At
  <1>2. ~InCallback /\ ~At("received") /\ ~At("tryReceive")
    BY <1>0, <1>1, ShortStacks DEF InCallback, Callbacks
  <1>3. CASE RunPosted
    <2>1. queue # << >> /\ queue \in Seq({"trySend", "disconnect"})
      BY <1>3 DEF RunPosted, TypeOK
    <2>2. /\ lane = << >> /\ lane' = <<Head(queue)>> /\ UNCHANGED <<told, unregister>>
          /\ Head(queue) \in {"trySend", "disconnect"}
      BY <1>3, <2>1 DEF RunPosted, LaneFree
    <2> QED
      BY <2>2, ShortStacks DEF ClosedStage, NoBye, OneBye
  <1>4. CASE EarlyReturn
    <2>1. /\ lane \in {<<"trySend">>, <<"disconnect">>} /\ lane' = Tail(lane)
          /\ UNCHANGED <<told, unregister>>
      BY <1>1, <1>2, <1>4 DEF EarlyReturn, Return
    <2>2. lane' = << >>
      BY <2>1, ShortStacks
    <2> QED
      BY <2>1, <2>2, ShortStacks DEF ClosedStage, NoBye, OneBye
  <1>5. ~TrySend /\ ~TryReceive /\ ~Received /\ ~DisconnectClose
    BY <1>2 DEF TrySend, MaySend, TryReceive, Received, DisconnectClose, MayDisconnect
  <1>6. CASE WriteHandler \/ \E k \in ReadOps : ReadHandler(k)
    <2>1. UNCHANGED <<lane, told, unregister>>
      BY <1>6 DEF WriteHandler, ReadHandler
    <2> QED
      BY <2>1 DEF ClosedStage, NoBye, OneBye
  <1>7. CASE ClearBuffs
    <2>1. /\ lane = <<"clearBuffs">> /\ lane' = <<"onDisconnect">>
          /\ UNCHANGED <<told, unregister>>
      BY <1>1, <1>7, ShortStacks DEF ClearBuffs, GoTo
    <2> QED
      BY <2>1, ShortStacks DEF ClosedStage, NoBye, OneBye
  <1>8. CASE OnDisconnect
    <2>1. /\ lane = <<"onDisconnect">> /\ lane' = <<"unregister">>
          /\ told' = Append(told, "onDisconnect") /\ UNCHANGED unregister
      BY <1>1, <1>8, ShortStacks DEF OnDisconnect, GoTo
    <2>2. NoBye /\ unregister = "none"
      BY <2>1, ShortStacks DEF ClosedStage
    <2>3. OneBye'
      BY <2>1, <2>2, ByeFacts
    <2> QED
      BY <2>1, <2>2, <2>3 DEF ClosedStage
  <1>9. CASE Unregister
    <2>1. /\ lane = <<"unregister">> /\ lane' = << >> /\ UNCHANGED told
          /\ unregister' = UnregisterWhere
      BY <1>1, <1>9, ShortStacks DEF Unregister, Return
    <2>2. OneBye /\ unregister' # "none"
      BY <2>1, ShortStacks DEF ClosedStage, UnregisterWhere
    <2> QED
      BY <2>1, <2>2 DEF ClosedStage, OneBye
  <1> QED
    BY <1>3, <1>4, <1>5, <1>6, <1>7, <1>8, <1>9 DEF LaneStep

\* The first three lines of disconnect() leave the stack to what follows them.
LEMMA CloseStarts ==
    ASSUME TypeOK, CloseInv, DisconnectClose
    PROVE  ~connected' /\ ClosedStage'
  <1>1. /\ lane # << >> /\ Head(lane) = "disconnect" /\ connected /\ ~connected'
        /\ lane' = <<"clearBuffs">> \o Tail(lane) /\ UNCHANGED <<told, unregister>>
    BY DEF DisconnectClose, MayDisconnect, At, GoTo, server
  <1>2. lane \in Seq(Frames) /\ "trySend" \in Frames
    BY FrameTypes DEF TypeOK
  <1>3. \A i \in 1 .. Len(lane) : lane[i] = "disconnect" => i = Len(lane)
    BY DEF CloseInv, OnlyLast
  <1>4. Tail(lane) = << >>
    BY <1>1, <1>2, <1>3, EndFacts
  <1>5. lane' = <<"clearBuffs">>
    BY <1>1, <1>4, ShortStacks
  <1> QED
    BY <1>1, <1>5 DEF CloseInv, ClosedStage, NoBye

LEMMA CloseStep == TypeOK /\ SendInv /\ CloseInv /\ [Next]_vars => CloseInv'
  <1> SUFFICES ASSUME TypeOK, SendInv, CloseInv, [Next]_vars PROVE CloseInv'
    OBVIOUS
  <1> USE DEF server
  <1>0. OnlyLast("disconnect")'
    BY OnlyLastStep DEF CloseInv
  <1>1. CASE Connect
    BY <1>0, <1>1 DEF Connect, CloseInv, NoBye
  <1> SUFFICES ASSUME ~Connect PROVE CloseInv'
    BY <1>1
  <1>2. conn' = "start" <=> conn = "start"
    BY ConnFrame
  <1>3. CASE DisconnectClose
    <2>1. conn # "start"
      BY <1>3 DEF DisconnectClose, MayDisconnect, SendInv, FreshInv
    <2> QED
      BY <1>0, <1>2, <1>3, <2>1, CloseStarts DEF CloseInv
  <1>4. ASSUME UNCHANGED <<connected, lane, told, unregister>> PROVE CloseInv'
    BY <1>0, <1>2, <1>4 DEF CloseInv, ClosedStage, NoBye, OneBye
  <1>5. ASSUME connected, connected', UNCHANGED <<told, unregister>> PROVE CloseInv'
    BY <1>0, <1>5 DEF CloseInv, NoBye
  <1>6. ASSUME NEW t \in Threads, ThreadEnter(t) \/ ThreadStep(t)
        PROVE  UNCHANGED <<connected, lane, told, unregister>>
    BY <1>6 DEF ThreadEnter, ThreadStep, SendAsync, Disconnect, ReceiveAsync, Enter,
                SendRefuse, SendAppend, Post, ReceiveAsyncStart, StartReceive, lanes
  <1>7. ASSUME NEW n \in Sizes, LaneSend(n) PROVE CloseInv'
    BY <1>5, <1>7 DEF LaneSend
  <1>8. CASE LaneStep /\ ~DisconnectClose
    <2>1. UNCHANGED connected
      BY <1>8 DEF LaneStep, RunPosted, EarlyReturn, TrySend, WriteHandler, TryReceive,
                  StartReceive, ReadHandler, Received, ClearBuffs, OnDisconnect, Unregister
    <2>2. CASE connected
      <3>1. ~ClearBuffs /\ ~OnDisconnect /\ ~Unregister
        <4>1. lane # << >> => Head(lane) \in OpenFrames
          BY <2>2 DEF SendInv
        <4>2. /\ "clearBuffs" \notin OpenFrames /\ "onDisconnect" \notin OpenFrames
              /\ "unregister" \notin OpenFrames
          BY DEF OpenFrames, Callbacks
        <4> QED
          BY <4>1, <4>2 DEF ClearBuffs, OnDisconnect, Unregister, At
      <3>2. UNCHANGED <<told, unregister>>
        BY <1>8, <3>1 DEF LaneStep, RunPosted, EarlyReturn, TrySend, WriteHandler,
                          TryReceive, StartReceive, ReadHandler, Received
      <3> QED
        BY <1>5, <2>1, <2>2, <3>2
    <2>3. CASE ~connected /\ conn # "start"
      BY <1>0, <1>2, <1>8, <2>1, <2>3, ClosedLane DEF CloseInv
    <2>4. CASE ~connected /\ conn = "start"
      <3>1. lane = << >> /\ queue = << >>
        BY <2>4 DEF SendInv, FreshInv
      <3>2. UNCHANGED <<lane, told, unregister>>
        BY <1>8, <2>4, <3>1 DEF LaneStep, RunPosted, EarlyReturn, InCallback, At, TrySend,
                                WriteHandler, TryReceive, ReadHandler, Received, ClearBuffs,
                                OnDisconnect, Unregister
      <3> QED
        BY <1>4, <2>1, <3>2
    <2> QED
      BY <2>2, <2>3, <2>4
  <1>9. CASE ConnectNotify
    <2>1. /\ UNCHANGED <<connected, lane, unregister>> /\ told' = Append(told, "onConnect")
          /\ conn # "start"
      BY <1>9 DEF ConnectNotify, lanes
    <2>2. (NoBye => NoBye') /\ (OneBye => OneBye')
      BY <2>1, ByeFacts
    <2> QED
      BY <1>0, <1>2, <2>1, <2>2 DEF CloseInv, ClosedStage
  <1>10. CASE UnregisterSession
    <2>1. /\ UNCHANGED <<connected, lane, told>> /\ unregister # "none" /\ unregister' # "none"
      BY <1>10 DEF UnregisterSession, lanes
    <2> QED
      BY <1>0, <1>2, <2>1 DEF CloseInv, ClosedStage, NoBye, OneBye
  <1>11. ServerLane /\ ~ConnectNotify /\ ~UnregisterSession
           => UNCHANGED <<connected, lane, told, unregister>>
    BY DEF ServerLane, ConnectTryReceive, ConnectStartReceive, StartReceive,
           ConnectReturn, lanes
  <1>12. WriteSome \/ (\E k \in ReadOps : ReadSome(k)) \/ UNCHANGED vars
           => UNCHANGED <<connected, lane, told, unregister>>
    BY DEF WriteSome, WriteFail, WritePerform, ReadSome, ReadPerform, ReadFail, lanes, vars
  <1> QED
    BY <1>3, <1>4, <1>6, <1>7, <1>8, <1>9, <1>10, <1>11, <1>12 DEF Next

LEMMA CloseInvariant == Spec => []CloseInv
  <1>1. Init => CloseInv
    BY DEF Init, CloseInv, OnlyLast, NoBye
  <1> QED
    BY <1>1, CloseStep, SendInvariant, PTL DEF Spec

LEMMA CloseImplies == TypeOK /\ SendInv /\ CloseInv => LaneSilent
  <1> SUFFICES ASSUME TypeOK, SendInv, CloseInv PROVE LaneSilent
    OBVIOUS
  <1>1. NoBye => Byes = {}
    BY DEF NoBye, Byes
  <1>2. OneBye => \E i : Byes = {i}
    BY DEF OneBye, Byes
  <1>3. NoBye \/ OneBye
    BY DEF CloseInv, ClosedStage
  <1>4. Cardinality(Byes) <= 1
    <2>1. Cardinality({}) = 0
      BY FS_EmptySet
    <2>2. \A i : Cardinality({i}) = 1
      BY FS_Singleton
    <2>3. Cardinality(Byes) = 0 \/ Cardinality(Byes) = 1
      <3>1. CASE Byes = {}
        BY <2>1, <3>1
      <3>2. ASSUME NEW i, Byes = {i} PROVE Cardinality(Byes) = 1
        BY <2>2, <3>2
      <3> QED
        BY <1>1, <1>2, <1>3, <3>1, <3>2
    <2> QED
      BY <2>3
  <1>5. InCallback => Byes = {}
    <2>1. ASSUME ClosedStage, InCallback PROVE FALSE
      BY <2>1, ShortStacks DEF ClosedStage, InCallback, Callbacks
    <2> QED
      BY <1>1, <2>1 DEF CloseInv
  <1>6. unregister # "none" => Byes # {} /\ ~connected
    BY <1>2 DEF CloseInv, ClosedStage
  <1> QED
    BY <1>4, <1>5, <1>6 DEF LaneSilent

\* On the session's lane onDisconnect is the last callback and comes once, however
\* late the completions that close() cancelled arrive, and the session is
\* unregistered after it: on one lane or two.
THEOREM GoodbyeOnLane == Spec => []LaneSilent
  BY CloseInvariant, CloseImplies, SendInvariant, PTL

\* On a shared thread connect() holds the lane until its callbacks have returned:
\* a callback of it that sends runs trySend and onEmpty, and nothing that could end
\* the session.
HeldInv ==
    SharedLane /\ conn # "done" => NoBye /\ lane \in Seq({"trySend", "onEmpty"})

LEMMA HeldStep == TypeOK /\ HeldInv /\ [Next]_vars => HeldInv'
  <1> SUFFICES ASSUME TypeOK, HeldInv, [Next]_vars, SharedLane, conn' # "done"
               PROVE  NoBye' /\ lane' \in Seq({"trySend", "onEmpty"})
    BY DEF HeldInv
  <1> USE DEF server, lanes
  <1> DEFINE held == lane \in Seq({"trySend", "onEmpty"})
  <1>1. conn # "done"
    BY DEF Next, ThreadEnter, ThreadStep, SendAsync, Disconnect, ReceiveAsync, Enter, SendRefuse,
           SendAppend, Post, ReceiveAsyncStart, StartReceive, LaneSend, LaneStep, RunPosted,
           EarlyReturn, TrySend, WriteHandler, TryReceive, ReadHandler, Received, DisconnectClose,
           ClearBuffs, OnDisconnect, Unregister, ServerLane, Connect, ConnectTryReceive,
           ConnectStartReceive, ConnectNotify, ConnectReturn, UnregisterSession, WriteSome,
           WriteFail, WritePerform, ReadSome, ReadPerform, ReadFail, vars
  <1>2. NoBye /\ held /\ told \in Seq({"onConnect", "onDisconnect"})
    BY <1>1 DEF HeldInv, TypeOK
  <1>3. ASSUME lane # << >> PROVE Head(lane) \in {"trySend", "onEmpty"}
                                  /\ Tail(lane) \in Seq({"trySend", "onEmpty"})
    BY <1>2, <1>3
  <1>4. ASSUME NEW f \in {"trySend", "onEmpty"}, NEW s \in Seq({"trySend", "onEmpty"})
        PROVE  <<f>> \o s \in Seq({"trySend", "onEmpty"})
    BY ConcatProperties
  <1>5. ASSUME UNCHANGED <<told, lane>>
        PROVE  NoBye' /\ lane' \in Seq({"trySend", "onEmpty"})
    BY <1>2, <1>5 DEF NoBye
  <1>6. ASSUME NEW t \in Threads, ThreadEnter(t) \/ ThreadStep(t)
        PROVE  UNCHANGED <<told, lane>>
    BY <1>6 DEF ThreadEnter, ThreadStep, SendAsync, Disconnect, ReceiveAsync, Enter,
                SendRefuse, SendAppend, Post, ReceiveAsyncStart, StartReceive
  <1>7. ASSUME NEW n \in Sizes, LaneSend(n)
        PROVE  UNCHANGED told /\ (lane' = lane \/ lane' = <<"trySend">> \o lane)
    BY <1>7 DEF LaneSend
  <1>8. LaneStep =>
          /\ UNCHANGED told
          /\ lane # << >>
          /\ lane' = Tail(lane) \/ lane' = <<"onEmpty">> \o Tail(lane)
    <2> SUFFICES ASSUME LaneStep
                 PROVE  /\ UNCHANGED told
                        /\ lane # << >>
                        /\ lane' = Tail(lane) \/ lane' = <<"onEmpty">> \o Tail(lane)
      OBVIOUS
    <2>1. ~LaneFree /\ (\A f : At(f) => f \in {"trySend", "onEmpty"})
      BY <1>1, <1>3 DEF LaneFree, At
    <2>2. EarlyReturn \/ TrySend
      BY <2>1 DEF LaneStep, RunPosted, WriteHandler, TryReceive, ReadHandler, Received,
                  DisconnectClose, ClearBuffs, OnDisconnect, Unregister
    <2> QED
      BY <2>2 DEF EarlyReturn, TrySend, At, InCallback, Return, GoTo
  <1>9. CASE ConnectNotify
    <2>1. told' = Append(told, "onConnect") /\ UNCHANGED lane
      BY <1>9 DEF ConnectNotify
    <2>2. NoBye'
      BY <1>2, <2>1 DEF NoBye
    <2> QED  BY <1>2, <2>1, <2>2
  <1>10. ServerLane /\ ~ConnectNotify => UNCHANGED <<told, lane>>
    BY DEF ServerLane, Connect, ConnectTryReceive, ConnectStartReceive, StartReceive,
           ConnectReturn, UnregisterSession
  <1>11. WriteSome \/ (\E k \in ReadOps : ReadSome(k)) \/ UNCHANGED vars
           => UNCHANGED <<told, lane>>
    BY DEF WriteSome, WriteFail, WritePerform, ReadSome, ReadPerform, ReadFail, vars
  <1>12. ASSUME UNCHANGED told,
               \/ lane' = lane
               \/ lane' = <<"trySend">> \o lane
               \/ lane # << >> /\ (lane' = Tail(lane) \/ lane' = <<"onEmpty">> \o Tail(lane))
        PROVE  NoBye' /\ lane' \in Seq({"trySend", "onEmpty"})
    BY <1>2, <1>3, <1>4, <1>12 DEF NoBye
  <1> QED
    BY <1>5, <1>6, <1>7, <1>8, <1>9, <1>10, <1>11, <1>12 DEF Next

\* When server and session share a thread, onDisconnect is the last callback of the
\* session altogether, connect()'s included.  (On two threads it is not: connect()
\* can still be in its onConnect when the session ends.)
THEOREM GoodbyeIsLast == Spec => [](SharedLane => DisconnectLast)
  <1>1. Init => HeldInv
    BY DEF Init, HeldInv, NoBye
  <1>2. HeldInv /\ LaneSilent => (SharedLane => DisconnectLast)
    BY DEF HeldInv, DisconnectLast, Connecting, NoBye, Byes
  <1> QED
    BY <1>1, <1>2, HeldStep, GoodbyeOnLane, Types, PTL DEF Spec

-----------------------------------------------------------------------------
(* The first callback *)

\* On a shared thread connect() runs to its onConnect before any handler does.
FirstInv ==
    SharedLane =>
        /\ conn \in {"start", "tryReceive", "startReceive", "notify"}
             => lane = << >> /\ told = << >>
        /\ conn \in {"onConnect", "onEmpty", "done"}
             => told # << >> /\ told[1] = "onConnect"

LEMMA FirstStep == TypeOK /\ FirstInv /\ [Next]_vars => FirstInv'
  <1> SUFFICES ASSUME TypeOK, FirstInv, [Next]_vars, SharedLane PROVE FirstInv'
    BY DEF FirstInv
  <1> USE DEF server, lanes
  <1>0. conn \in ConnPoints /\ told \in Seq({"onConnect", "onDisconnect"})
    BY DEF TypeOK
  <1>1. lane # << >> => conn \in {"onConnect", "onEmpty", "done"}
    BY <1>0 DEF FirstInv, ConnPoints
  <1>2. ASSUME UNCHANGED <<conn, told>>,
               UNCHANGED lane \/ lane # << >> \/ conn \in {"onConnect", "onEmpty", "done"}
        PROVE  FirstInv'
    BY <1>1, <1>2 DEF FirstInv
  <1>3. ASSUME NEW t \in Threads, ThreadEnter(t) \/ ThreadStep(t)
        PROVE  UNCHANGED <<conn, told, lane>>
    BY <1>3 DEF ThreadEnter, ThreadStep, SendAsync, Disconnect, ReceiveAsync, Enter,
                SendRefuse, SendAppend, Post, ReceiveAsyncStart, StartReceive
  <1>4. ASSUME NEW n \in Sizes, LaneSend(n)
        PROVE  /\ UNCHANGED <<conn, told>>
               /\ UNCHANGED lane \/ lane # << >> \/ conn \in {"onConnect", "onEmpty", "done"}
    BY <1>4 DEF LaneSend, InCallback
  <1>5. LaneStep /\ ~OnDisconnect =>
          /\ UNCHANGED <<conn, told>>
          /\ UNCHANGED lane \/ lane # << >> \/ conn \in {"onConnect", "onEmpty", "done"}
    BY DEF LaneStep, RunPosted, LaneFree, EarlyReturn, At, InCallback, TrySend, WriteHandler,
           TryReceive, StartReceive, ReadHandler, Received, DisconnectClose, ClearBuffs,
           Unregister
  <1>6. CASE OnDisconnect
    <2>1. lane # << >> /\ UNCHANGED conn /\ told' = Append(told, "onDisconnect")
      BY <1>6 DEF OnDisconnect, At
    <2>2. told # << >> /\ told[1] = "onConnect"
      BY <1>1, <2>1 DEF FirstInv
    <2>3. told' # << >> /\ told'[1] = told[1]
      BY <1>0, <2>1, <2>2
    <2> QED
      BY <1>1, <2>1, <2>2, <2>3 DEF FirstInv
  <1>7. CASE ConnectNotify
    <2>1. told = << >> /\ conn' = "onConnect" /\ told' = Append(told, "onConnect")
      BY <1>7 DEF ConnectNotify, FirstInv
    <2>2. told' # << >> /\ told'[1] = "onConnect"
      BY <2>1
    <2> QED
      BY <2>1, <2>2 DEF FirstInv
  <1>8. ServerLane /\ ~ConnectNotify =>
          /\ UNCHANGED <<told, lane>>
          /\ \/ conn' \in {"tryReceive", "startReceive", "notify"}
                /\ conn \in {"start", "tryReceive", "startReceive", "notify"}
             \/ conn' \in {"onConnect", "onEmpty", "done"}
                /\ conn \in {"onConnect", "onEmpty", "done"}
    BY DEF ServerLane, Connect, ConnectTryReceive, ConnectStartReceive, StartReceive,
           ConnectReturn, UnregisterSession
  <1>9. ServerLane /\ ~ConnectNotify => FirstInv'
    BY <1>8 DEF FirstInv
  <1>10. WriteSome \/ (\E k \in ReadOps : ReadSome(k)) \/ UNCHANGED vars
           => UNCHANGED <<conn, told, lane>>
    BY DEF WriteSome, WriteFail, WritePerform, ReadSome, ReadPerform, ReadFail, vars
  <1> QED
    BY <1>2, <1>3, <1>4, <1>5, <1>6, <1>7, <1>9, <1>10 DEF Next

\* When server and session share a thread no callback comes before onConnect.
\* (On different threads one can: connect() starts the first read before it calls
\* onConnect.)
THEOREM ConnectIsFirst == Spec => [](SharedLane => ConnectFirst)
  <1>1. Init => FirstInv
    BY DEF Init, FirstInv
  <1>2. TypeOK /\ FirstInv => (SharedLane => ConnectFirst)
    <2> SUFFICES ASSUME TypeOK, FirstInv, SharedLane,
                        InCallback \/ "onDisconnect" \in Elements(told)
                 PROVE  told # << >> /\ told[1] = "onConnect"
      BY DEF ConnectFirst
    <2>1. lane # << >> \/ told # << >>
      BY DEF InCallback, Elements
    <2> QED
      BY <2>1 DEF FirstInv, TypeOK, ConnPoints
  <1> QED
    BY <1>1, <1>2, FirstStep, Types, PTL DEF Spec

-----------------------------------------------------------------------------
(* The receive loop *)

LoopFrames == {"received", "tryReceive"}
Looping == \E i \in 1 .. Len(lane) : lane[i] \in LoopFrames

\* Left to itself the receive loop is in one place: before its first read in
\* connect(), in the one read that is outstanding, or on the lane behind it.
ReadInv ==
    MaxReceives = 0 =>
        /\ \A t \in Threads : pc[t].at # "receive"
        /\ OnlyLast("tryReceive")
        /\ read[2].st = "none"
        /\ conn \in {"start", "tryReceive", "startReceive"}
             => read[1].st = "none" /\ ~Looping
        /\ Looping => read[1].st = "none"
        /\ read[1].st = "pending" => read[1].len = receive_buff

\* A step that does not touch the reads, and brings no frame of the loop.
LEMMA LoopKept ==
    ASSUME TypeOK, ReadInv, [Next]_vars, UNCHANGED <<read, receive_buff>>,
           \A t \in Threads : pc'[t].at = "receive" => pc[t].at = "receive",
           conn' \in {"start", "tryReceive", "startReceive"}
             => conn \in {"start", "tryReceive", "startReceive"},
           Looping' => Looping
    PROVE  ReadInv'
  BY OnlyLastStep DEF ReadInv

LEMMA LoopFacts ==
    ASSUME TypeOK
    PROVE  /\ UNCHANGED lane => (Looping' <=> Looping)
           /\ lane # << >> /\ Return /\ Looping' => Looping
           /\ lane' = << >> => ~Looping'
           /\ \A f \in Frames \ LoopFrames : lane' = <<f>> => ~Looping'
           /\ lane' = <<"trySend">> \o lane /\ Looping' => Looping
           /\ \A f \in Frames \ LoopFrames : lane # << >> /\ GoTo(f) /\ Looping' => Looping
           /\ \A op : lane' = AfterWrite(op) => ~Looping'
  <1>0. lane \in Seq(Frames) /\ Len(lane) \in Nat
    BY DEF TypeOK
  <1>1. UNCHANGED lane => (Looping' <=> Looping)
    BY DEF Looping
  <1>2. ASSUME lane # << >>, NEW i \in 1 .. Len(Tail(lane))
        PROVE  i + 1 \in 1 .. Len(lane) /\ Tail(lane)[i] = lane[i + 1]
    BY <1>0, <1>2
  <1>3. ASSUME lane # << >>, Return, Looping' PROVE Looping
    BY <1>2, <1>3 DEF Looping, Return
  <1>4. lane' = << >> => ~Looping'
    BY DEF Looping
  <1>5. \A f \in Frames \ LoopFrames : lane' = <<f>> => ~Looping'
    BY DEF Looping
  <1>6. ASSUME NEW f \in Frames \ LoopFrames, NEW s \in Seq(Frames), lane' = <<f>> \o s,
               Looping'
        PROVE  \E i \in 1 .. Len(s) : s[i] \in LoopFrames
    <2>1. Len(lane') = Len(s) + 1 /\ lane'[1] = f /\ \A i \in 1 .. Len(s) : lane'[i + 1] = s[i]
      BY <1>6
    <2>2. PICK i \in 1 .. Len(lane') : lane'[i] \in LoopFrames
      BY <1>6 DEF Looping
    <2>3. i # 1
      BY <1>6, <2>1, <2>2
    <2>4. i - 1 \in 1 .. Len(s) /\ (i - 1) + 1 = i
      BY <2>1, <2>3
    <2>5. s[i - 1] \in LoopFrames
      BY <2>1, <2>2, <2>4
    <2> QED
      BY <2>4, <2>5
  <1>7. ASSUME lane' = <<"trySend">> \o lane, Looping' PROVE Looping
    <2>1. "trySend" \in Frames \ LoopFrames
      BY FrameTypes DEF LoopFrames
    <2> QED
      BY <1>0, <1>6, <1>7, <2>1 DEF Looping
  <1>8. ASSUME NEW f \in Frames \ LoopFrames, lane # << >>, GoTo(f), Looping' PROVE Looping
    <2>1. Tail(lane) \in Seq(Frames) /\ lane' = <<f>> \o Tail(lane)
      BY <1>0, <1>8 DEF GoTo
    <2>2. \E i \in 1 .. Len(Tail(lane)) : Tail(lane)[i] \in LoopFrames
      BY <1>6, <1>8, <2>1
    <2> QED
      BY <1>2, <1>8, <2>2 DEF Looping
  <1>9. ASSUME NEW op, lane' = AfterWrite(op) PROVE ~Looping'
    <2>1. /\ <<"onSend">> \in Seq(OpenFrames) /\ << >> \in Seq(OpenFrames)
          /\ <<"disconnect">> \in Seq(OpenFrames) /\ <<"trySend">> \in Seq(OpenFrames)
      BY DEF OpenFrames, Callbacks
    <2> DEFINE a == IF op.n > 0 THEN <<"onSend">> ELSE << >>
               b == IF op.err THEN <<"disconnect">> ELSE <<"trySend">>
    <2>2. /\ a \in Seq(OpenFrames) /\ b \in Seq(OpenFrames)
          /\ \A i \in 1 .. Len(a) : a[i] \notin LoopFrames
          /\ \A i \in 1 .. Len(b) : b[i] \notin LoopFrames
      BY <2>1 DEF LoopFrames
    <2>3. lane' = a \o b
      BY <1>9 DEF AfterWrite
    <2> HIDE DEF a, b
    <2>4. /\ Len(a) \in Nat /\ Len(b) \in Nat /\ Len(lane') = Len(a) + Len(b)
          /\ \A i \in 1 .. Len(a) + Len(b) :
                lane'[i] = IF i <= Len(a) THEN a[i] ELSE b[i - Len(a)]
      BY <2>2, <2>3, ConcatFacts
    <2>5. ASSUME NEW i \in 1 .. Len(a) + Len(b) PROVE lane'[i] \notin LoopFrames
      <3>1. CASE i <= Len(a)
        BY <2>2, <2>4, <3>1
      <3>2. CASE ~(i <= Len(a))
        <4>1. i - Len(a) \in 1 .. Len(b)
          BY <2>4, <3>2
        <4> QED
          BY <2>2, <2>4, <3>2, <4>1
      <3> QED
        BY <3>1, <3>2
    <2> QED
      BY <2>4, <2>5 DEF Looping
  <1> QED
    BY <1>1, <1>3, <1>4, <1>5, <1>7, <1>8, <1>9

\* A read is started when none is outstanding, in the first slot and with the
\* whole buffer.
LEMMA LoopStarts ==
    ASSUME TypeOK, ReadInv, [Next]_vars, MaxReceives = 0, StartReceive,
           read[1].st = "none", ~Looping',
           conn' \notin {"start", "tryReceive", "startReceive"},
           \A t \in Threads : pc'[t].at = "receive" => pc[t].at = "receive"
    PROVE  ReadInv'
  <1>1. PICK k \in ReadOps :
          /\ k = 2 => read[1].st # "none"
          /\ read' = [read EXCEPT ![k] =
               [NoRead EXCEPT !.st = IF connected THEN "pending" ELSE "done",
                              !.len = receive_buff,
                              !.err = ~connected]]
    BY DEF StartReceive, AsyncReadSome
  <1>2. k = 1
    BY <1>1 DEF ReadOps
  <1>3. read \in [ReadOps -> ReadOp] /\ 1 \in ReadOps /\ 2 \in ReadOps
    BY DEF TypeOK, ReadOps
  <1>4. read'[2] = read[2] /\ read'[1].len = receive_buff
    BY <1>1, <1>2, <1>3 DEF NoRead
  <1>5. receive_buff' = receive_buff
    BY DEF StartReceive
  <1>6. OnlyLast("tryReceive")'
    BY OnlyLastStep DEF ReadInv
  <1> QED
    BY <1>4, <1>5, <1>6 DEF ReadInv

LEMMA ReadStep == TypeOK /\ ReadInv /\ [Next]_vars => ReadInv'
  <1> SUFFICES ASSUME TypeOK, ReadInv, [Next]_vars, MaxReceives = 0 PROVE ReadInv'
    BY DEF ReadInv
  <1> USE DEF server, lanes, receiver, app
  <1>0. /\ \A t \in Threads : pc[t].at # "receive"
        /\ read[2].st = "none" /\ OnlyLast("tryReceive")'
        /\ conn \in {"start", "tryReceive", "startReceive"}
             => read[1].st = "none" /\ ~Looping
        /\ Looping => read[1].st = "none"
        /\ read[1].st = "pending" => read[1].len = receive_buff
    BY OnlyLastStep DEF ReadInv
  <1>00. /\ read \in [ReadOps -> ReadOp] /\ ReadOps = {1, 2} /\ lane \in Seq(Frames)
         /\ pc \in [Threads -> [at : Points, n : Nat]]
    BY DEF TypeOK, ReadOps
  <1>1. ASSUME NEW t \in Threads, ThreadEnter(t) PROVE ReadInv'
    <2>1. ~ReceiveAsync(t)
      <3>1. calls["receive"] \in Nat
        BY DEF TypeOK, CallNames
      <3> QED
        BY <3>1 DEF ReceiveAsync, Enter
    <2>2. PICK at \in {"append", "disconnect"} : \E n \in Nat :
             pc' = [pc EXCEPT ![t] = [at |-> at, n |-> n]]
      BY <1>1, <2>1, SizesAssumption DEF ThreadEnter, SendAsync, Disconnect, Enter
    <2>3. \A u \in Threads : pc'[u].at # "receive"
      BY <1>0, <1>00, <2>2
    <2>4. UNCHANGED <<read, receive_buff, conn, lane>>
      BY <1>1, <2>1 DEF ThreadEnter, SendAsync, Disconnect, Enter
    <2> QED
      BY <2>3, <2>4, LoopKept, LoopFacts
  <1>2. ASSUME NEW t \in Threads, ThreadStep(t) PROVE ReadInv'
    <2>1. ~ReceiveAsyncStart(t)
      BY <1>0 DEF ReceiveAsyncStart
    <2>2. PICK p \in {Idle, [at |-> "trySend", n |-> 0]} : pc' = [pc EXCEPT ![t] = p]
      BY <1>2, <2>1 DEF ThreadStep, SendRefuse, SendAppend, Post
    <2>3. \A u \in Threads : pc'[u].at # "receive"
      BY <1>0, <1>00, <2>2 DEF Idle
    <2>4. UNCHANGED <<read, receive_buff, conn, lane>>
      BY <1>2, <2>1 DEF ThreadStep, SendRefuse, SendAppend, Post
    <2> QED
      BY <2>3, <2>4, LoopKept, LoopFacts
  <1>3. ASSUME UNCHANGED <<read, receive_buff, pc, conn>>, Looping' => Looping PROVE ReadInv'
    BY <1>3, LoopKept
  <1>4. ASSUME NEW n \in Sizes, LaneSend(n) PROVE ReadInv'
    <2>1. /\ UNCHANGED <<read, receive_buff, pc, conn>>
          /\ UNCHANGED lane \/ lane' = <<"trySend">> \o lane
      BY <1>4 DEF LaneSend
    <2> QED
      BY <1>3, <2>1, LoopFacts
  <1>5. CASE RunPosted
    <2>1. UNCHANGED <<read, receive_buff, pc, conn>>
      BY <1>5 DEF RunPosted
    <2>2. lane' = <<Head(queue)>> /\ Head(queue) \in {"trySend", "disconnect"}
      BY <1>5 DEF RunPosted, TypeOK
    <2>3. {"trySend", "disconnect"} \subseteq Frames \ LoopFrames
      BY FrameTypes DEF LoopFrames
    <2> QED
      BY <1>3, <2>1, <2>2, <2>3, LoopFacts
  <1>6. CASE EarlyReturn \/ Unregister
    <2>1. UNCHANGED <<read, receive_buff, pc, conn>> /\ lane # << >> /\ Return
      BY <1>6 DEF EarlyReturn, Unregister, At, InCallback
    <2> QED
      BY <1>3, <2>1, LoopFacts
  <1>7. CASE TrySend \/ ClearBuffs \/ OnDisconnect
    <2>1. /\ UNCHANGED <<read, receive_buff, pc, conn>> /\ lane # << >>
          /\ Return \/ \E f \in {"onEmpty", "onDisconnect", "unregister"} : GoTo(f)
      BY <1>7 DEF TrySend, ClearBuffs, OnDisconnect, At
    <2>2. {"onEmpty", "onDisconnect", "unregister"} \subseteq Frames \ LoopFrames
      BY FrameTypes DEF Frames, LoopFrames
    <2> QED
      BY <1>3, <2>1, <2>2, LoopFacts
  <1>8. CASE WriteHandler
    <2>1. /\ UNCHANGED <<read, receive_buff, pc, conn>>
          /\ UNCHANGED lane \/ lane' = AfterWrite(write)
      BY <1>8 DEF WriteHandler
    <2> QED
      BY <1>3, <2>1, LoopFacts
  <1>9. CASE TryReceive
    <2>1. /\ lane # << >> /\ Head(lane) = "tryReceive" /\ lane' = Tail(lane) /\ StartReceive
          /\ UNCHANGED <<pc, conn>>
      BY <1>9 DEF TryReceive, At, Return
    <2>2. 1 \in 1 .. Len(lane) /\ lane[1] = "tryReceive"
      BY <1>00, <2>1
    <2>3. Looping
      BY <2>2 DEF Looping, LoopFrames
    <2>4. Tail(lane) = << >>
      <3>1. /\ \A i \in 1 .. Len(lane) : lane[i] = "tryReceive" => i = Len(lane)
            /\ "trySend" \in Frames
        BY FrameTypes DEF ReadInv, OnlyLast
      <3> QED
        BY <1>00, <2>1, <3>1, EndFacts
    <2>5. ~Looping'
      BY <2>1, <2>4, LoopFacts
    <2> QED
      BY <1>0, <2>1, <2>3, <2>5, LoopStarts
  <1>10. ASSUME NEW k \in ReadOps, ReadHandler(k) PROVE ReadInv'
    <2>1. /\ read[k].st = "done" /\ read' = [read EXCEPT ![k] = NoRead]
          /\ UNCHANGED <<receive_buff, pc, conn>>
      BY <1>10 DEF ReadHandler
    <2>2. k = 1
      BY <1>0, <1>00, <2>1
    <2>3. read'[1].st = "none" /\ read'[2] = read[2] /\ read[1].st # "none"
      BY <1>00, <2>1, <2>2 DEF NoRead
    <2> QED
      BY <1>0, <2>1, <2>3 DEF ReadInv
  <1>11. CASE Received
    <2>1. lane # << >> /\ Head(lane) = "received" /\ UNCHANGED <<read, pc, conn>>
      BY <1>11 DEF Received, At
    <2>2. 1 \in 1 .. Len(lane) /\ lane[1] = "received"
      BY <1>00, <2>1
    <2>3. Looping
      BY <2>2 DEF Looping, LoopFrames
    <2> QED
      BY <1>0, <2>1, <2>3 DEF ReadInv
  <1>12. CASE DisconnectClose
    <2>1. /\ read' = [k \in ReadOps |-> Cancel(read[k])]
          /\ UNCHANGED <<receive_buff, pc, conn>> /\ lane # << >> /\ GoTo("clearBuffs")
      BY <1>12 DEF DisconnectClose, At
    <2>2. "clearBuffs" \in Frames \ LoopFrames
      BY DEF Frames, LoopFrames
    <2>3. Looping' => Looping
      BY <2>1, <2>2, LoopFacts
    <2>4. \A k \in ReadOps : /\ read'[k].st # "pending"
                             /\ read[k].st = "none" => read'[k].st = "none"
      BY <1>00, <2>1 DEF Cancel, ReadOp
    <2> QED
      BY <1>0, <1>00, <2>1, <2>3, <2>4 DEF ReadInv
  <1>13. CASE Connect
    <2>1. UNCHANGED <<read, pc, lane>> /\ conn = "start"
      BY <1>13 DEF Connect
    <2> QED
      BY <1>0, <2>1, LoopFacts DEF ReadInv
  <1>14. CASE ConnectStartReceive
    <2>1. conn = "startReceive" /\ conn' = "notify" /\ StartReceive /\ UNCHANGED <<pc, lane>>
      BY <1>14 DEF ConnectStartReceive
    <2>2. read[1].st = "none" /\ ~Looping'
      BY <1>0, <2>1, LoopFacts
    <2> QED
      BY <2>1, <2>2, LoopStarts
  <1>15. ServerLane /\ ~Connect /\ ~ConnectStartReceive =>
           /\ UNCHANGED <<read, receive_buff, pc, lane>>
           /\ conn' \in {"start", "tryReceive", "startReceive"}
                => conn \in {"start", "tryReceive", "startReceive"}
    BY DEF ServerLane, ConnectTryReceive, ConnectNotify, ConnectReturn, UnregisterSession
  <1>16. ASSUME NEW k \in ReadOps, ReadSome(k) PROVE ReadInv'
    <2>1. read[k].st = "pending" /\ UNCHANGED <<receive_buff, pc, conn, lane>>
      BY <1>16 DEF ReadSome, ReadFail, ReadPerform
    <2>2. k = 1 /\ ~Looping /\ conn \notin {"start", "tryReceive", "startReceive"}
      BY <1>0, <1>00, <2>1
    <2>3. read'[2] = read[2] /\ read'[1].st = "done"
      <3>1. CASE ReadFail(k)
        BY <1>00, <2>1, <2>2, <3>1 DEF ReadFail, Cancel, ReadOp
      <3>2. ASSUME NEW n \in 1 .. read[k].len, ReadPerform(k, n)
            PROVE  read'[2] = read[2] /\ read'[1].st = "done"
        BY <1>00, <2>2, <3>2 DEF ReadPerform, ReadOp
      <3> QED
        BY <1>16, <3>1, <3>2 DEF ReadSome
    <2> QED
      BY <1>0, <2>1, <2>2, <2>3, LoopFacts DEF ReadInv
  <1>17. WriteSome \/ UNCHANGED vars => UNCHANGED <<read, receive_buff, pc, conn, lane>>
    BY DEF WriteSome, WriteFail, WritePerform, vars
  <1> QED
    BY <1>1, <1>2, <1>3, <1>4, <1>5, <1>6, <1>7, <1>8, <1>9, <1>10, <1>11, <1>12,
       <1>13, <1>14, <1>15, <1>16, <1>17, LoopKept, LoopFacts
    DEF Next, LaneStep

\* As long as the application leaves receiving to the loop, one read at most is
\* outstanding and it owns the whole of _receive_buff: the buffer is resized only
\* between two reads.  (receiveAsync() can start a second one.)
THEOREM OneReadAtATime == Spec => [](MaxReceives = 0 => ReadPinned)
  <1>1. Init => ReadInv
    BY DEF Init, ReadInv, OnlyLast, Looping, Idle, NoRead, ReadOps
  <1>2. TypeOK /\ ReadInv => (MaxReceives = 0 => ReadPinned)
    <2> SUFFICES ASSUME TypeOK, ReadInv, MaxReceives = 0 PROVE ReadPinned
      OBVIOUS
    <2> DEFINE busy == {k \in ReadOps : read[k].st # "none"}
    <2>1. busy = {} \/ busy = {1}
      BY DEF ReadInv, ReadOps
    <2> HIDE DEF busy
    <2>2. Cardinality({}) = 0 /\ Cardinality({1}) = 1
      BY FS_EmptySet, FS_Singleton
    <2>3. Cardinality(busy) <= 1
      BY <2>1, <2>2
    <2>4. \A k \in ReadOps : read[k].st = "pending" => read[k].len = receive_buff
      BY DEF ReadInv, ReadOps
    <2> QED
      BY <2>3, <2>4 DEF ReadPinned, busy
  <1> QED
    BY <1>1, <1>2, ReadStep, Types, PTL DEF Spec

=============================================================================
