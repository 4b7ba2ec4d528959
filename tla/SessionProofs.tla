---------------------------- MODULE SessionProofs ----------------------------
(***************************************************************************)
(* Proofs about Session, for every set of threads, all limits and sizes,   *)
(* shared or separate lanes.                                               *)
(***************************************************************************)
EXTENDS Session, Integers, TLAPS

-----------------------------------------------------------------------------
(* Facts about sequences the actions rest on.                              *)

\* Appending the bytes of one sendAsync.
LEMMA ConcatFacts ==
    ASSUME NEW S, NEW s \in Seq(S), NEW t \in Seq(S)
    PROVE  /\ s \o t \in Seq(S)
           /\ Len(s \o t) = Len(s) + Len(t)
           /\ \A i \in 1 .. Len(s) + Len(t) :
                 (s \o t)[i] = IF i <= Len(s) THEN s[i] ELSE t[i - Len(s)]
  OBVIOUS

LEMMA FreshFacts ==
    ASSUME NEW m \in Nat, NEW n \in Nat
    PROVE  /\ [i \in 1 .. n |-> m + i] \in Seq(Nat)
           /\ Len([i \in 1 .. n |-> m + i]) = n
  OBVIOUS

\* The part of the flush buffer one write carries.
LEMMA SubSeqFacts ==
    ASSUME NEW s \in Seq(Nat), NEW m \in Nat, NEW n \in Nat, m + n <= Len(s)
    PROVE  /\ SubSeq(s, m + 1, m + n) \in Seq(Nat)
           /\ Len(SubSeq(s, m + 1, m + n)) = n
           /\ \A i \in 1 .. n : SubSeq(s, m + 1, m + n)[i] = s[m + i]
  OBVIOUS

-----------------------------------------------------------------------------
(* Types *)

LEMMA PushFacts ==
    ASSUME NEW S, NEW s \in Seq(S), NEW f \in S
    PROVE  /\ <<f>> \o s \in Seq(S)
           /\ s # << >> => Head(s) \in S /\ Tail(s) \in Seq(S)
           /\ s # << >> => <<f>> \o Tail(s) \in Seq(S)
  <1>1. <<f>> \in Seq(S)
    OBVIOUS
  <1>2. s # << >> => Head(s) \in S /\ Tail(s) \in Seq(S)
    OBVIOUS
  <1>3. \A t \in Seq(S) : <<f>> \o t \in Seq(S)
    BY <1>1, ConcatFacts
  <1> QED
    BY <1>2, <1>3

LEMMA InitInv == Init => TypeOK /\ SendInv
  <1> SUFFICES ASSUME Init PROVE TypeOK /\ SendInv
    OBVIOUS
  <1>1. TypeOK
    <2>1. /\ connected \in BOOLEAN /\ sending \in BOOLEAN /\ receiving \in BOOLEAN
      BY Zenon DEF Init
    <2>2. /\ write \in WriteOp /\ read \in [ReadOps -> ReadOp]
          /\ pc \in [Threads -> [at : Points, n : Nat]]
          /\ calls \in [CallNames -> Nat]
      BY DEF Init, NoWrite, NoRead, WriteOp, ReadOp, OpStates, Idle, Points, ReadOps
    <2>3. /\ send_buff_main \in Seq(Nat) /\ send_buff_flush \in Seq(Nat)
          /\ wire \in Seq(Nat) /\ lane \in Seq(Frames)
          /\ queue \in Seq({"trySend", "disconnect"})
          /\ told \in Seq({"onConnect", "onDisconnect"})
      BY DEF Init
    <2> QED
      BY <2>1, <2>2, <2>3 DEF Init, TypeOK, ConnPoints
  <1>2. SendInv
    BY DEF Init, SendInv, WriteInv, FreshInv, NoWrite
  <1> QED
    BY <1>1, <1>2

\* The types of the records, sets and queues that a step may change.
LEMMA OpTypes ==
    /\ NoWrite \in WriteOp /\ NoRead \in ReadOp
    /\ \A op \in WriteOp : Cancel(op) \in WriteOp
    /\ \A op \in ReadOp : Cancel(op) \in ReadOp
    /\ \A at \in Points, n \in Nat : [at |-> at, n |-> n] \in [at : Points, n : Nat]
    /\ Idle \in [at : Points, n : Nat]
  BY DEF NoWrite, NoRead, WriteOp, ReadOp, OpStates, Cancel, Idle, Points

LEMMA FrameTypes ==
    /\ OpenFrames \subseteq Frames /\ Seq(OpenFrames) \subseteq Seq(Frames)
    /\ {"trySend", "disconnect", "onEmpty"} \subseteq OpenFrames
    /\ \A op : AfterWrite(op) \in Seq(OpenFrames)
    /\ \A op : AfterRead(op) \in Seq(OpenFrames)
    /\ \A f \in OpenFrames : <<f>> \in Seq(OpenFrames)
    /\ \A f \in Frames : <<f>> \in Seq(Frames)
  <1>1. \A f \in OpenFrames : <<f>> \in Seq(OpenFrames)
    OBVIOUS
  <1>2. /\ <<"onSend">> \in Seq(OpenFrames) /\ <<"disconnect">> \in Seq(OpenFrames)
        /\ <<"trySend">> \in Seq(OpenFrames) /\ <<"tryReceive">> \in Seq(OpenFrames)
        /\ <<"onReceive", "received">> \in Seq(OpenFrames) /\ << >> \in Seq(OpenFrames)
    BY DEF OpenFrames, Callbacks
  <1>3. \A op : AfterWrite(op) \in Seq(OpenFrames)
    BY <1>2 DEF AfterWrite
  <1>4. \A op : AfterRead(op) \in Seq(OpenFrames)
    BY <1>2 DEF AfterRead
  <1>5. OpenFrames \subseteq Frames
    BY DEF Frames
  <1>6. Seq(OpenFrames) \subseteq Seq(Frames)
    BY <1>5
  <1>7. \A f \in Frames : <<f>> \in Seq(Frames)
    OBVIOUS
  <1>8. {"trySend", "disconnect", "onEmpty"} \subseteq OpenFrames
    BY DEF OpenFrames, Callbacks
  <1> QED
    BY <1>1, <1>3, <1>4, <1>5, <1>6, <1>7, <1>8

LEMMA EnterTypes ==
    ASSUME TypeOK, NEW t \in Threads, NEW call \in CallNames, NEW at \in Points,
           NEW n \in Nat, NEW limit, Enter(t, call, at, n, limit)
    PROVE  TypeOK'
  <1>1. pc' \in [Threads -> [at : Points, n : Nat]]
    BY OpTypes DEF Enter, TypeOK
  <1>2. calls' \in [CallNames -> Nat]
    BY DEF Enter, TypeOK
  <1> QED
    BY <1>1, <1>2 DEF Enter, TypeOK, sender, buffers, receiver, lanes, server, stream

LEMMA AppendTypes ==
    ASSUME TypeOK, NEW n \in Nat, AppendBytes(n)
    PROVE  /\ send_buff_main' \in Seq(Nat) /\ bytes_pending' \in Nat
           /\ accepted' \in Nat
           /\ Len(send_buff_main') = Len(send_buff_main) + n
           /\ \A i \in 1 .. Len(send_buff_main) + n :
                 send_buff_main'[i] = IF i <= Len(send_buff_main) THEN send_buff_main[i]
                                      ELSE accepted + (i - Len(send_buff_main))
  <1> DEFINE fresh == [i \in 1 .. n |-> accepted + i]
  <1>1. fresh \in Seq(Nat) /\ Len(fresh) = n
    BY FreshFacts DEF TypeOK
  <1>2. send_buff_main' = send_buff_main \o fresh
    BY DEF AppendBytes, Insert, Fresh
  <1>3. \A i \in 1 .. n : fresh[i] = accepted + i
    OBVIOUS
  <1> HIDE DEF fresh
  <1>4. send_buff_main \in Seq(Nat)
    BY DEF TypeOK
  <1>5. /\ send_buff_main' \in Seq(Nat)
        /\ Len(send_buff_main') = Len(send_buff_main) + n
        /\ \A i \in 1 .. Len(send_buff_main) + n :
              send_buff_main'[i] = IF i <= Len(send_buff_main) THEN send_buff_main[i]
                                   ELSE fresh[i - Len(send_buff_main)]
    BY <1>1, <1>2, <1>4, ConcatFacts
  <1>6. bytes_pending' \in Nat /\ accepted' \in Nat
    BY <1>5 DEF AppendBytes, Insert, Fresh, TypeOK
  <1>7. ASSUME NEW i \in 1 .. Len(send_buff_main) + n, ~(i <= Len(send_buff_main))
        PROVE  fresh[i - Len(send_buff_main)] = accepted + (i - Len(send_buff_main))
    BY <1>3, <1>4, <1>7
  <1> QED
    BY <1>5, <1>6, <1>7

LEMMA SwapTypes ==
    ASSUME TypeOK, Swap
    PROVE  /\ send_buff_main' \in Seq(Nat) /\ send_buff_flush' \in Seq(Nat)
           /\ send_flush_offset' \in Nat
           /\ bytes_pending' \in Nat /\ bytes_sending' \in Nat
  BY DEF Swap, SwapWith, TypeOK

LEMMA SwapOffset ==
    ASSUME TypeOK, connected, SendInv, Swap
    PROVE  send_flush_offset' <= Len(send_buff_flush')
  <1>1. send_flush_offset <= Len(send_buff_flush)
    BY DEF TypeOK, SendInv, BufferInv, BufferCounts, WriteOp
  <1>2. send_buff_main \in Seq(Nat)
    BY DEF TypeOK
  <1> QED
    BY <1>1, <1>2 DEF Swap, SwapWith

LEMMA StartReceiveTypes ==
    ASSUME TypeOK, StartReceive
    PROVE  read' \in [ReadOps -> ReadOp] /\ receiving' \in BOOLEAN
  <1>1. PICK k \in ReadOps : read' = [read EXCEPT ![k] =
               [NoRead EXCEPT !.st = IF connected THEN "pending" ELSE "done",
                              !.len = receive_buff,
                              !.err = ~connected]]
    BY DEF StartReceive, AsyncReadSome
  <1>2. [NoRead EXCEPT !.st = IF connected THEN "pending" ELSE "done",
                       !.len = receive_buff,
                       !.err = ~connected] \in ReadOp
    BY DEF TypeOK, NoRead, ReadOp, OpStates
  <1> QED
    BY <1>1, <1>2 DEF TypeOK, StartReceive

\* Every step preserves the types; the subtraction from _bytes_sending needs
\* the send invariant.
LEMMA TypeStep == TypeOK /\ SendInv /\ [Next]_vars => TypeOK'
  <1> SUFFICES ASSUME TypeOK, SendInv, [Next]_vars PROVE TypeOK'
    OBVIOUS
  <1>0. /\ send_buff_main \in Seq(Nat) /\ send_buff_flush \in Seq(Nat)
        /\ send_flush_offset \in Nat /\ bytes_sending \in Nat /\ bytes_sent \in Nat
        /\ write \in WriteOp /\ read \in [ReadOps -> ReadOp] /\ receive_buff \in Nat
        /\ lane \in Seq(Frames) /\ queue \in Seq({"trySend", "disconnect"})
        /\ calls \in [CallNames -> Nat] /\ pc \in [Threads -> [at : Points, n : Nat]]
    BY DEF TypeOK
  <1> USE DEF sender, buffers, receiver, lanes, app, server, stream
  <1>1. ASSUME NEW t \in Threads, NEW n \in Sizes, SendAsync(t, n) PROVE TypeOK'
    BY <1>1, EnterTypes, SizesAssumption DEF SendAsync, Points, CallNames, TypeOK
  <1>2. ASSUME NEW t \in Threads, Disconnect(t) PROVE TypeOK'
    BY <1>2, EnterTypes DEF Disconnect, Points, CallNames, TypeOK
  <1>3. ASSUME NEW t \in Threads, ReceiveAsync(t) PROVE TypeOK'
    BY <1>3, EnterTypes DEF ReceiveAsync, Points, CallNames, TypeOK
  <1>4. ASSUME NEW t \in Threads, SendRefuse(t) PROVE TypeOK'
    BY <1>4, OpTypes DEF SendRefuse, TypeOK
  <1>5. ASSUME NEW t \in Threads, SendAppend(t) PROVE TypeOK'
    <2>1. pc[t].n \in Nat
      BY <1>0
    <2>2. /\ send_buff_main' \in Seq(Nat) /\ bytes_pending' \in Nat
          /\ accepted' \in Nat
      BY <1>0, <1>5, <2>1, AppendTypes DEF SendAppend
    <2>3. pc' \in [Threads -> [at : Points, n : Nat]]
      BY <1>0, <1>5, OpTypes DEF SendAppend, Points
    <2> QED
      BY <1>5, <2>2, <2>3 DEF SendAppend, AppendBytes, Insert, Fresh, TypeOK
  <1>6. ASSUME NEW t \in Threads, Post(t) PROVE TypeOK'
    <2>1. pc' \in [Threads -> [at : Points, n : Nat]]
      BY <1>0, <1>6, OpTypes DEF Post
    <2>2. queue' \in Seq({"trySend", "disconnect"})
      BY <1>0, <1>6 DEF Post
    <2> QED
      BY <1>6, <2>1, <2>2 DEF Post, TypeOK
  <1>7. ASSUME NEW t \in Threads, ReceiveAsyncStart(t) PROVE TypeOK'
    <2>1. pc' \in [Threads -> [at : Points, n : Nat]]
      BY <1>0, <1>7, OpTypes DEF ReceiveAsyncStart
    <2> QED
      BY <1>7, <2>1, StartReceiveTypes DEF ReceiveAsyncStart, StartReceive, TypeOK
  <1>8. ASSUME NEW n \in Sizes, LaneSend(n) PROVE TypeOK'
    <2>1. calls' \in [CallNames -> Nat]
      BY <1>0, <1>8 DEF LaneSend, CallNames
    <2>4. UNCHANGED <<connected, sending, write, receiver, queue, pc, server>>
      BY <1>0, <1>8 DEF LaneSend
    <2>2. CASE OverLimit(n) /\ UNCHANGED <<buffers, lane, stream>>
      BY <2>1, <2>2, <2>4 DEF TypeOK
    <2>3. CASE AppendBytes(n) /\ (lane' = <<"trySend">> \o lane \/ lane' = lane)
      <3>1. /\ send_buff_main' \in Seq(Nat) /\ bytes_pending' \in Nat
            /\ accepted' \in Nat
        BY <1>0, <2>3, AppendTypes, SizesAssumption
      <3>2. lane' \in Seq(Frames)
        <4>1. "trySend" \in Frames
          BY FrameTypes
        <4>2. <<"trySend">> \o lane \in Seq(Frames)
          BY <1>0, <4>1, PushFacts
        <4> QED
          BY <1>0, <2>3, <4>2
      <3> QED
        BY <2>1, <2>3, <2>4, <3>1, <3>2 DEF AppendBytes, Insert, Fresh, TypeOK
    <2> QED
      BY <1>8, <2>2, <2>3 DEF LaneSend, TypeOK
  <1>9. CASE RunPosted
    <2>1. queue # << >>
      BY <1>0, <1>9 DEF RunPosted
    <2>2. Head(queue) \in {"trySend", "disconnect"} /\ Tail(queue) \in Seq({"trySend", "disconnect"})
      BY <1>0, <2>1
    <2>3. <<Head(queue)>> \in Seq(Frames)
      BY <1>0, <2>2, FrameTypes
    <2> QED
      BY <1>9, <2>2, <2>3 DEF RunPosted, TypeOK
  <1>10. CASE EarlyReturn
    BY <1>10 DEF EarlyReturn, Return, InCallback, At, TypeOK
  <1>11. CASE TrySend
    <2>1. /\ At("trySend") /\ connected /\ Swap
          /\ UNCHANGED <<connected, bytes_sent, receiver, queue, app, server, stream>>
      BY <1>0, <1>11 DEF TrySend, MaySend
    <2>2. /\ send_buff_main' \in Seq(Nat) /\ send_buff_flush' \in Seq(Nat)
          /\ send_flush_offset' \in Nat
          /\ bytes_pending' \in Nat /\ bytes_sending' \in Nat
      BY <1>0, <2>1, SwapTypes
    <2>3. CASE GoTo("onEmpty") /\ UNCHANGED <<sending, write>>
      <3>1. lane' \in Seq(Frames)
        <4>1. "onEmpty" \in Frames /\ lane # << >>
          BY <2>1, FrameTypes DEF At
        <4>2. <<"onEmpty">> \o Tail(lane) \in Seq(Frames)
          BY <1>0, <4>1, PushFacts
        <4> QED
          BY <2>3, <4>2 DEF GoTo
      <3> QED
        BY <2>1, <2>2, <2>3, <3>1 DEF TypeOK
    <2>4. CASE sending' = TRUE /\ AsyncWriteSome /\ Return
      <3>1. lane' \in Seq(Frames)
        BY <1>0, <2>1, <2>4 DEF Return, At
      <3>2. Len(send_buff_flush') - send_flush_offset' \in Nat
        BY <1>0, <2>1, <2>2, SwapOffset
      <3>3. write' \in WriteOp
        BY <1>0, <2>2, <2>4, <3>2 DEF AsyncWriteSome, NoWrite, WriteOp, OpStates
      <3> QED
        BY <2>1, <2>2, <2>4, <3>1, <3>3 DEF TypeOK
    <2> QED
      BY <1>11, <2>3, <2>4 DEF TrySend, TypeOK
  <1>12. CASE WriteHandler
    <2>1. /\ write' = NoWrite /\ sending' = FALSE
          /\ UNCHANGED <<connected, receiver, queue, app, server, stream>>
      BY <1>0, <1>12 DEF WriteHandler
    <2>2. CASE UNCHANGED <<buffers, lane>>
      BY <2>1, <2>2, OpTypes DEF TypeOK
    <2>3. CASE connected /\ ~UNCHANGED <<buffers, lane>>
      <3>1. /\ bytes_sending' = bytes_sending - write.n
            /\ bytes_sent' = bytes_sent + write.n
            /\ send_flush_offset' = 0 \/ send_flush_offset' = send_flush_offset + write.n
        BY <1>12, <2>3 DEF WriteHandler
      <3>2. /\ send_buff_flush' = << >> \/ send_buff_flush' = send_buff_flush
            /\ UNCHANGED <<send_buff_main, bytes_pending>>
        BY <1>12, <2>3 DEF WriteHandler
      <3>3. lane' = AfterWrite(write)
        BY <1>12, <2>3 DEF WriteHandler
      <3>4. write.n \in Nat /\ write.n <= bytes_sending
        BY <1>0, <2>3 DEF WriteOp, SendInv, BufferInv, BufferCounts
      <3>5. bytes_sending' \in Nat /\ bytes_sent' \in Nat /\ send_flush_offset' \in Nat
        <4>1. bytes_sending \in Nat /\ bytes_sent \in Nat /\ send_flush_offset \in Nat
          BY <1>0
        <4>2. bytes_sending - write.n \in Nat
          BY <3>4, <4>1
        <4>3. bytes_sent + write.n \in Nat /\ send_flush_offset + write.n \in Nat
          BY <3>4, <4>1
        <4> QED
          BY <3>1, <4>2, <4>3
      <3>6. send_buff_flush' \in Seq(Nat)
        BY <1>0, <3>2, << >> \in Seq(Nat)
      <3>7. lane' \in Seq(Frames)
        BY <3>3, FrameTypes
      <3> QED
        BY <2>1, <3>2, <3>5, <3>6, <3>7, OpTypes DEF TypeOK
    <2> QED
      BY <1>12, <2>2, <2>3 DEF WriteHandler, TypeOK
  <1>13. CASE TryReceive
    <2>1. lane' \in Seq(Frames)
      BY <1>0, <1>13 DEF TryReceive, Return, At
    <2> QED
      BY <1>13, <2>1, StartReceiveTypes DEF TryReceive, StartReceive, TypeOK
  <1>14. ASSUME NEW k \in ReadOps, ReadHandler(k) PROVE TypeOK'
    <2>1. read' \in [ReadOps -> ReadOp]
      BY <1>0, <1>14, OpTypes DEF ReadHandler
    <2>2. bytes_received' \in Nat /\ size' \in Nat
      <3>1. read[k].n \in Nat
        BY <1>0 DEF ReadOp
      <3>2. \/ UNCHANGED <<bytes_received, size>>
            \/ bytes_received' = bytes_received + read[k].n /\ size' = read[k].n
        BY <1>14 DEF ReadHandler
      <3> QED
        BY <3>1, <3>2 DEF TypeOK
    <2>3. lane' \in Seq(Frames)
      BY <1>0, <1>14, FrameTypes DEF ReadHandler
    <2> QED
      BY <1>14, <2>1, <2>2, <2>3 DEF ReadHandler, TypeOK
  <1>15. CASE Received
    <2>1. lane # << >> /\ (lane' = Tail(lane) \/ lane' = <<"disconnect">>)
      BY <1>0, <1>15 DEF Received, Return, At
    <2>3. lane' \in Seq(Frames)
      <3>1. <<"disconnect">> \in Seq(Frames)
        BY FrameTypes
      <3>2. Tail(lane) \in Seq(Frames)
        BY <1>0, <2>1
      <3> QED
        BY <2>1, <3>1, <3>2
    <2>2. receive_buff' \in Nat
      BY <1>0, <1>15 DEF Received
    <2> QED
      BY <1>15, <2>2, <2>3 DEF Received, TypeOK
  <1>16. CASE DisconnectClose
    BY <1>16, OpTypes, PushFacts DEF DisconnectClose, GoTo, At, Frames, TypeOK
  <1>17. CASE ClearBuffs
    BY <1>17, PushFacts DEF ClearBuffs, GoTo, At, Frames, TypeOK
  <1>18. CASE OnDisconnect
    BY <1>18, PushFacts DEF OnDisconnect, GoTo, At, Frames, TypeOK
  <1>19. CASE Unregister
    BY <1>19 DEF Unregister, UnregisterWhere, Return, At, TypeOK
  <1>20. CASE ServerLane
    <2>1. CASE Connect
      BY <2>1, LimitsAssumption DEF Connect, ConnPoints, TypeOK
    <2>2. CASE ConnectTryReceive
      BY <2>2 DEF ConnectTryReceive, ConnPoints, TypeOK
    <2>3. CASE ConnectStartReceive
      BY <2>3, StartReceiveTypes DEF ConnectStartReceive, StartReceive, ConnPoints, TypeOK
    <2>4. CASE ConnectNotify
      BY <2>4 DEF ConnectNotify, ConnPoints, TypeOK
    <2>5. CASE ConnectReturn
      BY <2>5 DEF ConnectReturn, ConnPoints, TypeOK
    <2>6. CASE UnregisterSession
      BY <2>6 DEF UnregisterSession, TypeOK
    <2> QED
      BY <1>20, <2>1, <2>2, <2>3, <2>4, <2>5, <2>6 DEF ServerLane, TypeOK
  <1>21. ASSUME NEW n \in 1 .. write.len, WritePerform(n) PROVE TypeOK'
    <2>1. wire' \in Seq(Nat)
      <3>0. write.from \in Nat /\ write.len \in Nat /\ write.n \in Nat
        BY <1>0 DEF WriteOp
      <3>4. write.st = "pending" /\ WriteInv
        BY <1>21 DEF WritePerform, SendInv
      <3>5. /\ write.from = send_flush_offset
            /\ write.len = Len(send_buff_flush) - send_flush_offset
        BY <3>4 DEF WriteInv
      <3>3. write.from + write.len = Len(send_buff_flush)
        BY <1>0, <3>5
      <3>1. n \in Nat /\ write.from + n <= Len(send_buff_flush)
        BY <1>0, <3>0, <3>3
      <3>2. SubSeq(send_buff_flush, write.from + 1, write.from + n) \in Seq(Nat)
        BY <1>0, <3>0, <3>1, SubSeqFacts
      <3>6. wire' = wire \o SubSeq(send_buff_flush, write.from + 1, write.from + n)
        BY <1>21 DEF WritePerform
      <3> QED
        BY <3>2, <3>6, ConcatFacts DEF TypeOK
    <2>2. write' \in WriteOp
      <3>1. n \in Nat
        BY <1>0 DEF WriteOp
      <3> QED
        BY <1>0, <1>21, <3>1 DEF WritePerform, WriteOp, OpStates
    <2> QED
      BY <1>21, <2>1, <2>2 DEF WritePerform, TypeOK
  <1>22. CASE WriteFail
    BY <1>22, OpTypes DEF WriteFail, TypeOK
  <1>23. ASSUME NEW k \in ReadOps, NEW n \in 1 .. read[k].len, ReadPerform(k, n) PROVE TypeOK'
    <2>1. read[k] \in ReadOp /\ n \in Nat
      BY <1>0 DEF ReadOp
    <2>3. [read[k] EXCEPT !.st = "done", !.n = n] \in ReadOp
      BY <1>0, <2>1 DEF ReadOp, OpStates
    <2>2. read' \in [ReadOps -> ReadOp]
      BY <1>0, <1>23, <2>3 DEF ReadPerform
    <2> QED
      BY <1>23, <2>2 DEF ReadPerform, TypeOK
  <1>24. ASSUME NEW k \in ReadOps, ReadFail(k) PROVE TypeOK'
    BY <1>24, OpTypes DEF ReadFail, TypeOK
  <1>25. CASE UNCHANGED vars
    BY <1>25 DEF vars, TypeOK
  <1> QED
    BY <1>1, <1>2, <1>3, <1>4, <1>5, <1>6, <1>7, <1>8, <1>9, <1>10, <1>11, <1>12,
       <1>13, <1>14, <1>15, <1>16, <1>17, <1>18, <1>19, <1>20, <1>21, <1>22,
       <1>23, <1>24, <1>25
    DEF Next, ThreadEnter, ThreadStep, LaneStep, WriteSome, ReadSome

-----------------------------------------------------------------------------
(* The send invariant *)

\* Before connect() nothing but connect() and late reads can happen.
LEMMA FreshStep == TypeOK /\ SendInv /\ [Next]_vars => FreshInv'
  <1> SUFFICES ASSUME TypeOK, SendInv, [Next]_vars, conn' = "start" PROVE FreshInv'
    BY DEF FreshInv
  <1> USE DEF sender, buffers, receiver, lanes, app, server, stream
  <1>1. conn = "start"
    BY DEF Next, vars, ThreadEnter, ThreadStep, LaneStep, ServerLane, WriteSome,
           ReadSome, SendAsync, Disconnect, ReceiveAsync, Enter, SendRefuse,
           SendAppend, Post, ReceiveAsyncStart, StartReceive, LaneSend, RunPosted,
           EarlyReturn, TrySend, WriteHandler, TryReceive, ReadHandler, Received,
           DisconnectClose, ClearBuffs, OnDisconnect, Unregister, Connect,
           ConnectTryReceive, ConnectStartReceive, ConnectNotify, ConnectReturn,
           UnregisterSession, WritePerform, WriteFail, ReadPerform, ReadFail
  <1>2. /\ ~connected /\ ~sending /\ write = NoWrite
        /\ send_buff_main = << >> /\ send_buff_flush = << >>
        /\ send_flush_offset = 0
        /\ accepted = 0 /\ wire = << >>
        /\ queue = << >> /\ lane = << >>
        /\ \A t \in Threads : pc[t] = Idle
    BY <1>1 DEF SendInv, FreshInv
  <1>3. \A t \in Threads : ~ThreadEnter(t) /\ ~ThreadStep(t)
    BY <1>2 DEF ThreadEnter, ThreadStep, SendAsync, Disconnect, ReceiveAsync, Enter,
                SendRefuse, SendAppend, Post, ReceiveAsyncStart, Idle
  <1>4. \A n \in Sizes : ~LaneSend(n)
    BY <1>2 DEF LaneSend
  <1>5. LaneStep => \E k \in ReadOps : ReadHandler(k)
    BY <1>2 DEF LaneStep, RunPosted, EarlyReturn, InCallback, At, TrySend,
                WriteHandler, NoWrite, TryReceive, Received, DisconnectClose,
                ClearBuffs, OnDisconnect, Unregister
  <1>6. ~ServerLane
    BY <1>1 DEF ServerLane, Connect, ConnectTryReceive, ConnectStartReceive,
                ConnectNotify, ConnectReturn, UnregisterSession
  <1>7. ~WriteSome
    BY <1>2 DEF WriteSome, WriteFail, WritePerform, NoWrite
  <1>8. UNCHANGED <<connected, sender, lanes, pc, stream>>
    BY <1>2, <1>3, <1>4, <1>5, <1>6, <1>7
    DEF Next, vars, ReadSome, ReadHandler, ReadPerform, ReadFail
  <1> QED
    BY <1>2, <1>8 DEF FreshInv

SendCore ==
    /\ connected => BufferInv
    /\ WriteInv
    /\ Len(wire) <= accepted
    /\ \A i \in 1 .. Len(wire) : wire[i] = i

\* The facts about types the arithmetic below needs.
LEMMA Basics ==
    ASSUME TypeOK
    PROVE  /\ send_buff_main \in Seq(Nat) /\ send_buff_flush \in Seq(Nat)
           /\ Len(send_buff_main) \in Nat /\ Len(send_buff_flush) \in Nat
           /\ wire \in Seq(Nat) /\ Len(wire) \in Nat
           /\ accepted \in Nat /\ send_flush_offset \in Nat
           /\ bytes_sending \in Nat /\ bytes_sent \in Nat /\ bytes_pending \in Nat
           /\ write.n \in Nat /\ write.from \in Nat /\ write.len \in Nat
           /\ write.st \in OpStates
  BY DEF TypeOK, WriteOp

\* sendAsync, called by a thread or by a callback.
LEMMA AppendCore ==
    ASSUME TypeOK, SendCore, NEW n \in Nat, AppendBytes(n),
           UNCHANGED <<connected, sending, write>>
    PROVE  SendCore'
  <1>1. /\ Len(send_buff_main') = Len(send_buff_main) + n
        /\ \A i \in 1 .. Len(send_buff_main) + n :
              send_buff_main'[i] = IF i <= Len(send_buff_main) THEN send_buff_main[i]
                                   ELSE accepted + (i - Len(send_buff_main))
    BY AppendTypes
  <1>2. /\ bytes_pending' = Len(send_buff_main') /\ accepted' = accepted + n
        /\ UNCHANGED <<send_buff_flush, send_flush_offset, bytes_sending, bytes_sent, wire>>
    BY DEF AppendBytes, Insert, Fresh
  <1>3. Before' = Before
    BY <1>1, <1>2, Basics DEF Before
  <1>4. ASSUME connected PROVE BufferInv'
    <2>1. BufferBytes /\ BufferCounts /\ (sending <=> write.st # "none")
      BY <1>4 DEF SendCore, BufferInv
    <2>2. Before \in Int /\ Before + Len(send_buff_flush) + Len(send_buff_main) = accepted
      BY Basics DEF Before
    <2>3. ASSUME NEW i \in 1 .. Len(send_buff_main')
          PROVE  send_buff_main'[i] = Before + Len(send_buff_flush) + i
      <3>1. CASE i <= Len(send_buff_main)
        <4>1. i \in 1 .. Len(send_buff_main)
          BY <1>1, <3>1, Basics
        <4> QED
          BY <1>1, <2>1, <4>1 DEF BufferBytes
      <3>2. CASE ~(i <= Len(send_buff_main))
        BY <1>1, <2>2, <3>2, Basics
      <3> QED
        BY <3>1, <3>2
    <2>4. BufferBytes'
      BY <1>2, <1>3, <2>1, <2>3 DEF BufferBytes
    <2>5. BufferCounts'
      BY <1>1, <1>2, <1>3, <2>1, <2>2, Basics DEF BufferCounts
    <2> QED
      BY <2>1, <2>4, <2>5 DEF BufferInv
  <1>5. WriteInv'
    BY <1>2 DEF SendCore, WriteInv
  <1>6. Len(wire') <= accepted' /\ \A i \in 1 .. Len(wire') : wire'[i] = i
    BY <1>2, Basics DEF SendCore
  <1> QED
    BY <1>4, <1>5, <1>6 DEF SendCore

LEMMA SwapCore ==
    ASSUME TypeOK, BufferBytes, BufferCounts, write.n = 0, Swap,
           UNCHANGED <<bytes_sent, stream>>, write'.n = 0
    PROVE  BufferBytes' /\ BufferCounts'
  <1>1. accepted' = accepted /\ wire' = wire /\ bytes_sent' = bytes_sent
    BY DEF stream
  <1>2. Before \in Int
    BY Basics DEF Before
  <1>3. CASE send_buff_flush = << >>
    <2>1. /\ send_buff_flush' = send_buff_main /\ send_buff_main' = << >>
          /\ send_flush_offset' = 0 /\ bytes_pending' = 0
          /\ bytes_sending' = bytes_sending + Len(send_buff_main)
      BY <1>3 DEF Swap, SwapWith
    <2>2. /\ Len(send_buff_flush) = 0 /\ Len(send_buff_main') = 0
          /\ Len(send_buff_flush') = Len(send_buff_main)
      BY <1>3, <2>1
    <2>3. Before' = Before
      BY <1>1, <2>2, Basics DEF Before
    <2>4. send_flush_offset = 0 /\ bytes_sending = 0
      BY <2>2, Basics DEF BufferCounts
    <2>5. BufferCounts'
      BY <1>1, <1>2, <2>1, <2>2, <2>3, <2>4, Basics DEF BufferCounts
    <2>6. ASSUME NEW i \in 1 .. Len(send_buff_flush') PROVE send_buff_flush'[i] = Before + i
      <3>1. send_buff_main[i] = Before + 0 + i
        BY <2>2, <2>6 DEF BufferBytes
      <3> QED
        BY <1>2, <2>1, <2>2, <3>1, Basics
    <2>7. BufferBytes'
      BY <2>2, <2>3, <2>6 DEF BufferBytes
    <2> QED
      BY <2>5, <2>7
  <1>4. CASE send_buff_flush # << >>
    <2>1. UNCHANGED <<send_buff_flush, send_buff_main, send_flush_offset,
                      bytes_pending, bytes_sending>>
      BY <1>4 DEF Swap, SwapWith
    <2>2. Before' = Before
      BY <1>1, <2>1 DEF Before
    <2>3. BufferBytes'
      BY <2>1, <2>2 DEF BufferBytes
    <2>4. BufferCounts'
      BY <1>1, <2>1, <2>2 DEF BufferCounts
    <2> QED
      BY <2>3, <2>4
  <1> QED
    BY <1>3, <1>4

LEMMA TrySendCore ==
    ASSUME TypeOK, SendCore, TrySend
    PROVE  SendCore'
  <1>1. connected /\ ~sending /\ Swap /\ UNCHANGED <<connected, bytes_sent, stream>>
    BY DEF TrySend, MaySend
  <1>2. BufferBytes /\ BufferCounts /\ (sending <=> write.st # "none")
    BY <1>1 DEF SendCore, BufferInv
  <1>3. write = NoWrite
    BY <1>1, <1>2 DEF SendCore, WriteInv
  <1>4. write.n = 0
    BY <1>3 DEF NoWrite
  <1>5. /\ write'.n = 0
        /\ sending' <=> write'.st # "none"
        /\ WriteInv'
    <2>1. CASE UNCHANGED <<sending, write>>
      BY <1>1, <1>3, <2>1 DEF WriteInv, NoWrite
    <2>2. CASE sending' = TRUE /\ AsyncWriteSome
      BY <1>1, <2>2 DEF WriteInv, AsyncWriteSome, NoWrite
    <2> QED
      BY <2>1, <2>2 DEF TrySend
  <1>6. BufferBytes' /\ BufferCounts'
    BY <1>1, <1>2, <1>4, <1>5, SwapCore
  <1> QED
    BY <1>1, <1>5, <1>6 DEF SendCore, BufferInv, stream

LEMMA WriteHandlerCore ==
    ASSUME TypeOK, SendCore, WriteHandler
    PROVE  SendCore'
  <1>1. /\ write.st = "done" /\ write' = NoWrite /\ sending' = FALSE
        /\ UNCHANGED <<connected, stream>>
    BY DEF WriteHandler
  <1>2. write'.n = 0 /\ write'.st = "none"
    BY <1>1 DEF NoWrite
  <1>3. WriteInv'
    BY <1>1, <1>2 DEF WriteInv
  <1>4. ASSUME connected PROVE BufferInv'
    <2> DEFINE flushed == write.n > 0 /\ send_flush_offset + write.n = Len(send_buff_flush)
    <2>1. BufferBytes /\ BufferCounts
      BY <1>4 DEF SendCore, BufferInv
    <2>7. /\ bytes_sending' = bytes_sending - write.n
          /\ bytes_sent' = bytes_sent + write.n
          /\ bytes_pending' = bytes_pending
      BY <1>4 DEF WriteHandler
    <2>2. /\ send_buff_flush' = IF flushed THEN << >> ELSE send_buff_flush
          /\ send_flush_offset' = IF flushed THEN 0 ELSE send_flush_offset + write.n
          /\ send_buff_main' = send_buff_main
      BY <1>4 DEF WriteHandler
    <2>8. /\ Len(send_buff_main) + Len(send_buff_flush) <= accepted
          /\ send_flush_offset + write.n <= Len(send_buff_flush)
          /\ Len(wire) = Before + send_flush_offset + write.n
          /\ bytes_pending = Len(send_buff_main)
          /\ bytes_sending = Len(send_buff_flush) - send_flush_offset
          /\ bytes_sent + write.n = Len(wire)
      BY <2>1 DEF BufferCounts
    <2>3. accepted' = accepted /\ wire' = wire
      BY <1>1 DEF stream
    <2>9. Len(wire') = Len(wire)
      BY <2>3
    <2>10. /\ Len(wire) \in Nat /\ Len(send_buff_flush) \in Nat /\ write.n \in Nat
           /\ send_flush_offset \in Nat /\ bytes_sent \in Nat /\ bytes_sending \in Nat
      BY Basics
    <2>4. Before \in Int
      BY Basics DEF Before
    <2>5. CASE flushed
      <3>1. /\ send_buff_flush' = << >> /\ send_flush_offset' = 0
            /\ send_flush_offset + write.n = Len(send_buff_flush)
        BY <2>2, <2>5
      <3>2. Len(send_buff_flush') = 0 /\ send_buff_main' = send_buff_main
        BY <2>2, <3>1
      <3>3. Before' = Before + Len(send_buff_flush)
        BY <2>3, <3>2, Basics DEF Before
      <3>4. BufferCounts'
        <4>1. /\ Len(send_buff_main') = Len(send_buff_main)
              /\ Len(send_buff_flush') = 0 /\ send_flush_offset' = 0
          BY <3>1, <3>2
        <4>2. /\ Len(send_buff_main') + Len(send_buff_flush') <= accepted'
              /\ send_flush_offset' + write'.n <= Len(send_buff_flush')
              /\ bytes_pending' = Len(send_buff_main')
          BY <1>2, <2>3, <2>7, <2>8, <4>1, Basics
        <4>3. Len(wire') = Before' + send_flush_offset' + write'.n
          BY <1>2, <2>4, <2>8, <2>9, <2>10, <3>1, <3>3, <4>1
        <4>4. /\ bytes_sending' = Len(send_buff_flush') - send_flush_offset'
              /\ bytes_sent' + write'.n = Len(wire')
          BY <1>2, <2>7, <2>8, <2>9, <2>10, <3>1, <4>1
        <4> QED
          BY <4>2, <4>3, <4>4 DEF BufferCounts
      <3>5. ASSUME NEW i \in 1 .. Len(send_buff_main')
            PROVE  send_buff_main'[i] = Before' + Len(send_buff_flush') + i
        BY <2>1, <2>4, <3>2, <3>3, Basics DEF BufferBytes
      <3>6. BufferBytes'
        BY <3>2, <3>5 DEF BufferBytes
      <3> QED
        BY <1>1, <1>2, <3>4, <3>6 DEF BufferInv
    <2>6. CASE ~flushed
      <3>1. /\ send_buff_flush' = send_buff_flush /\ send_buff_main' = send_buff_main
            /\ send_flush_offset' = send_flush_offset + write.n
        BY <2>2, <2>6
      <3>2. Before' = Before
        BY <2>3, <3>1 DEF Before
      <3>3. BufferBytes'
        BY <2>1, <3>1, <3>2 DEF BufferBytes
      <3>4. BufferCounts'
        <4>1. /\ Len(send_buff_main') = Len(send_buff_main)
              /\ Len(send_buff_flush') = Len(send_buff_flush)
          BY <3>1
        <4>2. /\ Len(send_buff_main') + Len(send_buff_flush') <= accepted'
              /\ send_flush_offset' + write'.n <= Len(send_buff_flush')
              /\ bytes_pending' = Len(send_buff_main')
          BY <1>2, <2>3, <2>7, <2>8, <3>1, <4>1, Basics
        <4>3. Len(wire') = Before' + send_flush_offset' + write'.n
          BY <1>2, <2>4, <2>8, <2>9, <2>10, <3>1, <3>2
        <4>4. /\ bytes_sending' = Len(send_buff_flush') - send_flush_offset'
              /\ bytes_sent' + write'.n = Len(wire')
          BY <1>2, <2>7, <2>8, <2>9, <2>10, <3>1, <4>1
        <4> QED
          BY <4>2, <4>3, <4>4 DEF BufferCounts
      <3> QED
        BY <1>1, <1>2, <3>3, <3>4 DEF BufferInv
    <2> QED
      BY <2>5, <2>6
  <1> QED
    BY <1>1, <1>3, <1>4 DEF SendCore, stream

LEMMA WritePerformCore ==
    ASSUME TypeOK, SendCore, NEW n \in 1 .. write.len, WritePerform(n)
    PROVE  SendCore'
  <1> DEFINE part == SubSeq(send_buff_flush, send_flush_offset + 1, send_flush_offset + n)
  <1>0. /\ write.st = "pending" /\ connected /\ write.n = 0
        /\ write.from = send_flush_offset
        /\ write.len = Len(send_buff_flush) - send_flush_offset
    BY DEF WritePerform, SendCore, WriteInv
  <1>1. /\ wire' = wire \o part
        /\ write' = [write EXCEPT !.st = "done", !.n = n]
        /\ UNCHANGED <<connected, sending, buffers, accepted>>
    BY <1>0 DEF WritePerform
  <1>2. /\ send_buff_flush \in Seq(Nat) /\ send_flush_offset \in Nat
        /\ Len(send_buff_flush) \in Nat
    BY Basics
  <1>3. BufferBytes /\ BufferCounts /\ (sending <=> write.st # "none")
    BY <1>0 DEF SendCore, BufferInv
  <1>4. n \in Nat /\ n >= 1 /\ send_flush_offset + n <= Len(send_buff_flush)
    BY <1>0, <1>2
  <1>5. /\ part \in Seq(Nat) /\ Len(part) = n
        /\ \A i \in 1 .. n : part[i] = send_buff_flush[send_flush_offset + i]
    BY <1>2, <1>4, SubSeqFacts
  <1> HIDE DEF part
  <1>6. Before \in Int /\ Len(wire) = Before + send_flush_offset
    <2>1. Before \in Int
      BY Basics DEF Before
    <2>2. Len(wire) = Before + send_flush_offset + write.n
      BY <1>3 DEF BufferCounts
    <2> QED
      BY <1>0, <1>2, <2>1, <2>2
  <1>7. ASSUME NEW i \in 1 .. n PROVE part[i] = Len(wire) + i
    <2>1. i \in Nat /\ send_flush_offset + i \in 1 .. Len(send_buff_flush)
      BY <1>2, <1>4
    <2>2. send_buff_flush[send_flush_offset + i] = Before + (send_flush_offset + i)
      BY <1>3, <2>1 DEF BufferBytes
    <2>3. part[i] = Before + (send_flush_offset + i)
      BY <1>5, <2>2
    <2> QED
      BY <1>2, <1>6, <2>1, <2>3
  <1>8. /\ Len(wire') = Len(wire) + n
        /\ \A i \in 1 .. Len(wire) + n :
              wire'[i] = IF i <= Len(wire) THEN wire[i] ELSE part[i - Len(wire)]
    BY <1>1, <1>5, Basics, ConcatFacts
  <1>9. \A i \in 1 .. Len(wire') : wire'[i] = i
    <2> SUFFICES ASSUME NEW i \in 1 .. Len(wire) + n PROVE wire'[i] = i
      BY <1>8
    <2>0. Len(wire) \in Nat /\ i \in Nat
      BY <1>4, Basics
    <2>1. CASE i <= Len(wire)
      <3>1. i \in 1 .. Len(wire)
        BY <1>4, <2>0, <2>1
      <3> QED
        BY <1>8, <2>1, <3>1 DEF SendCore
    <2>2. CASE ~(i <= Len(wire))
      <3>1. i - Len(wire) \in 1 .. n
        BY <2>0, <2>2, <1>4
      <3>2. part[i - Len(wire)] = Len(wire) + (i - Len(wire))
        BY <1>7, <3>1
      <3>3. wire'[i] = part[i - Len(wire)]
        BY <1>8, <2>2
      <3> QED
        BY <2>0, <3>2, <3>3
    <2> QED
      BY <2>1, <2>2
  <1>10. write'.n = n /\ write'.st = "done"
    BY <1>1 DEF TypeOK, WriteOp
  <1>11. BufferInv'
    <2>1. /\ Before' = Before
          /\ send_buff_main' = send_buff_main /\ send_buff_flush' = send_buff_flush
          /\ send_flush_offset' = send_flush_offset
          /\ bytes_pending' = bytes_pending /\ bytes_sending' = bytes_sending
          /\ bytes_sent' = bytes_sent /\ accepted' = accepted
      BY <1>1 DEF Before, buffers
    <2>2. BufferBytes'
      BY <1>3, <2>1 DEF BufferBytes
    <2>3. BufferCounts'
      BY <1>0, <1>2, <1>3, <1>4, <1>6, <1>8, <1>10, <2>1, Basics DEF BufferCounts
    <2>4. sending' <=> write'.st # "none"
      BY <1>0, <1>1, <1>3, <1>10
    <2> QED
      BY <2>2, <2>3, <2>4 DEF BufferInv
  <1>12. Len(wire') <= accepted'
    <2>1. Before + Len(send_buff_flush) + Len(send_buff_main) = accepted
      BY Basics DEF Before
    <2>2. accepted' = accepted
      BY <1>1
    <2>3. Len(wire') = Before + (send_flush_offset + n)
      BY <1>2, <1>4, <1>6, <1>8, Basics
    <2>4. Len(send_buff_main) \in Nat
      BY Basics
    <2> QED
      BY <1>2, <1>4, <1>6, <2>1, <2>2, <2>3, <2>4
  <1> QED
    BY <1>1, <1>9, <1>10, <1>11, <1>12 DEF SendCore, WriteInv

\* Steps that touch neither the send path nor the stream.
LEMMA KeepCore ==
    ASSUME SendCore, UNCHANGED <<connected, sender, stream>>
    PROVE  SendCore'
  <1> USE DEF sender, buffers, stream
  <1>1. Before' = Before
    BY DEF Before
  <1>2. connected => BufferInv'
    BY <1>1 DEF SendCore, BufferInv, BufferBytes, BufferCounts
  <1>3. WriteInv'
    BY DEF SendCore, WriteInv
  <1> QED
    BY <1>2, <1>3 DEF SendCore

\* close() leaves no write outstanding.
LEMMA CloseCore ==
    ASSUME TypeOK, SendCore, DisconnectClose
    PROVE  SendCore'
  <1>1. connected' = FALSE /\ write' = Cancel(write) /\ UNCHANGED stream
    BY DEF DisconnectClose
  <1>2. write'.st # "pending" /\ (write'.st = "none" => write' = write)
    BY <1>1 DEF Cancel, TypeOK, WriteOp
  <1>3. WriteInv'
    BY <1>2 DEF SendCore, WriteInv
  <1> QED
    BY <1>1, <1>3 DEF SendCore, stream

LEMMA WriteFailCore ==
    ASSUME TypeOK, SendCore, WriteFail
    PROVE  SendCore'
  <1>1. /\ write.st = "pending" /\ write' = Cancel(write)
        /\ UNCHANGED <<connected, sending, buffers, stream>>
    BY DEF WriteFail
  <1>2. write'.st = "done" /\ write'.n = write.n
    BY <1>1 DEF Cancel, TypeOK, WriteOp
  <1>3. WriteInv'
    BY <1>2 DEF WriteInv
  <1>4. Before' = Before
    BY <1>1 DEF Before, buffers, stream
  <1>5. ASSUME connected PROVE BufferInv'
    <2>1. BufferBytes /\ BufferCounts /\ (sending <=> write.st # "none")
      BY <1>5 DEF SendCore, BufferInv
    <2>2. BufferBytes'
      BY <1>1, <1>4, <2>1 DEF BufferBytes, buffers
    <2>3. BufferCounts'
      BY <1>1, <1>2, <1>4, <2>1 DEF BufferCounts, buffers, stream
    <2> QED
      BY <1>1, <1>2, <2>1, <2>2, <2>3 DEF BufferInv
  <1> QED
    BY <1>1, <1>3, <1>5 DEF SendCore, stream

\* clearBuffs() runs when the session is no longer connected.
LEMMA ClearCore ==
    ASSUME SendCore, ~connected, ClearBuffs
    PROVE  SendCore'
  <1>1. UNCHANGED <<connected, write, stream>>
    BY DEF ClearBuffs
  <1>2. WriteInv'
    BY <1>1 DEF SendCore, WriteInv
  <1> QED
    BY <1>1, <1>2 DEF SendCore, stream

LEMMA ConnectCore ==
    ASSUME SendInv, Connect
    PROVE  SendCore'
  <1>1. /\ ~sending /\ write = NoWrite
        /\ send_buff_main = << >> /\ send_buff_flush = << >>
        /\ send_flush_offset = 0
        /\ accepted = 0 /\ wire = << >>
    BY DEF Connect, SendInv, FreshInv
  <1>2. /\ UNCHANGED <<sending, write, send_buff_main, send_buff_flush, send_flush_offset, stream>>
        /\ bytes_sending' = 0 /\ bytes_sent' = 0 /\ bytes_pending' = 0
    BY DEF Connect
  <1>3. /\ Len(send_buff_main') = 0 /\ Len(send_buff_flush') = 0 /\ Len(wire') = 0
        /\ accepted' = 0 /\ send_flush_offset' = 0
    BY <1>1, <1>2 DEF stream
  <1>8. write'.n = 0 /\ write'.st = "none" /\ write' = NoWrite
    BY <1>1, <1>2 DEF NoWrite
  <1>9. Before' = 0
    BY <1>3 DEF Before
  <1>4. BufferBytes'
    BY <1>3, <1>9 DEF BufferBytes
  <1>5. BufferCounts'
    BY <1>2, <1>3, <1>8, <1>9 DEF BufferCounts
  <1>6. BufferInv'
    BY <1>1, <1>2, <1>8, <1>4, <1>5 DEF BufferInv
  <1>7. WriteInv'
    BY <1>8 DEF WriteInv
  <1> QED
    BY <1>3, <1>6, <1>7 DEF SendCore

\* Only the disconnect handler leaves frames that run on a closed session.
LEMMA LaneStepInv ==
    ASSUME TypeOK, SendInv, [Next]_vars, connected'
    PROVE  lane' \in Seq(OpenFrames)
  <1> USE DEF lanes, server
  <1>0. connected => lane \in Seq(OpenFrames)
    BY DEF SendInv
  <1>1. CASE Connect
    <2>1. lane' = << >>
      BY <1>1 DEF Connect, SendInv, FreshInv
    <2> QED
      BY <2>1
  <1>2. ASSUME connected, UNCHANGED lane PROVE lane' \in Seq(OpenFrames)
    BY <1>0, <1>2
  <1>3. ASSUME connected, lane # << >>, Return PROVE lane' \in Seq(OpenFrames)
    BY <1>0, <1>3 DEF Return
  <1>4. ASSUME NEW n \in Sizes, LaneSend(n) PROVE lane' \in Seq(OpenFrames)
    <2>1. connected /\ (lane' = <<"trySend">> \o lane \/ UNCHANGED lane)
      BY <1>4 DEF LaneSend
    <2>2. "trySend" \in OpenFrames
      BY FrameTypes
    <2>3. <<"trySend">> \o lane \in Seq(OpenFrames)
      BY <1>0, <2>1, <2>2, PushFacts
    <2> QED
      BY <1>0, <2>1, <2>3
  <1>5. CASE RunPosted
    <2>1. queue \in Seq({"trySend", "disconnect"}) /\ queue # << >>
      BY <1>5 DEF RunPosted, TypeOK
    <2>2. Head(queue) \in {"trySend", "disconnect"}
      BY <2>1
    <2> QED
      BY <1>5, <2>2, FrameTypes DEF RunPosted
  <1>6. CASE TrySend
    <2>1. At("trySend") /\ connected /\ (GoTo("onEmpty") \/ Return)
      BY <1>6 DEF TrySend, MaySend
    <2>2. lane # << >> /\ lane \in Seq(OpenFrames)
      BY <1>0, <2>1 DEF At
    <2>3. <<"onEmpty">> \o Tail(lane) \in Seq(OpenFrames)
      BY <2>2, PushFacts, FrameTypes
    <2> QED
      BY <1>3, <2>1, <2>2, <2>3 DEF GoTo
  <1>7. CASE WriteHandler
    BY <1>7, <1>2, FrameTypes DEF WriteHandler
  <1>8. ASSUME NEW k \in ReadOps, ReadHandler(k) PROVE lane' \in Seq(OpenFrames)
    BY <1>8, <1>2, FrameTypes DEF ReadHandler
  <1>9. CASE Received
    <2>1. lane # << >> /\ connected /\ (Return \/ lane' = <<"disconnect">>)
      BY <1>9 DEF Received, At
    <2> QED
      BY <1>3, <2>1, FrameTypes
  <1>10. CASE EarlyReturn \/ TryReceive
    <2>1. lane # << >> /\ connected /\ Return
      BY <1>10 DEF EarlyReturn, TryReceive, At, InCallback, StartReceive
    <2> QED
      BY <1>3, <2>1
  <1>11. ~DisconnectClose
    BY DEF DisconnectClose
  <1>12. ~ClearBuffs /\ ~OnDisconnect /\ ~Unregister
    <2>1. ASSUME connected, lane # << >> PROVE Head(lane) \in OpenFrames
      BY <1>0, <2>1
    <2>2. ClearBuffs \/ OnDisconnect \/ Unregister => connected /\ lane # << >>
      BY DEF ClearBuffs, OnDisconnect, Unregister, At
    <2>3. /\ "clearBuffs" \notin OpenFrames /\ "onDisconnect" \notin OpenFrames
          /\ "unregister" \notin OpenFrames
      BY DEF OpenFrames, Callbacks
    <2> QED
      BY <2>1, <2>2, <2>3 DEF ClearBuffs, OnDisconnect, Unregister, At
  <1>13. ASSUME NEW t \in Threads, ThreadEnter(t) \/ ThreadStep(t)
         PROVE  connected /\ UNCHANGED lane
    BY <1>13 DEF ThreadEnter, ThreadStep, SendAsync, Disconnect, ReceiveAsync, Enter,
                 SendRefuse, SendAppend, Post, ReceiveAsyncStart, StartReceive
  <1>14. ServerLane => Connect \/ (connected /\ UNCHANGED lane)
    BY DEF ServerLane, ConnectTryReceive, ConnectStartReceive, StartReceive,
           ConnectNotify, ConnectReturn, UnregisterSession
  <1>15. WriteSome \/ (\E k \in ReadOps : ReadSome(k)) => connected /\ UNCHANGED lane
    BY DEF WriteSome, WriteFail, WritePerform, ReadSome, ReadPerform, ReadFail
  <1>16. UNCHANGED vars => connected /\ UNCHANGED lane
    BY DEF vars
  <1> QED
    BY <1>1, <1>2, <1>4, <1>5, <1>6, <1>7, <1>8, <1>9, <1>10, <1>11, <1>12, <1>13,
       <1>14, <1>15, <1>16 DEF Next, LaneStep

LEMMA SendStep == TypeOK /\ SendInv /\ [Next]_vars => SendInv'
  <1> SUFFICES ASSUME TypeOK, SendInv, [Next]_vars PROVE SendInv'
    OBVIOUS
  <1>0. SendCore
    BY DEF SendInv, SendCore
  <1>1. SendCore'
    <2> USE DEF sender, lanes, stream, receiver, app, server
    <2>1. ASSUME NEW t \in Threads, SendAppend(t) PROVE SendCore'
      <3>1. pc[t].n \in Nat
        BY DEF TypeOK
      <3> QED
        BY <1>0, <2>1, <3>1, AppendCore DEF SendAppend
    <2>2. ASSUME NEW n \in Sizes, LaneSend(n) PROVE SendCore'
      <3>1. UNCHANGED <<connected, sending, write>>
        BY <2>2 DEF LaneSend
      <3>2. CASE UNCHANGED <<buffers, stream>>
        BY <1>0, <3>1, <3>2, KeepCore
      <3>3. CASE AppendBytes(n)
        BY <1>0, <3>1, <3>3, AppendCore, SizesAssumption
      <3> QED
        BY <2>2, <3>2, <3>3 DEF LaneSend
    <2>3. CASE TrySend
      BY <1>0, <2>3, TrySendCore
    <2>4. CASE WriteHandler
      BY <1>0, <2>4, WriteHandlerCore
    <2>5. CASE DisconnectClose
      BY <1>0, <2>5, CloseCore
    <2>6. CASE ClearBuffs
      <3>1. ~connected
        <4>1. At("clearBuffs")
          BY <2>6 DEF ClearBuffs
        <4>2. connected => Head(lane) \in OpenFrames
          BY <4>1 DEF SendInv, At
        <4> QED
          BY <4>1, <4>2 DEF At, OpenFrames, Callbacks
      <3> QED
        BY <1>0, <2>6, <3>1, ClearCore
    <2>7. CASE Connect
      BY <2>7, ConnectCore
    <2>8. ASSUME NEW n \in 1 .. write.len, WritePerform(n) PROVE SendCore'
      BY <1>0, <2>8, WritePerformCore
    <2>9. CASE WriteFail
      BY <1>0, <2>9, WriteFailCore
    <2>10. ASSUME UNCHANGED <<connected, sender, stream>> PROVE SendCore'
      BY <1>0, <2>10, KeepCore
    <2>11. ASSUME NEW t \in Threads, ThreadEnter(t) \/ ThreadStep(t), ~SendAppend(t)
           PROVE  UNCHANGED <<connected, sender, stream>>
      BY <2>11 DEF ThreadEnter, ThreadStep, SendAsync, Disconnect, ReceiveAsync, Enter,
                   SendRefuse, Post, ReceiveAsyncStart, StartReceive
    <2>12. RunPosted \/ EarlyReturn \/ TryReceive \/ Received
           \/ OnDisconnect \/ Unregister \/ (\E k \in ReadOps : ReadHandler(k))
             => UNCHANGED <<connected, sender, stream>>
      BY DEF RunPosted, EarlyReturn, TryReceive, StartReceive, Received, OnDisconnect,
             Unregister, ReadHandler
    <2>13. ServerLane => Connect \/ UNCHANGED <<connected, sender, stream>>
      BY DEF ServerLane, ConnectTryReceive, ConnectStartReceive, StartReceive,
             ConnectNotify, ConnectReturn, UnregisterSession
    <2>14. (\E k \in ReadOps : ReadSome(k)) => UNCHANGED <<connected, sender, stream>>
      BY DEF ReadSome, ReadPerform, ReadFail
    <2>15. UNCHANGED vars => UNCHANGED <<connected, sender, stream>>
      BY DEF vars
    <2> QED
      BY <2>1, <2>2, <2>3, <2>4, <2>5, <2>6, <2>7, <2>8, <2>9, <2>10, <2>11, <2>12,
         <2>13, <2>14, <2>15 DEF Next, LaneStep, WriteSome
  <1>2. FreshInv'
    BY FreshStep
  <1>3. connected' => lane' \in Seq(OpenFrames)
    BY LaneStepInv
  <1> QED
    BY <1>1, <1>2, <1>3 DEF SendInv, SendCore

-----------------------------------------------------------------------------
(* Theorems *)

\* The inductive invariant: types, and where every buffered byte sits.
THEOREM SendInvariant == Spec => [](TypeOK /\ SendInv)
  <1>1. Init => TypeOK /\ SendInv
    BY InitInv
  <1>2. TypeOK /\ SendInv /\ [Next]_vars => (TypeOK /\ SendInv)'
    BY TypeStep, SendStep
  <1> QED
    BY <1>1, <1>2, PTL DEF Spec

\* The fields of a session keep their types along every behaviour; no counter
\* of bytes goes below zero.
THEOREM Types == Spec => []TypeOK
  BY SendInvariant, PTL

\* A piece of the sequence 1, 2, 3, ... followed by the next piece of it.
LEMMA Extend ==
    ASSUME NEW s \in Seq(Nat), NEW t \in Seq(Nat),
           \A i \in 1 .. Len(s) : s[i] = i,
           \A i \in 1 .. Len(t) : t[i] = Len(s) + i
    PROVE  /\ s \o t \in Seq(Nat)
           /\ Len(s \o t) = Len(s) + Len(t)
           /\ \A i \in 1 .. Len(s \o t) : (s \o t)[i] = i
  <1>0. Len(s) \in Nat /\ Len(t) \in Nat
    OBVIOUS
  <1>1. /\ s \o t \in Seq(Nat)
        /\ Len(s \o t) = Len(s) + Len(t)
        /\ \A i \in 1 .. Len(s) + Len(t) :
              (s \o t)[i] = IF i <= Len(s) THEN s[i] ELSE t[i - Len(s)]
    BY ConcatFacts
  <1>2. ASSUME NEW i \in 1 .. Len(s) + Len(t) PROVE (s \o t)[i] = i
    <2>1. CASE i <= Len(s)
      BY <1>0, <1>1, <2>1
    <2>2. CASE ~(i <= Len(s))
      <3>1. i - Len(s) \in 1 .. Len(t)
        BY <1>0, <2>2
      <3>2. t[i - Len(s)] = Len(s) + (i - Len(s))
        BY <3>1
      <3>3. (s \o t)[i] = t[i - Len(s)]
        BY <1>1, <2>2
      <3> QED
        BY <1>0, <3>2, <3>3
    <2> QED
      BY <2>1, <2>2
  <1> QED
    BY <1>1, <1>2

\* A sequence that counts from 1 is determined by its length.
LEMMA Counting ==
    ASSUME NEW s \in Seq(Nat), NEW a \in Nat, Len(s) = a, \A i \in 1 .. a : s[i] = i
    PROVE  s = [i \in 1 .. a |-> i]
  OBVIOUS

\* While connected, carried, flushing and main bytes are the accepted ones.
LEMMA NothingLost ==
    ASSUME TypeOK, SendInv, connected
    PROVE  wire \o Unsent \o send_buff_main = [i \in 1 .. accepted |-> i]
  <1> DEFINE m == send_flush_offset + write.n
             k == Len(send_buff_flush) - m
  <1>1. BufferBytes /\ BufferCounts
    BY DEF SendInv, BufferInv
  <1>2. /\ Len(wire) \in Nat /\ Len(send_buff_flush) \in Nat /\ Len(send_buff_main) \in Nat
        /\ accepted \in Nat /\ send_flush_offset \in Nat /\ write.n \in Nat /\ m \in Nat
    BY Basics
  <1>3. m <= Len(send_buff_flush) /\ Len(wire) = Before + m
    <2>1. /\ send_flush_offset + write.n <= Len(send_buff_flush)
          /\ Len(wire) = Before + send_flush_offset + write.n
      BY <1>1 DEF BufferCounts
    <2>2. Before \in Int
      BY <1>2 DEF Before
    <2> QED
      BY <1>2, <2>1, <2>2
  <1>4. Before \in Int /\ Before + Len(send_buff_flush) + Len(send_buff_main) = accepted
    BY <1>2 DEF Before
  <1>5. Unsent = SubSeq(send_buff_flush, m + 1, Len(send_buff_flush))
    BY DEF Unsent
  <1> HIDE DEF m
  <1>6. k \in Nat /\ m + k = Len(send_buff_flush)
    BY <1>2, <1>3
  <1> HIDE DEF k
  <1>7. wire \in Seq(Nat) /\ send_buff_flush \in Seq(Nat) /\ send_buff_main \in Seq(Nat)
    BY Basics
  <1>8. /\ Unsent \in Seq(Nat) /\ Len(Unsent) = k
        /\ \A i \in 1 .. k : Unsent[i] = send_buff_flush[m + i]
    <2>1. Unsent = SubSeq(send_buff_flush, m + 1, m + k)
      BY <1>5, <1>6
    <2>2. m + k <= Len(send_buff_flush)
      BY <1>2, <1>6
    <2> QED
      BY ONLY <1>2, <1>6, <1>7, <2>1, <2>2, SubSeqFacts
  <1>9. ASSUME NEW i \in 1 .. Len(Unsent) PROVE Unsent[i] = Len(wire) + i
    <2>1. i \in 1 .. k /\ m + i \in 1 .. Len(send_buff_flush)
      BY <1>2, <1>6, <1>8
    <2>2. send_buff_flush[m + i] = Before + (m + i)
      BY <1>1, <2>1 DEF BufferBytes
    <2>3. Unsent[i] = send_buff_flush[m + i]
      BY <1>8, <2>1
    <2> QED
      BY <1>2, <1>3, <1>4, <2>1, <2>2, <2>3
  <1>10. Before + Len(send_buff_flush) = Len(wire) + Len(Unsent)
    BY <1>2, <1>3, <1>4, <1>6, <1>8
  <1>11. ASSUME NEW i \in 1 .. Len(send_buff_main)
         PROVE  send_buff_main[i] = Len(wire) + Len(Unsent) + i
    <2>1. send_buff_main[i] = Before + Len(send_buff_flush) + i
      BY <1>1 DEF BufferBytes
    <2> QED
      BY <1>10, <2>1
  <1>12. Len(wire) + Len(Unsent) + Len(send_buff_main) = accepted
    BY <1>4, <1>10
  <1>13. \A i \in 1 .. Len(wire) : wire[i] = i
    BY DEF SendInv
  <1>14. /\ \A i \in 1 .. Len(Unsent) : Unsent[i] = Len(wire) + i
         /\ \A i \in 1 .. Len(send_buff_main) :
               send_buff_main[i] = Len(wire) + Len(Unsent) + i
    BY <1>9, <1>11
  <1>15. /\ wire \o Unsent \in Seq(Nat) /\ Len(wire \o Unsent) = Len(wire) + Len(Unsent)
         /\ \A i \in 1 .. Len(wire \o Unsent) : (wire \o Unsent)[i] = i
    BY ONLY <1>7, <1>8, <1>13, <1>14, Extend
  <1>16. \A i \in 1 .. Len(send_buff_main) : send_buff_main[i] = Len(wire \o Unsent) + i
    BY ONLY <1>14, <1>15
  <1> DEFINE front == wire \o Unsent
             all == front \o send_buff_main
  <1> HIDE DEF front
  <1>17. /\ all \in Seq(Nat) /\ Len(all) = Len(front) + Len(send_buff_main)
         /\ \A i \in 1 .. Len(all) : all[i] = i
    BY ONLY <1>7, <1>15, <1>16, Extend DEF front
  <1>18. Len(all) = accepted
    BY ONLY <1>12, <1>15, <1>17 DEF front
  <1> HIDE DEF all
  <1>19. all = [i \in 1 .. accepted |-> i]
    BY ONLY <1>2, <1>17, <1>18, Counting
  <1> QED
    BY <1>19 DEF all, front

\* What the socket carries is the accepted stream: no byte is lost, repeated or
\* reordered by partial writes, buffer swaps and concurrent senders.
THEOREM StreamIntegrityHolds == Spec => []StreamIntegrity
  <1>1. TypeOK /\ SendInv => StreamIntegrity
    <2> SUFFICES ASSUME TypeOK, SendInv PROVE StreamIntegrity
      OBVIOUS
    <2>1. Len(wire) <= accepted /\ \A i \in 1 .. Len(wire) : wire[i] = i
      BY DEF SendInv
    <2> QED
      BY <2>1, NothingLost DEF StreamIntegrity
  <1> QED
    BY <1>1, SendInvariant, PTL

\* The byte counters agree with the buffers and with the socket.
THEOREM AccountingHolds == Spec => []Accounting
  <1>1. TypeOK /\ SendInv => Accounting
    BY DEF SendInv, BufferInv, BufferCounts, Accounting
  <1> QED
    BY <1>1, SendInvariant, PTL
=============================================================================
