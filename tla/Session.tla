------------------------------- MODULE Session -------------------------------
(***************************************************************************)
(* One Tcp::Session of a Server: the double-buffered asynchronous send     *)
(* path, the receive loop, connect and disconnect.                         *)
(*                                                                         *)
(* Three kinds of process touch a session:                                 *)
(*   - application Threads that call sendAsync, receiveAsync, disconnect;  *)
(*   - the session's lane, which runs its handlers one at a time: the      *)
(*     thread of its own io_service, or its strand;                        *)
(*   - the server's lane, which runs connect() and unregisterSession.      *)
(* Both lanes are one thread iff SharedLane.  The kernel performs the      *)
(* outstanding read and write in between.                                  *)
(*                                                                         *)
(* A byte is named by its position in the stream of accepted bytes, so     *)
(* `wire' shows loss, duplication and reordering.  A variable has the name *)
(* of the field it models without the leading underscore.                  *)
(***************************************************************************)
EXTENDS Naturals, Sequences, FiniteSets

CONSTANTS
    Threads,            \* application threads
    Sizes,              \* sizes an application passes to sendAsync
    SendLimit,          \* _send_limit, 0 = unlimited
    ReceiveLimit,       \* _receive_limit, 0 = unlimited
    ReceiveBufferSize,  \* SO_RCVBUF, the first size of _receive_buff
    SharedLane,         \* server and session run on the same thread
    MaxSends,           \* bound: calls of sendAsync
    MaxDisconnects,     \* bound: calls of disconnect()
    MaxReceives,        \* bound: calls of receiveAsync()
    MaxBytesReceived    \* bound: bytes the peer sends

ASSUME SizesAssumption == Sizes \subseteq Nat \ {0}
ASSUME LimitsAssumption ==
    /\ SendLimit \in Nat
    /\ ReceiveLimit \in Nat
    /\ ReceiveBufferSize \in Nat \ {0}
ASSUME LaneAssumption == SharedLane \in BOOLEAN
ASSUME BoundsAssumption ==
    /\ MaxSends \in Nat /\ MaxDisconnects \in Nat
    /\ MaxReceives \in Nat /\ MaxBytesReceived \in Nat

VARIABLES
    connected,
    sending, send_buff_main, send_buff_flush, send_flush_offset,
    bytes_pending, bytes_sending, bytes_sent,
    write,              \* the outstanding async_write_some
    receiving, bytes_received,
    receive_buff,       \* size of _receive_buff
    read,               \* the outstanding async_read_somes, one per slot
    size,               \* the size argument of the read handler in progress
    queue,              \* handlers posted to the session's lane, in order
    lane,               \* call stack of the handler the lane runs, top first
    pc,                 \* where each thread is in a call, and the size it sends
    calls,              \* calls made, for the bounds
    conn,               \* where connect() is
    unregister,         \* "none", "posted" to the server's lane, or "done"
    told,               \* history: onConnect and onDisconnect callbacks begun
    accepted,           \* history: bytes accepted by sendAsync
    wire                \* history: bytes the socket carried

buffers == <<send_buff_main, send_buff_flush, send_flush_offset,
             bytes_pending, bytes_sending, bytes_sent>>
sender == <<sending, write, buffers>>
receiver == <<receiving, bytes_received, receive_buff, read, size>>
lanes == <<queue, lane>>
app == <<pc, calls>>
server == <<conn, unregister, told>>
stream == <<accepted, wire>>

vars == <<connected, sender, receiver, lanes, app, server, stream>>

-----------------------------------------------------------------------------
ReadOps == 1 .. 2

NoWrite == [st |-> "none", from |-> 0, len |-> 0, n |-> 0, err |-> FALSE]
NoRead == [st |-> "none", len |-> 0, n |-> 0, err |-> FALSE]
Idle == [at |-> "idle", n |-> 0]

Callbacks == {"onReceive", "onSend", "onEmpty"}
CallNames == {"send", "disconnect", "receive"}

Init ==
    /\ connected = FALSE /\ receiving = FALSE /\ sending = FALSE
    /\ send_buff_main = << >> /\ send_buff_flush = << >>
    /\ send_flush_offset = 0
    /\ bytes_pending = 0 /\ bytes_sending = 0
    /\ bytes_sent = 0 /\ bytes_received = 0
    /\ write = NoWrite
    /\ receive_buff = 0 /\ size = 0
    /\ read = [k \in ReadOps |-> NoRead]
    /\ queue = << >> /\ lane = << >>
    /\ pc = [t \in Threads |-> Idle]
    /\ calls = [c \in CallNames |-> 0]
    /\ conn = "start" /\ unregister = "none" /\ told = << >>
    /\ accepted = 0 /\ wire = << >>

-----------------------------------------------------------------------------
(* The lane: a stack of calls, and the handlers that wait for it.          *)

At(frame) == lane # << >> /\ Head(lane) = frame
InCallback == lane # << >> /\ Head(lane) \in Callbacks
Return == lane' = Tail(lane)
GoTo(frame) == lane' = <<frame>> \o Tail(lane)

\* Fault: connect() posts its callbacks instead of calling them.
LaneFreeEarly == lane = << >> /\ (SharedLane => conn \notin {"start", "tryReceive"})

\* connect() keeps the lane busy when the server runs on the same thread.
LaneFree == lane = << >> /\ (SharedLane => conn = "done")

\* The first tests of trySend, of tryReceive and of the disconnect handler.
\* Faults: trySend does not test _sending; the handler tests nothing.
MaySendAgain == connected
MayDisconnectAgain == TRUE

MaySend == ~sending /\ connected
MayReceive == ~receiving /\ connected
MayDisconnect == connected

\* The lane takes the next posted handler.
RunPosted ==
    /\ LaneFree
    /\ queue # << >>
    /\ lane' = <<Head(queue)>>
    /\ queue' = Tail(queue)
    /\ UNCHANGED <<connected, sender, receiver, app, server, stream>>

\* A callback returns, or a function leaves at its first test.
EarlyReturn ==
    /\ \/ InCallback
       \/ At("trySend") /\ ~MaySend
       \/ At("tryReceive") /\ ~MayReceive
       \/ At("disconnect") /\ ~MayDisconnect
    /\ Return
    /\ UNCHANGED <<connected, sender, receiver, queue, app, server, stream>>

-----------------------------------------------------------------------------
(* Calls by application threads.  Each tests the flags first and acts in a  *)
(* later step.                                                              *)

Enter(t, call, at, n, limit) ==
    /\ pc[t] = Idle
    /\ calls[call] < limit
    /\ connected
    /\ pc' = [pc EXCEPT ![t] = [at |-> at, n |-> n]]
    /\ calls' = [calls EXCEPT ![call] = @ + 1]
    /\ UNCHANGED <<connected, sender, receiver, lanes, server, stream>>

SendAsync(t, n) == Enter(t, "send", "append", n, MaxSends)

Disconnect(t) == Enter(t, "disconnect", "disconnect", 0, MaxDisconnects)

ReceiveAsync(t) == ~receiving /\ Enter(t, "receive", "receive", 0, MaxReceives)

\* The critical section of sendAsync refuses, or appends n fresh bytes.
\* Fault: the size of the new data is left out.
OverLimitWithoutSize(n) == SendLimit > 0 /\ Len(send_buff_main) > SendLimit

OverLimit(n) == SendLimit > 0 /\ Len(send_buff_main) + n > SendLimit

\* Whether this call must start the flush itself.
MultipleSends == send_buff_main = << >> \/ send_buff_flush = << >>

Insert(bytes, n) ==
    /\ send_buff_main' = send_buff_main \o bytes
    /\ bytes_pending' = Len(send_buff_main')
    /\ accepted' = accepted + n
    /\ UNCHANGED <<send_buff_flush, send_flush_offset, bytes_sending,
                   bytes_sent, wire>>

Fresh(n) == [i \in 1 .. n |-> accepted + i]

\* Fault: the early return of a call that need not flush comes before the
\* bytes are inserted.
AppendBytesLate(n) == Insert(IF MultipleSends THEN Fresh(n) ELSE << >>, n)

AppendBytes(n) == Insert(Fresh(n), n)

SendRefuse(t) ==
    /\ pc[t].at = "append"
    /\ OverLimit(pc[t].n)
    /\ pc' = [pc EXCEPT ![t] = Idle]
    /\ UNCHANGED <<connected, sender, receiver, lanes, calls, server, stream>>

SendAppend(t) ==
    /\ pc[t].at = "append"
    /\ ~OverLimit(pc[t].n)
    /\ AppendBytes(pc[t].n)
    /\ pc' = [pc EXCEPT ![t] = IF MultipleSends THEN [at |-> "trySend", n |-> 0]
                                                ELSE Idle]
    /\ UNCHANGED <<connected, sending, write, receiver, lanes, calls,
                   server>>

\* trySend and the handler of disconnect() are posted to the lane: dispatch
\* from a thread that does not run the lane is a post too.
Post(t) ==
    /\ pc[t].at \in {"trySend", "disconnect"}
    /\ queue' = Append(queue, pc[t].at)
    /\ pc' = [pc EXCEPT ![t] = Idle]
    /\ UNCHANGED <<connected, sender, receiver, lane, calls, server,
                   stream>>

\* sendAsync called by a callback on the session's lane: dispatch() runs
\* trySend before it returns.
LaneSend(n) ==
    /\ \/ InCallback
       \/ SharedLane /\ lane = << >> /\ conn \in {"onConnect", "onEmpty"}
    /\ calls["send"] < MaxSends
    /\ connected
    /\ calls' = [calls EXCEPT !["send"] = @ + 1]
    /\ \/ /\ OverLimit(n)
                /\ UNCHANGED <<buffers, lane, stream>>
       \/ /\ ~OverLimit(n)
          /\ AppendBytes(n)
          /\ lane' = IF MultipleSends THEN <<"trySend">> \o lane ELSE lane
    /\ UNCHANGED <<connected, sending, write, receiver, queue, pc, server>>

-----------------------------------------------------------------------------
(* trySend and the completion of its write *)

\* Under _send_lock, take over what the application has buffered.
\* Faults: _bytes_sending or _bytes_pending is not updated; the swap is made
\* although part of the flush buffer is still to be sent.
SwapWith(take, pending, added) ==
    IF take
    THEN /\ send_buff_flush' = send_buff_main
         /\ send_buff_main' = << >>
         /\ send_flush_offset' = 0
         /\ bytes_pending' = pending
         /\ bytes_sending' = bytes_sending + added
    ELSE UNCHANGED <<send_buff_flush, send_buff_main, send_flush_offset,
                     bytes_pending, bytes_sending>>

SwapUncounted == SwapWith(send_buff_flush = << >>, 0, 0)
SwapPendingKept == SwapWith(send_buff_flush = << >>, bytes_pending, Len(send_buff_main))
SwapAlways == SwapWith(send_buff_main # << >>, 0, Len(send_buff_main))

Swap == SwapWith(send_buff_flush = << >>, 0, Len(send_buff_main))

\* async_write_some of the part of _send_buff_flush that is not yet sent.
\* Fault: the data pointer and the size ignore _send_flush_offset.
AsyncWriteSomeFromStart ==
    write' = [NoWrite EXCEPT !.st = "pending", !.len = Len(send_buff_flush')]

AsyncWriteSome ==
    write' = [NoWrite EXCEPT !.st = "pending",
                             !.from = send_flush_offset',
                             !.len = Len(send_buff_flush') - send_flush_offset']

TrySend ==
    /\ At("trySend")
    /\ MaySend
    /\ Swap
    /\ \/ /\ send_buff_flush' = << >>
          /\ GoTo("onEmpty")
          /\ UNCHANGED <<sending, write>>
       \/ /\ send_buff_flush' # << >>
          /\ sending' = TRUE
          /\ AsyncWriteSome
          /\ Return
    /\ UNCHANGED <<connected, bytes_sent, receiver, queue, app, server, stream>>

\* What the write handler still has to call: onSend, then trySend or disconnect.
\* Fault: a partial write is not continued.
AfterWriteStop(op) ==
    IF op.err THEN <<"disconnect">> ELSE IF op.n > 0 THEN <<"onSend">> ELSE << >>

AfterWrite(op) ==
    (IF op.n > 0 THEN <<"onSend">> ELSE << >>) \o
    (IF op.err THEN <<"disconnect">> ELSE <<"trySend">>)

\* The write handler up to onSend(); a late completion of a closed session
\* only clears the flag.
WriteHandler ==
    /\ LaneFree
    /\ write.st = "done"
    /\ write' = NoWrite
    /\ sending' = FALSE
    /\ \/ ~connected /\ UNCHANGED <<buffers, lane>>
       \/ /\ connected
          /\ LET offset == send_flush_offset + write.n
                 flushed == write.n > 0 /\ offset = Len(send_buff_flush)
             IN /\ bytes_sending' = bytes_sending - write.n
                /\ bytes_sent' = bytes_sent + write.n
                /\ send_buff_flush' = IF flushed THEN << >> ELSE send_buff_flush
                /\ send_flush_offset' = IF flushed THEN 0 ELSE offset
                /\ lane' = AfterWrite(write)
          /\ UNCHANGED <<send_buff_main, bytes_pending>>
    /\ UNCHANGED <<connected, receiver, queue, app, server, stream>>

-----------------------------------------------------------------------------
(* The receive loop *)

\* async_read_some into the whole of _receive_buff; on a closed socket it
\* completes with an error.
AsyncReadSome ==
    \E k \in ReadOps :
        /\ read[k].st = "none"
        /\ k = 2 => read[1].st # "none"
        /\ read' = [read EXCEPT ![k] =
               [NoRead EXCEPT !.st = IF connected THEN "pending" ELSE "done",
                              !.len = receive_buff,
                              !.err = ~connected]]

StartReceive ==
    /\ receiving' = TRUE
    /\ AsyncReadSome
    /\ UNCHANGED <<connected, sender, bytes_received, receive_buff, size, queue,
                   calls, unregister, stream>>

TryReceive ==
    /\ At("tryReceive")
    /\ MayReceive
    /\ StartReceive
    /\ Return
    /\ UNCHANGED <<pc, conn, told>>

ReceiveAsyncStart(t) ==
    /\ pc[t].at = "receive"
    /\ StartReceive
    /\ pc' = [pc EXCEPT ![t] = Idle]
    /\ UNCHANGED <<lane, conn, told>>

\* What the read handler still has to call.
\* Fault: the next read is started before the buffer is resized.
AfterReadRearmFirst(op) ==
    IF op.n > 0 THEN <<"onReceive", "tryReceive", "received">> ELSE <<"disconnect">>

AfterRead(op) ==
    (IF op.n > 0 THEN <<"onReceive", "received">> ELSE << >>) \o
    (IF op.err THEN <<"disconnect">> ELSE <<"tryReceive">>)

\* The read handler up to onReceive().
ReadHandler(k) ==
    /\ LaneFree
    /\ read[k].st = "done"
    /\ read' = [read EXCEPT ![k] = NoRead]
    /\ receiving' = FALSE
    /\ \/ ~connected /\ UNCHANGED <<bytes_received, size, lane>>
       \/ /\ connected
          /\ bytes_received' = bytes_received + read[k].n
          /\ size' = read[k].n
          /\ lane' = AfterRead(read[k])
    /\ UNCHANGED <<connected, sender, receive_buff, queue, app, server, stream>>

\* After onReceive(): a read that filled the buffer doubles it, or hits the
\* limit and ends the session.
OverReceiveLimit == ReceiveLimit > 0 /\ size * 2 > ReceiveLimit

Received ==
    /\ At("received")
    /\ \/ /\ receive_buff # size
          /\ Return
          /\ UNCHANGED receive_buff
       \/ /\ receive_buff = size
          /\ OverReceiveLimit
          /\ lane' = <<"disconnect">>
          /\ UNCHANGED receive_buff
       \/ /\ receive_buff = size
          /\ ~OverReceiveLimit
          /\ receive_buff' = size * 2
          /\ Return
    /\ UNCHANGED <<connected, sender, receiving, bytes_received, read, size,
                   queue, app, server, stream>>

-----------------------------------------------------------------------------
(* The handler of disconnect() *)

\* close() cancels what is still outstanding: it completes with an error.
\* Fault: the socket is left open.
CancelNothing(op) == op

Cancel(op) == IF op.st = "pending" THEN [op EXCEPT !.st = "done", !.err = TRUE]
                                   ELSE op

\* close() and the three flags.
DisconnectClose ==
    /\ At("disconnect")
    /\ MayDisconnect
    /\ connected' = FALSE /\ receiving' = FALSE /\ sending' = FALSE
    /\ write' = Cancel(write)
    /\ read' = [k \in ReadOps |-> Cancel(read[k])]
    /\ GoTo("clearBuffs")
    /\ UNCHANGED <<buffers, bytes_received, receive_buff, size, queue, app,
                   server, stream>>

ClearBuffs ==
    /\ At("clearBuffs")
    /\ send_buff_main' = << >>
    /\ send_buff_flush' = << >>
    /\ send_flush_offset' = 0 /\ bytes_pending' = 0 /\ bytes_sending' = 0
    /\ GoTo("onDisconnect")
    /\ UNCHANGED <<connected, sending, write, bytes_sent, receiver, queue, app,
                   server, stream>>

\* The session's and the server's onDisconnect callbacks.
OnDisconnect ==
    /\ At("onDisconnect")
    /\ told' = Append(told, "onDisconnect")
    /\ GoTo("unregister")
    /\ UNCHANGED <<connected, sender, receiver, queue, app, conn, unregister,
                   stream>>

\* Dispatch of unregisterSession to the server's lane: at once if this is it.
\* Fault: it is not dispatched to another lane.
UnregisterHereOnly == IF SharedLane THEN "done" ELSE "none"

UnregisterWhere == IF SharedLane THEN "done" ELSE "posted"

Unregister ==
    /\ At("unregister")
    /\ unregister' = UnregisterWhere
    /\ Return
    /\ UNCHANGED <<connected, sender, receiver, queue, app, conn, told, stream>>

UnregisterSession ==
    /\ unregister = "posted"
    /\ conn = "done"
    /\ unregister' = "done"
    /\ UNCHANGED <<connected, sender, receiver, lanes, app, conn, told, stream>>

-----------------------------------------------------------------------------
(* connect(), called by the accept handler on the server's lane right after *)
(* registerSession                                                          *)

Connect ==
    /\ conn = "start"
    /\ receive_buff' = ReceiveBufferSize
    /\ bytes_sending' = 0 /\ bytes_sent' = 0
    /\ bytes_pending' = 0 /\ bytes_received' = 0
    /\ connected' = TRUE
    /\ conn' = "tryReceive"
    /\ UNCHANGED <<sending, write, send_buff_main, send_buff_flush,
                   send_flush_offset, receiving, read, size, lanes, app,
                   unregister, told, stream>>

\* tryReceive tests the flags ...
ConnectTryReceive ==
    /\ conn = "tryReceive"
    /\ conn' = IF MayReceive THEN "startReceive" ELSE "notify"
    /\ UNCHANGED <<connected, sender, receiver, lanes, app, unregister, told,
                   stream>>

\* ... and starts the first read.
ConnectStartReceive ==
    /\ conn = "startReceive"
    /\ StartReceive
    /\ conn' = "notify"
    /\ UNCHANGED <<lane, pc, told>>

\* The onConnect callbacks begin; an empty buffer is reported after them.
ConnectNotify ==
    /\ conn = "notify"
    /\ conn' = "onConnect"
    /\ told' = Append(told, "onConnect")
    /\ UNCHANGED <<connected, sender, receiver, lanes, app, unregister, stream>>

ConnectReturn ==
    /\ conn \in {"onConnect", "onEmpty"}
    /\ SharedLane => lane = << >>
    /\ conn' = IF conn = "onConnect" /\ send_buff_main = << >> THEN "onEmpty"
                                                              ELSE "done"
    /\ UNCHANGED <<connected, sender, receiver, lanes, app, unregister, told,
                   stream>>

-----------------------------------------------------------------------------
(* The kernel: an outstanding operation transfers some bytes, or fails.     *)

WritePerform(n) ==
    /\ write.st = "pending"
    /\ n \in 1 .. write.len
    /\ wire' = wire \o SubSeq(send_buff_flush, write.from + 1, write.from + n)
    /\ write' = [write EXCEPT !.st = "done", !.n = n]
    /\ UNCHANGED <<connected, sending, buffers, receiver, lanes, app, server,
                   accepted>>

WriteFail ==
    /\ write.st = "pending"
    /\ write' = Cancel(write)
    /\ UNCHANGED <<connected, sending, buffers, receiver, lanes, app, server,
                   stream>>

ReadPerform(k, n) ==
    /\ read[k].st = "pending"
    /\ n \in 1 .. read[k].len
    /\ bytes_received + n <= MaxBytesReceived
    /\ read' = [read EXCEPT ![k].st = "done", ![k].n = n]
    /\ UNCHANGED <<connected, sender, receiving, bytes_received, receive_buff,
                   size, lanes, app, server, stream>>

\* End of file or an error.
ReadFail(k) ==
    /\ read[k].st = "pending"
    /\ read' = [read EXCEPT ![k] = Cancel(read[k])]
    /\ UNCHANGED <<connected, sender, receiving, bytes_received, receive_buff,
                   size, lanes, app, server, stream>>

-----------------------------------------------------------------------------
\* A thread begins a call; a thread goes on with the call it is in.
ThreadEnter(t) ==
    (\E n \in Sizes : SendAsync(t, n)) \/ Disconnect(t) \/ ReceiveAsync(t)

ThreadStep(t) ==
    SendRefuse(t) \/ SendAppend(t) \/ Post(t) \/ ReceiveAsyncStart(t)

LaneStep ==
    \/ RunPosted \/ EarlyReturn
    \/ TrySend \/ WriteHandler
    \/ TryReceive \/ (\E k \in ReadOps : ReadHandler(k)) \/ Received
    \/ DisconnectClose \/ ClearBuffs \/ OnDisconnect \/ Unregister

ServerLane ==
    \/ Connect \/ ConnectTryReceive \/ ConnectStartReceive
    \/ ConnectNotify \/ ConnectReturn
    \/ UnregisterSession

WriteSome == WriteFail \/ \E n \in 1 .. write.len : WritePerform(n)

ReadSome(k) == ReadFail(k) \/ \E n \in 1 .. read[k].len : ReadPerform(k, n)

Next ==
    \/ \E t \in Threads : ThreadEnter(t) \/ ThreadStep(t)
    \/ \E n \in Sizes : LaneSend(n)
    \/ LaneStep
    \/ ServerLane
    \/ WriteSome
    \/ \E k \in ReadOps : ReadSome(k)

Spec == Init /\ [][Next]_vars

\* A thread inside a call, the two lanes, and the connection's write side keep
\* going.  Nothing makes the peer send or the application call.
Fairness ==
    /\ \A t \in Threads : WF_vars(ThreadStep(t))
    /\ WF_vars(LaneStep)
    /\ WF_vars(ServerLane)
    /\ WF_vars(WriteSome)

FairSpec == Spec /\ Fairness

-----------------------------------------------------------------------------
(* Properties *)

Elements(seq) == {seq[i] : i \in DOMAIN seq}

OpenFrames == Callbacks \cup {"trySend", "tryReceive", "received", "disconnect"}
Frames == OpenFrames \cup {"clearBuffs", "onDisconnect", "unregister"}
OpStates == {"none", "pending", "done"}
WriteOp == [st : OpStates, from : Nat, len : Nat, n : Nat, err : BOOLEAN]
ReadOp == [st : OpStates, len : Nat, n : Nat, err : BOOLEAN]
Points == {"idle", "append", "trySend", "receive", "disconnect"}
ConnPoints ==
    {"start", "tryReceive", "startReceive", "notify", "onConnect", "onEmpty", "done"}

\* Every field of tcp_session.hxx and every control point has its type.  The
\* counters are unsigned in the code: that they stay in Nat says that no
\* subtraction of a completion's size wraps around.
TypeOK ==
    /\ connected \in BOOLEAN /\ sending \in BOOLEAN /\ receiving \in BOOLEAN
    /\ send_buff_main \in Seq(Nat) /\ send_buff_flush \in Seq(Nat)
    /\ send_flush_offset \in Nat
    /\ bytes_pending \in Nat /\ bytes_sending \in Nat /\ bytes_sent \in Nat
    /\ write \in WriteOp
    /\ bytes_received \in Nat /\ receive_buff \in Nat /\ size \in Nat
    /\ read \in [ReadOps -> ReadOp]
    /\ queue \in Seq({"trySend", "disconnect"})
    /\ lane \in Seq(Frames)
    /\ pc \in [Threads -> [at : Points, n : Nat]]
    /\ calls \in [CallNames -> Nat]
    /\ conn \in ConnPoints
    /\ unregister \in {"none", "posted", "done"}
    /\ told \in Seq({"onConnect", "onDisconnect"})
    /\ accepted \in Nat
    /\ wire \in Seq(Nat)

\* The bytes the socket carried are the accepted bytes in the order sendAsync
\* took them; and while the session is connected, carried, flushing and main
\* bytes together are exactly the accepted ones: none is lost, sent twice or
\* reordered by partial writes, buffer swaps and concurrent senders.
Unsent == SubSeq(send_buff_flush, send_flush_offset + write.n + 1, Len(send_buff_flush))

StreamIntegrity ==
    /\ Len(wire) <= accepted
    /\ \A i \in 1 .. Len(wire) : wire[i] = i
    /\ connected => wire \o Unsent \o send_buff_main = [i \in 1 .. accepted |-> i]

\* The inductive core of the send path: where each buffered byte sits, and how
\* far an outstanding write and the _sending flag agree with the buffers.  Both
\* StreamIntegrity and Accounting follow from it.
Before == accepted - Len(send_buff_main) - Len(send_buff_flush)

BufferBytes ==
    /\ \A i \in 1 .. Len(send_buff_main) :
          send_buff_main[i] = Before + Len(send_buff_flush) + i
    /\ \A i \in 1 .. Len(send_buff_flush) : send_buff_flush[i] = Before + i

BufferCounts ==
    /\ Len(send_buff_main) + Len(send_buff_flush) <= accepted
    /\ send_flush_offset + write.n <= Len(send_buff_flush)
    /\ Len(wire) = Before + send_flush_offset + write.n
    /\ bytes_pending = Len(send_buff_main)
    /\ bytes_sending = Len(send_buff_flush) - send_flush_offset
    /\ bytes_sent + write.n = Len(wire)

BufferInv ==
    /\ BufferBytes
    /\ BufferCounts
    /\ sending <=> write.st # "none"

WriteInv ==
    /\ write.st = "none" => write = NoWrite
    /\ write.st = "pending" =>
          /\ connected
          /\ write.n = 0
          /\ write.from = send_flush_offset
          /\ write.len = Len(send_buff_flush) - send_flush_offset

FreshInv ==
    conn = "start" =>
        /\ ~connected /\ ~sending /\ write = NoWrite
        /\ send_buff_main = << >> /\ send_buff_flush = << >>
        /\ send_flush_offset = 0
        /\ accepted = 0 /\ wire = << >>
        /\ queue = << >> /\ lane = << >>
        /\ \A t \in Threads : pc[t] = Idle

SendInv ==
    /\ connected => BufferInv /\ lane \in Seq(OpenFrames)
    /\ WriteInv
    /\ FreshInv
    /\ Len(wire) <= accepted
    /\ \A i \in 1 .. Len(wire) : wire[i] = i

\* bytesPending, _bytes_sending and bytesSent agree with the buffers and with
\* what the socket carried, at every moment another thread could read them.
Accounting ==
    connected =>
        /\ bytes_pending = Len(send_buff_main)
        /\ bytes_sending = Len(send_buff_flush) - send_flush_offset
        /\ bytes_sent + write.n = Len(wire)

\* Buffered data is never forgotten: as long as the session is connected some
\* write is outstanding, or a trySend or a disconnect is on its way to the
\* lane.  This is what the multiple_sends test of sendAsync must guarantee.
NoLostWakeup ==
    connected /\ (send_buff_main # << >> \/ send_buff_flush # << >>) =>
        \/ write.st # "none"
        \/ {"trySend", "disconnect"} \cap (Elements(queue) \cup Elements(lane)) # {}
        \/ \E t \in Threads : pc[t].at = "trySend"

\* The vector an asynchronous write points into is neither swapped, cleared
\* nor appended to before that write has completed or was cancelled by close().
FlushPinned ==
    [][write.st = "pending" /\ write'.st = "pending"
         => /\ send_buff_flush' = send_buff_flush
            /\ write.from + write.len <= Len(send_buff_flush)]_vars

\* _sending allows one write at a time: a write that is started finds no other
\* one whose completion handler has not yet run.
NoOverlappingWrites ==
    [][write' # write =>
         \/ write.st = "none" /\ write'.st = "pending"
         \/ write.st = "pending" /\ write'.st = "done"
         \/ write.st = "done" /\ write'.st = "none"]_vars

\* The receive loop has one read outstanding at most, and that read still owns
\* the whole of _receive_buff: the buffer is not resized under it.
ReadPinned ==
    /\ Cardinality({k \in ReadOps : read[k].st # "none"}) <= 1
    /\ \A k \in ReadOps : read[k].st = "pending" => read[k].len = receive_buff

\* Neither limit is exceeded, whichever threads race: the buffers hold at most
\* _send_limit bytes each, and _receive_buff grows to _receive_limit at most.
BuffersBounded ==
    /\ SendLimit > 0 => /\ Len(send_buff_main) <= SendLimit
                        /\ Len(send_buff_flush) <= SendLimit
    /\ ReceiveLimit > 0 => \/ receive_buff <= ReceiveLimit
                           \/ receive_buff <= ReceiveBufferSize

\* The lane's own callbacks end with onDisconnect, which comes once: after it no
\* completion, however late, reaches onReceive, onSend or onEmpty on the lane, and
\* only then is the session unregistered from the server.  This holds on any lanes,
\* and says nothing of the callbacks that connect() makes on the server's lane.
Byes == {i \in DOMAIN told : told[i] = "onDisconnect"}

LaneSilent ==
    /\ Cardinality(Byes) <= 1
    /\ InCallback => Byes = {}
    /\ unregister # "none" => Byes # {} /\ ~connected

\* On one thread onDisconnect is the last callback of the session altogether: no
\* onConnect or onEmpty of connect() comes after it either.
Connecting == conn \in {"onConnect", "onEmpty"}

DisconnectLast == LaneSilent /\ (Connecting => Byes = {})

\* No callback of a session is delivered before its onConnect has begun.
ConnectFirst ==
    InCallback \/ "onDisconnect" \in Elements(told) => told # << >> /\ told[1] = "onConnect"

\* Every disconnect() that found the session connected, and every failed read
\* or write of a connected session, ends in its removal from the server.
Ending ==
    \/ \E t \in Threads : pc[t].at = "disconnect"
    \/ connected /\ write.st = "done" /\ write.err
    \/ \E k \in ReadOps : connected /\ read[k].st = "done" /\ read[k].err

Teardown == Ending ~> (unregister = "done")

\* The session implements the abstract byte stream.
phase == IF conn = "start" THEN "new" ELSE IF connected THEN "open" ELSE "closed"

Stream == INSTANCE ByteStream WITH phase <- phase, accepted <- accepted, wire <- wire

StreamSpec == Stream!Spec

\* Every accepted byte reaches the socket unless the session disconnects.  (The bound
\* on calls makes the callers pause.)
Delivery == Stream!Delivered

=============================================================================
