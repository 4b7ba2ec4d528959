------------------------------- MODULE Client -------------------------------
(***************************************************************************)
(* Tcp::Client: connecting, disconnecting and reconnecting, with the       *)
(* completions of a connection that is already gone, and the client's own  *)
(* copy of the double-buffered send path.                                  *)
(*                                                                         *)
(* The handlers run one at a time on the client's lane (its strand or the  *)
(* thread of its io_service).  A handler that ends in tryReceive() or in   *)
(* disconnectAsync(true) does so in a second step, since the flags it      *)
(* tests there are also set on application threads; otherwise a handler is *)
(* atomic, and the interleavings inside it are those of module Session.    *)
(* The synchronous calls do their work on the caller's thread.             *)
(* Connections are numbered; an operation belongs to the connection it was *)
(* started on.  As in module Server, completions reach the lane in the     *)
(* order they finish, or in any order on a strand.  `mode' is how the      *)
(* client is used, and does not change.  The calls with a timeout are in   *)
(* module TimedIo, the callbacks' effect in module Echo.                   *)
(***************************************************************************)
EXTENDS Naturals, FiniteSets, SequencesExt

CONSTANTS
    Threads,        \* application threads
    Modes,          \* the ways the client is used: records with the fields
                    \*   strand: _strand_needed
                    \*   sync: the application uses connect, disconnect
                    \*         and reconnect, too
                    \*   receive: the application calls receiveAsync
                    \*   partial: a write may carry less than it was given
                    \*   connections: bound, connections made
    Sizes,          \* sizes passed to sendAsync
    SendLimit,      \* _send_buff_limit, 0 for none
    Width,          \* counters are unsigned: arithmetic modulo Width
    MaxCalls,       \* bound: calls by application threads
    MaxReads,       \* bound: reads that deliver data
    MaxBytes        \* bound: bytes the connections carry

ASSUME ModesAssumption ==
    Modes \subseteq [strand : BOOLEAN, sync : BOOLEAN, receive : BOOLEAN,
                     partial : BOOLEAN, connections : Nat]
ASSUME SizesAssumption == Sizes \subseteq Nat \ {0} /\ Width \in Nat \ {0} /\ SendLimit \in Nat
ASSUME BoundsAssumption == MaxCalls \in Nat /\ MaxReads \in Nat /\ MaxBytes \in Nat

VARIABLES
    mode,
    connected, connecting,
    gen,            \* number of the connection the socket has, or had last
    sending, send_buff_main, send_buff_flush, send_flush_offset, bytes_sending,
    receiving,
    pend,           \* outstanding operations
    late,           \* completions that have not reached the lane, in order
    queue,          \* handlers and completions on the lane, in order
    lane,           \* what the handler on the lane still has to call
    pc,             \* application threads, and the size they send
    used,           \* calls and reads so far, for the bounds
    accepted,       \* history: bytes accepted by sendAsync
    wire,           \* history: bytes all connections carried
    stale           \* history: a completion was taken for one of a later connection

sender == <<sending, send_buff_main, send_buff_flush, send_flush_offset, bytes_sending>>
link == <<connected, connecting, gen, receiving, pend, late>>
history == <<accepted, wire, stale>>

vars == <<mode, link, sender, queue, lane, pc, used, history>>

\* A second operation of a kind on the same connection takes another slot.
Op(kind, g) == [kind |-> kind, gen |-> g, slot |-> 1]
Another(op) ==
    [op EXCEPT !.slot = CHOOSE s \in 2 .. Cardinality(pend) + 2 :
                            [op EXCEPT !.slot = s] \notin pend]
Begin(op) == pend \cup {IF op \in pend THEN Another(op) ELSE op}
Done(op, n, err) == [kind |-> op.kind, gen |-> op.gen, n |-> n, err |-> err]
Posted(kind) == Done(Op(kind, 0), 0, FALSE)
Idle == [at |-> "idle", n |-> 0, again |-> FALSE]

Init ==
    /\ mode \in Modes
    /\ connected = FALSE /\ connecting = FALSE /\ gen = 0
    /\ sending = FALSE /\ send_buff_main = << >> /\ send_buff_flush = << >>
    /\ send_flush_offset = 0 /\ bytes_sending = 0
    /\ receiving = FALSE
    /\ pend = {} /\ late = << >> /\ queue = << >> /\ lane = "free"
    /\ pc = [t \in Threads |-> Idle]
    /\ used = [calls |-> 0, reads |-> 0]
    /\ accepted = 0 /\ wire = << >> /\ stale = FALSE

MayPost == mode.strand \/ late = << >>

\* What cancel() and close() do to the operations `ops', the reads first.
Like(op, ops) == {o \in ops : o.kind = op.kind /\ o.gen = op.gen}
AbortedOf(ops, op) == [i \in 1 .. Cardinality(Like(op, ops)) |-> Done(op, 0, TRUE)]
Aborted(ops) ==
    AbortedOf(ops, Op("read", gen)) \o AbortedOf(ops, Op("write", gen))
    \o AbortedOf(ops, Op("connect", gen + 1))

DisconnectWith(ops) ==
    /\ connected' = FALSE /\ connecting' = FALSE
    /\ receiving' = FALSE /\ sending' = FALSE
    /\ send_buff_main' = << >> /\ send_buff_flush' = << >>
    /\ send_flush_offset' = 0 /\ bytes_sending' = 0
    /\ pend' = pend \ ops /\ late' = late \o Aborted(ops)
    /\ UNCHANGED gen

\* Fault: the socket is not closed.
DisconnectOpen == DisconnectWith({})

\* disconnect(): close, flags, clearBuffs, onDisconnect.
DoDisconnect == DisconnectWith(pend)

-----------------------------------------------------------------------------
(* Calls by application threads *)

At(t, point) == pc[t].at = point
Go(t, point) == pc' = [pc EXCEPT ![t].at = point]
Leave(t) == pc' = [pc EXCEPT ![t] = Idle]

Call(t, entry) ==
    /\ At(t, "idle")
    /\ used.calls < MaxCalls
    /\ used' = [used EXCEPT !.calls = @ + 1]
    /\ pc' = [pc EXCEPT ![t] = entry]
    /\ UNCHANGED <<link, sender, queue, history>>

ConnectAsync(t) ==
    ~connected /\ ~connecting /\ Call(t, [Idle EXCEPT !.at = "connectAsync"])
DisconnectAsync(t) ==
    connected /\ ~connecting /\ Call(t, [Idle EXCEPT !.at = "cancel"])
ReconnectAsync(t) ==
    connected /\ ~connecting /\ Call(t, [Idle EXCEPT !.at = "cancel", !.again = TRUE])
SendAsync(t, n) == connected /\ Call(t, [Idle EXCEPT !.at = "append", !.n = n])
Connect(t) == mode.sync /\ ~connected /\ Call(t, [Idle EXCEPT !.at = "connect"])
Disconnect(t) == mode.sync /\ connected /\ Call(t, [Idle EXCEPT !.at = "close"])
Reconnect(t) == mode.sync /\ connected /\ Call(t, [Idle EXCEPT !.at = "close", !.again = TRUE])

\* receiveAsync(): the test of tryReceive on the caller's thread ...
ReceiveAsync(t) ==
    mode.receive /\ ~receiving /\ connected /\ Call(t, [Idle EXCEPT !.at = "receive"])

\* ... then the read, which fails at once on a socket that was closed meanwhile.
ReceiveStep(t) ==
    /\ At(t, "receive")
    /\ receiving' = TRUE
    /\ IF connected
       THEN pend' = Begin(Op("read", gen)) /\ UNCHANGED late
       ELSE late' = Append(late, Done(Op("read", gen), 0, TRUE)) /\ UNCHANGED pend
    /\ Leave(t)
    /\ UNCHANGED <<connected, connecting, gen, sender, queue, used, history>>

\* disconnectAsync() cancels what is outstanding before it posts its handler.
CancelStep(t) ==
    /\ At(t, "cancel")
    /\ pend' = {} /\ late' = late \o Aborted(pend)
    /\ Go(t, "disconnect")
    /\ UNCHANGED <<connected, connecting, gen, receiving, sender, queue, used, history>>

PostStep(t) ==
    /\ pc[t].at \in {"connectAsync", "disconnect", "trySend"}
    /\ MayPost
    /\ queue' = Append(queue, Posted(pc[t].at))
    /\ IF pc[t].again THEN Go(t, "wait") ELSE Leave(t)
    /\ UNCHANGED <<link, sender, used, history>>

\* reconnectAsync() waits for the disconnect and calls connectAsync().
ReconnectStep(t) ==
    /\ At(t, "wait")
    /\ ~connected
    /\ pc' = [pc EXCEPT ![t] = IF connecting THEN Idle ELSE [Idle EXCEPT !.at = "connectAsync"]]
    /\ UNCHANGED <<link, sender, queue, used, history>>

\* The synchronous disconnect(), on its own or in reconnect().
CloseStep(t) ==
    /\ At(t, "close")
    /\ pc' = [pc EXCEPT ![t] = IF connected /\ pc[t].again
                               THEN [Idle EXCEPT !.at = "connect"] ELSE Idle]
    /\ IF connected THEN DoDisconnect ELSE UNCHANGED <<link, sender>>
    /\ UNCHANGED <<queue, used, history>>

\* The synchronous connect() fails, or succeeds on a socket that neither is
\* connected nor has asked for a connection; it starts no read.
SocketFree ==
    /\ ~connected
    /\ \A op \in pend : op.kind # "connect"
    /\ \A k \in DOMAIN late : late[k].kind = "connect" => late[k].err
    /\ \A k \in DOMAIN queue : queue[k].kind = "connect" => queue[k].err

ConnectStep(t) ==
    /\ At(t, "connect")
    /\ Leave(t)
    /\ \/ UNCHANGED <<connected, gen, bytes_sending>>
       \/ /\ SocketFree
          /\ gen < mode.connections
          /\ connected' = TRUE /\ gen' = gen + 1
          /\ bytes_sending' = 0
    /\ UNCHANGED <<connecting, receiving, pend, late, sending, send_buff_main,
                   send_buff_flush, send_flush_offset, queue, used, history>>

\* The critical section of sendAsync, and its test whether to call trySend.
AppendStep(t) ==
    LET n == pc[t].n
        fits == SendLimit = 0 \/ Len(send_buff_main) + n <= SendLimit
        kick == send_buff_main = << >> \/ send_buff_flush = << >>
    IN /\ At(t, "append")
       /\ send_buff_main' =
             send_buff_main \o [i \in 1 .. (IF fits THEN n ELSE 0) |-> accepted + i]
       /\ accepted' = IF fits THEN accepted + n ELSE accepted
       /\ pc' = [pc EXCEPT ![t] = IF fits /\ kick THEN [Idle EXCEPT !.at = "trySend"]
                                                 ELSE Idle]
       /\ UNCHANGED <<link, sending, send_buff_flush, send_flush_offset, bytes_sending,
                      queue, used, wire, stale>>

-----------------------------------------------------------------------------
(* Handlers on the lane *)

Runs(kind) == lane = "free" /\ queue # << >> /\ Head(queue).kind = kind

\* trySend with the given flush buffer, offset and counter.  The write it starts
\* takes the flush buffer from its beginning.
TrySend(flush, offset, count) ==
    LET take == flush = << >>
        buff == IF take THEN send_buff_main ELSE flush
    IN /\ send_buff_flush' = buff
       /\ send_buff_main' = IF take THEN flush ELSE send_buff_main
       /\ send_flush_offset' = IF take THEN 0 ELSE offset
       /\ bytes_sending' = (count + IF take THEN Len(buff) ELSE 0) % Width
       /\ sending' = (buff # << >>)
       /\ pend' = IF buff # << >> THEN Begin(Op("write", gen)) ELSE pend

TrySendHandlerWhen(may) ==
    /\ Runs("trySend")
    /\ queue' = Tail(queue)
    /\ IF may
       THEN TrySend(send_buff_flush, send_flush_offset, bytes_sending)
       ELSE UNCHANGED <<sender, pend>>
    /\ UNCHANGED <<connected, connecting, gen, receiving, late, lane, pc, used, history>>

\* Fault: _sending is not tested.
TrySendHandlerAgain == TrySendHandlerWhen(connected)

TrySendHandler == TrySendHandlerWhen(~sending /\ connected)

\* The handler of connectAsync(); `gen + 1' is the connection it asks for.
ConnectHandler ==
    /\ Runs("connectAsync")
    /\ queue' = Tail(queue)
    /\ connecting' = IF connected THEN connecting ELSE TRUE
    /\ pend' = IF connected \/ connecting THEN pend ELSE Begin(Op("connect", gen + 1))
    /\ UNCHANGED <<connected, gen, receiving, late, sender, lane, pc, used, history>>

ConnectedWith(flag) ==
    /\ Runs("connect")
    /\ queue' = Tail(queue)
    /\ connecting' = flag
    /\ IF connected \/ Head(queue).err
       THEN UNCHANGED <<connected, gen, receiving, pend, bytes_sending>>
       ELSE /\ connected' = TRUE /\ gen' = Head(queue).gen
            /\ bytes_sending' = 0
            /\ receiving' = TRUE
            /\ pend' = IF receiving THEN pend ELSE Begin(Op("read", gen'))
    /\ UNCHANGED <<late, sending, send_buff_main, send_buff_flush, send_flush_offset, lane,
                   pc, used, history>>

\* Fault: _connecting is reset only when the connect succeeded.
ConnectedStuck == ConnectedWith(Head(queue).err)

\* connected_handler; on success tryReceive starts the first read.
Connected == ConnectedWith(FALSE)

DisconnectHandler ==
    /\ Runs("disconnect")
    /\ queue' = Tail(queue)
    /\ IF connected THEN DoDisconnect ELSE UNCHANGED <<link, sender>>
    /\ UNCHANGED <<lane, pc, used, history>>

Mistaken(op) == stale' = (stale \/ (connected /\ op.gen # gen))

\* The read handler: data, a full buffer at its limit (n = 0) or an error.  It has
\* cleared _receiving before it calls tryReceive or disconnectAsync(true).
ReadHandler ==
    /\ Runs("read")
    /\ queue' = Tail(queue)
    /\ Mistaken(Head(queue))
    /\ receiving' = FALSE
    /\ LET op == Head(queue)
       IN lane' = IF ~connected THEN "free"
                  ELSE IF op.err \/ op.n = 0 THEN "disconnect" ELSE "tryReceive"
    /\ UNCHANGED <<connected, connecting, gen, pend, late, sender, pc, used, accepted, wire>>

ReceiveOn ==
    /\ lane = "tryReceive"
    /\ lane' = "free"
    /\ IF ~receiving /\ connected
       THEN receiving' = TRUE /\ pend' = Begin(Op("read", gen))
       ELSE UNCHANGED <<receiving, pend>>
    /\ UNCHANGED <<connected, connecting, gen, late, sender, queue, pc, used, history>>

\* disconnectAsync(true) on the lane: cancel, and disconnect() at once.
EndHere ==
    /\ lane = "disconnect"
    /\ lane' = "free"
    /\ IF connected /\ ~connecting THEN DoDisconnect ELSE UNCHANGED <<link, sender>>
    /\ UNCHANGED <<queue, pc, used, history>>

\* The write handler: counters, flush buffer, then trySend or the end.
\* Fault: the sent bytes are not subtracted.
WriteHandlerWith(gone) ==
    /\ Runs("write")
    /\ queue' = Tail(queue)
    /\ Mistaken(Head(queue))
    /\ LET op == Head(queue)
           offset == send_flush_offset + op.n
           count == (bytes_sending + Width - gone) % Width
           flushed == op.n > 0 /\ offset = Len(send_buff_flush)
       IN \/ /\ connected /\ ~op.err
             /\ TrySend(IF flushed THEN << >> ELSE send_buff_flush,
                        IF flushed THEN 0 ELSE offset, count)
             /\ UNCHANGED <<connected, connecting, gen, receiving, late, lane>>
          \/ /\ ~connected \/ op.err
             /\ sending' = FALSE
             /\ lane' = IF connected THEN "disconnect" ELSE "free"
             /\ UNCHANGED <<link, send_buff_main, send_buff_flush, send_flush_offset,
                            bytes_sending>>
    /\ UNCHANGED <<pc, used, accepted, wire>>

WriteHandlerUncounted == WriteHandlerWith(0)

WriteHandler == WriteHandlerWith(Head(queue).n)

-----------------------------------------------------------------------------
(* The kernel and the io_service *)

Complete(op, n, err) ==
    /\ op \in pend
    /\ pend' = pend \ {op}
    /\ late' = Append(late, Done(op, n, err))
    /\ UNCHANGED <<connected, connecting, gen, receiving, sender, queue, pc>>

\* The peer accepts the connection, or not.
ConnectPerform(err) ==
    \E op \in pend :
        /\ op.kind = "connect"
        /\ err \/ gen < mode.connections
        /\ Complete(op, 0, err)
        /\ UNCHANGED <<used, history>>

Serve(kind, n) ==
    \E op \in pend : op.kind = kind /\ op.gen = gen /\ Complete(op, n, FALSE)

WritePerform(n) ==
    /\ n \in 1 .. Len(send_buff_flush)
    /\ mode.partial \/ n = Len(send_buff_flush)
    /\ Len(wire) + n <= MaxBytes
    /\ Serve("write", n)
    /\ wire' = wire \o SubSeq(send_buff_flush, 1, n)
    /\ UNCHANGED <<used, accepted, stale>>

ReadPerform(n) ==
    /\ used.reads < MaxReads
    /\ used' = [used EXCEPT !.reads = @ + 1]
    /\ Serve("read", n)
    /\ UNCHANGED history

\* The peer closes the connection, or it breaks.
Fail ==
    \E op \in pend :
        /\ op.kind # "connect"
        /\ Complete(op, 0, TRUE)
        /\ UNCHANGED <<used, history>>

Deliver(k) ==
    /\ mode.strand \/ k = 1
    /\ queue' = Append(queue, late[k])
    /\ late' = RemoveAt(late, k)
    /\ UNCHANGED <<connected, connecting, gen, receiving, pend, sender, pc, used, history>>

-----------------------------------------------------------------------------
ThreadEnter(t) ==
    /\ \/ ConnectAsync(t) \/ DisconnectAsync(t) \/ ReconnectAsync(t)
       \/ Connect(t) \/ Disconnect(t) \/ Reconnect(t)
       \/ ReceiveAsync(t) \/ \E n \in Sizes : SendAsync(t, n)
    /\ UNCHANGED <<mode, lane>>

ThreadStep(t) ==
    /\ \/ CancelStep(t) \/ PostStep(t) \/ ReconnectStep(t)
       \/ CloseStep(t) \/ ConnectStep(t) \/ ReceiveStep(t) \/ AppendStep(t)
    /\ UNCHANGED <<mode, lane>>

LaneStep ==
    /\ \/ TrySendHandler \/ ConnectHandler \/ Connected \/ DisconnectHandler
       \/ ReadHandler \/ ReceiveOn \/ WriteHandler \/ EndHere
    /\ UNCHANGED mode

\* The peer answers a connect, with an error or not.
Answer == UNCHANGED <<mode, lane>> /\ \E err \in BOOLEAN : ConnectPerform(err)

Traffic ==
    /\ \/ \E n \in 1 .. Len(send_buff_flush) : WritePerform(n)
       \/ \E n \in 0 .. 1 : ReadPerform(n)
       \/ Fail
    /\ UNCHANGED <<mode, lane>>

IoService == UNCHANGED <<mode, lane>> /\ \E k \in DOMAIN late : Deliver(k)

Next ==
    \/ \E t \in Threads : ThreadEnter(t) \/ ThreadStep(t)
    \/ LaneStep \/ Answer \/ Traffic \/ IoService

Spec == Init /\ [][Next]_vars

\* Threads inside a call, the lane and the io_service keep going, and an
\* outstanding connect is answered in the end.
Fairness ==
    /\ \A t \in Threads : WF_vars(ThreadStep(t))
    /\ WF_vars(LaneStep)
    /\ WF_vars(IoService)
    /\ WF_vars(Answer)

FairSpec == Spec /\ Fairness

-----------------------------------------------------------------------------
(* Properties *)

\* Over all connections the sockets carry every accepted byte at most once and
\* in the order sendAsync accepted them.
CarriedOnce ==
    /\ \A i \in DOMAIN wire : wire[i] <= accepted
    /\ \A i, j \in DOMAIN wire : i < j => wire[i] < wire[j]

\* They do as long as every write carries all it was given, across disconnects,
\* reconnects and what a lost race left in the buffers.
WholeCarriedOnce == ~mode.partial => CarriedOnce

\* _bytes_sending counts what the flush buffer still has to send, as far as an
\* unsigned counter can: the swap, the completions and every reset of the counter,
\* the offset and the buffer agree modulo its width.  It does not stay in range:
\* after a partial write trySend sends the buffer from its beginning again, the
\* offset passes the end, and the counter wraps below zero.
SendingCounted ==
    connected => (bytes_sending + send_flush_offset) % Width = Len(send_buff_flush) % Width

\* A completion that outlives its connection is never taken for one of the next
\* connection: it cannot end it, nor clear _sending or _receiving under an
\* outstanding operation.
NoMistakenCompletion == ~stale

\* While connected the flags say how many operations are outstanding, those whose
\* completion has not been handled included: no second write is started and none is
\* missing, and so with reads where only the receive loop starts them.  Once
\* disconnected, none is left.
Outstanding(kind) ==
    Cardinality(Like(Op(kind, gen), pend))
    + Cardinality({k \in DOMAIN late : late[k].kind = kind /\ late[k].gen = gen})
    + Cardinality({k \in DOMAIN queue : queue[k].kind = kind /\ queue[k].gen = gen})

One(flag) == IF flag THEN 1 ELSE 0

FlagsAgree ==
    /\ connected => Outstanding("write") = One(sending)
    /\ connected /\ ~mode.receive => Outstanding("read") = One(receiving)
    /\ ~connected => \A op \in pend : op.kind = "connect"

\* connectAsync() comes to an end: _connecting is reset whatever the peer does.
ConnectResolves == connecting ~> ~connecting

=============================================================================
