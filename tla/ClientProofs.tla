---------------------------- MODULE ClientProofs ----------------------------
(***************************************************************************)
(* Proofs about Tcp::Client as a program without a strand uses it, by the  *)
(* asynchronous calls and with the receive loop alone reading: for any     *)
(* number of threads, calls and connections no completion of a connection  *)
(* outlives it, the flags count what is outstanding and _bytes_sending     *)
(* what is being sent, modulo its width.  When every write carries all it  *)
(* was given, the bytes are carried once and in order.                     *)
(*                                                                         *)
(* The argument is about one sequence, `Line': what the lane has before    *)
(* it, then the completions that have not reached it.  A handler takes its *)
(* first entry, a call or a completion appends to it, a disconnect appends *)
(* what it aborts.  The answer to a connect comes after everything of the  *)
(* connections before, so it is served last.                               *)
(***************************************************************************)
EXTENDS Client, Integers, SequenceTheorems, FiniteSetTheorems, TLAPS

-----------------------------------------------------------------------------
(* The inductive invariant *)

Transfers == {"read", "write"}
Operations == Transfers \cup {"connect"}
Points == {"idle", "connectAsync", "cancel", "disconnect", "trySend", "wait", "append",
           "connect", "close", "receive"}
Ops == [kind : Operations, gen : Nat, slot : {1}]
Entry == [kind : Operations \cup {"connectAsync", "disconnect", "trySend"},
          gen : Nat, n : Nat, err : BOOLEAN]
Callers == [at : Points, n : Nat, again : BOOLEAN]
Started(ops) == IsFiniteSet(ops) /\ \A op \in ops : op.kind \in Operations /\ op.gen \in Nat

TypeOK ==
    /\ mode \in Modes
    /\ connected \in BOOLEAN /\ connecting \in BOOLEAN /\ receiving \in BOOLEAN
    /\ gen \in Nat
    /\ sending \in BOOLEAN
    /\ send_buff_main \in Seq(Nat) /\ send_buff_flush \in Seq(Nat)
    /\ send_flush_offset \in Nat /\ bytes_sending \in Nat
    /\ Started(pend)
    /\ late \in Seq(Entry) /\ queue \in Seq(Entry)
    /\ lane \in {"free", "tryReceive", "disconnect"}
    /\ pc \in [Threads -> Callers]
    /\ used \in [calls : Nat, reads : Nat]
    /\ accepted \in Nat /\ wire \in Seq(Nat) /\ stale \in BOOLEAN

\* What the lane has before it, in order.
Line == queue \o late

Has(s, kind) == \E i \in 1 .. Len(s) : s[i].kind = kind
AtMostOne(s, kind) ==
    \A i, j \in 1 .. Len(s) : s[i].kind = kind /\ s[j].kind = kind => i = j

\* The answer to a connect comes after everything of the connections before.
AnswerLast(s) ==
    \A i, j \in 1 .. Len(s) : i < j /\ s[i].kind = "connect" => s[j].kind \notin Transfers

Current(s, g) == \A i \in 1 .. Len(s) : s[i].kind \in Transfers => s[i].gen = g

\* An operation is outstanding in one place, and when the flag says so.
Tracked(s, kind, flag) ==
    /\ AtMostOne(s, kind)
    /\ Op(kind, gen) \in pend => ~Has(s, kind)
    /\ flag <=> Op(kind, gen) \in pend \/ Has(s, kind)

ConnectOnce(s) ==
    /\ AtMostOne(s, "connect")
    /\ Op("connect", gen + 1) \in pend => ~Has(s, "connect")
    /\ Op("connect", gen + 1) \in pend \/ Has(s, "connect") => connecting

Flags ==
    /\ ~stale
    /\ \A t \in Threads : pc[t].at \notin {"receive", "close", "connect"}
    /\ ~(connected /\ connecting)
    /\ connected => pend \subseteq {Op("read", gen), Op("write", gen)}
    /\ ~connected => pend \subseteq {Op("connect", gen + 1)} /\ ~sending /\ ~receiving
    /\ ConnectOnce(Line) /\ AnswerLast(Line)
    /\ connected =>
          /\ Current(Line, gen)
          /\ Tracked(Line, "read", receiving)
          /\ Tracked(Line, "write", sending)

\* The asynchronous calls without receiveAsync, and completions that reach the lane
\* in order.
InOrder == ~mode.strand /\ ~mode.sync /\ ~mode.receive

FlagInv == TypeOK /\ (InOrder => Flags)

-----------------------------------------------------------------------------
(* Sequences of entries *)

LEMMA AppendEntry ==
    ASSUME NEW s \in Seq(Entry), NEW e \in Entry, NEW kind
    PROVE  /\ Append(s, e) \in Seq(Entry)
           /\ Has(Append(s, e), kind) <=> Has(s, kind) \/ e.kind = kind
           /\ AtMostOne(s, kind) /\ (e.kind = kind => ~Has(s, kind))
                 => AtMostOne(Append(s, e), kind)
  <1> DEFINE r == Append(s, e)
  <1>1. /\ r \in Seq(Entry) /\ Len(r) = Len(s) + 1 /\ Len(s) \in Nat
        /\ \A i \in 1 .. Len(s) : r[i] = s[i]
        /\ r[Len(s) + 1] = e
    OBVIOUS
  <1> HIDE DEF r
  <1>2. \A i \in 1 .. Len(r) : i \in 1 .. Len(s) \/ i = Len(s) + 1
    BY <1>1
  <1>3. 1 .. Len(s) \subseteq 1 .. Len(r) /\ Len(s) + 1 \in 1 .. Len(r)
    BY <1>1
  <1>4. Has(r, kind) <=> Has(s, kind) \/ e.kind = kind
    BY <1>1, <1>2, <1>3 DEF Has
  <1>5. AtMostOne(s, kind) /\ (e.kind = kind => ~Has(s, kind)) => AtMostOne(r, kind)
    BY <1>1, <1>2 DEF Has, AtMostOne
  <1> QED  BY <1>1, <1>4, <1>5 DEF r

LEMMA AppendOrder ==
    ASSUME NEW s \in Seq(Entry), NEW e \in Entry, NEW g
    PROVE  /\ AnswerLast(s) /\ (e.kind \in Transfers => ~Has(s, "connect"))
                 => AnswerLast(Append(s, e))
           /\ Current(s, g) /\ (e.kind \in Transfers => e.gen = g)
                 => Current(Append(s, e), g)
  <1> DEFINE r == Append(s, e)
  <1>1. /\ r \in Seq(Entry) /\ Len(r) = Len(s) + 1 /\ Len(s) \in Nat
        /\ \A i \in 1 .. Len(s) : r[i] = s[i]
        /\ r[Len(s) + 1] = e
    OBVIOUS
  <1> HIDE DEF r
  <1>2. \A i \in 1 .. Len(r) : i \in 1 .. Len(s) \/ i = Len(s) + 1
    BY <1>1
  <1>3. ASSUME AnswerLast(s), e.kind \in Transfers => ~Has(s, "connect"),
               NEW i \in 1 .. Len(r), NEW j \in 1 .. Len(r), i < j, r[i].kind = "connect"
        PROVE  r[j].kind \notin Transfers
    <2>1. i \in 1 .. Len(s)  BY <1>1, <1>2, <1>3
    <2>2. CASE j \in 1 .. Len(s)  BY <1>1, <1>3, <2>1, <2>2 DEF AnswerLast
    <2>3. CASE j = Len(s) + 1  BY <1>1, <1>3, <2>1, <2>3 DEF Has
    <2> QED  BY <1>2, <2>2, <2>3
  <1>4. Current(s, g) /\ (e.kind \in Transfers => e.gen = g) => Current(r, g)
    BY <1>1, <1>2 DEF Current
  <1> QED  BY <1>3, <1>4 DEF r, AnswerLast

LEMMA TailEntry ==
    ASSUME NEW s \in Seq(Entry), s # << >>, NEW kind
    PROVE  /\ Tail(s) \in Seq(Entry) /\ Head(s) \in Entry
           /\ Has(s, kind) <=> Has(Tail(s), kind) \/ Head(s).kind = kind
           /\ AtMostOne(s, kind) =>
                 AtMostOne(Tail(s), kind) /\ (Head(s).kind = kind => ~Has(Tail(s), kind))
  <1> DEFINE r == Tail(s)
  <1>1. /\ r \in Seq(Entry) /\ Head(s) \in Entry /\ Len(r) = Len(s) - 1
        /\ Len(s) \in Nat /\ Len(r) \in Nat
        /\ \A i \in 1 .. Len(r) : r[i] = s[i + 1]
        /\ Head(s) = s[1]
    BY HeadTailProperties
  <1> HIDE DEF r
  <1>2. \A i \in 1 .. Len(s) : i = 1 \/ (i - 1 \in 1 .. Len(r) /\ r[i - 1] = s[i])
    BY <1>1
  <1>3. 1 \in 1 .. Len(s) /\ \A i \in 1 .. Len(r) : i + 1 \in 1 .. Len(s) /\ i + 1 # 1
    BY <1>1
  <1>4. Has(s, kind) <=> Has(r, kind) \/ Head(s).kind = kind
    BY <1>1, <1>2, <1>3 DEF Has
  <1>5. ASSUME AtMostOne(s, kind) PROVE AtMostOne(r, kind)
    <2> SUFFICES ASSUME NEW i \in 1 .. Len(r), NEW j \in 1 .. Len(r),
                        r[i].kind = kind, r[j].kind = kind
                 PROVE  i = j
      BY DEF AtMostOne
    <2>1. i + 1 = j + 1
      BY <1>1, <1>3, <1>5 DEF AtMostOne
    <2> QED  BY <2>1
  <1>6. ASSUME AtMostOne(s, kind), Head(s).kind = kind PROVE ~Has(r, kind)
    BY <1>1, <1>3, <1>6 DEF AtMostOne, Has
  <1> QED  BY <1>1, <1>4, <1>5, <1>6 DEF r

LEMMA TailOrder ==
    ASSUME NEW s \in Seq(Entry), s # << >>, NEW g
    PROVE  /\ AnswerLast(s) =>
                 /\ AnswerLast(Tail(s))
                 /\ Head(s).kind = "connect" =>
                       ~Has(Tail(s), "read") /\ ~Has(Tail(s), "write")
           /\ Current(s, g) =>
                 Current(Tail(s), g) /\ (Head(s).kind \in Transfers => Head(s).gen = g)
  <1> DEFINE r == Tail(s)
  <1>1. /\ Len(r) = Len(s) - 1 /\ Len(s) \in Nat /\ Len(r) \in Nat
        /\ \A i \in 1 .. Len(r) : r[i] = s[i + 1]
        /\ Head(s) = s[1]
    BY HeadTailProperties
  <1> HIDE DEF r
  <1>2. 1 \in 1 .. Len(s) /\ \A i \in 1 .. Len(r) : i + 1 \in 1 .. Len(s) /\ 1 < i + 1
    BY <1>1
  <1>3. ASSUME AnswerLast(s) PROVE AnswerLast(r)
    <2> SUFFICES ASSUME NEW i \in 1 .. Len(r), NEW j \in 1 .. Len(r), i < j,
                        r[i].kind = "connect"
                 PROVE  r[j].kind \notin Transfers
      BY DEF AnswerLast
    <2>1. i + 1 < j + 1  OBVIOUS
    <2> QED  BY <1>1, <1>2, <1>3, <2>1 DEF AnswerLast
  <1>4. ASSUME AnswerLast(s), Head(s).kind = "connect"
        PROVE  ~Has(r, "read") /\ ~Has(r, "write")
    BY <1>1, <1>2, <1>4 DEF AnswerLast, Has, Transfers
  <1>5. Current(s, g) => Current(r, g) /\ (Head(s).kind \in Transfers => Head(s).gen = g)
    BY <1>1, <1>2 DEF Current
  <1> QED  BY <1>3, <1>4, <1>5 DEF r

\* Where there is nothing of a kind there is nothing to say about it.
LEMMA NoneOf ==
    ASSUME NEW s \in Seq(Entry), NEW kind, NEW g
    PROVE  /\ ~Has(s, kind) => AtMostOne(s, kind)
           /\ ~Has(s, "read") /\ ~Has(s, "write") => Current(s, g)
           /\ ~Has(s, "connect") => AnswerLast(s)
  BY DEF Has, AtMostOne, Current, AnswerLast, Transfers

-----------------------------------------------------------------------------
(* The line before the lane *)

LEMMA LineType == ASSUME TypeOK PROVE Line \in Seq(Entry)
  BY ConcatProperties DEF TypeOK, Line

LEMMA Concatenations ==
    ASSUME NEW q \in Seq(Entry), NEW l \in Seq(Entry), NEW e \in Entry
    PROVE  /\ q \o Append(l, e) = Append(q \o l, e)
           /\ l = << >> => Append(q, e) \o l = Append(q \o l, e)
           /\ q # << >> =>
                 q \o l # << >> /\ Head(q \o l) = Head(q) /\ Tail(q) \o l = Tail(q \o l)
           /\ l # << >> => Append(q, l[1]) \o Tail(l) = q \o l
  <1>1. q \o l \in Seq(Entry)  BY ConcatProperties
  <1>2. q \o Append(l, e) = Append(q \o l, e)
    <2>1. Append(l, e) = l \o <<e>> /\ <<e>> \in Seq(Entry)  BY AppendIsConcat
    <2>2. Append(q \o l, e) = (q \o l) \o <<e>>  BY <1>1, AppendIsConcat
    <2> QED  BY <2>1, <2>2, ConcatAssociative
  <1>3. ASSUME l = << >> PROVE Append(q, e) \o l = Append(q \o l, e)
    <2>1. Append(q, e) \in Seq(Entry)  BY AppendProperties
    <2>2. q \o l = q /\ Append(q, e) \o l = Append(q, e)
      BY <1>3, <2>1, ConcatEmptySeq
    <2> QED  BY <2>2
  <1>4. ASSUME q # << >>
        PROVE  q \o l # << >> /\ Head(q \o l) = Head(q) /\ Tail(q) \o l = Tail(q \o l)
    <2> DEFINE c == q \o l
    <2>1. /\ Len(c) = Len(q) + Len(l) /\ Len(q) \in Nat \ {0} /\ Len(l) \in Nat
          /\ \A i \in 1 .. Len(c) : c[i] = IF i <= Len(q) THEN q[i] ELSE l[i - Len(q)]
      BY <1>4, ConcatProperties, EmptySeq
    <2>2. c \in Seq(Entry) /\ c # << >>  BY <1>1, <2>1
    <2> HIDE DEF c
    <2>3. Head(c) = c[1] /\ Head(q) = q[1] /\ c[1] = q[1]  BY <1>4, <2>1, <2>2
    <2>4. /\ Tail(q) \in Seq(Entry) /\ Len(Tail(q)) = Len(q) - 1
          /\ \A i \in 1 .. Len(Tail(q)) : Tail(q)[i] = q[i + 1]
      BY <1>4, HeadTailProperties
    <2>5. /\ Tail(c) \in Seq(Entry) /\ Len(Tail(c)) = Len(c) - 1
          /\ \A i \in 1 .. Len(Tail(c)) : Tail(c)[i] = c[i + 1]
      BY <2>2, HeadTailProperties
    <2>6. /\ Tail(q) \o l \in Seq(Entry) /\ Len(Tail(q) \o l) = Len(Tail(q)) + Len(l)
          /\ \A i \in 1 .. Len(Tail(q)) + Len(l) : (Tail(q) \o l)[i] =
                IF i <= Len(Tail(q)) THEN Tail(q)[i] ELSE l[i - Len(Tail(q))]
      BY <2>4, ConcatProperties
    <2>7. Len(Tail(q) \o l) = Len(Tail(c))  BY <2>1, <2>4, <2>5, <2>6
    <2>8. ASSUME NEW i \in 1 .. Len(Tail(c)) PROVE (Tail(q) \o l)[i] = Tail(c)[i]
      <3>1. i \in 1 .. Len(Tail(q)) + Len(l) /\ i + 1 \in 1 .. Len(c)
        BY <2>1, <2>4, <2>5
      <3>2. CASE i <= Len(Tail(q))
        BY <2>1, <2>4, <2>5, <2>6, <3>1, <3>2
      <3>3. CASE ~(i <= Len(Tail(q)))
        <4>1. (i + 1) - Len(q) = i - Len(Tail(q))  BY <2>1, <2>4
        <4> QED  BY <2>1, <2>4, <2>5, <2>6, <3>1, <3>3, <4>1
      <3> QED  BY <3>2, <3>3
    <2>9. Tail(q) \o l = Tail(c)  BY <2>5, <2>6, <2>7, <2>8, SeqEqual
    <2> QED  BY <2>2, <2>3, <2>9 DEF c
  <1>5. ASSUME l # << >> PROVE Append(q, l[1]) \o Tail(l) = q \o l
    <2>1. l[1] \in Entry /\ Tail(l) \in Seq(Entry) /\ <<l[1]>> \in Seq(Entry)
      BY <1>5, HeadTailProperties
    <2>2. Append(q, l[1]) = q \o <<l[1]>>  BY <2>1, AppendIsConcat
    <2>3. <<l[1]>> \o Tail(l) = l
      <3> DEFINE h == <<l[1]>>
      <3>1. /\ Len(h) = 1 /\ h[1] = l[1] /\ h \in Seq(Entry)
        BY <2>1
      <3>2. /\ Len(Tail(l)) = Len(l) - 1 /\ Len(l) \in Nat \ {0}
            /\ \A i \in 1 .. Len(Tail(l)) : Tail(l)[i] = l[i + 1]
        BY <1>5, HeadTailProperties, EmptySeq
      <3> HIDE DEF h
      <3>3. /\ h \o Tail(l) \in Seq(Entry) /\ Len(h \o Tail(l)) = Len(h) + Len(Tail(l))
            /\ \A i \in 1 .. Len(h) + Len(Tail(l)) : (h \o Tail(l))[i] =
                  IF i <= Len(h) THEN h[i] ELSE Tail(l)[i - Len(h)]
        BY <2>1, <3>1, ConcatProperties
      <3>4. ASSUME NEW i \in 1 .. Len(l) PROVE (h \o Tail(l))[i] = l[i]
        BY <3>1, <3>2, <3>3
      <3>5. Len(h \o Tail(l)) = Len(l)  BY <3>1, <3>2, <3>3
      <3> QED  BY <3>3, <3>4, <3>5, SeqEqual DEF h
    <2>4. (q \o <<l[1]>>) \o Tail(l) = q \o (<<l[1]>> \o Tail(l))
      BY <2>1, ConcatAssociative
    <2> QED  BY <2>2, <2>3, <2>4
  <1> QED  BY <1>2, <1>3, <1>4, <1>5

\* What cancel() and close() add to a line, for an operation ...
LEMMA AbortedType ==
    ASSUME NEW ops, IsFiniteSet(ops), NEW op \in Ops
    PROVE  /\ AbortedOf(ops, op) \in Seq(Entry)
           /\ Len(AbortedOf(ops, op)) = Cardinality(Like(op, ops))
           /\ \A i \in 1 .. Cardinality(Like(op, ops)) : AbortedOf(ops, op)[i] = Done(op, 0, TRUE)
           /\ Cardinality(Like(op, ops)) \in Nat
           /\ Done(op, 0, TRUE) \in Entry
           /\ Done(op, 0, TRUE).kind = op.kind /\ Done(op, 0, TRUE).gen = op.gen
           /\ Done(op, 0, TRUE).err
  <1> DEFINE d == Done(op, 0, TRUE)
             c == Cardinality(Like(op, ops))
  <1>1. d \in Entry /\ d.kind = op.kind /\ d.gen = op.gen /\ d.err
    BY DEF Done, Ops, Entry
  <1>2. c \in Nat
    <2>1. Like(op, ops) \subseteq ops  BY DEF Like
    <2> QED  BY <2>1, FS_Subset, FS_CardinalityType
  <1>3. AbortedOf(ops, op) = [i \in 1 .. c |-> d]  BY DEF AbortedOf
  <1> HIDE DEF d, c
  <1>4. /\ [i \in 1 .. c |-> d] \in Seq(Entry) /\ Len([i \in 1 .. c |-> d]) = c
        /\ \A i \in 1 .. c : [j \in 1 .. c |-> d][i] = d
    BY <1>1, <1>2
  <1> QED  BY <1>1, <1>2, <1>3, <1>4 DEF d, c

\* op is the only operation of its kind and its connection.
Sole(ops, op) == \A o \in ops : o.kind = op.kind /\ o.gen = op.gen => o = op

\* ... which is one when no other is like it.
LEMMA AbortOne ==
    ASSUME NEW s \in Seq(Entry), NEW ops, IsFiniteSet(ops), NEW op \in Ops,
           Sole(ops, op)
    PROVE  s \o AbortedOf(ops, op) = IF op \in ops THEN Append(s, Done(op, 0, TRUE)) ELSE s
  <1>1. PICK d \in Entry :
           d = Done(op, 0, TRUE) /\ d.kind = op.kind /\ d.gen = op.gen /\ d.err
    BY AbortedType
  <1>2. PICK a \in Seq(Entry) :
           /\ a = AbortedOf(ops, op) /\ Len(a) = Cardinality(Like(op, ops))
           /\ \A i \in 1 .. Len(a) : a[i] = d
    <2>1. AbortedOf(ops, op) \in Seq(Entry)  BY AbortedType
    <2>2. Len(AbortedOf(ops, op)) = Cardinality(Like(op, ops))  BY AbortedType
    <2>3. \A i \in 1 .. Cardinality(Like(op, ops)) : AbortedOf(ops, op)[i] = d
      BY <1>1, AbortedType
    <2> QED  BY <2>1, <2>2, <2>3
  <1>3. Append(s, d) = s \o <<d>> /\ s \o << >> = s  BY AppendIsConcat, ConcatEmptySeq
  <1>4. CASE op \in ops
    <2>1. Like(op, ops) = {op}  BY <1>4 DEF Like, Sole
    <2>2. Len(a) = 1  BY <1>2, <2>1, FS_Singleton
    <2>3. <<d>> \in Seq(Entry) /\ Len(<<d>>) = 1 /\ <<d>>[1] = d  OBVIOUS
    <2>4. \A i \in 1 .. Len(a) : a[i] = <<d>>[i]  BY <1>2, <2>2, <2>3
    <2>5. a = <<d>>  BY <2>2, <2>3, <2>4, SeqEqual
    <2> QED  BY <1>1, <1>2, <1>3, <1>4, <2>5
  <1>5. CASE op \notin ops
    <2>1. Like(op, ops) = {}  BY <1>5 DEF Like, Sole
    <2>2. Len(a) = 0  BY <1>2, <2>1, FS_EmptySet
    <2>3. a = << >>  BY <2>2, EmptySeq
    <2> QED  BY <1>2, <1>3, <1>5, <2>3
  <1> QED  BY <1>4, <1>5

LEMMA OpTypes ==
    ASSUME gen \in Nat
    PROVE  /\ Op("read", gen) \in Ops /\ Op("write", gen) \in Ops
           /\ Op("connect", gen + 1) \in Ops
           /\ Op("read", gen).kind = "read" /\ Op("write", gen).kind = "write"
           /\ Op("read", gen).gen = gen /\ Op("write", gen).gen = gen
           /\ Op("connect", gen + 1).kind = "connect"
  BY DEF Op, Ops, Operations, Transfers

\* ... and for all that are outstanding: the read, the write, the connect.
LEMMA AbortSteps ==
    ASSUME NEW s \in Seq(Entry), gen \in Nat, IsFiniteSet(pend)
    PROVE  /\ Aborted(pend) \in Seq(Entry)
           /\ s \o Aborted(pend) =
                 ((s \o AbortedOf(pend, Op("read", gen))) \o AbortedOf(pend, Op("write", gen)))
                 \o AbortedOf(pend, Op("connect", gen + 1))
  <1> DEFINE A == AbortedOf(pend, Op("read", gen))
             B == AbortedOf(pend, Op("write", gen))
             C == AbortedOf(pend, Op("connect", gen + 1))
  <1>1. A \in Seq(Entry)
    <2>1. Op("read", gen) \in Ops  BY OpTypes
    <2> HIDE DEF A
    <2> QED  BY <2>1, AbortedType DEF A
  <1>2. B \in Seq(Entry)
    <2>1. Op("write", gen) \in Ops  BY OpTypes
    <2> QED  BY <2>1, AbortedType
  <1>3. C \in Seq(Entry)
    <2>1. Op("connect", gen + 1) \in Ops  BY OpTypes
    <2> QED  BY <2>1, AbortedType
  <1>4. Aborted(pend) = (A \o B) \o C  BY DEF Aborted
  <1> HIDE DEF A, B, C
  <1>5. \A x, y, z \in Seq(Entry) : (x \o y) \o z = x \o (y \o z)
    BY ConcatAssociative
  <1>6. \A x, y \in Seq(Entry) : x \o y \in Seq(Entry)
    BY ConcatProperties
  <1>7. A \o B \in Seq(Entry) /\ (A \o B) \o C \in Seq(Entry)
    BY <1>1, <1>2, <1>3, <1>6
  <1>8. (s \o (A \o B)) \o C = s \o ((A \o B) \o C)  BY <1>3, <1>5, <1>7
  <1>9. (s \o A) \o B = s \o (A \o B)  BY <1>1, <1>2, <1>5
  <1> QED  BY <1>4, <1>7, <1>8, <1>9 DEF A, B, C

LEMMA AbortConnected ==
    ASSUME NEW s \in Seq(Entry), gen \in Nat, IsFiniteSet(pend),
           pend \subseteq {Op("read", gen), Op("write", gen)}
    PROVE  /\ s \o Aborted(pend) \in Seq(Entry)
           /\ \A kind \in {"read", "write", "connect"} :
                 /\ Has(s \o Aborted(pend), kind) <=> Has(s, kind) \/ Op(kind, gen) \in pend
                 /\ (AtMostOne(s, kind) /\ (Op(kind, gen) \in pend => ~Has(s, kind)))
                       => AtMostOne(s \o Aborted(pend), kind)
           /\ Current(s, gen) => Current(s \o Aborted(pend), gen)
           /\ ~Has(s, "connect") => AnswerLast(s \o Aborted(pend))
  <1>1. PICK R \in Ops : R = Op("read", gen)  BY OpTypes
  <1>2. PICK W \in Ops : W = Op("write", gen)  BY OpTypes
  <1>3. PICK N \in Ops : N = Op("connect", gen + 1)  BY OpTypes
  <1>4. R.kind = "read" /\ R.gen = gen /\ W.kind = "write" /\ W.gen = gen /\ N.kind = "connect"
    BY <1>1, <1>2, <1>3, OpTypes
  <1>alone. Sole(pend, R) /\ Sole(pend, W) /\ Sole(pend, N)
    <2>1. \A o \in pend : o = R \/ o = W  BY <1>1, <1>2
    <2> QED  BY <1>4, <2>1 DEF Sole
  <1>5. PICK s1 : s1 = s \o AbortedOf(pend, R)  OBVIOUS
  <1>6. PICK dr \in Entry :
            /\ dr.kind = R.kind /\ dr.gen = R.gen
            /\ s \o AbortedOf(pend, R) = IF R \in pend THEN Append(s, dr) ELSE s
    <2>1. s \o AbortedOf(pend, R) = IF R \in pend THEN Append(s, Done(R, 0, TRUE)) ELSE s
      BY <1>alone, AbortOne
    <2>2. /\ Done(R, 0, TRUE) \in Entry
          /\ Done(R, 0, TRUE).kind = R.kind /\ Done(R, 0, TRUE).gen = R.gen
      BY AbortedType
    <2> QED  BY <2>1, <2>2
  <1>7. /\ dr \in Entry /\ dr.kind = "read" /\ dr.gen = gen
        /\ s1 = IF R \in pend THEN Append(s, dr) ELSE s
    BY <1>4, <1>5, <1>6
  <1>8. s1 \in Seq(Entry)  BY <1>7, AppendProperties
  <1>9. PICK s2 : s2 = s1 \o AbortedOf(pend, W)  OBVIOUS
  <1>10. PICK dw \in Entry :
            /\ dw.kind = W.kind /\ dw.gen = W.gen
            /\ s1 \o AbortedOf(pend, W) = IF W \in pend THEN Append(s1, dw) ELSE s1
    <2>1. s1 \o AbortedOf(pend, W) = IF W \in pend THEN Append(s1, Done(W, 0, TRUE)) ELSE s1
      BY <1>8, <1>alone, AbortOne
    <2>2. /\ Done(W, 0, TRUE) \in Entry
          /\ Done(W, 0, TRUE).kind = W.kind /\ Done(W, 0, TRUE).gen = W.gen
      BY AbortedType
    <2> QED  BY <2>1, <2>2
  <1>11. /\ dw \in Entry /\ dw.kind = "write" /\ dw.gen = gen
         /\ s2 = IF W \in pend THEN Append(s1, dw) ELSE s1
    BY <1>4, <1>9, <1>10
  <1>12. s2 \in Seq(Entry)  BY <1>8, <1>11, AppendProperties
  <1>13. s \o Aborted(pend) = s2
    <2>1. N \notin pend  BY <1>1, <1>2, <1>4
    <2>2. s2 \o AbortedOf(pend, N) = s2  BY <1>12, <1>alone, <2>1, AbortOne
    <2>3. s \o Aborted(pend) = s2 \o AbortedOf(pend, N)
      BY <1>1, <1>2, <1>3, <1>5, <1>9, AbortSteps
    <2> QED  BY <2>2, <2>3
  <1>14. ASSUME NEW kind \in {"read", "write", "connect"}
         PROVE  /\ Has(s1, kind) <=> Has(s, kind) \/ (kind = "read" /\ R \in pend)
                /\ (AtMostOne(s, kind) /\ (kind = "read" /\ R \in pend => ~Has(s, kind)))
                      => AtMostOne(s1, kind)
    <2>1. CASE R \in pend
      <3>1. s1 = Append(s, dr)  BY <1>7, <2>1
      <3>2. Has(s1, kind) <=> Has(s, kind) \/ dr.kind = kind  BY <1>7, <3>1, AppendEntry
      <3>3. (AtMostOne(s, kind) /\ (dr.kind = kind => ~Has(s, kind))) => AtMostOne(s1, kind)
        BY <1>7, <3>1, AppendEntry
      <3> QED  BY <1>7, <2>1, <3>2, <3>3
    <2>2. CASE R \notin pend  BY <1>7, <2>2
    <2> QED  BY <2>1, <2>2
  <1>15. ASSUME NEW kind \in {"read", "write", "connect"}
         PROVE  /\ Has(s2, kind) <=> Has(s1, kind) \/ (kind = "write" /\ W \in pend)
                /\ (AtMostOne(s1, kind) /\ (kind = "write" /\ W \in pend => ~Has(s1, kind)))
                      => AtMostOne(s2, kind)
    <2>1. CASE W \in pend
      <3>1. s2 = Append(s1, dw)  BY <1>11, <2>1
      <3>2. Has(s2, kind) <=> Has(s1, kind) \/ dw.kind = kind
        BY <1>8, <1>11, <3>1, AppendEntry
      <3>3. (AtMostOne(s1, kind) /\ (dw.kind = kind => ~Has(s1, kind))) => AtMostOne(s2, kind)
        BY <1>8, <1>11, <3>1, AppendEntry
      <3> QED  BY <1>11, <2>1, <3>2, <3>3
    <2>2. CASE W \notin pend  BY <1>11, <2>2
    <2> QED  BY <2>1, <2>2
  <1>16. Current(s, gen) => Current(s2, gen)
    <2>1. Current(s, gen) => Current(s1, gen)  BY <1>7, AppendOrder
    <2>2. Current(s1, gen) => Current(s2, gen)  BY <1>8, <1>11, AppendOrder
    <2> QED  BY <2>1, <2>2
  <1>17. /\ Op("connect", gen) \notin pend
         /\ \A kind \in {"read", "write", "connect"} :
               Op(kind, gen) \in pend <=> (kind = "read" /\ R \in pend) \/ (kind = "write" /\ W \in pend)
    <2>1. Op("connect", gen) \notin pend
      <3>1. Op("connect", gen).kind = "connect"  BY DEF Op
      <3> QED  BY <1>1, <1>2, <1>4, <3>1
    <2> QED  BY <1>1, <1>2, <2>1
  <1>18. ASSUME NEW kind \in {"read", "write", "connect"}
         PROVE  /\ Has(s2, kind) <=> Has(s, kind) \/ Op(kind, gen) \in pend
                /\ (AtMostOne(s, kind) /\ (Op(kind, gen) \in pend => ~Has(s, kind)))
                      => AtMostOne(s2, kind)
    BY <1>14, <1>15, <1>17
  <1>19. ~Has(s, "connect") => AnswerLast(s2)
    <2>1. ~Has(s, "connect") => ~Has(s2, "connect")  BY <1>17, <1>18
    <2> QED  BY <1>12, <2>1, NoneOf
  <1> QED  BY <1>12, <1>13, <1>16, <1>18, <1>19

LEMMA AbortConnecting ==
    ASSUME NEW s \in Seq(Entry), gen \in Nat, IsFiniteSet(pend),
           pend \subseteq {Op("connect", gen + 1)}
    PROVE  /\ s \o Aborted(pend) \in Seq(Entry)
           /\ Has(s \o Aborted(pend), "connect")
                 <=> Has(s, "connect") \/ Op("connect", gen + 1) \in pend
           /\ (AtMostOne(s, "connect") /\ (Op("connect", gen + 1) \in pend => ~Has(s, "connect")))
                 => AtMostOne(s \o Aborted(pend), "connect")
           /\ AnswerLast(s) => AnswerLast(s \o Aborted(pend))
  <1>1. PICK R \in Ops : R = Op("read", gen)  BY OpTypes
  <1>2. PICK W \in Ops : W = Op("write", gen)  BY OpTypes
  <1>3. PICK N \in Ops : N = Op("connect", gen + 1)  BY OpTypes
  <1>4. R.kind = "read" /\ W.kind = "write" /\ N.kind = "connect"
    BY <1>1, <1>2, <1>3, OpTypes
  <1>alone. Sole(pend, R) /\ Sole(pend, W) /\ Sole(pend, N)
    <2>1. \A o \in pend : o = N  BY <1>3
    <2> QED  BY <1>4, <2>1 DEF Sole
  <1>5. R \notin pend /\ W \notin pend  BY <1>3, <1>4
  <1>6. s \o AbortedOf(pend, R) = s /\ s \o AbortedOf(pend, W) = s
    BY <1>5, <1>alone, AbortOne
  <1>7. s \o Aborted(pend) = s \o AbortedOf(pend, N)
    BY <1>1, <1>2, <1>3, <1>6, AbortSteps
  <1>8. PICK d \in Entry :
           /\ d.kind = N.kind /\ d.gen = N.gen
           /\ s \o AbortedOf(pend, N) = IF N \in pend THEN Append(s, d) ELSE s
    <2>1. s \o AbortedOf(pend, N) = IF N \in pend THEN Append(s, Done(N, 0, TRUE)) ELSE s
      BY <1>alone, AbortOne
    <2>2. /\ Done(N, 0, TRUE) \in Entry
          /\ Done(N, 0, TRUE).kind = N.kind /\ Done(N, 0, TRUE).gen = N.gen
      BY AbortedType
    <2> QED  BY <2>1, <2>2
  <1>9. /\ d \in Entry /\ d.kind = "connect" /\ d.kind \notin Transfers
        /\ s \o Aborted(pend) = IF N \in pend THEN Append(s, d) ELSE s
    BY <1>4, <1>7, <1>8 DEF Transfers
  <1>10. CASE N \in pend
    <2>1. s \o Aborted(pend) = Append(s, d)  BY <1>9, <1>10
    <2>2. /\ Append(s, d) \in Seq(Entry)
          /\ Has(Append(s, d), "connect")
          /\ (AtMostOne(s, "connect") /\ ~Has(s, "connect")) => AtMostOne(Append(s, d), "connect")
      BY <1>9, AppendEntry
    <2>3. AnswerLast(s) => AnswerLast(Append(s, d))
      BY <1>9, AppendOrder
    <2> QED  BY <1>3, <1>10, <2>1, <2>2, <2>3
  <1>11. CASE N \notin pend
    BY <1>3, <1>9, <1>11
  <1> QED  BY <1>10, <1>11

LEMMA RemoveFacts ==
    ASSUME NEW s \in Seq(Entry), NEW k \in 1 .. Len(s)
    PROVE  /\ RemoveAt(s, k) \in Seq(Entry)
           /\ s[k] \in Entry
           /\ k = 1 => RemoveAt(s, k) = Tail(s) /\ s # << >>
  <1>1. Len(s) \in Nat /\ k \in Nat \ {0} /\ k <= Len(s) /\ s[k] \in Entry  OBVIOUS
  <1>2. SubSeq(s, 1, k - 1) \in Seq(Entry)  BY <1>1, SubSeqProperties
  <1>3. SubSeq(s, k + 1, Len(s)) \in Seq(Entry)  BY <1>1, SubSeqProperties
  <1>4. RemoveAt(s, k) \in Seq(Entry)  BY <1>2, <1>3, ConcatProperties DEF RemoveAt
  <1>5. ASSUME k = 1 PROVE RemoveAt(s, k) = Tail(s) /\ s # << >>
    <2>1. s # << >>  BY <1>1, EmptySeq
    <2>2. SubSeq(s, 1, k - 1) = << >>  BY <1>5
    <2>3. SubSeq(s, k + 1, Len(s)) = Tail(s)  BY <1>5, <2>1
    <2>4. Tail(s) \in Seq(Entry)  BY <2>1, HeadTailProperties
    <2> QED  BY <2>1, <2>2, <2>3, <2>4, ConcatEmptySeq DEF RemoveAt
  <1> QED  BY <1>1, <1>4, <1>5

-----------------------------------------------------------------------------
(* Types *)

LEMMA InitTypes == Init => TypeOK
  <1> SUFFICES ASSUME Init PROVE TypeOK  OBVIOUS
  <1>1. Idle \in Callers  BY DEF Idle, Callers, Points
  <1>2. pc \in [Threads -> Callers]  BY <1>1 DEF Init
  <1>3. used \in [calls : Nat, reads : Nat]  BY DEF Init
  <1> QED  BY <1>2, <1>3, EmptySeq, FS_EmptySet DEF Init, TypeOK, Started

LEMMA OpType ==
    ASSUME NEW kind \in Operations, NEW g \in Nat
    PROVE  Op(kind, g) \in Ops /\ Op(kind, g).kind = kind /\ Op(kind, g).gen = g
  BY DEF Op, Ops

\* A second operation of a kind keeps its kind and connection.
LEMMA BeginType ==
    ASSUME Started(pend), NEW kind \in Operations, NEW g \in Nat
    PROVE  /\ Started(Begin(Op(kind, g)))
           /\ Op(kind, g) \notin pend => Begin(Op(kind, g)) = pend \cup {Op(kind, g)}
  <1>1. PICK op : op = Op(kind, g)  OBVIOUS
  <1>2. PICK new :
           /\ new = IF op \in pend THEN Another(op) ELSE op
           /\ new.kind = kind /\ new.gen = g
    <2>1. \A s : [op EXCEPT !.slot = s].kind = kind /\ [op EXCEPT !.slot = s].gen = g
      BY <1>1 DEF Op
    <2>2. Another(op).kind = kind /\ Another(op).gen = g  BY <2>1 DEF Another
    <2>3. op.kind = kind /\ op.gen = g  BY <1>1, OpType
    <2> QED  BY <2>2, <2>3
  <1>3. Begin(op) = pend \cup {new}  BY <1>2 DEF Begin
  <1>4. IsFiniteSet(pend \cup {new})  BY FS_AddElement DEF Started
  <1>5. Started(Begin(op))  BY <1>2, <1>3, <1>4 DEF Started
  <1> QED  BY <1>1, <1>2, <1>3, <1>5

LEMMA DoneType ==
    ASSUME NEW op, op.kind \in Operations, op.gen \in Nat, NEW n \in Nat, NEW err \in BOOLEAN
    PROVE  /\ Done(op, n, err) \in Entry
           /\ Done(op, n, err).kind = op.kind /\ Done(op, n, err).gen = op.gen
           /\ Done(op, n, err).n = n /\ Done(op, n, err).err = err
  BY DEF Done, Entry

LEMMA PostedType ==
    ASSUME NEW kind \in {"connectAsync", "disconnect", "trySend"}
    PROVE  Posted(kind) \in Entry /\ Posted(kind).kind = kind
  BY DEF Posted, Done, Op, Entry

\* What a disconnect leaves behind has the right types.
LEMMA DisconnectTypes ==
    ASSUME TypeOK, DoDisconnect
    PROVE  /\ connected' = FALSE /\ connecting' = FALSE /\ gen' = gen
           /\ receiving' = FALSE /\ sending' = FALSE
           /\ send_buff_main' = << >> /\ send_buff_flush' = << >>
           /\ send_flush_offset' = 0 /\ bytes_sending' = 0
           /\ pend' = {} /\ late' = late \o Aborted(pend) /\ late' \in Seq(Entry)
  <1>1. late \in Seq(Entry) /\ gen \in Nat /\ IsFiniteSet(pend)  BY DEF TypeOK, Started
  <1>2. Aborted(pend) \in Seq(Entry)  BY <1>1, AbortSteps
  <1>3. late \o Aborted(pend) \in Seq(Entry)  BY <1>1, <1>2, ConcatProperties
  <1> QED  BY <1>3 DEF DoDisconnect, DisconnectWith

\* trySend starts a write of the current connection, and no other operation.
LEMMA TrySendTypes ==
    ASSUME TypeOK, NEW flush \in Seq(Nat), NEW offset \in Nat, NEW count \in Nat,
           TrySend(flush, offset, count)
    PROVE  /\ send_buff_flush' \in Seq(Nat) /\ send_buff_main' \in Seq(Nat)
           /\ send_flush_offset' \in Nat /\ bytes_sending' \in Nat /\ sending' \in BOOLEAN
           /\ pend' = IF sending' THEN Begin(Op("write", gen)) ELSE pend
           /\ Started(pend')
  <1>1. /\ send_buff_main \in Seq(Nat) /\ Started(pend) /\ gen \in Nat
        /\ Width \in Nat \ {0}
    BY SizesAssumption DEF TypeOK
  <1>2. "write" \in Operations /\ Started(Begin(Op("write", gen)))
    <2>1. "write" \in Operations  BY DEF Operations, Transfers
    <2> QED  BY <1>1, <2>1, BeginType
  <1>3. Len(flush) \in Nat /\ Len(send_buff_main) \in Nat  BY <1>1
  <1>4. \A c \in Nat : c % Width \in Nat  BY <1>1
  <1>5. bytes_sending' \in Nat
    <2> DEFINE more == IF flush = << >> THEN Len(IF flush = << >> THEN send_buff_main ELSE flush)
                       ELSE 0
    <2>1. bytes_sending' = (count + more) % Width  BY DEF TrySend
    <2>2. more \in Nat  BY <1>3
    <2> HIDE DEF more
    <2>3. PICK c \in Nat : c = count + more  BY <2>2
    <2> QED  BY <1>4, <2>1, <2>3
  <1>6. sending' \in BOOLEAN /\ pend' = IF sending' THEN Begin(Op("write", gen)) ELSE pend
    BY DEF TrySend
  <1>7. Started(pend')  BY <1>1, <1>2, <1>6
  <1> QED  BY <1>1, <1>5, <1>6, <1>7 DEF TrySend

LEMMA EnterTypes ==
    ASSUME TypeOK, NEW t \in Threads, ThreadEnter(t)
    PROVE  TypeOK'
  <1> DEFINE Plain == {"connectAsync", "cancel", "append", "connect", "close", "receive"}
  <1>1. PICK e \in Callers : Call(t, e)
    <2>1. \A a \in Plain : [Idle EXCEPT !.at = a] \in Callers
      BY DEF Idle, Callers, Points
    <2>2. \A a \in Plain : [Idle EXCEPT !.at = a, !.again = TRUE] \in Callers
      BY DEF Idle, Callers, Points
    <2>3. \A n \in Sizes : [Idle EXCEPT !.at = "append", !.n = n] \in Callers
      BY SizesAssumption DEF Idle, Callers, Points
    <2> QED
      BY <2>1, <2>2, <2>3 DEF ThreadEnter, ConnectAsync, DisconnectAsync, ReconnectAsync,
           Connect, Disconnect, Reconnect, ReceiveAsync, SendAsync
  <1>2. pc' \in [Threads -> Callers]  BY <1>1 DEF Call, TypeOK
  <1>3. used' \in [calls : Nat, reads : Nat]
    <2>1. used' = [used EXCEPT !.calls = @ + 1]  BY <1>1 DEF Call
    <2>2. used \in [calls : Nat, reads : Nat]  BY DEF TypeOK
    <2> QED  BY <2>1, <2>2
  <1>4. UNCHANGED <<mode, link, sender, queue, lane, history>>  BY <1>1 DEF Call, ThreadEnter
  <1> QED  BY <1>2, <1>3, <1>4 DEF TypeOK, link, sender, history

LEMMA AppendTypes ==
    ASSUME TypeOK, NEW t \in Threads, AppendStep(t)
    PROVE  send_buff_main' \in Seq(Nat) /\ accepted' \in Nat
  <1> DEFINE fits == SendLimit = 0 \/ Len(send_buff_main) + pc[t].n <= SendLimit
             n == IF fits THEN pc[t].n ELSE 0
             fresh == [i \in 1 .. n |-> accepted + i]
  <1>1. n \in Nat /\ accepted \in Nat /\ pc[t].n \in Nat  BY DEF TypeOK, Callers
  <1>2. send_buff_main' = send_buff_main \o fresh /\ accepted' = accepted + n
    BY <1>1 DEF AppendStep
  <1> HIDE DEF n
  <1>3. fresh \in Seq(Nat)  BY <1>1
  <1> HIDE DEF fresh
  <1>4. send_buff_main \in Seq(Nat)  BY DEF TypeOK
  <1> QED  BY <1>1, <1>2, <1>3, <1>4, ConcatProperties

LEMMA ThreadTypes ==
    ASSUME TypeOK, NEW t \in Threads, ThreadStep(t)
    PROVE  TypeOK'
  <1>1. /\ gen \in Nat /\ Started(pend) /\ IsFiniteSet(pend)
        /\ late \in Seq(Entry) /\ queue \in Seq(Entry)
    BY DEF TypeOK, Started
  <1>2. pc' \in [Threads -> Callers]
    <2>1. pc \in [Threads -> Callers]  BY DEF TypeOK
    <2>2. \A a \in Points : [Idle EXCEPT !.at = a] \in Callers /\ Idle \in Callers
      BY DEF Idle, Callers, Points
    <2>3. \A e \in Callers : [pc EXCEPT ![t] = e] \in [Threads -> Callers]  BY <2>1
    <2>4. \A a \in Points : [pc EXCEPT ![t].at = a] \in [Threads -> Callers]
      BY <2>1 DEF Callers
    <2>5. /\ "connectAsync" \in Points /\ "connect" \in Points /\ "trySend" \in Points
          /\ "wait" \in Points /\ "disconnect" \in Points
      BY DEF Points
    <2>6. CASE CancelStep(t)  BY <2>4, <2>5, <2>6 DEF CancelStep, Go
    <2>7. CASE PostStep(t)  BY <2>2, <2>3, <2>4, <2>5, <2>7 DEF PostStep, Go, Leave
    <2>8. CASE ReconnectStep(t)  BY <2>2, <2>3, <2>5, <2>8 DEF ReconnectStep
    <2>9. CASE CloseStep(t)  BY <2>2, <2>3, <2>5, <2>9 DEF CloseStep
    <2>10. CASE ConnectStep(t)  BY <2>2, <2>3, <2>5, <2>10 DEF ConnectStep, Leave
    <2>11. CASE ReceiveStep(t)  BY <2>2, <2>3, <2>5, <2>11 DEF ReceiveStep, Leave
    <2>12. CASE AppendStep(t)  BY <2>2, <2>3, <2>5, <2>12 DEF AppendStep
    <2> QED  BY <2>6, <2>7, <2>8, <2>9, <2>10, <2>11, <2>12 DEF ThreadStep
  <1>3. mode' = mode /\ lane' = lane  BY DEF ThreadStep
  <1>4. CASE CancelStep(t)
    <2>1. Aborted(pend) \in Seq(Entry)  BY <1>1, AbortSteps
    <2>2. late' \in Seq(Entry)  BY <1>1, <1>4, <2>1, ConcatProperties DEF CancelStep
    <2>3. Started(pend')  BY <1>4, FS_EmptySet DEF CancelStep, Started
    <2> QED  BY <1>2, <1>3, <1>4, <2>2, <2>3 DEF CancelStep, TypeOK, sender, history
  <1>5. CASE PostStep(t)
    <2>1. Posted(pc[t].at) \in Entry  BY <1>5, PostedType DEF PostStep
    <2>2. queue' \in Seq(Entry)  BY <1>1, <1>5, <2>1, AppendProperties DEF PostStep
    <2> QED  BY <1>2, <1>3, <1>5, <2>2 DEF PostStep, TypeOK, link, sender, history
  <1>6. CASE ReconnectStep(t)
    BY <1>2, <1>3, <1>6 DEF ReconnectStep, TypeOK, link, sender, history
  <1>7. CASE CloseStep(t)
    <2>1. CASE connected
      <3>1. DoDisconnect  BY <1>7, <2>1 DEF CloseStep
      <3>2. /\ connected' = FALSE /\ connecting' = FALSE /\ gen' = gen
            /\ receiving' = FALSE /\ sending' = FALSE
            /\ send_buff_main' = << >> /\ send_buff_flush' = << >>
            /\ send_flush_offset' = 0 /\ bytes_sending' = 0
            /\ pend' = {} /\ late' \in Seq(Entry)
        BY <3>1, DisconnectTypes
      <3>3. << >> \in Seq(Nat) /\ Started({})  BY EmptySeq, FS_EmptySet DEF Started
      <3> QED
        BY <1>2, <1>3, <1>7, <3>2, <3>3 DEF CloseStep, TypeOK, history
    <2>2. CASE ~connected
      BY <1>2, <1>3, <1>7, <2>2 DEF CloseStep, TypeOK, link, sender, history
    <2> QED  BY <2>1, <2>2
  <1>8. CASE ConnectStep(t)
    <2>1. gen \in Nat /\ bytes_sending \in Nat /\ connected \in BOOLEAN  BY DEF TypeOK
    <2>2. gen' \in Nat /\ bytes_sending' \in Nat  BY <1>8, <2>1 DEF ConnectStep
    <2>3. connected' \in BOOLEAN
      <3>1. connected' = connected \/ connected' = TRUE  BY <1>8 DEF ConnectStep
      <3> QED  BY <2>1, <3>1
    <2> QED  BY <1>2, <1>3, <1>8, <2>2, <2>3 DEF ConnectStep, TypeOK, history
  <1>9. CASE ReceiveStep(t)
    <2>1. "read" \in Operations  BY DEF Operations, Transfers
    <2>2. PICK d \in Entry : d = Done(Op("read", gen), 0, TRUE)
      <3>1. Op("read", gen).kind \in Operations /\ Op("read", gen).gen \in Nat
        BY <1>1, <2>1, OpType
      <3> QED  BY <3>1, DoneType
    <2>3. Started(pend')
      <3>1. Started(Begin(Op("read", gen)))  BY <1>1, <2>1, BeginType
      <3> QED  BY <1>1, <1>9, <3>1 DEF ReceiveStep
    <2>4. late' \in Seq(Entry)
      <3>1. Append(late, d) \in Seq(Entry)  BY <1>1, AppendProperties
      <3> QED  BY <1>1, <1>9, <2>2, <3>1 DEF ReceiveStep
    <2> QED  BY <1>2, <1>3, <1>9, <2>3, <2>4 DEF ReceiveStep, TypeOK, sender, history
  <1>10. CASE AppendStep(t)
    <2>1. send_buff_main' \in Seq(Nat) /\ accepted' \in Nat  BY <1>10, AppendTypes
    <2> QED  BY <1>2, <1>3, <1>10, <2>1 DEF AppendStep, TypeOK, link
  <1> QED  BY <1>4, <1>5, <1>6, <1>7, <1>8, <1>9, <1>10 DEF ThreadStep

\* A handler takes its entry off the lane.
LEMMA Taken ==
    ASSUME TypeOK, queue # << >>, queue' = Tail(queue)
    PROVE  queue' \in Seq(Entry) /\ Head(queue) \in Entry
  BY HeadTailProperties DEF TypeOK

LEMMA LaneTypes ==
    ASSUME TypeOK, LaneStep
    PROVE  TypeOK'
  <1>1. /\ gen \in Nat /\ Started(pend) /\ late \in Seq(Entry) /\ queue \in Seq(Entry)
        /\ connected \in BOOLEAN /\ connecting \in BOOLEAN /\ receiving \in BOOLEAN
        /\ sending \in BOOLEAN /\ stale \in BOOLEAN
    BY DEF TypeOK
  <1>2. mode' = mode /\ queue' \in Seq(Entry)
    <2>1. queue' = queue \/ (queue # << >> /\ queue' = Tail(queue))
      BY DEF LaneStep, TrySendHandler, TrySendHandlerWhen, ConnectHandler, Connected,
             ConnectedWith, DisconnectHandler, ReadHandler, WriteHandler, WriteHandlerWith, Runs,
             ReceiveOn, EndHere
    <2> QED  BY <1>1, <2>1, Taken DEF LaneStep
  <1>3. \A kind \in Operations :
           Started(Begin(Op(kind, gen))) /\ Started(Begin(Op(kind, gen + 1)))
    BY <1>1, BeginType
  <1>entry. Runs("connect") \/ Runs("write") => Head(queue) \in Entry
    BY <1>1, HeadTailProperties DEF Runs
  <1>ended. ASSUME DoDisconnect
            PROVE  /\ connected' = FALSE /\ connecting' = FALSE /\ gen' = gen
                   /\ receiving' = FALSE /\ sending' = FALSE
                   /\ send_buff_main' = << >> /\ send_buff_flush' = << >>
                   /\ send_flush_offset' = 0 /\ bytes_sending' = 0
                   /\ Started(pend') /\ late' \in Seq(Entry) /\ << >> \in Seq(Nat)
    BY <1>ended, DisconnectTypes, EmptySeq, FS_EmptySet DEF Started
  <1>4. CASE TrySendHandler
    <2>1. CASE ~sending /\ connected
      <3>1. TrySend(send_buff_flush, send_flush_offset, bytes_sending)
        BY <1>4, <2>1 DEF TrySendHandler, TrySendHandlerWhen
      <3>2. send_buff_flush \in Seq(Nat) /\ send_flush_offset \in Nat /\ bytes_sending \in Nat
        BY DEF TypeOK
      <3>3. /\ send_buff_flush' \in Seq(Nat) /\ send_buff_main' \in Seq(Nat)
            /\ send_flush_offset' \in Nat /\ bytes_sending' \in Nat /\ sending' \in BOOLEAN
            /\ Started(pend')
        BY <3>1, <3>2, TrySendTypes
      <3> QED
        BY <1>2, <1>4, <3>3 DEF TrySendHandler, TrySendHandlerWhen, TypeOK, history
    <2>2. CASE ~(~sending /\ connected)
      BY <1>2, <1>4, <2>2 DEF TrySendHandler, TrySendHandlerWhen, TypeOK, history, sender
    <2> QED  BY <2>1, <2>2
  <1>5. CASE ConnectHandler
    <2>1. "connect" \in Operations  BY DEF Operations
    <2>2. Started(pend')  BY <1>1, <1>3, <1>5, <2>1 DEF ConnectHandler
    <2>3. connecting' \in BOOLEAN  BY <1>1, <1>5 DEF ConnectHandler
    <2> QED  BY <1>2, <1>5, <2>2, <2>3 DEF ConnectHandler, TypeOK, history, sender
  <1>6. CASE Connected
    <2>1. connecting' = FALSE  BY <1>6 DEF Connected, ConnectedWith
    <2>2. CASE connected \/ Head(queue).err
      BY <1>2, <1>6, <2>1, <2>2 DEF Connected, ConnectedWith, TypeOK, history
    <2>3. CASE ~(connected \/ Head(queue).err)
      <3>1. /\ connected' = TRUE /\ gen' = Head(queue).gen /\ bytes_sending' = 0
            /\ receiving' = TRUE
            /\ pend' = IF receiving THEN pend ELSE Begin(Op("read", gen'))
        BY <1>6, <2>3 DEF Connected, ConnectedWith
      <3>2. gen' \in Nat  BY <1>6, <1>entry, <3>1 DEF Entry, Connected, ConnectedWith
      <3>3. Started(Begin(Op("read", gen')))
        <4>1. "read" \in Operations  BY DEF Operations, Transfers
        <4>2. \A g \in Nat : Started(Begin(Op("read", g)))  BY <1>1, <4>1, BeginType
        <4> QED  BY <3>2, <4>2
      <3>4. Started(pend')  BY <1>1, <3>1, <3>3
      <3> QED  BY <1>2, <1>6, <2>1, <3>1, <3>2, <3>4 DEF Connected, ConnectedWith, TypeOK, history
    <2> QED  BY <2>2, <2>3
  <1>7. CASE DisconnectHandler
    <2>1. CASE connected
      BY <1>2, <1>7, <1>ended, <2>1 DEF DisconnectHandler, TypeOK, history
    <2>2. CASE ~connected
      BY <1>2, <1>7, <2>2 DEF DisconnectHandler, TypeOK, link, sender, history
    <2> QED  BY <2>1, <2>2
  <1>8. CASE ReadHandler
    <2>1. stale' \in BOOLEAN  BY <1>1, <1>8 DEF ReadHandler, Mistaken
    <2>2. lane' \in {"free", "tryReceive", "disconnect"} /\ receiving' = FALSE
      BY <1>8 DEF ReadHandler
    <2> QED  BY <1>2, <1>8, <2>1, <2>2 DEF ReadHandler, TypeOK, sender
  <1>9. CASE ReceiveOn
    <2>1. "read" \in Operations  BY DEF Operations, Transfers
    <2>2. Started(pend') /\ receiving' \in BOOLEAN  BY <1>1, <1>3, <1>9, <2>1 DEF ReceiveOn
    <2>3. lane' = "free"  BY <1>9 DEF ReceiveOn
    <2> QED  BY <1>2, <1>9, <2>2, <2>3 DEF ReceiveOn, TypeOK, sender, history
  <1>10. CASE EndHere
    <2>1. CASE connected /\ ~connecting
      BY <1>2, <1>10, <1>ended, <2>1 DEF EndHere, TypeOK, history
    <2>2. CASE ~(connected /\ ~connecting)
      BY <1>2, <1>10, <2>2 DEF EndHere, TypeOK, link, sender, history
    <2> QED  BY <2>1, <2>2
  <1>11. CASE WriteHandler
    <2>1. stale' \in BOOLEAN  BY <1>1, <1>11 DEF WriteHandler, WriteHandlerWith, Mistaken
    <2>2. mode' = mode /\ UNCHANGED <<pc, used, accepted, wire>>
      BY <1>2, <1>11 DEF WriteHandler, WriteHandlerWith
    <2> DEFINE offset == send_flush_offset + Head(queue).n
               count == (bytes_sending + Width - Head(queue).n) % Width
               flushed == Head(queue).n > 0 /\ offset = Len(send_buff_flush)
               flush1 == IF flushed THEN << >> ELSE send_buff_flush
               offset1 == IF flushed THEN 0 ELSE offset
    <2>3. CASE TrySend(flush1, offset1, count)
               /\ UNCHANGED <<connected, connecting, gen, receiving, late, lane>>
      <3>1. Head(queue).n \in Nat
        BY <1>11, <1>entry DEF Entry, WriteHandler, WriteHandlerWith
      <3>2. /\ send_buff_flush \in Seq(Nat) /\ send_flush_offset \in Nat
            /\ bytes_sending \in Nat /\ Width \in Nat \ {0}
        BY SizesAssumption DEF TypeOK
      <3>3. flush1 \in Seq(Nat)  BY <3>2, EmptySeq
      <3>4. offset1 \in Nat  BY <3>1, <3>2
      <3>5. \A c \in Int : c % Width \in Nat  BY <3>2
      <3>6. PICK c \in Int : c = bytes_sending + Width - Head(queue).n  BY <3>1, <3>2
      <3>7. count \in Nat  BY <3>5, <3>6
      <3> HIDE DEF offset, count, flushed, flush1, offset1
      <3>8. TrySend(flush1, offset1, count)  BY <2>3
      <3>9. /\ send_buff_flush' \in Seq(Nat) /\ send_buff_main' \in Seq(Nat)
            /\ send_flush_offset' \in Nat /\ bytes_sending' \in Nat /\ sending' \in BOOLEAN
            /\ Started(pend')
        BY <3>3, <3>4, <3>7, <3>8, TrySendTypes
      <3> QED  BY <1>2, <2>1, <2>2, <2>3, <3>9 DEF TypeOK
    <2>4. CASE sending' = FALSE /\ lane' = (IF connected THEN "disconnect" ELSE "free")
               /\ UNCHANGED <<link, send_buff_main, send_buff_flush, send_flush_offset,
                              bytes_sending>>
      <3>1. lane' \in {"free", "tryReceive", "disconnect"}  BY <2>4
      <3> QED  BY <1>2, <2>1, <2>2, <2>4, <3>1 DEF TypeOK, link
    <2> QED  BY <1>11, <2>3, <2>4 DEF WriteHandler, WriteHandlerWith
  <1> QED  BY <1>4, <1>5, <1>6, <1>7, <1>8, <1>9, <1>10, <1>11 DEF LaneStep

LEMMA CompleteTypes ==
    ASSUME TypeOK, NEW op, NEW n \in Nat, NEW err \in BOOLEAN, Complete(op, n, err)
    PROVE  /\ Started(pend') /\ op.kind \in Operations /\ op.gen \in Nat
           /\ \E d \in Entry :
                 /\ d = Done(op, n, err) /\ d.kind = op.kind /\ d.gen = op.gen
                 /\ late' = Append(late, d)
           /\ late' \in Seq(Entry)
  <1>1. /\ Started(pend) /\ late \in Seq(Entry) /\ op \in pend
        /\ op.kind \in Operations /\ op.gen \in Nat
    BY DEF Complete, TypeOK, Started
  <1>2. PICK d \in Entry : d = Done(op, n, err) /\ d.kind = op.kind /\ d.gen = op.gen
    <2>1. /\ Done(op, n, err) \in Entry
          /\ Done(op, n, err).kind = op.kind /\ Done(op, n, err).gen = op.gen
      BY <1>1 DEF Done, Entry
    <2> QED  BY <2>1
  <1>3. late' = Append(late, d)  BY <1>2 DEF Complete
  <1>4. late' \in Seq(Entry)  BY <1>1, <1>3, AppendProperties
  <1>5. Started(pend')
    <2>1. pend' \subseteq pend  BY DEF Complete
    <2> QED  BY <1>1, <2>1, FS_Subset DEF Started
  <1> QED  BY <1>1, <1>2, <1>3, <1>4, <1>5

\* Every step of the kernel completes an operation that is outstanding.
LEMMA KernelCompletes ==
    ASSUME TypeOK, Answer \/ Traffic
    PROVE  /\ \E op \in pend, n \in Nat, err \in BOOLEAN : Complete(op, n, err)
           /\ mode' = mode /\ lane' = lane /\ stale' = stale
  <1>1. 0 \in Nat /\ 1 .. Len(send_buff_flush) \subseteq Nat /\ 0 .. 1 \subseteq Nat
        /\ TRUE \in BOOLEAN /\ FALSE \in BOOLEAN
    OBVIOUS
  <1>2. ASSUME NEW op, NEW n \in Nat, NEW err \in BOOLEAN, Complete(op, n, err)
        PROVE  \E o \in pend, m \in Nat, e \in BOOLEAN : Complete(o, m, e)
    BY <1>2 DEF Complete
  <1>3. CASE Answer
    <2>1. PICK err \in BOOLEAN : ConnectPerform(err)  BY <1>3 DEF Answer
    <2>2. PICK op \in pend : Complete(op, 0, err)  BY <2>1 DEF ConnectPerform
    <2> QED  BY <1>1, <1>2, <1>3, <2>1, <2>2 DEF Answer, ConnectPerform, history
  <1>4. ASSUME NEW n \in 1 .. Len(send_buff_flush), WritePerform(n), Traffic
        PROVE  /\ \E op \in pend, m \in Nat, err \in BOOLEAN : Complete(op, m, err)
               /\ mode' = mode /\ lane' = lane /\ stale' = stale
    <2>1. PICK op \in pend : Complete(op, n, FALSE)  BY <1>4 DEF WritePerform, Serve
    <2>2. n \in Nat  BY <1>1
    <2> QED  BY <1>2, <1>4, <2>1, <2>2 DEF WritePerform, Traffic
  <1>5. ASSUME NEW n \in 0 .. 1, ReadPerform(n), Traffic
        PROVE  /\ \E op \in pend, m \in Nat, err \in BOOLEAN : Complete(op, m, err)
               /\ mode' = mode /\ lane' = lane /\ stale' = stale
    <2>1. PICK op \in pend : Complete(op, n, FALSE)  BY <1>5 DEF ReadPerform, Serve
    <2>2. n \in Nat  BY <1>1
    <2> QED  BY <1>2, <1>5, <2>1, <2>2 DEF ReadPerform, Traffic, history
  <1>6. ASSUME Fail, Traffic
        PROVE  /\ \E op \in pend, m \in Nat, err \in BOOLEAN : Complete(op, m, err)
               /\ mode' = mode /\ lane' = lane /\ stale' = stale
    <2>1. PICK op \in pend : Complete(op, 0, TRUE)  BY <1>6 DEF Fail
    <2> QED  BY <1>1, <1>2, <1>6, <2>1 DEF Fail, Traffic, history
  <1> QED  BY <1>3, <1>4, <1>5, <1>6 DEF Traffic

LEMMA KernelTypes ==
    ASSUME TypeOK, Answer \/ Traffic
    PROVE  TypeOK'
  <1>1. PICK op \in pend, n \in Nat, err \in BOOLEAN : Complete(op, n, err)
    BY KernelCompletes
  <1>2. mode' = mode /\ lane' = lane /\ stale' = stale  BY KernelCompletes
  <1>3. Started(pend') /\ late' \in Seq(Entry)  BY <1>1, CompleteTypes
  <1>4. used' \in [calls : Nat, reads : Nat] /\ accepted' = accepted
    <2>1. used \in [calls : Nat, reads : Nat]  BY DEF TypeOK
    <2>2. used' = used \/ used' = [used EXCEPT !.reads = @ + 1]
      BY DEF Answer, ConnectPerform, Traffic, WritePerform, ReadPerform, Fail
    <2>3. [used EXCEPT !.reads = @ + 1] \in [calls : Nat, reads : Nat]  BY <2>1
    <2>4. accepted' = accepted
      BY DEF Answer, ConnectPerform, Traffic, WritePerform, ReadPerform, Fail, history
    <2> QED  BY <2>1, <2>2, <2>3, <2>4
  <1>5. wire' \in Seq(Nat)
    <2>1. wire \in Seq(Nat) /\ send_buff_flush \in Seq(Nat)  BY DEF TypeOK
    <2>2. ASSUME NEW k \in 1 .. Len(send_buff_flush)
          PROVE  wire \o SubSeq(send_buff_flush, 1, k) \in Seq(Nat)
      <3>1. SubSeq(send_buff_flush, 1, k) \in Seq(Nat)  BY <2>1, <2>2, SubSeqProperties
      <3> QED  BY <2>1, <3>1, ConcatProperties
    <2>3. \/ wire' = wire
          \/ \E k \in 1 .. Len(send_buff_flush) : wire' = wire \o SubSeq(send_buff_flush, 1, k)
      BY DEF Answer, ConnectPerform, Traffic, WritePerform, ReadPerform, Fail, history
    <2> QED  BY <2>1, <2>2, <2>3
  <1>6. UNCHANGED <<connected, connecting, gen, receiving, sender, queue, pc>>
    BY <1>1 DEF Complete
  <1> QED  BY <1>2, <1>3, <1>4, <1>5, <1>6 DEF TypeOK, sender

LEMMA DeliverTypes ==
    ASSUME TypeOK, NEW k \in DOMAIN late, Deliver(k), mode' = mode, lane' = lane
    PROVE  TypeOK'
  <1>1. late \in Seq(Entry) /\ queue \in Seq(Entry) /\ k \in 1 .. Len(late)  BY DEF TypeOK
  <1>2. RemoveAt(late, k) \in Seq(Entry) /\ late[k] \in Entry  BY <1>1, RemoveFacts
  <1>3. late' \in Seq(Entry) /\ queue' \in Seq(Entry)
    BY <1>1, <1>2, AppendProperties DEF Deliver
  <1> QED  BY <1>3 DEF Deliver, TypeOK, sender, history

LEMMA TypeStep == TypeOK /\ [Next]_vars => TypeOK'
  <1> SUFFICES ASSUME TypeOK, [Next]_vars PROVE TypeOK'  OBVIOUS
  <1>1. CASE UNCHANGED vars
    BY <1>1 DEF vars, link, sender, history, TypeOK
  <1>2. ASSUME NEW t \in Threads, ThreadEnter(t) PROVE TypeOK'  BY <1>2, EnterTypes
  <1>3. ASSUME NEW t \in Threads, ThreadStep(t) PROVE TypeOK'  BY <1>3, ThreadTypes
  <1>4. CASE LaneStep  BY <1>4, LaneTypes
  <1>5. CASE Answer \/ Traffic  BY <1>5, KernelTypes
  <1>6. CASE IoService  BY <1>6, DeliverTypes DEF IoService
  <1> QED  BY <1>1, <1>2, <1>3, <1>4, <1>5, <1>6 DEF Next

-----------------------------------------------------------------------------
(* The flags and the operations.  What a step does to the line is enough.  *)

Calm(at) == at \notin {"receive", "close", "connect"}
flags == <<connected, connecting, gen, receiving, sending, pend, stale>>

LEMMA LineKept ==
    ASSUME Flags, UNCHANGED flags, Line' = Line, \A t \in Threads : Calm(pc'[t].at)
    PROVE  Flags'
  BY DEF Flags, flags, Calm, Tracked, ConnectOnce

\* An entry that is no completion comes or goes.
LEMMA LinePosts ==
    ASSUME TypeOK, Flags, UNCHANGED flags, \A t \in Threads : Calm(pc'[t].at),
           NEW e \in Entry, e.kind \notin Operations, Line' = Append(Line, e)
    PROVE  Flags'
  <1>1. PICK s \in Seq(Entry) : s = Line  BY LineType
  <1>2. PICK r \in Seq(Entry) : r = Append(s, e)  BY AppendProperties
  <1>3. e.kind \notin Transfers /\ e.kind # "connect" /\ e.kind # "read" /\ e.kind # "write"
    BY DEF Operations, Transfers
  <1>4. /\ Has(r, "connect") <=> Has(s, "connect")
        /\ Has(r, "read") <=> Has(s, "read")
        /\ Has(r, "write") <=> Has(s, "write")
    BY <1>2, <1>3, AppendEntry
  <1>5. /\ AtMostOne(s, "connect") => AtMostOne(r, "connect")
        /\ AtMostOne(s, "read") => AtMostOne(r, "read")
        /\ AtMostOne(s, "write") => AtMostOne(r, "write")
    BY <1>2, <1>3, AppendEntry
  <1>6. /\ AnswerLast(s) => AnswerLast(r)
        /\ Current(s, gen) => Current(r, gen)
    BY <1>2, <1>3, AppendOrder
  <1>7. Line = s /\ Line' = r  BY <1>1, <1>2
  <1> QED  BY <1>4, <1>5, <1>6, <1>7 DEF Flags, flags, Calm, Tracked, ConnectOnce

\* What is left of the line when its first entry is taken.
LEMMA LineTaken ==
    ASSUME TypeOK, queue # << >>, NEW kind, Head(queue).kind = kind
    PROVE  /\ Line \in Seq(Entry) /\ Line # << >> /\ Tail(Line) \in Seq(Entry)
           /\ Head(queue) \in Entry /\ Head(Line) = Head(queue)
           /\ Tail(queue) \o late = Tail(Line)
           /\ Tail(queue) \in Seq(Entry)
  <1>1. queue \in Seq(Entry) /\ late \in Seq(Entry) /\ Line \in Seq(Entry)
    BY LineType DEF TypeOK
  <1>2. Head(queue) \in Entry /\ Tail(queue) \in Seq(Entry)  BY <1>1, HeadTailProperties
  <1>3. /\ queue \o late # << >> /\ Head(queue \o late) = Head(queue)
        /\ Tail(queue) \o late = Tail(queue \o late)
    BY <1>1, <1>2, Concatenations
  <1>4. Tail(Line) \in Seq(Entry)  BY <1>1, <1>3, HeadTailProperties DEF Line
  <1> QED  BY <1>1, <1>2, <1>3, <1>4 DEF Line

LEMMA LineServes ==
    ASSUME TypeOK, Flags, UNCHANGED flags, UNCHANGED pc,
           Line # << >>, Head(Line).kind \notin Operations, Line' = Tail(Line)
    PROVE  Flags'
  <1>1. PICK s \in Seq(Entry) : s = Line  BY LineType
  <1>2. PICK r : r = Tail(s)  OBVIOUS
  <1>3. PICK e : e = Head(s)  OBVIOUS
  <1>4. e.kind \notin Transfers /\ e.kind # "connect" /\ e.kind # "read" /\ e.kind # "write"
    BY <1>1, <1>3 DEF Operations, Transfers
  <1>5. /\ Has(r, "connect") <=> Has(s, "connect")
        /\ Has(r, "read") <=> Has(s, "read")
        /\ Has(r, "write") <=> Has(s, "write")
    BY <1>1, <1>2, <1>3, <1>4, TailEntry
  <1>6. /\ AtMostOne(s, "connect") => AtMostOne(r, "connect")
        /\ AtMostOne(s, "read") => AtMostOne(r, "read")
        /\ AtMostOne(s, "write") => AtMostOne(r, "write")
    BY <1>1, <1>2, TailEntry
  <1>7. /\ AnswerLast(s) => AnswerLast(r)
        /\ Current(s, gen) => Current(r, gen)
    BY <1>1, <1>2, TailOrder
  <1>8. Line = s /\ Line' = r  BY <1>1, <1>2
  <1> QED  BY <1>5, <1>6, <1>7, <1>8 DEF Flags, flags, Tracked, ConnectOnce

LEMMA LineAborts ==
    ASSUME TypeOK
    PROVE  /\ queue \o (late \o Aborted(pend)) = Line \o Aborted(pend)
           /\ queue # << >> =>
                 Tail(queue) \o (late \o Aborted(pend)) = Tail(Line) \o Aborted(pend)
  <1>1. queue \in Seq(Entry) /\ late \in Seq(Entry) /\ gen \in Nat /\ IsFiniteSet(pend)
    BY DEF TypeOK, Started
  <1>2. PICK a \in Seq(Entry) : a = Aborted(pend)  BY <1>1, AbortSteps
  <1>3. \A x, y, z \in Seq(Entry) : (x \o y) \o z = x \o (y \o z)
    BY ConcatAssociative
  <1>4. (queue \o late) \o a = queue \o (late \o a)  BY <1>1, <1>3
  <1>5. ASSUME queue # << >> PROVE Tail(queue) \o (late \o a) = Tail(Line) \o a
    <2>1. Tail(queue) \in Seq(Entry) /\ Tail(queue) \o late = Tail(Line)
      BY <1>5, LineTaken
    <2>2. (Tail(queue) \o late) \o a = Tail(queue) \o (late \o a)  BY <1>1, <1>3, <2>1
    <2> QED  BY <2>1, <2>2
  <1> QED  BY <1>2, <1>4, <1>5 DEF Line

\* A read or a write of the current connection is not the connect of the next.
LEMMA OpsDiffer ==
    ASSUME gen \in Nat
    PROVE  /\ Op("read", gen) # Op("write", gen)
           /\ Op("read", gen) # Op("connect", gen + 1)
           /\ Op("write", gen) # Op("connect", gen + 1)
           /\ \A g : Op("connect", gen + 1) # Op("read", g) /\ Op("connect", g) # Op("write", gen)
           /\ \A g, h : Op("connect", g) # Op("read", h) /\ Op("write", g) # Op("read", h)
  BY DEF Op

\* cancel() turns what is outstanding into completions.
LEMMA CancelFlags ==
    ASSUME TypeOK, Flags, NEW t \in Threads, CancelStep(t)
    PROVE  Flags'
  <1>1. gen \in Nat /\ Line \in Seq(Entry) /\ IsFiniteSet(pend)  BY LineType DEF TypeOK, Started
  <1>2. PICK s \in Seq(Entry) : s = Line  BY <1>1
  <1>3. PICK r : r = s \o Aborted(pend)  OBVIOUS
  <1>4. Line' = r  BY <1>2, <1>3, LineAborts DEF CancelStep, Line
  <1>5. UNCHANGED <<connected, connecting, gen, receiving, sending, stale>> /\ pend' = {}
    BY DEF CancelStep, sender, history
  <1>6. \A u \in Threads : Calm(pc'[u].at)
    <2>1. pc' = [pc EXCEPT ![t].at = "disconnect"]  BY DEF CancelStep, Go
    <2>2. pc \in [Threads -> Callers]  BY DEF TypeOK
    <2>3. ASSUME NEW u \in Threads PROVE pc'[u].at = pc[u].at \/ pc'[u].at = "disconnect"
      BY <2>1, <2>2 DEF Callers
    <2> QED  BY <2>3 DEF Flags, Calm
  <1>7. CASE connected
    <2>1. pend \subseteq {Op("read", gen), Op("write", gen)}  BY <1>7 DEF Flags
    <2>2. /\ \A kind \in {"read", "write", "connect"} :
                /\ Has(r, kind) <=> Has(s, kind) \/ Op(kind, gen) \in pend
                /\ (AtMostOne(s, kind) /\ (Op(kind, gen) \in pend => ~Has(s, kind)))
                      => AtMostOne(r, kind)
          /\ Current(s, gen) => Current(r, gen)
          /\ ~Has(s, "connect") => AnswerLast(r)
      BY <1>1, <1>3, <2>1, AbortConnected
    <2>3. ~Has(s, "connect") /\ ~connecting  BY <1>2, <1>7 DEF Flags, ConnectOnce
    <2>4. Op("connect", gen) \notin pend  BY <2>1 DEF Op
    <2>5. ~Has(r, "connect") /\ AtMostOne(r, "connect") /\ AnswerLast(r) /\ Current(r, gen)
      BY <1>2, <1>7, <2>2, <2>3, <2>4 DEF Flags, ConnectOnce
    <2>6. /\ AtMostOne(r, "read") /\ (receiving <=> Has(r, "read"))
          /\ AtMostOne(r, "write") /\ (sending <=> Has(r, "write"))
      BY <1>2, <1>7, <2>2 DEF Flags, Tracked
    <2> QED
      BY <1>4, <1>5, <1>6, <1>7, <2>3, <2>5, <2>6 DEF Flags, Calm, Tracked, ConnectOnce
  <1>8. CASE ~connected
    <2>1. pend \subseteq {Op("connect", gen + 1)}  BY <1>8 DEF Flags
    <2>2. /\ Has(r, "connect") <=> Has(s, "connect") \/ Op("connect", gen + 1) \in pend
          /\ (AtMostOne(s, "connect") /\ (Op("connect", gen + 1) \in pend => ~Has(s, "connect")))
                => AtMostOne(r, "connect")
          /\ AnswerLast(s) => AnswerLast(r)
      BY <1>1, <1>3, <2>1, AbortConnecting
    <2>3. /\ Has(r, "connect") => connecting
          /\ AtMostOne(r, "connect") /\ AnswerLast(r)
      BY <1>2, <2>2 DEF Flags, ConnectOnce
    <2> QED  BY <1>4, <1>5, <1>6, <1>8, <2>3 DEF Flags, Calm, ConnectOnce
  <1> QED  BY <1>7, <1>8 DEF TypeOK

\* disconnect() on the lane leaves nothing outstanding; `s' is what is before it.
LEMMA DisconnectFlags ==
    ASSUME TypeOK, Flags, connected, DoDisconnect, pc' = pc, stale' = stale,
           NEW s \in Seq(Entry), ~Has(s, "connect"), Line' = s \o Aborted(pend)
    PROVE  Flags'
  <1>1. /\ connected' = FALSE /\ connecting' = FALSE /\ receiving' = FALSE /\ sending' = FALSE
        /\ gen' = gen /\ pend' = {}
    BY DisconnectTypes
  <1>2. gen \in Nat /\ IsFiniteSet(pend)  BY DEF TypeOK, Started
  <1>3. PICK r : r = s \o Aborted(pend)  OBVIOUS
  <1>4. pend \subseteq {Op("read", gen), Op("write", gen)}  BY DEF Flags
  <1>5. /\ \A kind \in {"read", "write", "connect"} :
              Has(r, kind) <=> Has(s, kind) \/ Op(kind, gen) \in pend
        /\ ~Has(s, "connect") => AnswerLast(r)
        /\ r \in Seq(Entry)
    BY <1>2, <1>3, <1>4, AbortConnected
  <1>6. Op("connect", gen) \notin pend  BY <1>4 DEF Op
  <1>7. ~Has(r, "connect") /\ AnswerLast(r)  BY <1>5, <1>6
  <1>8. AtMostOne(r, "connect")  BY <1>5, <1>7, NoneOf
  <1>9. \A t \in Threads : pc'[t].at \notin {"receive", "close", "connect"}  BY DEF Flags
  <1> QED  BY <1>1, <1>3, <1>7, <1>8, <1>9 DEF Flags, ConnectOnce

\* An outstanding operation completes.
LEMMA CompleteFlags ==
    ASSUME TypeOK, Flags, NEW op \in pend, NEW n \in Nat, NEW err \in BOOLEAN,
           Complete(op, n, err), stale' = stale
    PROVE  Flags'
  <1>1. gen \in Nat /\ late \in Seq(Entry) /\ queue \in Seq(Entry) /\ Line \in Seq(Entry)
    BY LineType DEF TypeOK
  <1>2. PICK d \in Entry : d.kind = op.kind /\ d.gen = op.gen /\ late' = Append(late, d)
    BY CompleteTypes
  <1>3. PICK s \in Seq(Entry) : s = Line  BY <1>1
  <1>4. PICK r \in Seq(Entry) : r = Append(s, d)  BY AppendProperties
  <1>5. Line' = r
    <2>1. queue' = queue  BY DEF Complete
    <2>2. queue \o Append(late, d) = Append(queue \o late, d)  BY <1>1, Concatenations
    <2> QED  BY <1>2, <1>3, <1>4, <2>1, <2>2 DEF Line
  <1>6. /\ UNCHANGED <<connected, connecting, gen, receiving, sending, pc>>
        /\ pend' = pend \ {op}
    BY DEF Complete, sender
  <1>7. ASSUME NEW kind
        PROVE  /\ Has(r, kind) <=> Has(s, kind) \/ d.kind = kind
               /\ AtMostOne(s, kind) /\ (d.kind = kind => ~Has(s, kind)) => AtMostOne(r, kind)
    BY <1>4, AppendEntry
  <1>8. /\ AnswerLast(s) /\ (d.kind \in Transfers => ~Has(s, "connect")) => AnswerLast(r)
        /\ Current(s, gen) /\ (d.kind \in Transfers => d.gen = gen) => Current(r, gen)
    BY <1>4, AppendOrder
  <1>9. \A t \in Threads : pc'[t].at \notin {"receive", "close", "connect"}
    BY <1>6 DEF Flags
  <1>10. CASE connected
    <2>1. pend \subseteq {Op("read", gen), Op("write", gen)}  BY <1>10 DEF Flags
    <2>2. /\ d.kind \in Transfers /\ d.gen = gen /\ op = Op(d.kind, gen)
          /\ d.kind \in {"read", "write"}
      BY <1>1, <1>2, <2>1, OpTypes DEF Transfers
    <2>3. ~Has(s, "connect") /\ ~connecting /\ AtMostOne(s, "connect") /\ AnswerLast(s)
      BY <1>3, <1>10 DEF Flags, ConnectOnce
    <2>4. ~Has(r, "connect") /\ AtMostOne(r, "connect") /\ AnswerLast(r) /\ Current(r, gen)
      BY <1>3, <1>7, <1>8, <1>10, <2>2, <2>3 DEF Flags
    <2>5. Op("connect", gen + 1) \notin pend'  BY <1>1, <1>6, <2>1, OpsDiffer
    <2>6. ASSUME NEW kind \in {"read", "write"}, NEW flag, Tracked(s, kind, flag)
          PROVE  /\ AtMostOne(r, kind)
                 /\ Op(kind, gen) \in pend' => ~Has(r, kind)
                 /\ flag <=> Op(kind, gen) \in pend' \/ Has(r, kind)
      <3>1. CASE d.kind = kind
        <4>1. op = Op(kind, gen) /\ op \notin pend'  BY <1>6, <2>2, <3>1
        <4> QED  BY <1>7, <2>6, <3>1, <4>1 DEF Tracked
      <3>2. CASE d.kind # kind
        <4>1. op # Op(kind, gen)  BY <1>1, <2>2, <3>2, OpsDiffer
        <4> QED  BY <1>6, <1>7, <2>6, <3>2, <4>1 DEF Tracked
      <3> QED  BY <3>1, <3>2
    <2>7. Tracked(s, "read", receiving) /\ Tracked(s, "write", sending)
      BY <1>3, <1>10 DEF Flags
    <2>8. /\ AtMostOne(r, "read") /\ (Op("read", gen) \in pend' => ~Has(r, "read"))
          /\ receiving <=> Op("read", gen) \in pend' \/ Has(r, "read")
      BY <2>6, <2>7
    <2>9. /\ AtMostOne(r, "write") /\ (Op("write", gen) \in pend' => ~Has(r, "write"))
          /\ sending <=> Op("write", gen) \in pend' \/ Has(r, "write")
      BY <2>6, <2>7
    <2>10. pend' \subseteq {Op("read", gen), Op("write", gen)}  BY <1>6, <2>1
    <2> QED
      BY <1>5, <1>6, <1>9, <1>10, <2>3, <2>4, <2>5, <2>8, <2>9, <2>10
      DEF Flags, Tracked, ConnectOnce
  <1>11. CASE ~connected
    <2>1. pend \subseteq {Op("connect", gen + 1)}  BY <1>11 DEF Flags
    <2>2. op = Op("connect", gen + 1) /\ d.kind = "connect" /\ d.kind \notin Transfers
      BY <1>1, <1>2, <2>1, OpTypes DEF Transfers
    <2>3. connecting /\ ~Has(s, "connect") /\ AtMostOne(s, "connect") /\ AnswerLast(s)
      BY <1>3, <2>2 DEF Flags, ConnectOnce
    <2>4. AtMostOne(r, "connect") /\ AnswerLast(r)  BY <1>7, <1>8, <2>2, <2>3
    <2>5. pend' = {}  BY <1>6, <2>1, <2>2
    <2> QED  BY <1>5, <1>6, <1>9, <1>11, <2>3, <2>4, <2>5 DEF Flags, ConnectOnce
  <1> QED  BY <1>10, <1>11 DEF TypeOK

\* The handlers of the calls: trySend, connectAsync, disconnectAsync.
LEMMA CallFlags ==
    ASSUME TypeOK, Flags, TrySendHandler \/ ConnectHandler \/ DisconnectHandler
    PROVE  Flags'
  <1>1. /\ queue # << >> /\ queue' = Tail(queue) /\ pc' = pc /\ stale' = stale
        /\ Head(queue).kind \in {"trySend", "connectAsync", "disconnect"}
    BY DEF TrySendHandler, TrySendHandlerWhen, ConnectHandler, DisconnectHandler, Runs, history
  <1>2. /\ Line \in Seq(Entry) /\ Line # << >> /\ Tail(Line) \in Seq(Entry)
        /\ Head(Line) = Head(queue) /\ Tail(queue) \o late = Tail(Line)
    BY <1>1, LineTaken
  <1>3. Head(Line).kind \notin Operations  BY <1>1, <1>2 DEF Operations, Transfers
  <1>4. gen \in Nat /\ connected \in BOOLEAN /\ Started(pend)  BY DEF TypeOK
  <1>5. ASSUME UNCHANGED flags, late' = late PROVE Flags'
    <2>1. Line' = Tail(Line)  BY <1>1, <1>2, <1>5 DEF Line
    <2> QED  BY <1>1, <1>2, <1>3, <1>5, <2>1, LineServes
  <1>6. PICK s \in Seq(Entry) : s = Line  BY <1>2
  <1>7. PICK r \in Seq(Entry) : r = Tail(s)  BY <1>2, <1>6
  <1>8. PICK e : e = Head(s)  OBVIOUS
  <1>9. e.kind \notin Operations /\ s # << >>  BY <1>2, <1>3, <1>6, <1>8
  <1>10. e.kind \notin Transfers /\ e.kind # "connect" /\ e.kind # "read" /\ e.kind # "write"
    BY <1>9 DEF Operations, Transfers
  <1>11. ASSUME NEW kind \in {"read", "write", "connect"}
         PROVE  (Has(r, kind) <=> Has(s, kind)) /\ (AtMostOne(s, kind) => AtMostOne(r, kind))
    BY <1>7, <1>8, <1>9, <1>10, TailEntry
  <1>12. (AnswerLast(s) => AnswerLast(r)) /\ (Current(s, gen) => Current(r, gen))
    BY <1>7, <1>9, TailOrder
  <1>13. \A t \in Threads : pc'[t].at \notin {"receive", "close", "connect"}
    BY <1>1 DEF Flags
  <1>14. CASE TrySendHandler
    <2>1. UNCHANGED <<connected, connecting, gen, receiving, late, pc, stale>>
      BY <1>14 DEF TrySendHandler, TrySendHandlerWhen, history
    <2>2. CASE ~sending /\ connected
      <3>1. TrySend(send_buff_flush, send_flush_offset, bytes_sending)
        BY <1>14, <2>2 DEF TrySendHandler, TrySendHandlerWhen
      <3>2. send_buff_flush \in Seq(Nat) /\ send_flush_offset \in Nat /\ bytes_sending \in Nat
        BY DEF TypeOK
      <3>3. /\ sending' \in BOOLEAN
            /\ pend' = IF sending' THEN pend \cup {Op("write", gen)} ELSE pend
        <4>1. /\ sending' \in BOOLEAN
              /\ pend' = IF sending' THEN Begin(Op("write", gen)) ELSE pend
          BY <3>1, <3>2, TrySendTypes
        <4>2. Op("write", gen) \notin pend  BY <2>2 DEF Flags, Tracked
        <4>3. Begin(Op("write", gen)) = pend \cup {Op("write", gen)}
          BY <1>4, <4>2, BeginType DEF Operations, Transfers
        <4> QED  BY <4>1, <4>3
      <3>4. Line' = r  BY <1>1, <1>2, <1>6, <1>7, <2>1 DEF Line
      <3>5. /\ pend \subseteq {Op("read", gen), Op("write", gen)}
            /\ ~connecting /\ ConnectOnce(s) /\ AnswerLast(s) /\ Current(s, gen)
            /\ Tracked(s, "read", receiving) /\ Tracked(s, "write", sending) /\ ~stale
        BY <1>6, <2>2 DEF Flags
      <3>6. /\ pend' \subseteq {Op("read", gen), Op("write", gen)}
            /\ Op("connect", gen + 1) \notin pend'
            /\ Op("read", gen) \in pend' <=> Op("read", gen) \in pend
        BY <1>4, <3>3, <3>5, OpsDiffer
      <3>7. ~Has(r, "write") /\ AtMostOne(r, "write") /\ (sending' <=> Op("write", gen) \in pend')
        BY <1>11, <2>2, <3>3, <3>5 DEF Tracked
      <3>8. ~Has(r, "connect") /\ AtMostOne(r, "connect")
        BY <1>11, <3>5 DEF ConnectOnce
      <3>9. /\ AtMostOne(r, "read") /\ (Op("read", gen) \in pend' => ~Has(r, "read"))
            /\ receiving <=> Op("read", gen) \in pend' \/ Has(r, "read")
        BY <1>11, <3>5, <3>6 DEF Tracked
      <3> QED
        BY <1>12, <1>13, <2>1, <2>2, <3>4, <3>5, <3>6, <3>7, <3>8, <3>9
        DEF Flags, Tracked, ConnectOnce
    <2>3. CASE ~(~sending /\ connected)
      <3>1. UNCHANGED flags
        BY <1>14, <2>1, <2>3 DEF TrySendHandler, TrySendHandlerWhen, flags, sender
      <3> QED  BY <1>5, <2>1, <3>1
    <2> QED  BY <2>2, <2>3
  <1>15. CASE ConnectHandler
    <2>1. UNCHANGED <<connected, gen, receiving, sending, late, pc, stale>>
      BY <1>15 DEF ConnectHandler, sender, history
    <2>2. CASE connected \/ connecting
      <3>1. connecting' = connecting /\ pend' = pend
        BY <1>15, <2>2 DEF ConnectHandler, TypeOK
      <3> QED  BY <1>5, <2>1, <3>1 DEF flags
    <2>3. CASE ~connected /\ ~connecting
      <3>1. connecting' = TRUE /\ pend' = pend \cup {Op("connect", gen + 1)}
        <4>1. Op("connect", gen + 1) \notin pend  BY <2>3 DEF Flags, ConnectOnce
        <4>2. gen + 1 \in Nat /\ "connect" \in Operations  BY <1>4 DEF Operations
        <4>3. Begin(Op("connect", gen + 1)) = pend \cup {Op("connect", gen + 1)}
          BY <1>4, <4>1, <4>2, BeginType
        <4> QED  BY <1>15, <2>3, <4>3 DEF ConnectHandler
      <3>2. Line' = r  BY <1>1, <1>2, <1>6, <1>7, <2>1 DEF Line
      <3>3. /\ pend \subseteq {Op("connect", gen + 1)} /\ ~sending /\ ~receiving
            /\ ConnectOnce(s) /\ AnswerLast(s) /\ ~stale
        BY <1>6, <2>3 DEF Flags
      <3>4. ~Has(r, "connect") /\ AtMostOne(r, "connect")
        BY <1>11, <2>3, <3>3 DEF ConnectOnce
      <3> QED
        BY <1>12, <1>13, <2>1, <2>3, <3>1, <3>2, <3>3, <3>4 DEF Flags, ConnectOnce
    <2> QED  BY <2>2, <2>3
  <1>16. CASE DisconnectHandler
    <2>1. CASE connected
      <3>1. DoDisconnect  BY <1>16, <2>1 DEF DisconnectHandler
      <3>2. ~Has(r, "connect")  BY <1>6, <1>11, <2>1 DEF Flags, ConnectOnce
      <3>3. Line' = r \o Aborted(pend)
        BY <1>1, <1>6, <1>7, <3>1, DisconnectTypes, LineAborts DEF Line
      <3> QED  BY <1>1, <2>1, <3>1, <3>2, <3>3, DisconnectFlags
    <2>2. CASE ~connected
      <3>1. UNCHANGED flags /\ late' = late
        BY <1>1, <1>16, <2>2 DEF DisconnectHandler, flags, link, sender
      <3> QED  BY <1>5, <3>1
    <2> QED  BY <2>1, <2>2
  <1> QED  BY <1>14, <1>15, <1>16

\* The handler of a connect: everything before it is of earlier connections.
LEMMA ConnectedFlags ==
    ASSUME TypeOK, Flags, Connected
    PROVE  Flags'
  <1>1. /\ queue # << >> /\ queue' = Tail(queue) /\ Head(queue).kind = "connect"
        /\ UNCHANGED <<pc, stale, late, sending>> /\ connecting' = FALSE
    BY DEF Connected, ConnectedWith, Runs, history
  <1>2. /\ Line \in Seq(Entry) /\ Line # << >> /\ Tail(Line) \in Seq(Entry)
        /\ Head(queue) \in Entry
        /\ Head(Line) = Head(queue) /\ Tail(queue) \o late = Tail(Line)
    BY <1>1, LineTaken
  <1>3. PICK s \in Seq(Entry) : s = Line  BY <1>2
  <1>4. PICK r \in Seq(Entry) : r = Tail(s)  BY <1>2, <1>3
  <1>5. Head(s).kind = "connect" /\ s # << >>  BY <1>1, <1>2, <1>3
  <1>6. Line' = r  BY <1>1, <1>2, <1>3, <1>4 DEF Line
  <1>7. Has(s, "connect") /\ (AtMostOne(s, "connect") => ~Has(r, "connect"))
    BY <1>4, <1>5, TailEntry
  <1>8. AnswerLast(s) => AnswerLast(r) /\ ~Has(r, "read") /\ ~Has(r, "write")
    BY <1>4, <1>5, TailOrder
  <1>9. ConnectOnce(s) /\ AnswerLast(s) /\ ~stale  BY <1>3 DEF Flags
  <1>10. connecting /\ Op("connect", gen + 1) \notin pend  BY <1>7, <1>9 DEF ConnectOnce
  <1>11. ~connected /\ ~receiving /\ ~sending /\ pend = {}  BY <1>10 DEF Flags
  <1>12. /\ ~Has(r, "connect") /\ ~Has(r, "read") /\ ~Has(r, "write") /\ AnswerLast(r)
         /\ AtMostOne(r, "connect") /\ AtMostOne(r, "read") /\ AtMostOne(r, "write")
         /\ \A g : Current(r, g)
    <2>1. ~Has(r, "connect") /\ ~Has(r, "read") /\ ~Has(r, "write") /\ AnswerLast(r)
      BY <1>7, <1>8, <1>9 DEF ConnectOnce
    <2>2. AtMostOne(r, "connect") /\ AtMostOne(r, "read") /\ AtMostOne(r, "write")
      BY <2>1, NoneOf
    <2>3. \A g : Current(r, g)  BY <2>1, NoneOf
    <2> QED  BY <2>1, <2>2, <2>3
  <1>13. \A t \in Threads : pc'[t].at \notin {"receive", "close", "connect"}
    BY <1>1 DEF Flags
  <1>14. CASE Head(queue).err
    <2>1. UNCHANGED <<connected, gen, receiving, pend>>
      BY <1>14 DEF Connected, ConnectedWith
    <2> QED  BY <1>1, <1>6, <1>9, <1>11, <1>12, <1>13, <2>1 DEF Flags, ConnectOnce
  <1>15. CASE ~Head(queue).err
    <2>1. /\ connected' = TRUE /\ receiving' = TRUE /\ pend' = {Op("read", gen')}
          /\ gen' \in Nat
      <3>1. /\ connected' = TRUE /\ receiving' = TRUE /\ pend' = Begin(Op("read", gen'))
            /\ gen' = Head(queue).gen
        BY <1>11, <1>15 DEF Connected, ConnectedWith
      <3>2. gen' \in Nat  BY <1>2, <3>1 DEF Entry
      <3>3. \A g \in Nat : Begin(Op("read", g)) = pend \cup {Op("read", g)}
        BY <1>11, BeginType DEF TypeOK, Operations, Transfers
      <3>4. pend' = {Op("read", gen')}  BY <1>11, <3>1, <3>2, <3>3
      <3> QED  BY <3>1, <3>2, <3>4
    <2>2. /\ Op("connect", gen' + 1) # Op("read", gen')
          /\ Op("write", gen') # Op("read", gen')
      BY DEF Op
    <2>3. Current(r, gen')  BY <1>12
    <2> QED
      BY <1>1, <1>6, <1>9, <1>11, <1>12, <1>13, <2>1, <2>2, <2>3 DEF Flags, Tracked, ConnectOnce
  <1> QED  BY <1>14, <1>15

\* The handlers of a read and of a write.  `kind' is theirs, `other' the other.
LEMMA TransferTaken ==
    ASSUME TypeOK, Flags, queue # << >>, Head(queue).kind \in Transfers
    PROVE  /\ Tail(Line) \in Seq(Entry) /\ Tail(queue) \o late = Tail(Line)
           /\ AnswerLast(Tail(Line))
           /\ AtMostOne(Tail(Line), "connect")
           /\ Has(Tail(Line), "connect") <=> Has(Line, "connect")
           /\ connected =>
                 /\ Head(queue).gen = gen /\ Current(Tail(Line), gen)
                 /\ \A kind \in Transfers : AtMostOne(Tail(Line), kind)
                 /\ ~Has(Tail(Line), Head(queue).kind)
                 /\ Op(Head(queue).kind, gen) \notin pend
                 /\ \A kind \in Transfers \ {Head(queue).kind} :
                       Has(Tail(Line), kind) <=> Has(Line, kind)
  <1>1. /\ Line \in Seq(Entry) /\ Line # << >> /\ Tail(Line) \in Seq(Entry)
        /\ Head(queue) \in Entry
        /\ Head(Line) = Head(queue) /\ Tail(queue) \o late = Tail(Line)
    BY LineTaken
  <1>2. PICK s \in Seq(Entry) : s = Line  BY <1>1
  <1>3. PICK r \in Seq(Entry) : r = Tail(s)  BY <1>1, <1>2
  <1>4. PICK e \in Entry : e = Head(queue)  BY <1>1
  <1>5. e = Head(s) /\ s # << >> /\ e.kind \in Transfers /\ e.kind # "connect"
    BY <1>1, <1>2, <1>4 DEF Transfers
  <1>6. ASSUME NEW kind
        PROVE  /\ Has(s, kind) <=> Has(r, kind) \/ e.kind = kind
               /\ AtMostOne(s, kind) =>
                     AtMostOne(r, kind) /\ (e.kind = kind => ~Has(r, kind))
    BY <1>3, <1>5, TailEntry
  <1>7. /\ AnswerLast(s) => AnswerLast(r)
        /\ Current(s, gen) => Current(r, gen) /\ (e.kind \in Transfers => e.gen = gen)
    BY <1>3, <1>5, TailOrder
  <1>8. AnswerLast(r) /\ AtMostOne(r, "connect") /\ (Has(r, "connect") <=> Has(s, "connect"))
    BY <1>2, <1>5, <1>6, <1>7 DEF Flags, ConnectOnce
  <1>9. ASSUME connected
        PROVE  /\ e.gen = gen /\ Current(r, gen)
               /\ \A kind \in Transfers : AtMostOne(r, kind)
               /\ ~Has(r, e.kind) /\ Op(e.kind, gen) \notin pend
               /\ \A kind \in Transfers \ {e.kind} : Has(r, kind) <=> Has(s, kind)
    <2>1. Current(s, gen) /\ Tracked(s, "read", receiving) /\ Tracked(s, "write", sending)
      BY <1>2, <1>9 DEF Flags
    <2>2. e.gen = gen /\ Current(r, gen)  BY <1>5, <1>7, <2>1
    <2>3. \A kind \in Transfers :
             AtMostOne(s, kind) /\ (Op(kind, gen) \in pend => ~Has(s, kind))
      BY <2>1 DEF Tracked, Transfers
    <2>4. Has(s, e.kind)  BY <1>6
    <2>5. ~Has(r, e.kind) /\ Op(e.kind, gen) \notin pend  BY <1>5, <1>6, <2>3, <2>4
    <2>6. \A kind \in Transfers : AtMostOne(r, kind)  BY <1>6, <2>3
    <2>7. \A kind \in Transfers \ {e.kind} : Has(r, kind) <=> Has(s, kind)  BY <1>6
    <2> QED  BY <2>2, <2>5, <2>6, <2>7
  <1> QED  BY <1>1, <1>2, <1>3, <1>4, <1>8, <1>9

LEMMA ReadFlags ==
    ASSUME TypeOK, Flags, ReadHandler
    PROVE  Flags'
  <1>1. /\ queue # << >> /\ queue' = Tail(queue) /\ Head(queue).kind = "read"
        /\ pc' = pc /\ Mistaken(Head(queue))
    BY DEF ReadHandler, Runs
  <1>2. "read" \in Transfers /\ "write" \in Transfers \ {"read"} /\ "write" \in Transfers
    BY DEF Transfers
  <1>3. PICK r : r = Tail(Line)  OBVIOUS
  <1>4. /\ r \in Seq(Entry) /\ Tail(queue) \o late = r /\ AnswerLast(r)
        /\ AtMostOne(r, "connect") /\ (Has(r, "connect") <=> Has(Line, "connect"))
        /\ connected =>
              /\ Head(queue).gen = gen /\ Current(r, gen)
              /\ AtMostOne(r, "read") /\ AtMostOne(r, "write")
              /\ ~Has(r, "read") /\ Op("read", gen) \notin pend
              /\ Has(r, "write") <=> Has(Line, "write")
    BY <1>1, <1>2, <1>3, TransferTaken
  <1>5. stale' = stale /\ ~stale'
    <2>1. stale = FALSE  BY DEF Flags, TypeOK
    <2>2. ~(connected /\ Head(queue).gen # gen)  BY <1>4
    <2>3. stale' = (stale \/ (connected /\ Head(queue).gen # gen))  BY <1>1 DEF Mistaken
    <2> QED  BY <2>1, <2>2, <2>3
  <1>6. \A t \in Threads : pc'[t].at \notin {"receive", "close", "connect"}
    BY <1>1 DEF Flags
  <1>7. Line' = r /\ UNCHANGED <<connected, connecting, gen, pend, sending>> /\ receiving' = FALSE
    BY <1>1, <1>4 DEF ReadHandler, Line, sender
  <1>8. CASE connected
    <2>1. /\ pend \subseteq {Op("read", gen), Op("write", gen)} /\ ~connecting
          /\ ~Has(Line, "connect") /\ Tracked(Line, "write", sending)
          /\ Op("connect", gen + 1) \notin pend
      BY <1>8 DEF Flags, ConnectOnce
    <2>2. /\ Op("write", gen) \in pend => ~Has(r, "write")
          /\ sending <=> Op("write", gen) \in pend \/ Has(r, "write")
      BY <1>4, <1>8, <2>1 DEF Tracked
    <2> QED
      BY <1>4, <1>5, <1>6, <1>7, <1>8, <2>1, <2>2 DEF Flags, Tracked, ConnectOnce
  <1>9. CASE ~connected
    <2>1. ConnectOnce(Line) /\ pend \subseteq {Op("connect", gen + 1)} /\ ~sending
      BY <1>9 DEF Flags
    <2> QED  BY <1>4, <1>5, <1>6, <1>7, <1>9, <2>1 DEF Flags, ConnectOnce
  <1> QED  BY <1>8, <1>9

\* What a handler does in its second step: tryReceive or disconnectAsync(true).
LEMMA SecondFlags ==
    ASSUME TypeOK, Flags, ReceiveOn \/ EndHere
    PROVE  Flags'
  <1>1. pc' = pc /\ stale' = stale /\ queue' = queue  BY DEF ReceiveOn, EndHere, history
  <1>2. \A t \in Threads : Calm(pc'[t].at)  BY <1>1 DEF Flags, Calm
  <1>3. gen \in Nat /\ Started(pend) /\ Line \in Seq(Entry)  BY LineType DEF TypeOK
  <1>4. CASE ReceiveOn /\ ~receiving /\ connected
    <2>1. /\ UNCHANGED <<connected, connecting, gen, sending, late>> /\ receiving' = TRUE
          /\ pend' = Begin(Op("read", gen))
      BY <1>4 DEF ReceiveOn, sender
    <2>2. /\ pend \subseteq {Op("read", gen), Op("write", gen)} /\ ~connecting
          /\ Op("read", gen) \notin pend /\ ~Has(Line, "read")
          /\ Tracked(Line, "write", sending) /\ ConnectOnce(Line) /\ Tracked(Line, "read", receiving)
      BY <1>4 DEF Flags, Tracked
    <2>3. pend' = pend \cup {Op("read", gen)}
      BY <1>3, <2>1, <2>2, BeginType DEF Operations, Transfers
    <2>4. /\ pend' \subseteq {Op("read", gen), Op("write", gen)}
          /\ Op("connect", gen + 1) \in pend' <=> Op("connect", gen + 1) \in pend
          /\ Op("write", gen) \in pend' <=> Op("write", gen) \in pend
      BY <1>3, <2>2, <2>3, OpsDiffer
    <2>5. Line' = Line  BY <1>1, <2>1 DEF Line
    <2>6. Tracked(Line, "write", sending)' /\ ConnectOnce(Line)'
      BY <2>1, <2>2, <2>4, <2>5 DEF Tracked, ConnectOnce
    <2>7. Tracked(Line, "read", receiving)'
      BY <2>1, <2>2, <2>3, <2>5 DEF Tracked
    <2> QED
      BY <1>1, <1>2, <1>4, <2>1, <2>2, <2>4, <2>5, <2>6, <2>7 DEF Flags, Calm
  <1>5. CASE EndHere /\ connected /\ ~connecting
    <2>1. DoDisconnect  BY <1>5 DEF EndHere
    <2>2. ~Has(Line, "connect")  BY <1>5 DEF Flags, ConnectOnce
    <2>3. Line' = Line \o Aborted(pend)  BY <1>1, <2>1, DisconnectTypes, LineAborts DEF Line
    <2> QED  BY <1>1, <1>3, <1>5, <2>1, <2>2, <2>3, DisconnectFlags
  <1>6. CASE \/ ReceiveOn /\ ~(~receiving /\ connected)
             \/ EndHere /\ ~(connected /\ ~connecting)
    <2>1. UNCHANGED flags /\ Line' = Line
      BY <1>1, <1>6 DEF ReceiveOn, EndHere, flags, link, sender, Line
    <2> QED  BY <1>2, <2>1, LineKept
  <1> QED  BY <1>4, <1>5, <1>6

LEMMA WriteFlags ==
    ASSUME TypeOK, Flags, WriteHandler
    PROVE  Flags'
  <1>1. /\ queue # << >> /\ queue' = Tail(queue) /\ Head(queue).kind = "write"
        /\ pc' = pc /\ Mistaken(Head(queue))
    BY DEF WriteHandler, WriteHandlerWith, Runs
  <1>2. "write" \in Transfers /\ "read" \in Transfers \ {"write"} /\ "read" \in Transfers
    BY DEF Transfers
  <1>3. PICK r : r = Tail(Line)  OBVIOUS
  <1>4. /\ r \in Seq(Entry) /\ Tail(queue) \o late = r /\ AnswerLast(r)
        /\ AtMostOne(r, "connect") /\ (Has(r, "connect") <=> Has(Line, "connect"))
        /\ connected =>
              /\ Head(queue).gen = gen /\ Current(r, gen)
              /\ AtMostOne(r, "read") /\ AtMostOne(r, "write")
              /\ ~Has(r, "write") /\ Op("write", gen) \notin pend
              /\ Has(r, "read") <=> Has(Line, "read")
    BY <1>1, <1>2, <1>3, TransferTaken
  <1>5. stale' = stale /\ ~stale'
    <2>1. stale = FALSE  BY DEF Flags, TypeOK
    <2>2. ~(connected /\ Head(queue).gen # gen)  BY <1>4
    <2>3. stale' = (stale \/ (connected /\ Head(queue).gen # gen))  BY <1>1 DEF Mistaken
    <2> QED  BY <2>1, <2>2, <2>3
  <1>6. \A t \in Threads : pc'[t].at \notin {"receive", "close", "connect"}
    BY <1>1 DEF Flags
  <1>7. gen \in Nat /\ Started(pend)  BY DEF TypeOK
  <1>8. ASSUME NEW flush, NEW offset, NEW count, TrySend(flush, offset, count), connected,
               UNCHANGED <<connected, connecting, gen, receiving, late>>
        PROVE  Flags'
    <2>1. Line' = r  BY <1>1, <1>4, <1>8 DEF Line
    <2>2. /\ pend \subseteq {Op("read", gen), Op("write", gen)} /\ ~connecting
          /\ ~Has(Line, "connect") /\ Tracked(Line, "read", receiving)
      BY <1>8 DEF Flags, ConnectOnce
    <2>3. /\ sending' \in BOOLEAN
          /\ pend' = IF sending' THEN pend \cup {Op("write", gen)} ELSE pend
      <3>1. Begin(Op("write", gen)) = pend \cup {Op("write", gen)}
        BY <1>4, <1>7, <1>8, BeginType DEF Operations, Transfers
      <3> QED  BY <1>8, <3>1 DEF TrySend
    <2>4. /\ pend' \subseteq {Op("read", gen), Op("write", gen)}
          /\ Op("connect", gen + 1) \notin pend'
          /\ Op("read", gen) \in pend' <=> Op("read", gen) \in pend
      BY <1>7, <2>2, <2>3, OpsDiffer
    <2>5. /\ Op("read", gen) \in pend' => ~Has(r, "read")
          /\ receiving <=> Op("read", gen) \in pend' \/ Has(r, "read")
      BY <1>4, <1>8, <2>2, <2>4 DEF Tracked
    <2>6. sending' <=> Op("write", gen) \in pend'  BY <1>4, <1>8, <2>3
    <2> QED
      BY <1>4, <1>5, <1>6, <1>8, <2>1, <2>2, <2>4, <2>5, <2>6 DEF Flags, Tracked, ConnectOnce
  <1>9. ASSUME sending' = FALSE, UNCHANGED link PROVE Flags'
    <2>1. Line' = r /\ UNCHANGED <<connected, connecting, gen, receiving, pend>>
      BY <1>1, <1>4, <1>9 DEF Line, link
    <2>2. CASE connected
      <3>1. /\ pend \subseteq {Op("read", gen), Op("write", gen)} /\ ~connecting
            /\ ~Has(Line, "connect") /\ Tracked(Line, "read", receiving)
            /\ Op("connect", gen + 1) \notin pend
        BY <2>2 DEF Flags, ConnectOnce
      <3>2. /\ Op("read", gen) \in pend => ~Has(r, "read")
            /\ receiving <=> Op("read", gen) \in pend \/ Has(r, "read")
        BY <1>4, <2>2, <3>1 DEF Tracked
      <3> QED
        BY <1>4, <1>5, <1>6, <1>9, <2>1, <2>2, <3>1, <3>2 DEF Flags, Tracked, ConnectOnce
    <2>3. CASE ~connected
      <3>1. ConnectOnce(Line) /\ pend \subseteq {Op("connect", gen + 1)} /\ ~receiving
        BY <2>3 DEF Flags
      <3> QED  BY <1>4, <1>5, <1>6, <1>9, <2>1, <2>3, <3>1 DEF Flags, ConnectOnce
    <2> QED  BY <2>2, <2>3
  <1> QED  BY <1>8, <1>9 DEF WriteHandler, WriteHandlerWith

\* A thread that enters a call, or goes on in one.
LEMMA ThreadFlags ==
    ASSUME TypeOK, InOrder, Flags, NEW t \in Threads, ThreadEnter(t) \/ ThreadStep(t)
    PROVE  Flags'
  <1>1. /\ pc \in [Threads -> Callers] /\ queue \in Seq(Entry) /\ late \in Seq(Entry)
        /\ ~mode.strand /\ ~mode.sync /\ ~mode.receive
    BY DEF TypeOK, InOrder
  <1>2. ASSUME NEW e, Calm(e.at), pc' = [pc EXCEPT ![t] = e]
        PROVE  \A u \in Threads : Calm(pc'[u].at)
    BY <1>1, <1>2 DEF Flags, Calm
  <1>3. Idle.at = "idle" /\ \A a : [Idle EXCEPT !.at = a].at = a  BY DEF Idle
  <1>4. CASE ThreadEnter(t)
    <2>1. PICK e : Calm(e.at) /\ Call(t, e)
      <3>1. \A n : /\ [Idle EXCEPT !.at = "append", !.n = n].at = "append"
                   /\ [Idle EXCEPT !.at = "cancel", !.again = TRUE].at = "cancel"
        BY DEF Idle
      <3> QED
        BY <1>1, <1>3, <1>4, <3>1 DEF ThreadEnter, ConnectAsync, DisconnectAsync, ReconnectAsync,
             Connect, Disconnect, Reconnect, ReceiveAsync, SendAsync, Calm
    <2>2. UNCHANGED flags /\ Line' = Line
      BY <2>1 DEF Call, flags, link, sender, history, Line
    <2>3. \A u \in Threads : Calm(pc'[u].at)  BY <1>2, <2>1 DEF Call
    <2> QED  BY <2>2, <2>3, LineKept
  <1>5. CASE CancelStep(t)  BY <1>5, CancelFlags
  <1>6. CASE PostStep(t)
    <2>1. late = << >>  BY <1>1, <1>6 DEF PostStep, MayPost
    <2>2. PICK d \in Entry : d = Posted(pc[t].at) /\ d.kind = pc[t].at
      BY <1>6, PostedType DEF PostStep
    <2>3. d.kind \notin Operations  BY <1>6, <2>2 DEF PostStep, Operations, Transfers
    <2>4. Line' = Append(Line, d)
      <3>1. queue' = Append(queue, d) /\ late' = late  BY <1>6, <2>2 DEF PostStep, link
      <3>2. Append(queue, d) \o late = Append(queue \o late, d)
        BY <1>1, <2>1, Concatenations
      <3> QED  BY <3>1, <3>2 DEF Line
    <2>5. UNCHANGED flags  BY <1>6 DEF PostStep, flags, link, sender, history
    <2>6. \A u \in Threads : Calm(pc'[u].at)
      <3>1. CASE pc[t].again
        <4>1. pc' = [pc EXCEPT ![t].at = "wait"]  BY <1>6, <3>1 DEF PostStep, Go
        <4>2. \A u \in Threads : pc'[u].at = pc[u].at \/ pc'[u].at = "wait"
          BY <1>1, <4>1 DEF Callers
        <4> QED  BY <4>2 DEF Flags, Calm
      <3>2. CASE ~pc[t].again
        BY <1>2, <1>3, <1>6, <3>2 DEF PostStep, Leave, Calm
      <3> QED  BY <3>1, <3>2
    <2> QED  BY <2>3, <2>4, <2>5, <2>6, LinePosts
  <1>7. CASE ReconnectStep(t)
    <2>1. UNCHANGED flags /\ Line' = Line
      BY <1>7 DEF ReconnectStep, flags, link, sender, history, Line
    <2>2. \A u \in Threads : Calm(pc'[u].at)
      BY <1>2, <1>3, <1>7 DEF ReconnectStep, Calm
    <2> QED  BY <2>1, <2>2, LineKept
  <1>8. CASE AppendStep(t)
    <2>1. UNCHANGED flags /\ Line' = Line
      BY <1>8 DEF AppendStep, flags, link, Line
    <2>2. \A u \in Threads : Calm(pc'[u].at)
      BY <1>2, <1>3, <1>8 DEF AppendStep, Calm
    <2> QED  BY <2>1, <2>2, LineKept
  <1>9. ~(CloseStep(t) \/ ConnectStep(t) \/ ReceiveStep(t))
    BY DEF CloseStep, ConnectStep, ReceiveStep, At, Flags
  <1> QED  BY <1>4, <1>5, <1>6, <1>7, <1>8, <1>9 DEF ThreadStep

LEMMA DeliverFlags ==
    ASSUME TypeOK, InOrder, Flags, NEW k \in DOMAIN late, Deliver(k)
    PROVE  Flags'
  <1>1. /\ queue \in Seq(Entry) /\ late \in Seq(Entry) /\ k \in 1 .. Len(late)
        /\ k = 1
    BY DEF TypeOK, InOrder, Deliver
  <1>2. RemoveAt(late, k) = Tail(late) /\ late # << >> /\ late[1] \in Entry
    BY <1>1, RemoveFacts
  <1>3. Append(queue, late[1]) \o Tail(late) = queue \o late
    BY <1>1, <1>2, Concatenations
  <1>4. Line' = Line  BY <1>1, <1>2, <1>3 DEF Line, Deliver
  <1>5. UNCHANGED flags /\ pc' = pc  BY DEF Deliver, flags, sender, history
  <1>6. \A t \in Threads : Calm(pc'[t].at)  BY <1>5 DEF Flags, Calm
  <1> QED  BY <1>4, <1>5, <1>6, LineKept

LEMMA FlagStep == FlagInv /\ [Next]_vars => FlagInv'
  <1> SUFFICES ASSUME FlagInv, [Next]_vars PROVE FlagInv'  OBVIOUS
  <1>1. TypeOK /\ TypeOK'  BY TypeStep DEF FlagInv
  <1>2. mode' = mode
    BY DEF Next, vars, ThreadEnter, ThreadStep, LaneStep, Answer, Traffic, IoService
  <1>3. ASSUME InOrder PROVE Flags'
    <2>1. Flags  BY <1>3 DEF FlagInv
    <2>2. CASE UNCHANGED vars
      <3>1. UNCHANGED flags /\ Line' = Line /\ pc' = pc
        BY <2>2 DEF vars, flags, link, sender, history, Line
      <3>2. \A t \in Threads : Calm(pc'[t].at)  BY <2>1, <3>1 DEF Flags, Calm
      <3> QED  BY <2>1, <3>1, <3>2, LineKept
    <2>3. ASSUME NEW t \in Threads, ThreadEnter(t) \/ ThreadStep(t) PROVE Flags'
      BY <1>1, <1>3, <2>1, <2>3, ThreadFlags
    <2>4. CASE LaneStep
      BY <1>1, <2>1, <2>4, CallFlags, ConnectedFlags, ReadFlags, SecondFlags, WriteFlags
      DEF LaneStep
    <2>5. CASE Answer \/ Traffic
      <3>1. PICK op \in pend, n \in Nat, err \in BOOLEAN : Complete(op, n, err)
        BY <1>1, <2>5, KernelCompletes
      <3>2. stale' = stale  BY <1>1, <2>5, KernelCompletes
      <3> QED  BY <1>1, <2>1, <3>1, <3>2, CompleteFlags
    <2>6. CASE IoService
      BY <1>1, <1>3, <2>1, <2>6, DeliverFlags DEF IoService
    <2> QED  BY <2>2, <2>3, <2>4, <2>5, <2>6 DEF Next
  <1> QED  BY <1>1, <1>2, <1>3 DEF FlagInv, InOrder

LEMMA InitFlags == Init => FlagInv
  <1> SUFFICES ASSUME Init PROVE FlagInv  OBVIOUS
  <1>1. TypeOK  BY InitTypes
  <1>2. Line = << >> /\ Line \in Seq(Entry)
    BY <1>1, ConcatEmptySeq, EmptySeq, LineType DEF Init, Line
  <1>3. PICK s \in Seq(Entry) : s = Line  BY <1>2
  <1>4. Len(s) = 0  BY <1>2, <1>3
  <1>5. AtMostOne(s, "connect") /\ ~Has(s, "connect") /\ AnswerLast(s)
    BY <1>4 DEF AtMostOne, Has, AnswerLast
  <1>6. \A t \in Threads : pc[t].at = "idle"  BY DEF Init, Idle
  <1>7. Flags  BY <1>3, <1>5, <1>6 DEF Init, Flags, ConnectOnce
  <1> QED  BY <1>1, <1>7 DEF FlagInv

LEMMA FlagInvariant == Spec => []FlagInv
  BY InitFlags, FlagStep, PTL DEF Spec

\* Used by the asynchronous calls and without a strand, however many threads,
\* calls and connections: a completion is never taken for one of a later
\* connection (the handlers of async_read_some and async_write_some test
\* isConnected only).
THEOREM CompletionsInTime == Spec => [](InOrder => NoMistakenCompletion)
  <1>1. FlagInv => (InOrder => NoMistakenCompletion)
    BY DEF FlagInv, Flags, NoMistakenCompletion
  <1> QED  BY <1>1, FlagInvariant, PTL

\* Where an operation is tracked, the number outstanding is what the flag says.
LEMMA OutstandingCount ==
    ASSUME TypeOK, NEW kind \in Transfers, NEW flag \in BOOLEAN,
           pend \subseteq {Op("read", gen), Op("write", gen)},
           Current(Line, gen), Tracked(Line, kind, flag)
    PROVE  Outstanding(kind) = One(flag)
  <1> DEFINE P == Like(Op(kind, gen), pend)
             L == {k \in DOMAIN late : late[k].kind = kind /\ late[k].gen = gen}
             Q == {k \in DOMAIN queue : queue[k].kind = kind /\ queue[k].gen = gen}
  <1>1. /\ queue \in Seq(Entry) /\ late \in Seq(Entry) /\ Line \in Seq(Entry) /\ gen \in Nat
    BY LineType DEF TypeOK
  <1>2. /\ Len(Line) = Len(queue) + Len(late) /\ Len(queue) \in Nat /\ Len(late) \in Nat
        /\ \A i \in 1 .. Len(queue) + Len(late) :
              Line[i] = IF i <= Len(queue) THEN queue[i] ELSE late[i - Len(queue)]
        /\ DOMAIN queue = 1 .. Len(queue) /\ DOMAIN late = 1 .. Len(late)
    BY <1>1, ConcatProperties DEF Line
  <1>3. ASSUME NEW k \in DOMAIN queue
        PROVE  k \in 1 .. Len(Line) /\ k <= Len(queue) /\ Line[k] = queue[k]
    BY <1>2
  <1>4. ASSUME NEW k \in DOMAIN late
        PROVE  /\ Len(queue) + k \in 1 .. Len(Line) /\ ~(Len(queue) + k <= Len(queue))
               /\ Line[Len(queue) + k] = late[k]
    <2>1. /\ Len(queue) + k \in 1 .. Len(queue) + Len(late) /\ ~(Len(queue) + k <= Len(queue))
          /\ (Len(queue) + k) - Len(queue) = k
      BY <1>2
    <2> QED  BY <1>2, <2>1
  <1>5. P = IF Op(kind, gen) \in pend THEN {Op(kind, gen)} ELSE {}
    <2>1. \A o \in pend : o.kind = kind /\ o.gen = gen => o = Op(kind, gen)
      BY DEF Op, Transfers
    <2>2. Op(kind, gen).kind = kind /\ Op(kind, gen).gen = gen  BY DEF Op
    <2> QED  BY <2>1, <2>2 DEF Like
  <1>6. ASSUME ~Has(Line, kind) PROVE L = {} /\ Q = {}
    BY <1>3, <1>4, <1>6 DEF Has
  <1>7. ASSUME Has(Line, kind)
        PROVE  (\E k : Q = {k} /\ L = {}) \/ (\E k : L = {k} /\ Q = {})
    <2>1. PICK i \in 1 .. Len(Line) : Line[i].kind = kind  BY <1>7 DEF Has
    <2>2. Line[i].gen = gen  BY <2>1 DEF Current
    <2>3. \A j \in 1 .. Len(Line) : Line[j].kind = kind => j = i
      BY <2>1 DEF Tracked, AtMostOne
    <2>4. CASE i <= Len(queue)
      <3>1. i \in DOMAIN queue /\ queue[i] = Line[i]  BY <1>2, <2>4
      <3>2. i \in Q  BY <2>1, <2>2, <3>1
      <3>3. \A k \in Q : k = i  BY <1>3, <2>3
      <3>4. L = {}  BY <1>4, <2>3, <2>4
      <3> QED  BY <3>2, <3>3, <3>4
    <2>5. CASE ~(i <= Len(queue))
      <3>1. i - Len(queue) \in DOMAIN late /\ late[i - Len(queue)] = Line[i]  BY <1>2, <2>5
      <3>2. i - Len(queue) \in L  BY <2>1, <2>2, <3>1
      <3>3. \A k \in L : k = i - Len(queue)
        <4>1. \A k \in L : Len(queue) + k = i /\ k \in Nat  BY <1>2, <1>4, <2>3
        <4> QED  BY <1>2, <4>1
      <3>4. Q = {}  BY <1>3, <2>3, <2>5
      <3> QED  BY <3>2, <3>3, <3>4
    <2> QED  BY <2>4, <2>5
  <1>8. Outstanding(kind) = Cardinality(P) + Cardinality(L) + Cardinality(Q)
    BY DEF Outstanding
  <1> HIDE DEF P, L, Q
  <1>9. \A k : Cardinality({k}) = 1  BY FS_Singleton
  <1>10. Cardinality({}) = 0  BY FS_EmptySet
  <1>11. /\ Op(kind, gen) \in pend => ~Has(Line, kind)
         /\ flag <=> Op(kind, gen) \in pend \/ Has(Line, kind)
    BY DEF Tracked
  <1>12. CASE Op(kind, gen) \in pend
    <2>1. P = {Op(kind, gen)} /\ L = {} /\ Q = {}  BY <1>5, <1>6, <1>11, <1>12
    <2>2. Outstanding(kind) = 1 + 0 + 0  BY <1>8, <1>9, <1>10, <2>1
    <2> QED  BY <1>11, <1>12, <2>2 DEF One
  <1>13. CASE Op(kind, gen) \notin pend /\ Has(Line, kind)
    <2>1. P = {}  BY <1>5, <1>13
    <2>2. \/ Cardinality(L) = 0 /\ Cardinality(Q) = 1
          \/ Cardinality(L) = 1 /\ Cardinality(Q) = 0
      <3>1. CASE \E k : Q = {k} /\ L = {}  BY <1>9, <1>10, <3>1
      <3>2. CASE \E k : L = {k} /\ Q = {}  BY <1>9, <1>10, <3>2
      <3> QED  BY <1>7, <1>13, <3>1, <3>2
    <2>3. Outstanding(kind) = 0 + Cardinality(L) + Cardinality(Q)  BY <1>8, <1>10, <2>1
    <2>4. Outstanding(kind) = 1  BY <2>2, <2>3
    <2> QED  BY <1>11, <1>13, <2>4 DEF One
  <1>14. CASE Op(kind, gen) \notin pend /\ ~Has(Line, kind)
    <2>1. P = {} /\ L = {} /\ Q = {}  BY <1>5, <1>6, <1>14
    <2>2. Outstanding(kind) = 0 + 0 + 0  BY <1>8, <1>10, <2>1
    <2> QED  BY <1>11, <1>14, <2>2 DEF One
  <1> QED  BY <1>12, <1>13, <1>14

LEMMA FlagsImply ==
    ASSUME TypeOK, Flags
    PROVE  FlagsAgree
  <1>1. "read" \in Transfers /\ "write" \in Transfers /\ sending \in BOOLEAN /\ receiving \in BOOLEAN
    BY DEF Transfers, TypeOK
  <1>2. ASSUME connected
        PROVE  Outstanding("write") = One(sending) /\ Outstanding("read") = One(receiving)
    <2>1. /\ pend \subseteq {Op("read", gen), Op("write", gen)} /\ Current(Line, gen)
          /\ Tracked(Line, "read", receiving) /\ Tracked(Line, "write", sending)
      BY <1>2 DEF Flags
    <2> QED  BY <1>1, <2>1, OutstandingCount
  <1>3. ~connected => \A op \in pend : op.kind = "connect"
    BY DEF Flags, Op
  <1> QED  BY <1>2, <1>3 DEF FlagsAgree

\* In the same use _sending and _receiving say exactly which operations of the
\* connection are outstanding, and a disconnected client has none.
THEOREM FlagsAreRight == Spec => [](InOrder => FlagsAgree)
  <1>1. FlagInv => (InOrder => FlagsAgree)
    BY FlagsImply DEF FlagInv
  <1> QED  BY <1>1, FlagInvariant, PTL

-----------------------------------------------------------------------------
(* The bytes, when every write carries all it was given. *)

Rising(s) == \A i, j \in 1 .. Len(s) : i < j => s[i] < s[j]
Before(s, r) == \A i \in 1 .. Len(s), j \in 1 .. Len(r) : s[i] < r[j]
UpTo(s, a) == \A i \in 1 .. Len(s) : s[i] <= a

\* A write that succeeded has carried m bytes.
Carried(s, m) ==
    \A i \in 1 .. Len(s) : s[i].kind = "write" /\ ~s[i].err => s[i].n = m

\* What is carried, then what is being sent, then what waits: rising numbers.
Stream ==
    /\ Rising(wire) /\ Rising(send_buff_flush) /\ Rising(send_buff_main)
    /\ UpTo(wire, accepted) /\ UpTo(send_buff_flush, accepted) /\ UpTo(send_buff_main, accepted)
    /\ Before(wire, send_buff_main) /\ Before(send_buff_flush, send_buff_main)
    /\ Op("write", gen) \in pend => Before(wire, send_buff_flush)

\* The flush buffer is what the write in progress carries, from its beginning.
Whole ==
    /\ send_flush_offset = 0
    /\ ~connected => send_buff_flush = << >>
    /\ connected /\ lane # "disconnect" => (sending <=> send_buff_flush # << >>)
    /\ connected => Carried(Line, Len(send_buff_flush))

WholeWrites == InOrder /\ ~mode.partial

Bytes == Stream /\ Whole

BytesInv == FlagInv /\ (WholeWrites => Bytes)

LEMMA RisingFacts ==
    ASSUME NEW s \in Seq(Nat), NEW r \in Seq(Nat), NEW u \in Seq(Nat), NEW a \in Nat
    PROVE  /\ s \o r \in Seq(Nat) /\ Len(s \o r) = Len(s) + Len(r)
           /\ Rising(s) /\ Rising(r) /\ Before(s, r) => Rising(s \o r)
           /\ UpTo(s, a) /\ UpTo(r, a) => UpTo(s \o r, a)
           /\ Before(s, u) /\ Before(r, u) => Before(s \o r, u)
           /\ Before(u, s) /\ Before(u, r) => Before(u, s \o r)
  <1> DEFINE c == s \o r
  <1>1. /\ c \in Seq(Nat) /\ Len(c) = Len(s) + Len(r) /\ Len(s) \in Nat /\ Len(r) \in Nat
        /\ \A i \in 1 .. Len(c) : c[i] = IF i <= Len(s) THEN s[i] ELSE r[i - Len(s)]
    BY ConcatProperties
  <1> HIDE DEF c
  <1>2. \A i \in 1 .. Len(c) :
           \/ i \in 1 .. Len(s) /\ c[i] = s[i]
           \/ i - Len(s) \in 1 .. Len(r) /\ ~(i <= Len(s)) /\ c[i] = r[i - Len(s)]
    BY <1>1
  <1>3. ASSUME Rising(s), Rising(r), Before(s, r) PROVE Rising(c)
    <2> SUFFICES ASSUME NEW i \in 1 .. Len(c), NEW j \in 1 .. Len(c), i < j PROVE c[i] < c[j]
      BY DEF Rising
    <2>1. CASE j \in 1 .. Len(s)
      <3>1. i \in 1 .. Len(s) /\ c[i] = s[i] /\ c[j] = s[j]  BY <1>1, <2>1
      <3> QED  BY <1>3, <2>1, <3>1 DEF Rising
    <2>2. CASE i \in 1 .. Len(s) /\ ~(j \in 1 .. Len(s))
      <3>1. c[i] = s[i]  BY <1>1, <2>2
      <3>2. j - Len(s) \in 1 .. Len(r) /\ c[j] = r[j - Len(s)]  BY <1>2, <2>2
      <3> QED  BY <1>3, <2>2, <3>1, <3>2 DEF Before
    <2>3. CASE ~(i \in 1 .. Len(s)) /\ ~(j \in 1 .. Len(s))
      <3>1. i - Len(s) \in 1 .. Len(r) /\ c[i] = r[i - Len(s)]  BY <1>2, <2>3
      <3>2. j - Len(s) \in 1 .. Len(r) /\ c[j] = r[j - Len(s)]  BY <1>2, <2>3
      <3>3. i - Len(s) < j - Len(s)  BY <1>1
      <3> QED  BY <1>3, <3>1, <3>2, <3>3 DEF Rising
    <2>4. i \in 1 .. Len(s) \/ ~(j \in 1 .. Len(s))  BY <1>1
    <2> QED  BY <2>1, <2>2, <2>3, <2>4
  <1>4. UpTo(s, a) /\ UpTo(r, a) => UpTo(c, a)  BY <1>2 DEF UpTo
  <1>5. Before(s, u) /\ Before(r, u) => Before(c, u)  BY <1>2 DEF Before
  <1>6. Before(u, s) /\ Before(u, r) => Before(u, c)  BY <1>2 DEF Before
  <1> QED  BY <1>1, <1>3, <1>4, <1>5, <1>6 DEF c

LEMMA EmptyFacts ==
    ASSUME NEW s, NEW a
    PROVE  /\ << >> \in Seq(Nat) /\ Len(<< >>) = 0
           /\ Rising(<< >>) /\ UpTo(<< >>, a) /\ Before(s, << >>) /\ Before(<< >>, s)
  <1>1. Len(<< >>) = 0 /\ 1 .. 0 = {} /\ << >> \in Seq(Nat)  BY EmptySeq
  <1> QED  BY <1>1 DEF Rising, UpTo, Before

\* The bytes sendAsync accepts come after all it accepted before.
LEMMA FreshBytes ==
    ASSUME NEW n \in Nat, NEW a \in Nat, NEW s \in Seq(Nat), UpTo(s, a)
    PROVE  LET fresh == [i \in 1 .. n |-> a + i]
           IN  /\ fresh \in Seq(Nat) /\ Len(fresh) = n
               /\ Rising(fresh) /\ UpTo(fresh, a + n) /\ Before(s, fresh)
               /\ UpTo(s, a + n)
  <1> DEFINE fresh == [i \in 1 .. n |-> a + i]
  <1>1. fresh \in Seq(Nat) /\ Len(fresh) = n  OBVIOUS
  <1>2. \A i \in 1 .. n : fresh[i] = a + i  OBVIOUS
  <1> HIDE DEF fresh
  <1>3. Rising(fresh) /\ UpTo(fresh, a + n)  BY <1>1, <1>2 DEF Rising, UpTo
  <1>4. Before(s, fresh)
    <2> SUFFICES ASSUME NEW i \in 1 .. Len(s), NEW j \in 1 .. n PROVE s[i] < fresh[j]
      BY <1>1 DEF Before
    <2>1. s[i] <= a /\ s[i] \in Nat  BY DEF UpTo
    <2> QED  BY <1>2, <2>1
  <1>5. UpTo(s, a + n)
    <2> SUFFICES ASSUME NEW i \in 1 .. Len(s) PROVE s[i] <= a + n  BY DEF UpTo
    <2>1. s[i] <= a /\ s[i] \in Nat  BY DEF UpTo
    <2> QED  BY <2>1
  <1> QED  BY <1>1, <1>3, <1>4, <1>5 DEF fresh

LEMMA CarriedFacts ==
    ASSUME NEW s \in Seq(Entry), NEW m
    PROVE  /\ \A e \in Entry :
                 Carried(s, m) /\ (e.kind = "write" /\ ~e.err => e.n = m)
                    => Carried(Append(s, e), m)
           /\ s # << >> /\ Carried(s, m) =>
                 /\ Carried(Tail(s), m)
                 /\ Head(s).kind = "write" /\ ~Head(s).err => Head(s).n = m
           /\ ~Has(s, "write") => Carried(s, m)
  <1>1. ASSUME NEW e \in Entry, Carried(s, m), e.kind = "write" /\ ~e.err => e.n = m
        PROVE  Carried(Append(s, e), m)
    <2> DEFINE r == Append(s, e)
    <2>1. /\ Len(r) = Len(s) + 1 /\ Len(s) \in Nat
          /\ \A i \in 1 .. Len(s) : r[i] = s[i]
          /\ r[Len(s) + 1] = e
      OBVIOUS
    <2> HIDE DEF r
    <2>2. \A i \in 1 .. Len(r) : i \in 1 .. Len(s) \/ i = Len(s) + 1  BY <2>1
    <2>3. Carried(r, m)  BY <1>1, <2>1, <2>2 DEF Carried
    <2> QED  BY <2>3 DEF r
  <1>2. ASSUME s # << >>, Carried(s, m)
        PROVE  /\ Carried(Tail(s), m)
               /\ Head(s).kind = "write" /\ ~Head(s).err => Head(s).n = m
    <2> DEFINE r == Tail(s)
    <2>1. /\ Len(r) = Len(s) - 1 /\ Len(s) \in Nat /\ Len(r) \in Nat
          /\ \A i \in 1 .. Len(r) : r[i] = s[i + 1]
          /\ Head(s) = s[1]
      BY <1>2, HeadTailProperties
    <2> HIDE DEF r
    <2>2. 1 \in 1 .. Len(s) /\ \A i \in 1 .. Len(r) : i + 1 \in 1 .. Len(s)  BY <2>1
    <2>3. Carried(r, m)  BY <1>2, <2>1, <2>2 DEF Carried
    <2>4. Head(s).kind = "write" /\ ~Head(s).err => Head(s).n = m
      BY <1>2, <2>1, <2>2 DEF Carried
    <2> QED  BY <2>3, <2>4 DEF r
  <1>3. ~Has(s, "write") => Carried(s, m)  BY DEF Has, Carried
  <1> QED  BY <1>1, <1>2, <1>3

\* What cancel() and close() add has carried nothing.
LEMMA CarriedAborts ==
    ASSUME NEW s \in Seq(Entry), NEW m, gen \in Nat, IsFiniteSet(pend), Carried(s, m)
    PROVE  Carried(s \o Aborted(pend), m)
  <1>1. ASSUME NEW r \in Seq(Entry), Carried(r, m), NEW op \in Ops
        PROVE  r \o AbortedOf(pend, op) \in Seq(Entry) /\ Carried(r \o AbortedOf(pend, op), m)
    <2>1. PICK a : a = AbortedOf(pend, op)  OBVIOUS
    <2>2. a \in Seq(Entry) /\ Len(a) \in Nat /\ \A i \in 1 .. Len(a) : a[i].err
      BY <2>1, AbortedType
    <2>3. PICK c : c = r \o a  OBVIOUS
    <2>4. /\ c \in Seq(Entry) /\ Len(c) = Len(r) + Len(a) /\ Len(r) \in Nat
          /\ \A i \in 1 .. Len(c) : c[i] = IF i <= Len(r) THEN r[i] ELSE a[i - Len(r)]
      BY <2>2, <2>3, ConcatProperties
    <2>5. \A i \in 1 .. Len(c) :
             \/ i \in 1 .. Len(r) /\ c[i] = r[i]
             \/ i - Len(r) \in 1 .. Len(a) /\ c[i] = a[i - Len(r)]
      BY <2>2, <2>4
    <2>6. Carried(c, m)  BY <1>1, <2>2, <2>5 DEF Carried
    <2> QED  BY <2>1, <2>3, <2>4, <2>6
  <1>2. PICK R \in Ops, W \in Ops, N \in Ops :
           R = Op("read", gen) /\ W = Op("write", gen) /\ N = Op("connect", gen + 1)
    BY OpTypes
  <1>3. PICK s1 \in Seq(Entry) : s1 = s \o AbortedOf(pend, R) /\ Carried(s1, m)
    BY <1>1
  <1>4. PICK s2 \in Seq(Entry) : s2 = s1 \o AbortedOf(pend, W) /\ Carried(s2, m)
    BY <1>1, <1>3
  <1>5. PICK s3 \in Seq(Entry) : s3 = s2 \o AbortedOf(pend, N) /\ Carried(s3, m)
    BY <1>1, <1>4
  <1>6. s \o Aborted(pend) = s3
    BY <1>2, <1>3, <1>4, <1>5, AbortSteps
  <1> QED  BY <1>5, <1>6

buffers == <<send_buff_main, send_buff_flush, send_flush_offset, bytes_sending>>

\* A step that starts no write and leaves the buffers alone.
LEMMA BytesKept ==
    ASSUME Bytes, UNCHANGED <<connected, gen, buffers, accepted, wire>>,
           connected /\ lane' # "disconnect" => lane # "disconnect" /\ sending' = sending,
           Op("write", gen) \in pend' => Op("write", gen) \in pend,
           connected => Carried(Line', Len(send_buff_flush))
    PROVE  Bytes'
  <1>1. /\ send_buff_main' = send_buff_main /\ send_buff_flush' = send_buff_flush
        /\ send_flush_offset' = send_flush_offset /\ bytes_sending' = bytes_sending
    BY DEF buffers
  <1>2. Stream'  BY <1>1 DEF Bytes, Stream
  <1>3. Whole'  BY <1>1 DEF Bytes, Whole
  <1> QED  BY <1>2, <1>3 DEF Bytes

\* disconnect() drops what was not carried.
LEMMA BytesCleared ==
    ASSUME Bytes, TypeOK, DoDisconnect, UNCHANGED <<accepted, wire>>
    PROVE  Bytes'
  <1>1. /\ connected' = FALSE /\ send_buff_main' = << >> /\ send_buff_flush' = << >>
        /\ send_flush_offset' = 0 /\ pend' = {}
    BY DisconnectTypes
  <1>2. /\ Rising(<< >>) /\ UpTo(<< >>, accepted) /\ Before(wire, << >>)
        /\ Before(<< >>, << >>) /\ Len(<< >>) = 0
    BY EmptyFacts
  <1>3. Stream'  BY <1>1, <1>2 DEF Bytes, Stream
  <1>4. Whole'  BY <1>1 DEF Whole
  <1> QED  BY <1>3, <1>4 DEF Bytes

\* trySend takes the main buffer when nothing is being sent.
LEMMA BytesTaken ==
    ASSUME Bytes, TypeOK, connected, NEW count \in Nat, TrySend(<< >>, 0, count),
           UNCHANGED <<connected, gen, accepted, wire>>, ~Has(Line', "write"),
           Line' \in Seq(Entry)
    PROVE  Bytes'
  <1>1. /\ send_buff_flush' = send_buff_main /\ send_buff_main' = << >>
        /\ send_flush_offset' = 0 /\ sending' = (send_buff_main # << >>)
    BY DEF TrySend
  <1>2. /\ Rising(<< >>) /\ UpTo(<< >>, accepted) /\ Before(wire, << >>)
        /\ Before(send_buff_main, << >>) /\ Len(<< >>) = 0
    BY EmptyFacts
  <1>3. Stream'  BY <1>1, <1>2 DEF Bytes, Stream
  <1>4. Whole'
    <2>1. Carried(Line', Len(send_buff_main))  BY CarriedFacts
    <2> QED  BY <1>1, <2>1 DEF Whole
  <1> QED  BY <1>3, <1>4 DEF Bytes

\* sendAsync appends to the main buffer.
LEMMA BytesAppended ==
    ASSUME Bytes, TypeOK, NEW t \in Threads, AppendStep(t), lane' = lane
    PROVE  Bytes'
  <1> DEFINE fits == SendLimit = 0 \/ Len(send_buff_main) + pc[t].n <= SendLimit
             n == IF fits THEN pc[t].n ELSE 0
             fresh == [i \in 1 .. n |-> accepted + i]
  <1>1. /\ n \in Nat /\ accepted \in Nat /\ pc[t].n \in Nat /\ wire \in Seq(Nat)
        /\ send_buff_main \in Seq(Nat) /\ send_buff_flush \in Seq(Nat)
    BY DEF TypeOK, Callers
  <1>2. /\ send_buff_main' = send_buff_main \o fresh /\ accepted' = accepted + n
        /\ UNCHANGED <<connected, gen, pend, late, queue, sending, send_buff_flush,
                       send_flush_offset, bytes_sending, wire>>
    BY <1>1 DEF AppendStep, link
  <1> HIDE DEF fits, n
  <1>4. /\ UpTo(wire, accepted) /\ UpTo(send_buff_flush, accepted)
        /\ UpTo(send_buff_main, accepted) /\ Rising(send_buff_main)
        /\ Before(wire, send_buff_main) /\ Before(send_buff_flush, send_buff_main)
    BY DEF Bytes, Stream
  <1>5. /\ fresh \in Seq(Nat) /\ Len(fresh) = n
        /\ Rising(fresh) /\ UpTo(fresh, accepted + n)
        /\ Before(send_buff_main, fresh) /\ UpTo(send_buff_main, accepted + n)
    BY <1>1, <1>4, FreshBytes
  <1>6. Before(wire, fresh) /\ UpTo(wire, accepted + n)  BY <1>1, <1>4, FreshBytes
  <1>7. Before(send_buff_flush, fresh) /\ UpTo(send_buff_flush, accepted + n)
    BY <1>1, <1>4, FreshBytes
  <1> HIDE DEF fresh
  <1>8. PICK m \in Seq(Nat), f \in Seq(Nat), w \in Seq(Nat), l \in Seq(Nat), a \in Nat :
           /\ m = send_buff_main /\ f = fresh /\ w = wire /\ l = send_buff_flush
           /\ a = accepted + n
    BY <1>1, <1>5
  <1>9. m \o f \in Seq(Nat) /\ Len(m \o f) = Len(m) + Len(f)  BY RisingFacts
  <1>10. Rising(m \o f)  BY <1>4, <1>5, <1>8, RisingFacts
  <1>11. UpTo(m \o f, a)  BY <1>5, <1>8, RisingFacts
  <1>12. Before(w, m \o f)  BY <1>4, <1>6, <1>8, RisingFacts
  <1>13. Before(l, m \o f)  BY <1>4, <1>7, <1>8, RisingFacts
  <1>14. send_buff_main' = m \o f /\ accepted' = a  BY <1>2, <1>8
  <1>15. Stream'
    BY <1>2, <1>6, <1>7, <1>8, <1>10, <1>11, <1>12, <1>13, <1>14 DEF Bytes, Stream
  <1>16. Line' = Line  BY <1>2 DEF Line
  <1>17. Whole'  BY <1>2, <1>16 DEF Bytes, Whole
  <1> QED  BY <1>15, <1>17 DEF Bytes

\* A write carries the flush buffer.
LEMMA BytesCarried ==
    ASSUME Bytes, TypeOK, Flags, ~mode.partial,
           NEW n \in 1 .. Len(send_buff_flush), WritePerform(n), lane' = lane
    PROVE  Bytes'
  <1>1. /\ wire \in Seq(Nat) /\ send_buff_flush \in Seq(Nat) /\ send_buff_main \in Seq(Nat)
        /\ queue \in Seq(Entry) /\ late \in Seq(Entry) /\ gen \in Nat /\ accepted \in Nat
        /\ n = Len(send_buff_flush) /\ n \in Nat
    BY DEF TypeOK, WritePerform
  <1>2. SubSeq(send_buff_flush, 1, n) = send_buff_flush  BY <1>1
  <1>3. wire' = wire \o send_buff_flush  BY <1>2 DEF WritePerform
  <1>op. Complete(Op("write", gen), n, FALSE)
    <2>1. PICK op \in pend : op.kind = "write" /\ op.gen = gen /\ Complete(op, n, FALSE)
      BY DEF WritePerform, Serve
    <2>2. op = Op("write", gen)
      <3>1. \/ op = Op("read", gen) \/ op = Op("write", gen) \/ op = Op("connect", gen + 1)
        BY DEF Flags, TypeOK
      <3> QED  BY <1>1, <2>1, <3>1, OpTypes
    <2> QED  BY <2>1, <2>2
  <1>4. /\ Op("write", gen) \in pend /\ Op("write", gen) \notin pend'
        /\ UNCHANGED <<connected, gen, sending, buffers, queue, accepted>>
    BY <1>op DEF WritePerform, Complete, sender, buffers
  <1>5. /\ send_buff_main' = send_buff_main /\ send_buff_flush' = send_buff_flush
        /\ send_flush_offset' = send_flush_offset /\ bytes_sending' = bytes_sending
    BY <1>4 DEF buffers
  <1>6. /\ Rising(wire) /\ Rising(send_buff_flush) /\ Before(wire, send_buff_flush)
        /\ UpTo(wire, accepted) /\ UpTo(send_buff_flush, accepted)
        /\ Before(wire, send_buff_main) /\ Before(send_buff_flush, send_buff_main)
    BY <1>4 DEF Bytes, Stream
  <1>7. Rising(wire \o send_buff_flush)  BY <1>1, <1>6, RisingFacts
  <1>8. UpTo(wire \o send_buff_flush, accepted)  BY <1>1, <1>6, RisingFacts
  <1>9. Before(wire \o send_buff_flush, send_buff_main)  BY <1>1, <1>6, RisingFacts
  <1>10. Stream'  BY <1>3, <1>4, <1>5, <1>7, <1>8, <1>9 DEF Bytes, Stream
  <1>11. connected => Carried(Line', Len(send_buff_flush))
    <2>1. PICK d \in Entry : d.n = n /\ late' = Append(late, d)
      <3>1. Op("write", gen).kind \in Operations /\ Op("write", gen).gen \in Nat
        BY <1>1, OpTypes DEF Operations, Transfers
      <3>2. Done(Op("write", gen), n, FALSE) \in Entry /\ Done(Op("write", gen), n, FALSE).n = n
        BY <1>1, <3>1, DoneType
      <3> QED  BY <1>op, <3>2 DEF Complete
    <2>2. Line' = Append(Line, d)
      <3>1. queue \o Append(late, d) = Append(queue \o late, d)  BY <1>1, Concatenations
      <3> QED  BY <1>4, <2>1, <3>1 DEF Line
    <2> QED  BY <1>1, <2>1, <2>2, CarriedFacts, LineType DEF Bytes, Whole
  <1>12. Whole'  BY <1>4, <1>5, <1>11 DEF Bytes, Whole
  <1> QED  BY <1>10, <1>12 DEF Bytes

\* A completion that has carried nothing.
LEMMA BytesIdle ==
    ASSUME Bytes, TypeOK, NEW op \in pend, NEW n \in Nat, NEW err \in BOOLEAN,
           Complete(op, n, err), op.kind = "write" => err, UNCHANGED <<accepted, wire, lane>>
    PROVE  Bytes'
  <1>1. /\ gen \in Nat /\ queue \in Seq(Entry) /\ late \in Seq(Entry)
        /\ op.kind \in Operations /\ op.gen \in Nat
    BY DEF TypeOK, Started
  <1>2. PICK d \in Entry : d.kind = op.kind /\ d.err = err /\ late' = Append(late, d)
    <2>1. /\ Done(op, n, err) \in Entry /\ Done(op, n, err).kind = op.kind
          /\ Done(op, n, err).err = err
      BY <1>1, DoneType
    <2> QED  BY <2>1 DEF Complete
  <1>3. UNCHANGED <<connected, gen, buffers, sending, queue>> /\ pend' = pend \ {op}
    BY DEF Complete, sender, buffers
  <1>4. Line' = Append(Line, d)
    <2>1. queue \o Append(late, d) = Append(queue \o late, d)  BY <1>1, Concatenations
    <2> QED  BY <1>2, <1>3, <2>1 DEF Line
  <1>5. Line \in Seq(Entry)  BY LineType
  <1>6. connected => Carried(Line', Len(send_buff_flush))
    <2>1. connected => Carried(Line, Len(send_buff_flush))  BY DEF Bytes, Whole
    <2>2. ~(d.kind = "write" /\ ~d.err)  BY <1>2
    <2> QED  BY <1>4, <1>5, <2>1, <2>2, CarriedFacts
  <1> QED  BY <1>3, <1>6, BytesKept

LEMMA KernelBytes ==
    ASSUME Bytes, TypeOK, Flags, ~mode.partial, Answer \/ Traffic
    PROVE  Bytes'
  <1>1. 0 \in Nat /\ 0 .. 1 \subseteq Nat /\ TRUE \in BOOLEAN /\ FALSE \in BOOLEAN
    OBVIOUS
  <1>lane. lane' = lane  BY DEF Answer, Traffic
  <1>2. CASE Answer
    <2>1. PICK err \in BOOLEAN : ConnectPerform(err)  BY <1>2 DEF Answer
    <2>2. PICK op \in pend : op.kind = "connect" /\ Complete(op, 0, err) /\ UNCHANGED history
      BY <2>1 DEF ConnectPerform
    <2> QED  BY <1>1, <2>2, <1>lane, BytesIdle DEF history
  <1>3. ASSUME NEW n \in 1 .. Len(send_buff_flush), WritePerform(n) PROVE Bytes'
    BY <1>3, <1>lane, BytesCarried
  <1>4. ASSUME NEW n \in 0 .. 1, ReadPerform(n) PROVE Bytes'
    <2>1. PICK op \in pend : op.kind = "read" /\ Complete(op, n, FALSE)
      BY <1>4 DEF ReadPerform, Serve
    <2>2. UNCHANGED history /\ n \in Nat  BY <1>1, <1>4 DEF ReadPerform
    <2> QED  BY <1>1, <2>1, <2>2, <1>lane, BytesIdle DEF history
  <1>5. CASE Fail
    <2>1. PICK op \in pend : Complete(op, 0, TRUE) /\ UNCHANGED history  BY <1>5 DEF Fail
    <2> QED  BY <1>1, <2>1, <1>lane, BytesIdle DEF history
  <1> QED  BY <1>2, <1>3, <1>4, <1>5 DEF Traffic

LEMMA ThreadBytes ==
    ASSUME Bytes, TypeOK, InOrder, Flags, NEW t \in Threads, ThreadEnter(t) \/ ThreadStep(t)
    PROVE  Bytes'
  <1>1. /\ queue \in Seq(Entry) /\ late \in Seq(Entry) /\ Line \in Seq(Entry) /\ gen \in Nat
        /\ IsFiniteSet(pend) /\ lane' = lane
        /\ connected => Carried(Line, Len(send_buff_flush))
    BY LineType DEF TypeOK, Started, Bytes, Whole, ThreadEnter, ThreadStep
  <1>2. CASE ThreadEnter(t)
    <2>1. UNCHANGED <<connected, gen, buffers, accepted, wire, sending, pend>> /\ Line' = Line
      BY <1>2 DEF ThreadEnter, ConnectAsync, DisconnectAsync, ReconnectAsync, Connect,
           Disconnect, Reconnect, ReceiveAsync, SendAsync, Call, link, sender, history, buffers, Line
    <2> QED  BY <1>1, <2>1, BytesKept
  <1>3. CASE CancelStep(t)
    <2>1. /\ UNCHANGED <<connected, gen, buffers, accepted, wire, sending, queue>> /\ pend' = {}
          /\ late' = late \o Aborted(pend)
      BY <1>3 DEF CancelStep, sender, history, buffers
    <2>2. Line' = Line \o Aborted(pend)  BY <2>1, LineAborts DEF Line
    <2>3. connected => Carried(Line', Len(send_buff_flush))  BY <1>1, <2>2, CarriedAborts
    <2> QED  BY <1>1, <2>1, <2>3, BytesKept
  <1>4. CASE PostStep(t)
    <2>1. late = << >>  BY <1>4 DEF PostStep, MayPost, InOrder
    <2>2. PICK d \in Entry : d = Posted(pc[t].at) /\ d.kind = pc[t].at
      BY <1>4, PostedType DEF PostStep
    <2>3. d.kind # "write"  BY <1>4, <2>2 DEF PostStep
    <2>4. UNCHANGED <<connected, gen, buffers, accepted, wire, sending, pend>>
      BY <1>4 DEF PostStep, link, sender, history, buffers
    <2>5. Line' = Append(Line, d)
      <3>1. queue' = Append(queue, d) /\ late' = late  BY <1>4, <2>2 DEF PostStep, link
      <3>2. Append(queue, d) \o late = Append(queue \o late, d)
        BY <1>1, <2>1, Concatenations
      <3> QED  BY <3>1, <3>2 DEF Line
    <2>6. connected => Carried(Line', Len(send_buff_flush))
      BY <1>1, <2>3, <2>5, CarriedFacts
    <2> QED  BY <1>1, <2>4, <2>6, BytesKept
  <1>5. CASE ReconnectStep(t)
    <2>1. UNCHANGED <<connected, gen, buffers, accepted, wire, sending, pend>> /\ Line' = Line
      BY <1>5 DEF ReconnectStep, link, sender, history, buffers, Line
    <2> QED  BY <1>1, <2>1, BytesKept
  <1>6. CASE AppendStep(t)  BY <1>1, <1>6, BytesAppended
  <1>7. ~(CloseStep(t) \/ ConnectStep(t) \/ ReceiveStep(t))
    BY DEF CloseStep, ConnectStep, ReceiveStep, At, Flags
  <1> QED  BY <1>2, <1>3, <1>4, <1>5, <1>6, <1>7 DEF ThreadStep

LEMMA LaneBytes ==
    ASSUME Bytes, TypeOK, Flags, Flags', LaneStep, lane = "free"
    PROVE  Bytes'
  <1>1. queue # << >> /\ queue' = Tail(queue) /\ UNCHANGED <<accepted, wire>>
    BY DEF LaneStep, TrySendHandler, TrySendHandlerWhen, ConnectHandler, Connected,
           ConnectedWith, DisconnectHandler, ReadHandler, WriteHandler, WriteHandlerWith, Runs,
           ReceiveOn, EndHere, history
  <1>2. /\ Line \in Seq(Entry) /\ Line # << >> /\ Tail(Line) \in Seq(Entry) /\ gen \in Nat
        /\ Head(queue) \in Entry /\ Head(Line) = Head(queue)
        /\ Tail(queue) \o late = Tail(Line)
    BY <1>1, LineTaken DEF TypeOK
  <1>3. connected => Carried(Line, Len(send_buff_flush)) /\ Carried(Tail(Line), Len(send_buff_flush))
    <2>1. connected => Carried(Line, Len(send_buff_flush))  BY DEF Bytes, Whole
    <2> QED  BY <1>2, <2>1, CarriedFacts
  <1>4. ASSUME late' = late PROVE Line' = Tail(Line)  BY <1>1, <1>2, <1>4 DEF Line
  <1>5. ASSUME UNCHANGED <<connected, gen, buffers>>, late' = late,
               connected /\ lane' # "disconnect" => sending' = sending,
               Op("write", gen) \in pend' => Op("write", gen) \in pend
        PROVE  Bytes'
    BY <1>1, <1>3, <1>4, <1>5, BytesKept
  <1>6. CASE TrySendHandler
    <2>1. UNCHANGED <<connected, gen, late>>
      BY <1>6 DEF TrySendHandler, TrySendHandlerWhen
    <2>2. CASE ~sending /\ connected
      <3>1. TrySend(send_buff_flush, send_flush_offset, bytes_sending)
        BY <1>6, <2>2 DEF TrySendHandler, TrySendHandlerWhen
      <3>2. send_buff_flush = << >> /\ send_flush_offset = 0  BY <2>2 DEF Bytes, Whole
      <3>3. TrySend(<< >>, 0, bytes_sending)  BY <3>1, <3>2
      <3>5. ~Has(Line', "write") /\ Line' \in Seq(Entry)
        <4>1. ~Has(Line, "write")  BY <2>2 DEF Flags, Tracked
        <4> QED  BY <1>2, <1>4, <2>1, <4>1, TailEntry
      <3>6. bytes_sending \in Nat  BY DEF TypeOK
      <3> QED  BY <1>1, <2>1, <2>2, <3>3, <3>5, <3>6, BytesTaken
    <2>3. CASE ~(~sending /\ connected)
      <3>1. UNCHANGED <<sending, buffers, pend>>
        BY <1>6, <2>3 DEF TrySendHandler, TrySendHandlerWhen, sender, buffers
      <3> QED  BY <1>5, <2>1, <3>1
    <2> QED  BY <2>2, <2>3
  <1>7. CASE ConnectHandler
    <2>1. UNCHANGED <<connected, gen, late, sending, buffers>>
      BY <1>7 DEF ConnectHandler, sender, buffers
    <2>2. Op("write", gen) \in pend' => Op("write", gen) \in pend
      <3>1. CASE connected \/ connecting  BY <1>7, <3>1 DEF ConnectHandler
      <3>2. CASE ~(connected \/ connecting)
        <4>1. Op("connect", gen + 1) \notin pend  BY <3>2 DEF Flags, ConnectOnce
        <4>2. gen + 1 \in Nat /\ "connect" \in Operations /\ Started(pend)
          BY <1>2 DEF Operations, TypeOK
        <4>3. Begin(Op("connect", gen + 1)) = pend \cup {Op("connect", gen + 1)}
          BY <4>1, <4>2, BeginType
        <4>4. pend' = pend \cup {Op("connect", gen + 1)}  BY <1>7, <3>2, <4>3 DEF ConnectHandler
        <4> QED  BY <1>2, <4>4, OpsDiffer
      <3> QED  BY <3>1, <3>2
    <2> QED  BY <1>5, <2>1, <2>2
  <1>8. CASE Connected
    <2>1. UNCHANGED <<late, sending, send_buff_main, send_buff_flush, send_flush_offset>>
      BY <1>8 DEF Connected, ConnectedWith
    <2>2. CASE connected \/ Head(queue).err
      <3>1. UNCHANGED <<connected, gen, pend, buffers>>
        BY <1>8, <2>1, <2>2 DEF Connected, ConnectedWith, buffers
      <3> QED  BY <1>5, <2>1, <3>1
    <2>3. CASE ~(connected \/ Head(queue).err)
      <3>1. connected' = TRUE /\ bytes_sending' = 0
        BY <1>8, <2>3 DEF Connected, ConnectedWith
      <3>2. /\ send_buff_flush' = << >> /\ send_buff_main' = send_buff_main
            /\ send_flush_offset' = 0 /\ ~sending'
        BY <2>1, <2>3 DEF Bytes, Whole, Flags
      <3>3. Op("write", gen') \notin pend' /\ ~Has(Line', "write")
        BY <3>1, <3>2 DEF Flags, Tracked
      <3>4. send_buff_flush = << >> /\ Len(<< >>) = 0  BY <2>1, <3>2
      <3>5. Stream'  BY <1>1, <3>2, <3>3, <3>4 DEF Bytes, Stream
      <3>6. Line' \in Seq(Entry)  BY <1>2, <1>4, <2>1
      <3>7. Carried(Line', Len(send_buff_flush'))  BY <3>3, <3>6, CarriedFacts
      <3>8. Whole'  BY <3>1, <3>2, <3>7 DEF Whole
      <3> QED  BY <3>5, <3>8 DEF Bytes
    <2> QED  BY <2>2, <2>3
  <1>9. CASE DisconnectHandler
    <2>1. CASE connected
      BY <1>1, <1>9, <2>1, BytesCleared DEF DisconnectHandler
    <2>2. CASE ~connected
      BY <1>5, <1>9, <2>2 DEF DisconnectHandler, link, sender, buffers
    <2> QED  BY <2>1, <2>2
  <1>11. CASE ReadHandler
    BY <1>5, <1>11 DEF ReadHandler, sender, buffers
  <1>12. CASE WriteHandler
    <2>1. Head(queue).kind = "write"  BY <1>12 DEF WriteHandler, WriteHandlerWith, Runs
    <2> DEFINE op == Head(queue)
               offset == send_flush_offset + op.n
               count == (bytes_sending + Width - op.n) % Width
               flushed == op.n > 0 /\ offset = Len(send_buff_flush)
               flush1 == IF flushed THEN << >> ELSE send_buff_flush
               offset1 == IF flushed THEN 0 ELSE offset
    <2>2. CASE connected /\ ~op.err /\ TrySend(flush1, offset1, count)
               /\ UNCHANGED <<connected, connecting, gen, receiving, late>>
      <3>1. op.n = Len(send_buff_flush)  BY <1>2, <1>3, <2>1, <2>2, CarriedFacts
      <3>2. sending
        <4>1. Has(Line, "write")  BY <1>2, <2>1, TailEntry
        <4> QED  BY <2>2, <4>1 DEF Flags, Tracked
      <3>3. send_buff_flush # << >> /\ send_flush_offset = 0 /\ send_buff_flush \in Seq(Nat)
        BY <2>2, <3>2 DEF Bytes, Whole, TypeOK
      <3>4. Len(send_buff_flush) \in Nat /\ Len(send_buff_flush) > 0  BY <3>3, EmptySeq
      <3>5. flushed  BY <3>1, <3>3, <3>4
      <3>6. /\ Width \in Nat \ {0} /\ bytes_sending \in Nat /\ op.n \in Nat
        BY SizesAssumption, <3>1, <3>4 DEF TypeOK
      <3>7. count \in Nat  BY <3>6
      <3>9. flush1 = << >> /\ offset1 = 0  BY <3>5
      <3> HIDE DEF flush1, offset1, count
      <3>10. TrySend(<< >>, 0, count)  BY <2>2, <3>9
      <3>11. ~Has(Line', "write") /\ Line' \in Seq(Entry)
        <4>1. ~Has(Tail(Line), "write")
          BY <1>1, <2>1, <2>2, TransferTaken DEF Transfers
        <4> QED  BY <1>2, <1>4, <2>2, <4>1
      <3> QED  BY <1>1, <2>2, <3>7, <3>10, <3>11, BytesTaken
    <2>3. CASE lane' = (IF connected THEN "disconnect" ELSE "free")
               /\ UNCHANGED <<link, send_buff_main, send_buff_flush, send_flush_offset,
                              bytes_sending>>
      BY <1>5, <2>3 DEF link, buffers
    <2> QED  BY <1>12, <2>2, <2>3 DEF WriteHandler, WriteHandlerWith
  <1> QED
    BY <1>6, <1>7, <1>8, <1>9, <1>11, <1>12 DEF LaneStep, ReceiveOn, EndHere

LEMMA SecondBytes ==
    ASSUME Bytes, TypeOK, Flags, ReceiveOn \/ EndHere
    PROVE  Bytes'
  <1>1. UNCHANGED <<accepted, wire, queue>> /\ gen \in Nat /\ Started(pend)
    BY DEF ReceiveOn, EndHere, history, TypeOK
  <1>2. connected => Carried(Line, Len(send_buff_flush))  BY DEF Bytes, Whole
  <1>3. CASE ReceiveOn
    <2>1. UNCHANGED <<connected, gen, late, sending, buffers>> /\ lane # "disconnect"
      BY <1>3 DEF ReceiveOn, sender, buffers
    <2>2. Line' = Line  BY <1>1, <2>1 DEF Line
    <2>3. Op("write", gen) \in pend' => Op("write", gen) \in pend
      <3>1. CASE ~receiving /\ connected
        <4>1. Op("read", gen) \notin pend  BY <3>1 DEF Flags, Tracked
        <4>2. Begin(Op("read", gen)) = pend \cup {Op("read", gen)}
          BY <1>1, <4>1, BeginType DEF Operations, Transfers
        <4>3. pend' = pend \cup {Op("read", gen)}  BY <1>3, <3>1, <4>2 DEF ReceiveOn
        <4> QED  BY <1>1, <4>3, OpsDiffer
      <3>2. CASE ~(~receiving /\ connected)  BY <1>3, <3>2 DEF ReceiveOn
      <3> QED  BY <3>1, <3>2
    <2> QED  BY <1>1, <1>2, <2>1, <2>2, <2>3, BytesKept
  <1>4. CASE EndHere
    <2>1. CASE connected
      <3>1. ~connecting  BY <2>1 DEF Flags
      <3> QED  BY <1>1, <1>4, <2>1, <3>1, BytesCleared DEF EndHere
    <2>2. CASE ~connected
      <3>1. UNCHANGED <<link, sender>>  BY <1>4, <2>2 DEF EndHere
      <3> QED  BY <1>1, <2>2, <3>1, BytesKept DEF link, sender, buffers
    <2> QED  BY <2>1, <2>2
  <1> QED  BY <1>3, <1>4

LEMMA BytesStep == BytesInv /\ [Next]_vars => BytesInv'
  <1> SUFFICES ASSUME BytesInv, [Next]_vars PROVE BytesInv'  OBVIOUS
  <1>1. FlagInv /\ FlagInv' /\ TypeOK  BY FlagStep DEF BytesInv, FlagInv
  <1>2. mode' = mode
    BY DEF Next, vars, ThreadEnter, ThreadStep, LaneStep, Answer, Traffic, IoService
  <1>3. ASSUME WholeWrites PROVE Bytes'
    <2>1. InOrder /\ ~mode.partial /\ Bytes /\ Flags
      BY <1>1, <1>3 DEF WholeWrites, BytesInv, FlagInv
    <2>2. Flags'  BY <1>1, <1>2, <2>1 DEF FlagInv, InOrder
    <2>3. connected => Carried(Line, Len(send_buff_flush))  BY <2>1 DEF Bytes, Whole
    <2>4. CASE UNCHANGED vars
      <3>1. UNCHANGED <<connected, gen, buffers, accepted, wire, sending, pend, lane>> /\ Line' = Line
        BY <2>4 DEF vars, link, sender, history, buffers, Line
      <3> QED  BY <2>1, <2>3, <3>1, BytesKept
    <2>5. ASSUME NEW t \in Threads, ThreadEnter(t) \/ ThreadStep(t) PROVE Bytes'
      BY <1>1, <2>1, <2>5, ThreadBytes
    <2>6. CASE LaneStep
      <3>1. lane = "free" \/ ReceiveOn \/ EndHere
        BY <2>6 DEF LaneStep, TrySendHandler, TrySendHandlerWhen, ConnectHandler, Connected,
             ConnectedWith, DisconnectHandler, ReadHandler, WriteHandler, WriteHandlerWith, Runs
      <3> QED  BY <1>1, <2>1, <2>2, <2>6, <3>1, LaneBytes, SecondBytes
    <2>7. CASE Answer \/ Traffic  BY <1>1, <2>1, <2>7, KernelBytes
    <2>8. CASE IoService
      <3>1. PICK k \in DOMAIN late : Deliver(k)  BY <2>8 DEF IoService
      <3>2. /\ queue \in Seq(Entry) /\ late \in Seq(Entry) /\ k \in 1 .. Len(late) /\ k = 1
        BY <1>1, <2>1, <3>1 DEF TypeOK, InOrder, Deliver
      <3>3. RemoveAt(late, k) = Tail(late) /\ late # << >> /\ late[1] \in Entry
        BY <3>2, RemoveFacts
      <3>4. Append(queue, late[1]) \o Tail(late) = queue \o late
        BY <3>2, <3>3, Concatenations
      <3>5. Line' = Line  BY <3>1, <3>2, <3>3, <3>4 DEF Line, Deliver
      <3>6. UNCHANGED <<connected, gen, buffers, accepted, wire, sending, pend, lane>>
        BY <2>8, <3>1 DEF IoService, Deliver, sender, history, buffers
      <3> QED  BY <2>1, <2>3, <3>5, <3>6, BytesKept
    <2> QED  BY <2>4, <2>5, <2>6, <2>7, <2>8 DEF Next
  <1> QED  BY <1>1, <1>2, <1>3 DEF BytesInv, WholeWrites, InOrder

LEMMA InitBytes == Init => BytesInv
  <1> SUFFICES ASSUME Init PROVE BytesInv  OBVIOUS
  <1>1. FlagInv  BY InitFlags
  <1>2. \A s, a : /\ Rising(<< >>) /\ UpTo(<< >>, a) /\ Before(s, << >>) /\ Len(<< >>) = 0
    BY EmptyFacts
  <1>3. Stream  BY <1>2 DEF Init, Stream
  <1>4. Whole  BY DEF Init, Whole
  <1> QED  BY <1>1, <1>3, <1>4 DEF BytesInv, Bytes

LEMMA BytesInvariant == Spec => []BytesInv
  BY InitBytes, BytesStep, PTL DEF Spec

\* As long as a write carries all it was given, the sockets of all connections
\* together carry every byte that sendAsync accepted at most once and in order:
\* disconnecting drops bytes, and never repeats one.
THEOREM EveryByteOnce == Spec => [](InOrder => WholeCarriedOnce)
  <1>1. BytesInv => (InOrder => WholeCarriedOnce)
    <2> SUFFICES ASSUME BytesInv, WholeWrites PROVE CarriedOnce
      BY DEF WholeCarriedOnce, WholeWrites
    <2>1. Rising(wire) /\ UpTo(wire, accepted) /\ wire \in Seq(Nat)
      BY DEF BytesInv, Bytes, Stream, FlagInv, TypeOK
    <2>2. DOMAIN wire = 1 .. Len(wire)  BY <2>1
    <2> QED  BY <2>1, <2>2 DEF CarriedOnce, Rising, UpTo
  <1> QED  BY <1>1, BytesInvariant, PTL

-----------------------------------------------------------------------------
(* The counter, whether a write carries all it was given or not. *)

Same(x, y) == x % Width = y % Width

\* The bytes being sent, of a connection only, and counted modulo the width.
Counter ==
    /\ ~connected => send_buff_flush = << >>
    /\ send_buff_flush = << >> => send_flush_offset = 0
    /\ connected /\ sending => send_buff_flush # << >>
    /\ connected => Same(bytes_sending + send_flush_offset, Len(send_buff_flush))

CounterInv == FlagInv /\ (InOrder => Counter)

\* Addition respects the width.
LEMMA Division ==
    ASSUME NEW w \in Nat \ {0}, NEW x \in Int
    PROVE  \E d \in Int, r \in Nat : x = w * d + r /\ r = x % w /\ r \in 0 .. w - 1
  <1>1. x = w * (x \div w) + (x % w) /\ x % w \in 0 .. w - 1  OBVIOUS
  <1>2. x \div w \in Int  OBVIOUS
  <1>3. x % w \in Nat  BY <1>1
  <1> QED  BY <1>1, <1>2, <1>3

LEMMA SameWidths ==
    ASSUME NEW x \in Int, NEW q \in Int
    PROVE  Same(x + q * Width, x)
  <1>1. PICK w \in Nat \ {0} : w = Width  BY SizesAssumption
  <1>2. PICK d \in Int, r \in Nat : x = w * d + r /\ r = x % w /\ r \in 0 .. w - 1
    BY Division
  <1>3. x + q * w = w * (d + q) + r  BY <1>2
  <1>4. d + q \in Int  OBVIOUS
  <1>5. \A c \in Int : (w * c + r) % w = r
    <2>1. \A c \in Int, k \in 0 .. w - 1 : (w * c + k) % w = k  OBVIOUS
    <2> QED  BY <1>2, <2>1
  <1>6. (w * (d + q) + r) % w = r  BY <1>4, <1>5
  <1> QED  BY <1>1, <1>2, <1>3, <1>6 DEF Same

LEMMA SameSums ==
    ASSUME NEW x \in Int, NEW y \in Int, NEW z \in Int
    PROVE  /\ Same(x, y) => Same(x + z, y + z)
           /\ Same(x % Width, x) /\ x % Width \in Nat
           /\ Same(x + Width, x)
  <1>1. PICK w \in Nat \ {0} : w = Width  BY SizesAssumption
  <1>2. PICK d \in Int, r \in Nat : x = w * d + r /\ r = x % w  BY Division
  <1>3. ASSUME Same(x, y) PROVE Same(x + z, y + z)
    <2>1. PICK e \in Int, k \in Nat : y = w * e + k /\ k = y % w  BY Division
    <2>2. k = r  BY <1>1, <1>2, <1>3, <2>1 DEF Same
    <2>3. d - e \in Int /\ x + z = (y + z) + (d - e) * w /\ y + z \in Int  BY <1>2, <2>1, <2>2
    <2>4. Same((y + z) + (d - e) * Width, y + z)  BY <2>3, SameWidths
    <2> QED  BY <1>1, <2>3, <2>4
  <1>4. Same(x % Width, x) /\ x % Width \in Nat
    <2>1. -d \in Int /\ r = x + (-d) * w  BY <1>2
    <2>2. Same(x + (-d) * Width, x)  BY <2>1, SameWidths
    <2> QED  BY <1>1, <1>2, <2>1, <2>2
  <1>5. Same(x + Width, x)
    <2>1. x + 1 * w = x + w /\ 1 \in Int  OBVIOUS
    <2>2. Same(x + 1 * Width, x)  BY <2>1, SameWidths
    <2> QED  BY <1>1, <2>1, <2>2
  <1> QED  BY <1>3, <1>4, <1>5

\* trySend adds what it takes, and its counter wraps.
LEMMA CounterTaken ==
    ASSUME TypeOK, NEW flush \in Seq(Nat), NEW offset \in Nat, NEW count \in Nat,
           TrySend(flush, offset, count), flush = << >> => offset = 0,
           Same(count + offset, Len(flush)), connected' = TRUE
    PROVE  Counter'
  <1>1. send_buff_main \in Seq(Nat) /\ Len(flush) \in Nat /\ Len(send_buff_main) \in Nat
    BY DEF TypeOK
  <1>2. CASE flush = << >>
    <2>1. PICK m \in Nat : m = Len(send_buff_main)  BY <1>1
    <2>2. /\ send_buff_flush' = send_buff_main /\ send_flush_offset' = 0
          /\ bytes_sending' = (count + m) % Width /\ sending' = (send_buff_main # << >>)
      BY <1>2, <2>1 DEF TrySend
    <2>3. Same(count, 0)
      <3>1. Len(flush) = 0 /\ count + offset = count  BY <1>2
      <3> QED  BY <3>1
    <2>4. Same(count + m, m)
      <3>1. count \in Int /\ 0 \in Int /\ m \in Int /\ 0 + m = m  OBVIOUS
      <3>2. Same(count + m, 0 + m)  BY <2>3, <3>1, SameSums
      <3> QED  BY <3>1, <3>2
    <2>5. PICK c \in Int : c = count + m  OBVIOUS
    <2>6. Same(c % Width, c) /\ c % Width \in Nat  BY SameSums
    <2>7. bytes_sending' + send_flush_offset' = c % Width  BY <2>2, <2>5, <2>6
    <2>8. Same(bytes_sending' + send_flush_offset', Len(send_buff_flush'))
      BY <2>1, <2>2, <2>4, <2>5, <2>6, <2>7 DEF Same
    <2> QED  BY <2>2, <2>8 DEF Counter, Same
  <1>3. CASE flush # << >>
    <2>1. /\ send_buff_flush' = flush /\ send_flush_offset' = offset
          /\ bytes_sending' = (count + 0) % Width
      BY <1>3 DEF TrySend
    <2>2. bytes_sending' = count % Width /\ count \in Int  BY <2>1
    <2>3. Same(count % Width, count) /\ count % Width \in Nat  BY <2>2, SameSums
    <2>4. PICK c \in Int : c = count % Width  BY <2>3
    <2>5. Same(c + offset, count + offset)
      <3>1. Same(c, count) /\ offset \in Int  BY <2>3, <2>4
      <3> QED  BY <2>2, <3>1, SameSums
    <2>6. Same(bytes_sending' + send_flush_offset', Len(send_buff_flush'))
      BY <2>1, <2>2, <2>4, <2>5 DEF Same
    <2> QED  BY <1>3, <2>1, <2>6 DEF Counter, Same
  <1> QED  BY <1>2, <1>3

LEMMA CounterKept ==
    ASSUME Counter, UNCHANGED <<connected, send_buff_flush, send_flush_offset, bytes_sending>>,
           sending' => sending
    PROVE  Counter'
  BY DEF Counter, Same

LEMMA CounterCleared ==
    ASSUME TypeOK, DoDisconnect
    PROVE  Counter'
  <1>1. connected' = FALSE /\ send_buff_flush' = << >> /\ send_flush_offset' = 0
    BY DisconnectTypes
  <1> QED  BY <1>1 DEF Counter

LEMMA LaneCounter ==
    ASSUME TypeOK, Flags, Counter, LaneStep
    PROVE  Counter'
  <1>1. /\ queue \in Seq(Entry) /\ send_buff_flush \in Seq(Nat) /\ send_flush_offset \in Nat
        /\ bytes_sending \in Nat /\ Width \in Nat \ {0} /\ Len(send_buff_flush) \in Nat
    BY SizesAssumption DEF TypeOK
  <1>2. CASE TrySendHandler
    <2>1. CASE ~sending /\ connected
      <3>1. TrySend(send_buff_flush, send_flush_offset, bytes_sending) /\ connected' = TRUE
        BY <1>2, <2>1 DEF TrySendHandler, TrySendHandlerWhen, TypeOK
      <3>2. /\ send_buff_flush = << >> => send_flush_offset = 0
            /\ Same(bytes_sending + send_flush_offset, Len(send_buff_flush))
        BY <2>1 DEF Counter
      <3> QED  BY <1>1, <3>1, <3>2, CounterTaken
    <2>2. CASE ~(~sending /\ connected)
      BY <1>2, <2>2, CounterKept DEF TrySendHandler, TrySendHandlerWhen, sender
    <2> QED  BY <2>1, <2>2
  <1>3. CASE ConnectHandler  BY <1>3, CounterKept DEF ConnectHandler, sender
  <1>4. CASE Connected
    <2>1. CASE connected \/ Head(queue).err
      BY <1>4, <2>1, CounterKept DEF Connected, ConnectedWith
    <2>2. CASE ~(connected \/ Head(queue).err)
      <3>1. /\ send_buff_flush' = << >> /\ send_flush_offset' = 0 /\ bytes_sending' = 0
            /\ sending' = sending /\ ~sending
        BY <1>4, <2>2 DEF Connected, ConnectedWith, Counter, Flags
      <3>2. Len(<< >>) = 0 /\ 0 + 0 = 0  OBVIOUS
      <3> QED  BY <3>1, <3>2 DEF Counter, Same
    <2> QED  BY <2>1, <2>2
  <1>5. CASE DisconnectHandler
    <2>1. CASE connected  BY <1>5, <2>1, CounterCleared DEF DisconnectHandler
    <2>2. CASE ~connected  BY <1>5, <2>2, CounterKept DEF DisconnectHandler, link, sender
    <2> QED  BY <2>1, <2>2
  <1>6. CASE ReadHandler  BY <1>6, CounterKept DEF ReadHandler, sender
  <1>7. CASE ReceiveOn  BY <1>7, CounterKept DEF ReceiveOn, sender
  <1>8. CASE EndHere
    <2>1. CASE connected /\ ~connecting  BY <1>8, <2>1, CounterCleared DEF EndHere
    <2>2. CASE ~(connected /\ ~connecting)
      BY <1>8, <2>2, CounterKept DEF EndHere, link, sender
    <2> QED  BY <2>1, <2>2
  <1>9. CASE WriteHandler
    <2> DEFINE n == Head(queue).n
               offset == send_flush_offset + n
               count == (bytes_sending + Width - n) % Width
               flushed == n > 0 /\ offset = Len(send_buff_flush)
               flush1 == IF flushed THEN << >> ELSE send_buff_flush
               offset1 == IF flushed THEN 0 ELSE offset
    <2>1. CASE connected /\ TrySend(flush1, offset1, count) /\ UNCHANGED connected
      <3>1. queue # << >> /\ Head(queue).kind = "write"
        BY <1>9 DEF WriteHandler, WriteHandlerWith, Runs
      <3>2. n \in Nat
        <4>1. Head(queue) \in Entry  BY <1>1, <3>1, HeadTailProperties
        <4> QED  BY <4>1 DEF Entry
      <3>3. sending
        <4>1. /\ Line \in Seq(Entry) /\ Line # << >> /\ Head(Line) = Head(queue)
          BY <3>1, LineTaken
        <4>2. Has(Line, "write")  BY <3>1, <4>1, TailEntry
        <4> QED  BY <2>1, <4>2 DEF Flags, Tracked
      <3>4. /\ send_buff_flush # << >>
            /\ Same(bytes_sending + send_flush_offset, Len(send_buff_flush))
        BY <2>1, <3>3 DEF Counter
      <3> HIDE DEF n
      <3>5. PICK c \in Int : c = bytes_sending + Width - n  BY <1>1, <3>2
      <3>6. Same(c % Width, c) /\ c % Width \in Nat  BY SameSums
      <3>7. count = c % Width /\ count \in Nat  BY <3>5, <3>6
      <3>8. flush1 \in Seq(Nat) /\ offset1 \in Nat  BY <1>1, <3>2, EmptySeq
      <3>9. flush1 = << >> => offset1 = 0  BY <3>4
      <3>10. Same(c + offset, Len(send_buff_flush)) /\ offset \in Int
        <4>1. PICK b \in Int : b = bytes_sending + send_flush_offset  BY <1>1
        <4>2. c + offset = b + Width  BY <1>1, <3>2, <3>5, <4>1
        <4>3. Same(b + Width, b)  BY <4>1, SameSums
        <4>4. Same(c + offset, Len(send_buff_flush))  BY <3>4, <4>1, <4>2, <4>3 DEF Same
        <4>5. offset \in Int  BY <1>1, <3>2
        <4> QED  BY <4>4, <4>5
      <3>11. Same((c % Width) + offset, c + offset)
        <4>1. PICK k \in Int : k = c % Width  BY <3>6
        <4>2. PICK o \in Int : o = offset  BY <3>10
        <4>3. Same(k + o, c + o)  BY <3>6, <4>1, SameSums
        <4> QED  BY <4>1, <4>2, <4>3
      <3>12. Same(count + offset1, Len(flush1))
        <4>1. CASE flushed
          <5>1. flush1 = << >> /\ offset1 = 0 /\ Len(<< >>) = 0 /\ offset = Len(send_buff_flush)
            BY <4>1
          <5>2. PICK l \in Int : l = Len(send_buff_flush)  BY <1>1
          <5>3. Same(c + l, l)  BY <3>10, <5>1, <5>2
          <5>4. -l \in Int /\ c + l \in Int /\ (c + l) + (-l) = c /\ l + (-l) = 0  OBVIOUS
          <5>5. Same((c + l) + (-l), l + (-l))  BY <5>3, <5>4, SameSums
          <5>6. Same(c, 0)  BY <5>4, <5>5
          <5>7. Same(count, 0) /\ count + 0 = count  BY <3>6, <3>7, <5>6 DEF Same
          <5> QED  BY <5>1, <5>7
        <4>2. CASE ~flushed
          <5>1. flush1 = send_buff_flush /\ offset1 = offset  BY <4>2
          <5> QED  BY <3>7, <3>10, <3>11, <5>1 DEF Same
        <4> QED  BY <4>1, <4>2
      <3> HIDE DEF offset, count, flushed, flush1, offset1
      <3>13. TrySend(flush1, offset1, count) /\ connected' = TRUE  BY <2>1 DEF TypeOK
      <3> QED  BY <3>7, <3>8, <3>9, <3>12, <3>13, CounterTaken
    <2>2. CASE sending' = FALSE
               /\ UNCHANGED <<link, send_buff_flush, send_flush_offset, bytes_sending>>
      BY <2>2, CounterKept DEF link
    <2> QED  BY <1>9, <2>1, <2>2 DEF WriteHandler, WriteHandlerWith
  <1> QED  BY <1>2, <1>3, <1>4, <1>5, <1>6, <1>7, <1>8, <1>9 DEF LaneStep

LEMMA CounterStep == CounterInv /\ [Next]_vars => CounterInv'
  <1> SUFFICES ASSUME CounterInv, [Next]_vars PROVE CounterInv'  OBVIOUS
  <1>1. FlagInv /\ FlagInv' /\ TypeOK  BY FlagStep DEF CounterInv, FlagInv
  <1>2. mode' = mode
    BY DEF Next, vars, ThreadEnter, ThreadStep, LaneStep, Answer, Traffic, IoService
  <1>3. ASSUME InOrder PROVE Counter'
    <2>1. Flags /\ Counter  BY <1>1, <1>3 DEF CounterInv, FlagInv
    <2>2. CASE UNCHANGED vars  BY <2>1, <2>2, CounterKept DEF vars, link, sender
    <2>3. ASSUME NEW t \in Threads, ThreadEnter(t) PROVE Counter'
      <3>1. PICK e : Call(t, e)
        BY <2>3 DEF ThreadEnter, ConnectAsync, DisconnectAsync, ReconnectAsync, Connect,
             Disconnect, Reconnect, ReceiveAsync, SendAsync
      <3> QED  BY <2>1, <3>1, CounterKept DEF Call, link, sender
    <2>4. ASSUME NEW t \in Threads, ThreadStep(t) PROVE Counter'
      <3>1. ~(CloseStep(t) \/ ConnectStep(t) \/ ReceiveStep(t))
        BY <2>1 DEF CloseStep, ConnectStep, ReceiveStep, At, Flags
      <3>2. CASE CancelStep(t)  BY <2>1, <3>2, CounterKept DEF CancelStep, sender
      <3>3. CASE PostStep(t)  BY <2>1, <3>3, CounterKept DEF PostStep, link, sender
      <3>4. CASE ReconnectStep(t)  BY <2>1, <3>4, CounterKept DEF ReconnectStep, link, sender
      <3>5. CASE AppendStep(t)  BY <2>1, <3>5, CounterKept DEF AppendStep, link
      <3> QED  BY <2>4, <3>1, <3>2, <3>3, <3>4, <3>5 DEF ThreadStep
    <2>5. CASE LaneStep  BY <1>1, <2>1, <2>5, LaneCounter
    <2>6. CASE Answer \/ Traffic
      <3>1. PICK op \in pend, n \in Nat, err \in BOOLEAN : Complete(op, n, err)
        BY <1>1, <2>6, KernelCompletes
      <3> QED  BY <2>1, <3>1, CounterKept DEF Complete, sender
    <2>7. CASE IoService  BY <2>1, <2>7, CounterKept DEF IoService, Deliver, sender
    <2> QED  BY <2>2, <2>3, <2>4, <2>5, <2>6, <2>7 DEF Next
  <1> QED  BY <1>1, <1>2, <1>3 DEF CounterInv, InOrder

LEMMA InitCounter == Init => CounterInv
  <1>1. Init => Counter  BY DEF Init, Counter
  <1> QED  BY <1>1, InitFlags DEF CounterInv

LEMMA CounterInvariant == Spec => []CounterInv
  BY InitCounter, CounterStep, PTL DEF Spec

\* In the same use _bytes_sending, the offset and the length of the flush buffer agree
\* modulo the width of the counter, whatever the limit and however little a write
\* carries: what the swap adds, the write handlers and the resets take away again.
THEOREM CounterIsExact == Spec => [](InOrder => SendingCounted)
  <1>1. CounterInv => (InOrder => SendingCounted)
    BY DEF CounterInv, Counter, Same, SendingCounted
  <1> QED  BY <1>1, CounterInvariant, PTL

=============================================================================
