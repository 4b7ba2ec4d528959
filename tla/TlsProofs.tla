------------------------------ MODULE TlsProofs ------------------------------
(* Proofs about Tls: what the flags of the client say of its operations, and *)
(* that a stream is connected once at most, for every number of threads,     *)
(* calls and connections, with connect() as well as with connectAsync().     *)
EXTENDS Tls, Integers, TLAPS

Kinds == {"connect", "handshake", "read", "shutdown"}
OpRec == [end : {"c", "s"}, kind : Kinds, id : Nat]
Entry == [kind : Kinds \cup {"connectAsync", "disconnect"}, id : Nat, err : BOOLEAN]

Flags == [connecting : BOOLEAN, connected : BOOLEAN, handshaking : BOOLEAN,
          handshaked : BOOLEAN, receiving : BOOLEAN]
SessionFlags == [connected : BOOLEAN, handshaked : BOOLEAN, receiving : BOOLEAN]

-----------------------------------------------------------------------------
(* The lane of the client *)

InLane(q, kind) == \E k \in 1 .. Len(q) : q[k].kind = kind

OnceIn(q, kind) ==
    \A j, k \in 1 .. Len(q) : q[j].kind = kind /\ q[k].kind = kind => j = k

\* The completion of a connect waits behind every handler of connectAsync().
Followed(q) ==
    \A k \in 1 .. Len(q) : q[k].kind = "connectAsync" =>
        \E j \in 1 .. Len(q) : k < j /\ q[j].kind = "connect"

\* The completion of a connect of stream g that succeeded.
OkIn(q, g) == \E k \in 1 .. Len(q) : q[k] = Done("connect", g, FALSE)

LEMMA ConcatFacts ==
    ASSUME NEW q \in Seq(Entry), NEW a \in Seq(Entry)
    PROVE  /\ q \o a \in Seq(Entry) /\ Len(q) \in Nat /\ Len(a) \in Nat
           /\ Len(q \o a) = Len(q) + Len(a)
           /\ \A k \in 1 .. Len(q) : (q \o a)[k] = q[k]
           /\ \A k \in 1 .. Len(a) : (q \o a)[Len(q) + k] = a[k]
           /\ \A k \in 1 .. Len(q) + Len(a) :
                 k \in 1 .. Len(q) \/ (k - Len(q) \in 1 .. Len(a)
                                       /\ (q \o a)[k] = a[k - Len(q)])
  OBVIOUS

LEMMA LaneJoins ==
    ASSUME NEW q \in Seq(Entry), NEW a \in Seq(Entry)
    PROVE  /\ \A kind : InLane(q \o a, kind) <=> InLane(q, kind) \/ InLane(a, kind)
           /\ \A kind : OnceIn(q, kind) /\ OnceIn(a, kind)
                           /\ ~(InLane(q, kind) /\ InLane(a, kind)) => OnceIn(q \o a, kind)
           /\ Followed(q) /\ ~InLane(a, "connectAsync") => Followed(q \o a)
           /\ \A g : OkIn(q, g) \/ OkIn(a, g) => OkIn(q \o a, g)
  <1> DEFINE r == q \o a
  <1>1. /\ r \in Seq(Entry) /\ Len(q) \in Nat /\ Len(a) \in Nat
        /\ Len(r) = Len(q) + Len(a)
        /\ \A k \in 1 .. Len(q) : r[k] = q[k]
        /\ \A k \in 1 .. Len(a) : r[Len(q) + k] = a[k]
        /\ \A k \in 1 .. Len(r) :
              k \in 1 .. Len(q) \/ (k - Len(q) \in 1 .. Len(a) /\ r[k] = a[k - Len(q)])
    BY ConcatFacts
  <1> HIDE DEF r
  <1>2. /\ \A k \in 1 .. Len(q) : k \in 1 .. Len(r)
        /\ \A k \in 1 .. Len(a) : Len(q) + k \in 1 .. Len(r)
    BY <1>1
  <1>3. ASSUME NEW kind
        PROVE  InLane(r, kind) <=> InLane(q, kind) \/ InLane(a, kind)
    <2>1. InLane(r, kind) => InLane(q, kind) \/ InLane(a, kind)
      BY <1>1 DEF InLane
    <2>2. InLane(q, kind) => InLane(r, kind)
      BY <1>1, <1>2 DEF InLane
    <2>3. InLane(a, kind) => InLane(r, kind)
      BY <1>1, <1>2 DEF InLane
    <2> QED  BY <2>1, <2>2, <2>3
  <1>4. ASSUME NEW kind, OnceIn(q, kind), OnceIn(a, kind),
               ~(InLane(q, kind) /\ InLane(a, kind))
        PROVE  OnceIn(r, kind)
    <2> SUFFICES ASSUME NEW j \in 1 .. Len(r), NEW k \in 1 .. Len(r),
                        r[j].kind = kind, r[k].kind = kind
                 PROVE  j = k
      BY DEF OnceIn
    <2>1. CASE j \in 1 .. Len(q) /\ k \in 1 .. Len(q)
      BY <1>1, <1>4, <2>1 DEF OnceIn
    <2>2. CASE j \notin 1 .. Len(q) /\ k \notin 1 .. Len(q)
      <3>1. /\ j - Len(q) \in 1 .. Len(a) /\ a[j - Len(q)].kind = kind
            /\ k - Len(q) \in 1 .. Len(a) /\ a[k - Len(q)].kind = kind
        BY <1>1, <2>2
      <3>2. j - Len(q) = k - Len(q)  BY <1>4, <3>1 DEF OnceIn
      <3> QED  BY <1>1, <3>2
    <2>3. CASE (j \in 1 .. Len(q)) # (k \in 1 .. Len(q))
      <3>1. InLane(q, kind)  BY <1>1, <2>3 DEF InLane
      <3>2. PICK i \in 1 .. Len(r) : i \notin 1 .. Len(q) /\ r[i].kind = kind  BY <2>3
      <3>3. i - Len(q) \in 1 .. Len(a) /\ a[i - Len(q)].kind = kind  BY <1>1, <3>2
      <3>4. InLane(a, kind)  BY <3>3 DEF InLane
      <3> QED  BY <1>4, <3>1, <3>4
    <2> QED  BY <2>1, <2>2, <2>3
  <1>5. ASSUME Followed(q), ~InLane(a, "connectAsync") PROVE Followed(r)
    <2> SUFFICES ASSUME NEW k \in 1 .. Len(r), r[k].kind = "connectAsync"
                 PROVE  \E j \in 1 .. Len(r) : k < j /\ r[j].kind = "connect"
      BY DEF Followed
    <2>1. k \in 1 .. Len(q) /\ q[k].kind = "connectAsync"  BY <1>1, <1>5 DEF InLane
    <2>2. PICK j \in 1 .. Len(q) : k < j /\ q[j].kind = "connect"
      BY <1>5, <2>1 DEF Followed
    <2> QED  BY <1>1, <1>2, <2>2
  <1>6. ASSUME NEW g, OkIn(q, g) \/ OkIn(a, g) PROVE OkIn(r, g)
    <2>1. CASE OkIn(q, g)  BY <1>1, <1>2, <2>1 DEF OkIn
    <2>2. CASE OkIn(a, g)  BY <1>1, <1>2, <2>2 DEF OkIn
    <2> QED  BY <1>6, <2>1, <2>2
  <1>7. /\ \A kind : InLane(r, kind) <=> InLane(q, kind) \/ InLane(a, kind)
        /\ \A kind : OnceIn(q, kind) /\ OnceIn(a, kind)
                        /\ ~(InLane(q, kind) /\ InLane(a, kind)) => OnceIn(r, kind)
        /\ Followed(q) /\ ~InLane(a, "connectAsync") => Followed(r)
        /\ \A g : OkIn(q, g) \/ OkIn(a, g) => OkIn(r, g)
    BY <1>3, <1>4, <1>5, <1>6
  <1> QED  BY <1>7 DEF r

LEMMA LanePops ==
    ASSUME NEW q \in Seq(Entry), q # << >>
    PROVE  /\ Tail(q) \in Seq(Entry) /\ Head(q) \in Entry
           /\ \A kind : InLane(q, kind) <=> Head(q).kind = kind \/ InLane(Tail(q), kind)
           /\ \A kind : OnceIn(q, kind) =>
                 OnceIn(Tail(q), kind) /\ (Head(q).kind = kind => ~InLane(Tail(q), kind))
           /\ Followed(q) => /\ Followed(Tail(q))
                             /\ Head(q).kind = "connectAsync" => InLane(q, "connect")
           /\ \A g : OkIn(q, g) => Head(q) = Done("connect", g, FALSE) \/ OkIn(Tail(q), g)
  <1> DEFINE r == Tail(q)
  <1>1. /\ r \in Seq(Entry) /\ Len(q) \in Nat /\ Len(q) >= 1 /\ Len(r) = Len(q) - 1
        /\ Head(q) = q[1] /\ Head(q) \in Entry
        /\ \A k \in 1 .. Len(r) : r[k] = q[k + 1]
    OBVIOUS
  <1> HIDE DEF r
  <1>2. /\ \A k \in 1 .. Len(q) : k = 1 \/ (k - 1 \in 1 .. Len(r) /\ r[k - 1] = q[k])
        /\ \A k \in 1 .. Len(r) : k + 1 \in 1 .. Len(q)
        /\ 1 \in 1 .. Len(q)
    BY <1>1
  <1>3. ASSUME NEW kind
        PROVE  InLane(q, kind) <=> Head(q).kind = kind \/ InLane(r, kind)
    <2>1. InLane(q, kind) => Head(q).kind = kind \/ InLane(r, kind)
      BY <1>1, <1>2 DEF InLane
    <2>2. InLane(r, kind) => InLane(q, kind)
      BY <1>1, <1>2 DEF InLane
    <2>3. Head(q).kind = kind => InLane(q, kind)
      BY <1>1, <1>2 DEF InLane
    <2> QED  BY <2>1, <2>2, <2>3
  <1>4. ASSUME NEW kind, OnceIn(q, kind)
        PROVE  OnceIn(r, kind) /\ (Head(q).kind = kind => ~InLane(r, kind))
    <2>1. ASSUME NEW j \in 1 .. Len(r), NEW k \in 1 .. Len(r),
                 r[j].kind = kind, r[k].kind = kind
          PROVE  j = k
      <3>1. /\ q[j + 1].kind = kind /\ j + 1 \in 1 .. Len(q)
            /\ q[k + 1].kind = kind /\ k + 1 \in 1 .. Len(q)
        BY <1>1, <1>2, <2>1
      <3>2. j + 1 = k + 1  BY <1>4, <3>1 DEF OnceIn
      <3> QED  BY <3>2
    <2>2. ASSUME Head(q).kind = kind, NEW k \in 1 .. Len(r), r[k].kind = kind PROVE FALSE
      <3>1. q[k + 1].kind = kind /\ k + 1 \in 1 .. Len(q) /\ q[1].kind = kind
        BY <1>1, <1>2, <2>2
      <3>2. k + 1 = 1  BY <1>2, <1>4, <3>1 DEF OnceIn
      <3> QED  BY <3>2
    <2>3. OnceIn(r, kind)  BY <2>1 DEF OnceIn
    <2>4. Head(q).kind = kind => ~InLane(r, kind)  BY <2>2 DEF InLane
    <2> QED  BY <2>3, <2>4
  <1>5. ASSUME Followed(q)
        PROVE  Followed(r) /\ (Head(q).kind = "connectAsync" => InLane(q, "connect"))
    <2>1. ASSUME NEW k \in 1 .. Len(r), r[k].kind = "connectAsync"
          PROVE  \E j \in 1 .. Len(r) : k < j /\ r[j].kind = "connect"
      <3>1. k + 1 \in 1 .. Len(q) /\ q[k + 1].kind = "connectAsync"  BY <1>1, <1>2, <2>1
      <3>2. PICK j \in 1 .. Len(q) : k + 1 < j /\ q[j].kind = "connect"
        BY <1>5, <3>1 DEF Followed
      <3>3. j - 1 \in 1 .. Len(r) /\ k < j - 1 /\ r[j - 1].kind = "connect"
        BY <1>1, <1>2, <3>2
      <3> QED  BY <3>3
    <2>2. Followed(r)  BY <2>1 DEF Followed
    <2>3. Head(q).kind = "connectAsync" => InLane(q, "connect")
      BY <1>1, <1>2, <1>5 DEF Followed, InLane
    <2> QED  BY <2>2, <2>3
  <1>6. ASSUME NEW g, OkIn(q, g) PROVE Head(q) = Done("connect", g, FALSE) \/ OkIn(r, g)
    BY <1>1, <1>2, <1>6 DEF OkIn
  <1>7. /\ \A kind : InLane(q, kind) <=> Head(q).kind = kind \/ InLane(r, kind)
        /\ \A kind : OnceIn(q, kind) =>
              OnceIn(r, kind) /\ (Head(q).kind = kind => ~InLane(r, kind))
        /\ Followed(q) => /\ Followed(r)
                          /\ Head(q).kind = "connectAsync" => InLane(q, "connect")
        /\ \A g : OkIn(q, g) => Head(q) = Done("connect", g, FALSE) \/ OkIn(r, g)
        /\ r \in Seq(Entry) /\ Head(q) \in Entry
    BY <1>1, <1>3, <1>4, <1>5, <1>6
  <1> QED  BY <1>7 DEF r

LEMMA OneEntry ==
    ASSUME NEW e \in Entry
    PROVE  /\ <<e>> \in Seq(Entry)
           /\ \A kind : (InLane(<<e>>, kind) <=> e.kind = kind) /\ OnceIn(<<e>>, kind)
           /\ \A g : e = Done("connect", g, FALSE) => OkIn(<<e>>, g)
  <1>1. PICK s : s = <<e>>  OBVIOUS
  <1>2. s \in Seq(Entry) /\ Len(s) = 1 /\ s[1] = e  BY <1>1
  <1>3. \A k : k \in 1 .. Len(s) <=> k = 1  BY <1>2
  <1>4. ASSUME NEW kind PROVE InLane(s, kind) <=> e.kind = kind
    BY <1>2, <1>3 DEF InLane
  <1>5. ASSUME NEW kind PROVE OnceIn(s, kind)
    BY <1>3 DEF OnceIn
  <1>6. ASSUME NEW g, e = Done("connect", g, FALSE) PROVE OkIn(s, g)
    BY <1>2, <1>3, <1>6 DEF OkIn
  <1> QED  BY <1>1, <1>2, <1>4, <1>5, <1>6

LEMMA Nothing ==
    /\ << >> \in Seq(Entry)
    /\ \A kind : ~InLane(<< >>, kind) /\ OnceIn(<< >>, kind)
    /\ Followed(<< >>)
  <1>1. PICK s : s = << >>  OBVIOUS
  <1>2. s \in Seq(Entry) /\ Len(s) = 0  BY <1>1
  <1>3. \A k : k \notin 1 .. Len(s)  BY <1>2
  <1>4. (\A kind : ~InLane(s, kind) /\ OnceIn(s, kind)) /\ Followed(s)
    BY <1>3 DEF InLane, OnceIn, Followed
  <1> QED  BY <1>1, <1>2, <1>4

LEMMA AppendIsConcat ==
    ASSUME NEW q \in Seq(Entry), NEW e \in Entry
    PROVE  Append(q, e) = q \o <<e>>
  OBVIOUS

LEMMA OkIsIn ==
    ASSUME NEW q, NEW g, OkIn(q, g)
    PROVE  InLane(q, "connect")
  <1>1. Done("connect", g, FALSE).kind = "connect"  BY DEF Done
  <1> QED  BY <1>1 DEF OkIn, InLane

LEMMA EntryType ==
    ASSUME NEW kind \in Kinds \cup {"connectAsync", "disconnect"}, NEW g \in Nat,
           NEW err \in BOOLEAN
    PROVE  Done(kind, g, err) \in Entry /\ Done(kind, g, err).kind = kind
  BY DEF Done, Entry

LEMMA OpType ==
    ASSUME NEW end \in {"c", "s"}, NEW kind \in Kinds, NEW g \in Nat
    PROVE  /\ Op(end, kind, g) \in OpRec
           /\ Op(end, kind, g).end = end /\ Op(end, kind, g).kind = kind
           /\ Op(end, kind, g).id = g
  BY DEF Op, OpRec

-----------------------------------------------------------------------------
(* The inductive invariant *)

TypeOK ==
    /\ client \in Flags /\ stream \in Nat /\ conn \in Nat
    /\ session \in [Ids -> SessionFlags]
    /\ pend \subseteq OpRec
    /\ lane \in [{"c", "s"} -> Seq(Entry)]
    /\ made \subseteq 0 .. stream
    /\ pc \in [Threads -> {"idle", "connectAsync", "disconnectAsync", "reconnectAsync",
                           "disconnect", "connect", "handshake", "wait"}]

Asked(kind) == Op("c", kind, stream) \in pend
Outstanding(kind) == Asked(kind) \/ InLane(lane["c"], kind)

\* The client has operations on its current stream only, and closed the others.
Current ==
    /\ \A op \in pend : op.end = "c" => op.id = stream
    /\ \A g \in Nat : g < stream => <<"c", g>> \in closed

\* One connect and one handshake at a time.
Single ==
    \A kind \in {"connect", "handshake"} :
        /\ OnceIn(lane["c"], kind)
        /\ Asked(kind) => ~InLane(lane["c"], kind)

\* What the flags say of the operations.
Told ==
    /\ Outstanding("connect") => /\ client.connecting /\ ~client.connected
                                 /\ ~client.handshaked /\ ~client.handshaking
    /\ Outstanding("handshake") => client.connected /\ client.handshaking
    /\ Asked("read") => client.connected /\ client.handshaked
    /\ Asked("shutdown") => client.connected

\* A stream that was connected is not connected again, and is the client's
\* connection until it is closed.
Spent ==
    stream \in made =>
        /\ Followed(lane["c"])
        /\ \/ OkIn(lane["c"], stream)
           \/ conn = stream /\ (client.connected \/ <<"c", stream>> \in closed)

ClientInv == Current /\ Single /\ Told /\ Spent

\* A thread in connect() is the only one in a call, and the client has no other
\* work.
Blocking ==
    \A t \in Threads : pc[t] \in {"connect", "handshake"} =>
        /\ mode = "sync" /\ lane["c"] = << >> /\ \A op \in pend : op.end = "s"
        /\ \A u \in Threads : u # t => pc[u] = "idle"

AllIds(q) == \A k \in 1 .. Len(q) : q[k].id \in Ids

SessionInv ==
    /\ \A op \in pend : op.end = "s" =>
          /\ op.id \in Ids /\ op.kind # "connect"
          /\ op.kind = "read" => Complete(session[op.id])
    /\ AllIds(lane["s"])
    /\ \A g \in Ids : session[g].connected => <<"s", g>> \in begun
    /\ \A g \in Ids : session[g].receiving => session[g].handshaked
    /\ \A g \in Ids : Complete(session[g]) => session[g].receiving

TlsInv == TypeOK /\ ClientInv /\ Blocking /\ SessionInv

LEMMA Initially == Init => TlsInv
  <1> SUFFICES ASSUME Init PROVE TlsInv  OBVIOUS
  <1>1. TypeOK
    <2>1. Off \in Flags /\ NoSession \in SessionFlags  BY DEF Off, Flags, NoSession, SessionFlags
    <2>2. lane \in [{"c", "s"} -> Seq(Entry)]  BY Nothing DEF Init
    <2> QED  BY <2>1, <2>2 DEF Init, TypeOK
  <1>2. lane["c"] = << >> /\ lane["s"] = << >> /\ pend = {} /\ made = {} /\ stream = 0
        /\ \A t \in Threads : pc[t] = "idle"
    BY DEF Init
  <1>3. \A kind : ~InLane(lane["c"], kind) /\ OnceIn(lane["c"], kind)  BY <1>2, Nothing
  <1>4. ClientInv
    BY <1>2, <1>3 DEF ClientInv, Current, Single, Told, Spent, Asked, Outstanding
  <1>5. Blocking  BY <1>2 DEF Blocking
  <1>6. \A g \in Ids : session[g] = NoSession  BY DEF Init
  <1>7. SessionInv  BY <1>2, <1>6 DEF SessionInv, NoSession, Complete, AllIds
  <1> QED  BY <1>1, <1>4, <1>5, <1>7 DEF TlsInv

LEMMA Lanes ==
    ASSUME TypeOK
    PROVE  lane["c"] \in Seq(Entry) /\ lane["s"] \in Seq(Entry)
  BY DEF TypeOK

\* What the operations of one end become when it is closed.
Clean(a, g) ==
    /\ a \in Seq(Entry)
    /\ \A k \in 1 .. Len(a) : a[k].id = g
    /\ \A x : OnceIn(a, x)

LEMMA CleanJoins ==
    ASSUME NEW s, NEW r, NEW g, Clean(s, g), Clean(r, g),
           \A x : ~(InLane(s, x) /\ InLane(r, x))
    PROVE  /\ Clean(s \o r, g)
           /\ \A x : InLane(s \o r, x) <=> InLane(s, x) \/ InLane(r, x)
  <1>1. s \in Seq(Entry) /\ r \in Seq(Entry)  BY DEF Clean
  <1>2. /\ \A x : InLane(s \o r, x) <=> InLane(s, x) \/ InLane(r, x)
        /\ \A x : OnceIn(s \o r, x)
    BY <1>1, LaneJoins DEF Clean
  <1>3. s \o r \in Seq(Entry) /\ \A k \in 1 .. Len(s \o r) : (s \o r)[k].id = g
    BY <1>1, ConcatFacts DEF Clean
  <1> QED  BY <1>2, <1>3 DEF Clean

LEMMA AbortedOne ==
    ASSUME NEW end, NEW kind \in Kinds, NEW g \in Nat
    PROVE  /\ Clean(AbortedOf(end, kind, g), g)
           /\ \A x : InLane(AbortedOf(end, kind, g), x) <=>
                        x = kind /\ Op(end, kind, g) \in pend
  <1>1. PICK d : d = Done(kind, g, TRUE)  OBVIOUS
  <1>2. d \in Entry /\ d.kind = kind /\ d.id = g
    <2>1. d \in Entry /\ d.kind = kind  BY <1>1, EntryType
    <2>2. d.id = g  BY <1>1 DEF Done
    <2> QED  BY <2>1, <2>2
  <1>3. CASE Op(end, kind, g) \in pend
    <2>1. AbortedOf(end, kind, g) = <<d>>  BY <1>1, <1>3 DEF AbortedOf
    <2>2. PICK a : a = <<d>>  OBVIOUS
    <2>3. Len(a) = 1 /\ a[1] = d /\ a \in Seq(Entry)  BY <1>2, <2>2
    <2>4. \A k \in 1 .. Len(a) : k = 1  BY <2>3
    <2>5. \A k \in 1 .. Len(a) : a[k].id = g  BY <1>2, <2>3, <2>4
    <2>6. \A x : OnceIn(a, x) /\ (InLane(a, x) <=> d.kind = x)
      BY <1>2, <2>2, OneEntry
    <2>7. Clean(a, g)  BY <2>3, <2>5, <2>6 DEF Clean
    <2> QED  BY <1>2, <1>3, <2>1, <2>2, <2>6, <2>7
  <1>4. CASE Op(end, kind, g) \notin pend
    <2>1. AbortedOf(end, kind, g) = << >>  BY <1>4 DEF AbortedOf
    <2>2. Clean(<< >>, g)  BY Nothing DEF Clean
    <2> QED  BY <1>4, <2>1, <2>2, Nothing
  <1> QED  BY <1>3, <1>4

LEMMA AbortedFacts ==
    ASSUME NEW end, NEW g \in Nat
    PROVE  /\ Clean(Aborted(end, g), g)
           /\ \A x : InLane(Aborted(end, g), x) <=> x \in Kinds /\ Op(end, x, g) \in pend
  <1>1. PICK a : a = AbortedOf(end, "connect", g)  OBVIOUS
  <1>2. PICK b : b = AbortedOf(end, "handshake", g)  OBVIOUS
  <1>3. PICK c : c = AbortedOf(end, "read", g)  OBVIOUS
  <1>4. PICK d : d = AbortedOf(end, "shutdown", g)  OBVIOUS
  <1>5. /\ Clean(a, g)
        /\ \A x : InLane(a, x) <=> x = "connect" /\ Op(end, "connect", g) \in pend
    BY <1>1, AbortedOne DEF Kinds
  <1>6. /\ Clean(b, g)
        /\ \A x : InLane(b, x) <=> x = "handshake" /\ Op(end, "handshake", g) \in pend
    BY <1>2, AbortedOne DEF Kinds
  <1>7. /\ Clean(c, g)
        /\ \A x : InLane(c, x) <=> x = "read" /\ Op(end, "read", g) \in pend
    BY <1>3, AbortedOne DEF Kinds
  <1>8. /\ Clean(d, g)
        /\ \A x : InLane(d, x) <=> x = "shutdown" /\ Op(end, "shutdown", g) \in pend
    BY <1>4, AbortedOne DEF Kinds
  <1>9. /\ Clean(a \o b, g) /\ \A x : InLane(a \o b, x) <=> InLane(a, x) \/ InLane(b, x)
    <2>1. \A x : ~(InLane(a, x) /\ InLane(b, x))  BY <1>5, <1>6
    <2> QED  BY <1>5, <1>6, <2>1, CleanJoins
  <1>10. PICK ab : ab = a \o b  OBVIOUS
  <1>11. /\ Clean(ab \o c, g) /\ \A x : InLane(ab \o c, x) <=> InLane(ab, x) \/ InLane(c, x)
    <2>1. \A x : ~(InLane(ab, x) /\ InLane(c, x))  BY <1>5, <1>6, <1>7, <1>9, <1>10
    <2> QED  BY <1>7, <1>9, <1>10, <2>1, CleanJoins
  <1>12. PICK abc : abc = ab \o c  OBVIOUS
  <1>13. /\ Clean(abc \o d, g)
         /\ \A x : InLane(abc \o d, x) <=> InLane(abc, x) \/ InLane(d, x)
    <2>1. \A x : ~(InLane(abc, x) /\ InLane(d, x))
      BY <1>5, <1>6, <1>7, <1>8, <1>9, <1>10, <1>11, <1>12
    <2> QED  BY <1>8, <1>11, <1>12, <2>1, CleanJoins
  <1>14. \A x : InLane(abc \o d, x) <=> x \in Kinds /\ Op(end, x, g) \in pend
    <2>1. \A x : InLane(abc \o d, x) <=>
                    InLane(a, x) \/ InLane(b, x) \/ InLane(c, x) \/ InLane(d, x)
      BY <1>9, <1>10, <1>11, <1>12, <1>13
    <2> QED  BY <2>1, <1>5, <1>6, <1>7, <1>8 DEF Kinds
  <1>15. Aborted(end, g) = abc \o d
    BY <1>1, <1>2, <1>3, <1>4, <1>10, <1>12 DEF Aborted
  <1> QED  BY <1>13, <1>14, <1>15

LEMMA ConnectLast ==
    ASSUME NEW q \in Seq(Entry), NEW e \in Entry, e.kind = "connect"
    PROVE  Followed(q \o <<e>>)
  <1>1. PICK s : s = <<e>>  OBVIOUS
  <1>2. s \in Seq(Entry) /\ Len(s) = 1 /\ s[1] = e  BY <1>1
  <1>3. PICK r : r = q \o s  OBVIOUS
  <1>4. /\ Len(q) \in Nat /\ Len(r) = Len(q) + 1 /\ r[Len(q) + 1] = e
    <2>1. /\ Len(q) \in Nat /\ Len(r) = Len(q) + Len(s)
          /\ \A k \in 1 .. Len(s) : r[Len(q) + k] = s[k]
      BY <1>2, <1>3, ConcatFacts
    <2>2. 1 \in 1 .. Len(s)  BY <1>2
    <2> QED  BY <1>2, <2>1, <2>2
  <1>5. Followed(r)
    <2> SUFFICES ASSUME NEW k \in 1 .. Len(r), r[k].kind = "connectAsync"
                 PROVE  \E j \in 1 .. Len(r) : k < j /\ r[j].kind = "connect"
      BY DEF Followed
    <2>1. k # Len(q) + 1  BY <1>4
    <2>2. k < Len(q) + 1 /\ Len(q) + 1 \in 1 .. Len(r)  BY <1>4, <2>1
    <2> QED  BY <1>4, <2>2
  <1> QED  BY <1>1, <1>3, <1>5

\* What is left of a lane when the handler at its head has run.
Behind(p, q) ==
    /\ p \in Seq(Entry)
    /\ \A kind : (InLane(p, kind) => InLane(q, kind)) /\ (OnceIn(q, kind) => OnceIn(p, kind))
    /\ Followed(q) => Followed(p)
    /\ \A g : OkIn(q, g) => OkIn(p, g)

LEMMA BehindAll ==
    ASSUME NEW q \in Seq(Entry)
    PROVE  Behind(q, q)
  BY DEF Behind

LEMMA BehindHead ==
    ASSUME NEW q \in Seq(Entry), q # << >>, Head(q).kind # "connect"
    PROVE  Behind(Tail(q), q)
  <1>1. \A g : Head(q) # Done("connect", g, FALSE)  BY DEF Done
  <1> QED  BY <1>1, LanePops DEF Behind

LEMMA LaneSet ==
    ASSUME TypeOK, NEW x \in Seq(Entry), lane' = [lane EXCEPT !["c"] = x]
    PROVE  /\ lane' \in [{"c", "s"} -> Seq(Entry)]
           /\ lane'["c"] = x /\ lane'["s"] = lane["s"]
  BY DEF TypeOK

\* Take with nothing to abort.
LEMMA TakesHead ==
    ASSUME TypeOK, lane["c"] # << >>, Take(<< >>)
    PROVE  lane' = [lane EXCEPT !["c"] = Tail(lane["c"])]
  <1>1. PICK q \in Seq(Entry) : q = lane["c"]  BY Lanes
  <1>2. Tail(q) \o << >> = Tail(q)  BY <1>1
  <1> QED  BY <1>1, <1>2 DEF Take

-----------------------------------------------------------------------------
(* Steps of the client *)

\* What the client does not see.
LEMMA ClientKept ==
    ASSUME ClientInv, UNCHANGED <<client, stream, conn, made>>, closed \subseteq closed',
           lane'["c"] = lane["c"],
           \A op : op.end = "c" => (op \in pend' <=> op \in pend)
    PROVE  ClientInv'
  <1>1. \A kind : Asked(kind)' <=> Asked(kind)
    <2>1. \A kind : Op("c", kind, stream).end = "c"  BY DEF Op
    <2> QED  BY <2>1 DEF Asked
  <1>2. Current'  BY DEF ClientInv, Current
  <1>3. Single'  BY <1>1 DEF ClientInv, Single
  <1>4. Told'  BY <1>1 DEF ClientInv, Told, Outstanding
  <1>5. Spent'  BY DEF ClientInv, Spent
  <1> QED  BY <1>2, <1>3, <1>4, <1>5 DEF ClientInv

\* A handler leaves the lane, or nothing does.
LEMMA ClientTakes ==
    ASSUME ClientInv, NEW p, Behind(p, lane["c"]), lane'["c"] = p,
           UNCHANGED <<stream, conn, made, closed>>,
           client'.connected = client.connected,
           \A op \in pend' : op \in pend \/ op = Op("c", "read", stream)
                                \/ op = Op("c", "shutdown", stream),
           pend \subseteq pend'
    PROVE  /\ Current' /\ Single' /\ Spent'
           /\ \A kind \in {"connect", "handshake"} : Asked(kind)' <=> Asked(kind)
           /\ \A kind : InLane(lane'["c"], kind) => InLane(lane["c"], kind)
  <1>1. \A kind \in {"connect", "handshake"} : Asked(kind)' <=> Asked(kind)
    <2>1. \A kind \in {"connect", "handshake"} :
             Op("c", kind, stream) # Op("c", "read", stream)
             /\ Op("c", kind, stream) # Op("c", "shutdown", stream)
      BY DEF Op
    <2> QED  BY <2>1 DEF Asked
  <1>2. \A kind : (InLane(lane'["c"], kind) => InLane(lane["c"], kind))
                  /\ (OnceIn(lane["c"], kind) => OnceIn(lane'["c"], kind))
    BY DEF Behind
  <1>3. Current'
    <2>1. Op("c", "read", stream).id = stream /\ Op("c", "shutdown", stream).id = stream
      BY DEF Op
    <2> QED  BY <2>1 DEF ClientInv, Current
  <1>4. Single'  BY <1>1, <1>2 DEF ClientInv, Single
  <1>5. Spent'  BY DEF ClientInv, Spent, Behind
  <1> QED  BY <1>1, <1>2, <1>3, <1>4, <1>5

\* The client's operations are aborted, and perhaps a shutdown begun.
LEMMA ClientAborts ==
    ASSUME TypeOK, ClientInv, NEW p, Behind(p, lane["c"]),
           lane' = [lane EXCEPT !["c"] = p \o Aborted("c", stream)],
           UNCHANGED <<stream, conn, made>>, closed \subseteq closed',
           NEW new \in {{}, {Op("c", "shutdown", stream)}},
           pend' = (pend \ OpsOf("c", stream)) \cup new,
           ~Asked("connect"), ~InLane(p, "connect"),
           ~Asked("handshake"), ~InLane(p, "handshake"),
           new # {} => client'.connected,
           client.connected => client'.connected \/ <<"c", stream>> \in closed'
    PROVE  ClientInv'
  <1>1. PICK b : b = Aborted("c", stream)  OBVIOUS
  <1>2. /\ b \in Seq(Entry) /\ \A x : OnceIn(b, x)
        /\ \A x : InLane(b, x) <=> x \in Kinds /\ Asked(x)
    BY <1>1, AbortedFacts DEF TypeOK, Asked, Clean
  <1>3. p \in Seq(Entry)  BY DEF Behind
  <1>4. lane'["c"] = p \o b
    <2>1. p \o b \in Seq(Entry)  BY <1>2, <1>3, ConcatFacts
    <2> QED  BY <1>1, <2>1, LaneSet
  <1>5. /\ \A kind : InLane(p \o b, kind) <=> InLane(p, kind) \/ InLane(b, kind)
        /\ \A kind : OnceIn(p, kind) /\ OnceIn(b, kind)
                        /\ ~(InLane(p, kind) /\ InLane(b, kind)) => OnceIn(p \o b, kind)
        /\ Followed(p) /\ ~InLane(b, "connectAsync") => Followed(p \o b)
        /\ \A g : OkIn(p, g) => OkIn(p \o b, g)
    BY <1>2, <1>3, LaneJoins
  <1>6. \A kind \in Kinds : Asked(kind)' => new # {} /\ kind = "shutdown"
    <2>1. \A kind : Op("c", kind, stream) \notin pend \ OpsOf("c", stream)
      BY DEF OpsOf, Op
    <2>2. \A kind : Op("c", kind, stream) = Op("c", "shutdown", stream) => kind = "shutdown"
      BY DEF Op
    <2> QED  BY <2>1, <2>2 DEF Asked
  <1>7. Current'
    <2>1. Op("c", "shutdown", stream).id = stream  BY DEF Op
    <2> QED  BY <2>1 DEF ClientInv, Current
  <1>8. ~InLane(lane'["c"], "connect") /\ ~InLane(lane'["c"], "handshake")
    BY <1>2, <1>4, <1>5
  <1>9. Single'
    <2>1. \A kind \in {"connect", "handshake"} : OnceIn(p, kind)
      BY DEF ClientInv, Single, Behind
    <2>2. \A kind \in {"connect", "handshake"} : OnceIn(lane'["c"], kind)
      BY <1>2, <1>4, <1>5, <2>1
    <2> QED  BY <1>8, <2>2 DEF Single
  <1>10. Told'
    BY <1>6, <1>8 DEF Told, Outstanding, Kinds
  <1>11. Spent'
    <2> SUFFICES ASSUME stream \in made PROVE Spent'  BY DEF Spent
    <2>1. ~InLane(b, "connectAsync")  BY <1>2 DEF Kinds
    <2>2. Followed(lane'["c"])  BY <1>4, <1>5, <2>1 DEF ClientInv, Spent, Behind
    <2>3. OkIn(lane["c"], stream) => OkIn(lane'["c"], stream)  BY <1>4, <1>5 DEF Behind
    <2> QED  BY <2>2, <2>3 DEF ClientInv, Spent
  <1> QED  BY <1>7, <1>9, <1>10, <1>11 DEF ClientInv

LEMMA ConnectPostClient ==
    ASSUME TypeOK, ClientInv, NEW t \in Threads, ConnectPost(t)
    PROVE  ClientInv' /\ lane' \in [{"c", "s"} -> Seq(Entry)] /\ lane'["s"] = lane["s"]
  <1>1. PICK b : b = Aborted("c", stream)  OBVIOUS
  <1>2. /\ b \in Seq(Entry) /\ \A x : OnceIn(b, x)
        /\ \A x : InLane(b, x) <=> x \in Kinds /\ Asked(x)
    BY <1>1, AbortedFacts DEF TypeOK, Asked, Clean
  <1>3. PICK q \in Seq(Entry) : q = lane["c"]  BY Lanes
  <1>4. PICK e : e = Done("connectAsync", 0, FALSE)  OBVIOUS
  <1>5. e \in Entry /\ e.kind = "connectAsync"  BY <1>4, EntryType
  <1>6. PICK s : s = <<e>>  OBVIOUS
  <1>7. s \in Seq(Entry) /\ \A x : OnceIn(s, x) /\ (InLane(s, x) <=> x = "connectAsync")
    BY <1>5, <1>6, OneEntry
  <1>8. PICK r : r = q \o b  OBVIOUS
  <1>9. /\ r \in Seq(Entry) /\ r \o s \in Seq(Entry)
        /\ \A x : InLane(r, x) <=> InLane(q, x) \/ InLane(b, x)
        /\ \A x : OnceIn(q, x) /\ ~(InLane(q, x) /\ InLane(b, x)) => OnceIn(r, x)
    <2>1. r \in Seq(Entry)  BY <1>2, <1>3, <1>8, ConcatFacts
    <2>2. r \o s \in Seq(Entry)  BY <1>7, <2>1, ConcatFacts
    <2> QED  BY <1>2, <1>3, <1>8, <2>1, <2>2, LaneJoins
  <1>10. /\ \A x : InLane(r \o s, x) <=> InLane(r, x) \/ InLane(s, x)
         /\ \A x : OnceIn(r, x) /\ OnceIn(s, x) /\ ~(InLane(r, x) /\ InLane(s, x))
                      => OnceIn(r \o s, x)
    BY <1>7, <1>9, LaneJoins
  <1>11. lane' = [lane EXCEPT !["c"] = r \o s]
    BY <1>1, <1>3, <1>4, <1>6, <1>8 DEF ConnectPost
  <1>12. /\ lane' \in [{"c", "s"} -> Seq(Entry)]
         /\ lane'["c"] = r \o s /\ lane'["s"] = lane["s"]
    BY <1>9, <1>11, LaneSet
  <1>13. /\ stream \in Nat /\ stream' = stream + 1 /\ pend' = pend \ OpsOf("c", stream)
         /\ closed' = closed \cup {<<"c", stream>>} /\ UNCHANGED <<client, conn, made>>
    BY DEF ConnectPost, TypeOK
  <1>14. \A op \in pend' : op.end # "c"  BY <1>13 DEF ClientInv, Current, OpsOf
  <1>15. \A kind : ~Asked(kind)'
    <2>1. \A kind, g : Op("c", kind, g).end = "c"  BY DEF Op
    <2> QED  BY <1>14, <2>1 DEF Asked
  <1>16. Current'
    <2>1. \A g \in Nat : g < stream + 1 => g < stream \/ g = stream  BY <1>13
    <2> QED  BY <1>13, <1>14, <2>1 DEF ClientInv, Current
  <1>17. \A kind \in {"connect", "handshake"} :
            InLane(lane'["c"], kind) <=> Asked(kind) \/ InLane(lane["c"], kind)
    BY <1>2, <1>3, <1>7, <1>9, <1>10, <1>12 DEF Kinds
  <1>18. Single'
    <2> SUFFICES ASSUME NEW kind \in {"connect", "handshake"}
                 PROVE  OnceIn(lane'["c"], kind)
      BY <1>15 DEF Single
    <2>1. OnceIn(q, kind) /\ ~(InLane(q, kind) /\ InLane(b, kind))
      BY <1>2, <1>3 DEF ClientInv, Single
    <2>2. OnceIn(r, kind)  BY <1>9, <2>1
    <2>3. ~InLane(s, kind)  BY <1>7
    <2> QED  BY <1>7, <1>10, <1>12, <2>2, <2>3
  <1>19. Told'
    BY <1>13, <1>15, <1>17 DEF ClientInv, Told, Outstanding
  <1>20. Spent'
    <2>1. stream' \notin made'  BY <1>13 DEF TypeOK
    <2> QED  BY <2>1 DEF Spent
  <1> QED  BY <1>12, <1>16, <1>18, <1>19, <1>20 DEF ClientInv

LEMMA DisconnectPostClient ==
    ASSUME TypeOK, ClientInv, NEW t \in Threads, DisconnectPost(t)
    PROVE  ClientInv' /\ lane' \in [{"c", "s"} -> Seq(Entry)] /\ lane'["s"] = lane["s"]
  <1>1. PICK q \in Seq(Entry) : q = lane["c"]  BY Lanes
  <1>2. PICK e : e = Done("disconnect", 0, FALSE)  OBVIOUS
  <1>3. e \in Entry /\ e.kind = "disconnect"  BY <1>2, EntryType
  <1>4. PICK s : s = <<e>>  OBVIOUS
  <1>5. s \in Seq(Entry) /\ \A x : OnceIn(s, x) /\ (InLane(s, x) <=> x = "disconnect")
    BY <1>3, <1>4, OneEntry
  <1>6. Append(q, e) = q \o s /\ q \o s \in Seq(Entry)
    BY <1>1, <1>3, <1>4, <1>5, AppendIsConcat, ConcatFacts
  <1>7. lane' = [lane EXCEPT !["c"] = q \o s]
    BY <1>1, <1>2, <1>6 DEF DisconnectPost, PostTo
  <1>8. /\ lane' \in [{"c", "s"} -> Seq(Entry)]
        /\ lane'["c"] = q \o s /\ lane'["s"] = lane["s"]
    BY <1>6, <1>7, LaneSet
  <1>9. /\ \A x : InLane(q \o s, x) <=> InLane(q, x) \/ InLane(s, x)
        /\ \A x : OnceIn(q, x) /\ OnceIn(s, x) /\ ~(InLane(q, x) /\ InLane(s, x))
                      => OnceIn(q \o s, x)
        /\ Followed(q) /\ ~InLane(s, "connectAsync") => Followed(q \o s)
        /\ \A g : OkIn(q, g) => OkIn(q \o s, g)
    BY <1>1, <1>5, LaneJoins
  <1>10. UNCHANGED <<client, stream, conn, made, pend, closed>>
    BY DEF DisconnectPost, ends, net
  <1>11. \A kind : Asked(kind)' <=> Asked(kind)  BY <1>10 DEF Asked
  <1>12. \A kind \in {"connect", "handshake"} :
            /\ InLane(lane'["c"], kind) <=> InLane(lane["c"], kind)
            /\ OnceIn(lane["c"], kind) => OnceIn(lane'["c"], kind)
    BY <1>1, <1>5, <1>8, <1>9
  <1>13. Current'  BY <1>10 DEF ClientInv, Current
  <1>14. Single'  BY <1>11, <1>12 DEF ClientInv, Single
  <1>15. Told'  BY <1>10, <1>11, <1>12 DEF ClientInv, Told, Outstanding
  <1>16. Spent'
    <2>1. ~InLane(s, "connectAsync")  BY <1>5
    <2> QED  BY <1>1, <1>8, <1>9, <1>10, <2>1 DEF ClientInv, Spent
  <1> QED  BY <1>8, <1>13, <1>14, <1>15, <1>16 DEF ClientInv

\* The socket is closed: nothing is outstanding that the flags deny.
LEMMA DoDisconnectClient ==
    ASSUME TypeOK, ClientInv, DoDisconnect, UNCHANGED <<stream, conn, made>>,
           NEW p, Behind(p, lane["c"]),
           lane' = [lane EXCEPT !["c"] = IF MayDisconnect THEN p \o Aborted("c", stream) ELSE p]
    PROVE  ClientInv' /\ lane' \in [{"c", "s"} -> Seq(Entry)] /\ lane'["s"] = lane["s"]
  <1>1. p \in Seq(Entry)  BY DEF Behind
  <1>2. CASE MayDisconnect
    <2>1. lane' = [lane EXCEPT !["c"] = p \o Aborted("c", stream)]  BY <1>2
    <2>2. /\ client' = Off /\ pend' = pend \ OpsOf("c", stream)
          /\ closed' = closed \cup {<<"c", stream>>}
      BY <1>2 DEF DoDisconnect, DoDisconnectWith
    <2>3. client.connected /\ ~client.handshaking  BY <1>2 DEF MayDisconnect
    <2>4. ~Outstanding("connect") /\ ~Outstanding("handshake")
      BY <2>3 DEF ClientInv, Told
    <2>5. /\ ~Asked("connect") /\ ~InLane(p, "connect")
          /\ ~Asked("handshake") /\ ~InLane(p, "handshake")
      BY <2>4 DEF Outstanding, Behind
    <2>6. PICK new \in {{}, {Op("c", "shutdown", stream)}} : new = {}  OBVIOUS
    <2>7. pend' = (pend \ OpsOf("c", stream)) \cup new  BY <2>2, <2>6
    <2>8. ClientInv'  BY <2>1, <2>2, <2>5, <2>6, <2>7, ClientAborts
    <2>9. PICK b : b = Aborted("c", stream)  OBVIOUS
    <2>10. b \in Seq(Entry)  BY <2>9, AbortedFacts DEF TypeOK, Clean
    <2>11. p \o b \in Seq(Entry)  BY <1>1, <2>10, ConcatFacts
    <2>12. lane' = [lane EXCEPT !["c"] = p \o b]  BY <2>1, <2>9
    <2>13. lane' \in [{"c", "s"} -> Seq(Entry)] /\ lane'["s"] = lane["s"]
      BY <2>11, <2>12, LaneSet
    <2> QED  BY <2>8, <2>13
  <1>3. CASE ~MayDisconnect
    <2>1. UNCHANGED <<client, pend, closed>>  BY <1>3 DEF DoDisconnect, DoDisconnectWith
    <2>2. lane' = [lane EXCEPT !["c"] = p]  BY <1>3
    <2>3. /\ lane' \in [{"c", "s"} -> Seq(Entry)]
          /\ lane'["s"] = lane["s"] /\ lane'["c"] = p
      BY <1>1, <2>2, LaneSet
    <2>4. /\ Current' /\ Single' /\ Spent'
          /\ \A kind : InLane(lane'["c"], kind) => InLane(lane["c"], kind)
      BY <2>1, <2>3, ClientTakes
    <2>5. \A kind : Asked(kind)' <=> Asked(kind)  BY <2>1 DEF Asked
    <2>6. Told'  BY <2>1, <2>4, <2>5 DEF ClientInv, Told, Outstanding
    <2> QED  BY <2>3, <2>4, <2>6 DEF ClientInv
  <1> QED  BY <1>2, <1>3

LEMMA DisconnectStepClient ==
    ASSUME TypeOK, ClientInv, NEW t \in Threads, DisconnectStep(t)
    PROVE  ClientInv' /\ lane' \in [{"c", "s"} -> Seq(Entry)] /\ lane'["s"] = lane["s"]
  <1>1. PICK q \in Seq(Entry) : q = lane["c"]  BY Lanes
  <1>2. Behind(q, lane["c"])  BY <1>1, BehindAll
  <1>3. lane = [lane EXCEPT !["c"] = q]  BY <1>1 DEF TypeOK
  <1>4. lane' = [lane EXCEPT !["c"] = IF MayDisconnect THEN q \o Aborted("c", stream) ELSE q]
    BY <1>1, <1>3 DEF DisconnectStep
  <1>5. DoDisconnect /\ UNCHANGED <<stream, conn, made>>  BY DEF DisconnectStep
  <1> QED  BY <1>2, <1>4, <1>5, DoDisconnectClient

LEMMA ConnectStepClient ==
    ASSUME TypeOK, ClientInv, Blocking, NEW t \in Threads, ConnectStep(t) \/ HandshakeStep(t)
    PROVE  ClientInv'
  <1>1. lane["c"] = << >> /\ \A op \in pend : op.end = "s"
    BY DEF Blocking, ConnectStep, HandshakeStep, At
  <1>2. /\ lane' = lane /\ pend' = pend /\ closed \subseteq closed' /\ stream \in Nat
    BY DEF ConnectStep, HandshakeStep, TypeOK, net
  <1>3. \A kind : ~Asked(kind)'
    <2>1. \A kind, g : Op("c", kind, g).end = "c"  BY DEF Op
    <2> QED  BY <1>1, <1>2, <2>1 DEF Asked
  <1>4. \A kind : ~InLane(lane'["c"], kind) /\ OnceIn(lane'["c"], kind)
    BY <1>1, <1>2, Nothing
  <1>5. Single' /\ Told'  BY <1>3, <1>4 DEF Single, Told, Outstanding
  <1>6. Followed(lane'["c"])  BY <1>1, <1>2, Nothing
  <1>7. CASE ConnectStep(t)
    <2>1. /\ stream' = stream + 1 /\ <<"c", stream>> \in closed'
          /\ \/ client'.connected /\ conn' = stream'
             \/ made' = made
      BY <1>7 DEF ConnectStep, TypeOK, Flags
    <2>2. stream' \notin made  BY <1>2, <2>1 DEF TypeOK
    <2>3. Current'
      <3>1. \A g \in Nat : g < stream + 1 => g < stream \/ g = stream  BY <1>2
      <3> QED  BY <1>1, <1>2, <2>1, <3>1 DEF ClientInv, Current
    <2>4. Spent'  BY <1>6, <2>1, <2>2 DEF Spent
    <2> QED  BY <1>5, <2>3, <2>4 DEF ClientInv
  <1>8. CASE HandshakeStep(t)
    <2>1. UNCHANGED <<stream, made, conn, closed>> /\ client'.connected = client.connected
      BY <1>8 DEF HandshakeStep, TypeOK, Flags, net
    <2>2. Current'  BY <1>2, <2>1 DEF ClientInv, Current
    <2>3. Spent'  BY <1>2, <2>1 DEF ClientInv, Spent
    <2> QED  BY <1>5, <2>2, <2>3 DEF ClientInv
  <1> QED  BY <1>7, <1>8

-----------------------------------------------------------------------------
(* Handlers of the client *)

LEMMA ConnectHandlerClient ==
    ASSUME TypeOK, ClientInv, ConnectHandler
    PROVE  ClientInv' /\ lane' \in [{"c", "s"} -> Seq(Entry)] /\ lane'["s"] = lane["s"]
  <1>1. PICK q \in Seq(Entry) : q = lane["c"]  BY Lanes
  <1>2. q # << >> /\ Head(q).kind = "connectAsync"  BY <1>1 DEF ConnectHandler, Runs
  <1>3. PICK p : p = Tail(q)  OBVIOUS
  <1>4. Behind(p, lane["c"])  BY <1>1, <1>2, <1>3, BehindHead
  <1>5. p \in Seq(Entry)  BY <1>4 DEF Behind
  <1>6. lane' = [lane EXCEPT !["c"] = p]  BY <1>1, <1>2, <1>3, TakesHead DEF ConnectHandler
  <1>7. /\ lane' \in [{"c", "s"} -> Seq(Entry)]
        /\ lane'["s"] = lane["s"] /\ lane'["c"] = p
    BY <1>5, <1>6, LaneSet
  <1>8. UNCHANGED <<stream, conn, made, closed>>  BY DEF ConnectHandler, net
  <1>9. CASE MayConnect
    <2>1. /\ ~client.connected /\ ~client.handshaked /\ ~client.handshaking
          /\ ~client.connecting
      BY <1>9 DEF MayConnect
    <2>2. /\ ~Outstanding("connect") /\ ~Outstanding("handshake")
          /\ ~Asked("read") /\ ~Asked("shutdown")
      BY <2>1 DEF ClientInv, Told
    <2>3. /\ client'.connecting /\ ~client'.connected /\ ~client'.handshaked
          /\ ~client'.handshaking /\ pend' = pend \cup {Op("c", "connect", stream)}
      BY <1>9, <2>1 DEF ConnectHandler, TypeOK, Flags
    <2>4. \A kind : Asked(kind)' <=> Asked(kind) \/ kind = "connect"
      <3>1. \A kind : Op("c", kind, stream) = Op("c", "connect", stream) <=> kind = "connect"
        BY DEF Op
      <3> QED  BY <1>8, <2>3, <3>1 DEF Asked
    <2>5. ~InLane(p, "connect") /\ ~InLane(p, "handshake")
      BY <1>4, <2>2 DEF Outstanding, Behind
    <2>6. Current'
      <3>1. Op("c", "connect", stream).id = stream  BY DEF Op
      <3> QED  BY <1>8, <2>3, <3>1 DEF ClientInv, Current
    <2>7. Single'  BY <1>4, <1>7, <2>2, <2>4, <2>5 DEF ClientInv, Single, Behind, Outstanding
    <2>8. Told'  BY <1>7, <2>2, <2>3, <2>4, <2>5 DEF Told, Outstanding
    <2>9. stream \notin made
      <3>1. SUFFICES ASSUME stream \in made PROVE FALSE  OBVIOUS
      <3>2. Followed(q)  BY <1>1, <3>1 DEF ClientInv, Spent
      <3>3. InLane(q, "connect")  BY <1>2, <3>2, LanePops
      <3> QED  BY <1>1, <2>2, <3>3 DEF Outstanding
    <2>10. Spent'  BY <1>8, <2>9 DEF Spent
    <2> QED  BY <1>7, <2>6, <2>7, <2>8, <2>10 DEF ClientInv
  <1>10. CASE ~MayConnect
    <2>1. UNCHANGED <<client, pend>>  BY <1>10 DEF ConnectHandler
    <2>2. /\ Current' /\ Single' /\ Spent'
          /\ \A kind : InLane(lane'["c"], kind) => InLane(lane["c"], kind)
      BY <1>4, <1>7, <1>8, <2>1, ClientTakes
    <2>3. \A kind : Asked(kind)' <=> Asked(kind)  BY <1>8, <2>1 DEF Asked
    <2>4. Told'  BY <2>1, <2>2, <2>3 DEF ClientInv, Told, Outstanding
    <2> QED  BY <1>7, <2>2, <2>4 DEF ClientInv
  <1> QED  BY <1>9, <1>10

LEMMA ConnectEndpointClient ==
    ASSUME TypeOK, ClientInv, ConnectEndpoint
    PROVE  ClientInv' /\ lane' \in [{"c", "s"} -> Seq(Entry)] /\ lane'["s"] = lane["s"]
  <1>1. PICK q \in Seq(Entry) : q = lane["c"]  BY Lanes
  <1>2. q # << >> /\ Head(q).kind = "connect"  BY <1>1 DEF ConnectEndpoint, Runs
  <1>3. PICK p : p = Tail(q)  OBVIOUS
  <1>4. PICK h : h = Head(q)  OBVIOUS
  <1>5. /\ p \in Seq(Entry) /\ h \in Entry
        /\ \A kind : InLane(q, kind) <=> h.kind = kind \/ InLane(p, kind)
        /\ \A kind : OnceIn(q, kind) =>
              OnceIn(p, kind) /\ (h.kind = kind => ~InLane(p, kind))
        /\ Followed(q) => Followed(p)
        /\ \A g : OkIn(q, g) => h = Done("connect", g, FALSE) \/ OkIn(p, g)
    BY <1>1, <1>2, <1>3, <1>4, LanePops
  <1>6. lane' = [lane EXCEPT !["c"] = p]  BY <1>1, <1>2, <1>3, TakesHead DEF ConnectEndpoint
  <1>7. /\ lane' \in [{"c", "s"} -> Seq(Entry)]
        /\ lane'["s"] = lane["s"] /\ lane'["c"] = p
    BY <1>5, <1>6, LaneSet
  <1>8. UNCHANGED <<stream, made, closed>>  BY DEF ConnectEndpoint
  <1>9. InLane(lane["c"], "connect")  BY <1>1, <1>2, <1>4, <1>5
  <1>10. /\ ~Asked("connect") /\ ~client.connected /\ ~client.handshaked
         /\ ~client.handshaking
    BY <1>9 DEF ClientInv, Single, Told, Outstanding
  <1>11. /\ ~Outstanding("handshake") /\ ~Asked("read") /\ ~Asked("shutdown")
    BY <1>10 DEF ClientInv, Told
  <1>12. ~InLane(p, "connect") /\ ~InLane(p, "handshake")
    BY <1>1, <1>2, <1>4, <1>5, <1>11 DEF ClientInv, Single, Outstanding
  <1>13. \A kind \in {"connect", "handshake"} : OnceIn(lane'["c"], kind)
    BY <1>1, <1>5, <1>7 DEF ClientInv, Single
  <1>14. CASE ~h.err /\ h.id = stream
    <2>1. /\ client'.connected /\ client'.handshaking /\ conn' = stream
          /\ pend' = pend \cup {Op("c", "handshake", stream)}
      BY <1>1, <1>4, <1>10, <1>14 DEF ConnectEndpoint, Off
    <2>2. \A kind : Asked(kind)' <=> Asked(kind) \/ kind = "handshake"
      <3>1. \A kind : Op("c", kind, stream) = Op("c", "handshake", stream)
                          <=> kind = "handshake"
        BY DEF Op
      <3> QED  BY <1>8, <2>1, <3>1 DEF Asked
    <2>3. Current'
      <3>1. Op("c", "handshake", stream).id = stream  BY DEF Op
      <3> QED  BY <1>8, <2>1, <3>1 DEF ClientInv, Current
    <2>4. Single'  BY <1>7, <1>10, <1>12, <1>13, <2>2 DEF Single
    <2>5. Told'  BY <1>7, <1>10, <1>11, <1>12, <2>1, <2>2 DEF Told, Outstanding
    <2>6. Spent'  BY <1>1, <1>5, <1>7, <1>8, <2>1 DEF ClientInv, Spent
    <2> QED  BY <1>7, <2>3, <2>4, <2>5, <2>6 DEF ClientInv
  <1>15. CASE ~(~h.err /\ h.id = stream)
    <2>1. /\ client'.connected = client.connected /\ UNCHANGED <<conn, pend>>
      BY <1>1, <1>4, <1>15 DEF ConnectEndpoint, TypeOK, Flags
    <2>2. \A kind : Asked(kind)' <=> Asked(kind)  BY <1>8, <2>1 DEF Asked
    <2>3. Current'  BY <1>8, <2>1 DEF ClientInv, Current
    <2>4. Single'  BY <1>7, <1>10, <1>12, <1>13, <2>2 DEF ClientInv, Single, Outstanding
    <2>5. Told'  BY <1>7, <1>10, <1>11, <1>12, <2>2 DEF Told, Outstanding
    <2>6. h # Done("connect", stream, FALSE)  BY <1>15 DEF Done
    <2>7. Spent'  BY <1>1, <1>5, <1>7, <1>8, <2>1, <2>6 DEF ClientInv, Spent
    <2> QED  BY <1>7, <2>3, <2>4, <2>5, <2>7 DEF ClientInv
  <1> QED  BY <1>14, <1>15

\* cancel and async_shutdown, in the handler of a disconnect, of a handshake that
\* failed or of a read.
LEMMA ShutDownClient ==
    ASSUME TypeOK, ClientInv, lane["c"] # << >>, Head(lane["c"]).kind # "connect",
           NEW flags \in Flags, client' = flags, flags.connected = client.connected,
           flags.handshaking => client.handshaking,
           ~(Asked("handshake") \/ InLane(Tail(lane["c"]), "handshake"))
               \/ flags.handshaking = client.handshaking,
           flags.connecting = client.connecting, flags.handshaked = client.handshaked,
           ShutDown(flags), UNCHANGED <<stream, conn, made, closed>>
    PROVE  ClientInv' /\ lane' \in [{"c", "s"} -> Seq(Entry)] /\ lane'["s"] = lane["s"]
  <1>1. PICK q \in Seq(Entry) : q = lane["c"]  BY Lanes
  <1>2. PICK p : p = Tail(q)  OBVIOUS
  <1>3. Behind(p, lane["c"])  BY <1>1, <1>2, BehindHead
  <1>4. p \in Seq(Entry)  BY <1>3 DEF Behind
  <1>5. CASE flags.connected /\ ~flags.connecting /\ ~flags.handshaking
    <2>1. /\ lane' = [lane EXCEPT !["c"] = p \o Aborted("c", stream)]
          /\ pend' = (pend \ OpsOf("c", stream)) \cup {Op("c", "shutdown", stream)}
      BY <1>1, <1>2, <1>5 DEF ShutDown, Take
    <2>2. ~Outstanding("connect")  BY <1>5 DEF ClientInv, Told
    <2>3. ~Asked("connect") /\ ~InLane(p, "connect")  BY <1>3, <2>2 DEF Outstanding, Behind
    <2>4. ~Asked("handshake") /\ ~InLane(p, "handshake")
      BY <1>1, <1>2, <1>3, <1>5 DEF ClientInv, Told, Outstanding, Behind
    <2>5. PICK new \in {{}, {Op("c", "shutdown", stream)}} :
             new = {Op("c", "shutdown", stream)}
      OBVIOUS
    <2>6. pend' = (pend \ OpsOf("c", stream)) \cup new  BY <2>1, <2>5
    <2>7. client'.connected  BY <1>5
    <2>8. ClientInv'  BY <1>3, <2>1, <2>3, <2>4, <2>6, <2>7, ClientAborts
    <2>9. PICK b : b = Aborted("c", stream)  OBVIOUS
    <2>10. b \in Seq(Entry)  BY <2>9, AbortedFacts DEF TypeOK, Clean
    <2>11. p \o b \in Seq(Entry)  BY <1>4, <2>10, ConcatFacts
    <2>12. lane' = [lane EXCEPT !["c"] = p \o b]  BY <2>1, <2>9
    <2>13. lane' \in [{"c", "s"} -> Seq(Entry)] /\ lane'["s"] = lane["s"]
      BY <2>11, <2>12, LaneSet
    <2> QED  BY <2>8, <2>13
  <1>6. CASE ~(flags.connected /\ ~flags.connecting /\ ~flags.handshaking)
    <2>1. Take(<< >>) /\ UNCHANGED pend  BY <1>6 DEF ShutDown
    <2>2. lane' = [lane EXCEPT !["c"] = p]  BY <1>1, <1>2, <2>1, TakesHead
    <2>3. /\ lane' \in [{"c", "s"} -> Seq(Entry)]
          /\ lane'["s"] = lane["s"] /\ lane'["c"] = p
      BY <1>4, <2>2, LaneSet
    <2>4. /\ Current' /\ Single' /\ Spent'
          /\ \A kind : InLane(lane'["c"], kind) => InLane(lane["c"], kind)
      BY <1>3, <2>1, <2>3, ClientTakes
    <2>5. \A kind : Asked(kind)' <=> Asked(kind)  BY <2>1 DEF Asked
    <2>6. Told'
      BY <1>1, <1>2, <2>3, <2>4, <2>5 DEF ClientInv, Told, Outstanding
    <2> QED  BY <2>3, <2>4, <2>6 DEF ClientInv
  <1> QED  BY <1>5, <1>6

LEMMA DisconnectHandlerClient ==
    ASSUME TypeOK, ClientInv, DisconnectHandler
    PROVE  ClientInv' /\ lane' \in [{"c", "s"} -> Seq(Entry)] /\ lane'["s"] = lane["s"]
  <1>1. PICK flags \in Flags : flags = client  BY DEF TypeOK
  <1>2. lane["c"] # << >> /\ Head(lane["c"]).kind # "connect"
    BY DEF DisconnectHandler, Runs
  <1>3. client' = flags /\ ShutDown(flags) /\ UNCHANGED <<stream, conn, made, closed>>
    BY <1>1 DEF DisconnectHandler, ends
  <1> QED  BY <1>1, <1>2, <1>3, ShutDownClient

LEMMA ShutdownHandlerClient ==
    ASSUME TypeOK, ClientInv, ShutdownHandler
    PROVE  ClientInv' /\ lane' \in [{"c", "s"} -> Seq(Entry)] /\ lane'["s"] = lane["s"]
  <1>1. PICK q \in Seq(Entry) : q = lane["c"]  BY Lanes
  <1>2. q # << >> /\ Head(q).kind # "connect"  BY <1>1 DEF ShutdownHandler, Runs
  <1>3. PICK p : p = Tail(q)  OBVIOUS
  <1>4. Behind(p, lane["c"])  BY <1>1, <1>2, <1>3, BehindHead
  <1>5. lane' = [lane EXCEPT !["c"] = IF MayDisconnect THEN p \o Aborted("c", stream) ELSE p]
    <2>1. CASE MayDisconnect  BY <1>1, <1>3, <2>1 DEF ShutdownHandler, Take
    <2>2. CASE ~MayDisconnect
      <3>1. Take(<< >>)  BY <2>2 DEF ShutdownHandler
      <3> QED  BY <1>1, <1>2, <1>3, <2>2, <3>1, TakesHead
    <2> QED  BY <2>1, <2>2
  <1>6. DoDisconnect /\ UNCHANGED <<stream, conn, made>>  BY DEF ShutdownHandler
  <1> QED  BY <1>4, <1>5, <1>6, DoDisconnectClient

LEMMA HandshakeHandlerClient ==
    ASSUME TypeOK, ClientInv, HandshakeHandler
    PROVE  /\ ClientInv' /\ client' \in Flags
           /\ lane' \in [{"c", "s"} -> Seq(Entry)] /\ lane'["s"] = lane["s"]
  <1>1. PICK q \in Seq(Entry) : q = lane["c"]  BY Lanes
  <1>2. q # << >> /\ Head(q).kind = "handshake"  BY <1>1 DEF HandshakeHandler, Runs
  <1>3. PICK p : p = Tail(q)  OBVIOUS
  <1>4. Behind(p, lane["c"])  BY <1>1, <1>2, <1>3, BehindHead
  <1>5. p \in Seq(Entry)  BY <1>4 DEF Behind
  <1>6. UNCHANGED <<stream, conn, made, closed>>  BY DEF HandshakeHandler
  <1>7. InLane(lane["c"], "handshake") /\ ~InLane(p, "handshake")
    BY <1>1, <1>2, <1>3, LanePops DEF ClientInv, Single
  <1>8. /\ client.connected /\ client.handshaking /\ ~Asked("handshake")
        /\ ~Outstanding("connect")
    BY <1>7 DEF ClientInv, Told, Outstanding, Single
  <1>9. PICK flags : flags = [client EXCEPT !.handshaking = FALSE]  OBVIOUS
  <1>10. /\ flags \in Flags /\ flags.handshaking = FALSE
         /\ flags.connected = client.connected /\ flags.connecting = client.connecting
         /\ flags.handshaked = client.handshaked
    BY <1>9 DEF TypeOK, Flags
  <1>11. CASE client' = flags /\ ShutDown(flags)
    <2>1. ~(Asked("handshake") \/ InLane(Tail(lane["c"]), "handshake"))
      BY <1>1, <1>3, <1>7, <1>8
    <2>2. lane["c"] # << >> /\ Head(lane["c"]).kind # "connect"  BY <1>1, <1>2
    <2>3. ClientInv' /\ lane' \in [{"c", "s"} -> Seq(Entry)] /\ lane'["s"] = lane["s"]
      BY <1>6, <1>10, <1>11, <2>1, <2>2, ShutDownClient
    <2> QED  BY <1>10, <1>11, <2>3
  <1>12. CASE ~(client' = flags /\ ShutDown(flags))
    <2>1. Take(<< >>)  BY <1>9, <1>12 DEF HandshakeHandler
    <2>2. lane' = [lane EXCEPT !["c"] = p]  BY <1>1, <1>2, <1>3, <2>1, TakesHead
    <2>3. /\ lane' \in [{"c", "s"} -> Seq(Entry)]
          /\ lane'["s"] = lane["s"] /\ lane'["c"] = p
      BY <1>5, <2>2, LaneSet
    <2>4. \/ client' = flags
          \/ client' = [flags EXCEPT !.handshaked = TRUE, !.receiving = TRUE]
      BY <1>9 DEF HandshakeHandler
    <2>5. /\ client' \in Flags /\ client'.connected = client.connected
          /\ client.handshaked => client'.handshaked
      BY <1>10, <2>4 DEF Flags
    <2>6. /\ pend \subseteq pend'
          /\ \A op \in pend' : op \in pend \/ op = Op("c", "read", stream)
          /\ pend' # pend => client'.handshaked
      BY <1>9, <1>10, <1>12 DEF HandshakeHandler, Flags
    <2>7. /\ Current' /\ Single' /\ Spent'
          /\ \A kind \in {"connect", "handshake"} : Asked(kind)' <=> Asked(kind)
          /\ \A kind : InLane(lane'["c"], kind) => InLane(lane["c"], kind)
      BY <1>4, <1>6, <2>3, <2>5, <2>6, ClientTakes
    <2>8. (Asked("read")' => client'.handshaked)
      <3>1. CASE pend' = pend
        BY <1>6, <2>5, <3>1 DEF Asked, ClientInv, Told
      <3>2. CASE pend' # pend  BY <2>6, <3>2
      <3> QED  BY <3>1, <3>2
    <2>9. Told'  BY <1>7, <1>8, <2>3, <2>5, <2>7, <2>8 DEF ClientInv, Told, Outstanding
    <2> QED  BY <2>3, <2>5, <2>7, <2>9 DEF ClientInv
  <1> QED  BY <1>11, <1>12

LEMMA ReadHandlerClient ==
    ASSUME TypeOK, ClientInv, ReadHandler
    PROVE  /\ ClientInv' /\ client' \in Flags
           /\ lane' \in [{"c", "s"} -> Seq(Entry)] /\ lane'["s"] = lane["s"]
  <1>1. PICK q \in Seq(Entry) : q = lane["c"]  BY Lanes
  <1>2. q # << >> /\ Head(q).kind # "connect"  BY <1>1 DEF ReadHandler, Runs
  <1>3. PICK p : p = Tail(q)  OBVIOUS
  <1>4. Behind(p, lane["c"])  BY <1>1, <1>2, <1>3, BehindHead
  <1>5. p \in Seq(Entry)  BY <1>4 DEF Behind
  <1>6. UNCHANGED <<stream, conn, made, closed>>  BY DEF ReadHandler
  <1>7. PICK flags : flags = [client EXCEPT !.receiving = FALSE]  OBVIOUS
  <1>8. /\ flags \in Flags /\ flags.handshaking = client.handshaking
        /\ flags.connected = client.connected /\ flags.connecting = client.connecting
        /\ flags.handshaked = client.handshaked /\ client' = flags
    BY <1>7 DEF TypeOK, Flags, ReadHandler
  <1>9. CASE ShutDown(flags)
    <2>1. lane["c"] # << >> /\ Head(lane["c"]).kind # "connect"  BY <1>1, <1>2
    <2>2. ClientInv' /\ lane' \in [{"c", "s"} -> Seq(Entry)] /\ lane'["s"] = lane["s"]
      BY <1>6, <1>8, <1>9, <2>1, ShutDownClient
    <2> QED  BY <1>8, <2>2
  <1>10. CASE ~ShutDown(flags)
    <2>1. Take(<< >>) /\ pend' = pend  BY <1>7, <1>10 DEF ReadHandler
    <2>2. lane' = [lane EXCEPT !["c"] = p]  BY <1>1, <1>2, <1>3, <2>1, TakesHead
    <2>3. /\ lane' \in [{"c", "s"} -> Seq(Entry)]
          /\ lane'["s"] = lane["s"] /\ lane'["c"] = p
      BY <1>5, <2>2, LaneSet
    <2>4. /\ Current' /\ Single' /\ Spent'
          /\ \A kind : InLane(lane'["c"], kind) => InLane(lane["c"], kind)
      BY <1>4, <1>6, <1>8, <2>1, <2>3, ClientTakes
    <2>5. \A kind : Asked(kind)' <=> Asked(kind)  BY <1>6, <2>1 DEF Asked
    <2>6. Told'  BY <1>8, <2>4, <2>5 DEF ClientInv, Told, Outstanding
    <2> QED  BY <1>8, <2>3, <2>4, <2>6 DEF ClientInv
  <1> QED  BY <1>9, <1>10

-----------------------------------------------------------------------------
(* The network *)

LEMMA OpOfClient ==
    ASSUME TypeOK, Current, NEW op \in pend, op.end = "c"
    PROVE  op.kind \in Kinds /\ op = Op("c", op.kind, stream) /\ Asked(op.kind)
  <1>1. op \in OpRec /\ op.id = stream  BY DEF TypeOK, Current
  <1>2. op.kind \in Kinds /\ op = Op("c", op.kind, stream)  BY <1>1 DEF OpRec, Op
  <1> QED  BY <1>2 DEF Asked

LEMMA FinishClient ==
    ASSUME TypeOK, ClientInv, NEW op \in pend, op.end = "c", NEW err \in BOOLEAN,
           Finish(op, err), UNCHANGED <<client, stream, conn, closed>>,
           made' = IF op.kind = "connect" /\ ~err THEN made \cup {op.id} ELSE made
    PROVE  ClientInv'
  <1>1. PICK q \in Seq(Entry) : q = lane["c"]  BY Lanes
  <1>2. PICK e : e = Done(op.kind, op.id, err)  OBVIOUS
  <1>3. op.kind \in Kinds /\ op = Op("c", op.kind, stream) /\ Asked(op.kind) /\ op.id = stream
    BY OpOfClient DEF ClientInv, Current
  <1>4. e \in Entry /\ e.kind = op.kind  BY <1>2, <1>3, EntryType DEF TypeOK
  <1>5. PICK s : s = <<e>>  OBVIOUS
  <1>6. /\ s \in Seq(Entry) /\ \A x : OnceIn(s, x) /\ (InLane(s, x) <=> x = op.kind)
        /\ \A g : e = Done("connect", g, FALSE) => OkIn(s, g)
    BY <1>4, <1>5, OneEntry
  <1>7. Append(q, e) = q \o s  BY <1>4, <1>5, AppendIsConcat
  <1>8. lane'["c"] = q \o s
    BY <1>1, <1>2, <1>7 DEF Finish, TypeOK
  <1>9. /\ \A x : InLane(q \o s, x) <=> InLane(q, x) \/ InLane(s, x)
        /\ \A x : OnceIn(q, x) /\ OnceIn(s, x) /\ ~(InLane(q, x) /\ InLane(s, x))
                      => OnceIn(q \o s, x)
        /\ Followed(q) /\ ~InLane(s, "connectAsync") => Followed(q \o s)
        /\ \A g : OkIn(q, g) \/ OkIn(s, g) => OkIn(q \o s, g)
    BY <1>1, <1>6, LaneJoins
  <1>10. \A kind : Asked(kind)' <=> Asked(kind) /\ kind # op.kind
    <2>1. \A kind : Op("c", kind, stream) = Op("c", op.kind, stream) <=> kind = op.kind
      BY DEF Op
    <2> QED  BY <1>3, <2>1 DEF Asked, Finish
  <1>11. Current'  BY DEF ClientInv, Current, Finish
  <1>12. \A x : InLane(lane'["c"], x) <=> InLane(lane["c"], x) \/ x = op.kind
    BY <1>1, <1>6, <1>8, <1>9
  <1>13. Single'
    <2> SUFFICES ASSUME NEW kind \in {"connect", "handshake"}
                 PROVE  OnceIn(lane'["c"], kind)
                        /\ (Asked(kind)' => ~InLane(lane'["c"], kind))
      BY DEF Single
    <2>1. OnceIn(q, kind) /\ (Asked(kind) => ~InLane(q, kind))
      BY <1>1 DEF ClientInv, Single
    <2>2. OnceIn(lane'["c"], kind)
      BY <1>3, <1>6, <1>8, <1>9, <2>1
    <2>3. Asked(kind)' => ~InLane(lane'["c"], kind)
      BY <1>1, <1>10, <1>12, <2>1
    <2> QED  BY <2>2, <2>3
  <1>14. Told'
    <2>1. \A kind : Outstanding(kind)' => Outstanding(kind)
      BY <1>3, <1>10, <1>12 DEF Outstanding
    <2> QED  BY <1>10, <2>1 DEF ClientInv, Told
  <1>15. Spent'
    <2>1. CASE op.kind = "connect" /\ ~err
      <3>1. e = Done("connect", stream, FALSE)  BY <1>2, <1>3, <2>1
      <3>2. Followed(q \o s)  BY <1>4, <1>5, <2>1, ConnectLast
      <3> QED  BY <1>6, <1>8, <1>9, <3>1, <3>2 DEF Spent
    <2>2. CASE ~(op.kind = "connect" /\ ~err)
      <3>1. made' = made  BY <2>2
      <3>2. ~InLane(s, "connectAsync")  BY <1>3, <1>6 DEF Kinds
      <3> QED  BY <1>1, <1>8, <1>9, <3>1, <3>2 DEF ClientInv, Spent
    <2> QED  BY <2>1, <2>2
  <1> QED  BY <1>11, <1>13, <1>14, <1>15 DEF ClientInv

-----------------------------------------------------------------------------
(* Steps of the sessions *)

LEMMA IdsAreNat == Ids \subseteq Nat
  BY BoundsAssumption DEF Ids

LEMMA IdsJoin ==
    ASSUME NEW q \in Seq(Entry), NEW a \in Seq(Entry), AllIds(q), AllIds(a)
    PROVE  AllIds(q \o a) /\ q \o a \in Seq(Entry)
  BY ConcatFacts DEF AllIds

LEMMA IdsTail ==
    ASSUME NEW q \in Seq(Entry), q # << >>, AllIds(q)
    PROVE  Head(q).id \in Ids /\ AllIds(Tail(q)) /\ Tail(q) \in Seq(Entry)
  <1>1. /\ Len(q) \in Nat /\ Len(q) >= 1 /\ Len(Tail(q)) = Len(q) - 1 /\ Head(q) = q[1]
        /\ \A k \in 1 .. Len(Tail(q)) : Tail(q)[k] = q[k + 1] /\ k + 1 \in 1 .. Len(q)
        /\ Tail(q) \in Seq(Entry)
    OBVIOUS
  <1>2. 1 \in 1 .. Len(q)  BY <1>1
  <1> QED  BY <1>1, <1>2 DEF AllIds

LEMMA IdsPush ==
    ASSUME NEW q \in Seq(Entry), NEW e \in Entry, AllIds(q), e.id \in Ids
    PROVE  AllIds(Append(q, e)) /\ Append(q, e) \in Seq(Entry)
  <1>1. /\ Append(q, e) \in Seq(Entry) /\ Len(q) \in Nat
        /\ \A k \in 1 .. Len(Append(q, e)) :
              (k \in 1 .. Len(q) /\ Append(q, e)[k] = q[k]) \/ Append(q, e)[k] = e
    OBVIOUS
  <1> QED  BY <1>1 DEF AllIds

LEMMA LaneSetS ==
    ASSUME TypeOK, NEW x \in Seq(Entry), lane' = [lane EXCEPT !["s"] = x]
    PROVE  /\ lane' \in [{"c", "s"} -> Seq(Entry)]
           /\ lane'["s"] = x /\ lane'["c"] = lane["c"]
  BY DEF TypeOK

\* What the sessions do not see.
LEMMA SessionKept ==
    ASSUME SessionInv, lane'["s"] = lane["s"], session' = session, begun \subseteq begun',
           \A op \in pend' : op.end = "s" => op \in pend
    PROVE  SessionInv'
  BY DEF SessionInv, Complete

Quiet ==
    /\ lane'["c"] = lane["c"]
    /\ \A op : op.end = "c" => (op \in pend' <=> op \in pend)
    /\ UNCHANGED <<client, stream, conn, made, pc, mode>>
    /\ closed \subseteq closed'

SessionStep ==
    /\ Quiet /\ SessionInv'
    /\ session' \in [Ids -> SessionFlags] /\ pend' \subseteq OpRec
    /\ lane' \in [{"c", "s"} -> Seq(Entry)]

LEMMA TryReceiveFacts ==
    ASSUME TypeOK, NEW g \in Ids, NEW flags \in SessionFlags, NEW ops,
           TryReceive(g, flags, ops)
    PROVE  /\ session' \in [Ids -> SessionFlags]
           /\ \A h \in Ids : h # g => session'[h] = session[h]
           /\ session'[g].connected = flags.connected
           /\ session'[g].handshaked = flags.handshaked
           /\ session'[g].receiving <=> flags.receiving \/ Complete(flags)
           /\ ops \subseteq pend'
           /\ \A op \in pend' : op \in ops \/ (op = Op("s", "read", g) /\ Complete(flags))
  <1> DEFINE reads == ~flags.receiving /\ Complete(flags)
  <1>1. PICK f : f = [flags EXCEPT !.receiving = @ \/ reads]  OBVIOUS
  <1>2. /\ f \in SessionFlags /\ f.connected = flags.connected
        /\ f.handshaked = flags.handshaked
    BY <1>1 DEF SessionFlags
  <1>3. f.receiving <=> flags.receiving \/ Complete(flags)
    <2>1. f.receiving = (flags.receiving \/ reads)  BY <1>1 DEF SessionFlags
    <2> QED  BY <2>1
  <1>4. session' = [session EXCEPT ![g] = f]  BY <1>1 DEF TryReceive
  <1>5. /\ session' \in [Ids -> SessionFlags] /\ session'[g] = f
        /\ \A h \in Ids : h # g => session'[h] = session[h]
    BY <1>2, <1>4 DEF TypeOK
  <1>6. pend' = IF reads THEN ops \cup {Op("s", "read", g)} ELSE ops  BY DEF TryReceive
  <1> QED  BY <1>2, <1>3, <1>5, <1>6

LEMMA SessionConnectStep ==
    ASSUME TypeOK, SessionInv, NEW g \in Ids, SessionConnect(g)
    PROVE  SessionStep
  <1>1. PICK flags : flags = [NoSession EXCEPT !.connected = TRUE]  OBVIOUS
  <1>2. flags \in SessionFlags /\ ~flags.receiving /\ ~Complete(flags)
    BY <1>1 DEF NoSession, SessionFlags, Complete
  <1>3. PICK op : op = Op("s", "handshake", g)  OBVIOUS
  <1>4. op \in OpRec /\ op.end = "s" /\ op.kind = "handshake" /\ op.id = g
    BY <1>3, IdsAreNat, OpType DEF Kinds
  <1>5. PICK ops : ops = pend \cup {op}  OBVIOUS
  <1>6. TryReceive(g, flags, ops)  BY <1>1, <1>3, <1>5 DEF SessionConnect
  <1>7. /\ session' \in [Ids -> SessionFlags]
        /\ \A h \in Ids : h # g => session'[h] = session[h]
        /\ ~session'[g].receiving /\ ~Complete(session'[g])
        /\ pend' = ops
    BY <1>2, <1>6, TryReceiveFacts DEF Complete
  <1>8. /\ <<"s", g>> \notin begun /\ begun' = begun \cup {<<"s", g>>}
        /\ UNCHANGED <<mode, client, stream, conn, lane, made, closed, pc>>
    BY DEF SessionConnect, app
  <1>9. Quiet  BY <1>4, <1>5, <1>7, <1>8 DEF Quiet
  <1>10. SessionInv'
    <2>1. ASSUME NEW o \in pend', o.end = "s"
          PROVE  /\ o.id \in Ids /\ o.kind # "connect"
                 /\ o.kind = "read" => Complete(session'[o.id])
      <3>1. CASE o = op  BY <1>4, <1>8, <3>1
      <3>2. CASE o \in pend
        <4>1. o.kind = "read" => o.id # g  BY <1>8, <2>1, <3>2 DEF SessionInv, Complete
        <4> QED  BY <1>7, <1>8, <2>1, <3>2, <4>1 DEF SessionInv
      <3> QED  BY <1>5, <1>7, <2>1, <3>1, <3>2
    <2>2. \A h \in Ids : /\ session'[h].receiving => session'[h].handshaked
                         /\ Complete(session'[h]) => session'[h].receiving
      BY <1>7 DEF SessionInv
    <2>3. AllIds(lane'["s"])  BY <1>8 DEF SessionInv
    <2>4. \A h \in Ids : session'[h].connected => <<"s", h>> \in begun'
      BY <1>7, <1>8 DEF SessionInv
    <2> QED  BY <2>1, <2>2, <2>3, <2>4 DEF SessionInv, Complete
  <1> QED  BY <1>4, <1>5, <1>7, <1>8, <1>9, <1>10 DEF SessionStep, TypeOK

LEMMA SessionDisconnectStep ==
    ASSUME TypeOK, SessionInv, NEW g \in Ids, SessionDisconnect(g)
    PROVE  SessionStep
  <1>1. PICK q \in Seq(Entry) : q = lane["s"]  BY Lanes
  <1>2. PICK e : e = Done("disconnect", g, FALSE)  OBVIOUS
  <1>3. e \in Entry /\ e.id = g  BY <1>2, IdsAreNat, EntryType DEF Done
  <1>4. lane' = [lane EXCEPT !["s"] = Append(q, e)]  BY <1>1, <1>2 DEF SessionDisconnect
  <1>5. AllIds(q)  BY <1>1 DEF SessionInv
  <1>6. AllIds(Append(q, e)) /\ Append(q, e) \in Seq(Entry)  BY <1>3, <1>5, IdsPush
  <1>7. /\ lane' \in [{"c", "s"} -> Seq(Entry)]
        /\ lane'["s"] = Append(q, e) /\ lane'["c"] = lane["c"]
    BY <1>4, <1>6, LaneSetS
  <1>8. UNCHANGED <<mode, client, stream, conn, session, pend, made, begun, closed, pc>>
    BY DEF SessionDisconnect, ends, net, app
  <1>9. Quiet  BY <1>7, <1>8 DEF Quiet
  <1>10. SessionInv'  BY <1>6, <1>7, <1>8 DEF SessionInv, Complete
  <1> QED  BY <1>7, <1>8, <1>9, <1>10 DEF SessionStep, TypeOK

\* The handler at the head of the lane closes its session.
LEMMA CloseSessionStep ==
    ASSUME TypeOK, SessionInv, lane["s"] # << >>, CloseSession(Head(lane["s"]).id),
           UNCHANGED <<mode, client, stream, conn, made, begun, pc>>
    PROVE  SessionStep
  <1>1. PICK q \in Seq(Entry) : q = lane["s"]  BY Lanes
  <1>2. PICK p : p = Tail(q)  OBVIOUS
  <1>3. PICK g : g = Head(q).id  OBVIOUS
  <1>4. g \in Ids /\ AllIds(p) /\ p \in Seq(Entry)
    BY <1>1, <1>2, <1>3, IdsTail DEF SessionInv
  <1>5. CloseSession(g)  BY <1>1, <1>3
  <1>6. CASE session[g].connected
    <2>1. PICK b : b = Aborted("s", g)  OBVIOUS
    <2>2. Clean(b, g)  BY <1>4, <2>1, IdsAreNat, AbortedFacts
    <2>3. b \in Seq(Entry) /\ AllIds(b)  BY <1>4, <2>2 DEF Clean, AllIds
    <2>4. /\ lane' = [lane EXCEPT !["s"] = p \o b]
          /\ pend' = pend \ OpsOf("s", g) /\ closed \subseteq closed'
          /\ session' = [session EXCEPT ![g].connected = FALSE, ![g].receiving = FALSE]
      BY <1>1, <1>2, <1>5, <1>6, <2>1 DEF CloseSession
    <2>5. AllIds(p \o b) /\ p \o b \in Seq(Entry)  BY <1>4, <2>3, IdsJoin
    <2>6. /\ lane' \in [{"c", "s"} -> Seq(Entry)]
          /\ lane'["s"] = p \o b /\ lane'["c"] = lane["c"]
      BY <2>4, <2>5, LaneSetS
    <2>7. /\ session' \in [Ids -> SessionFlags]
          /\ \A h \in Ids : h # g => session'[h] = session[h]
          /\ ~session'[g].connected /\ ~session'[g].receiving
      BY <1>4, <2>4 DEF TypeOK, SessionFlags
    <2>8. Quiet
      <3>1. \A op : op.end = "c" => op \notin OpsOf("s", g)  BY DEF OpsOf
      <3> QED  BY <2>4, <2>6, <3>1 DEF Quiet
    <2>9. \A op \in pend' : op \in pend /\ (op.end = "s" => op.id # g)
      BY <2>4 DEF OpsOf
    <2>10. SessionInv'  BY <2>5, <2>6, <2>7, <2>9 DEF SessionInv, Complete
    <2> QED  BY <2>6, <2>7, <2>8, <2>9, <2>10 DEF SessionStep, TypeOK
  <1>7. CASE ~session[g].connected
    <2>1. lane' = [lane EXCEPT !["s"] = p] /\ UNCHANGED <<session, pend, closed>>
      BY <1>1, <1>2, <1>5, <1>7 DEF CloseSession
    <2>2. /\ lane' \in [{"c", "s"} -> Seq(Entry)]
          /\ lane'["s"] = p /\ lane'["c"] = lane["c"]
      BY <1>4, <2>1, LaneSetS
    <2>3. Quiet  BY <2>1, <2>2 DEF Quiet
    <2>4. SessionInv'  BY <1>4, <2>1, <2>2 DEF SessionInv, Complete
    <2> QED  BY <2>1, <2>2, <2>3, <2>4 DEF SessionStep, TypeOK
  <1> QED  BY <1>6, <1>7

LEMMA SessionReadStep ==
    ASSUME TypeOK, SessionInv, SessionRead
    PROVE  SessionStep
  <1>1. /\ lane["s"] # << >>
        /\ UNCHANGED <<mode, client, stream, conn, made, begun, pc>>
    BY DEF SessionRead, SessionReadWith, SessionRuns, app
  <1>2. PICK q \in Seq(Entry) : q = lane["s"]  BY Lanes
  <1>3. PICK p : p = Tail(q)  OBVIOUS
  <1>4. PICK g : g = Head(q).id  OBVIOUS
  <1>5. g \in Ids /\ AllIds(p) /\ p \in Seq(Entry)
    BY <1>1, <1>2, <1>3, <1>4, IdsTail DEF SessionInv
  <1>6. CASE Complete(session[g])
    <2>1. CloseSession(Head(lane["s"]).id)
      BY <1>2, <1>4, <1>6 DEF SessionRead, SessionReadWith
    <2> QED  BY <1>1, <2>1, CloseSessionStep
  <1>7. CASE ~Complete(session[g])
    <2>1. /\ lane' = [lane EXCEPT !["s"] = p] /\ UNCHANGED <<pend, closed>>
          /\ session' = [session EXCEPT ![g].receiving = FALSE]
      BY <1>2, <1>3, <1>4, <1>7 DEF SessionRead, SessionReadWith
    <2>2. /\ lane' \in [{"c", "s"} -> Seq(Entry)]
          /\ lane'["s"] = p /\ lane'["c"] = lane["c"]
      BY <1>5, <2>1, LaneSetS
    <2>3. /\ session' \in [Ids -> SessionFlags]
          /\ \A h \in Ids : h # g => session'[h] = session[h]
          /\ ~session'[g].receiving
          /\ session'[g].connected = session[g].connected
          /\ session'[g].handshaked = session[g].handshaked
      BY <1>5, <2>1 DEF TypeOK, SessionFlags
    <2>4. Quiet  BY <1>1, <2>1, <2>2 DEF Quiet
    <2>5. SessionInv'  BY <1>1, <1>5, <1>7, <2>1, <2>2, <2>3 DEF SessionInv, Complete
    <2> QED  BY <2>1, <2>2, <2>3, <2>4, <2>5 DEF SessionStep, TypeOK
  <1> QED  BY <1>6, <1>7

LEMMA SessionHandshakeStep ==
    ASSUME TypeOK, SessionInv, SessionHandshake
    PROVE  SessionStep
  <1>1. /\ lane["s"] # << >>
        /\ UNCHANGED <<mode, client, stream, conn, made, begun, closed, pc>>
    BY DEF SessionHandshake, SessionHandshakeWith, SessionRuns, app, net
  <1>2. PICK q \in Seq(Entry) : q = lane["s"]  BY Lanes
  <1>3. PICK p : p = Tail(q)  OBVIOUS
  <1>4. PICK g : g = Head(q).id  OBVIOUS
  <1>5. g \in Ids /\ AllIds(p) /\ p \in Seq(Entry)
    BY <1>1, <1>2, <1>3, <1>4, IdsTail DEF SessionInv
  <1>6. PICK s \in SessionFlags : s = session[g]  BY <1>5 DEF TypeOK
  <1>7. CASE ~s.handshaked /\ ~Head(q).err
    <2>1. PICK flags : flags = [s EXCEPT !.handshaked = TRUE]  OBVIOUS
    <2>2. flags \in SessionFlags /\ flags.handshaked /\ flags.connected = s.connected
      BY <2>1 DEF SessionFlags
    <2>3. TryReceive(g, flags, pend) /\ lane' = [lane EXCEPT !["s"] = p]
      BY <1>2, <1>3, <1>4, <1>6, <1>7, <2>1 DEF SessionHandshake, SessionHandshakeWith
    <2>4. PICK ops : ops = pend  OBVIOUS
    <2>5. TryReceive(g, flags, ops)  BY <2>3, <2>4
    <2>6. /\ session' \in [Ids -> SessionFlags]
          /\ \A h \in Ids : h # g => session'[h] = session[h]
          /\ session'[g].connected = flags.connected
          /\ session'[g].handshaked = flags.handshaked
          /\ session'[g].receiving <=> flags.receiving \/ Complete(flags)
          /\ ops \subseteq pend'
          /\ \A op \in pend' : op \in ops \/ (op = Op("s", "read", g) /\ Complete(flags))
      BY <1>5, <2>2, <2>5, TryReceiveFacts
    <2>7. PICK op : op = Op("s", "read", g)  OBVIOUS
    <2>8. op \in OpRec /\ op.end = "s" /\ op.kind = "read" /\ op.id = g
      BY <1>5, <2>7, IdsAreNat, OpType DEF Kinds
    <2>9. pend \subseteq pend' /\ \A o \in pend' : o \in pend \/ (o = op /\ Complete(flags))
      BY <2>4, <2>6, <2>7
    <2>10. /\ lane' \in [{"c", "s"} -> Seq(Entry)]
           /\ lane'["s"] = p /\ lane'["c"] = lane["c"]
      BY <1>5, <2>3, LaneSetS
    <2>11. Quiet  BY <1>1, <2>8, <2>9, <2>10 DEF Quiet
    <2>12. /\ Complete(session'[g]) <=> Complete(flags)
           /\ ~Complete(session[g])
      BY <1>6, <1>7, <2>6 DEF Complete
    <2>13. ASSUME NEW o \in pend', o.end = "s"
           PROVE  /\ o.id \in Ids /\ o.kind # "connect"
                  /\ o.kind = "read" => Complete(session'[o.id])
      <3>1. CASE o \in pend
        <4>1. o.kind = "read" => o.id # g  BY <2>12, <2>13, <3>1 DEF SessionInv
        <4> QED  BY <2>6, <2>13, <3>1, <4>1 DEF SessionInv
      <3>2. CASE o = op /\ Complete(flags)  BY <1>5, <2>8, <2>12, <3>2
      <3> QED  BY <2>9, <2>13, <3>1, <3>2
    <2>14. \A h \in Ids : /\ session'[h].receiving => session'[h].handshaked
                          /\ Complete(session'[h]) => session'[h].receiving
      BY <2>2, <2>6, <2>12 DEF SessionInv
    <2>15. \A h \in Ids : session'[h].connected => <<"s", h>> \in begun'
      BY <1>1, <1>6, <2>2, <2>6 DEF SessionInv
    <2>16. SessionInv'
      BY <1>1, <1>5, <2>10, <2>13, <2>14, <2>15 DEF SessionInv
    <2>17. pend' \subseteq OpRec  BY <2>8, <2>9 DEF TypeOK
    <2> QED  BY <2>6, <2>10, <2>11, <2>16, <2>17 DEF SessionStep
  <1>8. CASE ~(~s.handshaked /\ ~Head(q).err)
    <2>1. PICK e : e = Done("disconnect", g, FALSE)  OBVIOUS
    <2>2. e \in Entry /\ e.id = g  BY <1>5, <2>1, IdsAreNat, EntryType DEF Done
    <2>3. PICK a : a \in {<< >>, <<e>>} /\ lane' = [lane EXCEPT !["s"] = p \o a]
      BY <1>2, <1>3, <1>4, <1>6, <1>8, <2>1 DEF SessionHandshake, SessionHandshakeWith
    <2>4. a \in Seq(Entry) /\ AllIds(a)
      <3>1. CASE a = << >>  BY <3>1 DEF AllIds
      <3>2. CASE a = <<e>>
        <4>1. Len(a) = 1 /\ a[1] = e /\ a \in Seq(Entry)  BY <2>2, <3>2
        <4>2. \A k \in 1 .. Len(a) : k = 1  BY <4>1
        <4> QED  BY <1>5, <2>2, <4>1, <4>2 DEF AllIds
      <3> QED  BY <2>3, <3>1, <3>2
    <2>5. AllIds(p \o a) /\ p \o a \in Seq(Entry)  BY <1>5, <2>4, IdsJoin
    <2>6. /\ lane' \in [{"c", "s"} -> Seq(Entry)]
          /\ lane'["s"] = p \o a /\ lane'["c"] = lane["c"]
      BY <2>3, <2>5, LaneSetS
    <2>7. UNCHANGED <<session, pend>>
      BY <1>2, <1>4, <1>6, <1>8 DEF SessionHandshake, SessionHandshakeWith
    <2>8. Quiet  BY <1>1, <2>6, <2>7 DEF Quiet
    <2>9. SessionInv'  BY <1>1, <2>5, <2>6, <2>7 DEF SessionInv, Complete
    <2> QED  BY <2>6, <2>7, <2>8, <2>9 DEF SessionStep, TypeOK
  <1> QED  BY <1>7, <1>8

LEMMA FinishSession ==
    ASSUME TypeOK, SessionInv, NEW op \in pend, op.end = "s", NEW err \in BOOLEAN,
           Finish(op, err), UNCHANGED <<mode, client, stream, conn, session, made, begun,
                                        closed, pc>>
    PROVE  SessionStep
  <1>1. PICK q \in Seq(Entry) : q = lane["s"]  BY Lanes
  <1>2. PICK e : e = Done(op.kind, op.id, err)  OBVIOUS
  <1>3. op.kind \in Kinds /\ op.id \in Ids  BY DEF TypeOK, OpRec, SessionInv
  <1>4. e \in Entry /\ e.id = op.id  BY <1>2, <1>3, IdsAreNat, EntryType DEF Done
  <1>5. lane' = [lane EXCEPT !["s"] = Append(q, e)]  BY <1>1, <1>2 DEF Finish
  <1>6. AllIds(q)  BY <1>1 DEF SessionInv
  <1>7. AllIds(Append(q, e)) /\ Append(q, e) \in Seq(Entry)  BY <1>3, <1>4, <1>6, IdsPush
  <1>8. /\ lane' \in [{"c", "s"} -> Seq(Entry)]
        /\ lane'["s"] = Append(q, e) /\ lane'["c"] = lane["c"]
    BY <1>5, <1>7, LaneSetS
  <1>9. pend' = pend \ {op}  BY DEF Finish
  <1>10. Quiet  BY <1>8, <1>9 DEF Quiet
  <1>11. SessionInv'  BY <1>7, <1>8, <1>9 DEF SessionInv, Complete
  <1> QED  BY <1>8, <1>9, <1>10, <1>11 DEF SessionStep, TypeOK

-----------------------------------------------------------------------------
(* The invariant is kept *)

LEMMA SessionsKeep ==
    ASSUME TlsInv, SessionStep
    PROVE  TlsInv'
  <1>1. TypeOK'  BY DEF TlsInv, TypeOK, SessionStep, Quiet
  <1>2. ClientInv'  BY ClientKept DEF TlsInv, SessionStep, Quiet
  <1>3. \A op \in pend' : op.end \in {"c", "s"}  BY DEF SessionStep, OpRec
  <1>4. Blocking'  BY <1>3 DEF TlsInv, Blocking, SessionStep, Quiet
  <1> QED  BY <1>1, <1>2, <1>4 DEF TlsInv, SessionStep

LEMMA NetworkKeeps ==
    ASSUME TlsInv, NEW op \in pend, NEW err \in BOOLEAN,
           ConnectPerform(op, err) \/ Perform(op, err)
    PROVE  TlsInv'
  <1>1. /\ Finish(op, err)
        /\ UNCHANGED <<mode, client, stream, conn, session, begun, closed, pc>>
        /\ made' = IF op.kind = "connect" /\ ~err THEN made \cup {op.id} ELSE made
    BY DEF ConnectPerform, Perform, ends, net, app
  <1>2. TypeOK /\ ClientInv /\ SessionInv /\ Blocking /\ op \in OpRec  BY DEF TlsInv, TypeOK
  <1>3. CASE op.end = "s"
    <2>1. made' = made  BY <1>1, <1>2, <1>3 DEF SessionInv
    <2>2. SessionStep  BY <1>1, <1>2, <1>3, <2>1, FinishSession
    <2> QED  BY <2>2, SessionsKeep
  <1>4. CASE op.end = "c"
    <2>1. ClientInv'  BY <1>1, <1>2, <1>4, FinishClient
    <2>2. op.id = stream /\ op.kind \in Kinds  BY <1>2, <1>4 DEF ClientInv, Current, OpRec
    <2>3. PICK e : e = Done(op.kind, op.id, err)  OBVIOUS
    <2>4. e \in Entry  BY <1>2, <2>2, <2>3, EntryType DEF TypeOK
    <2>5. PICK q \in Seq(Entry) : q = lane["c"]  BY <1>2, Lanes
    <2>6. Append(q, e) \in Seq(Entry)  BY <2>4
    <2>7. lane' = [lane EXCEPT !["c"] = Append(q, e)]  BY <1>1, <1>4, <2>3, <2>5 DEF Finish
    <2>8. lane' \in [{"c", "s"} -> Seq(Entry)] /\ lane'["s"] = lane["s"]
      BY <1>2, <2>6, <2>7, LaneSet
    <2>9. pend' = pend \ {op}  BY <1>1 DEF Finish
    <2>10. made' \subseteq 0 .. stream'
      <3>1. stream \in 0 .. stream  BY <1>2 DEF TypeOK
      <3> QED  BY <1>1, <1>2, <2>2, <3>1 DEF TypeOK
    <2>11. TypeOK'  BY <1>1, <1>2, <2>8, <2>9, <2>10 DEF TypeOK
    <2>12. SessionInv'  BY <1>1, <1>2, <2>8, <2>9, SessionKept
    <2>13. Blocking'  BY <1>1, <1>2, <1>4 DEF Blocking
    <2> QED  BY <2>1, <2>11, <2>12, <2>13 DEF TlsInv
  <1> QED  BY <1>2, <1>3, <1>4 DEF OpRec

LEMMA OffOrSame ==
    ASSUME TypeOK, DoDisconnect
    PROVE  /\ client' \in Flags
           /\ pend' \subseteq pend /\ closed \subseteq closed'
  <1>1. Off \in Flags  BY DEF Off, Flags
  <1>2. client' \in {Off, client}  BY DEF DoDisconnect, DoDisconnectWith
  <1>3. pend' \subseteq pend /\ closed \subseteq closed'
    BY DEF DoDisconnect, DoDisconnectWith
  <1> QED  BY <1>1, <1>2, <1>3 DEF TypeOK

\* A handler of the client runs: no thread is in connect().
LEMMA ClientLaneKeeps ==
    ASSUME TlsInv, ClientLane
    PROVE  TlsInv'
  <1>1. TypeOK /\ ClientInv /\ SessionInv /\ Blocking  BY DEF TlsInv
  <1>2. /\ lane["c"] # << >> /\ UNCHANGED <<mode, stream, session, made, pc>>
        /\ begun \subseteq begun'
    BY DEF ClientLane, ConnectHandler, ConnectEndpoint, DisconnectHandler, ShutdownHandler,
           HandshakeHandler, ReadHandler, Runs, ends, net, app
  <1>3. Blocking'  BY <1>1, <1>2 DEF Blocking
  <1>4. ClientInv' /\ lane' \in [{"c", "s"} -> Seq(Entry)] /\ lane'["s"] = lane["s"]
    BY <1>1, ConnectHandlerClient, ConnectEndpointClient, DisconnectHandlerClient,
       ShutdownHandlerClient, HandshakeHandlerClient, ReadHandlerClient DEF ClientLane
  <1>5. client' \in Flags
    <2>1. CASE HandshakeHandler \/ ReadHandler
      BY <1>1, <2>1, HandshakeHandlerClient, ReadHandlerClient
    <2>2. CASE ConnectHandler
      BY <1>1, <2>2 DEF ConnectHandler, TypeOK, Flags
    <2>3. CASE ConnectEndpoint
      BY <1>1, <2>3 DEF ConnectEndpoint, TypeOK, Flags, Off
    <2>4. CASE DisconnectHandler
      BY <1>1, <2>4 DEF DisconnectHandler, TypeOK, ends
    <2>5. CASE ShutdownHandler
      BY <1>1, <2>5, OffOrSame DEF ShutdownHandler
    <2> QED  BY <2>1, <2>2, <2>3, <2>4, <2>5 DEF ClientLane
  <1>6. conn' \in Nat
    BY <1>1 DEF ClientLane, ConnectHandler, ConnectEndpoint, DisconnectHandler,
       ShutdownHandler, HandshakeHandler, ReadHandler, ends, TypeOK
  <1>7. \A op \in pend' : op \in pend \/ \E kind \in Kinds : op = Op("c", kind, stream)
    <2> USE DEF Kinds
    <2>1. ASSUME NEW flags, ShutDown(flags)
          PROVE  \A op \in pend' : op \in pend \/ op = Op("c", "shutdown", stream)
      BY <2>1 DEF ShutDown
    <2>2. CASE ConnectHandler  BY <2>2 DEF ConnectHandler
    <2>3. CASE ConnectEndpoint  BY <2>3 DEF ConnectEndpoint
    <2>4. CASE DisconnectHandler
      <3>1. PICK flags : ShutDown(flags)  BY <2>4 DEF DisconnectHandler
      <3> QED  BY <2>1, <3>1
    <2>5. CASE ShutdownHandler  BY <2>5 DEF ShutdownHandler, DoDisconnect, DoDisconnectWith
    <2>6. CASE HandshakeHandler
      <3>1. \/ \E flags : ShutDown(flags)
            \/ \A op \in pend' : op \in pend \/ op = Op("c", "read", stream)
        BY <2>6 DEF HandshakeHandler
      <3> QED  BY <2>1, <3>1
    <2>7. CASE ReadHandler
      <3>1. (\E flags : ShutDown(flags)) \/ pend' = pend  BY <2>7 DEF ReadHandler
      <3> QED  BY <2>1, <3>1
    <2> QED  BY <2>2, <2>3, <2>4, <2>5, <2>6, <2>7 DEF ClientLane
  <1>8. \A kind \in Kinds : Op("c", kind, stream) \in OpRec /\ Op("c", kind, stream).end = "c"
    BY <1>1, OpType DEF TypeOK
  <1>9. TypeOK'  BY <1>1, <1>2, <1>4, <1>5, <1>6, <1>7, <1>8 DEF TypeOK
  <1>10. SessionInv'  BY <1>1, <1>2, <1>4, <1>7, <1>8, SessionKept
  <1> QED  BY <1>3, <1>4, <1>9, <1>10 DEF TlsInv

LEMMA ThreadEnterKeeps ==
    ASSUME TlsInv, NEW t \in Threads, ThreadEnter(t)
    PROVE  TlsInv'
  <1>1. TypeOK /\ ClientInv /\ SessionInv /\ Blocking  BY DEF TlsInv
  <1>2. PICK point \in {"connectAsync", "disconnectAsync", "reconnectAsync", "disconnect",
                        "connect"}, n \in {0, 1} : Call(t, point, n)
    BY DEF ThreadEnter, ConnectAsync, DisconnectAsync, ReconnectAsync, Disconnect, Connect
  <1>3. /\ UNCHANGED <<mode, client, stream, conn, session, pend, lane, made, begun, closed>>
        /\ pc' = [pc EXCEPT ![t] = point]
        /\ mode = "sync" => \A u \in Threads : pc[u] = "idle"
    BY <1>2 DEF Call, ends, net, Go, At
  <1>4. TypeOK'  BY <1>1, <1>3 DEF TypeOK
  <1>5. ClientInv'  BY <1>1, <1>3, ClientKept
  <1>6. SessionInv'  BY <1>1, <1>3, SessionKept
  <1>7. /\ pc'[t] = point /\ \A u \in Threads : u # t => pc'[u] = pc[u]
    BY <1>1, <1>3 DEF TypeOK
  <1>8. point = "connect" =>
            mode = "sync" /\ lane["c"] = << >> /\ \A op \in pend : op.end = "s"
    <2>1. point = "connect" => Connect(t)
      BY <1>1, <1>7 DEF ThreadEnter, ConnectAsync, DisconnectAsync, ReconnectAsync,
         Disconnect, Call, Go, TypeOK
    <2> QED  BY <2>1 DEF Connect
  <1>9. Blocking'
    <2> SUFFICES ASSUME NEW u \in Threads, pc'[u] \in {"connect", "handshake"}
                 PROVE  /\ mode = "sync" /\ lane["c"] = << >>
                        /\ \A op \in pend : op.end = "s"
                        /\ \A v \in Threads : v # u => pc'[v] = "idle"
      BY <1>3 DEF Blocking
    <2>1. CASE u = t
      BY <1>2, <1>3, <1>7, <1>8, <2>1
    <2>2. CASE u # t
      <3>1. pc[u] \in {"connect", "handshake"}  BY <1>7, <2>2
      <3>2. mode = "sync"  BY <1>1, <3>1 DEF Blocking
      <3>3. pc[u] = "idle"  BY <1>3, <3>2
      <3> QED  BY <3>1, <3>3
    <2> QED  BY <2>1, <2>2
  <1> QED  BY <1>4, <1>5, <1>6, <1>9 DEF TlsInv

LEMMA ThreadStepKeeps ==
    ASSUME TlsInv, NEW t \in Threads, ThreadStep(t)
    PROVE  TlsInv'
  <1>1. TypeOK /\ ClientInv /\ SessionInv /\ Blocking  BY DEF TlsInv
  <1>2. /\ pc[t] # "idle"
        /\ \E point \in {"idle", "wait", "connectAsync", "handshake"} :
              pc' = [pc EXCEPT ![t] = point]
    BY DEF ThreadStep, ConnectPost, DisconnectPost, ReconnectStep, DisconnectStep,
           ConnectStep, HandshakeStep, Go, At
  <1>3. /\ pc'[t] \in {"idle", "wait", "connectAsync", "handshake"}
        /\ \A u \in Threads : u # t => pc'[u] = pc[u]
        /\ pc' \in [Threads -> {"idle", "connectAsync", "disconnectAsync", "reconnectAsync",
                           "disconnect", "connect", "handshake", "wait"}]
    BY <1>1, <1>2 DEF TypeOK
  <1>4. \A u \in Threads : u # t => pc[u] \notin {"connect", "handshake"}
    BY <1>1, <1>2 DEF Blocking
  <1>5. CASE ConnectStep(t) \/ HandshakeStep(t)
    <2>1. /\ pc[t] \in {"connect", "handshake"} /\ UNCHANGED <<mode, session, pend, lane>>
          /\ stream' \in {stream, stream + 1} /\ conn' \in {conn, stream'}
          /\ made' \subseteq made \cup {stream'} /\ begun \subseteq begun'
      BY <1>5 DEF ConnectStep, HandshakeStep, At, net
    <2>2. ClientInv'  BY <1>1, <1>5, ConnectStepClient
    <2>3. client' \in Flags
      BY <1>1, <1>5 DEF ConnectStep, HandshakeStep, TypeOK, Flags
    <2>4. stream' \in Nat /\ conn' \in Nat /\ made' \subseteq 0 .. stream'
      BY <1>1, <2>1 DEF TypeOK
    <2>5. TypeOK'  BY <1>1, <1>3, <2>1, <2>3, <2>4 DEF TypeOK
    <2>6. SessionInv'  BY <1>1, <2>1, SessionKept
    <2>7. Blocking'  BY <1>1, <1>3, <1>4, <2>1 DEF Blocking
    <2> QED  BY <2>2, <2>5, <2>6, <2>7 DEF TlsInv
  <1>6. CASE ReconnectStep(t)
    <2>1. UNCHANGED <<mode, client, stream, conn, session, pend, lane, made, begun, closed>>
          /\ pc'[t] # "handshake"
      BY <1>1, <1>6 DEF ReconnectStep, ends, net, Go, TypeOK
    <2>2. ClientInv'  BY <1>1, <2>1, ClientKept
    <2>3. TypeOK'  BY <1>1, <1>3, <2>1 DEF TypeOK
    <2>4. SessionInv'  BY <1>1, <2>1, SessionKept
    <2>5. Blocking'  BY <1>3, <1>4, <2>1 DEF Blocking
    <2> QED  BY <2>2, <2>3, <2>4, <2>5 DEF TlsInv
  <1>7. CASE ConnectPost(t) \/ DisconnectPost(t) \/ DisconnectStep(t)
    <2>1. ClientInv' /\ lane' \in [{"c", "s"} -> Seq(Entry)] /\ lane'["s"] = lane["s"]
      BY <1>1, <1>7, ConnectPostClient, DisconnectPostClient, DisconnectStepClient
    <2>2. /\ UNCHANGED <<mode, session, conn, made, begun>>
          /\ stream' \in {stream, stream + 1} /\ pc'[t] # "handshake"
      BY <1>1, <1>7 DEF ConnectPost, DisconnectPost, DisconnectStep, ends, net, Go, TypeOK
    <2>3. client' \in Flags /\ pend' \subseteq pend
      <3>1. CASE DisconnectStep(t)  BY <1>1, <3>1, OffOrSame DEF DisconnectStep
      <3>2. CASE ConnectPost(t) \/ DisconnectPost(t)
        BY <1>1, <3>2 DEF ConnectPost, DisconnectPost, ends, TypeOK
      <3> QED  BY <1>7, <3>1, <3>2
    <2>4. stream' \in Nat /\ made' \subseteq 0 .. stream'
      BY <1>1, <2>2 DEF TypeOK
    <2>5. TypeOK'  BY <1>1, <1>3, <2>1, <2>2, <2>3, <2>4 DEF TypeOK
    <2>6. SessionInv'  BY <1>1, <2>1, <2>2, <2>3, SessionKept
    <2>7. Blocking'  BY <1>3, <1>4, <2>2 DEF Blocking
    <2> QED  BY <2>1, <2>5, <2>6, <2>7 DEF TlsInv
  <1> QED  BY <1>5, <1>6, <1>7 DEF ThreadStep

LEMMA Inductive == TlsInv /\ [Next]_vars => TlsInv'
  <1> SUFFICES ASSUME TlsInv, [Next]_vars PROVE TlsInv'  OBVIOUS
  <1>1. TypeOK /\ SessionInv  BY DEF TlsInv
  <1>2. ASSUME NEW t \in Threads, ThreadEnter(t) \/ ThreadStep(t) PROVE TlsInv'
    BY <1>2, ThreadEnterKeeps, ThreadStepKeeps
  <1>3. CASE ClientLane  BY <1>3, ClientLaneKeeps
  <1>4. CASE ServerLane
    <2>1. SessionStep
      <3>1. CASE SessionDisconnectHandler
        <4>1. /\ lane["s"] # << >> /\ CloseSession(Head(lane["s"]).id)
              /\ UNCHANGED <<mode, client, stream, conn, made, begun, pc>>
          BY <3>1 DEF SessionDisconnectHandler, SessionRuns, app
        <4> QED  BY <1>1, <4>1, CloseSessionStep
      <3>2. CASE SessionHandshake  BY <1>1, <3>2, SessionHandshakeStep
      <3>3. CASE SessionRead  BY <1>1, <3>3, SessionReadStep
      <3>4. ASSUME NEW g \in Ids, SessionConnect(g) PROVE SessionStep
        BY <1>1, <3>4, SessionConnectStep
      <3> QED  BY <1>4, <3>1, <3>2, <3>3, <3>4 DEF ServerLane
    <2> QED  BY <2>1, SessionsKeep
  <1>5. ASSUME NEW op \in pend, NEW err \in BOOLEAN,
               ConnectPerform(op, err) \/ Perform(op, err)
        PROVE  TlsInv'
    BY <1>5, NetworkKeeps
  <1>6. ASSUME NEW g \in Ids, SessionDisconnect(g) PROVE TlsInv'
    <2>1. SessionStep  BY <1>1, <1>6, SessionDisconnectStep
    <2> QED  BY <2>1, SessionsKeep
  <1>7. CASE UNCHANGED vars
    <2>1. UNCHANGED <<mode, client, stream, conn, session, pend, lane, made, begun, closed, pc>>
      BY <1>7 DEF vars, ends, net, app
    <2>2. Quiet  BY <2>1 DEF Quiet
    <2>3. SessionInv'  BY <1>1, <2>1, SessionKept
    <2>4. SessionStep  BY <1>1, <2>1, <2>2, <2>3 DEF SessionStep, TypeOK
    <2> QED  BY <2>4, SessionsKeep
  <1> QED  BY <1>2, <1>3, <1>4, <1>5, <1>6, <1>7 DEF Next, Network

-----------------------------------------------------------------------------
(* Theorems *)

\* Neither end reads before its handshake or after its disconnect: tryReceive and
\* the handlers that close a socket keep the outstanding read, the flags and the
\* connection in step, whatever calls replace the stream under way.
THEOREM NoEarlyRead == Spec => []ReadsWhenReady
  <1>1. TlsInv => ReadsWhenReady
    <2> SUFFICES ASSUME TlsInv PROVE ReadsWhenReady  OBVIOUS
    <2>1. TypeOK /\ ClientInv /\ SessionInv  BY DEF TlsInv
    <2>2. ASSUME NEW op \in pend, op.kind = "read", op.id \in made
          PROVE  Ready(op.end, op.id)
      <3>1. CASE op.end = "s"  BY <2>1, <2>2, <3>1 DEF SessionInv, Ready
      <3>2. CASE op.end = "c"
        <4>1. Asked("read") /\ op.id = stream
          BY <2>1, <2>2, <3>2, OpOfClient DEF ClientInv, Current
        <4>2. client.connected /\ client.handshaked  BY <2>1, <4>1 DEF ClientInv, Told
        <4>3. ~InLane(lane["c"], "connect")
          BY <2>1, <4>2 DEF ClientInv, Told, Outstanding
        <4>4. ~OkIn(lane["c"], stream)  BY <4>3, OkIsIn
        <4>5. conn = stream  BY <2>1, <2>2, <4>1, <4>4 DEF ClientInv, Spent
        <4> QED  BY <3>2, <4>1, <4>2, <4>5 DEF Ready
      <3> QED  BY <2>1, <3>1, <3>2 DEF TypeOK, OpRec
    <2> QED  BY <2>1, <2>2 DEF ReadsWhenReady, SessionInv
  <1> QED  BY <1>1, Initially, Inductive, PTL DEF Spec

\* A client that is off leaves nothing behind: disconnect() and the stream that
\* each connect replaces close every connection the client made.
THEOREM OffLeavesNothing == Spec => []OffMeansClosed
  <1>1. TlsInv => OffMeansClosed
    <2> SUFFICES ASSUME TlsInv, MayConnect
                 PROVE  /\ \A op \in pend : op.end = "s"
                        /\ \A g \in made : <<"c", g>> \in closed
      BY DEF OffMeansClosed
    <2>1. TypeOK /\ ClientInv  BY DEF TlsInv
    <2>2. /\ ~Outstanding("connect") /\ ~Outstanding("handshake")
          /\ ~Asked("read") /\ ~Asked("shutdown") /\ ~client.connected
      BY <2>1 DEF ClientInv, Told, MayConnect
    <2>3. ASSUME NEW op \in pend PROVE op.end = "s"
      <3>1. op.end = "c" => FALSE
        BY <2>1, <2>2, OpOfClient DEF ClientInv, Outstanding, Kinds
      <3> QED  BY <2>1, <3>1 DEF TypeOK, OpRec
    <2>4. ASSUME NEW g \in made PROVE <<"c", g>> \in closed
      <3>1. g \in Nat /\ stream \in Nat /\ (g < stream \/ g = stream)  BY <2>1 DEF TypeOK
      <3>2. CASE g < stream  BY <2>1, <3>1, <3>2 DEF ClientInv, Current
      <3>3. CASE g = stream
        <4>1. ~OkIn(lane["c"], stream)  BY <2>2, OkIsIn DEF Outstanding
        <4> QED  BY <2>1, <2>2, <3>3, <4>1 DEF ClientInv, Spent
      <3> QED  BY <3>1, <3>2, <3>3
    <2> QED  BY <2>3, <2>4
  <1> QED  BY <1>1, Initially, Inductive, PTL DEF Spec

=============================================================================
