----------------------------- MODULE EchoProofs -----------------------------
(***************************************************************************)
(* The bytes of the echo benchmarks, proved for any number of clients and  *)
(* messages, for messages of any size, and with or without partial writes. *)
(***************************************************************************)
EXTENDS Echo, Integers, TLAPS

-----------------------------------------------------------------------------
(* The inductive invariant *)

Silent == {"new", "connecting", "shaking"}
Talking == {"greeting", "ready"}
Phases == Silent \cup Talking \cup {"closing", "over"}

Points == {"connect", "awaitOn", "sleep", "disconnect", "awaitOff", "done"}

TypeOK ==
    /\ mode \in Modes
    /\ main \in [at : Points, k : K]
    /\ phase \in [K -> Phases]
    /\ asked \subseteq K
    /\ session \in [K -> {"none", "shaking", "open", "closed"}]
    /\ greeted \in [K -> Nat] /\ runaway \subseteq K
    /\ received \in [K -> Nat] /\ up \in [K -> Nat] /\ down \in [K -> Nat]
    /\ server \in {"starting", "serving", "down"}
    /\ console \in {"reading", "stuck", "ended"}
    /\ broken \in BOOLEAN

\* main() has not yet reached the clients from main.k on.
ConnectInOrder == main.at = "connect" => \A k \in main.k .. Clients : phase[k] = "new"

\* The bytes of g greetings.
Load(g) == g * Messages * Size

\* Nothing is sent before the client greets; from then on the bytes of its
\* greetings, and those a runaway client has made, are in the two directions and in
\* _received.
Accounted(k) ==
    /\ phase[k] \in Silent =>
          up[k] = 0 /\ down[k] = 0 /\ received[k] = 0 /\ greeted[k] = 0
    /\ phase[k] \in Talking =>
          /\ InFlight(k) >= Load(greeted[k])
          /\ k \notin runaway => InFlight(k) = Load(greeted[k])
          /\ received[k] < Size

EchoInv == TypeOK /\ ConnectInOrder /\ \A k \in K : Accounted(k)

-----------------------------------------------------------------------------
\* What onReceive's loop takes off: the whole messages, and no more.
LEMMA WholeMessages ==
    ASSUME NEW x \in Nat, NEW s \in Nat \ {0}
    PROVE  /\ (x \div s) * s \in Nat
           /\ (x \div s) * s <= x
           /\ x < (x \div s) * s + s
  <1>1. x \div s \in Nat /\ x % s \in 0 .. s - 1 /\ x = s * (x \div s) + (x % s)
    OBVIOUS
  <1>2. ASSUME NEW q \in Nat, NEW r \in 0 .. s - 1, x = s * q + r
        PROVE  q * s \in Nat /\ q * s <= x /\ x < q * s + s
    BY <1>2
  <1> QED  BY <1>1, <1>2

LEMMA LoadGrows ==
    ASSUME NEW g \in Nat
    PROVE  /\ Load(g) \in Nat /\ Messages * Size \in Nat /\ Load(0) = 0
           /\ Load(g + 1) = Load(g) + Messages * Size
  <1>1. ASSUME NEW m \in Nat, NEW s \in Nat
        PROVE  /\ g * m * s \in Nat /\ m * s \in Nat /\ 0 * m * s = 0
               /\ (g + 1) * m * s = g * m * s + m * s
    <2>1. g * m \in Nat /\ (g + 1) * m = g * m + m /\ 0 * m = 0  OBVIOUS
    <2>2. ASSUME NEW a \in Nat PROVE (a + m) * s = a * s + m * s /\ a * s \in Nat /\ 0 * s = 0
      OBVIOUS
    <2>3. (g * m + m) * s = g * m * s + m * s /\ g * m * s \in Nat  BY <2>1, <2>2
    <2> QED  BY <2>1, <2>2, <2>3
  <1> QED  BY <1>1, OptionsAssumption DEF Load

\* What Accounted says of a client that has greeted.
LEMMA Owed ==
    ASSUME EchoInv, NEW k \in K, phase[k] \in Talking
    PROVE  /\ InFlight(k) \in Nat /\ Load(greeted[k]) \in Nat
           /\ InFlight(k) >= Load(greeted[k])
           /\ k \notin runaway => InFlight(k) = Load(greeted[k])
           /\ received[k] < Size
  <1>1. Accounted(k)  BY DEF EchoInv
  <1>2. InFlight(k) \in Nat  BY DEF EchoInv, TypeOK, InFlight
  <1>3. Load(greeted[k]) \in Nat  BY LoadGrows DEF EchoInv, TypeOK
  <1> QED  BY <1>1, <1>2, <1>3 DEF Accounted

LEMMA EchoInit == Init => EchoInv
  <1> SUFFICES ASSUME Init PROVE EchoInv
    OBVIOUS
  <1>1. 1 \in K /\ \A k \in 1 .. Clients : k \in K
    BY OptionsAssumption DEF K
  <1>2. TypeOK
    BY <1>1 DEF Init, TypeOK, Points, Silent, Phases
  <1>3. ConnectInOrder
    BY <1>1 DEF Init, ConnectInOrder
  <1>4. \A k \in K : Accounted(k)
    BY DEF Init, Accounted, Silent, Talking
  <1> QED  BY <1>2, <1>3, <1>4 DEF EchoInv

-----------------------------------------------------------------------------
(* main() moves no byte *)

LEMMA AdvanceType ==
    ASSUME TypeOK, NEW next \in Points, Advance(next)
    PROVE  main' \in [at : {main.at, next}, k : K]
  <1>1. main.k \in K /\ 1 \in K /\ (main.k < Clients => main.k + 1 \in K)
    BY OptionsAssumption DEF TypeOK, K
  <1>2. CASE main.k < Clients
    BY <1>1, <1>2 DEF Advance, TypeOK
  <1>3. CASE ~(main.k < Clients)
    BY <1>1, <1>3 DEF Advance, TypeOK
  <1> QED  BY <1>2, <1>3

LEMMA MainStep == EchoInv /\ Main => EchoInv'
  <1> SUFFICES ASSUME EchoInv, Main PROVE EchoInv'
    OBVIOUS
  <1> USE OptionsAssumption DEF EchoInv, TypeOK, K, Points
  <1>1. UNCHANGED <<mode, data, session, server, console, broken>>
    BY DEF Main, MainConnect, MainAwaitOn, MainSleep, MainDisconnect, MainAwaitOff
  <1>3. CASE MainConnect
    <2>1. main.k \in K /\ main.at = "connect" /\ phase[main.k] = "new"
      BY <1>3 DEF MainConnect, ConnectInOrder
    <2>2. phase' \in [K -> Phases] /\ asked' = asked
      BY <1>3, <2>1 DEF MainConnect, Phases, Silent
    <2>3. TypeOK'
      BY <1>1, <1>3, <2>2, AdvanceType DEF MainConnect, data
    <2>4. ConnectInOrder'
      BY <1>3, <2>1 DEF MainConnect, Advance, ConnectInOrder
    <2>5. \A k \in K : Accounted(k)'
      BY <1>1, <1>3, <2>1 DEF MainConnect, Accounted, InFlight, Silent, Talking, data
    <2> QED  BY <2>3, <2>4, <2>5
  <1>4. CASE MainAwaitOn \/ MainSleep \/ MainDisconnect \/ MainAwaitOff
    <2>1. /\ phase' = phase /\ asked' \subseteq K
          /\ main' \in [at : Points \ {"connect"}, k : K]
      <3>1. CASE MainSleep
        BY <3>1 DEF MainSleep, Points
      <3>2. CASE MainAwaitOn \/ MainDisconnect \/ MainAwaitOff
        BY <3>2, AdvanceType DEF MainAwaitOn, MainDisconnect, MainAwaitOff, Points
      <3> QED  BY <1>4, <3>1, <3>2
    <2>2. TypeOK' /\ main'.at # "connect"
      BY <1>1, <2>1 DEF data
    <2>3. \A k \in K : Accounted(k)'
      BY <1>1, <2>1 DEF Accounted, InFlight, data
    <2> QED  BY <2>1, <2>2, <2>3 DEF ConnectInOrder
  <1> QED  BY <1>3, <1>4 DEF Main

-----------------------------------------------------------------------------
(* The connections *)

\* Every step of a connection or of the server but six leaves the bytes and
\* the phase of every client alone, or takes a client to another phase without
\* a byte: from one silent phase to another, or to its end.
LEMMA QuietStep ==
    ASSUME EchoInv, NEW k \in K,
           \/ Start \/ Line
           \/ Refused(k) \/ Disconnect(k) \/ Shutdown(k)
           \/ Accept(k) \/ SessionHandshake(k) \/ SessionEnds(k) \/ Drop(k)
    PROVE  EchoInv'
  <1> USE DEF EchoInv, TypeOK
  <1>1. /\ mode' = mode /\ main' = main /\ asked' = asked
        /\ received' = received /\ greeted' = greeted
    BY DEF Start, Line, Refused, Disconnect, Shutdown, Accept, SessionHandshake,
           SessionEnds, SessionEndsWhen, Drop, data
  <1>3. CASE Start \/ Line \/ Accept(k) \/ SessionHandshake(k) \/ SessionEnds(k) \/ Drop(k)
    <2>1. UNCHANGED <<phase, up, down, runaway>>
      BY <1>3 DEF Start, Line, Accept, SessionHandshake, SessionEnds, SessionEndsWhen,
                  Drop, data
    <2>2. TypeOK'
      BY <1>1, <1>3, <2>1
         DEF Start, Line, Accept, SessionHandshake, SessionEnds, SessionEndsWhen, Drop
    <2> QED  BY <1>1, <2>1, <2>2 DEF ConnectInOrder, Accounted, InFlight
  <1>4. CASE Refused(k) \/ Disconnect(k) \/ Shutdown(k)
    <2>1. PICK p \in {"closing", "over"} : phase' = [phase EXCEPT ![k] = p]
      BY <1>4 DEF Refused, Disconnect, Shutdown
    <2>2. phase[k] # "new"
      BY <1>4 DEF Refused, Disconnect, Shutdown
    <2>3. /\ \A j \in K : j # k => up'[j] = up[j] /\ down'[j] = down[j]
          /\ \A j \in K : j # k => (j \in runaway' <=> j \in runaway)
      BY <1>4 DEF Refused, Disconnect, Shutdown, data
    <2>4. /\ phase' \in [K -> Phases]
          /\ up' \in [K -> Nat] /\ down' \in [K -> Nat] /\ runaway' \subseteq K
          /\ session' = session /\ server' = server /\ console' = console
          /\ broken' \in BOOLEAN
      <3>1. phase' \in [K -> Phases]  BY <2>1 DEF Phases
      <3>2. CASE Disconnect(k)  BY <3>1, <3>2 DEF Disconnect
      <3>3. CASE Refused(k) \/ Shutdown(k)  BY <3>1, <3>3 DEF Refused, Shutdown, data
      <3> QED  BY <1>4, <3>2, <3>3
    <2>5. ConnectInOrder'
      BY <1>1, <2>1, <2>2 DEF ConnectInOrder, K
    <2>6. ASSUME NEW j \in K PROVE Accounted(j)'
      BY <1>1, <2>1, <2>3 DEF Accounted, InFlight, Silent, Talking
    <2> QED  BY <1>1, <2>4, <2>5, <2>6
  <1> QED  BY <1>3, <1>4

\* A greeting adds its messages: the first finds the three buffers empty, and so
\* does the second find the client's _received.
LEMMA GreetStep ==
    ASSUME EchoInv, NEW k \in K, Connected(k) \/ GreetAgain(k) \/ Handshake(k)
    PROVE  EchoInv'
  <1> USE DEF EchoInv, TypeOK
  <1>1. /\ UNCHANGED <<mode, main, asked, runaway, received, down, session, server, console>>
        /\ broken' \in BOOLEAN
        /\ phase[k] \in (Silent \ {"new"}) \cup {"greeting"}
    BY DEF Connected, GreetAgain, Handshake, Silent
  <1>2. PICK p \in {"greeting", "shaking", "ready", "over"} :
           phase' = [phase EXCEPT ![k] = p]
    BY DEF Connected, GreetAgain, Handshake
  <1>3. \/ p \in Talking /\ Greet(k)
        \/ p \in {"shaking", "over"} /\ phase[k] \in Silent /\ up' = up /\ greeted' = greeted
    BY <1>2 DEF Connected, GreetAgain, Handshake, Silent, Talking
  <1>4. PICK m \in Nat : m = Messages * Size  BY LoadGrows
  <1>5. /\ greeted[k] \in Nat /\ Load(greeted[k]) \in Nat
        /\ Load(greeted[k] + 1) = Load(greeted[k]) + m /\ Load(0) = 0
    BY <1>4, LoadGrows
  <1>6. CASE p \in Talking /\ Greet(k)
    <2>1. /\ up' = [up EXCEPT ![k] = @ + m]
          /\ greeted' = [greeted EXCEPT ![k] = @ + 1]
      BY <1>4, <1>6 DEF Greet
    <2>2. TypeOK'
      BY <1>1, <1>2, <2>1 DEF Phases, Silent, Talking
    <2>3. ASSUME NEW j \in K PROVE Accounted(j)'
      <3>1. CASE j = k
        <4>1. /\ InFlight(k) >= Load(greeted[k])
              /\ k \notin runaway => InFlight(k) = Load(greeted[k])
              /\ received[k] < Size
          <5>1. CASE phase[k] \in Silent
            <6>1. /\ up[k] = 0 /\ down[k] = 0 /\ received[k] = 0 /\ greeted[k] = 0
              BY <5>1 DEF Accounted
            <6>2. InFlight(k) = 0 /\ Load(greeted[k]) = 0  BY <1>5, <6>1 DEF InFlight
            <6> QED  BY <6>1, <6>2, OptionsAssumption
          <5>2. CASE phase[k] = "greeting"
            BY <5>2, Owed DEF Talking
          <5> QED  BY <1>1, <5>1, <5>2
        <4>2. InFlight(k)' = InFlight(k) + m /\ greeted'[k] = greeted[k] + 1
          BY <1>1, <2>1 DEF InFlight
        <4>3. phase'[k] \in Talking /\ phase'[k] \notin Silent
          BY <1>2, <1>6 DEF Talking, Silent
        <4>4. InFlight(k) \in Nat  BY DEF InFlight
        <4> QED  BY <1>1, <1>5, <3>1, <4>1, <4>2, <4>3, <4>4 DEF Accounted
      <3>2. CASE j # k
        BY <1>1, <1>2, <2>1, <3>2 DEF Accounted, InFlight
      <3> QED  BY <3>1, <3>2
    <2>4. ConnectInOrder'
      BY <1>1, <1>2 DEF ConnectInOrder, K, Silent
    <2> QED  BY <2>2, <2>3, <2>4
  <1>7. CASE p \in {"shaking", "over"} /\ phase[k] \in Silent /\ up' = up /\ greeted' = greeted
    <2>1. TypeOK'
      BY <1>1, <1>2, <1>7 DEF Phases, Silent
    <2>2. ASSUME NEW j \in K PROVE Accounted(j)'
      BY <1>1, <1>2, <1>7 DEF Accounted, InFlight, Silent, Talking
    <2>3. ConnectInOrder'
      BY <1>1, <1>2 DEF ConnectInOrder, K, Silent
    <2> QED  BY <2>1, <2>2, <2>3
  <1> QED  BY <1>3, <1>6, <1>7

\* A client that writes a part of its buffer again is a runaway, and only adds bytes.
LEMMA AgainStep ==
    ASSUME EchoInv, NEW k \in K, WriteAgain(k)
    PROVE  EchoInv'
  <1> USE DEF EchoInv, TypeOK
  <1>1. /\ UNCHANGED <<mode, main, phase, asked, greeted, received, down, session, server,
                       console, broken>>
        /\ runaway' = runaway \cup {k} /\ phase[k] = "ready"
    BY DEF WriteAgain
  <1>2. PICK n \in Nat : up' = [up EXCEPT ![k] = @ + n]
    <2>1. InFlight(k) \in Nat  BY DEF InFlight
    <2>2. PICK n \in 1 .. MaxBytes - InFlight(k) : up' = [up EXCEPT ![k] = @ + n]
      BY DEF WriteAgain
    <2>3. n \in Nat  BY <2>1, <2>2, WritesAssumption
    <2> QED  BY <2>2, <2>3
  <1>3. TypeOK'
    BY <1>1, <1>2
  <1>4. ASSUME NEW j \in K PROVE Accounted(j)'
    <2>1. CASE j = k
      <3>1. InFlight(k) >= Load(greeted[k]) /\ received[k] < Size
        <4>1. phase[k] \in Talking  BY <1>1 DEF Talking
        <4> QED  BY <4>1, Owed
      <3>2. InFlight(k)' = InFlight(k) + n /\ InFlight(k) \in Nat
        BY <1>1, <1>2 DEF InFlight
      <3>3. Load(greeted[k]) \in Nat  BY LoadGrows
      <3> QED  BY <1>1, <2>1, <3>1, <3>2, <3>3 DEF Accounted, Silent
    <2>2. CASE j # k
      BY <1>1, <1>2, <2>2 DEF Accounted, InFlight
    <2> QED  BY <2>1, <2>2
  <1> QED  BY <1>1, <1>3, <1>4 DEF ConnectInOrder

\* Bytes that move from one buffer of a client to the next are still there.
LEMMA MoveStep ==
    ASSUME EchoInv, NEW k \in K, Receive(k) \/ EchoBytes(k)
    PROVE  EchoInv'
  <1> USE DEF EchoInv, TypeOK
  <1>1. UNCHANGED <<mode, main, phase, asked, greeted, runaway, session, server, console,
                    broken>>
    BY DEF Receive, ReceiveWith, EchoBytes
  <1>3. CASE EchoBytes(k)
    <2>1. PICK n \in 1 .. up[k] : /\ up' = [up EXCEPT ![k] = @ - n]
                                  /\ down' = [down EXCEPT ![k] = @ + n]
      BY <1>3 DEF EchoBytes
    <2>2. received' = received  BY <1>3 DEF EchoBytes
    <2>3. up[k] - n \in Nat /\ down[k] + n \in Nat /\ up[k] # 0
      BY <2>1
    <2>4. TypeOK'
      BY <1>1, <2>1, <2>2, <2>3
    <2>5. ASSUME NEW j \in K PROVE Accounted(j)'
      <3>1. CASE j = k
        BY <1>1, <2>1, <2>2, <2>3, <3>1 DEF Accounted, InFlight
      <3>2. CASE j # k
        BY <1>1, <2>1, <2>2, <3>2 DEF Accounted, InFlight
      <3> QED  BY <3>1, <3>2
    <2> QED  BY <1>1, <2>4, <2>5 DEF ConnectInOrder
  <1>4. CASE Receive(k)
    <2>1. PICK n \in 1 .. down[k] :
             LET whole == (received[k] + n) \div Size
             IN /\ down' = [down EXCEPT ![k] = @ - n]
                /\ received' = [received EXCEPT ![k] = @ + n - whole * Size]
                /\ up' = [up EXCEPT ![k] = @ + whole * Size]
      BY <1>4 DEF Receive, ReceiveWith
    <2>2. phase[k] = "ready"  BY <1>4 DEF Receive, ReceiveWith
    <2> DEFINE taken == ((received[k] + n) \div Size) * Size
    <2>3. taken \in Nat /\ taken <= received[k] + n /\ received[k] + n < taken + Size
      <3>1. received[k] + n \in Nat  OBVIOUS
      <3>2. Size \in Nat \ {0}  BY OptionsAssumption
      <3>3. ASSUME NEW x \in Nat, x = received[k] + n
            PROVE  /\ (x \div Size) * Size \in Nat
                   /\ (x \div Size) * Size <= x
                   /\ x < (x \div Size) * Size + Size
        BY <3>2, WholeMessages
      <3> QED  BY <3>1, <3>3
    <2>4. /\ down' = [down EXCEPT ![k] = @ - n]
          /\ received' = [received EXCEPT ![k] = @ + n - taken]
          /\ up' = [up EXCEPT ![k] = @ + taken]
      BY <2>1
    <2> HIDE DEF taken
    <2>5. /\ down[k] - n \in Nat
          /\ received[k] + n - taken \in Nat /\ received[k] + n - taken < Size
          /\ up[k] + taken \in Nat
          /\ (up[k] + taken) + (down[k] - n) + (received[k] + n - taken) = InFlight(k)
      BY <2>3, OptionsAssumption DEF InFlight
    <2>6. TypeOK'
      BY <1>1, <2>4, <2>5
    <2>7. ASSUME NEW j \in K PROVE Accounted(j)'
      <3>1. CASE j = k
        <4>1. InFlight(k)' = InFlight(k) /\ received'[k] < Size
          BY <2>4, <2>5 DEF InFlight
        <4> QED  BY <1>1, <2>2, <3>1, <4>1 DEF Accounted, Silent
      <3>2. CASE j # k
        BY <1>1, <2>4, <3>2 DEF Accounted, InFlight
      <3> QED  BY <3>1, <3>2
    <2> QED  BY <1>1, <2>6, <2>7 DEF ConnectInOrder
  <1> QED  BY <1>3, <1>4

LEMMA EchoStutter == EchoInv /\ UNCHANGED vars => EchoInv'
  BY DEF vars, data, EchoInv, TypeOK, ConnectInOrder, Accounted, InFlight

-----------------------------------------------------------------------------
(* The theorem *)

\* Through every step of the two programs and of the network, and with the client's
\* repeated writes, no byte of a client's greetings is lost between the two
\* directions and _received; without repeated writes none is made; and the loop of
\* EchoClient::onReceive leaves less than one message behind.
THEOREM BytesCirculate == Spec => []Circulates
  <1>1. EchoInv /\ [Next]_vars => EchoInv'
    <2> SUFFICES ASSUME EchoInv, [Next]_vars PROVE EchoInv'
      OBVIOUS
    <2>1. CASE Main  BY <2>1, MainStep
    <2>2. CASE Start \/ Line
      <3>1. 1 \in K  BY OptionsAssumption DEF K
      <3> QED  BY <2>2, <3>1, QuietStep
    <2>3. ASSUME NEW k \in K,
                 Handlers(k) \/ Receive(k) \/ WriteAgain(k) \/ EchoBytes(k) \/ Drop(k)
          PROVE  EchoInv'
      BY <2>3, QuietStep, GreetStep, AgainStep, MoveStep DEF Handlers
    <2>4. CASE UNCHANGED vars  BY <2>4, EchoStutter
    <2> QED  BY <2>1, <2>2, <2>3, <2>4 DEF Next
  <1>2. EchoInv => Circulates
    <2> SUFFICES ASSUME EchoInv, NEW k \in K, phase[k] \in Talking, session[k] # "closed"
                 PROVE  /\ InFlight(k) >= Load(greeted[k])
                        /\ k \notin runaway => InFlight(k) = Load(greeted[k])
                        /\ received[k] < Size
      BY DEF Circulates, Load, Talking
    <2> QED  BY Owed
  <1> QED  BY <1>1, <1>2, EchoInit, PTL DEF Spec

=============================================================================
