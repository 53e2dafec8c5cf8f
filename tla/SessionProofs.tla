---------------------------- MODULE SessionProofs ----------------------------
(***************************************************************************)
(* The session's safety for every list of mechanisms, every limit the two  *)
(* sides may propose, every rate and every period of the ticks.            *)
(*                                                                         *)
(* The invariant has four parts.  TypeInv types the methods in flight too. *)
(* PhaseInv says that client and broker are in lockstep: for each phase of *)
(* the broker, what is on its way, and what was agreed by then.  FirstInv  *)
(* says what the first call of connect can have reached.  TimeInv relates  *)
(* the ages that heartbeat_tick keeps to the time since the last frame.    *)
(***************************************************************************)
EXTENDS Session, SequenceTheorems, WellFoundedInduction, TLAPS

TuneType == [channel_max : Nat, frame_max : Nat, heartbeat : Nat]
NameType == {"none", "Start", "Secure", "Tune", "OpenOk", "Close", "StartOk", "TuneOk",
             "Open", "CloseOk"}
MethodType == [name : NameType, mechanisms : SUBSET Mechanisms, tune : TuneType]

TypeInv ==
  /\ HandshakeTypeOK
  /\ inbox \in Seq(MethodType)
  /\ outbox \in Seq(MethodType)
  /\ agreed \in [mechanisms : SUBSET Mechanisms, mechanism : Mechanisms \cup {"none"},
                 offer : TuneType, tune : TuneType]

(* The methods of the handshake, as they are on their way.                 *)
StartSays(ms)  == [Method("Start") EXCEPT !.mechanisms = ms]
StartAnswer(m) == [Method("StartOk") EXCEPT !.mechanisms = {m}]
TuneSays(t)    == [Method("Tune") EXCEPT !.tune = t]
TuneAnswer(t)  == [Method("TuneOk") EXCEPT !.tune = t]

(* What on_tune makes of an offer.                                         *)
Within(a, limit) == limit = 0 \/ a <= limit
Agrees(t, offer) ==
  /\ Within(t.frame_max, offer.frame_max)
  /\ Within(t.channel_max, offer.channel_max)
  /\ Within(t.heartbeat, offer.heartbeat)
  /\ t.heartbeat <= ClientTune.heartbeat
  /\ (t.heartbeat = 0) <=> (ClientTune.heartbeat = 0)

Reached == transport = "up" /\ ~collected
Chosen  == agreed.mechanism \in agreed.mechanisms

AtStart ==
  /\ transport = "up"
  /\ \/ inbox = <<StartSays(agreed.mechanisms)>> /\ outbox = << >>
     \/ inbox = << >> /\ outbox = << >>
     \/ inbox = << >> /\ ~collected /\ \E m \in agreed.mechanisms : outbox = <<StartAnswer(m)>>

AtSecure ==
  Reached /\ outbox = << >> /\ (inbox = << >> \/ inbox = <<Method("Secure")>>)

AtTune ==
  /\ Reached /\ Chosen
  /\ \/ inbox = <<TuneSays(agreed.offer)>> /\ outbox = << >>
     \/ /\ inbox = << >> /\ outbox = <<TuneAnswer(tune), Method("Open")>>
        /\ Agrees(tune, agreed.offer)

AtOpen ==
  /\ Reached /\ Chosen
  /\ inbox = << >> /\ outbox = <<Method("Open")>>
  /\ Agrees(tune, agreed.offer) /\ agreed.tune = tune

AtOpened ==
  /\ Reached /\ Chosen
  /\ inbox = << >> \/ inbox = <<Method("OpenOk")>>
  /\ outbox = << >>
  /\ Agrees(tune, agreed.offer) /\ agreed.tune = tune

AtClose ==
  \/ Reached /\ inbox = <<Method("Close")>> /\ outbox = << >>
  \/ transport # "up" /\ inbox = << >> /\ outbox = <<Method("CloseOk")>>

PhaseInv ==
  /\ phase = "none" => transport # "up"
  /\ phase = "StartOk" => AtStart
  /\ phase = "SecureOk" => AtSecure
  /\ phase = "TuneOk" => AtTune
  /\ phase = "Open" => AtOpen
  /\ phase = "opened" => AtOpened
  /\ phase = "CloseOk" => AtClose
  /\ phase = "closed" => transport # "up" \/ inbox = << >>

Settled == phase \in {"opened", "closed"} /\ (transport = "up" => inbox = << >>)

FirstInv ==
  /\ connects = 0 => transport = "none" /\ ~handshake_complete /\ outcome = "none"
  /\ handshake_complete /\ connects = 1 => Settled
  /\ outcome = "returned" /\ connects = 1 => handshake_complete

(* The ages: zero before and after a session, and bounded in it.           *)
Zeroed ==
  /\ sent = TRUE /\ received = TRUE /\ forced = FALSE
  /\ last_heartbeat_sent = 0 /\ last_heartbeat_received = 0
  /\ ticked = 0 /\ write_age = 0 /\ read_age = 0

InSession == transport = "up" /\ handshake_complete /\ Settled

WriteInv(i) ==
  /\ sent => write_age <= ticked
  /\ ~sent => /\ rate * (last_heartbeat_sent - ticked) <= i
              /\ write_age <= last_heartbeat_sent + Period

ReadInv(i) ==
  /\ received => read_age <= ticked
  /\ ~received => /\ last_heartbeat_received <= read_age
                  /\ read_age <= last_heartbeat_received + Period
                  /\ ~forced => last_heartbeat_received - ticked <= 2 * i
  /\ forced => read_age > 2 * i

AgesInv(i) == ticked <= Period /\ WriteInv(i) /\ ReadInv(i)

TimeInv == HeartbeatTypeOK /\ AgesInv(h) /\ (Zeroed \/ InSession)

-----------------------------------------------------------------------------
(* Sequences of one and of two methods.                                    *)
LEMMA One ==
  \A x : /\ <<x>> # << >> /\ Head(<<x>>) = x /\ Tail(<<x>>) = << >>
         /\ Append(<< >>, x) = <<x>>
OBVIOUS

\* Head and Tail on sequences of two elements.
LEMMA Two ==
  \A x, y : /\ <<x, y>> # << >> /\ Head(<<x, y>>) = x /\ Tail(<<x, y>>) = <<y>>
            /\ << >> \o <<x, y>> = <<x, y>>
OBVIOUS

\* The fields of the methods of the handshake.
LEMMA MethodNames ==
  ASSUME NEW name, NEW ms, NEW t
  PROVE  /\ Method(name).name = name /\ Method(name).mechanisms = {} /\ Method(name).tune = NoTune
         /\ StartSays(ms).name = "Start" /\ StartSays(ms).mechanisms = ms
         /\ StartAnswer(ms).name = "StartOk" /\ StartAnswer(ms).mechanisms = {ms}
         /\ TuneSays(t).name = "Tune" /\ TuneSays(t).tune = t
         /\ TuneAnswer(t).name = "TuneOk" /\ TuneAnswer(t).tune = t
BY DEF Method, NoMethod, StartSays, StartAnswer, TuneSays, TuneAnswer

\* The methods of the handshake are of MethodType.
LEMMA MethodTypes ==
  /\ \A name \in NameType : Method(name) \in MethodType
  /\ \A ms \in SUBSET Mechanisms : StartSays(ms) \in MethodType
  /\ \A m \in Mechanisms : StartAnswer(m) \in MethodType
  /\ \A t \in TuneType : TuneSays(t) \in MethodType /\ TuneAnswer(t) \in MethodType
BY DEF Method, NoMethod, NoTune, StartSays, StartAnswer, TuneSays, TuneAnswer, MethodType,
       NameType, TuneType

(* What _on_tune chooses is a limit, and keeps to the offer.               *)
LEMMA HeartbeatAgrees ==
  ASSUME NEW s \in Nat, NEW c \in Nat
  PROVE  /\ Heartbeat(s, c) \in Nat
         /\ Within(Heartbeat(s, c), s)
         /\ Heartbeat(s, c) <= c
         /\ (Heartbeat(s, c) = 0) <=> (c = 0)
BY DEF Heartbeat, Within

\* What _on_tune computes from an offer agrees with the offer.
LEMMA TunedAgrees ==
  ASSUME tune \in TuneType, NEW offer \in TuneType
  PROVE  Tuned(offer) \in TuneType /\ Agrees(Tuned(offer), offer)
<1>1. ClientTune.heartbeat \in Nat
  BY HandshakeAssumption DEF TuneType
<1>2. /\ offer.heartbeat \in Nat /\ offer.frame_max \in Nat /\ offer.channel_max \in Nat
      /\ tune.frame_max \in Nat /\ tune.channel_max \in Nat
  BY DEF TuneType
<1> DEFINE b == Heartbeat(offer.heartbeat, ClientTune.heartbeat)
<1>3. /\ b \in Nat /\ Within(b, offer.heartbeat) /\ b <= ClientTune.heartbeat
      /\ (b = 0) <=> (ClientTune.heartbeat = 0)
  BY <1>1, <1>2, HeartbeatAgrees
<1>4. /\ Tuned(offer).heartbeat = b
      /\ Tuned(offer).frame_max = Or(offer.frame_max, tune.frame_max)
      /\ Tuned(offer).channel_max = Or(offer.channel_max, tune.channel_max)
  BY DEF Tuned
<1> HIDE DEF b
<1>5. \A x, y \in Nat : Or(x, y) \in Nat /\ Within(Or(x, y), x)
  BY DEF Or, Within
<1>6. Agrees(Tuned(offer), offer)
  BY <1>2, <1>3, <1>4, <1>5, Zenon DEF Agrees
<1>7. Tuned(offer) = [channel_max |-> Tuned(offer).channel_max,
                      frame_max |-> Tuned(offer).frame_max,
                      heartbeat |-> Tuned(offer).heartbeat]
  BY DEF Tuned
<1>8. Tuned(offer) \in TuneType
  BY <1>2, <1>3, <1>4, <1>5, <1>7 DEF TuneType
<1> QED BY <1>6, <1>8

(* The first mechanism of the client's list that can be used.              *)
First(usable) == CHOOSE i \in usable : \A j \in usable : i <= j

\* The mechanism _on_start chooses is one the broker offered.
LEMMA FirstIsUsable ==
  ASSUME NEW ms, Usable(ms) # {}
  PROVE  /\ First(Usable(ms)) \in DOMAIN Authentication
         /\ Authentication[First(Usable(ms))].mechanism \in ms
         /\ Authentication[First(Usable(ms))].mechanism \in Mechanisms
<1> DEFINE U == Usable(ms)
           R == OpToRel(<, Nat)
<1>1. U \subseteq Nat
  BY HandshakeAssumption DEF Usable
<1>2. PICK x \in U : \A y \in U : ~ (<<y, x>> \in R)
  BY <1>1, NatLessThanWellFounded, WFMin
<1>3. \A y \in U : x <= y
  <2> SUFFICES ASSUME NEW y \in U PROVE x <= y
    OBVIOUS
  <2>1. x \in Nat /\ y \in Nat
    BY <1>1
  <2>2. <<y, x>> \in Nat \X Nat /\ <<y, x>>[1] = y /\ <<y, x>>[2] = x
    BY <2>1
  <2>3. ~ (y < x)
    BY <1>2, <2>2, Zenon DEF OpToRel
  <2> QED BY <2>1, <2>3
<1> HIDE DEF U
<1>4. First(U) \in U
  BY <1>3, Zenon DEF First
<1>5. Authentication \in Seq([mechanism : Mechanisms, ready : BOOLEAN])
  BY HandshakeAssumption, Zenon
<1>6. \A i \in DOMAIN Authentication : Authentication[i].mechanism \in Mechanisms
  <2>1. \A S : \A q \in Seq(S) : \A i \in DOMAIN q : q[i] \in S
    OBVIOUS
  <2>2. \A i \in DOMAIN Authentication : Authentication[i] \in [mechanism : Mechanisms, ready : BOOLEAN]
    BY <1>5, <2>1, Zenon
  <2> QED BY <2>2
<1>7. First(U) \in DOMAIN Authentication /\ Authentication[First(U)].mechanism \in ms
  BY <1>4, Zenon DEF Usable, U
<1> QED BY <1>6, <1>7, Zenon DEF U

-----------------------------------------------------------------------------
HandInv == TypeInv /\ PhaseInv /\ FirstInv

\* Sequences of at most two methods are sequences of methods.
LEMMA BoxTypes ==
  /\ << >> \in Seq(MethodType)
  /\ \A m \in MethodType : <<m>> \in Seq(MethodType)
  /\ \A m, k \in MethodType : <<m, k>> \in Seq(MethodType)
OBVIOUS

\* HandInv holds at the start.
LEMMA HandInvInit == Init => HandInv
<1> SUFFICES ASSUME Init PROVE HandInv
  OBVIOUS
<1> USE DEF Init, HandshakeInit
<1>1. tune \in TuneType
  BY HandshakeAssumption DEF TuneType
<1>2. connect_timeout \in BOOLEAN
  BY HandshakeAssumption
<1>3. HandshakeTypeOK
  <2>1. MaxConnects \in Nat
    BY HandshakeAssumption
  <2>2. connects \in 0 .. MaxConnects
    BY <2>1
  <2> QED BY <1>1, <1>2, <2>2 DEF HandshakeTypeOK, TuneType, Outcomes, Phases
<1>4. TypeInv
  BY <1>3, BoxTypes DEF TypeInv, TuneType, NoTune
<1>5. PhaseInv /\ FirstInv
  BY DEF PhaseInv, FirstInv, Settled
<1> QED BY <1>4, <1>5 DEF HandInv

(* What can be read, and in which phase.                                   *)
LEMMA InboundPhase ==
  ASSUME HandInv, transport = "up", inbox # << >>
  PROVE  /\ outbox = << >>
         /\ \/ phase = "StartOk" /\ inbox = <<StartSays(agreed.mechanisms)>>
            \/ phase = "SecureOk" /\ ~collected /\ inbox = <<Method("Secure")>>
            \/ phase = "TuneOk" /\ ~collected /\ inbox = <<TuneSays(agreed.offer)>> /\ Chosen
            \/ phase = "opened" /\ ~collected /\ inbox = <<Method("OpenOk")>>
            \/ phase = "CloseOk" /\ ~collected /\ inbox = <<Method("Close")>>
<1> phase \in Phases
  BY DEF HandInv, TypeInv, HandshakeTypeOK
<1> QED BY DEF HandInv, PhaseInv, AtStart, AtSecure, AtTune, AtOpen, AtOpened, AtClose, Reached,
               Phases

(* A name tells the phase.                                                 *)
LEMMA InboundNamed ==
  ASSUME HandInv, transport = "up", inbox # << >>, NEW name, Head(inbox).name = name
  PROVE  /\ outbox = << >> /\ Tail(inbox) = << >>
         /\ name = "Start" => phase = "StartOk" /\ Head(inbox).mechanisms = agreed.mechanisms
         /\ name = "Secure" => phase = "SecureOk"
         /\ name = "Tune" => phase = "TuneOk" /\ Head(inbox).tune = agreed.offer /\ Chosen
         /\ name = "OpenOk" => phase = "opened"
         /\ name = "Close" => phase = "CloseOk"
<1>1. CASE phase = "StartOk" /\ inbox = <<StartSays(agreed.mechanisms)>>
  <2>1. Head(inbox) = StartSays(agreed.mechanisms) /\ Tail(inbox) = << >> /\ name = "Start"
    BY <1>1, One, MethodNames
  <2> QED BY <2>1, <1>1, InboundPhase, MethodNames
<1>2. CASE phase = "SecureOk" /\ inbox = <<Method("Secure")>>
  <2>1. Tail(inbox) = << >> /\ name = "Secure"
    BY <1>2, One, MethodNames
  <2> QED BY <2>1, <1>2, InboundPhase
<1>3. CASE phase = "TuneOk" /\ inbox = <<TuneSays(agreed.offer)>> /\ Chosen
  <2>1. Head(inbox) = TuneSays(agreed.offer) /\ Tail(inbox) = << >> /\ name = "Tune"
    BY <1>3, One, MethodNames
  <2> QED BY <2>1, <1>3, InboundPhase, MethodNames
<1>4. CASE phase = "opened" /\ inbox = <<Method("OpenOk")>>
  <2>1. Tail(inbox) = << >> /\ name = "OpenOk"
    BY <1>4, One, MethodNames
  <2> QED BY <2>1, <1>4, InboundPhase
<1>5. CASE phase = "CloseOk" /\ inbox = <<Method("Close")>>
  <2>1. Tail(inbox) = << >> /\ name = "Close"
    BY <1>5, One, MethodNames
  <2> QED BY <2>1, <1>5, InboundPhase
<1> QED BY <1>1, <1>2, <1>3, <1>4, <1>5, InboundPhase, Zenon

(* The broker reads what its phase waits for.                              *)
LEMMA OutboundNamed ==
  ASSUME HandInv, NEW name, NEW next, Reads(name, next)
  PROVE  /\ phase = name
         /\ name = "StartOk" =>
              /\ transport = "up" /\ ~collected /\ inbox = << >> /\ Tail(outbox) = << >>
              /\ \E m \in agreed.mechanisms : Head(outbox).mechanisms = {m}
         /\ name = "TuneOk" =>
              /\ transport = "up" /\ ~collected /\ inbox = << >> /\ Chosen
              /\ Tail(outbox) = <<Method("Open")>> /\ Head(outbox).tune = tune
              /\ Agrees(tune, agreed.offer)
         /\ name = "Open" =>
              /\ transport = "up" /\ ~collected /\ inbox = << >> /\ Chosen
              /\ Tail(outbox) = << >>
              /\ Agrees(tune, agreed.offer) /\ agreed.tune = tune
         /\ name = "CloseOk" => transport # "up" /\ inbox = << >> /\ Tail(outbox) = << >>
<1>1. phase = name /\ outbox # << >>
  BY DEF Reads
<1>2. ASSUME name = "StartOk"
      PROVE  /\ transport = "up" /\ ~collected /\ inbox = << >> /\ Tail(outbox) = << >>
             /\ \E m \in agreed.mechanisms : Head(outbox).mechanisms = {m}
  <2>1. /\ transport = "up" /\ ~collected /\ inbox = << >>
        /\ \E m \in agreed.mechanisms : outbox = <<StartAnswer(m)>>
    BY <1>1, <1>2 DEF HandInv, PhaseInv, AtStart
  <2> QED BY <2>1, One, MethodNames
<1>3. ASSUME name = "TuneOk"
      PROVE  /\ transport = "up" /\ ~collected /\ inbox = << >> /\ Chosen
             /\ Tail(outbox) = <<Method("Open")>> /\ Head(outbox).tune = tune
             /\ Agrees(tune, agreed.offer)
  <2>1. /\ transport = "up" /\ ~collected /\ inbox = << >> /\ Chosen
        /\ outbox = <<TuneAnswer(tune), Method("Open")>> /\ Agrees(tune, agreed.offer)
    BY <1>1, <1>3 DEF HandInv, PhaseInv, AtTune, Reached
  <2> QED BY <2>1, Two, MethodNames
<1>4. ASSUME name = "Open"
      PROVE  /\ transport = "up" /\ ~collected /\ inbox = << >> /\ Chosen
             /\ Tail(outbox) = << >>
             /\ Agrees(tune, agreed.offer) /\ agreed.tune = tune
  BY <1>1, <1>4, One DEF HandInv, PhaseInv, AtOpen, Reached
<1>5. ASSUME name = "CloseOk"
      PROVE  transport # "up" /\ inbox = << >> /\ Tail(outbox) = << >>
  BY <1>1, <1>5, One DEF HandInv, PhaseInv, AtClose, Reached
<1> QED BY <1>1, <1>2, <1>3, <1>4, <1>5, Zenon

-----------------------------------------------------------------------------
(* The calls of the application.                                           *)
LEMMA StepConnectReturns == HandInv /\ ConnectReturns => HandInv'
<1> SUFFICES ASSUME HandInv, ConnectReturns PROVE HandInv'
  OBVIOUS
<1> USE DEF ConnectReturns, brokerVars
<1>1. connects \in Nat /\ connects # 0 /\ MaxConnects \in Nat /\ connects <= MaxConnects
  BY HandshakeAssumption DEF HandInv, FirstInv, TypeInv, HandshakeTypeOK
<1>2. TypeInv'
  BY <1>1 DEF HandInv, TypeInv, HandshakeTypeOK, Outcomes
<1>3. PhaseInv'
  BY DEF HandInv, PhaseInv, AtStart, AtSecure, AtTune, AtOpen, AtOpened, AtClose, Reached, Chosen
<1>4. FirstInv'
  BY <1>1 DEF FirstInv
<1> QED BY <1>2, <1>3, <1>4 DEF HandInv

\* connect() that fails before or in the handshake keeps HandInv.
LEMMA StepConnectFails == HandInv /\ ConnectFails => HandInv'
<1> SUFFICES ASSUME HandInv, ConnectFails PROVE HandInv'
  OBVIOUS
<1> USE DEF ConnectFails
<1>1. connects \in Nat /\ MaxConnects \in Nat /\ connects <= MaxConnects
  BY HandshakeAssumption DEF HandInv, TypeInv, HandshakeTypeOK
<1>2. TypeInv'
  BY <1>1, BoxTypes DEF HandInv, TypeInv, HandshakeTypeOK, Outcomes, Phases
<1>3. PhaseInv'
  BY DEF PhaseInv
<1>4. FirstInv'
  BY <1>1 DEF HandInv, FirstInv
<1> QED BY <1>2, <1>3, <1>4 DEF HandInv

\* connect() keeps HandInv: it drops what the last attempt left.
LEMMA StepConnect == HandInv /\ connect => HandInv'
<1> SUFFICES ASSUME HandInv, connect PROVE HandInv'
  OBVIOUS
<1>1. connects \in Nat /\ MaxConnects \in Nat /\ connects <= MaxConnects
  BY HandshakeAssumption DEF HandInv, TypeInv, HandshakeTypeOK
<1>2. PICK ms \in SUBSET Mechanisms :
        /\ inbox' = <<StartSays(ms)>>
        /\ agreed' = [agreed EXCEPT !.mechanisms = ms, !.mechanism = "none"]
  BY Zenon DEF connect, StartSays
<1>3. /\ ~connecting /\ connects < MaxConnects /\ transport # "up"
      /\ connects' = connects + 1 /\ transport' = "up"
      /\ connecting' = ~handshake_complete
      /\ outcome' = IF handshake_complete THEN "returned" ELSE "none"
      /\ outbox' = << >> /\ phase' = "StartOk"
      /\ UNCHANGED <<collected, handshake_complete, tune, connect_timeout>>
  BY DEF connect
<1>4. HandshakeTypeOK'
  BY <1>1, <1>3 DEF HandInv, TypeInv, HandshakeTypeOK, Outcomes, Phases
<1>5. (inbox \in Seq(MethodType) /\ outbox \in Seq(MethodType))'
  BY <1>2, <1>3, BoxTypes, MethodTypes
<1>6. /\ agreed' \in [mechanisms : SUBSET Mechanisms, mechanism : Mechanisms \cup {"none"},
                      offer : TuneType, tune : TuneType]
      /\ agreed'.mechanisms = ms
  BY <1>2 DEF HandInv, TypeInv
<1>7. TypeInv'
  BY <1>4, <1>5, <1>6 DEF TypeInv
<1>8. PhaseInv'
  BY <1>2, <1>3, <1>6 DEF PhaseInv, AtStart
<1>9. FirstInv'
  BY <1>1, <1>3 DEF HandInv, FirstInv
<1> QED BY <1>7, <1>8, <1>9 DEF HandInv

\* close() keeps HandInv.
LEMMA StepClose == HandInv /\ close => HandInv'
<1> SUFFICES ASSUME HandInv, close PROVE HandInv'
  OBVIOUS
<1> USE DEF close, collect
<1>1. TypeInv'
  BY DEF HandInv, TypeInv, HandshakeTypeOK, Phases
<1>2. PhaseInv'
  BY DEF PhaseInv
<1>3. FirstInv'
  BY DEF HandInv, FirstInv, Settled
<1> QED BY <1>1, <1>2, <1>3 DEF HandInv

-----------------------------------------------------------------------------
(* Reading: nothing comes, or a method does.                               *)
LEMMA StepReadEnds == HandInv /\ (ReadTimesOut \/ ReadFails) => HandInv'
<1> SUFFICES ASSUME HandInv, ReadTimesOut \/ ReadFails PROVE HandInv'
  OBVIOUS
<1> USE DEF ReadTimesOut, ReadFails, Raises, collect, brokerVars
<1>1. transport = "up" /\ transport' \in {"none", "down"} /\ phase' = "closed" /\ ~connecting'
  BY DEF HandInv, TypeInv, HandshakeTypeOK
<1>2. outcome' \in Outcomes /\ outcome' # "returned" /\ collected' \in BOOLEAN
  BY DEF HandInv, TypeInv, HandshakeTypeOK, Outcomes
<1>3. UNCHANGED <<handshake_complete, tune, connect_timeout, connects, inbox, outbox, agreed>>
  OBVIOUS
<1>4. TypeInv'
  BY <1>1, <1>2, <1>3 DEF HandInv, TypeInv, HandshakeTypeOK, Phases
<1>5. PhaseInv'
  BY <1>1 DEF PhaseInv
<1>6. FirstInv'
  BY <1>1, <1>2, <1>3 DEF HandInv, FirstInv, Settled
<1> QED BY <1>4, <1>5, <1>6 DEF HandInv

\* A method read after collect() keeps HandInv.
LEMMA StepInboundOnCollected == HandInv /\ InboundOnCollected => HandInv'
<1> SUFFICES ASSUME HandInv, InboundOnCollected PROVE HandInv'
  OBVIOUS
<1> USE DEF InboundOnCollected, Raises, brokerVars
<1>1. phase = "StartOk" /\ inbox = <<StartSays(agreed.mechanisms)>> /\ outbox = << >>
  BY InboundPhase
<1>2. inbox' = << >>
  BY <1>1, One
<1>3. TypeInv'
  BY <1>2, BoxTypes DEF HandInv, TypeInv, HandshakeTypeOK, Outcomes
<1>4. PhaseInv'
  BY <1>1, <1>2 DEF PhaseInv, AtStart
<1>5. FirstInv'
  BY <1>1 DEF HandInv, FirstInv, Settled
<1> QED BY <1>3, <1>4, <1>5 DEF HandInv

\* _on_start keeps HandInv: StartOk names a mechanism offered, or connect() fails.
LEMMA StepOnStart == HandInv /\ on_start => HandInv'
<1> SUFFICES ASSUME HandInv, on_start PROVE HandInv'
  OBVIOUS
<1>1. /\ transport = "up" /\ ~collected /\ inbox # << >> /\ Head(inbox).name = "Start"
      /\ inbox' = Tail(inbox)
      /\ UNCHANGED <<transport, collected, handshake_complete, tune, connect_timeout, connects,
                     phase, agreed>>
  BY DEF on_start, Inbound, brokerVars
<1>2. /\ outbox = << >> /\ inbox' = << >> /\ phase = "StartOk"
      /\ Head(inbox).mechanisms = agreed.mechanisms
  BY <1>1, InboundNamed
<1>3. agreed.mechanisms \subseteq Mechanisms
  BY DEF HandInv, TypeInv
<1>4. \/ /\ UNCHANGED <<connecting, outcome>>
         /\ \E m \in agreed.mechanisms : outbox' = <<StartAnswer(m)>>
      \/ /\ outcome' = "ConnectionError" /\ connecting' = FALSE
         /\ outbox' = << >>
  <2> DEFINE U == Usable(agreed.mechanisms)
  <2>1. CASE U # {} /\ UNCHANGED <<connecting, outcome>>
              /\ send_method(StartAnswer(Authentication[First(U)].mechanism))
    <3>1. Authentication[First(U)].mechanism \in agreed.mechanisms
      BY <2>1, FirstIsUsable
    <3>2. outbox' = <<StartAnswer(Authentication[First(U)].mechanism)>>
      BY <2>1, <1>2, One DEF send_method
    <3> QED BY <2>1, <3>1, <3>2
  <2>2. CASE Raises("ConnectionError") /\ UNCHANGED outbox
    BY <2>2, <1>2 DEF Raises
  <2> QED BY <2>1, <2>2, <1>2, Zenon DEF on_start, First, StartAnswer
<1>5. TypeInv'
  <2>1. (inbox \in Seq(MethodType) /\ outbox \in Seq(MethodType))'
    BY <1>2, <1>3, <1>4, BoxTypes, MethodTypes
  <2> QED BY <2>1, <1>1, <1>4 DEF HandInv, TypeInv, HandshakeTypeOK, Outcomes
<1>6. PhaseInv'
  BY <1>1, <1>2, <1>4 DEF PhaseInv, AtStart
<1>7. FirstInv'
  BY <1>1, <1>2, <1>4 DEF HandInv, FirstInv, Settled
<1> QED BY <1>5, <1>6, <1>7 DEF HandInv

\* _on_secure keeps HandInv.
LEMMA StepOnSecure == HandInv /\ on_secure => HandInv'
<1> SUFFICES ASSUME HandInv, on_secure PROVE HandInv'
  OBVIOUS
<1> USE DEF on_secure, Inbound, brokerVars
<1>1. outbox = << >> /\ inbox' = << >> /\ phase = "SecureOk"
  BY InboundNamed
<1>2. TypeInv'
  BY <1>1, BoxTypes DEF HandInv, TypeInv, HandshakeTypeOK
<1>3. PhaseInv'
  BY <1>1 DEF PhaseInv, AtSecure, Reached
<1>4. FirstInv'
  BY <1>1 DEF HandInv, FirstInv, Settled
<1> QED BY <1>2, <1>3, <1>4 DEF HandInv

\* _on_tune keeps HandInv: TuneOk carries what the client now holds.
LEMMA StepOnTune == HandInv /\ on_tune => HandInv'
<1> SUFFICES ASSUME HandInv, on_tune PROVE HandInv'
  OBVIOUS
<1>1. /\ transport = "up" /\ ~collected /\ inbox # << >> /\ Head(inbox).name = "Tune"
      /\ inbox' = Tail(inbox) /\ tune' = Tuned(Head(inbox).tune)
      /\ outbox' = outbox \o <<TuneAnswer(tune'), Method("Open")>>
      /\ UNCHANGED <<transport, collected, handshake_complete, connect_timeout, connects,
                     connecting, outcome, phase, agreed>>
  BY DEF on_tune, Inbound, brokerVars, TuneAnswer
<1>2. /\ outbox = << >> /\ inbox' = << >> /\ phase = "TuneOk" /\ Chosen
      /\ tune' = Tuned(agreed.offer)
  BY <1>1, InboundNamed
<1>3. outbox' = <<TuneAnswer(tune'), Method("Open")>>
  BY <1>1, <1>2, Two
<1>4. tune \in TuneType /\ agreed.offer \in TuneType
  BY DEF HandInv, TypeInv, HandshakeTypeOK, TuneType
<1>5. tune' \in TuneType /\ Agrees(tune', agreed.offer)
  BY <1>2, <1>4, TunedAgrees
<1>6. TypeInv'
  <2>1. (inbox \in Seq(MethodType) /\ outbox \in Seq(MethodType))'
    <3>1. TuneAnswer(tune') \in MethodType /\ Method("Open") \in MethodType
      BY <1>5, MethodTypes DEF NameType
    <3> QED BY <3>1, <1>2, <1>3, BoxTypes
  <2> QED BY <2>1, <1>1, <1>5 DEF HandInv, TypeInv, HandshakeTypeOK, TuneType
<1>7. PhaseInv'
  <2>1. AtTune'
    BY <1>1, <1>2, <1>3, <1>5, Zenon DEF AtTune, Reached, Chosen, Agrees
  <2> QED BY <2>1, <1>1, <1>2 DEF PhaseInv
<1>8. FirstInv'
  BY <1>1, <1>2 DEF HandInv, FirstInv, Settled
<1> QED BY <1>6, <1>7, <1>8 DEF HandInv

\* _on_open_ok keeps HandInv: the broker has opened.
LEMMA StepOnOpenOk == HandInv /\ on_open_ok => HandInv'
<1> SUFFICES ASSUME HandInv, on_open_ok PROVE HandInv'
  OBVIOUS
<1> USE DEF on_open_ok, Inbound, brokerVars
<1>1. outbox = << >> /\ inbox' = << >> /\ phase = "opened"
  BY InboundNamed
<1>2. TypeInv'
  BY <1>1, BoxTypes DEF HandInv, TypeInv, HandshakeTypeOK, Outcomes
<1>3. PhaseInv'
  <2>1. AtOpened'
    BY <1>1 DEF HandInv, PhaseInv, AtOpened, Reached, Chosen
  <2> QED BY <2>1, <1>1 DEF PhaseInv
<1>4. FirstInv'
  BY <1>1 DEF HandInv, FirstInv, Settled
<1> QED BY <1>2, <1>3, <1>4 DEF HandInv

\* _on_close keeps HandInv.
LEMMA StepOnClose == HandInv /\ on_close => HandInv'
<1> SUFFICES ASSUME HandInv, on_close PROVE HandInv'
  OBVIOUS
<1> USE DEF on_close, Inbound, brokerVars, Raises, collect, send_method
<1>1. outbox = << >> /\ inbox' = << >> /\ phase = "CloseOk"
  BY InboundNamed
<1>2. outbox' = <<Method("CloseOk")>>
  BY <1>1, One
<1>3. TypeInv'
  <2>1. (inbox \in Seq(MethodType) /\ outbox \in Seq(MethodType))'
    BY <1>1, <1>2, BoxTypes, MethodTypes DEF NameType
  <2> QED BY <2>1 DEF HandInv, TypeInv, HandshakeTypeOK, Outcomes
<1>4. PhaseInv'
  <2>1. AtClose'
    BY <1>1, <1>2 DEF AtClose
  <2> QED BY <2>1, <1>1 DEF PhaseInv
<1>5. FirstInv'
  BY <1>1 DEF HandInv, FirstInv, Settled
<1> QED BY <1>3, <1>4, <1>5 DEF HandInv

-----------------------------------------------------------------------------
(* The broker.                                                             *)
LEMMA StepBrokerStarts == HandInv /\ BrokerStarts => HandInv'
<1> SUFFICES ASSUME HandInv, BrokerStarts PROVE HandInv'
  OBVIOUS
<1> DEFINE m == CHOOSE x \in Head(outbox).mechanisms : TRUE
<1>1. PICK next \in {"TuneOk", "SecureOk", "CloseOk"} :
        /\ Reads("StartOk", next)
        /\ \/ next = "TuneOk" /\ BrokerTunes(m)
           \/ next = "SecureOk" /\ Says(Method("Secure")) /\ UNCHANGED agreed
           \/ next = "CloseOk" /\ Says(Method("Close")) /\ UNCHANGED agreed
  BY DEF BrokerStarts
<1>2. /\ phase = "StartOk" /\ transport = "up" /\ ~collected
      /\ inbox = << >> /\ outbox' = << >> /\ phase' = next
      /\ UNCHANGED <<transport, collected, handshake_complete, tune, connect_timeout,
                     connecting, outcome, connects>>
      /\ \E k \in agreed.mechanisms : Head(outbox).mechanisms = {k}
  BY <1>1, OutboundNamed DEF Reads, clientVars
<1>3. m \in agreed.mechanisms
  BY <1>2
<1> HIDE DEF m
<1>4. FirstInv'
  BY <1>2 DEF HandInv, FirstInv, Settled
<1>5. HandshakeTypeOK'
  BY <1>1, <1>2 DEF HandInv, TypeInv, HandshakeTypeOK, Phases
<1>6. CASE next = "TuneOk"
  <2>1. PICK t \in ServerTunes :
          /\ inbox' = <<TuneSays(t)>>
          /\ agreed' = [agreed EXCEPT !.mechanism = m, !.offer = t]
    BY <1>1, <1>2, <1>6, One DEF BrokerTunes, Says, TuneSays
  <2>2. t \in TuneType
    BY <2>1, HandshakeAssumption DEF TuneType
  <2>3. TypeInv'
    <3>1. (inbox \in Seq(MethodType) /\ outbox \in Seq(MethodType))'
      BY <1>2, <2>1, <2>2, BoxTypes, MethodTypes
    <3> QED BY <1>3, <1>5, <2>1, <2>2, <3>1 DEF HandInv, TypeInv
  <2>4. AtTune'
    <3>1. /\ agreed'.mechanism = m /\ agreed'.offer = t
          /\ agreed'.mechanisms = agreed.mechanisms
      BY <2>1 DEF HandInv, TypeInv
    <3> QED BY <3>1, <1>2, <1>3, <2>1 DEF AtTune, Reached, Chosen
  <2>5. PhaseInv'
    BY <2>4, <1>2, <1>6 DEF PhaseInv
  <2> QED BY <2>3, <2>5, <1>4 DEF HandInv
<1>7. CASE next # "TuneOk"
  <2>1. PICK name \in {"Secure", "Close"} :
          /\ inbox' = <<Method(name)>> /\ UNCHANGED agreed
          /\ (name = "Secure") <=> (next = "SecureOk")
    BY <1>1, <1>2, <1>7, One DEF Says
  <2>2. TypeInv'
    <3>1. (inbox \in Seq(MethodType) /\ outbox \in Seq(MethodType))'
      BY <1>2, <2>1, BoxTypes, MethodTypes DEF NameType
    <3> QED BY <1>5, <2>1, <3>1 DEF HandInv, TypeInv
  <2>3. PhaseInv'
    BY <1>1, <1>2, <1>7, <2>1 DEF PhaseInv, AtSecure, AtClose, Reached
  <2> QED BY <2>2, <2>3, <1>4 DEF HandInv
<1> QED BY <1>6, <1>7

\* The broker reading TuneOk keeps HandInv: it takes the values of the client.
LEMMA StepBrokerTuned == HandInv /\ BrokerTuned => HandInv'
<1> SUFFICES ASSUME HandInv, BrokerTuned PROVE HandInv'
  OBVIOUS
<1>1. /\ phase = "TuneOk" /\ transport = "up" /\ ~collected /\ inbox = << >> /\ Chosen
      /\ outbox' = <<Method("Open")>> /\ phase' = "Open" /\ Agrees(tune, agreed.offer)
      /\ agreed' = [agreed EXCEPT !.tune = tune]
      /\ UNCHANGED <<transport, collected, handshake_complete, tune, connect_timeout,
                     connecting, outcome, connects, inbox>>
  BY OutboundNamed DEF BrokerTuned, Reads, clientVars
<1>2. TypeInv'
  <2>1. outbox' \in Seq(MethodType)
    BY <1>1, BoxTypes, MethodTypes DEF NameType
  <2>2. tune \in TuneType
    BY DEF HandInv, TypeInv, HandshakeTypeOK, TuneType
  <2> QED BY <1>1, <2>1, <2>2 DEF HandInv, TypeInv, HandshakeTypeOK, Phases
<1>3. /\ agreed'.tune = tune /\ agreed'.offer = agreed.offer
      /\ agreed'.mechanism = agreed.mechanism /\ agreed'.mechanisms = agreed.mechanisms
  BY <1>1 DEF HandInv, TypeInv
<1>4. AtOpen'
  BY <1>1, <1>3, Zenon DEF AtOpen, Reached, Chosen, Agrees
<1>5. PhaseInv'
  BY <1>1, <1>4 DEF PhaseInv
<1>6. FirstInv'
  BY <1>1 DEF HandInv, FirstInv, Settled
<1> QED BY <1>2, <1>5, <1>6 DEF HandInv

\* The broker reading Open keeps HandInv.
LEMMA StepBrokerOpens == HandInv /\ BrokerOpens => HandInv'
<1> SUFFICES ASSUME HandInv, BrokerOpens PROVE HandInv'
  OBVIOUS
<1>1. /\ phase = "Open" /\ transport = "up" /\ ~collected /\ inbox = << >> /\ Chosen
      /\ outbox' = << >> /\ Agrees(tune, agreed.offer) /\ agreed.tune = tune
      /\ UNCHANGED <<transport, collected, handshake_complete, tune, connect_timeout,
                     connecting, outcome, connects, agreed>>
  BY OutboundNamed DEF BrokerOpens, Reads, clientVars
<1>2. \/ phase' = "opened" /\ inbox' = <<Method("OpenOk")>>
      \/ phase' = "CloseOk" /\ inbox' = <<Method("Close")>>
  BY <1>1, One DEF BrokerOpens, Reads, Says
<1>3. TypeInv'
  <2>1. (inbox \in Seq(MethodType) /\ outbox \in Seq(MethodType))'
    BY <1>1, <1>2, BoxTypes, MethodTypes DEF NameType
  <2> QED BY <1>1, <1>2, <2>1 DEF HandInv, TypeInv, HandshakeTypeOK, Phases
<1>4. PhaseInv'
  <2>1. CASE phase' = "opened" /\ inbox' = <<Method("OpenOk")>>
    <3>1. AtOpened'
      BY <1>1, <2>1, Zenon DEF AtOpened, Reached, Chosen, Agrees
    <3> QED BY <2>1, <3>1 DEF PhaseInv
  <2>2. CASE phase' = "CloseOk" /\ inbox' = <<Method("Close")>>
    BY <1>1, <2>2 DEF PhaseInv, AtClose, Reached
  <2> QED BY <1>2, <2>1, <2>2
<1>5. FirstInv'
  BY <1>1 DEF HandInv, FirstInv, Settled
<1> QED BY <1>3, <1>4, <1>5 DEF HandInv

\* The broker refusing the session keeps HandInv.
LEMMA StepBrokerCloses == HandInv /\ BrokerCloses => HandInv'
<1> SUFFICES ASSUME HandInv, BrokerCloses PROVE HandInv'
  OBVIOUS
<1>1. /\ phase = "CloseOk" /\ transport # "up" /\ inbox = << >>
      /\ outbox' = << >> /\ phase' = "closed"
      /\ UNCHANGED <<transport, collected, handshake_complete, tune, connect_timeout,
                     connecting, outcome, connects, agreed, inbox>>
  BY OutboundNamed DEF BrokerCloses, Reads, clientVars
<1>2. TypeInv'
  BY <1>1, BoxTypes DEF HandInv, TypeInv, HandshakeTypeOK, Phases
<1>3. PhaseInv' /\ FirstInv'
  BY <1>1 DEF HandInv, PhaseInv, FirstInv, Settled
<1> QED BY <1>2, <1>3 DEF HandInv

\* The broker dropping the connection keeps HandInv.
LEMMA StepBrokerVanishes == HandInv /\ BrokerVanishes => HandInv'
<1> SUFFICES ASSUME HandInv, BrokerVanishes PROVE HandInv'
  OBVIOUS
<1> USE DEF BrokerVanishes, clientVars
<1>1. TypeInv'
  BY BoxTypes DEF HandInv, TypeInv, HandshakeTypeOK, Phases
<1>2. PhaseInv' /\ FirstInv'
  BY DEF HandInv, PhaseInv, FirstInv, Settled
<1> QED BY <1>1, <1>2 DEF HandInv

\* A step that leaves the handshake alone keeps HandInv.
LEMMA HandInvStutters == HandInv /\ UNCHANGED handshakeVars => HandInv'
<1> SUFFICES ASSUME HandInv, UNCHANGED handshakeVars PROVE HandInv'
  OBVIOUS
<1> USE DEF handshakeVars
<1>1. TypeInv'
  BY DEF HandInv, TypeInv, HandshakeTypeOK
<1>2. PhaseInv'
  BY DEF HandInv, PhaseInv, AtStart, AtSecure, AtTune, AtOpen, AtOpened, AtClose, Reached, Chosen
<1>3. FirstInv'
  BY DEF HandInv, FirstInv, Settled
<1> QED BY <1>1, <1>2, <1>3 DEF HandInv

\* Every step keeps HandInv.
LEMMA HandInvNext == HandInv /\ [Next]_vars => HandInv'
<1>1. HandInv /\ LibraryStep => HandInv'
  BY StepReadEnds, StepInboundOnCollected, StepOnStart, StepOnSecure, StepOnTune, StepOnOpenOk,
     StepOnClose, Zenon DEF LibraryStep, HandshakeLibrary
<1>2. HandInv /\ BrokerStep => HandInv'
  BY StepBrokerStarts, StepBrokerTuned, StepBrokerOpens, StepBrokerCloses, StepBrokerVanishes,
     Zenon DEF BrokerStep, BrokerReads
<1>3. HandInv /\ AppStep => HandInv'
  BY StepConnectReturns, StepConnectFails, StepConnect, StepClose, Zenon DEF AppStep, HandshakeApp
<1>4. HandInv /\ LiveStep => HandInv'
  BY HandInvStutters, Zenon DEF LiveStep
<1>5. HandInv /\ UNCHANGED vars => HandInv'
  BY HandInvStutters, Zenon DEF vars
<1> QED BY <1>1, <1>2, <1>3, <1>4, <1>5, Zenon DEF Next

-----------------------------------------------------------------------------
(* Time.  The rate is at least one.                                        *)
LEMMA RateIsPositive == rate \in Nat /\ rate >= 1
BY HeartbeatAssumption DEF rate

\* The counters of a new session satisfy AgesInv.
LEMMA ZeroedAges ==
  ASSUME Zeroed, NEW i \in Nat
  PROVE  HeartbeatTypeOK /\ AgesInv(i)
<1>1. sent /\ received /\ ~forced
  BY Zenon DEF Zeroed
<1>2. HeartbeatTypeOK
  BY DEF Zeroed, HeartbeatTypeOK
<1>3. AgesInv(i)
  BY <1>1, HeartbeatAssumption DEF Zeroed, AgesInv, WriteInv, ReadInv
<1> QED BY <1>2, <1>3

(* In an open session nothing of the handshake is left to be read, so that *)
(* no step but the end of the session changes what was agreed.             *)
LEMMA SessionStays ==
  ASSUME HandInv, InSession, LibraryStep \/ BrokerStep \/ AppStep, transport' = "up"
  PROVE  InSession' /\ tune' = tune
<1>1. transport = "up" /\ handshake_complete /\ phase \in {"opened", "closed"} /\ inbox = << >>
  BY DEF InSession, Settled
<1>2. CASE LibraryStep
  BY <1>1, <1>2 DEF LibraryStep, HandshakeLibrary, ReadFails, ReadTimesOut, InboundOnCollected,
                    on_start, on_secure, on_tune, on_open_ok, on_close, Inbound, collect, Raises
<1>3. CASE BrokerStep
  <2>1. BrokerVanishes
    BY <1>1, <1>3 DEF BrokerStep, BrokerReads, BrokerStarts, BrokerTuned, BrokerOpens, BrokerCloses,
                      Reads
  <2> QED BY <1>1, <2>1 DEF BrokerVanishes, clientVars, InSession, Settled
<1>4. CASE AppStep
  <2>1. ConnectReturns
    BY <1>1, <1>4 DEF AppStep, HandshakeApp, ConnectFails, connect, close, collect
  <2> QED BY <1>1, <2>1 DEF ConnectReturns, brokerVars, InSession, Settled
<1> QED BY <1>2, <1>3, <1>4
\* A step that resets the heartbeat counters gives TimeInv.
LEMMA StepForgotten ==
  ASSUME HeartbeatForgotten
  PROVE  TimeInv'
<1>1. Zeroed'
  BY DEF HeartbeatForgotten, Zeroed
<1>3. sent' /\ received' /\ ~forced'
  BY Zenon DEF HeartbeatForgotten
<1>4. HeartbeatTypeOK'
  BY DEF HeartbeatForgotten, HeartbeatTypeOK
<1>5. AgesInv(h)'
  <2>1. (ticked <= Period /\ write_age <= ticked /\ read_age <= ticked)'
    BY HeartbeatAssumption DEF HeartbeatForgotten
  <2> QED BY <1>3, <2>1, Zenon DEF AgesInv, WriteInv, ReadInv
<1> QED BY <1>1, <1>4, <1>5 DEF TimeInv

\* A step outside the heartbeat keeps TimeInv: an open session keeps its interval.
LEMMA StepUnmeasured ==
  ASSUME HandInv, TimeInv, LibraryStep \/ BrokerStep \/ AppStep,
         UNCHANGED heartbeatVars, transport' = "up" \/ BrokerStep
  PROVE  TimeInv'
<1>1. HeartbeatTypeOK'
  BY DEF TimeInv, HeartbeatTypeOK, heartbeatVars
<1>2. CASE Zeroed
  <2>1. Zeroed'
    BY <1>2 DEF Zeroed, heartbeatVars
  <2>3. sent' /\ received' /\ ~forced'
    BY <2>1, Zenon DEF Zeroed
  <2>4. AgesInv(h)'
    <3>1. (ticked <= Period /\ write_age <= ticked /\ read_age <= ticked)'
      BY <2>1, HeartbeatAssumption DEF Zeroed
    <3> QED BY <2>3, <3>1, Zenon DEF AgesInv, WriteInv, ReadInv
  <2> QED BY <1>1, <2>1, <2>4 DEF TimeInv
<1>3. CASE InSession
  <2>1. transport' = "up"
    BY <1>3 DEF BrokerStep, BrokerReads, BrokerStarts, BrokerTuned, BrokerOpens, BrokerCloses,
                Reads, BrokerVanishes, clientVars, InSession
  <2>2. InSession' /\ tune' = tune
    BY <1>3, <2>1, SessionStays
  <2>3. h' = h
    BY <2>2 DEF h
  <2>4. AgesInv(h)'
    BY <2>3 DEF TimeInv, AgesInv, WriteInv, ReadInv, heartbeatVars
  <2> QED BY <1>1, <2>2, <2>4 DEF TimeInv
<1> QED BY <1>2, <1>3 DEF TimeInv

(* A step of the open session keeps the bounds on the ages.                *)
LEMMA StepPasses ==
  ASSUME HeartbeatTypeOK, NEW i \in Nat, AgesInv(i), Passes
  PROVE  HeartbeatTypeOK' /\ ticked' <= Period /\ WriteInv(i)' /\ ReadInv(i)'
<1>1. /\ ticked' \in Nat /\ ticked' <= Period /\ write_age' \in Nat /\ read_age' \in Nat
      /\ last_heartbeat_sent' \in Nat /\ last_heartbeat_received' \in Nat
  BY HeartbeatAssumption DEF Passes, HeartbeatTypeOK
<1>2. HeartbeatTypeOK'
  BY <1>1 DEF Passes, HeartbeatTypeOK
<1>3. last_heartbeat_sent' - ticked' = last_heartbeat_sent - ticked
  BY DEF Passes, HeartbeatTypeOK
<1>4. WriteInv(i)'
  <2>1. sent => write_age' <= ticked'
    BY DEF Passes, HeartbeatTypeOK, AgesInv, WriteInv
  <2>2. ~sent => write_age' <= last_heartbeat_sent' + Period
    BY HeartbeatAssumption DEF Passes, HeartbeatTypeOK, AgesInv, WriteInv
  <2> QED BY <1>3, <2>1, <2>2 DEF Passes, AgesInv, WriteInv
<1>5. ReadInv(i)'
  BY HeartbeatAssumption DEF Passes, HeartbeatTypeOK, AgesInv, ReadInv
<1> QED BY <1>1, <1>2, <1>4, <1>5

\* A frame written or read keeps AgesInv.
LEMMA StepFrames ==
  ASSUME HeartbeatTypeOK, NEW i \in Nat, AgesInv(i), ~forced, FrameWritten \/ FrameRead
  PROVE  HeartbeatTypeOK' /\ ticked' <= Period /\ WriteInv(i)' /\ ReadInv(i)'
<1>1. CASE FrameWritten
  <2>1. sent'
    BY <1>1, Zenon DEF FrameWritten
  <2> QED BY <1>1, <2>1 DEF FrameWritten, HeartbeatTypeOK, AgesInv, WriteInv, ReadInv
<1>2. CASE FrameRead
  <2>1. received'
    BY <1>2, Zenon DEF FrameRead
  <2> QED BY <1>2, <2>1 DEF FrameRead, HeartbeatTypeOK, AgesInv, WriteInv, ReadInv
<1> QED BY <1>1, <1>2

\* heartbeat_tick keeps AgesInv: it sends and raises when it has to.
LEMMA StepTick ==
  ASSUME HeartbeatTypeOK, NEW i \in Nat, AgesInv(i), ~forced, heartbeat_tick(i)
  PROVE  HeartbeatTypeOK' /\ ticked' <= Period /\ WriteInv(i)' /\ ReadInv(i)'
<1>0. /\ ticked \in Nat /\ write_age \in Nat /\ read_age \in Nat /\ ticked <= Period
      /\ last_heartbeat_sent \in Nat /\ last_heartbeat_received \in Nat /\ Period \in Nat
  BY HeartbeatAssumption DEF HeartbeatTypeOK, AgesInv
<1>1. /\ SentAge \in Nat /\ ReceivedAge \in Nat
      /\ write_age <= SentAge + Period
      /\ ReceivedAge <= read_age /\ read_age <= ReceivedAge + Period
  BY <1>0 DEF AgesInv, WriteInv, ReadInv, SentAge, ReceivedAge
<1>2. ticked' = 0 /\ ~received' /\ last_heartbeat_received' = ReceivedAge /\ read_age' = read_age
  BY Zenon DEF heartbeat_tick
<1>3. received' \in BOOLEAN /\ sent' \in BOOLEAN /\ forced' \in BOOLEAN
  <2>1. Due(i) \in BOOLEAN /\ Missed(i) \in BOOLEAN
    BY DEF Due, Missed
  <2> QED BY <2>1, Zenon DEF heartbeat_tick
<1>4. sent' <=> Due(i)
  BY Zenon DEF heartbeat_tick
<1>5. forced' <=> Missed(i)
  BY Zenon DEF heartbeat_tick
<1>6. /\ Due(i) => last_heartbeat_sent' = 0 /\ write_age' = 0
      /\ ~Due(i) => last_heartbeat_sent' = SentAge /\ write_age' = write_age
  BY Zenon DEF heartbeat_tick
<1>7. HeartbeatTypeOK'
  BY <1>0, <1>1, <1>2, <1>3, <1>6 DEF HeartbeatTypeOK
<1>8. WriteInv(i)'
  <2>1. CASE Due(i)
    BY <2>1, <1>2, <1>4, <1>6 DEF WriteInv
  <2>2. CASE ~Due(i)
    <3>1. rate * SentAge <= i
      <4>1. rate * SentAge \in Nat
        BY <1>1, RateIsPositive
      <4> QED BY <4>1, <2>2 DEF Due
    <3>2. last_heartbeat_sent' - ticked' = SentAge
      BY <1>1, <1>2, <1>6, <2>2
    <3>3. write_age' <= last_heartbeat_sent' + Period
      BY <1>1, <1>6, <2>2
    <3> QED BY <3>1, <3>2, <3>3, <1>4, <2>2 DEF WriteInv
  <2> QED BY <2>1, <2>2
<1>9. ReadInv(i)'
  BY <1>0, <1>1, <1>2, <1>5 DEF ReadInv, Missed
<1> QED BY <1>0, <1>2, <1>7, <1>8, <1>9

\* A step of an open session keeps TimeInv.
LEMMA StepLive ==
  ASSUME HandInv, TimeInv, LiveStep
  PROVE  TimeInv'
<1>1. Live /\ h \in Nat /\ h' = h
  BY DEF LiveStep, h, handshakeVars, HandInv, TypeInv, HandshakeTypeOK
<1>2. InSession
  BY <1>1 DEF Live, HandInv, FirstInv, InSession
<1>3. InSession'
  BY <1>2 DEF LiveStep, handshakeVars, InSession, Settled
<1>4. HeartbeatTypeOK /\ AgesInv(h) /\ ~forced
  BY <1>1, Zenon DEF Live, TimeInv
<1>5. Passes \/ FrameWritten \/ FrameRead \/ heartbeat_tick(h)
  BY Zenon DEF LiveStep
<1>6. /\ HeartbeatTypeOK' /\ ticked' <= Period
      /\ \E i \in Nat : i = h /\ WriteInv(i)' /\ ReadInv(i)'
  <2>1. PICK i \in Nat : i = h
    BY <1>1
  <2>2. AgesInv(i)
    BY <2>1, <1>4
  <2>3. heartbeat_tick(h) => heartbeat_tick(i)
    BY <2>1
  <2> QED BY <1>4, <1>5, <2>1, <2>2, <2>3, StepPasses, StepFrames, StepTick, Zenon
<1>7. AgesInv(h)'
  BY <1>1, <1>6 DEF AgesInv, WriteInv, ReadInv
<1> QED BY <1>3, <1>6, <1>7 DEF TimeInv

\* Every step keeps TimeInv.
LEMMA TimeInvNext == HandInv /\ TimeInv /\ [Next]_vars => TimeInv'
<1> SUFFICES ASSUME HandInv, TimeInv, [Next]_vars PROVE TimeInv'
  OBVIOUS
<1>1. CASE LibraryStep \/ AppStep
  <2>1. CASE transport' = "up"
    BY <1>1, <2>1, StepUnmeasured, Zenon DEF LibraryStep, AppStep, Forgets
  <2>2. CASE transport' # "up"
    BY <1>1, <2>2, StepForgotten, Zenon DEF LibraryStep, AppStep, Forgets
  <2> QED BY <2>1, <2>2
<1>2. CASE BrokerStep
  BY <1>2, StepUnmeasured, Zenon DEF BrokerStep
<1>3. CASE LiveStep
  BY <1>3, StepLive
<1>4. CASE UNCHANGED vars
  <2>1. h' = h
    BY <1>4 DEF vars, handshakeVars, h
  <2>2. HeartbeatTypeOK' /\ (Zeroed' \/ InSession')
    BY <1>4 DEF TimeInv, vars, handshakeVars, heartbeatVars, HeartbeatTypeOK, Zeroed, InSession,
                Settled
  <2>3. AgesInv(h)'
    BY <1>4, <2>1 DEF TimeInv, vars, heartbeatVars, AgesInv, WriteInv, ReadInv
  <2> QED BY <2>2, <2>3 DEF TimeInv
<1> QED BY <1>1, <1>2, <1>3, <1>4, Zenon DEF Next

\* TimeInv holds at the start.
LEMMA TimeInvInit == Init => TimeInv
<1> SUFFICES ASSUME Init PROVE TimeInv
  OBVIOUS
<1>1. Zeroed
  BY DEF Init, HeartbeatInit, Zeroed
<1>2. h \in Nat
  BY HandInvInit DEF HandInv, TypeInv, HandshakeTypeOK, h
<1> QED BY <1>1, <1>2, ZeroedAges DEF TimeInv

-----------------------------------------------------------------------------
(* The four parts together are an invariant of the session.                *)
THEOREM SessionInvariant == Spec => [](HandInv /\ TimeInv)
<1>1. Init => HandInv /\ TimeInv
  BY HandInvInit, TimeInvInit
<1>2. HandInv /\ TimeInv /\ [Next]_vars => (HandInv /\ TimeInv)'
  BY HandInvNext, TimeInvNext
<1> QED BY <1>1, <1>2, PTL DEF Spec

(* Every variable of the session keeps its type.                           *)
THEOREM SessionTypeCorrect == Spec => []TypeOK
<1>1. HandInv /\ TimeInv => TypeOK
  BY DEF HandInv, TypeInv, TimeInv, TypeOK
<1> QED BY <1>1, SessionInvariant, PTL

(* The first connect() returns only when the broker has opened the session *)
(* (connect, _on_open_ok).                                                 *)
THEOREM FirstConnectAlwaysOpens == Spec => []FirstConnectOpens
<1>1. HandInv => FirstConnectOpens
  BY DEF HandInv, FirstInv, Settled, FirstConnectOpens
<1> QED BY <1>1, SessionInvariant, PTL

(* Client and broker hold the same limits, channel_max and frame_max not   *)
(* above the broker's offer (they may be above what the client asked for), *)
(* heartbeat not above what either wants and absent when the client wants  *)
(* none, and a mechanism that the broker offered (_on_start, _on_tune),    *)
(* whatever the lists and the limits are.                                  *)
THEOREM SessionAlwaysAgrees == Spec => []SessionAgrees
<1>1. HandInv => SessionAgrees
  BY DEF HandInv, PhaseInv, AtOpened, Chosen, Agrees, Within, SessionAgrees
<1> QED BY <1>1, SessionInvariant, PTL

(* After collect() no later connect() opens a session (on_inbound_method   *)
(* raises while channels is None).                                         *)
THEOREM CollectedAlwaysStaysClosed == Spec => []CollectedStaysClosed
<1>1. HandInv => CollectedStaysClosed
  BY DEF HandInv, TypeInv, HandshakeTypeOK, Phases, PhaseInv, AtStart, AtSecure, AtTune, AtOpen,
         AtOpened, Reached, CollectedStaysClosed
<1> QED BY <1>1, SessionInvariant, PTL

(* heartbeat_tick, called at least every Period, lets no more than         *)
(* h / rate and two periods pass without a frame, for every rate, interval *)
(* and period.                                                             *)
THEOREM GapAlwaysBounded == Spec => []GapBounded
<1>1. ASSUME HandInv, TimeInv, Live
      PROVE  rate * write_age <= h + 2 * rate * Period
  <2>1. /\ h \in Nat /\ write_age \in Nat /\ ticked \in Nat /\ last_heartbeat_sent \in Nat
        /\ Period \in Nat /\ ticked <= Period
    BY <1>1, HeartbeatAssumption
       DEF h, HandInv, TypeInv, HandshakeTypeOK, TimeInv, AgesInv, HeartbeatTypeOK
  <2>2. \A a, b \in Nat : a <= b => rate * a <= rate * b
    BY RateIsPositive
  <2>3. rate * Period \in Nat /\ 2 * rate * Period = rate * Period + rate * Period
    BY <2>1, RateIsPositive
  <2>4. CASE sent
    <3>1. write_age <= Period
      BY <1>1, <2>1, <2>4 DEF TimeInv, AgesInv, WriteInv
    <3>2. rate * write_age \in Nat /\ rate * write_age <= rate * Period
      BY <3>1, <2>1, <2>2, RateIsPositive
    <3> QED BY <3>2, <2>1, <2>3
  <2>5. CASE ~sent
    <3> DEFINE d == last_heartbeat_sent - ticked
    <3>1. rate * d <= h /\ write_age <= last_heartbeat_sent + Period
      BY <1>1, <2>5 DEF TimeInv, AgesInv, WriteInv
    <3>2. d \in Int /\ write_age <= d + 2 * Period
      BY <3>1, <2>1
    <3> HIDE DEF d
    <3>3. rate * write_age <= rate * (d + 2 * Period)
      <4>1. d + 2 * Period \in Nat
        BY <3>2, <2>1
      <4> QED BY <4>1, <3>2, <2>1, <2>2
    <3>4. rate * (d + 2 * Period) = rate * d + 2 * rate * Period
      BY <3>2, <2>1, RateIsPositive
    <3>5. rate * d \in Int /\ rate * write_age \in Int /\ 2 * rate * Period \in Int
      BY <3>2, <2>1, RateIsPositive
    <3> QED BY <3>1, <3>3, <3>4, <3>5, <2>1
  <2> QED BY <2>4, <2>5
<1>2. HandInv /\ TimeInv => GapBounded
  BY <1>1 DEF GapBounded
<1> QED BY <1>2, SessionInvariant, PTL

(* ConnectionForced is raised only after two silent intervals,             *)
THEOREM NeverFalseAlarm == Spec => []NoFalseAlarm
<1>1. TimeInv => NoFalseAlarm
  BY DEF TimeInv, AgesInv, ReadInv, NoFalseAlarm
<1> QED BY <1>1, SessionInvariant, PTL

(* and no later than two periods after them.                               *)
THEOREM SilenceAlwaysSeen == Spec => []SilenceSeen
<1>1. ASSUME HandInv, TimeInv, Live
      PROVE  read_age <= 2 * h + 2 * Period
  <2>1. /\ h \in Nat /\ read_age \in Nat /\ ticked \in Nat /\ last_heartbeat_received \in Nat
        /\ Period \in Nat /\ ticked <= Period /\ ~forced
    BY <1>1, HeartbeatAssumption
       DEF h, HandInv, TypeInv, HandshakeTypeOK, TimeInv, AgesInv, HeartbeatTypeOK, Live
  <2> QED BY <1>1, <2>1 DEF TimeInv, AgesInv, ReadInv
<1>2. HandInv /\ TimeInv => SilenceSeen
  BY <1>1 DEF SilenceSeen
<1> QED BY <1>2, SessionInvariant, PTL
=============================================================================
