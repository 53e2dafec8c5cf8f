------------------------------ MODULE Handshake ------------------------------
(***************************************************************************)
(* Opening a connection: connect, the methods of the handshake and collect *)
(* of amqp/connection.py, start of the mechanisms of amqp/sasl.py, and     *)
(* connect of amqp/transport.py.  The broker, external, offers mechanisms  *)
(* and limits, and may challenge, refuse or vanish.  A method of the       *)
(* handshake is handled by whichever call reads it: connect, or            *)
(* drain_events called by the application afterwards.                      *)
(***************************************************************************)
EXTENDS Integers, Sequences

CONSTANTS
  Authentication,    \* sequence of [mechanism, ready]: ready is FALSE when
                     \* start returns NotImplemented
  Mechanisms,        \* the mechanisms a broker may offer
  ClientTune,        \* channel_max, frame_max and heartbeat of the client
  ServerTunes,       \* what the broker may propose; 0 is "no limit"
  ConnectTimeouts,   \* subset of BOOLEAN: is connect_timeout set?
  MaxConnects        \* bound on the calls of connect

ASSUME HandshakeAssumption ==
  LET Tune == [channel_max : Nat, frame_max : Nat, heartbeat : Nat] IN
  /\ ClientTune \in Tune /\ ServerTunes \subseteq Tune
  /\ Authentication \in Seq([mechanism : Mechanisms, ready : BOOLEAN])
  /\ ConnectTimeouts \subseteq BOOLEAN
  /\ MaxConnects \in Nat

VARIABLES
  transport,           \* _transport: "none", "up" or, after an error, "down"
  collected,           \* has collect() been run? (channels is None)
  handshake_complete,  \* _handshake_complete
  tune,                \* channel_max, frame_max, heartbeat
  connect_timeout,     \* is connect_timeout set?
  connecting,          \* is connect() running?
  outcome,             \* how the last connect() or drain_events() has ended
  connects,            \* number of calls of connect
  inbox,               \* methods from the broker, in order
  outbox,              \* methods from the client, in order
  phase,               \* the broker: what it waits for
  agreed               \* what the broker holds of the session

handshakeVars == <<transport, collected, handshake_complete, tune, connect_timeout,
                   connecting, outcome, connects, inbox, outbox, phase, agreed>>

Phases == {"none", "StartOk", "SecureOk", "TuneOk", "Open", "CloseOk", "opened", "closed"}
Outcomes == {"none", "returned", "OSError", "timeout", "ConnectionError",
             "RecoverableConnectionError"}

NoTune   == [channel_max |-> 0, frame_max |-> 0, heartbeat |-> 0]
NoMethod == [name |-> "none", mechanisms |-> {}, tune |-> NoTune]
Method(name) == [NoMethod EXCEPT !.name = name]

HandshakeTypeOK ==
  /\ transport \in {"none", "up", "down"}
  /\ collected \in BOOLEAN /\ handshake_complete \in BOOLEAN /\ connecting \in BOOLEAN
  /\ tune \in [channel_max : Nat, frame_max : Nat, heartbeat : Nat]
  /\ connect_timeout \in BOOLEAN
  /\ outcome \in Outcomes
  /\ connects \in 0 .. MaxConnects
  /\ phase \in Phases
  /\ connecting => transport = "up"

HandshakeInit ==
  /\ transport = "none" /\ collected = FALSE /\ handshake_complete = FALSE
  /\ tune = [ClientTune EXCEPT !.heartbeat = 0]
  /\ connect_timeout \in ConnectTimeouts
  /\ connecting = FALSE /\ outcome = "none" /\ connects = 0
  /\ inbox = <<>> /\ outbox = <<>> /\ phase = "none"
  /\ agreed = [mechanisms |-> {}, mechanism |-> "none",
                 offer |-> NoTune, tune |-> NoTune]

brokerVars == <<phase, agreed>>

-----------------------------------------------------------------------------
(* connect(): on a connection that has a transport it returns at once.     *)
ConnectReturns ==
  /\ ~connecting /\ connects < MaxConnects
  /\ transport = "up"
  /\ connects' = connects + 1
  /\ outcome' = "returned"
  /\ UNCHANGED <<transport, collected, handshake_complete, tune, connect_timeout,
                 connecting, inbox, outbox, brokerVars>>

(* Else a transport is made, and tries every address; if none answers, the *)
(* connection is collected.                                                *)
ConnectFails ==
  /\ ~connecting /\ connects < MaxConnects
  /\ transport # "up"
  /\ connects' = connects + 1
  /\ transport' = "none" /\ collected' = TRUE
  /\ outcome' = "OSError"
  /\ inbox' = <<>> /\ outbox' = <<>> /\ phase' = "none"
  /\ UNCHANGED <<handshake_complete, tune, connect_timeout, connecting, agreed>>

(* With a transport, the protocol header is out and the broker begins;     *)
(* connect drains events until _handshake_complete, which may be so still. *)
connect ==
  /\ ~connecting /\ connects < MaxConnects
  /\ transport # "up"
  /\ connects' = connects + 1
  /\ transport' = "up"
  /\ connecting' = ~handshake_complete
  /\ outcome' = IF handshake_complete THEN "returned" ELSE "none"
  /\ \E ms \in SUBSET Mechanisms :
       /\ inbox' = <<[Method("Start") EXCEPT !.mechanisms = ms]>>
       /\ agreed' = [agreed EXCEPT !.mechanisms = ms, !.mechanism = "none"]
  /\ outbox' = <<>> /\ phase' = "StartOk"
  /\ UNCHANGED <<collected, handshake_complete, tune, connect_timeout>>

(* An exception ends the call that reads; connect() collects on an OSError *)
(* (and socket.timeout is one), and on no other.                           *)
collect == transport' = "none" /\ collected' = TRUE

(* Mutant: the exception is dropped, and the loop of connect goes on.      *)
RaisesDropped(e) == outcome' = e /\ UNCHANGED connecting

Raises(e) ==
  /\ outcome' = e
  /\ connecting' = FALSE

ReadTimesOut ==
  /\ connecting /\ connect_timeout /\ inbox = <<>>
  /\ Raises("timeout") /\ collect
  /\ phase' = "closed"
  /\ UNCHANGED <<handshake_complete, tune, connect_timeout, connects, inbox, outbox, agreed>>

ReadFails ==
  /\ transport = "up" /\ phase = "closed" /\ inbox = <<>>
  /\ Raises("OSError")
  /\ IF connecting THEN collect ELSE transport' = "down" /\ UNCHANGED collected
  /\ UNCHANGED <<handshake_complete, tune, connect_timeout, connects, inbox, outbox,
                 brokerVars>>

-----------------------------------------------------------------------------
(* Mutant: a collected connection still handles methods.                   *)
InboundAlways(name) ==
  /\ transport = "up"
  /\ inbox # <<>> /\ Head(inbox).name = name
  /\ inbox' = Tail(inbox)
  /\ UNCHANGED <<connect_timeout, connects, brokerVars>>

(* on_inbound_method, for the methods of channel 0.                        *)
Inbound(name) ==
  /\ transport = "up" /\ ~collected
  /\ inbox # <<>> /\ Head(inbox).name = name
  /\ inbox' = Tail(inbox)
  /\ UNCHANGED <<connect_timeout, connects, brokerVars>>

(* channels is None: "Connection already closed".                          *)
InboundOnCollected ==
  /\ transport = "up" /\ collected /\ inbox # <<>>
  /\ inbox' = Tail(inbox)
  /\ Raises("RecoverableConnectionError")
  /\ UNCHANGED <<transport, collected, handshake_complete, tune, connect_timeout, connects,
                 outbox, brokerVars>>

(* The mechanisms that the broker offers and whose start answers.          *)
Usable(ms) ==
  {i \in DOMAIN Authentication : Authentication[i].mechanism \in ms /\ Authentication[i].ready}

send_method(m) == outbox' = Append(outbox, m)

on_start ==
  /\ Inbound("Start")
  /\ LET usable == Usable(Head(inbox).mechanisms) IN
     \/ /\ usable # {}
        /\ LET first == CHOOSE i \in usable : \A j \in usable : i <= j IN
           send_method([Method("StartOk") EXCEPT
                          !.mechanisms = {Authentication[first].mechanism}])
        /\ UNCHANGED <<connecting, outcome>>
     \/ /\ usable = {}
        /\ Raises("ConnectionError")
        /\ UNCHANGED outbox
  /\ UNCHANGED <<transport, collected, handshake_complete, tune>>

(* _on_secure does nothing.                                                *)
on_secure ==
  /\ Inbound("Secure")
  /\ UNCHANGED <<transport, collected, handshake_complete, tune, connecting, outcome, outbox>>

(* The heartbeat: none if the client wants none, else the smaller one, or  *)
(* the client's if the broker has none.                                    *)
Heartbeat(server, client) ==
  CASE client = 0 -> 0
    [] client # 0 /\ server = 0 -> client
    [] OTHER -> IF server < client THEN server ELSE client

Or(a, b) == IF a # 0 THEN a ELSE b

(* Mutant: the client tells what it has asked for.                         *)
TunedByClient(server) == [ClientTune EXCEPT !.heartbeat = Heartbeat(server.heartbeat, @)]

Tuned(server) ==
  [channel_max |-> Or(server.channel_max, tune.channel_max),
   frame_max   |-> Or(server.frame_max, tune.frame_max),
   heartbeat   |-> Heartbeat(server.heartbeat, ClientTune.heartbeat)]

(* Mutant: the handshake is taken to be complete before OpenOk.            *)
OnTuneCompletes ==
  /\ Inbound("Tune")
  /\ tune' = Tuned(Head(inbox).tune)
  /\ outbox' = outbox \o <<[Method("TuneOk") EXCEPT !.tune = tune'], Method("Open")>>
  /\ handshake_complete' = TRUE /\ connecting' = FALSE /\ outcome' = "returned"
  /\ UNCHANGED <<transport, collected>>

(* _on_tune sends TuneOk, and _on_tune_sent at once Open.                  *)
on_tune ==
  /\ Inbound("Tune")
  /\ tune' = Tuned(Head(inbox).tune)
  /\ outbox' = outbox \o <<[Method("TuneOk") EXCEPT !.tune = tune'], Method("Open")>>
  /\ UNCHANGED <<transport, collected, handshake_complete, connecting, outcome>>

(* Mutant: OpenOk is not recorded.                                         *)
OnOpenOkForgets ==
  /\ Inbound("OpenOk")
  /\ UNCHANGED <<transport, collected, tune, outbox, handshake_complete, connecting, outcome>>

(* connect() returns once the method is handled.                           *)
on_open_ok ==
  /\ Inbound("OpenOk")
  /\ handshake_complete' = TRUE
  /\ connecting' = FALSE
  /\ outcome' = "returned"
  /\ UNCHANGED <<transport, collected, tune, outbox>>

(* The broker refuses: CloseOk, collect and the broker's error.            *)
on_close ==
  /\ Inbound("Close")
  /\ send_method(Method("CloseOk"))
  /\ collect
  /\ Raises("ConnectionError")
  /\ UNCHANGED <<handshake_complete, tune>>

(* The connection is closed or given up: module Connection.  After collect *)
(* close() raises and changes nothing.                                     *)
close ==
  /\ ~connecting /\ transport = "up" /\ ~collected
  /\ collect
  /\ phase' = "closed"
  /\ UNCHANGED <<handshake_complete, tune, connect_timeout, connecting, outcome, connects,
                 inbox, outbox, agreed>>

-----------------------------------------------------------------------------
(* The broker. *)
clientVars == <<transport, collected, handshake_complete, tune, connect_timeout, connecting,
                outcome, connects>>

Reads(name, next) ==
  /\ phase = name
  /\ outbox # <<>> /\ Head(outbox).name = name
  /\ outbox' = Tail(outbox)
  /\ phase' = next
  /\ UNCHANGED clientVars

Says(m) == inbox' = Append(inbox, m)

BrokerTunes(m) ==
  \E t \in ServerTunes :
    /\ Says([Method("Tune") EXCEPT !.tune = t])
    /\ agreed' = [agreed EXCEPT !.mechanism = m, !.offer = t]

(* StartOk: Tune, a challenge, or a refusal.                               *)
BrokerStarts ==
  LET m == CHOOSE x \in Head(outbox).mechanisms : TRUE IN
  \/ Reads("StartOk", "TuneOk") /\ BrokerTunes(m)
  \/ Reads("StartOk", "SecureOk") /\ Says(Method("Secure")) /\ UNCHANGED agreed
  \/ Reads("StartOk", "CloseOk") /\ Says(Method("Close")) /\ UNCHANGED agreed

BrokerTuned ==
  /\ Reads("TuneOk", "Open")
  /\ agreed' = [agreed EXCEPT !.tune = Head(outbox).tune]
  /\ UNCHANGED inbox

BrokerOpens ==
  /\ \/ Reads("Open", "opened") /\ Says(Method("OpenOk"))
     \/ Reads("Open", "CloseOk") /\ Says(Method("Close"))
  /\ UNCHANGED agreed

BrokerCloses == Reads("CloseOk", "closed") /\ UNCHANGED <<agreed, inbox>>

BrokerReads == BrokerStarts \/ BrokerTuned \/ BrokerOpens \/ BrokerCloses

(* The socket breaks: what the broker had sent is lost.                    *)
BrokerVanishes ==
  /\ transport = "up" /\ phase \notin {"none", "closed"}
  /\ phase' = "closed" /\ inbox' = <<>> /\ outbox' = <<>>
  /\ UNCHANGED <<clientVars, agreed>>

HandshakeLibrary ==
  \/ ReadFails \/ ReadTimesOut \/ InboundOnCollected
  \/ on_start \/ on_secure \/ on_tune \/ on_open_ok \/ on_close

HandshakeApp == ConnectReturns \/ ConnectFails \/ connect \/ close
=============================================================================
