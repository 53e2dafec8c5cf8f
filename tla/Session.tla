------------------------------- MODULE Session -------------------------------
(***************************************************************************)
(* A connection from connect() on: the handshake (module Handshake), and   *)
(* then heartbeats with the interval that was negotiated (module           *)
(* Heartbeat).  Time passes in the first session of a connection only.     *)
(***************************************************************************)
EXTENDS Handshake, Heartbeat

vars == <<handshakeVars, heartbeatVars>>

h == tune.heartbeat

TypeOK == HandshakeTypeOK /\ HeartbeatTypeOK

Init == HandshakeInit /\ HeartbeatInit

(* The application keeps an open connection alive.                         *)
Live == /\ transport = "up" /\ handshake_complete /\ connects = 1
        /\ h > 0 /\ ~forced

LiveStep ==
  /\ Live
  /\ \/ Passes
     \/ FrameWritten
     \/ phase = "opened" /\ FrameRead
     \/ heartbeat_tick(h)
  /\ UNCHANGED handshakeVars

(* Without a transport nothing is measured; the code keeps its counters,   *)
(* but in the first session only, where Live holds, does the model use     *)
(* them.                                                                   *)
Forgets == IF transport' = "up" THEN UNCHANGED heartbeatVars ELSE HeartbeatForgotten

LibraryStep == HandshakeLibrary /\ Forgets
BrokerStep  == (BrokerReads \/ BrokerVanishes) /\ UNCHANGED heartbeatVars
AppStep     == HandshakeApp /\ Forgets

Next == LibraryStep \/ BrokerStep \/ AppStep \/ LiveStep

(* A call that has something to read goes on, and the broker answers what  *)
(* it has received; a timeout, when one is set, comes.                     *)
Spec == Init /\ [][Next]_vars /\ WF_vars(LibraryStep)
             /\ WF_vars(BrokerReads /\ UNCHANGED heartbeatVars)
-----------------------------------------------------------------------------
(* The first connect() of a connection returns only when the handshake is  *)
(* over and the broker has opened the session.  A later one may return     *)
(* without any of that (connection.py connect: self.connected, and         *)
(* _handshake_complete is never reset).                                    *)
FirstConnectOpens ==
  outcome = "returned" /\ connects = 1 =>
    handshake_complete /\ phase \in {"opened", "closed"}

(* In an open session client and broker hold the same limits and           *)
(* heartbeat, none beyond what the broker has offered (the client's own    *)
(* channel_max and frame_max bound nothing), the heartbeat not beyond what *)
(* the client wants and absent when it wants none; and the mechanism is    *)
(* one the broker offered (connection.py _on_start, _on_tune).             *)
SessionAgrees ==
  LET offer == agreed.offer
      Within(a, limit) == limit = 0 \/ a <= limit
  IN
  phase = "opened" =>
    /\ agreed.mechanism \in agreed.mechanisms
    /\ agreed.tune = tune
    /\ Within(tune.frame_max, offer.frame_max)
    /\ Within(tune.channel_max, offer.channel_max)
    /\ Within(tune.heartbeat, offer.heartbeat)
    /\ tune.heartbeat <= ClientTune.heartbeat
    /\ (tune.heartbeat = 0) <=> (ClientTune.heartbeat = 0)

(* A connection that was collected never has an open session again: the    *)
(* broker that a later connect() reaches gets no answer to its Start       *)
(* (connection.py collect, on_inbound_method: channels is None).           *)
CollectedStaysClosed ==
  collected => phase \in {"none", "StartOk", "CloseOk", "closed"}

(* connect() returns or raises, unless the broker has sent a challenge and *)
(* no timeout is set: _on_secure does not answer, and each waits for the   *)
(* other.                                                                  *)
ConnectEnds ==
  connecting ~> ~connecting \/ [](phase = "SecureOk" /\ ~connect_timeout)

(* With ticks at least every Period, the broker never waits longer than    *)
(* h / rate and two periods for a frame (connection.py heartbeat_tick).    *)
GapBounded == Live => rate * write_age <= h + 2 * rate * Period

(* ConnectionForced is raised only if nothing was read for two intervals,  *)
(* however reads and ticks fall,                                           *)
NoFalseAlarm == forced => read_age > 2 * h

(* and it is raised within two intervals and two periods of the last read. *)
SilenceSeen == Live => read_age <= 2 * h + 2 * Period

(* "heartbeat_tick(rate=2) must called at regular intervals (half of the   *)
(* heartbeat value if rate is 2)", "rate (int): Number of heartbeat frames *)
(* to send during the heartbeat timeout": called so, a frame at least goes *)
(* out in each interval.                                                   *)
BeatsInTime == Live => write_age <= h
=============================================================================
