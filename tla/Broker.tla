------------------------------- MODULE Broker -------------------------------
(***************************************************************************)
(* The AMQP broker at the other end of the socket.  It is not part of the  *)
(* repository: it is modelled from what the client sends to it and expects *)
(* of it.  Methods of one channel are handled in order, channels           *)
(* independently of each other; a channel the broker has closed drops what *)
(* arrives until the client agrees (Close-Ok); a method on a channel that  *)
(* is not open is a connection error.                                      *)
(***************************************************************************)
EXTENDS Channel

CONSTANTS
  Events,    \* what the broker may do of its own accord
  MaxEvents  \* bound on how often it does

ASSUME BrokerAssumption == MaxEvents \in Nat

VARIABLES
  bconn,     \* the connection, as the broker sees it: "failed" after a
             \* violation of the protocol, "closing" for other reasons
  bchan,     \* the channels
  bconfirm,  \* is a channel in confirm mode?
  bcons,     \* the consumers of a channel: who asked for them, and no_ack
  events     \* number of events so far

brokerVars == <<bconn, bchan, bconfirm, bcons, events>>
clientVars == <<channels, channel_id, connection, is_closing, pending, stack,
                exc, calls, chanVars>>

NoConsumer == [rid |-> 0, no_ack |-> FALSE]

BrokerTypeOK ==
  /\ bconn \in {"open", "closing", "failed", "closed"}
  /\ bchan \in [Ids -> {"closed", "open", "closing"}]
  /\ bconfirm \in [Ids -> BOOLEAN]
  /\ bcons \in [Ids -> [Tags -> [rid : Nat, no_ack : BOOLEAN]]]
  /\ events \in Nat

BrokerInit ==
  /\ bconn = "open"
  /\ bchan = [id \in Ids |-> "closed"]
  /\ bconfirm = [id \in Ids |-> FALSE]
  /\ bcons = [id \in Ids |-> [t \in Tags |-> NoConsumer]]
  /\ events = 0

-----------------------------------------------------------------------------
Received(id) == Head(toServer[id])

Receives(id, ms) ==
  /\ sock /\ toServer[id] # <<>>
  /\ toServer' = [toServer EXCEPT ![id] = Tail(@)]
  /\ toClient' = toClient \o ms
  /\ UNCHANGED <<clientVars, sock>>

Reply(id, m) == [Msg(id, m, Received(id).rid) EXCEPT !.tag = Received(id).tag]

Reset(id) ==
  /\ bconfirm' = [bconfirm EXCEPT ![id] = FALSE]
  /\ bcons' = [bcons EXCEPT ![id] = [t \in Tags |-> NoConsumer]]

(* A request is answered, unless it says nowait. *)
BrokerReplies(id, m) ==
  /\ bconn = "open" /\ bchan[id] = "open" /\ toServer[id] # <<>>
  /\ Received(id).m \in Sync
       \ {"ChannelOpen", "ChannelClose", "BasicConsume", "BasicPublish"}
  /\ m \in ReplyTo[Received(id).m]
  /\ Receives(id, IF Received(id).nowait THEN <<>> ELSE <<Reply(id, m)>>)
  /\ bconfirm' = [bconfirm EXCEPT ![id] = @ \/ Received(id).m = "ConfirmSelect"]
  /\ bcons' = IF Received(id).m # "BasicCancel" THEN bcons
              ELSE [bcons EXCEPT ![id][Received(id).tag] = NoConsumer]
  /\ UNCHANGED <<bconn, bchan, events>>

(* A method without a reply. *)
BrokerAccepts(id) ==
  /\ bconn = "open" /\ bchan[id] = "open" /\ toServer[id] # <<>>
  /\ Received(id).m \in Async
  /\ Receives(id, <<>>)
  /\ UNCHANGED brokerVars

(* Consume: a tag given by the client, or one that the broker makes up.    *)
BrokerConsumes(id, t) ==
  /\ bconn = "open" /\ bchan[id] = "open" /\ toServer[id] # <<>>
  /\ Received(id).m = "BasicConsume"
  /\ Received(id).tag \in {0, t} /\ bcons[id][t] = NoConsumer
  /\ bcons' = [bcons EXCEPT ![id][t] =
       [rid |-> Received(id).rid, no_ack |-> Received(id).no_ack]]
  /\ Receives(id, IF Received(id).nowait THEN <<>>
                  ELSE <<[Reply(id, "BasicConsumeOk") EXCEPT !.tag = t]>>)
  /\ UNCHANGED <<bconn, bchan, bconfirm, events>>

(* Publish: in confirm mode the broker says Ack, or Nack.  A message that  *)
(* cannot be routed is returned first.                                     *)
BrokerPublishes(id, returned, m) ==
  /\ bconn = "open" /\ bchan[id] = "open" /\ toServer[id] # <<>>
  /\ Received(id).m = "BasicPublish"
  /\ returned => "BasicReturn" \in Events /\ events < MaxEvents
  /\ m = "BasicAck" \/ ("BasicNack" \in Events /\ bconfirm[id])
  /\ Receives(id,
       (IF returned THEN <<Reply(id, "BasicReturn")>> ELSE <<>>)
       \o (IF bconfirm[id] THEN <<Reply(id, m)>> ELSE <<>>))
  /\ events' = IF returned THEN events + 1 ELSE events
  /\ UNCHANGED <<bconn, bchan, bconfirm, bcons>>

(* Open and Close of a channel, and the Close-Ok of the client. *)
BrokerOpens(id) ==
  /\ bconn = "open" /\ bchan[id] = "closed" /\ toServer[id] # <<>>
  /\ Received(id).m = "ChannelOpen"
  /\ Receives(id, <<Reply(id, "ChannelOpenOk")>>)
  /\ bchan' = [bchan EXCEPT ![id] = "open"]
  /\ UNCHANGED <<bconn, bconfirm, bcons, events>>

BrokerCloses(id) ==
  /\ bconn = "open" /\ bchan[id] # "closed" /\ toServer[id] # <<>>
  /\ Received(id).m = "ChannelClose"
  /\ Receives(id, <<Reply(id, "ChannelCloseOk")>>)
  /\ bchan' = [bchan EXCEPT ![id] = IF @ = "open" THEN "closed" ELSE @]
  /\ Reset(id)
  /\ UNCHANGED <<bconn, events>>

BrokerDrops(id) ==
  /\ bconn = "open" /\ bchan[id] = "closing" /\ toServer[id] # <<>>
  /\ Received(id).m # "ChannelClose"
  /\ Receives(id, <<>>)
  /\ bchan' = [bchan EXCEPT ![id] =
       IF Received(id).m = "ChannelCloseOk" THEN "closed" ELSE @]
  /\ UNCHANGED <<bconn, bconfirm, bcons, events>>

(* Errors of the client that cost it the connection. *)
Mistake(id) ==
  LET m == Received(id).m IN
  \/ bchan[id] = "closed" /\ m # "ChannelOpen"
  \/ bchan[id] = "open" /\ m = "ChannelOpen"
  \/ /\ bchan[id] = "open" /\ m = "BasicConsume"
     /\ \A t \in Tags : Received(id).tag \in {0, t} => bcons[id][t] # NoConsumer

BrokerFails(id) ==
  /\ bconn = "open" /\ toServer[id] # <<>> /\ Mistake(id)
  /\ Receives(id, <<Msg(0, "ConnectionClose", 0)>>)
  /\ bconn' = IF Received(id).m = "BasicConsume" THEN "closing" ELSE "failed"
  /\ UNCHANGED <<bchan, bconfirm, bcons, events>>

(* Close and Close-Ok of the connection. *)
BrokerDisconnects ==
  /\ bconn # "closed" /\ toServer[0] # <<>>
  /\ Receives(0, IF Received(0).m = "ConnectionClose"
                 THEN <<Reply(0, "ConnectionCloseOk")>> ELSE <<>>)
  /\ bconn' = "closed"
  /\ UNCHANGED <<bchan, bconfirm, bcons, events>>

BrokerReceives ==
  \/ \E id \in Ids : \/ \E m \in Replies : BrokerReplies(id, m)
                     \/ BrokerAccepts(id)
                     \/ \E t \in Tags : BrokerConsumes(id, t)
                     \/ \E returned \in BOOLEAN, m \in {"BasicAck", "BasicNack"} :
                          BrokerPublishes(id, returned, m)
                     \/ BrokerOpens(id)
                     \/ BrokerCloses(id)
                     \/ BrokerDrops(id)
                     \/ BrokerFails(id)
  \/ BrokerDisconnects

-----------------------------------------------------------------------------
(* What the broker does of its own accord.                                 *)
Happens(m, msg) ==
  /\ m \in Events /\ events < MaxEvents
  /\ sock /\ bconn = "open"
  /\ events' = events + 1
  /\ toClient' = Append(toClient, msg)
  /\ UNCHANGED <<clientVars, sock, toServer>>

BrokerDelivers(id, t) ==
  /\ bchan[id] = "open" /\ bcons[id][t] # NoConsumer
  /\ Happens("BasicDeliver",
       [Msg(id, "BasicDeliver", bcons[id][t].rid) EXCEPT !.tag = t])
  /\ UNCHANGED <<bconn, bchan, bconfirm, bcons>>

BrokerCancels(id, t) ==
  /\ bchan[id] = "open" /\ bcons[id][t] # NoConsumer
  /\ Happens("BasicCancel",
       [Msg(id, "BasicCancel", bcons[id][t].rid) EXCEPT !.tag = t])
  /\ bcons' = [bcons EXCEPT ![id][t] = NoConsumer]
  /\ UNCHANGED <<bconn, bchan, bconfirm>>

BrokerFlows(id) ==
  /\ bchan[id] = "open"
  /\ Happens("ChannelFlow", Msg(id, "ChannelFlow", 0))
  /\ UNCHANGED <<bconn, bchan, bconfirm, bcons>>

BrokerClosesChannel(id) ==
  /\ bchan[id] = "open"
  /\ Happens("ChannelClose", Msg(id, "ChannelClose", 0))
  /\ bchan' = [bchan EXCEPT ![id] = "closing"]
  /\ Reset(id)
  /\ UNCHANGED bconn

BrokerBlocks(m) ==
  /\ m \in {"ConnectionBlocked", "ConnectionUnblocked"}
  /\ Happens(m, Msg(0, m, 0))
  /\ UNCHANGED <<bconn, bchan, bconfirm, bcons>>

BrokerClosesConnection ==
  /\ Happens("ConnectionClose", Msg(0, "ConnectionClose", 0))
  /\ bconn' = "closing"
  /\ UNCHANGED <<bchan, bconfirm, bcons>>

(* The socket breaks; some of what is under way arrives. *)
SocketBreaks(n) ==
  /\ "drop" \in Events /\ events < MaxEvents
  /\ sock
  /\ sock' = FALSE
  /\ events' = events + 1
  /\ toClient' = SubSeq(toClient, 1, n)
  /\ UNCHANGED <<clientVars, toServer, bconn, bchan, bconfirm, bcons>>

BrokerEvent ==
  \/ \E id \in Ids, t \in Tags : BrokerDelivers(id, t) \/ BrokerCancels(id, t)
  \/ \E id \in Ids : BrokerFlows(id) \/ BrokerClosesChannel(id)
  \/ \E m \in Events : BrokerBlocks(m)
  \/ BrokerClosesConnection
  \/ \E n \in 0 .. Len(toClient) : SocketBreaks(n)
=============================================================================
