------------------------------ MODULE AmqpSpec ------------------------------
(***************************************************************************)
(* The AMQP 0-9-1 methods of amqp/spec.py, as far as the client's control  *)
(* flow tells them apart: which request is answered by which reply, and    *)
(* the shape of a method on the wire.  A method is named by its class and  *)
(* its name in spec.py; the numbers it is encoded with play no part here.  *)
(***************************************************************************)
EXTENDS Naturals, Sequences

CONSTANTS
  ChannelMax,  \* negotiated channel_max: channel ids are 1 .. ChannelMax
  NumChans,    \* number of Channel objects the application may create
  Tags         \* consumer tags

ASSUME SpecAssumption ==
  /\ ChannelMax \in Nat \ {0}
  /\ NumChans \in Nat
  /\ 0 \notin Tags

\* Channel ids; id 0 is the connection's own channel.
Ids  == 1 .. ChannelMax
Ids0 == 0 .. ChannelMax

\* AbstractChannel objects: object 0 is the Connection ("treated as channel 0").
Chan == 1 .. NumChans
Obj  == 0 .. NumChans

\* The replies a synchronous method is answered with.
ReplyTo == [
  ChannelOpen     |-> {"ChannelOpenOk"},
  ChannelClose    |-> {"ChannelCloseOk"},
  ChannelFlow     |-> {"ChannelFlowOk"},
  ExchangeDeclare |-> {"ExchangeDeclareOk"},
  ExchangeDelete  |-> {"ExchangeDeleteOk"},
  ExchangeBind    |-> {"ExchangeBindOk"},
  ExchangeUnbind  |-> {"ExchangeUnbindOk"},
  QueueDeclare    |-> {"QueueDeclareOk"},
  QueueBind       |-> {"QueueBindOk"},
  QueuePurge      |-> {"QueuePurgeOk"},
  QueueDelete     |-> {"QueueDeleteOk"},
  QueueUnbind     |-> {"QueueUnbindOk"},
  BasicQos        |-> {"BasicQosOk"},
  BasicConsume    |-> {"BasicConsumeOk"},
  BasicCancel     |-> {"BasicCancelOk"},
  BasicGet        |-> {"BasicGetOk", "BasicGetEmpty"},
  BasicRecover    |-> {"BasicRecoverOk"},
  BasicPublish    |-> {"BasicAck", "BasicNack"},   \* publisher confirms
  ConfirmSelect   |-> {"ConfirmSelectOk"},
  TxSelect        |-> {"TxSelectOk"},
  TxCommit        |-> {"TxCommitOk"},
  TxRollback      |-> {"TxRollbackOk"},
  ConnectionClose |-> {"ConnectionCloseOk"}]

Sync    == DOMAIN ReplyTo
Replies == UNION {ReplyTo[m] : m \in Sync}

\* Replies that dispatch_method hands to a waiting caller and to nobody else:
\* no listener is registered for them in _setup_listeners.
PlainReplies ==
  Replies \ {"ChannelOpenOk", "ChannelCloseOk", "ConnectionCloseOk",
             "BasicCancelOk", "BasicAck", "BasicNack"}

\* Methods without a reply, and the asynchronous methods of the broker.
Async ==
  {"BasicAck", "BasicReject", "BasicRecoverAsync", "ChannelCloseOk",
   "ChannelFlowOk", "ConnectionCloseOk", "BasicDeliver", "BasicReturn",
   "ConnectionBlocked", "ConnectionUnblocked", "none"}

Methods == Sync \cup Replies \cup Async

(***************************************************************************)
(* A method on the wire: the channel id of its frame, its name, and of its *)
(* arguments the consumer tag and the nowait and no_ack bits.  rid is the  *)
(* number of the client call that caused it (0: the broker, or the library *)
(* by itself); it is not transmitted and no guard of the model reads it.   *)
(***************************************************************************)
Message == [ch : Ids0, m : Methods, rid : Nat, tag : Tags \cup {0},
            nowait : BOOLEAN, no_ack : BOOLEAN]

Msg(id, m, rid) == [ch |-> id, m |-> m, rid |-> rid, tag |-> 0,
                    nowait |-> FALSE, no_ack |-> FALSE]

NoMsg == Msg(0, "none", 0)
=============================================================================
