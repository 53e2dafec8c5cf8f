----------------------------- MODULE CallProofs -----------------------------
(***************************************************************************)
(* Proofs about what becomes of the calls in progress, for every instance  *)
(* of module Connection: no promise is lost (PromiseKept), and a close()   *)
(* of the connection that is over has collected it (ClosedIsCollected).    *)
(*                                                                         *)
(* Both are about the stack of calls, to which the many operations of the  *)
(* client do few different things: StackMove lists them, and every step of *)
(* the specification is one of them.  What has to be shown is shown for    *)
(* each kind of move.                                                      *)
(***************************************************************************)
EXTENDS ConnectionProofs

-----------------------------------------------------------------------------
(* The moves.                                                              *)

(* The replies whose listener may be, or end with, application code.       *)
ListenedReplies == {"ChannelOpenOk", "BasicAck", "BasicNack"}

(* The request of a call of object c is, or was when basic_publish began,  *)
(* made out to the id of the object.                                       *)
Addressed(c, req) ==
  \/ connection'[c] /\ (req.ch = channel_id'[c] \/ (c = 0 /\ req.ch = 0))
  \/ stack # <<>> /\ Top.op = "publish" /\ c = Top.ch /\ req = Top.req

(* basic_publish begins on object c, or goes on after confirm_select. *)
Publishing(c) ==
  \/ c \in Chan /\ AppCalls(c, "BasicPublish")
  \/ stack # <<>> /\ Top.op = "select" /\ c = Top.ch

(* A wait() begins on top of the stack s. *)
Waits(s) ==
  \E op \in WaitOps, c \in Obj, on \in SUBSET Replies, req \in Message :
    /\ wait(s, op, c, on, req)
    /\ op = "connclose" => on = {"ConnectionCloseOk"}
    /\ op = "confirm" => on = {"BasicAck", "BasicNack"}
    /\ on \cap {"BasicAck", "BasicNack"} # {} => ConfirmPublish
    /\ op = "select" => Publishing(c)
    /\ Addressed(c, req)

(* A call that waits for nothing begins on top of the stack s. *)
Pushes(s) ==
  \E f \in Frame :
    /\ f.op \in DrainOps /\ f.on = {} /\ f.shot = 0
    /\ f.op = "publish" => /\ Addressed(f.ch, f.req) /\ Publishing(f.ch)
                           /\ f.req.m = "BasicPublish" /\ ~f.req.nowait
    /\ stack' = Append(s, f)

(* A request is sent that nobody waits for. *)
Crowds ==
  /\ \E c \in Obj, on \in SUBSET Replies : stack' = Crowded(stack, c, on)
  /\ UNCHANGED pending

(* A wait() ends, that of a close() with what close() does after it; a     *)
(* callback is left like this by an exception only.                        *)
Leaves ==
  /\ Leave
  /\ Top.op = "callback" => exc' # "none"
  /\ Top.op = "connclose" => ConnectionCloseReturns
  /\ Top.op = "close" => CloseReturns

(* A call that does not wait is replaced by its next part, or ends. *)
Continues ==
  /\ stack # <<>> /\ Top.op = "publish"
  /\ Waits(Pop(stack)) \/ (stack' = Pop(stack) /\ UNCHANGED pending)

(* basic_publish goes on after confirm_select. *)
SelectEnds ==
  /\ stack # <<>> /\ Top.op = "select"
  /\ pending' = Restored(Top)
  /\ stack' = Pop(stack) \/ Pushes(Pop(stack))

(* The method read is for object c; Close-Ok of the connection is for      *)
(* object 0 whatever its frame says.                                       *)
Receiver(c) ==
  \/ c = Target /\ (In.ch # 0 => Target # 0)
  \/ c = 0 /\ In.m = "ConnectionCloseOk"

(* A method is dispatched to a handler that does nothing with the stack,   *)
(* to the promise waiting for it, or to the application.                   *)
HandlerEnds == Takes /\ stack' = Drained(stack) /\ UNCHANGED pending

Fulfils ==
  /\ Takes
  /\ \E c \in Obj, m \in Replies :
       /\ In.m = m /\ OneShot(c, m)
       /\ m = "ConnectionCloseOk" => ~connection'[0]
       /\ Receiver(c)

CallsBack ==
  /\ Takes
  /\ \E c \in Obj, m \in Methods :
       /\ In.m = m /\ CallBack(c, m)
       /\ m \in Replies => m \in ListenedReplies /\ Receiver(c)

StackMove ==
  \/ UNCHANGED <<stack, pending>>
  \/ Crowds
  \/ Waits(stack)
  \/ Takes /\ Waits(Drained(stack))
  \/ Pushes(stack) /\ UNCHANGED pending
  \/ Leaves \/ Continues \/ SelectEnds
  \/ HandlerEnds \/ Fulfils \/ CallsBack
  \/ CallbackReturns

\* The methods the broker sends of its own accord are no replies.
LEMMA NoReplies ==
  \A m \in {"BasicDeliver", "BasicCancel", "BasicReturn", "ConnectionBlocked",
            "ConnectionUnblocked", "ChannelFlow", "ChannelClose", "ConnectionClose"} :
    m \in Methods /\ m \notin Replies
  <1>1. Replies \subseteq
          {"ChannelOpenOk", "ChannelCloseOk", "ChannelFlowOk", "ExchangeDeclareOk",
           "ExchangeDeleteOk", "ExchangeBindOk", "ExchangeUnbindOk", "QueueDeclareOk",
           "QueueBindOk", "QueuePurgeOk", "QueueDeleteOk", "QueueUnbindOk", "BasicQosOk",
           "BasicConsumeOk", "BasicCancelOk", "BasicGetOk", "BasicGetEmpty",
           "BasicRecoverOk", "BasicAck", "BasicNack", "ConfirmSelectOk", "TxSelectOk",
           "TxCommitOk", "TxRollbackOk", "ConnectionCloseOk"}
    BY DEF Replies, Sync, ReplyTo
  <1>2. {"BasicDeliver", "BasicReturn", "ConnectionBlocked", "ConnectionUnblocked"}
          \subseteq Async
    BY DEF Async
  <1> QED BY <1>1, <1>2, MethodsFacts DEF Methods

\* Ack and Nack of the broker are answers to Publish only.
LEMMA OnlyPublishAcked ==
  \A m \in Sync : m # "BasicPublish" => ReplyTo[m] \cap {"BasicAck", "BasicNack"} = {}
  BY DEF Sync, ReplyTo

\* A public method that sends and waits, or does not, is a move.
LEMMA InvokeMoves ==
  ASSUME NEW c \in Obj, NEW req \in Message, NEW on \in SUBSET Replies, NEW op \in WaitOps,
         op \notin {"connclose", "confirm", "select"}, on \cap {"BasicAck", "BasicNack"} = {},
         req.ch = channel_id[c], Invoke(c, req, on, op)
  PROVE  StackMove
  <1>1. CASE send_method(c, <<req>>) /\ wait(stack, op, c, on, req)
    <2>1. Addressed(c, req)
      BY <1>1 DEF Addressed, Invoke, send_method
    <2> QED BY <1>1, <2>1 DEF StackMove, Waits
  <1>2. CASE UNCHANGED <<stack, pending>>
    BY <1>2 DEF StackMove
  <1>3. CASE stack' = Crowded(stack, c, Expected(req)) /\ UNCHANGED pending
    BY <1>3, ExpectedType DEF StackMove, Crowds
  <1> QED BY <1>1, <1>2, <1>3 DEF Invoke

\* Pushing the frame of _basic_publish on the stack is a move.
LEMMA PublishPushes ==
  ASSUME AbstractChannelTypeOK, NEW c \in Obj, NEW rid \in Nat, NEW s,
         stack' = Append(s, PublishFrame(c, rid)),
         connection[c], UNCHANGED <<connection, channel_id>>, Publishing(c)
  PROVE  Pushes(s)
  <1> DEFINE f == PublishFrame(c, rid)
  <1>1. /\ f.on = {} /\ f.op \in DrainOps /\ f.shot = 0 /\ f.ch = c
        /\ f.req = Msg(channel_id[c], "BasicPublish", rid)
    BY DEF PublishFrame, DrainOps
  <1>2. /\ f.req.ch = channel_id[c] /\ f.req.m = "BasicPublish" /\ ~f.req.nowait
    BY <1>1 DEF Msg
  <1>3. f \in Frame
    BY PublishFrameType
  <1> HIDE DEF f
  <1>4. Addressed(f.ch, f.req)
    BY <1>1, <1>2 DEF Addressed
  <1> QED BY <1>1, <1>2, <1>3, <1>4 DEF Pushes, f

\* Every public method of a channel is a move.
LEMMA ChannelCallMoves ==
  ASSUME AbstractChannelTypeOK, NEW c \in Chan, ChannelCall(c)
  PROVE  StackMove
  <1>0. c \in Obj
    BY DEF Chan, Obj
  <1>1. ASSUME NEW m \in Sync, m # "BasicPublish", NEW nowait \in BOOLEAN, Simple(c, m, nowait)
        PROVE  StackMove
    <2>1. Msg(channel_id[c], m, calls + 1) \in Message
      BY <1>0, RequestType, MethodsFacts
    <2>2. [Msg(channel_id[c], m, calls + 1) EXCEPT !.nowait = nowait] \in Message
      BY <2>1, MessageUpdate
    <2>3. (IF nowait THEN {} ELSE ReplyTo[m]) \in SUBSET Replies
      BY RepliesFacts
    <2>4. "rpc" \in WaitOps /\ "rpc" \notin {"connclose", "confirm", "select"}
      BY DEF WaitOps
    <2>5. (IF nowait THEN {} ELSE ReplyTo[m]) \cap {"BasicAck", "BasicNack"} = {}
      BY <1>1, OnlyPublishAcked
    <2>6. [Msg(channel_id[c], m, calls + 1) EXCEPT !.nowait = nowait].ch = channel_id[c]
      BY DEF Msg
    <2> QED BY <1>0, <1>1, <2>2, <2>3, <2>4, <2>5, <2>6, InvokeMoves DEF Simple, Rpc
  <1>2. ASSUME NEW m \in Methods, SimplePost(c, m) PROVE StackMove
    <2>1. /\ "rpc" \in WaitOps /\ "rpc" \notin {"connclose", "confirm", "select"}
          /\ {} \in SUBSET Replies
      BY DEF WaitOps
    <2>2. Msg(channel_id[c], m, calls + 1).ch = channel_id[c]
      BY DEF Msg
    <2> QED BY <1>0, <1>2, <2>1, <2>2, RequestType, InvokeMoves DEF SimplePost, Post
  <1>3. {"ExchangeDeclare", "ExchangeDelete", "ExchangeBind", "ExchangeUnbind",
         "QueueDeclare", "QueueBind", "QueueUnbind", "QueueDelete", "QueuePurge",
         "ConfirmSelect", "ChannelFlow", "BasicGet", "BasicQos", "TxSelect",
         "TxCommit", "TxRollback", "BasicRecover"} \subseteq Sync
    BY DEF Sync, ReplyTo
  <1>4. {"QueueUnbind", "BasicRecover", "BasicRecoverAsync", "BasicAck", "BasicReject"}
          \subseteq Methods
    BY <1>3, MethodsFacts DEF Methods, Async
  <1>5. ASSUME NEW nowait \in Nowaits,
               \/ exchange_declare(c, nowait) \/ exchange_delete(c, nowait)
               \/ exchange_bind(c, nowait) \/ exchange_unbind(c, nowait)
               \/ queue_declare(c, nowait) \/ queue_bind(c, nowait)
               \/ queue_delete(c, nowait)
               \/ queue_purge(c, nowait) \/ confirm_select(c, nowait)
               \/ queue_unbind(c, nowait)
        PROVE  StackMove
    <2>1. nowait \in BOOLEAN
      BY ConnectionAssumption
    <2>2. CASE queue_unbind(c, nowait)
      <3>1. CASE Simple(c, "QueueUnbind", FALSE)
        BY <1>1, <1>3, <3>1
      <3>2. CASE SimplePost(c, "QueueUnbind")
        BY <1>2, <1>4, <3>2
      <3> QED BY <2>2, <3>1, <3>2 DEF queue_unbind
    <2> QED BY <1>1, <1>3, <1>5, <2>1, <2>2 DEF exchange_declare, exchange_delete,
              exchange_bind, exchange_unbind, queue_declare, queue_bind,
              queue_delete, queue_purge, confirm_select
  <1>6. ASSUME \/ flow(c) \/ basic_get(c) \/ basic_qos(c)
               \/ tx_select(c) \/ tx_commit(c) \/ tx_rollback(c)
        PROVE  StackMove
    BY <1>1, <1>3, <1>6 DEF flow, basic_get, basic_qos, tx_select, tx_commit, tx_rollback
  <1>7. ASSUME \/ basic_recover(c) \/ basic_recover_async(c) \/ basic_ack(c)
               \/ basic_reject(c)
        PROVE  StackMove
    BY <1>2, <1>4, <1>7 DEF basic_recover, basic_recover_async, basic_ack, basic_reject
  <1>8. ASSUME NEW nowait \in Nowaits, NEW t \in Tags, basic_cancel(c, t, nowait)
        PROVE  StackMove
    <2> DEFINE req == [Msg(channel_id[c], "BasicCancel", calls + 1)
                       EXCEPT !.tag = t, !.nowait = nowait]
               on == IF nowait THEN {} ELSE {"BasicCancelOk"}
    <2>1. Msg(channel_id[c], "BasicCancel", calls + 1) \in Message
      BY <1>0, RequestType, MethodsFacts
    <2>2. req \in Message
      BY <2>1, MessageUpdate, ConnectionAssumption
    <2>3. /\ on \in SUBSET Replies /\ "rpc" \in WaitOps
          /\ "rpc" \notin {"connclose", "confirm", "select"}
          /\ on \cap {"BasicAck", "BasicNack"} = {} /\ req.ch = channel_id[c]
      BY RepliesFacts DEF WaitOps, Msg
    <2>4. Invoke(c, req, on, "rpc")
      BY <1>8 DEF basic_cancel
    <2> HIDE DEF req, on
    <2> QED BY <1>0, <2>2, <2>3, <2>4, InvokeMoves
  <1>9. ASSUME NEW nowait \in Nowaits, NEW t \in Tags \cup {0}, NEW no_ack \in NoAcks,
               basic_consume(c, t, nowait, no_ack)
        PROVE  StackMove
    <2> DEFINE req == [Msg(channel_id[c], "BasicConsume", calls + 1)
                       EXCEPT !.tag = t, !.nowait = nowait, !.no_ack = no_ack]
    <2>1. Msg(channel_id[c], "BasicConsume", calls + 1) \in Message
      BY <1>0, RequestType, MethodsFacts
    <2>2. req \in Message
      BY <2>1, MessageUpdate, ConnectionAssumption
    <2>3. /\ {"BasicConsumeOk"} \in SUBSET Replies /\ "consume" \in WaitOps
          /\ "consume" \notin {"connclose", "confirm", "select"}
          /\ {"BasicConsumeOk"} \cap {"BasicAck", "BasicNack"} = {} /\ req.ch = channel_id[c]
      BY RepliesFacts DEF WaitOps, Msg
    <2>4. Invoke(c, req, {"BasicConsumeOk"}, "consume") \/ UNCHANGED <<stack, pending>>
      BY <1>9 DEF basic_consume
    <2>5. CASE UNCHANGED <<stack, pending>>
      BY <2>5 DEF StackMove
    <2> HIDE DEF req
    <2> QED BY <1>0, <2>2, <2>3, <2>4, <2>5, InvokeMoves
  <1>10. CASE basic_publish(c)
    <2> DEFINE req == Msg(channel_id[c], "ConfirmSelect", calls + 1)
    <2>1. req \in Message /\ calls + 1 \in Nat
      BY <1>0, RequestType, MethodsFacts DEF AbstractChannelTypeOK
    <2>2. /\ {"ConfirmSelectOk"} \in SUBSET Replies /\ "select" \in WaitOps
          /\ "select" \notin {"connclose", "confirm"}
          /\ {"ConfirmSelectOk"} \cap {"BasicAck", "BasicNack"} = {} /\ req.ch = channel_id[c]
      BY RepliesFacts DEF WaitOps, Msg
    <2>3. /\ UNCHANGED <<connection, channel_id>> /\ Publishing(c)
          /\ \/ connection[c] /\ wait(stack, "select", c, {"ConfirmSelectOk"}, req)
             \/ UNCHANGED <<stack, pending>>
             \/ /\ connection[c] /\ stack' = Append(stack, PublishFrame(c, calls + 1))
                /\ UNCHANGED pending
      BY <1>10 DEF basic_publish, Selects, send_method, Publishing
    <2> HIDE DEF req
    <2>4. CASE connection[c] /\ wait(stack, "select", c, {"ConfirmSelectOk"}, req)
      <3>1. Addressed(c, req)
        BY <2>2, <2>3, <2>4 DEF Addressed
      <3> QED BY <1>0, <2>1, <2>2, <2>3, <2>4, <3>1 DEF StackMove, Waits
    <2>5. CASE /\ connection[c] /\ stack' = Append(stack, PublishFrame(c, calls + 1))
               /\ UNCHANGED pending
      BY <1>0, <2>1, <2>3, <2>5, PublishPushes DEF StackMove
    <2>6. CASE UNCHANGED <<stack, pending>>
      BY <2>6 DEF StackMove
    <2> QED BY <2>3, <2>4, <2>5, <2>6
  <1>11. CASE Channel_open(c)
    <2> DEFINE req == Msg(channel_id[c], "ChannelOpen", calls + 1)
    <2>1. /\ {"ChannelOpenOk"} \in SUBSET Replies /\ "open" \in WaitOps
          /\ "open" \notin {"connclose", "confirm", "select"}
          /\ {"ChannelOpenOk"} \cap {"BasicAck", "BasicNack"} = {} /\ req.ch = channel_id[c]
      BY RepliesFacts DEF WaitOps, Msg
    <2>2. req \in Message
      BY <1>0, RequestType, MethodsFacts
    <2>3. Invoke(c, req, {"ChannelOpenOk"}, "open")
      BY <1>11 DEF Channel_open
    <2> HIDE DEF req
    <2> QED BY <1>0, <2>1, <2>2, <2>3, InvokeMoves
  <1>12. CASE Channel_close(c)
    <2> DEFINE req == Msg(channel_id[c], "ChannelClose", calls + 1)
    <2>1. req \in Message
      BY <1>0, RequestType, MethodsFacts
    <2>2. /\ {"ChannelCloseOk"} \in SUBSET Replies /\ "close" \in WaitOps
          /\ "close" \notin {"connclose", "confirm", "select"}
          /\ {"ChannelCloseOk"} \cap {"BasicAck", "BasicNack"} = {} /\ req.ch = channel_id[c]
      BY RepliesFacts DEF WaitOps, Msg
    <2>3. \/ /\ wait(stack, "close", c, {"ChannelCloseOk"}, req)
             /\ connection[c] /\ UNCHANGED <<connection, channel_id>>
          \/ UNCHANGED <<stack, pending>>
      BY <1>12 DEF Channel_close, send_method
    <2> HIDE DEF req
    <2>4. CASE /\ wait(stack, "close", c, {"ChannelCloseOk"}, req)
               /\ connection[c] /\ UNCHANGED <<connection, channel_id>>
      <3>1. Addressed(c, req)
        BY <2>2, <2>4 DEF Addressed
      <3> QED BY <1>0, <2>1, <2>2, <2>4, <3>1 DEF StackMove, Waits
    <2>5. CASE UNCHANGED <<stack, pending>>
      BY <2>5 DEF StackMove
    <2> QED BY <2>3, <2>4, <2>5
  <1> QED BY <1>5, <1>6, <1>7, <1>8, <1>9, <1>10, <1>11, <1>12 DEF ChannelCall

\* Every call of the application is a move.
LEMMA AppCallMoves ==
  ASSUME TypeOK, AppCall
  PROVE  StackMove
  <1>0. AbstractChannelTypeOK /\ 0 \in Obj /\ 0 \in Ids0
    BY SpecAssumption DEF TypeOK, Obj, Ids0
  <1>1. ASSUME NEW c \in 1 .. created, ChannelCall(c) PROVE StackMove
    <2>1. c \in Chan
      BY SpecAssumption DEF TypeOK, Chan
    <2> QED BY <1>0, <1>1, <2>1, ChannelCallMoves
  <1>2. ASSUME NEW id \in ExplicitIds, channel(id) PROVE StackMove
    <2>1. ASSUME NEW k \in Ids, NewChannel(k) PROVE StackMove
      <3> DEFINE c == created + 1
                 req == Msg(k, "ChannelOpen", calls + 1)
      <3>1. c \in Obj /\ k \in Ids0
        BY <2>1, SpecAssumption DEF TypeOK, NewChannel, Obj, Ids, Ids0
      <3>2. req \in Message
        BY <1>0, <3>1, MsgType, MethodsFacts DEF AbstractChannelTypeOK
      <3>3. /\ {"ChannelOpenOk"} \in SUBSET Replies /\ "open" \in WaitOps
            /\ "open" \notin {"connclose", "confirm", "select"}
            /\ {"ChannelOpenOk"} \cap {"BasicAck", "BasicNack"} = {}
        BY RepliesFacts DEF WaitOps
      <3>4. wait(stack, "open", c, {"ChannelOpenOk"}, req) \/ UNCHANGED <<stack, pending>>
        BY <2>1 DEF NewChannel
      <3>7. Addressed(c, req)
        <4>1. connection'[c] /\ channel_id'[c] = k
          BY <1>0, <2>1, <3>1 DEF NewChannel, AbstractChannelTypeOK
        <4> QED BY <4>1 DEF Addressed, Msg
      <3> HIDE DEF c, req
      <3>5. CASE wait(stack, "open", c, {"ChannelOpenOk"}, req)
        BY <3>1, <3>2, <3>3, <3>5, <3>7 DEF StackMove, Waits
      <3>6. CASE UNCHANGED <<stack, pending>>
        BY <3>6 DEF StackMove
      <3> QED BY <3>4, <3>5, <3>6
    <2>2. ASSUME NEW e, NoChannel(e) PROVE StackMove
      BY <2>2 DEF NoChannel, Raises, StackMove
    <2>3. id # 0 => id \in Ids
      BY ConnectionAssumption, SpecAssumption DEF Ids, Ids0
    <2> QED BY <1>2, <2>1, <2>2, <2>3, FreeIdType DEF channel
  <1>3. CASE drain_events
    <2> DEFINE f == [op |-> "drain", ch |-> 0, on |-> {}, prev |-> [r \in Replies |-> 0],
                     req |-> NoMsg, got |-> NoMsg, ready |-> FALSE, alone |-> TRUE,
                     shot |-> 0]
    <2>1. f \in Frame /\ f.on = {} /\ f.op \in DrainOps /\ f.op # "publish" /\ f.shot = 0
      BY <1>0, NoMsgType DEF Frame, DrainOps
    <2>2. stack' = Append(stack, f) /\ UNCHANGED pending
      BY <1>3 DEF drain_events
    <2> HIDE DEF f
    <2> QED BY <2>1, <2>2 DEF StackMove, Pushes
  <1>4. CASE Connection_close
    <2> DEFINE req == Msg(0, "ConnectionClose", calls + 1)
    <2>1. req \in Message
      BY <1>0, MsgType, MethodsFacts DEF AbstractChannelTypeOK
    <2>2. /\ {"ConnectionCloseOk"} \in SUBSET Replies /\ "connclose" \in WaitOps
          /\ {"ConnectionCloseOk"} \cap {"BasicAck", "BasicNack"} = {} /\ req.ch = 0
      BY RepliesFacts DEF WaitOps, Msg
    <2>3. \/ /\ wait(stack, "connclose", 0, {"ConnectionCloseOk"}, req)
             /\ connection[0] /\ UNCHANGED <<connection, channel_id>>
          \/ UNCHANGED <<stack, pending>>
      BY <1>4 DEF Connection_close
    <2> HIDE DEF req
    <2>4. CASE /\ wait(stack, "connclose", 0, {"ConnectionCloseOk"}, req)
               /\ connection[0] /\ UNCHANGED <<connection, channel_id>>
      <3>1. Addressed(0, req)
        BY <2>2, <2>4 DEF Addressed
      <3> QED BY <1>0, <2>1, <2>2, <2>4, <3>1 DEF StackMove, Waits
    <2>5. CASE UNCHANGED <<stack, pending>>
      BY <2>5 DEF StackMove
    <2> QED BY <2>3, <2>4, <2>5
  <1> QED BY <1>1, <1>2, <1>3, <1>4 DEF AppCall

\* A method dispatched to the one that waits for it is a move.
LEMMA OneShotMoves ==
  ASSUME AbstractChannelTypeOK, NEW m \in Replies, Dispatches(m), OneShot(Target, m),
         m # "ConnectionCloseOk"
  PROVE  StackMove
  <1>1. Takes /\ In.m = m /\ Receiver(Target)
    BY DEF Dispatches, Receiver
  <1>2. Target \in Obj
    BY <1>1, InType
  <1> QED BY <1>1, <1>2 DEF Fulfils, StackMove

\* A method dispatched to the application is a move.
LEMMA CallBackMoves ==
  ASSUME NEW c \in Obj, NEW m \in Methods, Dispatches(m), CallBack(c, m),
         m \in Replies => m \in ListenedReplies /\ c = Target
  PROVE  StackMove
  BY DEF Dispatches, Receiver, CallsBack, StackMove

\* A handler that does nothing with the stack is a move.
LEMMA EndsMoves ==
  ASSUME Takes, Ends
  PROVE  StackMove
  BY DEF Ends, HandlerEnds, StackMove

\* A step that touches neither _pending nor the stack is a move.
LEMMA SameMoves == UNCHANGED <<stack, pending>> => StackMove
  BY DEF StackMove

\* Leaving a call that is neither a callback nor a close().
LEMMA LeaveMoves ==
  ASSUME NEW ops, Returns(ops) \/ Unwinds(ops),
         ops \cap {"callback", "connclose", "close"} = {}
  PROVE  StackMove
  BY DEF Returns, Unwinds, Leaves, StackMove

\* Every step of wait() and dispatch_method is a move.
LEMMA BaseStepMoves ==
  ASSUME AbstractChannelTypeOK, BaseStep
  PROVE  StackMove
  <1>1. CASE ReturnPlain
    BY <1>1, LeaveMoves DEF ReturnPlain
  <1>2. CASE UnwindPlain
    BY <1>2, LeaveMoves DEF UnwindPlain, DrainOps
  <1>3. CASE UnwindCallback
    BY <1>3 DEF UnwindCallback, Unwinds, Leaves, StackMove
  <1>4. CASE ConnectionGone \/ CallbackCatch \/ Raised \/ ReadFails \/ UnknownChannel
    BY <1>4, SameMoves DEF ConnectionGone, CallbackCatch, Raised, ReadFails, UnknownChannel
  <1>5. CASE Discard
    BY <1>5 DEF Discard, HandlerEnds, StackMove
  <1>6. ASSUME NEW m \in PlainReplies, OnReply(m) PROVE StackMove
    BY <1>6, OneShotMoves DEF OnReply, PlainReplies
  <1> QED BY <1>1, <1>2, <1>3, <1>4, <1>5, <1>6 DEF BaseStep

\* Every handler and return of a channel method is a move.
LEMMA ChannelStepMoves ==
  ASSUME AbstractChannelTypeOK, ChannelStep
  PROVE  StackMove
  <1>1. CASE Channel_on_open_ok \/ on_basic_ack \/ on_basic_nack
    <2>1. PICK m \in ListenedReplies : Dispatches(m) /\ Answered(m)
      BY <1>1 DEF Channel_on_open_ok, on_basic_ack, on_basic_nack, ListenedReplies
    <2>2. m \in Replies /\ m \in Methods /\ m # "ConnectionCloseOk"
      BY RepliesFacts, MethodsFacts DEF ListenedReplies
    <2>3. Target \in Obj
      BY <2>1, InType DEF Dispatches
    <2> QED BY <2>1, <2>2, <2>3, OneShotMoves, CallBackMoves DEF Answered
  <1>2. CASE Channel_on_close_ok \/ on_basic_cancel_ok
    <2>1. PICK m \in {"ChannelCloseOk", "BasicCancelOk"} : Dispatches(m) /\ OneShot(Target, m)
      BY <1>2 DEF Channel_on_close_ok, on_basic_cancel_ok
    <2>2. m \in Replies /\ m # "ConnectionCloseOk"
      BY RepliesFacts
    <2> QED BY <2>1, <2>2, OneShotMoves
  <1>3. CASE on_flow
    <2>1. Takes /\ (Ends \/ UNCHANGED <<stack, pending>>)
      BY <1>3 DEF on_flow, Dispatches
    <2> QED BY <2>1, EndsMoves, SameMoves
  <1>4. CASE on_basic_cancel
    <2>1. /\ Dispatches("BasicCancel")
          /\ CallBack(Target, "BasicCancel") \/ UNCHANGED <<stack, pending>>
      BY <1>4 DEF on_basic_cancel, Raises
    <2>2. Target \in Obj
      BY <2>1, InType DEF Dispatches
    <2> QED BY <2>1, <2>2, NoReplies, CallBackMoves, SameMoves
  <1>5. CASE on_basic_deliver
    <2>1. /\ Dispatches("BasicDeliver")
          /\ CallBack(Target, "BasicDeliver") \/ Ends \/ UNCHANGED <<stack, pending>>
      BY <1>5 DEF on_basic_deliver, Raises
    <2>2. Target \in Obj /\ Takes
      BY <2>1, InType DEF Dispatches
    <2> QED BY <2>1, <2>2, NoReplies, CallBackMoves, EndsMoves, SameMoves
  <1>6. CASE on_basic_return
    <2>1. /\ Dispatches("BasicReturn")
          /\ CallBack(Target, "BasicReturn") \/ UNCHANGED <<stack, pending>>
      BY <1>6 DEF on_basic_return, Raises
    <2>2. Target \in Obj
      BY <2>1, InType DEF Dispatches
    <2> QED BY <2>1, <2>2, NoReplies, CallBackMoves, SameMoves
  <1>7. CASE CloseReturns \/ ReviveReturns \/ ConsumeReturns
    <2>1. CASE CloseReturns
      BY <2>1 DEF CloseReturns, Returns, Unwinds, Leaves, StackMove
    <2> QED BY <1>7, <2>1, LeaveMoves DEF ReviveReturns, ConsumeReturns
  <1>8. CASE Channel_on_close
    <2> DEFINE reopen == Msg(channel_id[Target], "ChannelOpen", 0)
    <2>1. Takes
      BY <1>8 DEF Channel_on_close, Dispatches
    <2>2. \/ Ends \/ UNCHANGED <<stack, pending>>
          \/ /\ wait(Drained(stack), "revive", Target, {"ChannelOpenOk"}, reopen)
             /\ connection[Target] /\ UNCHANGED <<connection, channel_id>>
      BY <1>8 DEF Channel_on_close, Agrees, do_revive, send_method
    <2>3. Target \in Obj
      BY <2>1, InType
    <2>4. reopen \in Message
      BY <2>3, RequestType, MethodsFacts
    <2>5. /\ {"ChannelOpenOk"} \in SUBSET Replies /\ "revive" \in WaitOps
          /\ "revive" \notin {"connclose", "confirm", "select"}
          /\ {"ChannelOpenOk"} \cap {"BasicAck", "BasicNack"} = {}
          /\ reopen.ch = channel_id[Target]
      BY RepliesFacts DEF WaitOps, Msg
    <2> HIDE DEF reopen
    <2>6. CASE /\ wait(Drained(stack), "revive", Target, {"ChannelOpenOk"}, reopen)
               /\ connection[Target] /\ UNCHANGED <<connection, channel_id>>
      <3>1. Addressed(Target, reopen)
        BY <2>5, <2>6 DEF Addressed
      <3> QED BY <2>1, <2>3, <2>4, <2>5, <2>6, <3>1 DEF StackMove, Waits
    <2> QED BY <2>1, <2>2, <2>6, EndsMoves, SameMoves
  <1>9. CASE SelectReturns
    <2>1. stack \in Seq(Frame) /\ stack # <<>> /\ Top \in Frame
      BY <1>9, TopType DEF SelectReturns, AbstractChannelTypeOK
    <2>2. Top.ch \in Obj /\ Top.req.rid \in Nat
      BY <2>1 DEF Frame, Message
    <2>3. /\ UNCHANGED <<connection, channel_id>>
          /\ \/ stack' = Pop(stack)
             \/ /\ stack' = Append(Pop(stack), PublishFrame(Top.ch, Top.req.rid))
                /\ connection[Top.ch]
      BY <1>9 DEF SelectReturns
    <2>4. Publishing(Top.ch)
      BY <1>9 DEF SelectReturns, Publishing
    <2>5. stack' = Pop(stack) \/ Pushes(Pop(stack))
      BY <2>2, <2>3, <2>4, PublishPushes
    <2> QED BY <1>9, <2>5 DEF SelectReturns, SelectEnds, StackMove
  <1>10. CASE PublishWrites
    <2>1. stack \in Seq(Frame) /\ stack # <<>> /\ Top \in Frame /\ Top.op = "publish"
      BY <1>10, TopType DEF PublishWrites, AbstractChannelTypeOK
    <2>2. Top.ch \in Obj /\ Top.req \in Message
      BY <2>1 DEF Frame
    <2>3. {"BasicAck", "BasicNack"} \in SUBSET Replies /\ "confirm" \in WaitOps
          /\ "confirm" \notin {"connclose", "select"}
      BY RepliesFacts DEF WaitOps
    <2>4. \/ stack' = Pop(stack) /\ UNCHANGED pending
          \/ /\ wait(Pop(stack), "confirm", Top.ch, {"BasicAck", "BasicNack"}, Top.req)
             /\ ConfirmPublish
      BY <1>10 DEF PublishWrites
    <2>5. CASE /\ wait(Pop(stack), "confirm", Top.ch, {"BasicAck", "BasicNack"}, Top.req)
               /\ ConfirmPublish
      <3>0. Addressed(Top.ch, Top.req)
        BY <2>1 DEF Addressed
      <3>1. Waits(Pop(stack))
        BY <2>2, <2>3, <2>5, <3>0 DEF Waits
      <3> QED BY <2>1, <3>1 DEF Continues, StackMove
    <2> QED BY <2>1, <2>4, <2>5 DEF Continues, StackMove
  <1> QED BY <1>1, <1>2, <1>3, <1>4, <1>5, <1>6, <1>7, <1>8, <1>9, <1>10 DEF ChannelStep

\* Every handler and return of a connection method is a move.
LEMMA ConnectionStepMoves ==
  ASSUME AbstractChannelTypeOK, ConnectionStep
  PROVE  StackMove
  <1>0. 0 \in Obj
    BY SpecAssumption DEF Obj
  <1>1. CASE Connection_on_close_ok
    <2>1. Takes /\ In.m = "ConnectionCloseOk" /\ OneShot(0, "ConnectionCloseOk")
      BY <1>1 DEF Connection_on_close_ok, Dispatches
    <2>2. ~connection'[0]
      BY <1>0, <1>1 DEF Connection_on_close_ok, Connection_collect
    <2>3. "ConnectionCloseOk" \in Replies /\ Receiver(0)
      BY <2>1, RepliesFacts DEF Receiver
    <2> QED BY <1>0, <2>1, <2>2, <2>3 DEF Fulfils, StackMove
  <1>2. CASE Connection_on_close
    BY <1>2, SameMoves DEF Connection_on_close, Raises
  <1>3. ASSUME NEW m \in {"ConnectionBlocked", "ConnectionUnblocked"}, on_blocked(m)
        PROVE  StackMove
    <2>1. Dispatches(m) /\ Takes /\ (CallBack(0, m) \/ Ends)
      BY <1>3 DEF on_blocked, Dispatches
    <2> QED BY <1>0, <2>1, NoReplies, CallBackMoves, EndsMoves
  <1>4. CASE ConnectionCloseReturns
    <2>1. Leave /\ Top.op = "connclose"
      BY <1>4 DEF ConnectionCloseReturns, CloseFails, Returns, Unwinds
    <2> QED BY <1>4, <2>1 DEF Leaves, StackMove
  <1> QED BY <1>1, <1>2, <1>3, <1>4 DEF ConnectionStep

\* Every step of the specification is a move.
LEMMA NextMoves ==
  ASSUME TypeOK, [Next]_vars
  PROVE  StackMove
  <1>1. CASE BaseStep \/ ChannelStep \/ ConnectionStep
    BY <1>1, BaseStepMoves, ChannelStepMoves, ConnectionStepMoves DEF TypeOK
  <1>2. CASE CallbackEnds
    BY <1>2 DEF CallbackEnds, StackMove
  <1>3. CASE TimesOut
    BY <1>3, SameMoves DEF TimesOut, ReadTimesOut
  <1>4. CASE BrokerStep
    BY <1>4, BrokerKeepsClient, SameMoves DEF clientVars
  <1>5. CASE UNCHANGED vars
    BY <1>5, SameMoves DEF vars, clientVars
  <1> QED BY <1>1, <1>2, <1>3, <1>4, <1>5, AppCallMoves DEF Next, LibraryStep, Idle
-----------------------------------------------------------------------------
(* What has to be shown, as predicates of _pending (p) and the stack (s).  *)

(* A callback that was called for a reply holds the promise of a call      *)
(* further out that waits for this reply.                                  *)
ShotsOK(s) ==
  \A i \in 1 .. Len(s) : s[i].shot # 0 =>
    /\ s[i].op = "callback" /\ s[i].shot < i
    /\ s[i].req.m \in ListenedReplies /\ s[i].req.m \in s[s[i].shot].on

(* Connection.close() waits for Close-Ok of the connection. *)
ClosesOK(s) ==
  \A i \in 1 .. Len(s) : s[i].op = "connclose" => s[i].on = {"ConnectionCloseOk"}

(* What is registered for a method, or will be put back by a nested call,  *)
(* is not the promise of a call further out than one that waits for it.    *)
Order(p, s) ==
  \A i \in 1 .. Len(s) : \A m \in s[i].on :
    /\ p[s[i].ch][m] = 0 \/ p[s[i].ch][m] >= i
    /\ \A j \in i + 1 .. Len(s) : s[j].ch = s[i].ch /\ m \in s[j].on =>
         s[j].prev[m] = 0 \/ s[j].prev[m] >= i

(* The promise of a frame has been called. *)
Called(f) == f.ready \/ f.got # NoMsg

(* Something leads to the promise of frame i for method m. *)
Held(p, s, i, m) ==
  \/ p[s[i].ch][m] = i
  \/ \E j \in i + 1 .. Len(s) :
       \/ s[j].ch = s[i].ch /\ m \in s[j].on /\ s[j].prev[m] = i
       \/ s[j].shot = i

Kept(p, s) ==
  \A i \in 1 .. Len(s) : \A m \in s[i].on : Called(s[i]) \/ Held(p, s, i, m)

(* The invariant of the stack. *)
CallsOK(p, s) == Order(p, s) /\ ShotsOK(s) /\ ClosesOK(s)

-----------------------------------------------------------------------------
(* The moves, by what they do to _pending and the stack.                   *)

(* Method msg is there for frame b: it is read, or a callback for it       *)
(* returns.                                                                *)
Brings(msg, b) ==
  \/ Takes /\ msg = In /\ Receiver(b.ch)
  \/ /\ stack # <<>> /\ Top.shot # 0 /\ msg = Top.req
     /\ b.req = stack[Top.shot].req /\ (b.alone => stack[Top.shot].alone)

(* The promise of frame b is called. *)
Gets(b) == /\ b.got.m \in b.on /\ (b.ready => b.got.m # "BasicNack")
           /\ Brings(b.got, b)

(* A new frame: what it waits for, and what it was sent with. *)
Comes(f) ==
  /\ f.op = "connclose" => f.on = {"ConnectionCloseOk"}
  /\ f.op = "confirm" => f.on = {"BasicAck", "BasicNack"}
  /\ f.on \cap {"BasicAck", "BasicNack"} # {} => ConfirmPublish
  /\ f.op = "publish" => f.req.m = "BasicPublish" /\ ~f.req.nowait
  /\ f.op \in WaitOps \cup {"publish"} => Addressed(f.ch, f.req)
  /\ f.op \in {"publish", "select"} => Publishing(f.ch)
  /\ f.op \in WaitOps => ~f.ready /\ (f.alone => ~Outstanding(f.ch, f.req.ch, f.on))

(* A frame that stays where it is.  A promise called is not uncalled, and  *)
(* that of Connection.close() is called when the connection is collected.  *)
Like(a, b) ==
  /\ b.op = a.op /\ b.ch = a.ch /\ b.on = a.on /\ b.prev = a.prev
  /\ b.shot = a.shot /\ b.req = a.req
  /\ Called(a) => Called(b)
  /\ b.op = "connclose" /\ b.ready => a.ready \/ ~connection'[0]
  /\ b.alone => a.alone
  /\ b.op \in WaitOps => (b.got = a.got /\ (b.ready <=> a.ready)) \/ Gets(b)

(* No frame comes or goes; a promise taken out of p is called. *)
Stays(p, s, q, t) ==
  /\ Len(t) = Len(s)
  /\ \A i \in 1 .. Len(s) : Like(s[i], t[i])
  /\ \A d \in Obj, n \in Replies :
       \/ q[d][n] = p[d][n]
       \/ q[d][n] = 0 /\ (p[d][n] # 0 => Called(t[p[d][n]]))

(* A frame comes; it takes the promise it was called for, or displaces     *)
(* those registered for what it waits for.                                 *)
Grows(p, s, q, t) ==
  LET f == t[Len(s) + 1] IN
  /\ Len(t) = Len(s) + 1
  /\ \A i \in 1 .. Len(s) : Like(s[i], t[i])
  /\ \A d \in Obj, n \in Replies :
       IF d = f.ch /\ n \in f.on
       THEN q[d][n] = Len(s) + 1 /\ f.prev[n] = p[d][n]
       ELSE q[d][n] = p[d][n] \/ (q[d][n] = 0 /\ p[d][n] = f.shot)
  /\ f.shot # 0 => /\ f.op = "callback" /\ f.shot \in 1 .. Len(s)
                   /\ f.req.m \in ListenedReplies /\ f.req.m \in s[f.shot].on
                   /\ Takes /\ f.req = In /\ Receiver(s[f.shot].ch)
  /\ Comes(f)

(* A frame goes, and puts back what it displaced; unless an exception is   *)
(* raised, the promise it took has been called.                            *)
Shrinks(p, s, q, t) ==
  LET f == s[Len(s)] IN
  /\ Len(s) > 0 /\ Len(t) = Len(s) - 1
  /\ \A i \in 1 .. Len(s) - 1 : Like(s[i], t[i])
  /\ \A d \in Obj, n \in Replies :
       q[d][n] = IF d = f.ch /\ n \in f.on THEN f.prev[n] ELSE p[d][n]
  /\ f.shot # 0 => exc' # "none" \/ Called(t[f.shot])

PendingType == [Obj -> [Replies -> Nat]]

-----------------------------------------------------------------------------
(* The invariant of the stack, by kind of move.                            *)

\* CallsOK is preserved when no frame comes or goes.
LEMMA CallsStay ==
  ASSUME NEW p \in PendingType, NEW q \in PendingType, NEW s \in Seq(Frame), NEW t \in Seq(Frame),
         CallsOK(p, s), Stays(p, s, q, t)
  PROVE  CallsOK(q, t)
  <1>1. Len(s) \in Nat /\ Len(t) = Len(s) /\ \A i \in 1 .. Len(s) : Like(s[i], t[i])
    BY LenProperties DEF Stays
  <1>2. Order(q, t)
    <2> SUFFICES ASSUME NEW i \in 1 .. Len(t), NEW m \in t[i].on
                 PROVE  /\ q[t[i].ch][m] = 0 \/ q[t[i].ch][m] >= i
                        /\ \A j \in i + 1 .. Len(t) : t[j].ch = t[i].ch /\ m \in t[j].on =>
                             t[j].prev[m] = 0 \/ t[j].prev[m] >= i
      BY DEF Order
    <2>1. i \in 1 .. Len(s) /\ m \in s[i].on /\ t[i].ch = s[i].ch
      BY <1>1 DEF Like
    <2>2. s[i].ch \in Obj /\ m \in Replies
      BY <2>1, FrameTypes
    <2>3. q[s[i].ch][m] = p[s[i].ch][m] \/ q[s[i].ch][m] = 0
      BY <2>2 DEF Stays
    <2>4. p[s[i].ch][m] = 0 \/ p[s[i].ch][m] >= i
      BY <2>1 DEF CallsOK, Order
    <2>5. ASSUME NEW j \in i + 1 .. Len(t), t[j].ch = t[i].ch, m \in t[j].on
          PROVE  t[j].prev[m] = 0 \/ t[j].prev[m] >= i
      <3>1. j \in i + 1 .. Len(s) /\ s[j].ch = s[i].ch /\ m \in s[j].on /\ t[j].prev = s[j].prev
        BY <1>1, <2>1, <2>5 DEF Like
      <3> QED BY <2>1, <3>1 DEF CallsOK, Order
    <2> QED BY <2>1, <2>3, <2>4, <2>5
  <1>3. ShotsOK(t)
    <2> SUFFICES ASSUME NEW i \in 1 .. Len(t), t[i].shot # 0
                 PROVE  /\ t[i].op = "callback" /\ t[i].shot < i
                        /\ t[i].req.m \in ListenedReplies /\ t[i].req.m \in t[t[i].shot].on
      BY DEF ShotsOK
    <2>1. i \in 1 .. Len(s) /\ t[i].shot = s[i].shot /\ t[i].op = s[i].op /\ t[i].req = s[i].req
      BY <1>1 DEF Like
    <2>2. /\ s[i].op = "callback" /\ s[i].shot < i
          /\ s[i].req.m \in ListenedReplies /\ s[i].req.m \in s[s[i].shot].on
      BY <2>1 DEF CallsOK, ShotsOK
    <2>3. s[i].shot \in Nat
      BY <2>1, FrameTypes DEF Frame
    <2>4. s[i].shot \in 1 .. Len(s)
      BY <1>1, <2>1, <2>2, <2>3
    <2>5. t[s[i].shot].on = s[s[i].shot].on
      BY <1>1, <2>4 DEF Like
    <2> QED BY <2>1, <2>2, <2>5
  <1>4. ClosesOK(t)
    BY <1>1 DEF CallsOK, ClosesOK, Like
  <1> QED BY <1>2, <1>3, <1>4 DEF CallsOK

\* CallsOK is preserved when a frame comes.
LEMMA CallsGrow ==
  ASSUME NEW p \in PendingType, NEW q \in PendingType, NEW s \in Seq(Frame), NEW t \in Seq(Frame),
         CallsOK(p, s), Grows(p, s, q, t)
  PROVE  CallsOK(q, t)
  <1> DEFINE L == Len(s) + 1
  <1>1. Len(s) \in Nat /\ Len(t) = L /\ \A i \in 1 .. Len(s) : Like(s[i], t[i])
    BY LenProperties DEF Grows
  <1>2. Order(q, t)
    <2> SUFFICES ASSUME NEW i \in 1 .. Len(t), NEW m \in t[i].on
                 PROVE  /\ q[t[i].ch][m] = 0 \/ q[t[i].ch][m] >= i
                        /\ \A j \in i + 1 .. Len(t) : t[j].ch = t[i].ch /\ m \in t[j].on =>
                             t[j].prev[m] = 0 \/ t[j].prev[m] >= i
      BY DEF Order
    <2>1. t[i].ch \in Obj /\ m \in Replies
      BY FrameTypes
    <2>2. CASE i = L
      <3>1. q[t[i].ch][m] = L
        BY <2>1, <2>2 DEF Grows
      <3> QED BY <1>1, <2>2, <3>1
    <2>3. CASE i # L
      <3>1. i \in 1 .. Len(s) /\ m \in s[i].on /\ t[i].ch = s[i].ch
        BY <1>1, <2>3 DEF Like
      <3>2. p[s[i].ch][m] = 0 \/ p[s[i].ch][m] >= i
        BY <3>1 DEF CallsOK, Order
      <3>3. q[s[i].ch][m] \in {p[s[i].ch][m], 0, L}
        BY <2>1, <3>1 DEF Grows
      <3>4. ASSUME NEW j \in i + 1 .. Len(t), t[j].ch = t[i].ch, m \in t[j].on
            PROVE  t[j].prev[m] = 0 \/ t[j].prev[m] >= i
        <4>1. CASE j = L
          <5>1. t[j].prev[m] = p[s[i].ch][m]
            BY <2>1, <3>1, <3>4, <4>1 DEF Grows
          <5> QED BY <3>2, <5>1
        <4>2. CASE j # L
          <5>1. j \in i + 1 .. Len(s) /\ j \in 1 .. Len(s)
            BY <1>1, <3>1, <4>2
          <5>2. s[j].ch = s[i].ch /\ m \in s[j].on /\ t[j].prev = s[j].prev
            BY <1>1, <3>1, <3>4, <5>1 DEF Like
          <5> QED BY <3>1, <5>1, <5>2 DEF CallsOK, Order
        <4> QED BY <4>1, <4>2
      <3> QED BY <1>1, <3>1, <3>2, <3>3, <3>4
    <2> QED BY <2>2, <2>3
  <1>3. ShotsOK(t)
    <2> SUFFICES ASSUME NEW i \in 1 .. Len(t), t[i].shot # 0
                 PROVE  /\ t[i].op = "callback" /\ t[i].shot < i
                        /\ t[i].req.m \in ListenedReplies /\ t[i].req.m \in t[t[i].shot].on
      BY DEF ShotsOK
    <2>1. \A k \in 1 .. Len(s) : t[k].on = s[k].on
      BY <1>1 DEF Like
    <2>2. CASE i = L
      <3>1. /\ t[i].op = "callback" /\ t[i].shot \in 1 .. Len(s)
            /\ t[i].req.m \in ListenedReplies /\ t[i].req.m \in s[t[i].shot].on
        BY <2>2 DEF Grows
      <3> QED BY <1>1, <2>1, <2>2, <3>1
    <2>3. CASE i # L
      <3>1. i \in 1 .. Len(s)
        BY <1>1, <2>3
      <3>2. t[i].shot = s[i].shot /\ t[i].op = s[i].op /\ t[i].req = s[i].req
        BY <1>1, <3>1 DEF Like
      <3>3. /\ s[i].op = "callback" /\ s[i].shot < i
            /\ s[i].req.m \in ListenedReplies /\ s[i].req.m \in s[s[i].shot].on
        BY <3>1, <3>2 DEF CallsOK, ShotsOK
      <3>4. s[i].shot \in Nat
        BY <3>1, FrameTypes DEF Frame
      <3>5. s[i].shot \in 1 .. Len(s)
        BY <1>1, <3>1, <3>2, <3>3, <3>4
      <3> QED BY <2>1, <3>2, <3>3, <3>5
    <2> QED BY <2>2, <2>3
  <1>4. ClosesOK(t)
    <2> SUFFICES ASSUME NEW i \in 1 .. Len(t), t[i].op = "connclose"
                 PROVE  t[i].on = {"ConnectionCloseOk"}
      BY DEF ClosesOK
    <2>1. CASE i = L
      BY <2>1 DEF Grows, Comes
    <2>2. CASE i # L
      <3>1. i \in 1 .. Len(s)
        BY <1>1, <2>2
      <3> QED BY <1>1, <3>1 DEF Like, CallsOK, ClosesOK
    <2> QED BY <2>1, <2>2
  <1> QED BY <1>2, <1>3, <1>4 DEF CallsOK

\* CallsOK is preserved when a frame goes.
LEMMA CallsShrink ==
  ASSUME NEW p \in PendingType, NEW q \in PendingType, NEW s \in Seq(Frame), NEW t \in Seq(Frame),
         CallsOK(p, s), Shrinks(p, s, q, t)
  PROVE  CallsOK(q, t)
  <1> DEFINE L == Len(s)
  <1>1. L \in Nat /\ L > 0 /\ Len(t) = L - 1 /\ L \in 1 .. Len(s)
    BY LenProperties DEF Shrinks
  <1>a. \A i \in 1 .. L - 1 : Like(s[i], t[i])
    BY DEF Shrinks
  <1>2. Order(q, t)
    <2> SUFFICES ASSUME NEW i \in 1 .. Len(t), NEW m \in t[i].on
                 PROVE  /\ q[t[i].ch][m] = 0 \/ q[t[i].ch][m] >= i
                        /\ \A j \in i + 1 .. Len(t) : t[j].ch = t[i].ch /\ m \in t[j].on =>
                             t[j].prev[m] = 0 \/ t[j].prev[m] >= i
      BY DEF Order
    <2>1. t[i].ch \in Obj /\ m \in Replies
      BY FrameTypes
    <2>2. i \in 1 .. L - 1 /\ i \in 1 .. Len(s) /\ L \in i + 1 .. Len(s)
      BY <1>1
    <2>3. m \in s[i].on /\ t[i].ch = s[i].ch
      BY <1>a, <2>2 DEF Like
    <2>4. /\ p[s[i].ch][m] = 0 \/ p[s[i].ch][m] >= i
          /\ \A j \in i + 1 .. Len(s) : s[j].ch = s[i].ch /\ m \in s[j].on =>
               s[j].prev[m] = 0 \/ s[j].prev[m] >= i
      BY <2>2, <2>3 DEF CallsOK, Order
    <2>5. q[t[i].ch][m] = IF t[i].ch = s[L].ch /\ m \in s[L].on THEN s[L].prev[m]
                                                                ELSE p[t[i].ch][m]
      BY <2>1 DEF Shrinks
    <2>6. ASSUME NEW j \in i + 1 .. Len(t), t[j].ch = t[i].ch, m \in t[j].on
          PROVE  t[j].prev[m] = 0 \/ t[j].prev[m] >= i
      <3>1. j \in i + 1 .. Len(s) /\ j \in 1 .. L - 1
        BY <1>1, <2>2
      <3>2. s[j].ch = s[i].ch /\ m \in s[j].on /\ t[j].prev = s[j].prev
        BY <1>a, <2>3, <2>6, <3>1 DEF Like
      <3> QED BY <2>4, <3>1, <3>2
    <2> QED BY <2>2, <2>3, <2>4, <2>5, <2>6
  <1>3. ShotsOK(t)
    <2> SUFFICES ASSUME NEW i \in 1 .. Len(t), t[i].shot # 0
                 PROVE  /\ t[i].op = "callback" /\ t[i].shot < i
                        /\ t[i].req.m \in ListenedReplies /\ t[i].req.m \in t[t[i].shot].on
      BY DEF ShotsOK
    <2>1. i \in 1 .. L - 1 /\ i \in 1 .. Len(s)
      BY <1>1
    <2>2. t[i].shot = s[i].shot /\ t[i].op = s[i].op /\ t[i].req = s[i].req
      BY <1>a, <2>1 DEF Like
    <2>3. /\ s[i].op = "callback" /\ s[i].shot < i
          /\ s[i].req.m \in ListenedReplies /\ s[i].req.m \in s[s[i].shot].on
      BY <2>1, <2>2 DEF CallsOK, ShotsOK
    <2>4. s[i].shot \in Nat
      BY <2>1, FrameTypes DEF Frame
    <2>5. s[i].shot \in 1 .. L - 1
      BY <1>1, <2>1, <2>2, <2>3, <2>4
    <2>6. t[s[i].shot].on = s[s[i].shot].on
      BY <1>a, <2>5 DEF Like
    <2> QED BY <2>2, <2>3, <2>6
  <1>4. ClosesOK(t)
    <2> SUFFICES ASSUME NEW i \in 1 .. Len(t), t[i].op = "connclose"
                 PROVE  t[i].on = {"ConnectionCloseOk"}
      BY DEF ClosesOK
    <2>1. i \in 1 .. L - 1 /\ i \in 1 .. Len(s)
      BY <1>1
    <2> QED BY <1>a, <2>1 DEF Like, CallsOK, ClosesOK
  <1> QED BY <1>2, <1>3, <1>4 DEF CallsOK
-----------------------------------------------------------------------------
(* No promise is lost, by kind of move.                                    *)

\* Nothing is lost when no frame comes or goes: what is taken is called.
LEMMA KeptStays ==
  ASSUME NEW p \in PendingType, NEW q \in PendingType, NEW s \in Seq(Frame), NEW t \in Seq(Frame),
         Kept(p, s), Stays(p, s, q, t)
  PROVE  Kept(q, t)
  <1>1. Len(s) \in Nat /\ Len(t) = Len(s) /\ \A i \in 1 .. Len(s) : Like(s[i], t[i])
    BY LenProperties DEF Stays
  <1> SUFFICES ASSUME NEW i \in 1 .. Len(t), NEW m \in t[i].on, ~Called(t[i])
               PROVE  Held(q, t, i, m)
    BY DEF Kept
  <1>2. i \in 1 .. Len(s) /\ m \in s[i].on /\ t[i].ch = s[i].ch /\ ~Called(s[i])
    BY <1>1 DEF Like
  <1>3. s[i].ch \in Obj /\ m \in Replies
    BY <1>2, FrameTypes
  <1>4. Held(p, s, i, m)
    BY <1>2 DEF Kept
  <1>5. CASE p[s[i].ch][m] = i
    <2>1. q[s[i].ch][m] = i
      BY <1>3, <1>5 DEF Stays
    <2> QED BY <1>2, <2>1 DEF Held
  <1>6. ASSUME NEW j \in i + 1 .. Len(s),
               \/ s[j].ch = s[i].ch /\ m \in s[j].on /\ s[j].prev[m] = i
               \/ s[j].shot = i
        PROVE  Held(q, t, i, m)
    <2>1. j \in 1 .. Len(s) /\ j \in i + 1 .. Len(t)
      BY <1>1, <1>2
    <2>2. t[j].ch = s[j].ch /\ t[j].on = s[j].on /\ t[j].prev = s[j].prev /\ t[j].shot = s[j].shot
      BY <1>1, <2>1 DEF Like
    <2> QED BY <1>2, <1>6, <2>1, <2>2 DEF Held
  <1> QED BY <1>4, <1>5, <1>6 DEF Held

\* Nothing is lost when a frame comes: it remembers what it takes.
LEMMA KeptGrows ==
  ASSUME NEW p \in PendingType, NEW q \in PendingType, NEW s \in Seq(Frame), NEW t \in Seq(Frame),
         Kept(p, s), Grows(p, s, q, t)
  PROVE  Kept(q, t)
  <1> DEFINE L == Len(s) + 1
             f == t[L]
  <1>1. Len(s) \in Nat /\ Len(t) = L /\ \A i \in 1 .. Len(s) : Like(s[i], t[i])
    BY LenProperties DEF Grows
  <1> SUFFICES ASSUME NEW i \in 1 .. Len(t), NEW m \in t[i].on, ~Called(t[i])
               PROVE  Held(q, t, i, m)
    BY DEF Kept
  <1>2. t[i].ch \in Obj /\ m \in Replies
    BY FrameTypes
  <1>3. CASE i = L
    <2>1. q[t[i].ch][m] = i
      BY <1>2, <1>3 DEF Grows
    <2> QED BY <2>1 DEF Held
  <1>4. CASE i # L
    <2>1. i \in 1 .. Len(s) /\ L \in i + 1 .. Len(t)
      BY <1>1, <1>4
    <2>2. m \in s[i].on /\ t[i].ch = s[i].ch /\ ~Called(s[i])
      BY <1>1, <2>1 DEF Like
    <2>3. Held(p, s, i, m)
      BY <2>1, <2>2 DEF Kept
    <2>4. CASE p[s[i].ch][m] = i
      <3>1. CASE s[i].ch = f.ch /\ m \in f.on
        <4>1. f.prev[m] = i
          BY <1>2, <2>2, <2>4, <3>1 DEF Grows
        <4> QED BY <2>1, <2>2, <3>1, <4>1 DEF Held
      <3>2. CASE ~(s[i].ch = f.ch /\ m \in f.on)
        <4>1. q[s[i].ch][m] = i \/ f.shot = i
          BY <1>2, <2>2, <2>4, <3>2 DEF Grows
        <4> QED BY <2>1, <2>2, <4>1 DEF Held
      <3> QED BY <3>1, <3>2
    <2>5. ASSUME NEW j \in i + 1 .. Len(s),
                 \/ s[j].ch = s[i].ch /\ m \in s[j].on /\ s[j].prev[m] = i
                 \/ s[j].shot = i
          PROVE  Held(q, t, i, m)
      <3>1. j \in 1 .. Len(s) /\ j \in i + 1 .. Len(t)
        BY <1>1, <2>1
      <3>2. t[j].ch = s[j].ch /\ t[j].on = s[j].on /\ t[j].prev = s[j].prev /\ t[j].shot = s[j].shot
        BY <1>1, <3>1 DEF Like
      <3> QED BY <2>2, <2>5, <3>1, <3>2 DEF Held
    <2> QED BY <2>3, <2>4, <2>5 DEF Held
  <1> QED BY <1>3, <1>4

\* Nothing is lost when a frame goes, unless by an exception: the promises
\* it has displaced are put back, and by Order over none further out.
LEMMA KeptShrinks ==
  ASSUME NEW p \in PendingType, NEW q \in PendingType, NEW s \in Seq(Frame), NEW t \in Seq(Frame),
         CallsOK(p, s), Kept(p, s), Shrinks(p, s, q, t), exc' = "none"
  PROVE  Kept(q, t)
  <1> DEFINE L == Len(s)
             f == s[L]
  <1>1. L \in Nat /\ L > 0 /\ Len(t) = L - 1 /\ L \in 1 .. Len(s)
    BY LenProperties DEF Shrinks
  <1>a. \A i \in 1 .. L - 1 : Like(s[i], t[i])
    BY DEF Shrinks
  <1> SUFFICES ASSUME NEW i \in 1 .. Len(t), NEW m \in t[i].on, ~Called(t[i])
               PROVE  Held(q, t, i, m)
    BY DEF Kept
  <1>2. t[i].ch \in Obj /\ m \in Replies
    BY FrameTypes
  <1>3. i \in 1 .. L - 1 /\ i \in 1 .. Len(s) /\ L \in i + 1 .. Len(s)
    BY <1>1
  <1>4. m \in s[i].on /\ t[i].ch = s[i].ch /\ ~Called(s[i])
    BY <1>a, <1>3 DEF Like
  <1>5. Held(p, s, i, m)
    BY <1>3, <1>4 DEF Kept
  <1>6. q[t[i].ch][m] = IF t[i].ch = f.ch /\ m \in f.on THEN f.prev[m] ELSE p[t[i].ch][m]
    BY <1>2 DEF Shrinks
  <1>7. CASE p[s[i].ch][m] = i
    <2>1. ~(t[i].ch = f.ch /\ m \in f.on)
      <3> SUFFICES ASSUME t[i].ch = f.ch, m \in f.on PROVE FALSE
        OBVIOUS
      <3>1. p[f.ch][m] = 0 \/ p[f.ch][m] >= L
        BY <1>1 DEF CallsOK, Order
      <3> QED BY <1>1, <1>3, <1>4, <1>7, <3>1
    <2> QED BY <1>4, <1>6, <1>7, <2>1 DEF Held
  <1>8. ASSUME NEW j \in i + 1 .. Len(s),
               \/ s[j].ch = s[i].ch /\ m \in s[j].on /\ s[j].prev[m] = i
               \/ s[j].shot = i
        PROVE  Held(q, t, i, m)
    <2>1. CASE j = L
      <3>1. f.shot # i
        <4> SUFFICES ASSUME f.shot = i PROVE FALSE
          OBVIOUS
        <4>1. f.shot # 0
          BY <1>3
        <4>2. Called(t[f.shot])
          BY <4>1 DEF Shrinks
        <4> QED BY <4>2
      <3>2. f.ch = s[i].ch /\ m \in f.on /\ f.prev[m] = i
        BY <1>8, <2>1, <3>1
      <3> QED BY <1>4, <1>6, <3>2 DEF Held
    <2>2. CASE j # L
      <3>1. j \in 1 .. L - 1 /\ j \in i + 1 .. Len(t)
        BY <1>1, <1>3, <2>2
      <3>2. t[j].ch = s[j].ch /\ t[j].on = s[j].on /\ t[j].prev = s[j].prev /\ t[j].shot = s[j].shot
        BY <1>a, <3>1 DEF Like
      <3> QED BY <1>4, <1>8, <3>1, <3>2 DEF Held
    <2> QED BY <2>1, <2>2
  <1> QED BY <1>5, <1>7, <1>8 DEF Held
-----------------------------------------------------------------------------
(* The kinds of the moves.                                                 *)

\* A frame is like itself.
LEMMA LikeSelf == \A f : Like(f, f)
  BY DEF Like

\* A sequence that differs from s in one place, by a frame like that of s.
LEMMA ExceptLike ==
  ASSUME NEW s \in Seq(Frame), NEW k \in 1 .. Len(s), NEW f \in Frame, Like(s[k], f)
  PROVE  /\ Len([s EXCEPT ![k] = f]) = Len(s)
         /\ [s EXCEPT ![k] = f][k] = f
         /\ \A i \in 1 .. Len(s) : Like(s[i], [s EXCEPT ![k] = f][i])
  <1> DEFINE t == [s EXCEPT ![k] = f]
  <1>1. /\ Len(t) = Len(s)
        /\ \A j \in 1 .. Len(s) : t[j] = IF j = k THEN f ELSE s[j]
    BY ExceptSeq
  <1> HIDE DEF t
  <1>2. ASSUME NEW i \in 1 .. Len(s) PROVE Like(s[i], t[i])
    BY <1>1, LikeSelf
  <1>3. t[k] = f
    BY <1>1
  <1> QED BY <1>1, <1>2, <1>3 DEF t

\* Marking a drain frame as done leaves the frames alike.
LEMMA DrainedLike ==
  ASSUME NEW s \in Seq(Frame), s # <<>>
  PROVE  /\ Len(Drained(s)) = Len(s)
         /\ \A i \in 1 .. Len(s) : Like(s[i], Drained(s)[i])
  <1>1. Len(s) \in 1 .. Len(s) /\ s[Len(s)] \in Frame
    BY EmptySeq, ElementOfSeq
  <1> DEFINE g == s[Len(s)]
             f == [g EXCEPT !.ready = @ \/ g.op \in DrainOps]
  <1>2. f \in Frame
    BY <1>1 DEF Frame
  <1>3. Drained(s) = [s EXCEPT ![Len(s)] = f]
    BY DEF Drained
  <1>4. /\ f.op = g.op /\ f.ch = g.ch /\ f.on = g.on /\ f.prev = g.prev
        /\ f.shot = g.shot /\ f.req = g.req /\ f.got = g.got /\ f.alone = g.alone
    BY <1>1 DEF Frame
  <1>5. f.ready <=> g.ready \/ g.op \in DrainOps
    BY <1>1 DEF Frame
  <1>6. Like(g, f)
    <2> HIDE DEF f, g
    <2> QED BY <1>4, <1>5 DEF Like, Called, DrainOps, WaitOps
  <1> HIDE DEF f
  <1> QED BY <1>1, <1>2, <1>3, <1>6, ExceptLike

\* Calling a promise leaves the frames alike, and its own called; the
\* promise of Connection.close() when the connection is collected only.
LEMMA FulfilledLike ==
  ASSUME NEW s \in Seq(Frame), NEW p \in Nat, NEW msg \in Message, msg.m # "none",
         p \in 1 .. Len(s) => /\ s[p].op = "connclose" => ~connection'[0]
                              /\ msg.m \in s[p].on /\ Brings(msg, s[p])
  PROVE  /\ Len(Fulfilled(s, p, msg)) = Len(s)
         /\ \A i \in 1 .. Len(s) : Like(s[i], Fulfilled(s, p, msg)[i])
         /\ p \in 1 .. Len(s) => Called(Fulfilled(s, p, msg)[p])
  <1>0. DOMAIN s = 1 .. Len(s)
    BY LenProperties
  <1>1. CASE p \notin 1 .. Len(s)
    <2>1. Fulfilled(s, p, msg) = s
      BY <1>0, <1>1 DEF Fulfilled
    <2> QED BY <1>1, <2>1, LikeSelf
  <1>2. CASE p \in 1 .. Len(s) /\ msg.m = "BasicNack" /\ s[p].ready
    <2>1. Fulfilled(s, p, msg) = s
      BY <1>2 DEF Fulfilled
    <2>2. Called(s[p])
      BY <1>2 DEF Called
    <2> QED BY <2>1, <2>2, LikeSelf
  <1>3. CASE p \in 1 .. Len(s) /\ ~(msg.m = "BasicNack" /\ s[p].ready)
    <2>1. s[p] \in Frame
      BY <1>3, ElementOfSeq
    <2> DEFINE g == s[p]
               f == [g EXCEPT !.got = msg, !.ready = msg.m # "BasicNack"]
    <2>2. f \in Frame
      BY <2>1 DEF Frame
    <2>3. Fulfilled(s, p, msg) = [s EXCEPT ![p] = f]
      BY <1>0, <1>3 DEF Fulfilled
    <2>4. /\ f.op = g.op /\ f.ch = g.ch /\ f.on = g.on /\ f.prev = g.prev
          /\ f.shot = g.shot /\ f.req = g.req /\ f.got = msg /\ f.alone = g.alone
          /\ f.ready => msg.m # "BasicNack"
      BY <2>1 DEF Frame
    <2>5. msg # NoMsg
      BY DEF NoMsg, Msg
    <2>6. Called(f)
      <3> HIDE DEF f, g
      <3> QED BY <2>4, <2>5 DEF Called
    <2>7. Like(g, f)
      <3>1. f.op = "connclose" => ~connection'[0]
        BY <1>3, <2>4
      <3>2. msg.m \in f.on /\ Brings(msg, g)
        BY <1>3, <2>4
      <3> HIDE DEF f, g
      <3>3. Gets(f)
        BY <2>4, <3>2 DEF Gets, Brings
      <3> QED BY <2>4, <2>6, <3>1, <3>3 DEF Like
    <2> HIDE DEF f
    <2> QED BY <1>3, <2>2, <2>3, <2>6, <2>7, ExceptLike
  <1> QED BY <1>1, <1>2, <1>3

\* Calls that are not alone any more stay where they are.
LEMMA CrowdedLike ==
  ASSUME NEW s \in Seq(Frame), NEW c \in Obj, NEW on \in SUBSET Replies
  PROVE  /\ Len(Crowded(s, c, on)) = Len(s)
         /\ \A i \in 1 .. Len(s) : Like(s[i], Crowded(s, c, on)[i])
  <1>1. Len(s) \in Nat /\ DOMAIN s = 1 .. Len(s) /\ \A i \in 1 .. Len(s) : s[i] \in Frame
    BY LenProperties
  <1> DEFINE t == Crowded(s, c, on)
  <1>2. ASSUME NEW i \in 1 .. Len(s) PROVE Like(s[i], t[i])
    <2>1. s[i] \in Frame
      BY <1>1
    <2>2. t[i] = [s[i] EXCEPT !.alone = @ /\ ~(s[i].ch = c /\ s[i].on \cap on # {})]
      BY <1>1 DEF Crowded
    <2>3. /\ t[i].op = s[i].op /\ t[i].ch = s[i].ch /\ t[i].on = s[i].on
          /\ t[i].prev = s[i].prev /\ t[i].shot = s[i].shot /\ t[i].req = s[i].req
          /\ t[i].got = s[i].got /\ t[i].ready = s[i].ready /\ (t[i].alone => s[i].alone)
      BY <2>1, <2>2 DEF Frame
    <2> HIDE DEF t
    <2> QED BY <2>3 DEF Like, Called
  <1> QED BY <1>2, CrowdedType

\* A wait() that begins is a frame that comes.
LEMMA WaitGrows ==
  ASSUME AbstractChannelTypeOK, NEW s \in Seq(Frame), Waits(s)
  PROVE  Grows(pending, s, pending', stack')
  <1>0. PICK op \in WaitOps, c \in Obj, on \in SUBSET Replies, req \in Message :
          /\ wait(s, op, c, on, req)
          /\ op = "connclose" => on = {"ConnectionCloseOk"}
          /\ op = "confirm" => on = {"BasicAck", "BasicNack"}
          /\ on \cap {"BasicAck", "BasicNack"} # {} => ConfirmPublish
          /\ op = "select" => Publishing(c)
          /\ Addressed(c, req)
    BY DEF Waits
  <1> DEFINE t == Crowded(s, c, on)
             f == [op |-> op, ch |-> c, on |-> on, prev |-> pending[c], req |-> req,
                   got |-> NoMsg, ready |-> FALSE,
                   alone |-> ~Outstanding(c, req.ch, on), shot |-> 0]
             u == Append(t, f)
  <1>1. stack' = u
    BY <1>0 DEF wait
  <1>2. t \in Seq(Frame) /\ Len(t) = Len(s) /\ \A i \in 1 .. Len(s) : Like(s[i], t[i])
    BY CrowdedType, CrowdedLike
  <1>3. \A d \in Obj, n \in Replies :
          pending'[d][n] = IF d = c /\ n \in on THEN Len(s) + 1 ELSE pending[d][n]
    BY <1>0 DEF wait, AbstractChannelTypeOK
  <1>5. t \in Seq({t[i] : i \in 1 .. Len(s)} \cup {f})
    <2> HIDE DEF t, f
    <2> QED BY <1>2
  <1>6. /\ Len(u) = Len(s) + 1
        /\ \A i \in 1 .. Len(s) : u[i] = t[i]
        /\ u[Len(s) + 1] = f
    <2> HIDE DEF t, f
    <2> QED BY <1>2, <1>5, AppendProperties
  <1>7. /\ f.op = op /\ f.ch = c /\ f.on = on /\ f.prev = pending[c] /\ f.shot = 0 /\ ~f.ready
        /\ f.req = req /\ (f.alone => ~Outstanding(f.ch, f.req.ch, f.on))
    OBVIOUS
  <1> HIDE DEF t, f, u
  <1>8. \A i \in 1 .. Len(s) : Like(s[i], u[i])
    BY <1>2, <1>6
  <1>9. Comes(f)
    <2>1. op # "publish"
      BY DEF WaitOps
    <2> QED BY <1>0, <1>7, <2>1 DEF Comes
  <1> QED BY <1>1, <1>3, <1>6, <1>7, <1>8, <1>9 DEF Grows

\* A call that waits for nothing and begins is a frame that comes.
LEMMA PushGrows ==
  ASSUME NEW p, NEW s \in Seq(Frame), Pushes(s)
  PROVE  Grows(p, s, p, stack')
  <1>1. PICK f \in Frame :
          /\ f.op \in DrainOps /\ f.on = {} /\ f.shot = 0
          /\ f.op = "publish" => /\ Addressed(f.ch, f.req) /\ Publishing(f.ch)
                                 /\ f.req.m = "BasicPublish" /\ ~f.req.nowait
          /\ stack' = Append(s, f)
    BY DEF Pushes
  <1>2. /\ Len(stack') = Len(s) + 1
        /\ \A i \in 1 .. Len(s) : stack'[i] = s[i]
        /\ stack'[Len(s) + 1] = f
    BY <1>1, AppendProperties
  <1>3. Comes(f)
    BY <1>1 DEF Comes, DrainOps, WaitOps
  <1> QED BY <1>1, <1>2, <1>3, LikeSelf DEF Grows

\* Like is transitive.
LEMMA LikeTrans == \A f, g, h : Like(f, g) /\ Like(g, h) => Like(f, h)
  BY DEF Like, Gets, Brings

(* What a move is: at most one frame goes, or one is marked, and then at   *)
(* most one comes.                                                         *)
Moved ==
  \/ Stays(pending, stack, pending', stack')
  \/ Grows(pending, stack, pending', stack')
  \/ Shrinks(pending, stack, pending', stack')
  \/ \E p \in PendingType, s \in Seq(Frame) :
       /\ Stays(pending, stack, p, s) \/ Shrinks(pending, stack, p, s)
       /\ Grows(p, s, pending', stack')

\* A frame that goes and restores what it has displaced.
LEMMA PopShrinks ==
  ASSUME AbstractChannelTypeOK, stack # <<>>, Top.shot # 0 => exc' # "none"
  PROVE  /\ Restored(Top) \in PendingType /\ Pop(stack) \in Seq(Frame)
         /\ Shrinks(pending, stack, Restored(Top), Pop(stack))
  <1>1. /\ Pop(stack) \in Seq(Frame) /\ Len(Pop(stack)) = Len(stack) - 1
        /\ \A i \in 1 .. Len(stack) - 1 : Pop(stack)[i] = stack[i]
    BY PopType DEF AbstractChannelTypeOK
  <1>2. Top \in Frame /\ Len(stack) > 0 /\ Top = stack[Len(stack)]
    BY TopType DEF AbstractChannelTypeOK, Top
  <1>3. Top.ch \in Obj /\ Top.on \subseteq Replies /\ Top.prev \in [Replies -> Nat]
    BY <1>2 DEF Frame
  <1>4. Restored(Top) \in PendingType
    BY <1>3 DEF Restored, AbstractChannelTypeOK, PendingType
  <1>5. \A d \in Obj, n \in Replies :
          Restored(Top)[d][n] = IF d = Top.ch /\ n \in Top.on THEN Top.prev[n] ELSE pending[d][n]
    BY <1>3 DEF Restored, AbstractChannelTypeOK
  <1> QED BY <1>1, <1>2, <1>4, <1>5, LikeSelf DEF Shrinks

\* A reply that its promise is called with: no frame comes or goes.
LEMMA FulfilsStays ==
  ASSUME AbstractChannelTypeOK, StackOK(pending, stack), CallsOK(pending, stack), Fulfils
  PROVE  Stays(pending, stack, pending', stack')
  <1>1. PICK c \in Obj, m \in Replies :
          /\ In.m = m /\ OneShot(c, m) /\ (m = "ConnectionCloseOk" => ~connection'[0])
          /\ Receiver(c)
    BY DEF Fulfils
  <1>2. stack \in Seq(Frame) /\ stack # <<>> /\ In \in Message /\ pending[c][m] \in Nat
    BY InType DEF Fulfils, AbstractChannelTypeOK
  <1> DEFINE k == pending[c][m]
             s == Drained(stack)
  <1>3. /\ s \in Seq(Frame) /\ Len(s) = Len(stack)
        /\ \A i \in 1 .. Len(stack) : Like(stack[i], s[i])
    BY <1>2, DrainedType, DrainedLike
  <1>4. k # 0 => k \in 1 .. Len(stack) /\ m \in stack[k].on /\ stack[k].ch = c
    BY DEF StackOK, Live
  <1>5. m # "none"
    <2>1. "none" \notin Replies
      BY DEF Replies, Sync, ReplyTo
    <2> QED BY <2>1
  <1>6. k \in 1 .. Len(s) /\ s[k].op = "connclose" => ~connection'[0]
    <2> SUFFICES ASSUME k \in 1 .. Len(stack), s[k].op = "connclose" PROVE ~connection'[0]
      BY <1>3
    <2>1. stack[k].op = "connclose"
      BY <1>3 DEF Like
    <2>2. stack[k].on = {"ConnectionCloseOk"}
      BY <2>1 DEF CallsOK, ClosesOK
    <2>3. k # 0
      OBVIOUS
    <2> QED BY <1>1, <1>4, <2>2, <2>3
  <1>7. stack' = Fulfilled(s, k, In)
    BY <1>1 DEF OneShot
  <1>12. k \in 1 .. Len(s) => In.m \in s[k].on /\ Brings(In, s[k])
    <2> SUFFICES ASSUME k \in 1 .. Len(stack) PROVE In.m \in s[k].on /\ Brings(In, s[k])
      BY <1>3
    <2>1. s[k].on = stack[k].on /\ s[k].ch = stack[k].ch /\ k # 0
      BY <1>3 DEF Like
    <2> QED BY <1>1, <1>4, <2>1 DEF Brings, Fulfils
  <1>8. \A d \in Obj, n \in Replies :
          pending'[d][n] = IF d = c /\ n = m THEN 0 ELSE pending[d][n]
    BY <1>1 DEF OneShot, AbstractChannelTypeOK
  <1> HIDE DEF k, s
  <1>9. /\ Len(stack') = Len(s)
        /\ \A i \in 1 .. Len(s) : Like(s[i], stack'[i])
        /\ k \in 1 .. Len(s) => Called(stack'[k])
    BY <1>1, <1>2, <1>3, <1>5, <1>6, <1>7, <1>12, FulfilledLike DEF k
  <1>10. \A i \in 1 .. Len(stack) : Like(stack[i], stack'[i])
    BY <1>3, <1>9, LikeTrans
  <1>11. \A d \in Obj, n \in Replies :
           \/ pending'[d][n] = pending[d][n]
           \/ pending'[d][n] = 0 /\ (pending[d][n] # 0 => Called(stack'[pending[d][n]]))
    BY <1>3, <1>4, <1>8, <1>9 DEF k
  <1> QED BY <1>3, <1>9, <1>10, <1>11 DEF Stays

\* A callback that begins takes the promise of the method, if any.
LEMMA CallsBackGrows ==
  ASSUME AbstractChannelTypeOK, StackOK(pending, stack), CallsBack
  PROVE  Grows(pending, stack, pending', stack')
  <1>1. PICK c \in Obj, m \in Methods :
          /\ In.m = m /\ CallBack(c, m)
          /\ m \in Replies => m \in ListenedReplies /\ Receiver(c)
    BY DEF CallsBack
  <1>2. stack \in Seq(Frame) /\ stack # <<>> /\ In \in Message
        /\ (m \in Replies => pending[c][m] \in Nat)
    BY InType DEF CallsBack, AbstractChannelTypeOK
  <1> DEFINE s == Drained(stack)
             n == IF m \in Replies THEN pending[c][m] ELSE 0
             f == [op |-> "callback", ch |-> c, on |-> {},
                   prev |-> [r \in Replies |-> 0], req |-> In, got |-> NoMsg,
                   ready |-> FALSE, alone |-> TRUE, shot |-> n]
  <1>3. /\ s \in Seq(Frame) /\ Len(s) = Len(stack)
        /\ \A i \in 1 .. Len(stack) : Like(stack[i], s[i])
    BY <1>2, DrainedType, DrainedLike
  <1>4. f \in Frame
    <2>1. n \in Nat
      BY <1>2
    <2> QED BY <1>2, <2>1, NoMsgType DEF Frame
  <1>5. f.op = "callback" /\ f.on = {} /\ f.shot = n /\ f.req = In
    OBVIOUS
  <1>6. stack' = Append(s, f)
    BY <1>1 DEF CallBack
  <1>7. n # 0 => /\ n \in 1 .. Len(stack) /\ m \in ListenedReplies
                 /\ m \in stack[n].on /\ stack[n].ch = c /\ Receiver(c)
    BY <1>1 DEF StackOK, Live
  <1>8. \A d \in Obj, r \in Replies :
          pending'[d][r] = pending[d][r] \/ (pending'[d][r] = 0 /\ pending[d][r] = n)
    BY <1>1 DEF CallBack, AbstractChannelTypeOK
  <1> HIDE DEF s, n, f
  <1>9. /\ Len(stack') = Len(s) + 1
        /\ \A i \in 1 .. Len(s) : stack'[i] = s[i]
        /\ stack'[Len(s) + 1] = f
    BY <1>3, <1>4, <1>6, AppendProperties
  <1>10. Comes(f)
    BY <1>5 DEF Comes, WaitOps
  <1>11. f.shot # 0 => /\ f.op = "callback" /\ f.shot \in 1 .. Len(stack)
                       /\ f.req.m \in ListenedReplies /\ f.req.m \in stack[f.shot].on
                       /\ Takes /\ f.req = In /\ Receiver(stack[f.shot].ch)
    BY <1>1, <1>5, <1>7 DEF CallsBack
  <1> QED BY <1>3, <1>5, <1>8, <1>9, <1>10, <1>11 DEF Grows

\* A callback that returns goes, and the promise it took is called.
LEMMA CallbackReturnsShrinks ==
  ASSUME AbstractChannelTypeOK, StackOK(pending, stack), CallsOK(pending, stack), CallbackReturns
  PROVE  Shrinks(pending, stack, pending', stack')
  <1>1. stack \in Seq(Frame) /\ stack # <<>> /\ Top \in Frame /\ Top.op = "callback"
    BY TopType DEF CallbackReturns, AbstractChannelTypeOK
  <1> DEFINE L == Len(stack)
             s == Pop(stack)
             k == Top.shot
  <1>2. L \in 1 .. Len(stack) /\ L \in Nat /\ L > 0 /\ Top = stack[L]
    BY <1>1, TopType DEF Top
  <1>3. k \in Nat /\ Top.req \in Message
    BY <1>1 DEF Frame
  <1>4. Top.on = {}
    BY <1>1, <1>2 DEF StackOK, FramesOK, WaitOps
  <1>5. k # 0 => /\ k < L /\ Top.req.m \in ListenedReplies /\ Top.req.m \in stack[k].on
    BY <1>2 DEF CallsOK, ShotsOK
  <1>6. s \in Seq(Frame) /\ Len(s) = L - 1 /\ \A i \in 1 .. L - 1 : s[i] = stack[i]
    BY <1>1, PopType
  <1>7. stack' = Fulfilled(s, k, Top.req) /\ pending' = pending
    BY DEF CallbackReturns
  <1> HIDE DEF L, s, k
  <1>8. /\ Len(stack') = L - 1 /\ \A i \in 1 .. L - 1 : Like(stack[i], stack'[i])
        /\ k # 0 => Called(stack'[k])
    <2>1. CASE k = 0
      <3>1. k \notin DOMAIN s
        BY <1>6, <2>1, LenProperties
      <3>2. stack' = s
        BY <1>7, <3>1 DEF Fulfilled
      <3> QED BY <1>6, <2>1, <3>2, LikeSelf
    <2>2. CASE k # 0
      <3>1. k \in 1 .. Len(s) /\ k \in 1 .. L - 1 /\ k \in 1 .. Len(stack)
        BY <1>2, <1>3, <1>5, <1>6, <2>2
      <3>2. Top.req.m # "none" /\ Top.req.m # "ConnectionCloseOk"
        BY <1>5, <2>2 DEF ListenedReplies
      <3>5. Top.req.m \in s[k].on /\ Brings(Top.req, s[k])
        BY <1>1, <1>5, <1>6, <2>2, <3>1 DEF Brings, k
      <3>3. s[k].op # "connclose"
        BY <1>5, <1>6, <2>2, <3>1, <3>2 DEF CallsOK, ClosesOK
      <3>4. /\ Len(Fulfilled(s, k, Top.req)) = Len(s)
            /\ \A i \in 1 .. Len(s) : Like(s[i], Fulfilled(s, k, Top.req)[i])
            /\ Called(Fulfilled(s, k, Top.req)[k])
        BY <1>3, <1>6, <3>1, <3>2, <3>3, <3>5, FulfilledLike
      <3> QED BY <1>6, <1>7, <3>4
    <2> QED BY <2>1, <2>2
  <1> QED BY <1>2, <1>4, <1>7, <1>8 DEF Shrinks, L, k

\* Every move is one of the kinds.
LEMMA MoveKinds ==
  ASSUME AbstractChannelTypeOK, StackOK(pending, stack), CallsOK(pending, stack), StackMove
  PROVE  Moved
  <1>0. stack \in Seq(Frame) /\ pending \in PendingType
    BY DEF AbstractChannelTypeOK, PendingType
  <1>1. CASE UNCHANGED <<stack, pending>>
    BY <1>1, LikeSelf DEF Moved, Stays
  <1>2. CASE Waits(stack)
    BY <1>0, <1>2, WaitGrows DEF Moved
  <1>3. ASSUME Takes
        PROVE  /\ Drained(stack) \in Seq(Frame)
               /\ Stays(pending, stack, pending, Drained(stack))
    <2>1. stack # <<>>
      BY <1>3 DEF Takes, Reading
    <2> QED BY <1>0, <2>1, DrainedType, DrainedLike DEF Stays
  <1>4. CASE Takes /\ Waits(Drained(stack))
    <2>1. Grows(pending, Drained(stack), pending', stack')
      BY <1>3, <1>4, WaitGrows
    <2> QED BY <1>0, <1>3, <1>4, <2>1, Zenon DEF Moved
  <1>5. CASE Pushes(stack) /\ UNCHANGED pending
    <2>1. Grows(pending, stack, pending', stack')
      BY <1>0, <1>5, PushGrows
    <2> QED BY <2>1 DEF Moved
  <1>6. ASSUME stack # <<>>
        PROVE  /\ Top \in Frame
               /\ Top.op # "callback" => Top.shot = 0
               /\ Top.op = "publish" => Top.on = {}
    <2>1. Len(stack) \in 1 .. Len(stack) /\ Top = stack[Len(stack)] /\ Top \in Frame
      BY <1>0, <1>6, TopType DEF Top
    <2>2. Top.op # "callback" => Top.shot = 0
      BY <2>1 DEF CallsOK, ShotsOK
    <2>3. Top.op = "publish" => Top.on = {}
      BY <2>1 DEF StackOK, FramesOK, WaitOps
    <2> QED BY <2>1, <2>2, <2>3
  <1>7. CASE Leaves
    <2>1. stack # <<>> /\ pending' = Restored(Top) /\ stack' = Pop(stack)
      BY <1>7 DEF Leaves, Leave
    <2>2. Top.shot # 0 => exc' # "none"
      BY <1>6, <1>7, <2>1 DEF Leaves
    <2> QED BY <2>1, <2>2, PopShrinks DEF Moved
  <1>8. CASE Continues
    <2>1. stack # <<>> /\ Top.op = "publish"
      BY <1>8 DEF Continues
    <2>2. Top \in Frame /\ Top.on = {} /\ Top.shot = 0
      BY <1>6, <2>1
    <2>3. /\ Restored(Top) \in PendingType /\ Pop(stack) \in Seq(Frame)
          /\ Shrinks(pending, stack, Restored(Top), Pop(stack))
      BY <2>1, <2>2, PopShrinks
    <2>4. Shrinks(pending, stack, pending, Pop(stack))
      <3>1. Top = stack[Len(stack)]
        BY DEF Top
      <3> QED BY <2>2, <2>3, <3>1 DEF Shrinks
    <2>5. CASE Waits(Pop(stack))
      <3>1. Grows(pending, Pop(stack), pending', stack')
        BY <2>3, <2>5, WaitGrows
      <3> QED BY <1>0, <2>3, <2>4, <3>1, Zenon DEF Moved
    <2>6. CASE stack' = Pop(stack) /\ UNCHANGED pending
      BY <2>4, <2>6 DEF Moved
    <2> QED BY <1>8, <2>5, <2>6 DEF Continues
  <1>9. CASE SelectEnds
    <2>1. stack # <<>> /\ Top.op = "select" /\ pending' = Restored(Top)
      BY <1>9 DEF SelectEnds
    <2>2. /\ pending' \in PendingType /\ Pop(stack) \in Seq(Frame)
          /\ Shrinks(pending, stack, pending', Pop(stack))
      BY <1>6, <2>1, PopShrinks
    <2>3. CASE stack' = Pop(stack)
      BY <2>2, <2>3 DEF Moved
    <2>4. CASE Pushes(Pop(stack))
      <3>1. Grows(pending', Pop(stack), pending', stack')
        BY <2>2, <2>4, PushGrows
      <3> QED BY <2>2, <3>1, Zenon DEF Moved
    <2> QED BY <1>9, <2>3, <2>4 DEF SelectEnds
  <1>10. CASE HandlerEnds
    <2>1. Takes /\ stack' = Drained(stack) /\ pending' = pending
      BY <1>10 DEF HandlerEnds
    <2> QED BY <1>3, <2>1 DEF Moved
  <1>11. CASE Crowds
    <2>1. PICK c \in Obj, on \in SUBSET Replies : stack' = Crowded(stack, c, on)
      BY <1>11 DEF Crowds
    <2>2. pending' = pending
      BY <1>11 DEF Crowds
    <2> QED BY <1>0, <2>1, <2>2, CrowdedLike DEF Moved, Stays
  <1> QED BY <1>1, <1>2, <1>4, <1>5, <1>7, <1>8, <1>9, <1>10, <1>11, FulfilsStays,
            CallsBackGrows, CallbackReturnsShrinks DEF StackMove, Moved

-----------------------------------------------------------------------------
(* The invariants.                                                         *)

\* CallsOK is inductive, together with TypeOK and StackOK.
LEMMA CallsNext ==
  ASSUME TypeOK, TypeOK', StackOK(pending, stack), CallsOK(pending, stack), [Next]_vars
  PROVE  CallsOK(pending, stack)'
  <1>1. /\ pending \in PendingType /\ stack \in Seq(Frame)
        /\ pending' \in PendingType /\ stack' \in Seq(Frame)
    BY DEF TypeOK, AbstractChannelTypeOK, PendingType
  <1>2. Moved
    BY NextMoves, MoveKinds DEF TypeOK
  <1>3. ASSUME NEW p \in PendingType, NEW s \in Seq(Frame),
               Stays(pending, stack, p, s) \/ Shrinks(pending, stack, p, s),
               Grows(p, s, pending', stack')
        PROVE  CallsOK(pending', stack')
    <2>1. CallsOK(p, s)
      BY <1>1, <1>3, CallsStay, CallsShrink
    <2> QED BY <1>1, <1>3, <2>1, CallsGrow
  <1> QED BY <1>1, <1>2, <1>3, CallsStay, CallsGrow, CallsShrink DEF Moved

\* Initially no call is in progress.
LEMMA CallsInit == Init => CallsOK(pending, stack) /\ Kept(pending, stack)
  BY DEF Init, CallsOK, Order, ShotsOK, ClosesOK, Kept

(* What is registered never leads past the innermost call waiting, and a   *)
(* callback that took a promise will call that of an outer call.           *)
THEOREM CallsCorrect == Spec => []CallsOK(pending, stack)
  <1>1. /\ TypeOK /\ TypeOK' /\ StackOK(pending, stack) /\ CallsOK(pending, stack)
        /\ [Next]_vars
        => CallsOK(pending, stack)'
    BY CallsNext
  <1> QED BY <1>1, CallsInit, TypeCorrect, StackCorrect, PTL DEF Spec

\* An exception that callbacks let pass is raised until it has left every
\* call.
LEMMA ExceptionsLeave ==
  ASSUME ~CallbackCatches, [Next]_vars, exc # "none"
  PROVE  exc' # "none" \/ stack' = <<>>
  <1>1. CASE AppCall
    <2>1. \A c, m : ~AppCalls(c, m)
      BY DEF AppCalls
    <2>2. \A c, r, on, op : ~Invoke(c, r, on, op)
      BY <2>1 DEF Invoke
    <2>3. \A c, m, nowait : ~Simple(c, m, nowait) /\ ~SimplePost(c, m)
      BY <2>2 DEF Simple, SimplePost, Rpc, Post
    <2>4. \A c : ~ChannelCall(c)
      <3> SUFFICES ASSUME NEW c, ChannelCall(c) PROVE FALSE
        OBVIOUS
      <3>1. \A t, nowait, no_ack : /\ ~basic_cancel(c, t, nowait)
                                    /\ ~basic_consume(c, t, nowait, no_ack)
        BY <2>1, <2>2 DEF basic_cancel, basic_consume
      <3>2. ~basic_publish(c) /\ ~Channel_open(c) /\ ~Channel_close(c)
        BY <2>1, <2>2 DEF basic_publish, Channel_open, Channel_close
      <3> QED BY <2>3, <3>1, <3>2 DEF ChannelCall, exchange_declare, exchange_delete,
                exchange_bind, exchange_unbind, queue_declare, queue_bind, queue_unbind,
                queue_delete, queue_purge, confirm_select, flow, basic_get, basic_qos,
                tx_select, tx_commit, tx_rollback, basic_recover, basic_recover_async,
                basic_ack, basic_reject
    <2> QED BY <1>1, <2>1, <2>4 DEF AppCall, channel, drain_events, Connection_close
  <1>2. \A m : ~Dispatches(m) /\ ~Takes /\ ~Reading
    BY DEF Dispatches, Takes, Reading
  <1>3. CASE BaseStep
    BY <1>2, <1>3 DEF BaseStep, ReturnPlain, Returns, ConnectionGone, UnwindPlain,
       UnwindCallback, CallbackCatch, Raised, Discard, UnknownChannel, ReadFails, OnReply
  <1>4. CASE ChannelStep
    BY <1>2, <1>4 DEF ChannelStep, Channel_on_open_ok, Channel_on_close_ok, Channel_on_close,
       on_flow, on_basic_cancel_ok, on_basic_cancel, on_basic_deliver, on_basic_ack,
       on_basic_nack, on_basic_return, CloseReturns, ReviveReturns, ConsumeReturns,
       SelectReturns, PublishWrites, Returns
  <1>5. CASE ConnectionStep
    BY <1>2, <1>5 DEF ConnectionStep, Connection_on_close_ok, Connection_on_close,
       on_blocked, ConnectionCloseReturns
  <1>6. CASE CallbackEnds \/ TimesOut \/ Idle
    BY <1>2, <1>6 DEF CallbackEnds, CallbackReturns, TimesOut, ReadTimesOut, Idle
  <1>7. CASE BrokerStep
    BY <1>7, BrokerKeepsClient DEF clientVars
  <1>8. CASE UNCHANGED vars
    BY <1>8 DEF vars, clientVars
  <1> QED BY <1>1, <1>3, <1>4, <1>5, <1>6, <1>7, <1>8 DEF Next, LibraryStep

\* Kept is inductive while no exception is raised.
LEMMA KeptNext ==
  ASSUME ~CallbackCatches, TypeOK, TypeOK', StackOK(pending, stack), CallsOK(pending, stack),
         exc = "none" => Kept(pending, stack), [Next]_vars, exc' = "none"
  PROVE  Kept(pending', stack')
  <1>1. /\ pending \in PendingType /\ stack \in Seq(Frame)
        /\ pending' \in PendingType /\ stack' \in Seq(Frame)
    BY DEF TypeOK, AbstractChannelTypeOK, PendingType
  <1>2. CASE exc # "none"
    BY <1>2, ExceptionsLeave DEF Kept
  <1>3. CASE exc = "none"
    <2>1. Moved /\ Kept(pending, stack)
      BY <1>3, NextMoves, MoveKinds DEF TypeOK
    <2>2. ASSUME NEW p \in PendingType, NEW s \in Seq(Frame),
                 Stays(pending, stack, p, s) \/ Shrinks(pending, stack, p, s),
                 Grows(p, s, pending', stack')
          PROVE  Kept(pending', stack')
      <3>1. Kept(p, s)
        BY <1>1, <2>1, <2>2, KeptStays, KeptShrinks
      <3> QED BY <1>1, <2>2, <3>1, KeptGrows
    <2> QED BY <1>1, <2>1, <2>2, KeptStays, KeptGrows, KeptShrinks DEF Moved
  <1> QED BY <1>2, <1>3

(***************************************************************************)
(* No promise is lost, for every nesting of calls and callbacks, every     *)
(* order of the answers and every exception: as long as none is being      *)
(* raised, the promise of every call in progress has been called, or is    *)
(* registered in _pending, or will be put back by the finally clause of a  *)
(* call that displaced it (prev_p in wait()), or will be called when the   *)
(* callback that dispatch_method is running returns.  The callbacks of     *)
(* the application let exceptions pass: one that catches the exception of  *)
(* a nested callback takes with it the promise that one was to call.       *)
(***************************************************************************)
THEOREM PromiseAlwaysKept == ~CallbackCatches => (Spec => []PromiseKept)
  <1> SUFFICES ASSUME ~CallbackCatches PROVE Spec => []PromiseKept
    OBVIOUS
  <1> DEFINE KeptInv == exc = "none" => Kept(pending, stack)
  <1>1. Init => KeptInv
    BY CallsInit
  <1>2. /\ TypeOK /\ TypeOK' /\ StackOK(pending, stack) /\ CallsOK(pending, stack)
        /\ KeptInv /\ [Next]_vars
        => KeptInv'
    BY KeptNext
  <1>3. TypeOK /\ KeptInv => PromiseKept
    <2> SUFFICES ASSUME TypeOK, KeptInv PROVE PromiseKept
      OBVIOUS
    <2>1. DOMAIN stack = 1 .. Len(stack)
      BY LenProperties DEF TypeOK, AbstractChannelTypeOK
    <2> QED BY <2>1 DEF PromiseKept, Kept, Held, Called
  <1> HIDE DEF KeptInv
  <1> QED BY <1>1, <1>2, <1>3, TypeCorrect, StackCorrect, CallsCorrect, PTL DEF Spec

-----------------------------------------------------------------------------
(* The connection that a close() leaves behind.                            *)

(* The connection is not connected again, and closing the transport is     *)
(* part of collecting it.                                                  *)
Linked == /\ sock' => sock
          /\ connection'[0] = connection[0] \/ (~connection'[0] /\ ~sock')

(* A close() whose promise has been called has seen collect(), and         *)
(* collect() has closed the transport.                                     *)
ClosedGone(s) ==
  /\ \A i \in 1 .. Len(s) : s[i].op = "connclose" /\ s[i].ready => ~connection[0]
  /\ ~connection[0] => ~sock

\* Steps of a channel that touch only the connection of that channel.
LEMMA CutLinked ==
  ASSUME TypeOK, NEW c \in Chan, connection' = [connection EXCEPT ![c] = FALSE], UNCHANGED sock
  PROVE  Linked
  <1>1. 0 \in Obj /\ c # 0
    BY SpecAssumption DEF Obj, Chan
  <1> QED BY <1>1 DEF Linked, TypeOK, AbstractChannelTypeOK

\* collect() of the connection closes the transport.
LEMMA CollectLinked ==
  ASSUME Connection_collect
  PROVE  Linked
  <1>1. 0 \in Obj
    BY SpecAssumption DEF Obj
  <1> QED BY <1>1 DEF Linked, Connection_collect

\* Every call of the application keeps the connection linked.
LEMMA AppCallLinked ==
  ASSUME TypeOK, AppCall
  PROVE  Linked
  <1>0. UNCHANGED <<connection, sock>> => Linked
    BY DEF Linked
  <1>1. ASSUME NEW c \in 1 .. created, ChannelCall(c) PROVE Linked
    <2>0. c \in Chan
      BY SpecAssumption DEF TypeOK, Chan
    <2>1. ASSUME NEW req, NEW on, NEW op, Invoke(c, req, on, op)
          PROVE  UNCHANGED <<connection, sock>>
      BY <2>1 DEF Invoke
    <2>2. ASSUME NEW m, NEW nowait, Simple(c, m, nowait) \/ SimplePost(c, m)
          PROVE  UNCHANGED <<connection, sock>>
      BY <2>1, <2>2 DEF Simple, SimplePost, Rpc, Post
    <2>3. ASSUME NEW t, NEW nowait, basic_cancel(c, t, nowait)
          PROVE  UNCHANGED <<connection, sock>>
      BY <2>1, <2>3 DEF basic_cancel
    <2>4. ASSUME NEW t, NEW nowait, NEW no_ack, basic_consume(c, t, nowait, no_ack)
          PROVE  UNCHANGED <<connection, sock>>
      BY <2>1, <2>4 DEF basic_consume
    <2>5. ASSUME basic_publish(c) \/ Channel_open(c)
          PROVE  UNCHANGED <<connection, sock>>
      BY <2>1, <2>5 DEF basic_publish, Channel_open
    <2>6. CASE Channel_close(c)
      <3>1. /\ UNCHANGED sock
            /\ UNCHANGED connection \/ connection' = [connection EXCEPT ![c] = FALSE]
        BY <2>6 DEF Channel_close, CloseFinally
      <3> QED BY <1>0, <2>0, <3>1, CutLinked
    <2>7. Channel_close(c) \/ UNCHANGED <<connection, sock>>
      BY <1>1, <2>2, <2>3, <2>4, <2>5 DEF ChannelCall, exchange_declare,
         exchange_delete, exchange_bind, exchange_unbind, queue_declare,
         queue_bind, queue_unbind, queue_delete, queue_purge, confirm_select,
         flow, basic_get, basic_qos, tx_select, tx_commit, tx_rollback,
         basic_recover, basic_recover_async, basic_ack, basic_reject
    <2> QED BY <1>0, <2>6, <2>7
  <1>2. ASSUME NEW id \in ExplicitIds, channel(id) PROVE Linked
    <2>1. ASSUME NEW e, NoChannel(e) PROVE Linked
      BY <1>0, <2>1 DEF NoChannel
    <2>2. ASSUME NEW n, NewChannel(n) PROVE Linked
      <3>1. created \in Nat /\ 0 \in Obj /\ created + 1 # 0
        BY SpecAssumption DEF TypeOK, Obj
      <3>2. connection' = [connection EXCEPT ![created + 1] = TRUE] /\ UNCHANGED sock
        BY <2>2 DEF NewChannel
      <3> QED BY <3>1, <3>2 DEF Linked, TypeOK, AbstractChannelTypeOK
    <2> QED BY <1>2, <2>1, <2>2 DEF channel
  <1>3. CASE drain_events
    BY <1>0, <1>3 DEF drain_events
  <1>4. CASE Connection_close
    BY <1>0, <1>4, CollectLinked DEF Connection_close
  <1> QED BY <1>1, <1>2, <1>3, <1>4 DEF AppCall

\* Every step keeps the connection linked.
LEMMA NextLinked ==
  ASSUME TypeOK, StackOK(pending, stack), NoChannelZero(toClient), [Next]_vars
  PROVE  Linked
  <1>0. UNCHANGED <<connection, sock>> => Linked
    BY DEF Linked
  <1>1. CASE BaseStep
    BY <1>0, <1>1 DEF BaseStep, ReturnPlain, ConnectionGone, UnwindPlain, UnwindCallback,
       CallbackCatch, Raised, Discard, UnknownChannel, ReadFails, OnReply
  <1>2. ChannelStep => UNCHANGED <<connection, sock>> \/ CloseReturns \/ Channel_on_close_ok
    BY DEF ChannelStep, Channel_on_open_ok, Channel_on_close,
       on_flow, on_basic_cancel_ok, on_basic_cancel, on_basic_deliver,
       on_basic_ack, on_basic_nack, on_basic_return, ReviveReturns,
       ConsumeReturns, SelectReturns, PublishWrites
  <1>3. CASE ConnectionStep
    BY <1>0, <1>3, CollectLinked DEF ConnectionStep, Connection_on_close_ok,
       Connection_on_close, on_blocked, ConnectionCloseReturns, CloseFails
  <1>4. CASE CloseReturns
    <2>1. stack \in Seq(Frame) /\ stack # <<>> /\ Top.op = "close"
      BY <1>4 DEF CloseReturns, Returns, Unwinds, TypeOK, AbstractChannelTypeOK
    <2>2. Top \in Frame /\ Len(stack) \in 1 .. Len(stack)
      BY <2>1, TopType
    <2>3. Top.ch \in Chan
      BY <2>1, <2>2 DEF StackOK, FramesOK, Top, Frame, Obj, Chan
    <2>4. connection' = [connection EXCEPT ![Top.ch] = FALSE] /\ UNCHANGED sock
      BY <1>4 DEF CloseReturns, CloseFinally
    <2> QED BY <2>3, <2>4, CutLinked
  <1>5. CASE Channel_on_close_ok
    <2>1. Takes /\ In.m = "ChannelCloseOk" /\ (In.ch # 0 => Target # 0)
      BY <1>5 DEF Channel_on_close_ok, Dispatches
    <2>2. toClient \in Seq(Message) /\ toClient # <<>>
      BY <2>1 DEF Takes, TypeOK, AbstractChannelTypeOK
    <2>3. In = toClient[1] /\ 1 \in 1 .. Len(toClient)
      BY <2>2, EmptySeq DEF In
    <2>4. In.ch # 0
      BY <2>1, <2>3 DEF NoChannelZero
    <2>5. Target \in Chan
      BY <2>1, <2>4, InType DEF TypeOK, Chan, Obj
    <2>6. connection' = [connection EXCEPT ![Target] = FALSE] /\ UNCHANGED sock
      BY <1>5 DEF Channel_on_close_ok, Channel_collect
    <2> QED BY <2>5, <2>6, CutLinked
  <1>6. CASE CallbackEnds \/ TimesOut \/ Idle
    BY <1>0, <1>6 DEF CallbackEnds, CallbackReturns, TimesOut, ReadTimesOut, Idle, vars, clientVars
  <1>7. CASE BrokerStep
    <2>1. connection' = connection
      BY <1>7, BrokerKeepsClient DEF clientVars
    <2>2. ASSUME NEW id, NEW ms, Receives(id, ms) PROVE UNCHANGED sock
      BY <2>2 DEF Receives
    <2>3. ASSUME NEW m, NEW msg, Happens(m, msg) PROVE UNCHANGED sock
      BY <2>3 DEF Happens
    <2>4. CASE BrokerReceives
      <3>1. \E id, ms : Receives(id, ms)
        <4>1. CASE BrokerDisconnects
          BY <4>1, Zenon DEF BrokerDisconnects
        <4>2. ASSUME NEW id, NEW m, BrokerReplies(id, m) PROVE \E ms : Receives(id, ms)
          BY <4>2, Zenon DEF BrokerReplies
        <4>3. ASSUME NEW id, NEW t, BrokerConsumes(id, t) PROVE \E ms : Receives(id, ms)
          BY <4>3, Zenon DEF BrokerConsumes
        <4>4. ASSUME NEW id, NEW r, NEW m, BrokerPublishes(id, r, m)
              PROVE  \E ms : Receives(id, ms)
          BY <4>4, Zenon DEF BrokerPublishes
        <4>5. ASSUME NEW id, \/ BrokerAccepts(id) \/ BrokerOpens(id) \/ BrokerCloses(id)
                             \/ BrokerDrops(id) \/ BrokerFails(id)
              PROVE  \E ms : Receives(id, ms)
          BY <4>5, Zenon DEF BrokerAccepts, BrokerOpens, BrokerCloses, BrokerDrops, BrokerFails
        <4> QED BY <2>4, <4>1, <4>2, <4>3, <4>4, <4>5, Zenon DEF BrokerReceives
      <3> QED BY <1>0, <2>1, <2>2, <3>1
    <2>5. CASE BrokerEvent
      BY <2>1, <2>3, <2>5 DEF BrokerEvent, BrokerDelivers, BrokerCancels, BrokerFlows,
         BrokerClosesChannel, BrokerBlocks, BrokerClosesConnection, SocketBreaks, Linked
    <2> QED BY <1>7, <2>4, <2>5 DEF BrokerStep
  <1>8. CASE UNCHANGED vars
    BY <1>0, <1>8 DEF vars, clientVars
  <1> QED BY <1>0, <1>1, <1>2, <1>3, <1>4, <1>5, <1>6, <1>7, <1>8, AppCallLinked
          DEF Next, LibraryStep

\* The first part of ClosedGone, by kind of move.
LEMMA GoneMoves ==
  ASSUME NEW p, NEW q, NEW s \in Seq(Frame), NEW t \in Seq(Frame),
         \A i \in 1 .. Len(s) : s[i].op = "connclose" /\ s[i].ready => ~connection'[0],
         Stays(p, s, q, t) \/ Grows(p, s, q, t) \/ Shrinks(p, s, q, t)
  PROVE  \A i \in 1 .. Len(t) : t[i].op = "connclose" /\ t[i].ready => ~connection'[0]
  <1>0. Len(s) \in Nat /\ Len(t) \in Nat
    BY LenProperties
  <1> SUFFICES ASSUME NEW i \in 1 .. Len(t), t[i].op = "connclose", t[i].ready
               PROVE  ~connection'[0]
    OBVIOUS
  <1>1. CASE i \in 1 .. Len(s) /\ Like(s[i], t[i])
    BY <1>1 DEF Like
  <1>2. CASE Stays(p, s, q, t)
    BY <1>1, <1>2 DEF Stays
  <1>3. CASE Grows(p, s, q, t)
    <2>1. i = Len(s) + 1 \/ i \in 1 .. Len(s)
      BY <1>0, <1>3 DEF Grows
    <2>2. i # Len(s) + 1
      BY <1>3 DEF Grows, Comes, WaitOps
    <2> QED BY <1>1, <1>3, <2>1, <2>2 DEF Grows
  <1>4. CASE Shrinks(p, s, q, t)
    <2>1. i \in 1 .. Len(s) - 1 /\ i \in 1 .. Len(s)
      BY <1>0, <1>4 DEF Shrinks
    <2> QED BY <1>1, <1>4, <2>1 DEF Shrinks
  <1> QED BY <1>2, <1>3, <1>4

\* ClosedGone is inductive, together with the other invariants.
LEMMA ClosedGoneNext ==
  ASSUME TypeOK, TypeOK', StackOK(pending, stack), CallsOK(pending, stack),
         NoChannelZero(toClient), ClosedGone(stack), [Next]_vars
  PROVE  ClosedGone(stack)'
  <1>1. stack \in Seq(Frame) /\ stack' \in Seq(Frame)
    BY DEF TypeOK, AbstractChannelTypeOK
  <1>2. Moved /\ Linked
    BY NextMoves, MoveKinds, NextLinked DEF TypeOK
  <1>3. ~connection[0] => ~connection'[0]
    BY <1>2 DEF Linked
  <1>4. \A i \in 1 .. Len(stack) :
          stack[i].op = "connclose" /\ stack[i].ready => ~connection'[0]
    BY <1>3 DEF ClosedGone
  <1>5. ASSUME NEW p \in PendingType, NEW s \in Seq(Frame),
               Stays(pending, stack, p, s) \/ Shrinks(pending, stack, p, s),
               Grows(p, s, pending', stack')
        PROVE  \A i \in 1 .. Len(stack') :
                 stack'[i].op = "connclose" /\ stack'[i].ready => ~connection'[0]
    <2>1. \A i \in 1 .. Len(s) : s[i].op = "connclose" /\ s[i].ready => ~connection'[0]
      BY <1>1, <1>4, <1>5, GoneMoves
    <2> QED BY <1>1, <1>5, <2>1, GoneMoves
  <1>6. \A i \in 1 .. Len(stack') :
          stack'[i].op = "connclose" /\ stack'[i].ready => ~connection'[0]
    BY <1>1, <1>2, <1>4, <1>5, GoneMoves DEF Moved
  <1>7. ~connection'[0] => ~sock'
    BY <1>2 DEF ClosedGone, Linked
  <1> QED BY <1>6, <1>7 DEF ClosedGone

\* A call to close() the connection ends in ConnectionCloseReturns only.
LEMMA CloseEnds ==
  ASSUME TypeOK, TypeOK', StackOK(pending, stack), CallsOK(pending, stack), [Next]_vars,
         stack # <<>>, Top.op = "connclose", Len(stack') < Len(stack)
  PROVE  ConnectionCloseReturns
  <1>1. stack \in Seq(Frame) /\ Len(stack) \in Nat /\ AbstractChannelTypeOK
    BY LenProperties DEF TypeOK, AbstractChannelTypeOK
  <1>2. Drained(stack) \in Seq(Frame) /\ Len(Drained(stack)) = Len(stack)
    BY <1>1, DrainedType, DrainedLike
  <1>3. ~UNCHANGED <<stack, pending>> /\ ~HandlerEnds
    BY <1>1, <1>2 DEF HandlerEnds
  <1>4. ~Waits(stack) /\ ~Waits(Drained(stack))
    BY <1>1, <1>2, WaitGrows DEF Grows
  <1>5. ~Pushes(stack)
    BY <1>1, PushGrows DEF Grows
  <1>6. ~Continues /\ ~SelectEnds /\ ~CallbackReturns
    BY DEF Continues, SelectEnds, CallbackReturns
  <1>7. ~Fulfils
    BY <1>1, FulfilsStays DEF Stays
  <1>8. ~CallsBack
    BY <1>1, CallsBackGrows DEF Grows
  <1>10. ~Crowds
    BY <1>1, CrowdedType DEF Crowds
  <1>9. Leaves
    BY <1>3, <1>4, <1>5, <1>6, <1>7, <1>8, <1>10, NextMoves DEF StackMove
  <1> QED BY <1>9 DEF Leaves

\* ... and then the connection has been collected, unless by another error.
LEMMA CloseCollects ==
  ASSUME TypeOK, TypeOK', IdsConsistent', ClosedGone(stack), NoChannelZero(toClient),
         StackOK(pending, stack), [Next]_vars, ConnectionCloseReturns,
         exc \in {"none", "OSError"}
  PROVE  ~sock' /\ \A c \in Obj : ~connection'[c]
  <1>0. 0 \in Obj /\ \A c \in Obj : c = 0 \/ c \in Chan
    BY SpecAssumption DEF Obj, Chan
  <1>1. ~connection'[0] /\ ~sock'
    <2>1. CASE exc = "none"
      <3>1. Top.op = "connclose" /\ Top.ready /\ stack # <<>> /\ UNCHANGED <<connection, sock>>
        BY <2>1 DEF ConnectionCloseReturns, CloseFails, Returns, Unwinds
      <3>2. Len(stack) \in 1 .. Len(stack) /\ Top = stack[Len(stack)]
        BY <3>1, TopType DEF TypeOK, AbstractChannelTypeOK, Top
      <3> QED BY <3>1, <3>2 DEF ClosedGone
    <2>2. CASE exc = "OSError"
      <3>1. Connection_collect
        BY <2>2 DEF ConnectionCloseReturns, CloseFails, Returns
      <3> QED BY <1>0, <3>1 DEF Connection_collect
    <2> QED BY <2>1, <2>2
  <1>2. \A c \in Chan : connection'[c] => connection'[0]
    BY DEF IdsConsistent
  <1> QED BY <1>0, <1>1, <1>2

(***************************************************************************)
(* Whatever else is going on - callbacks that close the connection inside  *)
(* a close(), channels with calls in progress, a broker that closes at the *)
(* same time, a broken socket - when Connection.close() returns, or ends   *)
(* with the OSError it catches, the transport is closed and no object has  *)
(* a connection any more: Close-Ok fulfils the promise of close() only     *)
(* together with collect().                                                *)
(***************************************************************************)
THEOREM CloseAlwaysCollects == Spec => ClosedIsCollected
  <1> DEFINE Inv == TypeOK /\ StackOK(pending, stack) /\ CallsOK(pending, stack)
                    /\ NoChannelZero(toClient) /\ IdsConsistent
  <1>1. Init => ClosedGone(stack) /\ NoChannelZero(toClient)
    <2>1. Init => ClosedGone(stack)
      <3> SUFFICES ASSUME Init PROVE ClosedGone(stack)
        OBVIOUS
      <3>1. stack = <<>> /\ connection = [c \in Obj |-> c = 0] /\ 0 \in Obj
        BY SpecAssumption DEF Init, Obj
      <3> QED BY <3>1 DEF ClosedGone
    <2> QED BY <2>1, IdsInit
  <1>2. TypeOK /\ NoChannelZero(toClient) /\ [Next]_vars => NoChannelZero(toClient)'
    BY ZeroNext
  <1>3. Inv /\ Inv' /\ ClosedGone(stack) /\ [Next]_vars => ClosedGone(stack)'
    BY ClosedGoneNext
  <1>4. Inv /\ Inv' /\ ClosedGone(stack) /\ [Next]_vars =>
          [(/\ stack # <<>> /\ Top.op = "connclose" /\ Len(stack') < Len(stack)
            /\ exc \in {"none", "OSError"})
           => ~sock' /\ \A c \in Obj : ~connection'[c]]_vars
    <2> SUFFICES ASSUME Inv, Inv', ClosedGone(stack), [Next]_vars,
                        stack # <<>>, Top.op = "connclose", Len(stack') < Len(stack),
                        exc \in {"none", "OSError"}
                 PROVE  ~sock' /\ \A c \in Obj : ~connection'[c]
      OBVIOUS
    <2>1. ConnectionCloseReturns
      BY CloseEnds
    <2> QED BY <2>1, CloseCollects
  <1>5. Spec => []NoChannelZero(toClient)
    BY <1>1, <1>2, TypeCorrect, PTL DEF Spec
  <1>6. Spec => []Inv
    BY <1>5, TypeCorrect, StackCorrect, CallsCorrect, IdsCorrect, PTL
  <1> HIDE DEF Inv
  <1> QED BY <1>1, <1>3, <1>4, <1>6, PTL DEF Spec, ClosedIsCollected
=============================================================================
