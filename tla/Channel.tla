------------------------------- MODULE Channel -------------------------------
(***************************************************************************)
(* amqp/channel.py: the methods of a Channel.  The arguments of a method   *)
(* (names of queues and exchanges, flags, tables) are of no consequence to *)
(* the client and are left out, except for the consumer tag, nowait and    *)
(* no_ack.                                                                 *)
(***************************************************************************)
EXTENDS AbstractChannel

CONSTANTS
  ConfirmPublish,     \* Connection(confirm_publish=...)
  BlockedCapability   \* has 'connection.blocked' been negotiated?

ASSUME ChannelAssumption ==
  /\ ConfirmPublish \in BOOLEAN
  /\ BlockedCapability \in BOOLEAN

VARIABLES
  is_open,           \* is_open of a channel
  confirm_selected,  \* _confirm_selected of a channel
  callbacks,         \* callbacks: for a consumer tag, the number of the
                     \* basic_consume call that registered it, or 0
  cancel_callbacks,  \* the tags that have an on_cancel callback
  no_ack_consumers,  \* the tags consumed from with no_ack
  used               \* Connection._used_channel_ids

consumers == <<callbacks, cancel_callbacks, no_ack_consumers>>
chanVars  == <<is_open, confirm_selected, consumers, used>>

ChannelTypeOK ==
  /\ is_open \in [Chan -> BOOLEAN]
  /\ confirm_selected \in [Chan -> BOOLEAN]
  /\ callbacks \in [Chan -> [Tags -> Nat]]
  /\ cancel_callbacks \in [Chan -> SUBSET (Tags \cup {0})]
  /\ no_ack_consumers \in [Chan -> SUBSET (Tags \cup {0})]
  /\ used \in SUBSET Ids

-----------------------------------------------------------------------------
(* collect, and the part of it that concerns the channel objects alone.    *)
Cleared(S) ==
  /\ is_open' = [c \in Chan |-> c \notin S /\ is_open[c]]
  /\ channel_id' = [c \in Obj |-> IF c \in S THEN 0 ELSE channel_id[c]]
  /\ callbacks' = [c \in Chan |-> IF c \in S THEN [t \in Tags |-> 0]
                                             ELSE callbacks[c]]
  /\ cancel_callbacks' = [c \in Chan |-> IF c \in S THEN {}
                                         ELSE cancel_callbacks[c]]
  /\ no_ack_consumers' = [c \in Chan |-> IF c \in S THEN {}
                                         ELSE no_ack_consumers[c]]

Freed(S) == {channel_id[c] : c \in {d \in S : connection[d]}}

(* Mutant: the id is not given back. *)
CollectKeepsId(c) ==
  /\ Cleared({c})
  /\ connection' = [connection EXCEPT ![c] = FALSE]
  /\ channels' = [id \in Ids |-> IF id \in Freed({c}) THEN 0 ELSE channels[id]]
  /\ UNCHANGED used

Channel_collect(c) ==
  /\ Cleared({c})
  /\ connection' = [connection EXCEPT ![c] = FALSE]
  /\ channels' = [id \in Ids |-> IF id \in Freed({c}) THEN 0 ELSE channels[id]]
  /\ used' = used \ Freed({c})

-----------------------------------------------------------------------------
(* Methods that send a request and wait for the reply, unless nowait.      *)
Simple(c, m, nowait) == Rpc(c, m, nowait) /\ UNCHANGED chanVars
SimplePost(c, m) == Post(c, m) /\ UNCHANGED chanVars

exchange_declare(c, nowait) == Simple(c, "ExchangeDeclare", nowait)
exchange_delete(c, nowait)  == Simple(c, "ExchangeDelete", nowait)
exchange_bind(c, nowait)    == Simple(c, "ExchangeBind", nowait)
exchange_unbind(c, nowait)  == Simple(c, "ExchangeUnbind", nowait)
queue_declare(c, nowait)    == Simple(c, "QueueDeclare", nowait)
queue_bind(c, nowait)       == Simple(c, "QueueBind", nowait)
queue_delete(c, nowait)     == Simple(c, "QueueDelete", nowait)
queue_purge(c, nowait)      == Simple(c, "QueuePurge", nowait)
confirm_select(c, nowait)   == Simple(c, "ConfirmSelect", nowait)
flow(c)        == Simple(c, "ChannelFlow", FALSE)
basic_get(c)   == Simple(c, "BasicGet", FALSE)
basic_qos(c)   == Simple(c, "BasicQos", FALSE)
tx_select(c)   == Simple(c, "TxSelect", FALSE)
tx_commit(c)   == Simple(c, "TxCommit", FALSE)
tx_rollback(c) == Simple(c, "TxRollback", FALSE)

(* The nowait of queue_unbind is not transmitted: the broker answers.      *)
queue_unbind(c, nowait) ==
  IF nowait THEN SimplePost(c, "QueueUnbind") ELSE Simple(c, "QueueUnbind", FALSE)

(* basic_recover does not wait for Recover-Ok. *)
basic_recover(c)       == SimplePost(c, "BasicRecover")
basic_recover_async(c) == SimplePost(c, "BasicRecoverAsync")
basic_ack(c)           == SimplePost(c, "BasicAck")
basic_reject(c)        == SimplePost(c, "BasicReject")

-----------------------------------------------------------------------------
(* Mutant: open() of an open channel. *)
OpenAgain(c) ==
  /\ Invoke(c, Msg(channel_id[c], "ChannelOpen", calls + 1),
            {"ChannelOpenOk"}, "open")
  /\ UNCHANGED chanVars

(* open() of a channel that is not open; otherwise it returns.             *)
Channel_open(c) ==
  /\ ~is_open[c]
  /\ Invoke(c, Msg(channel_id[c], "ChannelOpen", calls + 1),
            {"ChannelOpenOk"}, "open")
  /\ UNCHANGED chanVars

Channel_on_open_ok ==
  /\ Dispatches("ChannelOpenOk")
  /\ is_open' = [is_open EXCEPT ![Target] = TRUE]
  /\ Answered("ChannelOpenOk")
  /\ UNCHANGED <<channels, channel_id, connection, is_closing, sock, toServer,
                 calls, confirm_selected, consumers, used>>

(* Mutant: a channel stays usable when close() was interrupted. *)
CloseKeepsConnection(c) ==
  is_closing' = [is_closing EXCEPT ![c] = FALSE] /\ UNCHANGED connection

(* close(): the finally clause runs on every way out. *)
CloseFinally(c) ==
  /\ is_closing' = [is_closing EXCEPT ![c] = FALSE]
  /\ connection' = [connection EXCEPT ![c] = FALSE]

Channel_close(c) ==
  /\ AppCalls(c, "ChannelClose")
  /\ \/ /\ ~connection[c] \/ ~is_open[c]
        /\ CloseFinally(c)
        /\ UNCHANGED <<stack, pending, exc, toServer>>
     \/ /\ is_open[c] /\ connection[c]
        /\ send_method_raises(c)
        /\ CloseFinally(c)
        /\ UNCHANGED <<stack, pending>>
     \/ LET req == Msg(channel_id[c], "ChannelClose", calls + 1) IN
        /\ is_open[c]
        /\ send_method(c, <<req>>)
        /\ wait(stack, "close", c, {"ChannelCloseOk"}, req)
        /\ is_closing' = [is_closing EXCEPT ![c] = TRUE]
        /\ UNCHANGED <<connection, exc>>
  /\ UNCHANGED <<channels, channel_id, sock, toClient, chanVars>>

CloseReturns ==
  /\ Returns({"close"}) \/ Unwinds({"close"})
  /\ CloseFinally(Top.ch)
  /\ UNCHANGED <<channels, channel_id, exc, sock, toServer, toClient, calls,
                 chanVars>>

Channel_on_close_ok ==
  /\ Dispatches("ChannelCloseOk")
  /\ Channel_collect(Target)
  /\ OneShot(Target, "ChannelCloseOk")
  /\ UNCHANGED <<is_closing, sock, toServer, calls, confirm_selected>>

(* The broker closes the channel: agree, reopen it (_do_revive), raise.    *)
(* While a close() is in progress there is nothing to do but agree.        *)
Agreed(c) == Msg(channel_id[c], "ChannelCloseOk", 0)

(* Mutant: the broker is left waiting for Close-Ok. *)
AgreesSilently(c) == Ends /\ UNCHANGED <<toServer, is_open>>

Agrees(c) ==
  /\ send_method(c, <<Agreed(c)>>)
  /\ Ends
  /\ UNCHANGED is_open

(* Mutant: is_open stays set, and open() returns at once. *)
do_revive_not(c) ==
  /\ send_method(c, <<Agreed(c)>>)
  /\ Raises("ChannelError")
  /\ UNCHANGED is_open

do_revive(c) ==
  LET reopen == Msg(channel_id[c], "ChannelOpen", 0) IN
  /\ send_method(c, <<Agreed(c), reopen>>)
  /\ is_open' = [is_open EXCEPT ![c] = FALSE]
  /\ wait(Drained(stack), "revive", c, {"ChannelOpenOk"}, reopen)
  /\ UNCHANGED exc

Channel_on_close ==
  /\ Dispatches("ChannelClose")
  /\ \/ send_method_raises(Target) /\ UNCHANGED <<stack, pending, is_open>>
     \/ (is_closing[0] \/ is_closing[Target]) /\ Agrees(Target)
     \/ ~is_closing[0] /\ ~is_closing[Target] /\ do_revive(Target)
  /\ UNCHANGED <<channels, channel_id, connection, is_closing, sock, calls,
                 confirm_selected, consumers, used>>

ReviveReturns ==
  /\ Returns({"revive"})
  /\ exc' = "ChannelError"
  /\ UNCHANGED <<channels, channel_id, connection, is_closing, sock, toServer,
                 toClient, calls, chanVars>>

(* The broker pauses or resumes the flow of contents; nothing in the       *)
(* library looks at the active flag.                                       *)
on_flow ==
  /\ Dispatches("ChannelFlow")
  /\ \/ /\ send_method(Target, <<Msg(channel_id[Target], "ChannelFlowOk", 0)>>)
        /\ Ends
     \/ /\ send_method_raises(Target)
        /\ UNCHANGED <<stack, pending>>
  /\ UNCHANGED <<channels, channel_id, connection, is_closing, sock, calls,
                 chanVars>>

-----------------------------------------------------------------------------
(* Consumers *)
Registered(c, t, rid, no_ack) ==
  /\ callbacks' = [callbacks EXCEPT ![c][t] = rid]
  /\ cancel_callbacks' = IF "BasicCancel" \in Callbacks
                         THEN [cancel_callbacks EXCEPT ![c] = @ \cup {t}]
                         ELSE cancel_callbacks
  /\ no_ack_consumers' = IF no_ack
                         THEN [no_ack_consumers EXCEPT ![c] = @ \cup {t}]
                         ELSE no_ack_consumers

remove_tag(c, t) ==
  /\ callbacks' = [callbacks EXCEPT ![c][t] = 0]
  /\ cancel_callbacks' = [cancel_callbacks EXCEPT ![c] = @ \ {t}]

(* Tag 0: the broker is to choose the tag. *)
basic_consume(c, t, nowait, no_ack) ==
  LET req == [Msg(channel_id[c], "BasicConsume", calls + 1)
              EXCEPT !.tag = t, !.nowait = nowait, !.no_ack = no_ack]
  IN
  /\ \/ /\ ~nowait
        /\ Invoke(c, req, {"BasicConsumeOk"}, "consume")
        /\ UNCHANGED consumers
     \/ /\ nowait
        /\ AppCalls(c, "BasicConsume")
        /\ \/ send_method_raises(c) /\ UNCHANGED consumers
           \/ /\ send_method(c, <<req>>)
              /\ \/ t = 0 /\ exc' = "ValueError" /\ UNCHANGED consumers
                 \/ t # 0 /\ UNCHANGED exc /\ Registered(c, t, req.rid, no_ack)
        /\ UNCHANGED <<channels, channel_id, connection, is_closing, pending,
                       stack, sock, toClient>>
  /\ UNCHANGED <<is_open, confirm_selected, used>>

ConsumeReturns ==
  /\ Returns({"consume"})
  /\ Registered(Top.ch, Top.got.tag, Top.req.rid, Top.req.no_ack)
  /\ UNCHANGED <<channels, channel_id, connection, is_closing, exc, sock,
                 toServer, toClient, calls, is_open, confirm_selected, used>>

(* Mutant: the callback goes before the broker has agreed. *)
CancelForgets(c, t, nowait) ==
  /\ connection[c]
  /\ remove_tag(c, t)
  /\ Invoke(c, [Msg(channel_id[c], "BasicCancel", calls + 1)
                EXCEPT !.tag = t, !.nowait = nowait],
            IF nowait THEN {} ELSE {"BasicCancelOk"}, "rpc")
  /\ UNCHANGED <<is_open, confirm_selected, no_ack_consumers, used>>

(* basic_cancel does nothing on a channel without a connection. *)
basic_cancel(c, t, nowait) ==
  /\ connection[c]
  /\ no_ack_consumers' = [no_ack_consumers EXCEPT ![c] = @ \ {t}]
  /\ Invoke(c, [Msg(channel_id[c], "BasicCancel", calls + 1)
                EXCEPT !.tag = t, !.nowait = nowait],
            IF nowait THEN {} ELSE {"BasicCancelOk"}, "rpc")
  /\ UNCHANGED <<is_open, confirm_selected, callbacks, cancel_callbacks, used>>

on_basic_cancel_ok ==
  /\ Dispatches("BasicCancelOk")
  /\ remove_tag(Target, In.tag)
  /\ OneShot(Target, "BasicCancelOk")
  /\ UNCHANGED <<channels, channel_id, connection, is_closing, sock, toServer,
                 calls, is_open, confirm_selected, no_ack_consumers, used>>

(* The broker has cancelled the consumer. *)
on_basic_cancel ==
  /\ Dispatches("BasicCancel")
  /\ remove_tag(Target, In.tag)
  /\ IF In.tag \in cancel_callbacks[Target]
     THEN CallBack(Target, "BasicCancel")
     ELSE Raises("ConsumerCancelled")
  /\ UNCHANGED <<channels, channel_id, connection, is_closing, sock, toServer,
                 calls, is_open, confirm_selected, no_ack_consumers, used>>

(* The callback given to basic_consume may be None. *)
on_basic_deliver ==
  /\ Dispatches("BasicDeliver")
  /\ LET c == Target IN
     \/ /\ callbacks[c][In.tag] # 0
        /\ IF "BasicDeliver" \in Callbacks THEN CallBack(c, "BasicDeliver")
                                           ELSE Raises("TypeError")
        /\ UNCHANGED toServer
     \/ /\ callbacks[c][In.tag] = 0
        /\ \/ /\ send_method(c, <<Msg(channel_id[c], "BasicReject", 0)>>)
              /\ Ends
           \/ /\ send_method_raises(c)
              /\ UNCHANGED <<stack, pending>>
  /\ UNCHANGED <<channels, channel_id, connection, is_closing, sock, calls,
                 chanVars>>

-----------------------------------------------------------------------------
(* Publishing.  basic_publish_confirm selects confirm mode first, which    *)
(* the frame "select" waits for; _basic_publish then drains one event (the *)
(* frame "publish", ready at once without the capability), writes the      *)
(* message, and basic_publish_confirm waits for Ack or Nack ("confirm").   *)
PublishFrame(c, rid) ==
  [op |-> "publish", ch |-> c, on |-> {}, prev |-> [r \in Replies |-> 0],
   req |-> Msg(channel_id[c], "BasicPublish", rid), got |-> NoMsg,
   ready |-> ~BlockedCapability, alone |-> TRUE, shot |-> 0]

(* Mutant: the flag is set and confirm_select forgotten. *)
SelectsNothing(c) ==
  /\ connection[c]
  /\ confirm_selected' = [confirm_selected EXCEPT ![c] = TRUE]
  /\ stack' = Append(stack, PublishFrame(c, calls + 1))
  /\ UNCHANGED <<exc, pending, toServer>>

Selects(c) ==
  LET req == Msg(channel_id[c], "ConfirmSelect", calls + 1) IN
  /\ confirm_selected' = [confirm_selected EXCEPT ![c] = TRUE]
  /\ \/ /\ send_method(c, <<req>>)
        /\ wait(stack, "select", c, {"ConfirmSelectOk"}, req)
        /\ UNCHANGED exc
     \/ send_method_raises(c) /\ UNCHANGED <<stack, pending>>

basic_publish(c) ==
  /\ AppCalls(c, "BasicPublish")
  /\ \/ ConfirmPublish /\ ~confirm_selected[c] /\ Selects(c)
     \/ /\ ConfirmPublish => confirm_selected[c]
        /\ IF connection[c]
           THEN stack' = Append(stack, PublishFrame(c, calls + 1)) /\ UNCHANGED exc
           ELSE exc' = "RecoverableConnectionError" /\ UNCHANGED stack
        /\ UNCHANGED <<pending, toServer, confirm_selected>>
  /\ UNCHANGED <<channels, channel_id, connection, is_closing, sock, toClient,
                 is_open, consumers, used>>

SelectReturns ==
  /\ exc = "none" /\ stack # <<>> /\ Top.op = "select" /\ Top.ready
  /\ pending' = Restored(Top)
  /\ IF connection[Top.ch]
     THEN /\ stack' = Append(Pop(stack), PublishFrame(Top.ch, Top.req.rid))
          /\ UNCHANGED exc
     ELSE stack' = Pop(stack) /\ exc' = "RecoverableConnectionError"
  /\ UNCHANGED <<channels, channel_id, connection, is_closing, sock, toServer,
                 toClient, calls, chanVars>>

(* drain_events(timeout=0) has dispatched a method, or found none.         *)
PublishWrites ==
  /\ exc = "none" /\ stack # <<>> /\ Top.op = "publish"
  /\ Top.ready \/ sock
  /\ LET c == Top.ch IN
     \/ /\ ~connection[c]
        /\ exc' = "AttributeError"
        /\ stack' = Pop(stack)
        /\ UNCHANGED <<pending, toServer>>
     \/ /\ connection[c]
        /\ send_method_raises(c)
        /\ stack' = Pop(stack)
        /\ UNCHANGED pending
     \/ /\ send_method(c, <<Top.req>>)
        /\ IF ConfirmPublish
           THEN wait(Pop(stack), "confirm", c, {"BasicAck", "BasicNack"}, Top.req)
           ELSE stack' = Pop(stack) /\ UNCHANGED pending
        /\ UNCHANGED exc
  /\ UNCHANGED <<channels, channel_id, connection, is_closing, sock, toClient,
                 calls, chanVars>>

on_basic_ack ==
  /\ Dispatches("BasicAck")
  /\ Answered("BasicAck")
  /\ UNCHANGED <<channels, channel_id, connection, is_closing, sock, toServer,
                 calls, chanVars>>

on_basic_nack ==
  /\ Dispatches("BasicNack")
  /\ Answered("BasicNack")
  /\ UNCHANGED <<channels, channel_id, connection, is_closing, sock, toServer,
                 calls, chanVars>>

(* A message comes back: hand it to the basic_return handlers, or raise.   *)
on_basic_return ==
  /\ Dispatches("BasicReturn")
  /\ IF "BasicReturn" \in Callbacks THEN CallBack(Target, "BasicReturn")
                                    ELSE Raises("ChannelError")
  /\ UNCHANGED <<channels, channel_id, connection, is_closing, sock, toServer,
                 calls, chanVars>>
=============================================================================
