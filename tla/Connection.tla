----------------------------- MODULE Connection -----------------------------
(***************************************************************************)
(* amqp/connection.py from the end of the handshake on: channel ids,       *)
(* drain_events, close and the handlers of channel 0, put together with    *)
(* the channels of module Channel and a broker.  Connection.connection is  *)
(* None, and so is Connection.channels, once collect() has run:            *)
(* ~connection[0].                                                         *)
(***************************************************************************)
EXTENDS Broker

CONSTANTS
  Nowaits,      \* the values of nowait the application uses
  NoAcks,       \* the values of no_ack it uses
  ExplicitIds   \* the channel ids it asks for; 0: channel() with no id

ASSUME ConnectionAssumption ==
  Nowaits \subseteq BOOLEAN /\ NoAcks \subseteq BOOLEAN /\ ExplicitIds \subseteq Ids0

VARIABLES
  created       \* number of Channel objects created so far

vars == <<clientVars, sock, toServer, toClient, brokerVars, created>>

TypeOK ==
  /\ AbstractChannelTypeOK
  /\ ChannelTypeOK
  /\ BrokerTypeOK
  /\ created \in 0 .. NumChans

Init ==
  /\ channels = [id \in Ids |-> 0]
  /\ channel_id = [c \in Obj |-> 0]
  /\ connection = [c \in Obj |-> c = 0]
  /\ is_closing = [c \in Obj |-> FALSE]
  /\ pending = [c \in Obj |-> [m \in Replies |-> 0]]
  /\ stack = <<>>
  /\ exc = "none"
  /\ sock = TRUE
  /\ toServer = [id \in Ids0 |-> <<>>]
  /\ toClient = <<>>
  /\ calls = 0
  /\ is_open = [c \in Chan |-> FALSE]
  /\ confirm_selected = [c \in Chan |-> FALSE]
  /\ callbacks = [c \in Chan |-> [t \in Tags |-> 0]]
  /\ cancel_callbacks = [c \in Chan |-> {}]
  /\ no_ack_consumers = [c \in Chan |-> {}]
  /\ used = {}
  /\ created = 0
  /\ BrokerInit

-----------------------------------------------------------------------------
(* _get_free_channel_id: the least id that is not in use, 0 if none is.    *)
get_free_channel_id ==
  IF Ids \subseteq used THEN 0
  ELSE CHOOSE id \in Ids \ used : \A k \in Ids \ used : id <= k

(* channel(): with an id, an existing object is returned as it is.         *)
(* Otherwise a Channel is created, which claims its id, and opened.        *)
NewChannel(id) ==
  LET c   == created + 1
      req == Msg(id, "ChannelOpen", calls + 1)
  IN
  /\ created < NumChans
  /\ created' = c
  /\ used' = used \cup {id}
  /\ channels' = [channels EXCEPT ![id] = c]
  /\ channel_id' = [channel_id EXCEPT ![c] = id]
  /\ connection' = [connection EXCEPT ![c] = TRUE]
  /\ IF sock
     THEN /\ toServer' = [toServer EXCEPT ![id] = Append(@, req)]
          /\ wait(stack, "open", c, {"ChannelOpenOk"}, req)
          /\ UNCHANGED exc
     ELSE exc' = "OSError" /\ UNCHANGED <<toServer, stack, pending>>
  /\ UNCHANGED <<is_closing, sock, toClient, is_open, confirm_selected, consumers>>

NoChannel(e) ==
  /\ Raises(e)
  /\ UNCHANGED <<channels, channel_id, connection, is_closing, sock, toServer,
                 toClient, chanVars, created>>

channel(id) ==
  /\ AppCalls(0, "channel")
  /\ IF ~connection[0] THEN NoChannel("RecoverableConnectionError")
     ELSE IF id = 0
          THEN IF get_free_channel_id = 0 THEN NoChannel("ResourceError")
                                          ELSE NewChannel(get_free_channel_id)
          ELSE /\ channels[id] = 0
               /\ IF id \in used THEN NoChannel("ConnectionError") ELSE NewChannel(id)
  /\ UNCHANGED brokerVars

(* drain_events called by the application.  (On a collected connection it  *)
(* would connect again, which is outside this module.)                     *)
drain_events ==
  /\ AppCalls(0, "drain")
  /\ connection[0]
  /\ stack' = Append(stack,
       [op |-> "drain", ch |-> 0, on |-> {}, prev |-> [r \in Replies |-> 0],
        req |-> NoMsg, got |-> NoMsg, ready |-> FALSE, alone |-> TRUE,
        shot |-> 0])
  /\ UNCHANGED <<channels, channel_id, connection, is_closing, pending, exc,
                 sock, toServer, toClient, chanVars, brokerVars, created>>

-----------------------------------------------------------------------------
(* collect: close the transport and tear down every registered channel.    *)
(* Mutant: the channels are dropped, not collected. *)
CollectOnlySelf ==
  /\ sock' = FALSE
  /\ connection' = [connection EXCEPT ![0] = FALSE]
  /\ channels' = [id \in Ids |-> 0]
  /\ UNCHANGED <<channel_id, is_open, consumers, used>>

Connection_collect ==
  LET S == {channels[id] : id \in Ids} \ {0} IN
  /\ sock' = FALSE
  /\ Cleared(S)
  /\ connection' = [c \in Obj |-> c \notin S \cup {0} /\ connection[c]]
  /\ channels' = [id \in Ids |-> 0]
  /\ used' = used \ Freed(S)

(* close() of a connection that is not closed yet. *)
Connection_close ==
  /\ AppCalls(0, "ConnectionClose")
  /\ connection[0]
  /\ \/ LET req == Msg(0, "ConnectionClose", calls + 1) IN
        /\ send_method(0, <<req>>)
        /\ wait(stack, "connclose", 0, {"ConnectionCloseOk"}, req)
        /\ is_closing' = [is_closing EXCEPT ![0] = TRUE]
        /\ UNCHANGED <<exc, sock, channel_id, channels, connection, is_open,
                       consumers, used>>
     \/ /\ send_method_raises(0)
        /\ Connection_collect
        /\ is_closing' = [is_closing EXCEPT ![0] = FALSE]
        /\ UNCHANGED <<stack, pending>>
  /\ UNCHANGED <<toClient, confirm_selected, brokerVars, created>>

(* Mutant: no except clause. *)
CloseFailsOpen ==
  /\ Unwinds({"connclose"}) /\ exc = "OSError"
  /\ UNCHANGED <<sock, channel_id, channels, connection, is_open, consumers, used>>

(* The except clause of close(). *)
CloseFails ==
  Unwinds({"connclose"}) /\ exc = "OSError" /\ Connection_collect

ConnectionCloseReturns ==
  /\ \/ /\ Returns({"connclose"}) \/ (Unwinds({"connclose"}) /\ exc # "OSError")
        /\ UNCHANGED <<sock, channel_id, channels, connection, is_open,
                       consumers, used>>
     \/ CloseFails
  /\ is_closing' = [is_closing EXCEPT ![0] = FALSE]
  /\ UNCHANGED <<exc, toServer, toClient, calls, confirm_selected, brokerVars,
                 created>>

Connection_on_close_ok ==
  /\ Dispatches("ConnectionCloseOk")
  /\ Connection_collect
  /\ OneShot(0, "ConnectionCloseOk")
  /\ UNCHANGED <<is_closing, toServer, calls, confirm_selected, brokerVars,
                 created>>

(* The broker closes the connection: agree, collect, raise. *)
Connection_on_close ==
  /\ Dispatches("ConnectionClose")
  /\ \/ /\ send_method(0, <<Msg(0, "ConnectionCloseOk", 0)>>)
        /\ Connection_collect
        /\ Raises("ConnectionError")
     \/ /\ send_method_raises(0)
        /\ UNCHANGED <<sock, channel_id, channels, connection, is_open,
                       consumers, used, stack, pending>>
  /\ UNCHANGED <<is_closing, calls, confirm_selected, brokerVars, created>>

on_blocked(m) ==
  /\ Dispatches(m)
  /\ IF m \in Callbacks THEN CallBack(0, m) ELSE Ends
  /\ UNCHANGED <<channels, channel_id, connection, is_closing, sock, toServer,
                 calls, chanVars, brokerVars, created>>

-----------------------------------------------------------------------------
(* What the application may call. *)
ChannelCall(c) ==
  \/ \E nowait \in Nowaits :
       \/ exchange_declare(c, nowait) \/ exchange_delete(c, nowait)
       \/ exchange_bind(c, nowait) \/ exchange_unbind(c, nowait)
       \/ queue_declare(c, nowait) \/ queue_bind(c, nowait)
       \/ queue_unbind(c, nowait) \/ queue_delete(c, nowait)
       \/ queue_purge(c, nowait) \/ confirm_select(c, nowait)
       \/ \E t \in Tags : basic_cancel(c, t, nowait)
       \/ \E t \in Tags \cup {0}, no_ack \in NoAcks :
            basic_consume(c, t, nowait, no_ack)
  \/ flow(c) \/ basic_get(c) \/ basic_qos(c)
  \/ tx_select(c) \/ tx_commit(c) \/ tx_rollback(c)
  \/ basic_recover(c) \/ basic_recover_async(c) \/ basic_ack(c) \/ basic_reject(c)
  \/ basic_publish(c)
  \/ Channel_open(c)
  \/ Channel_close(c)

AppCall ==
  \/ \E c \in 1 .. created :
       ChannelCall(c) /\ UNCHANGED <<brokerVars, created>>
  \/ \E id \in ExplicitIds : channel(id)
  \/ drain_events
  \/ Connection_close

(* What the library does by itself once it has been called. *)
BaseStep ==
  /\ \/ ReturnPlain \/ ConnectionGone \/ UnwindPlain
     \/ UnwindCallback \/ CallbackCatch \/ Raised
     \/ Discard \/ UnknownChannel \/ ReadFails
     \/ \E m \in PlainReplies : OnReply(m)
  /\ UNCHANGED chanVars

ChannelStep ==
  \/ Channel_on_open_ok \/ Channel_on_close_ok \/ Channel_on_close
  \/ on_flow \/ on_basic_cancel_ok \/ on_basic_cancel
  \/ on_basic_deliver \/ on_basic_ack \/ on_basic_nack
  \/ on_basic_return
  \/ CloseReturns \/ ReviveReturns \/ ConsumeReturns \/ SelectReturns
  \/ PublishWrites

ConnectionStep ==
  \/ Connection_on_close_ok \/ Connection_on_close
  \/ on_blocked("ConnectionBlocked") \/ on_blocked("ConnectionUnblocked")
  \/ ConnectionCloseReturns

LibraryStep ==
  \/ (BaseStep \/ ChannelStep) /\ UNCHANGED <<brokerVars, created>>
  \/ ConnectionStep

CallbackEnds == CallbackReturns /\ UNCHANGED <<chanVars, brokerVars, created>>

TimesOut == ReadTimesOut /\ UNCHANGED <<chanVars, brokerVars, created>>

BrokerStep == (BrokerReceives \/ BrokerEvent) /\ UNCHANGED created

(* No call is in progress: the application need not call again.  A call in *)
(* progress that can do nothing is a deadlock.                             *)
Idle == stack = <<>> /\ exc = "none" /\ UNCHANGED vars

Next ==
  \/ AppCall \/ LibraryStep \/ CallbackEnds \/ TimesOut \/ BrokerStep \/ Idle

Spec == Init /\ [][Next]_vars

(* The library runs, callbacks end, and a broker handles what it receives. *)
Fairness ==
  /\ WF_vars(LibraryStep)
  /\ WF_vars(CallbackEnds)
  /\ WF_vars(BrokerReceives /\ UNCHANGED created)

FairSpec == Spec /\ Fairness
=============================================================================
