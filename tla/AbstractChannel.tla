--------------------------- MODULE AbstractChannel ---------------------------
(***************************************************************************)
(* amqp/abstract_channel.py: what Connection and Channel have in common,   *)
(* send_method, wait and dispatch_method.                                  *)
(*                                                                         *)
(* The library runs in the thread of its caller.  A synchronous call sends *)
(* its request and then, in wait(), reads and dispatches whatever method   *)
(* arrives, for any channel, until its own promise is fulfilled.  The      *)
(* handlers it runs may call application code, which may make synchronous  *)
(* calls again: calls nest, and the state of the client is a stack of      *)
(* calls in progress (variable stack, innermost call last).  Only the top  *)
(* frame runs; an exception unwinds the stack frame by frame, running the  *)
(* finally clauses.                                                        *)
(***************************************************************************)
EXTENDS AmqpSpec

CONSTANTS
  Requests,          \* the methods the application makes use of
  CallbackRequests,  \* those it also uses inside callbacks
  MaxCalls,          \* bound on the number of calls the application makes
  Callbacks,         \* the methods the application has a callback for
  CallbackCatches,   \* do its callbacks catch the exceptions of calls?
  UsesClosing,       \* does it use a channel while close() is in progress?
  TimedOps           \* the calls whose reads may time out

ASSUME AbstractChannelAssumption ==
  /\ MaxCalls \in Nat
  /\ CallbackCatches \in BOOLEAN
  /\ UsesClosing \in BOOLEAN

VARIABLES
  channels,    \* Connection.channels: the object registered for an id, or 0
  channel_id,  \* channel_id of an object, 0 for None (and for the Connection)
  connection,  \* is the connection attribute of an object set (not None)?
  is_closing,  \* is_closing of an object
  pending,     \* _pending of an object: the depth of the frame whose promise
               \* is registered for a method, or 0
  stack,       \* calls in progress
  exc,         \* the exception being raised, "none" when there is none
  sock,        \* is the socket connected?
  toServer,    \* methods written and not yet handled by the broker, per id
  toClient,    \* methods sent by the broker and not yet read
  calls        \* number of calls the application has made

baseVars == <<channels, channel_id, connection, is_closing, pending, stack,
              exc, sock, toServer, toClient, calls>>

(***************************************************************************)
(* A frame of the stack.  "callback" is application code called by a       *)
(* handler; the other frames read from the socket until they are ready:    *)
(* "drain" is Connection.drain_events called by the application,           *)
(* "publish" the drain_events(timeout=0) of basic_publish, and the rest    *)
(* are wait()s, named for the method they are the tail of.  on holds the   *)
(* methods waited for, prev what _pending held before (prev_p), got the    *)
(* method that fulfilled the promise (or, a Nack, made it fail).  For a    *)
(* callback, req is the method being dispatched and shot the frame whose   *)
(* promise dispatch_method fulfils after the callback (one_shot), or 0.    *)
(* alone is a history flag: no other request that the same reply answers   *)
(* was outstanding on this channel at any time since this one was sent.    *)
(***************************************************************************)
DrainOps == {"drain", "publish"}
WaitOps  == {"rpc", "open", "revive", "close", "connclose", "consume",
             "select", "confirm"}

Frame == [op : {"callback"} \cup DrainOps \cup WaitOps, ch : Obj,
          on : SUBSET Replies, prev : [Replies -> Nat], req : Message,
          got : Message, ready : BOOLEAN, alone : BOOLEAN, shot : Nat]

Exceptions == {"none", "OSError", "RecoverableConnectionError", "ChannelError",
               "ConnectionError", "ConsumerCancelled", "MessageNacked",
               "ResourceError", "AttributeError", "ValueError", "TypeError",
               "KeyError"}

Top == stack[Len(stack)]
Pop(s) == SubSeq(s, 1, Len(s) - 1)

AbstractChannelTypeOK ==
  /\ channels \in [Ids -> Obj]
  /\ channel_id \in [Obj -> Ids0]
  /\ connection \in [Obj -> BOOLEAN]
  /\ is_closing \in [Obj -> BOOLEAN]
  /\ pending \in [Obj -> [Replies -> Nat]]
  /\ stack \in Seq(Frame)
  /\ exc \in Exceptions
  /\ sock \in BOOLEAN
  /\ toServer \in [Ids0 -> Seq(Message)]
  /\ toClient \in Seq(Message)
  /\ calls \in Nat

-----------------------------------------------------------------------------
(* Application code runs outside every call and inside a callback; it      *)
(* calls method m of object c.                                             *)
AppCalls(c, m) ==
  /\ exc = "none"
  /\ m \in Requests
  /\ stack # <<>> => Top.op = "callback" /\ m \in CallbackRequests
  /\ is_closing[c] => UsesClosing
  /\ calls < MaxCalls
  /\ calls' = calls + 1

(* send_method: write the methods ms on the channel of object c, or raise. *)
send_method(c, ms) ==
  /\ connection[c] /\ sock
  /\ toServer' = [toServer EXCEPT ![channel_id[c]] = @ \o ms]

send_method_raises(c) ==
  /\ ~(connection[c] /\ sock)
  /\ exc' = IF connection[c] THEN "OSError" ELSE "RecoverableConnectionError"
  /\ UNCHANGED toServer

(* The replies a method is to be answered with. *)
Expected(msg) == IF msg.m \in Sync /\ ~msg.nowait THEN ReplyTo[msg.m] ELSE {}

(* Is the answer of an earlier request still to come, or being waited for? *)
Outstanding(c, id, on) ==
  \/ \E i \in DOMAIN stack : /\ stack[i].ch = c
                             /\ stack[i].on \cap on # {}
                             /\ ~stack[i].ready
  \/ \E i \in DOMAIN toServer[id] : Expected(toServer[id][i]) \cap on # {}
  \/ \E i \in DOMAIN toClient : toClient[i].ch = id /\ toClient[i].m \in on

(* Calls of object c that wait for a reply in on are not alone any more.   *)
Crowded(s, c, on) ==
  [i \in DOMAIN s |->
     [s[i] EXCEPT !.alone = @ /\ ~(s[i].ch = c /\ s[i].on \cap on # {})]]

(* The head of wait(): register a new promise for the methods on,          *)
(* remembering the promises it displaces, on top of the stack s.           *)
wait(s, op, c, on, req) ==
  /\ pending' = [pending EXCEPT ![c] =
       [m \in Replies |-> IF m \in on THEN Len(s) + 1 ELSE pending[c][m]]]
  /\ stack' = Append(Crowded(s, c, on),
       [op |-> op, ch |-> c, on |-> on, prev |-> pending[c], req |-> req,
        got |-> NoMsg, ready |-> FALSE, alone |-> ~Outstanding(c, req.ch, on),
        shot |-> 0])

(* A public method: send_method(req, wait=on), on = {} when nobody waits.  *)
Invoke(c, req, on, op) ==
  /\ AppCalls(c, req.m)
  /\ \/ /\ send_method(c, <<req>>)
        /\ IF on = {} THEN stack' = Crowded(stack, c, Expected(req)) /\ UNCHANGED pending
                      ELSE wait(stack, op, c, on, req)
        /\ UNCHANGED exc
     \/ /\ send_method_raises(c)
        /\ UNCHANGED <<stack, pending>>
  /\ UNCHANGED <<channels, channel_id, connection, is_closing, sock, toClient>>

Rpc(c, m, nowait) ==
  Invoke(c, [Msg(channel_id[c], m, calls + 1) EXCEPT !.nowait = nowait],
         IF nowait THEN {} ELSE ReplyTo[m], "rpc")

Post(c, m) == Invoke(c, Msg(channel_id[c], m, calls + 1), {}, "rpc")

-----------------------------------------------------------------------------
(* Mutants of Restored: no finally clause, one that forgets prev_p, and    *)
(* one that removes the slot of the method.                                *)
RestoredNever(f) == pending
RestoredDrops(f) ==
  [pending EXCEPT ![f.ch] =
     [m \in Replies |-> IF m \in f.on THEN 0 ELSE pending[f.ch][m]]]

RestoredKeyless(f) ==
  [pending EXCEPT ![f.ch] = [m \in Replies \ f.on |-> pending[f.ch][m]]]

(* The finally clause of wait(): put the displaced promises back.          *)
Restored(f) ==
  [pending EXCEPT ![f.ch] =
     [m \in Replies |-> IF m \in f.on THEN f.prev[m] ELSE pending[f.ch][m]]]

Leave == /\ stack # <<>>
         /\ pending' = Restored(Top)
         /\ stack' = Pop(stack)

Returns(ops) == exc = "none" /\ stack # <<>> /\ Top.op \in ops /\ Top.ready /\ Leave

Unwinds(ops) == exc # "none" /\ stack # <<>> /\ Top.op \in ops /\ Leave

(* The call returns its reply to its caller. *)
ReturnPlain ==
  /\ Returns({"rpc", "open", "confirm", "drain"})
  /\ UNCHANGED <<channels, channel_id, connection, is_closing, exc, sock,
                 toServer, toClient, calls>>

(* Mutant: the loop does not look at the connection. *)
ConnectionGoneSpins ==
  /\ exc = "none" /\ stack # <<>> /\ Top.op \in WaitOps
  /\ ~Top.ready /\ ~connection[Top.ch]
  /\ UNCHANGED baseVars

(* wait() finds that its connection has gone: "connection already closed". *)
ConnectionGone ==
  /\ exc = "none" /\ stack # <<>> /\ Top.op \in WaitOps
  /\ ~Top.ready /\ ~connection[Top.ch]
  /\ exc' = "RecoverableConnectionError"
  /\ UNCHANGED <<channels, channel_id, connection, is_closing, pending, stack,
                 sock, toServer, toClient, calls>>

(* An exception leaves a call that has no clause of its own for it. *)
UnwindPlain ==
  /\ Unwinds({"rpc", "open", "revive", "consume", "select", "confirm"}
             \cup DrainOps)
  /\ UNCHANGED <<channels, channel_id, connection, is_closing, exc, sock,
                 toServer, toClient, calls>>

(* Mutant: a Nack is an answer like any other. *)
FulfilledByNack(s, p, msg) ==
  IF p \notin DOMAIN s THEN s ELSE [s EXCEPT ![p].got = msg, ![p].ready = TRUE]

(* The promise of frame p is called with method msg: it becomes ready, but *)
(* confirm_handler, the callback of basic_publish_confirm's promise,       *)
(* raises MessageNacked for a Nack, and the promise fails.                 *)
Fulfilled(s, p, msg) ==
  IF p \notin DOMAIN s \/ (msg.m = "BasicNack" /\ s[p].ready) THEN s
  ELSE [s EXCEPT ![p].got = msg, ![p].ready = msg.m # "BasicNack"]

RaisedBy(p, msg) ==
  IF p # 0 /\ msg.m = "BasicNack" THEN "MessageNacked" ELSE "none"

(* A callback returns to dispatch_method, which calls the one-shot promise *)
(* of the method it is dispatching.                                        *)
CallbackReturns ==
  /\ exc = "none" /\ stack # <<>> /\ Top.op = "callback"
  /\ stack' = Fulfilled(Pop(stack), Top.shot, Top.req)
  /\ exc' = RaisedBy(Top.shot, Top.req)
  /\ UNCHANGED <<channels, channel_id, connection, is_closing, pending, sock,
                 toServer, toClient, calls>>

(* Application code lets an exception pass, or catches it. *)
UnwindCallback ==
  /\ Unwinds({"callback"})
  /\ UNCHANGED <<channels, channel_id, connection, is_closing, exc, sock,
                 toServer, toClient, calls>>

CallbackCatch ==
  /\ CallbackCatches
  /\ exc # "none" /\ stack # <<>> /\ Top.op = "callback"
  /\ exc' = "none"
  /\ UNCHANGED <<channels, channel_id, connection, is_closing, pending, stack,
                 sock, toServer, toClient, calls>>

(* The exception reaches the application. *)
Raised ==
  /\ exc # "none" /\ stack = <<>>
  /\ exc' = "none"
  /\ UNCHANGED <<channels, channel_id, connection, is_closing, pending, stack,
                 sock, toServer, toClient, calls>>

-----------------------------------------------------------------------------
(* Reading: the top frame drains the connection.                           *)
Reading == /\ exc = "none" /\ stack # <<>>
           /\ Top.op # "callback" /\ ~Top.ready /\ connection[Top.ch]

In == Head(toClient)
Target == IF In.ch = 0 THEN 0 ELSE channels[In.ch]

AllowedWhenClosing ==
  {"ChannelClose", "ChannelCloseOk", "ConnectionClose", "ConnectionCloseOk"}

(* drain_events returns once a method has been dispatched: a drain frame   *)
(* on top is done, a wait() frame looks at its promise again.              *)
Drained(s) == [s EXCEPT ![Len(s)].ready = @ \/ s[Len(s)].op \in DrainOps]

Takes == Reading /\ toClient # <<>> /\ toClient' = Tail(toClient)

(* dispatch_method up to the handler. *)
Dispatches(m) ==
  /\ Takes
  /\ In.m = m
  /\ In.ch # 0 => Target # 0
  /\ is_closing[Target] => m \in AllowedWhenClosing

(* "This method will be ignored". *)
Discard ==
  /\ Takes
  /\ In.ch # 0 => Target # 0
  /\ is_closing[Target] /\ In.m \notin AllowedWhenClosing
  /\ stack' = Drained(stack)
  /\ UNCHANGED <<channels, channel_id, connection, is_closing, pending, exc,
                 sock, toServer, calls>>

(* on_inbound_method: self.channels[channel_id] of a method for an id that *)
(* is not registered.                                                      *)
UnknownChannel ==
  /\ Takes
  /\ In.ch # 0 /\ Target = 0
  /\ exc' = "KeyError"
  /\ UNCHANGED <<channels, channel_id, connection, is_closing, pending, stack,
                 sock, toServer, calls>>

(* Mutant: the innermost call takes whatever arrives. *)
OneShotInnermost(c, m) ==
  /\ pending' = [pending EXCEPT ![c][m] = 0]
  /\ stack' = Fulfilled(Drained(stack), Len(stack), In)
  /\ exc' = RaisedBy(pending[c][m], In)

(* dispatch_method takes the one-shot promise, if any, out of _pending,    *)
(* then runs the listener, then calls the promise.                         *)
OneShot(c, m) ==
  /\ pending' = [pending EXCEPT ![c][m] = 0]
  /\ stack' = Fulfilled(Drained(stack), pending[c][m], In)
  /\ exc' = RaisedBy(pending[c][m], In)

(* The listener is, or ends with, application code. *)
CallBack(c, m) ==
  /\ pending' = IF m \in Replies THEN [pending EXCEPT ![c][m] = 0] ELSE pending
  /\ stack' = Append(Drained(stack),
       [op |-> "callback", ch |-> c, on |-> {},
        prev |-> [r \in Replies |-> 0], req |-> In, got |-> NoMsg,
        ready |-> FALSE, alone |-> TRUE,
        shot |-> IF m \in Replies THEN pending[c][m] ELSE 0])
  /\ UNCHANGED exc

(* The listener raises e, or returns; nobody waits for the method. *)
Raises(e) == exc' = e /\ UNCHANGED <<stack, pending>>
Ends == stack' = Drained(stack) /\ UNCHANGED <<exc, pending>>

(* The rest of dispatch_method for a reply, after its listener. *)
Answered(m) == IF m \in Callbacks THEN CallBack(Target, m) ELSE OneShot(Target, m)

(* Mutant: a reply is dispatched on the channel that is waiting. *)
OnReplyToWaiter(m) ==
  /\ Dispatches(m)
  /\ OneShot(Top.ch, m)
  /\ UNCHANGED <<channels, channel_id, connection, is_closing, sock, toServer,
                 calls>>

(* A reply nobody but the caller is interested in. *)
OnReply(m) ==
  /\ Dispatches(m)
  /\ OneShot(Target, m)
  /\ UNCHANGED <<channels, channel_id, connection, is_closing, sock, toServer,
                 calls>>

(* A read times out: the timeout of drain_events or confirm_timeout, or    *)
(* SO_RCVTIMEO (Connection(read_timeout=...)) for every call.              *)
ReadTimesOut ==
  /\ Reading /\ Top.op \in TimedOps
  /\ exc' = "OSError"
  /\ UNCHANGED <<channels, channel_id, connection, is_closing, pending, stack,
                 sock, toServer, toClient, calls>>

(* The socket has been closed by the peer: read_frame raises. *)
ReadFails ==
  /\ Reading /\ ~sock /\ toClient = <<>>
  /\ exc' = "OSError"
  /\ UNCHANGED <<channels, channel_id, connection, is_closing, pending, stack,
                 sock, toServer, toClient, calls>>
=============================================================================
