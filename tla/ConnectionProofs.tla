-------------------------- MODULE ConnectionProofs --------------------------
(***************************************************************************)
(* Theorems about module Connection, for every number of channels, every   *)
(* set of tags, every bound, and every choice of what the application and  *)
(* the broker may do: the types, and the tables the client keeps.          *)
(***************************************************************************)
EXTENDS ConnectionProperties, SequenceTheorems, WellFoundedInduction, TLAPS

-----------------------------------------------------------------------------
(* The names of methods and replies.                                       *)

\* The reply sets of ReplyTo, and the replies the handlers name, are Replies.
LEMMA RepliesFacts ==
  /\ \A m \in Sync : ReplyTo[m] \subseteq Replies
  /\ {"ChannelOpenOk", "ChannelCloseOk", "ConnectionCloseOk", "BasicConsumeOk",
      "BasicCancelOk", "ConfirmSelectOk", "BasicAck", "BasicNack"} \subseteq Replies
  BY DEF Replies, Sync, ReplyTo

\* The methods the client sends and the broker sends are Methods.
LEMMA MethodsFacts ==
  /\ Sync \subseteq Methods /\ Replies \subseteq Methods /\ Async \subseteq Methods
  /\ {"ChannelOpen", "ChannelClose", "ConnectionClose", "BasicConsume",
      "BasicCancel", "BasicPublish", "ConfirmSelect", "ChannelFlow"} \subseteq Sync
  /\ "BasicReject" \in Async /\ "ChannelCloseOk" \in Async /\ "none" \in Async
  BY DEF Methods, Sync, ReplyTo, Async

\* Msg builds a Message.
LEMMA MsgType ==
  ASSUME NEW id \in Ids0, NEW m \in Methods, NEW rid \in Nat
  PROVE  Msg(id, m, rid) \in Message
  BY DEF Msg, Message

\* The empty message is a Message.
LEMMA NoMsgType == NoMsg \in Message
  BY MsgType, MethodsFacts, SpecAssumption DEF NoMsg, Ids0

\* Setting the tag and the flags of a Message gives a Message.
LEMMA MessageUpdate ==
  ASSUME NEW x \in Message, NEW t \in Tags \cup {0}, NEW a \in BOOLEAN, NEW b \in BOOLEAN
  PROVE  /\ x.rid \in Nat
         /\ [x EXCEPT !.tag = t] \in Message
         /\ [x EXCEPT !.nowait = a] \in Message
         /\ [x EXCEPT !.tag = t, !.nowait = a] \in Message
         /\ [x EXCEPT !.tag = t, !.nowait = a, !.no_ack = b] \in Message
  BY DEF Message

-----------------------------------------------------------------------------
(* The stack.                                                              *)

\* The top of a nonempty stack is a frame.
LEMMA TopType ==
  ASSUME stack \in Seq(Frame), stack # <<>>
  PROVE  Top \in Frame /\ Len(stack) \in Nat \ {0} /\ Len(stack) \in DOMAIN stack
  BY DEF Top

\* A prefix of a sequence is a sequence over the same set, of the expected
\* length.
LEMMA PrefixType ==
  ASSUME NEW S, NEW s \in Seq(S), NEW n \in 0 .. Len(s)
  PROVE  /\ SubSeq(s, 1, n) \in Seq(S)
         /\ Len(SubSeq(s, 1, n)) = n
         /\ \A i \in 1 .. n : SubSeq(s, 1, n)[i] = s[i]
  <1>1. SubSeq(s, 1, n) \in Seq(S)
    BY SMT
  <1>2. Len(SubSeq(s, 1, n)) = n
    BY SMT
  <1>3. \A i \in 1 .. n : SubSeq(s, 1, n)[i] = s[i]
    BY SMT
  <1> QED BY <1>1, <1>2, <1>3

\* Popping a frame leaves a stack of frames.
LEMMA PopType ==
  ASSUME NEW s \in Seq(Frame), s # <<>>
  PROVE  /\ Pop(s) \in Seq(Frame)
         /\ Len(Pop(s)) = Len(s) - 1
         /\ \A i \in 1 .. Len(s) - 1 : Pop(s)[i] = s[i]
  <1>1. Len(s) - 1 \in 0 .. Len(s)
    BY EmptySeq
  <1> QED BY <1>1, PrefixType DEF Pop

\* Marking a drain frame as done leaves a stack of frames.
LEMMA DrainedType ==
  ASSUME NEW s \in Seq(Frame), s # <<>>
  PROVE  Drained(s) \in Seq(Frame) /\ Len(Drained(s)) = Len(s)
  <1>1. Len(s) \in 1 .. Len(s) /\ s[Len(s)] \in Frame
    BY EmptySeq, ElementOfSeq
  <1> DEFINE f == [s[Len(s)] EXCEPT !.ready = @ \/ s[Len(s)].op \in DrainOps]
  <1>2. f \in Frame
    BY <1>1 DEF Frame
  <1>3. Drained(s) = [s EXCEPT ![Len(s)] = f]
    BY DEF Drained
  <1> QED BY <1>1, <1>2, <1>3, ExceptSeq

\* Fulfilling the promise of a frame leaves a stack of frames.
LEMMA FulfilledType ==
  ASSUME NEW s \in Seq(Frame), NEW p \in Nat, NEW msg \in Message
  PROVE  Fulfilled(s, p, msg) \in Seq(Frame) /\ Len(Fulfilled(s, p, msg)) = Len(s)
  <1>1. CASE Fulfilled(s, p, msg) = s
    BY <1>1
  <1>2. CASE Fulfilled(s, p, msg) # s
    <2>1. p \in 1 .. Len(s) /\ s[p] \in Frame
      BY <1>2, LenProperties DEF Fulfilled
    <2> DEFINE f == [s[p] EXCEPT !.got = msg, !.ready = msg.m # "BasicNack"]
    <2>2. f \in Frame
      BY <2>1 DEF Frame
    <2>3. Fulfilled(s, p, msg) = [s EXCEPT ![p] = f]
      BY <1>2 DEF Fulfilled
    <2> QED BY <2>1, <2>2, <2>3, ExceptSeq
  <1> QED BY <1>1, <1>2

-----------------------------------------------------------------------------
(* Parts of actions.                                                       *)

\* What a method is answered with is a set of replies.
LEMMA ExpectedType ==
  ASSUME NEW msg \in Message
  PROVE  Expected(msg) \in SUBSET Replies
  BY RepliesFacts DEF Expected

\* Calls that are not alone any more are still frames.
LEMMA CrowdedType ==
  ASSUME NEW s \in Seq(Frame), NEW c \in Obj, NEW on \in SUBSET Replies
  PROVE  /\ Crowded(s, c, on) \in Seq(Frame)
         /\ Len(Crowded(s, c, on)) = Len(s)
         /\ \A i \in 1 .. Len(s) :
              \E b \in BOOLEAN : Crowded(s, c, on)[i] = [s[i] EXCEPT !.alone = b]
  <1> DEFINE t == Crowded(s, c, on)
             b(i) == s[i].alone /\ ~(s[i].ch = c /\ s[i].on \cap on # {})
  <1>1. Len(s) \in Nat /\ DOMAIN s = 1 .. Len(s) /\ \A i \in 1 .. Len(s) : s[i] \in Frame
    BY LenProperties
  <1>2. t = [i \in 1 .. Len(s) |-> [s[i] EXCEPT !.alone = b(i)]]
    BY <1>1 DEF Crowded
  <1>3. ASSUME NEW x \in Frame, NEW v \in BOOLEAN
        PROVE  [x EXCEPT !.alone = v] \in Frame
    BY DEF Frame
  <1>4. ASSUME NEW i \in 1 .. Len(s)
        PROVE  b(i) \in BOOLEAN /\ t[i] = [s[i] EXCEPT !.alone = b(i)] /\ t[i] \in Frame
    <2>1. b(i) \in BOOLEAN
      OBVIOUS
    <2>2. t[i] = [s[i] EXCEPT !.alone = b(i)]
      BY <1>2
    <2> QED BY <1>1, <1>3, <2>1, <2>2
  <1>5. t \in [1 .. Len(s) -> Frame]
    BY <1>2, <1>4
  <1>6. t \in Seq(Frame) /\ Len(t) = Len(s)
    BY <1>1, <1>5, SeqDef, LenProperties
  <1> QED BY <1>4, <1>6

\* The head of wait() leaves _pending and the stack well typed.
LEMMA WaitType ==
  ASSUME AbstractChannelTypeOK,
         NEW s \in Seq(Frame), NEW op \in WaitOps, NEW c \in Obj,
         NEW on \in SUBSET Replies, NEW req \in Message,
         wait(s, op, c, on, req)
  PROVE  pending' \in [Obj -> [Replies -> Nat]] /\ stack' \in Seq(Frame)
  <1> DEFINE f == [op |-> op, ch |-> c, on |-> on, prev |-> pending[c], req |-> req,
                   got |-> NoMsg, ready |-> FALSE,
                   alone |-> ~Outstanding(c, req.ch, on), shot |-> 0]
             g == [m \in Replies |-> IF m \in on THEN Len(s) + 1 ELSE pending[c][m]]
  <1>1. pending' = [pending EXCEPT ![c] = g] /\ stack' = Append(Crowded(s, c, on), f)
    BY DEF wait
  <1>2. g \in [Replies -> Nat]
    BY LenProperties DEF AbstractChannelTypeOK
  <1>4. f \in Frame
    <2>1. Outstanding(c, req.ch, on) \in BOOLEAN
      BY DEF Outstanding
    <2>2. pending[c] \in [Replies -> Nat]
      BY DEF AbstractChannelTypeOK
    <2> QED BY <2>1, <2>2, NoMsgType DEF Frame
  <1> QED BY <1>1, <1>2, <1>4, CrowdedType, AppendProperties DEF AbstractChannelTypeOK

\* The finally clause of wait() leaves _pending and the stack well typed.
LEMMA LeaveType ==
  ASSUME AbstractChannelTypeOK, Leave
  PROVE  pending' \in [Obj -> [Replies -> Nat]] /\ stack' \in Seq(Frame)
  <1>1. stack \in Seq(Frame) /\ stack # <<>> /\ Top \in Frame
    BY TopType DEF AbstractChannelTypeOK, Leave
  <1>2. stack' \in Seq(Frame)
    BY <1>1, PopType DEF Leave
  <1> DEFINE g == [m \in Replies |-> IF m \in Top.on THEN Top.prev[m] ELSE pending[Top.ch][m]]
  <1>3. Top.ch \in Obj /\ g \in [Replies -> Nat]
    BY <1>1 DEF Frame, AbstractChannelTypeOK
  <1>4. pending' = [pending EXCEPT ![Top.ch] = g]
    BY DEF Leave, Restored
  <1> QED BY <1>2, <1>3, <1>4 DEF AbstractChannelTypeOK

\* send_method leaves the queues to the broker well typed.
LEMMA SendType ==
  ASSUME AbstractChannelTypeOK, NEW c \in Obj, NEW ms \in Seq(Message), send_method(c, ms)
  PROVE  toServer' \in [Ids0 -> Seq(Message)]
  BY ConcatProperties DEF AbstractChannelTypeOK, send_method

\* send_method that raises leaves the queues and the exception well typed.
LEMMA SendRaisesType ==
  ASSUME AbstractChannelTypeOK, NEW c \in Obj, send_method_raises(c)
  PROVE  toServer' \in [Ids0 -> Seq(Message)] /\ exc' \in Exceptions
  BY DEF AbstractChannelTypeOK, send_method_raises, Exceptions

\* A public method that sends a well-typed request preserves the types of the
\* base variables.
LEMMA InvokeType ==
  ASSUME AbstractChannelTypeOK, NEW c \in Obj, NEW req \in Message,
         NEW on \in SUBSET Replies, NEW op \in WaitOps, Invoke(c, req, on, op)
  PROVE  AbstractChannelTypeOK'
  <1>1. calls' \in Nat
    BY DEF Invoke, AppCalls, AbstractChannelTypeOK
  <1>2. CASE send_method(c, <<req>>)
    <2>1. toServer' \in [Ids0 -> Seq(Message)]
      <3>1. <<req>> \in Seq(Message)
        OBVIOUS
      <3> QED BY <1>2, <3>1, SendType, Zenon
    <2>2. pending' \in [Obj -> [Replies -> Nat]] /\ stack' \in Seq(Frame)
      <3>1. on # {} => wait(stack, op, c, on, req)
        BY <1>2 DEF Invoke, send_method, send_method_raises
      <3>2. on = {} => stack' = Crowded(stack, c, Expected(req)) /\ UNCHANGED pending
        BY <1>2 DEF Invoke, send_method, send_method_raises
      <3>3. stack \in Seq(Frame) /\ Crowded(stack, c, Expected(req)) \in Seq(Frame)
        BY CrowdedType, ExpectedType DEF AbstractChannelTypeOK
      <3> QED BY <3>1, <3>2, <3>3, WaitType DEF AbstractChannelTypeOK
    <2>3. UNCHANGED exc
      BY <1>2 DEF Invoke, send_method, send_method_raises
    <2> QED BY <1>1, <2>1, <2>2, <2>3 DEF Invoke, AbstractChannelTypeOK
  <1>3. CASE send_method_raises(c)
    <2>1. UNCHANGED <<stack, pending>>
      BY <1>3 DEF Invoke, send_method, send_method_raises
    <2> QED BY <1>1, <1>3, <2>1, SendRaisesType DEF Invoke, AbstractChannelTypeOK
  <1> QED BY <1>2, <1>3 DEF Invoke

(* Application frames and what is pushed on the stack. *)
LEMMA PushType ==
  ASSUME NEW s \in Seq(Frame), NEW f \in Frame
  PROVE  Append(s, f) \in Seq(Frame)
  BY AppendProperties

\* The method being dispatched is a Message and its target an object.
LEMMA InType ==
  ASSUME AbstractChannelTypeOK, Takes
  PROVE  /\ stack \in Seq(Frame) /\ stack # <<>> /\ Top \in Frame
         /\ In \in Message /\ In.m \in Methods /\ In.ch \in Ids0
         /\ In.rid \in Nat /\ In.tag \in Tags \cup {0}
         /\ toClient' \in Seq(Message)
         /\ Target \in Obj
  <1>1. stack \in Seq(Frame) /\ stack # <<>>
    BY DEF AbstractChannelTypeOK, Takes, Reading
  <1>2. In \in Message /\ toClient' \in Seq(Message)
    BY HeadTailProperties DEF AbstractChannelTypeOK, Takes, In
  <1>3. In.ch \in Ids0 /\ In.m \in Methods /\ In.rid \in Nat /\ In.tag \in Tags \cup {0}
    BY <1>2 DEF Message
  <1>4. Target \in Obj
    <2>1. channels \in [Ids -> Obj]
      BY DEF AbstractChannelTypeOK
    <2>2. 0 \in Obj /\ (In.ch # 0 => In.ch \in Ids)
      BY <1>3, SpecAssumption DEF Ids, Ids0, Obj
    <2> QED BY <2>1, <2>2 DEF Target
  <1> QED BY <1>1, <1>2, <1>3, <1>4, TopType

\* Taking and calling the one-shot promise preserves types.
LEMMA OneShotType ==
  ASSUME AbstractChannelTypeOK, Takes, NEW c \in Obj, NEW m \in Replies, OneShot(c, m)
  PROVE  /\ pending' \in [Obj -> [Replies -> Nat]]
         /\ stack' \in Seq(Frame) /\ exc' \in Exceptions
  <1>1. pending[c] \in [Replies -> Nat] /\ pending[c][m] \in Nat
    BY DEF AbstractChannelTypeOK
  <1>2. pending' \in [Obj -> [Replies -> Nat]]
    BY <1>1 DEF OneShot, AbstractChannelTypeOK
  <1>3. Drained(stack) \in Seq(Frame)
    BY InType, DrainedType
  <1>4. stack' \in Seq(Frame)
    BY <1>1, <1>3, InType, FulfilledType DEF OneShot
  <1>5. exc' \in Exceptions
    BY DEF OneShot, RaisedBy, Exceptions
  <1> QED BY <1>2, <1>4, <1>5

\* Starting a callback of the application preserves types.
LEMMA CallBackType ==
  ASSUME AbstractChannelTypeOK, Takes, NEW c \in Obj, NEW m, CallBack(c, m)
  PROVE  /\ pending' \in [Obj -> [Replies -> Nat]]
         /\ stack' \in Seq(Frame) /\ exc' \in Exceptions
  <1>1. pending[c] \in [Replies -> Nat] /\ (m \in Replies => pending[c][m] \in Nat)
    BY DEF AbstractChannelTypeOK
  <1>2. pending' \in [Obj -> [Replies -> Nat]]
    <2>1. CASE m \in Replies
      BY <1>1, <2>1 DEF CallBack, AbstractChannelTypeOK
    <2>2. CASE m \notin Replies
      BY <2>2 DEF CallBack, AbstractChannelTypeOK
    <2> QED BY <2>1, <2>2
  <1>3. Drained(stack) \in Seq(Frame)
    BY InType, DrainedType
  <1> DEFINE n == IF m \in Replies THEN pending[c][m] ELSE 0
             f == [op |-> "callback", ch |-> c, on |-> {},
                   prev |-> [r \in Replies |-> 0], req |-> In, got |-> NoMsg,
                   ready |-> FALSE, alone |-> TRUE, shot |-> n]
  <1>4. f \in Frame
    <2>1. n \in Nat
      BY <1>1
    <2> QED BY <2>1, InType, NoMsgType DEF Frame
  <1>5. stack' \in Seq(Frame)
    BY <1>3, <1>4, PushType DEF CallBack
  <1> QED BY <1>2, <1>5 DEF CallBack, AbstractChannelTypeOK

\* A handler that just returns preserves types.
LEMMA EndsType ==
  ASSUME AbstractChannelTypeOK, Takes, Ends
  PROVE  /\ pending' \in [Obj -> [Replies -> Nat]]
         /\ stack' \in Seq(Frame) /\ exc' \in Exceptions
  BY InType, DrainedType DEF Ends, AbstractChannelTypeOK

\* The tail of dispatch_method for a reply preserves types.
LEMMA AnsweredType ==
  ASSUME AbstractChannelTypeOK, Takes, NEW m \in Replies, Answered(m)
  PROVE  /\ pending' \in [Obj -> [Replies -> Nat]]
         /\ stack' \in Seq(Frame) /\ exc' \in Exceptions
  BY InType, OneShotType, CallBackType DEF Answered

\* Clearing a set of channel objects preserves types.
LEMMA ClearedType ==
  ASSUME AbstractChannelTypeOK, ChannelTypeOK, NEW S, Cleared(S)
  PROVE  /\ channel_id' \in [Obj -> Ids0]
         /\ is_open' \in [Chan -> BOOLEAN]
         /\ callbacks' \in [Chan -> [Tags -> Nat]]
         /\ cancel_callbacks' \in [Chan -> SUBSET (Tags \cup {0})]
         /\ no_ack_consumers' \in [Chan -> SUBSET (Tags \cup {0})]
  <1>1. channel_id' \in [Obj -> Ids0]
    BY SpecAssumption DEF Cleared, AbstractChannelTypeOK, Ids0
  <1>2. is_open' \in [Chan -> BOOLEAN]
    BY DEF Cleared, ChannelTypeOK
  <1>3. callbacks' \in [Chan -> [Tags -> Nat]]
    BY DEF Cleared, ChannelTypeOK
  <1>4. cancel_callbacks' \in [Chan -> SUBSET (Tags \cup {0})]
    BY DEF Cleared, ChannelTypeOK
  <1>5. no_ack_consumers' \in [Chan -> SUBSET (Tags \cup {0})]
    BY DEF Cleared, ChannelTypeOK
  <1> QED BY <1>1, <1>2, <1>3, <1>4, <1>5

\* Channel.collect preserves types.
LEMMA ChannelCollectType ==
  ASSUME AbstractChannelTypeOK, ChannelTypeOK, NEW c \in Obj, Channel_collect(c)
  PROVE  /\ channel_id' \in [Obj -> Ids0]
         /\ is_open' \in [Chan -> BOOLEAN]
         /\ callbacks' \in [Chan -> [Tags -> Nat]]
         /\ cancel_callbacks' \in [Chan -> SUBSET (Tags \cup {0})]
         /\ no_ack_consumers' \in [Chan -> SUBSET (Tags \cup {0})]
         /\ connection' \in [Obj -> BOOLEAN]
         /\ channels' \in [Ids -> Obj]
         /\ used' \in SUBSET Ids
  <1>1. Cleared({c})
    BY DEF Channel_collect
  <1>2. connection' \in [Obj -> BOOLEAN]
    BY DEF Channel_collect, AbstractChannelTypeOK
  <1>3. channels' \in [Ids -> Obj]
    BY SpecAssumption DEF Channel_collect, AbstractChannelTypeOK, Obj
  <1>4. used' \in SUBSET Ids
    BY DEF Channel_collect, ChannelTypeOK
  <1> QED BY <1>1, <1>2, <1>3, <1>4, ClearedType

\* Connection.collect preserves types.
LEMMA ConnectionCollectType ==
  ASSUME AbstractChannelTypeOK, ChannelTypeOK, Connection_collect
  PROVE  /\ channel_id' \in [Obj -> Ids0]
         /\ is_open' \in [Chan -> BOOLEAN]
         /\ callbacks' \in [Chan -> [Tags -> Nat]]
         /\ cancel_callbacks' \in [Chan -> SUBSET (Tags \cup {0})]
         /\ no_ack_consumers' \in [Chan -> SUBSET (Tags \cup {0})]
         /\ connection' \in [Obj -> BOOLEAN]
         /\ channels' \in [Ids -> Obj]
         /\ used' \in SUBSET Ids
         /\ sock' \in BOOLEAN
  <1> DEFINE S == {channels[id] : id \in Ids} \ {0}
  <1>1. Cleared(S)
    BY DEF Connection_collect
  <1>2. connection' \in [Obj -> BOOLEAN]
    BY DEF Connection_collect, AbstractChannelTypeOK
  <1>3. channels' \in [Ids -> Obj]
    BY SpecAssumption DEF Connection_collect, Obj
  <1>4. used' \in SUBSET Ids
    BY DEF Connection_collect, ChannelTypeOK
  <1>5. sock' \in BOOLEAN
    BY DEF Connection_collect
  <1> QED BY <1>1, <1>2, <1>3, <1>4, <1>5, ClearedType

-----------------------------------------------------------------------------
(* Type correctness: every operation keeps TypeOK.                         *)

\* The request of a public method is a Message and what it waits for are
\* Replies.
LEMMA RequestType ==
  ASSUME AbstractChannelTypeOK, NEW c \in Obj, NEW m \in Methods
  PROVE  /\ Msg(channel_id[c], m, calls + 1) \in Message
         /\ Msg(channel_id[c], m, 0) \in Message
  <1>1. channel_id[c] \in Ids0 /\ calls + 1 \in Nat /\ 0 \in Nat
    BY DEF AbstractChannelTypeOK
  <1> QED BY <1>1, MsgType

\* A plain request with a reply preserves TypeOK.
LEMMA SimpleType ==
  ASSUME AbstractChannelTypeOK, ChannelTypeOK, NEW c \in Chan, NEW m \in Sync,
         NEW nowait \in BOOLEAN, Simple(c, m, nowait)
  PROVE  AbstractChannelTypeOK' /\ ChannelTypeOK'
  <1>1. c \in Obj
    BY DEF Chan, Obj
  <1>2. [Msg(channel_id[c], m, calls + 1) EXCEPT !.nowait = nowait] \in Message
    <2>1. Msg(channel_id[c], m, calls + 1) \in Message
      BY <1>1, RequestType, MethodsFacts
    <2> QED BY <2>1, MessageUpdate
  <1>3. (IF nowait THEN {} ELSE ReplyTo[m]) \in SUBSET Replies
    BY RepliesFacts
  <1>4. "rpc" \in WaitOps
    BY DEF WaitOps
  <1>5. AbstractChannelTypeOK'
    BY <1>1, <1>2, <1>3, <1>4, InvokeType DEF Simple, Rpc
  <1>6. ChannelTypeOK'
    BY DEF Simple, ChannelTypeOK, chanVars, consumers
  <1> QED BY <1>5, <1>6

\* A plain request nobody waits for preserves TypeOK.
LEMMA SimplePostType ==
  ASSUME AbstractChannelTypeOK, ChannelTypeOK, NEW c \in Chan, NEW m \in Methods,
         SimplePost(c, m)
  PROVE  AbstractChannelTypeOK' /\ ChannelTypeOK'
  <1>1. c \in Obj
    BY DEF Chan, Obj
  <1>2. "rpc" \in WaitOps /\ {} \in SUBSET Replies
    BY DEF WaitOps
  <1>3. AbstractChannelTypeOK'
    BY <1>1, <1>2, RequestType, InvokeType DEF SimplePost, Post
  <1>4. ChannelTypeOK'
    BY DEF SimplePost, ChannelTypeOK, chanVars, consumers
  <1> QED BY <1>3, <1>4

\* The frame of _basic_publish is a frame.
LEMMA PublishFrameType ==
  ASSUME AbstractChannelTypeOK, NEW c \in Obj, NEW rid \in Nat
  PROVE  PublishFrame(c, rid) \in Frame
  <1>1. Msg(channel_id[c], "BasicPublish", rid) \in Message
    BY MsgType, MethodsFacts DEF AbstractChannelTypeOK
  <1>2. [r \in Replies |-> 0] \in [Replies -> Nat] /\ (~BlockedCapability) \in BOOLEAN
    OBVIOUS
  <1>3. "publish" \in {"callback"} \cup DrainOps \cup WaitOps
    BY DEF DrainOps
  <1> QED BY <1>1, <1>2, <1>3, NoMsgType DEF PublishFrame, Frame

\* Registering a consumer preserves the types of the consumer tables.
LEMMA RegisteredType ==
  ASSUME ChannelTypeOK, NEW c, NEW t \in Tags \cup {0}, NEW rid \in Nat, NEW no_ack,
         Registered(c, t, rid, no_ack)
  PROVE  /\ callbacks' \in [Chan -> [Tags -> Nat]]
         /\ cancel_callbacks' \in [Chan -> SUBSET (Tags \cup {0})]
         /\ no_ack_consumers' \in [Chan -> SUBSET (Tags \cup {0})]
  <1>1. callbacks' \in [Chan -> [Tags -> Nat]]
    BY DEF Registered, ChannelTypeOK
  <1>2. cancel_callbacks' \in [Chan -> SUBSET (Tags \cup {0})]
    BY DEF Registered, ChannelTypeOK
  <1>3. no_ack_consumers' \in [Chan -> SUBSET (Tags \cup {0})]
    BY DEF Registered, ChannelTypeOK
  <1> QED BY <1>1, <1>2, <1>3

\* Removing a consumer preserves the types of the consumer tables.
LEMMA RemoveTagType ==
  ASSUME ChannelTypeOK, NEW c, NEW t, remove_tag(c, t)
  PROVE  /\ callbacks' \in [Chan -> [Tags -> Nat]]
         /\ cancel_callbacks' \in [Chan -> SUBSET (Tags \cup {0})]
  BY DEF remove_tag, ChannelTypeOK

\* A call of the application keeps the call counter a number.
LEMMA AppCallsType ==
  ASSUME AbstractChannelTypeOK, NEW c, NEW m, AppCalls(c, m)
  PROVE  calls' \in Nat
  BY DEF AppCalls, AbstractChannelTypeOK

\* basic_publish preserves TypeOK.
LEMMA PublishType ==
  ASSUME AbstractChannelTypeOK, ChannelTypeOK, NEW c \in Chan, basic_publish(c)
  PROVE  AbstractChannelTypeOK' /\ ChannelTypeOK'
  <1>1. c \in Obj
    BY DEF Chan, Obj
  <1>2. calls' \in Nat /\ calls + 1 \in Nat
    BY AppCallsType DEF basic_publish, AbstractChannelTypeOK
  <1>3. /\ UNCHANGED <<channels, channel_id, connection, is_closing, sock, toClient>>
        /\ UNCHANGED <<is_open, callbacks, cancel_callbacks, no_ack_consumers, used>>
    BY DEF basic_publish, consumers
  <1>4. CASE Selects(c)
    <2> DEFINE req == Msg(channel_id[c], "ConfirmSelect", calls + 1)
    <2>1. req \in Message /\ <<req>> \in Seq(Message)
      BY <1>1, RequestType, MethodsFacts
    <2>2. confirm_selected' \in [Chan -> BOOLEAN]
      BY <1>4 DEF Selects, ChannelTypeOK
    <2>3. CASE send_method(c, <<req>>) /\ wait(stack, "select", c, {"ConfirmSelectOk"}, req)
                 /\ UNCHANGED exc
      <3>1. stack \in Seq(Frame) /\ "select" \in WaitOps /\ {"ConfirmSelectOk"} \in SUBSET Replies
        BY RepliesFacts DEF WaitOps, AbstractChannelTypeOK
      <3>2. pending' \in [Obj -> [Replies -> Nat]] /\ stack' \in Seq(Frame)
        BY <1>1, <2>1, <2>3, <3>1, WaitType
      <3>3. toServer' \in [Ids0 -> Seq(Message)]
        BY <1>1, <2>1, <2>3, SendType
      <3> QED BY <1>2, <1>3, <2>2, <2>3, <3>2, <3>3 DEF AbstractChannelTypeOK, ChannelTypeOK
    <2>4. CASE send_method_raises(c) /\ UNCHANGED <<stack, pending>>
      BY <1>1, <1>2, <1>3, <2>2, <2>4, SendRaisesType DEF AbstractChannelTypeOK, ChannelTypeOK
    <2> QED BY <1>4, <2>3, <2>4 DEF Selects
  <1>5. CASE /\ IF connection[c]
                THEN stack' = Append(stack, PublishFrame(c, calls + 1)) /\ UNCHANGED exc
                ELSE exc' = "RecoverableConnectionError" /\ UNCHANGED stack
             /\ UNCHANGED <<pending, toServer, confirm_selected>>
    <2>1. PublishFrame(c, calls + 1) \in Frame
      BY <1>1, <1>2, PublishFrameType
    <2>2. stack' \in Seq(Frame) /\ exc' \in Exceptions
      BY <1>5, <2>1, PushType DEF AbstractChannelTypeOK, Exceptions
    <2> QED BY <1>2, <1>3, <1>5, <2>2 DEF AbstractChannelTypeOK, ChannelTypeOK
  <1> QED BY <1>4, <1>5 DEF basic_publish

\* basic_consume preserves TypeOK.
LEMMA ConsumeType ==
  ASSUME AbstractChannelTypeOK, ChannelTypeOK, NEW c \in Chan, NEW t \in Tags \cup {0},
         NEW nowait \in BOOLEAN, NEW no_ack \in BOOLEAN,
         basic_consume(c, t, nowait, no_ack)
  PROVE  AbstractChannelTypeOK' /\ ChannelTypeOK'
  <1> DEFINE req == [Msg(channel_id[c], "BasicConsume", calls + 1)
                     EXCEPT !.tag = t, !.nowait = nowait, !.no_ack = no_ack]
  <1>1. c \in Obj
    BY DEF Chan, Obj
  <1>2. req \in Message /\ <<req>> \in Seq(Message) /\ req.rid \in Nat
    <2>1. Msg(channel_id[c], "BasicConsume", calls + 1) \in Message
      BY <1>1, RequestType, MethodsFacts
    <2>2. req \in Message
      BY <2>1, MessageUpdate
    <2>3. req.rid \in Nat
      BY <2>2, MessageUpdate
    <2> HIDE DEF req
    <2> QED BY <2>2, <2>3
  <1>3. UNCHANGED <<is_open, confirm_selected, used>>
    BY DEF basic_consume
  <1>4. CASE Invoke(c, req, {"BasicConsumeOk"}, "consume") /\ UNCHANGED consumers
    <2>1. "consume" \in WaitOps /\ {"BasicConsumeOk"} \in SUBSET Replies
      BY RepliesFacts DEF WaitOps
    <2> QED BY <1>1, <1>2, <1>3, <1>4, <2>1, InvokeType DEF ChannelTypeOK, consumers
  <1>5. CASE /\ AppCalls(c, "BasicConsume")
             /\ \/ send_method_raises(c) /\ UNCHANGED consumers
                \/ /\ send_method(c, <<req>>)
                   /\ \/ t = 0 /\ exc' = "ValueError" /\ UNCHANGED consumers
                      \/ t # 0 /\ UNCHANGED exc /\ Registered(c, t, req.rid, no_ack)
             /\ UNCHANGED <<channels, channel_id, connection, is_closing, pending,
                            stack, sock, toClient>>
    <2>1. calls' \in Nat
      BY <1>5, AppCallsType
    <2>2. toServer' \in [Ids0 -> Seq(Message)] /\ exc' \in Exceptions
      BY <1>1, <1>2, <1>5, SendType, SendRaisesType DEF AbstractChannelTypeOK, Exceptions
    <2>3. /\ callbacks' \in [Chan -> [Tags -> Nat]]
          /\ cancel_callbacks' \in [Chan -> SUBSET (Tags \cup {0})]
          /\ no_ack_consumers' \in [Chan -> SUBSET (Tags \cup {0})]
      <3>1. CASE UNCHANGED consumers
        BY <3>1 DEF ChannelTypeOK, consumers
      <3>2. CASE Registered(c, t, req.rid, no_ack)
        BY <1>2, <3>2, RegisteredType
      <3> QED BY <1>5, <3>1, <3>2
    <2> QED BY <1>3, <1>5, <2>1, <2>2, <2>3 DEF AbstractChannelTypeOK, ChannelTypeOK
  <1> QED BY <1>4, <1>5 DEF basic_consume

\* basic_cancel preserves TypeOK.
LEMMA CancelType ==
  ASSUME AbstractChannelTypeOK, ChannelTypeOK, NEW c \in Chan, NEW t \in Tags,
         NEW nowait \in BOOLEAN, basic_cancel(c, t, nowait)
  PROVE  AbstractChannelTypeOK' /\ ChannelTypeOK'
  <1> DEFINE req == [Msg(channel_id[c], "BasicCancel", calls + 1)
                     EXCEPT !.tag = t, !.nowait = nowait]
             on == IF nowait THEN {} ELSE {"BasicCancelOk"}
  <1>1. c \in Obj
    BY DEF Chan, Obj
  <1>2. req \in Message
    <2>1. Msg(channel_id[c], "BasicCancel", calls + 1) \in Message
      BY <1>1, RequestType, MethodsFacts
    <2> QED BY <2>1, MessageUpdate
  <1>3. on \in SUBSET Replies /\ "rpc" \in WaitOps
    BY RepliesFacts DEF WaitOps
  <1>4. Invoke(c, req, on, "rpc")
    BY DEF basic_cancel
  <1>5. AbstractChannelTypeOK'
    BY <1>1, <1>2, <1>3, <1>4, InvokeType
  <1>6. no_ack_consumers' \in [Chan -> SUBSET (Tags \cup {0})]
    BY DEF basic_cancel, ChannelTypeOK
  <1> QED BY <1>5, <1>6 DEF basic_cancel, ChannelTypeOK

\* Channel.open preserves TypeOK.
LEMMA OpenType ==
  ASSUME AbstractChannelTypeOK, ChannelTypeOK, NEW c \in Chan, Channel_open(c)
  PROVE  AbstractChannelTypeOK' /\ ChannelTypeOK'
  <1>1. c \in Obj
    BY DEF Chan, Obj
  <1>2. {"ChannelOpenOk"} \in SUBSET Replies /\ "open" \in WaitOps
    BY RepliesFacts DEF WaitOps
  <1>3. AbstractChannelTypeOK'
    BY <1>1, <1>2, RequestType, MethodsFacts, InvokeType DEF Channel_open
  <1> QED BY <1>3 DEF Channel_open, ChannelTypeOK, chanVars, consumers

\* Channel.close preserves TypeOK.
LEMMA CloseType ==
  ASSUME AbstractChannelTypeOK, ChannelTypeOK, NEW c \in Chan, Channel_close(c)
  PROVE  AbstractChannelTypeOK' /\ ChannelTypeOK'
  <1> DEFINE req == Msg(channel_id[c], "ChannelClose", calls + 1)
  <1>1. c \in Obj
    BY DEF Chan, Obj
  <1>2. req \in Message /\ <<req>> \in Seq(Message)
    BY <1>1, RequestType, MethodsFacts
  <1>3. calls' \in Nat /\ UNCHANGED <<channels, channel_id, sock, toClient>>
    BY AppCallsType DEF Channel_close
  <1>4. ChannelTypeOK'
    BY DEF Channel_close, ChannelTypeOK, chanVars, consumers
  <1>5. connection' \in [Obj -> BOOLEAN] /\ is_closing' \in [Obj -> BOOLEAN]
    BY DEF Channel_close, CloseFinally, AbstractChannelTypeOK
  <1>6. CASE UNCHANGED <<stack, pending, exc, toServer>>
    BY <1>3, <1>4, <1>5, <1>6 DEF AbstractChannelTypeOK
  <1>7. CASE send_method_raises(c) /\ UNCHANGED <<stack, pending>>
    BY <1>1, <1>3, <1>4, <1>5, <1>7, SendRaisesType DEF AbstractChannelTypeOK
  <1>8. CASE /\ send_method(c, <<req>>)
             /\ wait(stack, "close", c, {"ChannelCloseOk"}, req)
             /\ UNCHANGED exc
    <2>1. stack \in Seq(Frame) /\ "close" \in WaitOps /\ {"ChannelCloseOk"} \in SUBSET Replies
      BY RepliesFacts DEF WaitOps, AbstractChannelTypeOK
    <2>2. pending' \in [Obj -> [Replies -> Nat]] /\ stack' \in Seq(Frame)
      BY <1>1, <1>2, <1>8, <2>1, WaitType
    <2>3. toServer' \in [Ids0 -> Seq(Message)]
      BY <1>1, <1>2, <1>8, SendType
    <2> QED BY <1>3, <1>4, <1>5, <1>8, <2>2, <2>3 DEF AbstractChannelTypeOK
  <1> QED BY <1>6, <1>7, <1>8 DEF Channel_close

\* Every public method of a channel preserves TypeOK.
LEMMA ChannelCallType ==
  ASSUME AbstractChannelTypeOK, ChannelTypeOK, NEW c \in Chan, ChannelCall(c)
  PROVE  AbstractChannelTypeOK' /\ ChannelTypeOK'
  <1>1. {"ExchangeDeclare", "ExchangeDelete", "ExchangeBind", "ExchangeUnbind",
         "QueueDeclare", "QueueBind", "QueueUnbind", "QueueDelete", "QueuePurge",
         "ConfirmSelect", "ChannelFlow", "BasicGet", "BasicQos", "TxSelect",
         "TxCommit", "TxRollback", "BasicRecover"} \subseteq Sync
    BY DEF Sync, ReplyTo
  <1>2. {"QueueUnbind", "BasicRecover", "BasicRecoverAsync", "BasicAck", "BasicReject"}
          \subseteq Methods
    BY <1>1, MethodsFacts DEF Methods, Async
  <1>3. ASSUME NEW nowait \in Nowaits,
               \/ exchange_declare(c, nowait) \/ exchange_delete(c, nowait)
               \/ exchange_bind(c, nowait) \/ exchange_unbind(c, nowait)
               \/ queue_declare(c, nowait) \/ queue_bind(c, nowait)
               \/ queue_delete(c, nowait)
               \/ queue_purge(c, nowait) \/ confirm_select(c, nowait)
               \/ queue_unbind(c, nowait)
        PROVE  AbstractChannelTypeOK' /\ ChannelTypeOK'
    <2>1. nowait \in BOOLEAN
      BY ConnectionAssumption
    <2>2. ASSUME NEW m \in Sync, Simple(c, m, nowait)
          PROVE  AbstractChannelTypeOK' /\ ChannelTypeOK'
      BY <2>1, <2>2, SimpleType
    <2>3. CASE queue_unbind(c, nowait)
      <3>1. CASE Simple(c, "QueueUnbind", FALSE)
        BY <1>1, <3>1, SimpleType
      <3>2. CASE SimplePost(c, "QueueUnbind")
        BY <1>2, <3>2, SimplePostType
      <3> QED BY <2>3, <3>1, <3>2 DEF queue_unbind
    <2> QED BY <1>1, <1>3, <2>2, <2>3 DEF exchange_declare, exchange_delete,
              exchange_bind, exchange_unbind, queue_declare, queue_bind,
              queue_delete, queue_purge, confirm_select
  <1>4. ASSUME \/ flow(c) \/ basic_get(c) \/ basic_qos(c)
               \/ tx_select(c) \/ tx_commit(c) \/ tx_rollback(c)
        PROVE  AbstractChannelTypeOK' /\ ChannelTypeOK'
    BY <1>1, <1>4, SimpleType DEF flow, basic_get, basic_qos, tx_select, tx_commit,
       tx_rollback
  <1>5. ASSUME \/ basic_recover(c) \/ basic_recover_async(c) \/ basic_ack(c)
               \/ basic_reject(c)
        PROVE  AbstractChannelTypeOK' /\ ChannelTypeOK'
    BY <1>2, <1>5, SimplePostType DEF basic_recover, basic_recover_async, basic_ack,
       basic_reject
  <1>6. ASSUME NEW nowait \in Nowaits, NEW t \in Tags, basic_cancel(c, t, nowait)
        PROVE  AbstractChannelTypeOK' /\ ChannelTypeOK'
    BY <1>6, CancelType, ConnectionAssumption
  <1>7. ASSUME NEW nowait \in Nowaits, NEW t \in Tags \cup {0}, NEW no_ack \in NoAcks,
               basic_consume(c, t, nowait, no_ack)
        PROVE  AbstractChannelTypeOK' /\ ChannelTypeOK'
    BY <1>7, ConsumeType, ConnectionAssumption
  <1> QED BY <1>3, <1>4, <1>5, <1>6, <1>7, PublishType, OpenType, CloseType DEF ChannelCall

\* Every step of wait() and dispatch_method preserves TypeOK.
LEMMA BaseStepType ==
  ASSUME AbstractChannelTypeOK, ChannelTypeOK, BaseStep
  PROVE  AbstractChannelTypeOK' /\ ChannelTypeOK'
  <1>1. ChannelTypeOK'
    BY DEF BaseStep, ChannelTypeOK, chanVars, consumers
  <1>2. CASE ReturnPlain \/ UnwindPlain \/ UnwindCallback
    <2>1. Leave /\ UNCHANGED <<channels, channel_id, connection, is_closing, exc, sock,
                               toServer, toClient, calls>>
      BY <1>2 DEF ReturnPlain, UnwindPlain, UnwindCallback, Returns, Unwinds
    <2> QED BY <1>1, <2>1, LeaveType DEF AbstractChannelTypeOK
  <1>3. CASE ConnectionGone \/ CallbackCatch \/ Raised \/ ReadFails
    <2>1. /\ exc' \in Exceptions
          /\ UNCHANGED <<channels, channel_id, connection, is_closing, pending, stack,
                         sock, toServer, toClient, calls>>
      BY <1>3 DEF ConnectionGone, CallbackCatch, Raised, ReadFails, Exceptions
    <2> QED BY <1>1, <2>1 DEF AbstractChannelTypeOK
  <1>4. CASE Discard
    <2>1. Takes /\ stack' \in Seq(Frame)
      BY <1>4, InType, DrainedType DEF Discard
    <2> QED BY <1>1, <1>4, <2>1, InType DEF Discard, AbstractChannelTypeOK
  <1>5. CASE UnknownChannel
    <2>1. Takes /\ exc' \in Exceptions
      BY <1>5 DEF UnknownChannel, Exceptions
    <2> QED BY <1>1, <1>5, <2>1, InType DEF UnknownChannel, AbstractChannelTypeOK
  <1>6. ASSUME NEW m \in PlainReplies, OnReply(m) PROVE AbstractChannelTypeOK'
    <2>1. Takes /\ m \in Replies /\ OneShot(Target, m)
      BY <1>6 DEF OnReply, Dispatches, PlainReplies
    <2>2. Target \in Obj /\ toClient' \in Seq(Message)
      BY <2>1, InType
    <2>3. /\ pending' \in [Obj -> [Replies -> Nat]]
          /\ stack' \in Seq(Frame) /\ exc' \in Exceptions
      BY <2>1, <2>2, OneShotType
    <2> QED BY <1>6, <2>2, <2>3 DEF OnReply, AbstractChannelTypeOK
  <1> QED BY <1>1, <1>2, <1>3, <1>4, <1>5, <1>6 DEF BaseStep

(* The handlers of a channel that do not touch its registration. *)
LEMMA HandlerType ==
  ASSUME AbstractChannelTypeOK, NEW m, Dispatches(m),
         pending' \in [Obj -> [Replies -> Nat]],
         stack' \in Seq(Frame), exc' \in Exceptions,
         toServer' \in [Ids0 -> Seq(Message)],
         UNCHANGED <<channels, channel_id, connection, is_closing, sock, calls>>
  PROVE  AbstractChannelTypeOK'
  BY InType DEF Dispatches, AbstractChannelTypeOK

\* Channel._on_close, with its revival, preserves TypeOK.
LEMMA OnCloseType ==
  ASSUME AbstractChannelTypeOK, ChannelTypeOK, Channel_on_close
  PROVE  AbstractChannelTypeOK' /\ ChannelTypeOK'
  <1> DEFINE reopen == Msg(channel_id[Target], "ChannelOpen", 0)
  <1>1. Takes /\ Dispatches("ChannelClose")
    BY DEF Channel_on_close, Dispatches
  <1>2. Target \in Obj /\ stack \in Seq(Frame) /\ stack # <<>>
    BY <1>1, InType
  <1>3. Agreed(Target) \in Message /\ reopen \in Message
    BY <1>2, RequestType, MethodsFacts DEF Agreed
  <1>4. <<Agreed(Target)>> \in Seq(Message) /\ <<Agreed(Target), reopen>> \in Seq(Message)
    <2> HIDE DEF reopen
    <2> QED BY <1>3
  <1>5. /\ UNCHANGED <<channels, channel_id, connection, is_closing, sock, calls>>
        /\ UNCHANGED <<confirm_selected, consumers, used>>
    BY DEF Channel_on_close
  <1>6. is_open' \in [Chan -> BOOLEAN]
    BY DEF Channel_on_close, Agrees, do_revive, ChannelTypeOK
  <1>7. ChannelTypeOK'
    BY <1>5, <1>6 DEF ChannelTypeOK, consumers
  <1>8. CASE send_method_raises(Target) /\ UNCHANGED <<stack, pending, is_open>>
    <2>1. toServer' \in [Ids0 -> Seq(Message)] /\ exc' \in Exceptions
      BY <1>2, <1>8, SendRaisesType
    <2>2. pending' \in [Obj -> [Replies -> Nat]] /\ stack' \in Seq(Frame)
      BY <1>8 DEF AbstractChannelTypeOK
    <2> QED BY <1>1, <1>5, <1>7, <2>1, <2>2, HandlerType
  <1>9. CASE Agrees(Target)
    <2>1. toServer' \in [Ids0 -> Seq(Message)]
      BY <1>2, <1>4, <1>9, SendType DEF Agrees
    <2>2. /\ pending' \in [Obj -> [Replies -> Nat]]
          /\ stack' \in Seq(Frame) /\ exc' \in Exceptions
      BY <1>1, <1>9, EndsType DEF Agrees
    <2> QED BY <1>1, <1>5, <1>7, <2>1, <2>2, HandlerType
  <1>10. CASE do_revive(Target)
    <2>1. toServer' \in [Ids0 -> Seq(Message)]
      BY <1>2, <1>4, <1>10, SendType DEF do_revive
    <2>2. Drained(stack) \in Seq(Frame) /\ "revive" \in WaitOps /\ {"ChannelOpenOk"} \in SUBSET Replies
      BY <1>2, DrainedType, RepliesFacts DEF WaitOps
    <2>3. wait(Drained(stack), "revive", Target, {"ChannelOpenOk"}, reopen) /\ UNCHANGED exc
      BY <1>10 DEF do_revive
    <2>4. pending' \in [Obj -> [Replies -> Nat]] /\ stack' \in Seq(Frame)
      BY <1>2, <1>3, <2>2, <2>3, WaitType
    <2>5. exc' \in Exceptions
      BY <2>3 DEF AbstractChannelTypeOK
    <2> QED BY <1>1, <1>5, <1>7, <2>1, <2>4, <2>5, HandlerType
  <1> QED BY <1>8, <1>9, <1>10 DEF Channel_on_close

\* The write of _basic_publish preserves TypeOK.
LEMMA PublishWritesType ==
  ASSUME AbstractChannelTypeOK, ChannelTypeOK, PublishWrites
  PROVE  AbstractChannelTypeOK' /\ ChannelTypeOK'
  <1>1. stack \in Seq(Frame) /\ stack # <<>> /\ Top \in Frame /\ Top.ch \in Obj
        /\ Top.req \in Message
    BY TopType DEF PublishWrites, AbstractChannelTypeOK, Frame
  <1>2. Pop(stack) \in Seq(Frame) /\ <<Top.req>> \in Seq(Message)
    BY <1>1, PopType
  <1>3. /\ UNCHANGED <<channels, channel_id, connection, is_closing, sock, toClient, calls>>
        /\ UNCHANGED chanVars
    BY DEF PublishWrites
  <1>4. ChannelTypeOK'
    BY <1>3 DEF ChannelTypeOK, chanVars, consumers
  <1>5. CASE exc' = "AttributeError" /\ stack' = Pop(stack) /\ UNCHANGED <<pending, toServer>>
    BY <1>2, <1>3, <1>4, <1>5 DEF AbstractChannelTypeOK, Exceptions
  <1>6. CASE send_method_raises(Top.ch) /\ stack' = Pop(stack) /\ UNCHANGED pending
    BY <1>1, <1>2, <1>3, <1>4, <1>6, SendRaisesType DEF AbstractChannelTypeOK
  <1>7. CASE /\ send_method(Top.ch, <<Top.req>>)
             /\ IF ConfirmPublish
                THEN wait(Pop(stack), "confirm", Top.ch, {"BasicAck", "BasicNack"}, Top.req)
                ELSE stack' = Pop(stack) /\ UNCHANGED pending
             /\ UNCHANGED exc
    <2>1. toServer' \in [Ids0 -> Seq(Message)]
      BY <1>1, <1>2, <1>7, SendType
    <2>2. "confirm" \in WaitOps /\ {"BasicAck", "BasicNack"} \in SUBSET Replies
      BY RepliesFacts DEF WaitOps
    <2>3. pending' \in [Obj -> [Replies -> Nat]] /\ stack' \in Seq(Frame)
      <3>1. CASE ConfirmPublish
        BY <1>1, <1>2, <1>7, <2>2, <3>1, WaitType
      <3>2. CASE ~ConfirmPublish
        BY <1>2, <1>7, <3>2 DEF AbstractChannelTypeOK
      <3> QED BY <3>1, <3>2
    <2> QED BY <1>3, <1>4, <1>7, <2>1, <2>3 DEF AbstractChannelTypeOK
  <1> QED BY <1>5, <1>6, <1>7 DEF PublishWrites

\* The return of confirm_select in basic_publish_confirm preserves TypeOK.
LEMMA SelectReturnsType ==
  ASSUME AbstractChannelTypeOK, ChannelTypeOK, SelectReturns
  PROVE  AbstractChannelTypeOK' /\ ChannelTypeOK'
  <1>1. stack \in Seq(Frame) /\ stack # <<>> /\ Top \in Frame /\ Top.ch \in Obj
        /\ Top.req \in Message
    BY TopType DEF SelectReturns, AbstractChannelTypeOK, Frame
  <1>2. Pop(stack) \in Seq(Frame) /\ Top.req.rid \in Nat
    BY <1>1, PopType DEF Message
  <1>3. PublishFrame(Top.ch, Top.req.rid) \in Frame
    BY <1>1, <1>2, PublishFrameType
  <1>4. stack' \in Seq(Frame) /\ exc' \in Exceptions
    BY <1>2, <1>3, PushType DEF SelectReturns, AbstractChannelTypeOK, Exceptions
  <1> DEFINE g == [m \in Replies |-> IF m \in Top.on THEN Top.prev[m] ELSE pending[Top.ch][m]]
  <1>5. Top.ch \in Obj /\ g \in [Replies -> Nat]
    BY <1>1 DEF Frame, AbstractChannelTypeOK
  <1>6. pending' = [pending EXCEPT ![Top.ch] = g]
    BY DEF SelectReturns, Restored
  <1>7. pending' \in [Obj -> [Replies -> Nat]]
    BY <1>5, <1>6 DEF AbstractChannelTypeOK
  <1>8. ChannelTypeOK'
    BY DEF SelectReturns, ChannelTypeOK, chanVars, consumers
  <1> QED BY <1>4, <1>7, <1>8 DEF SelectReturns, AbstractChannelTypeOK

\* Every handler and return of a channel method preserves TypeOK.
LEMMA ChannelStepType ==
  ASSUME AbstractChannelTypeOK, ChannelTypeOK, ChannelStep
  PROVE  AbstractChannelTypeOK' /\ ChannelTypeOK'
  <1>1. CASE Channel_on_open_ok
    <2>1. Takes /\ Dispatches("ChannelOpenOk") /\ "ChannelOpenOk" \in Replies
      BY <1>1, RepliesFacts DEF Channel_on_open_ok, Dispatches
    <2>2. /\ pending' \in [Obj -> [Replies -> Nat]]
          /\ stack' \in Seq(Frame) /\ exc' \in Exceptions
      BY <1>1, <2>1, AnsweredType DEF Channel_on_open_ok
    <2>3. /\ UNCHANGED <<channels, channel_id, connection, is_closing, sock, toServer, calls>>
          /\ toServer' \in [Ids0 -> Seq(Message)]
      BY <1>1 DEF Channel_on_open_ok, AbstractChannelTypeOK
    <2>4. AbstractChannelTypeOK'
      BY <2>1, <2>2, <2>3, HandlerType
    <2> QED BY <1>1, <2>4 DEF Channel_on_open_ok, ChannelTypeOK, consumers
  <1>2. CASE Channel_on_close_ok
    <2>1. Takes /\ "ChannelCloseOk" \in Replies
      BY <1>2, RepliesFacts DEF Channel_on_close_ok, Dispatches
    <2>2. Target \in Obj /\ toClient' \in Seq(Message)
      BY <2>1, InType
    <2>3. /\ pending' \in [Obj -> [Replies -> Nat]]
          /\ stack' \in Seq(Frame) /\ exc' \in Exceptions
      BY <1>2, <2>1, <2>2, OneShotType DEF Channel_on_close_ok
    <2>4. Channel_collect(Target)
      BY <1>2 DEF Channel_on_close_ok
    <2> QED BY <1>2, <2>2, <2>3, <2>4, ChannelCollectType
            DEF Channel_on_close_ok, AbstractChannelTypeOK, ChannelTypeOK
  <1>3. CASE on_flow
    <2>1. Takes /\ Dispatches("ChannelFlow")
      BY <1>3 DEF on_flow, Dispatches
    <2>2. Target \in Obj
      BY <2>1, InType
    <2> DEFINE ok == Msg(channel_id[Target], "ChannelFlowOk", 0)
    <2>3. <<ok>> \in Seq(Message)
      <3>1. ok \in Message
        BY <2>2, RequestType DEF Methods, Async
      <3> HIDE DEF ok
      <3> QED BY <3>1
    <2>4. /\ toServer' \in [Ids0 -> Seq(Message)]
          /\ pending' \in [Obj -> [Replies -> Nat]]
          /\ stack' \in Seq(Frame) /\ exc' \in Exceptions
      <3>1. CASE send_method(Target, <<ok>>) /\ Ends
        BY <2>1, <2>2, <2>3, <3>1, SendType, EndsType
      <3>2. CASE send_method_raises(Target) /\ UNCHANGED <<stack, pending>>
        BY <2>2, <3>2, SendRaisesType DEF AbstractChannelTypeOK
      <3> QED BY <1>3, <3>1, <3>2 DEF on_flow
    <2>5. /\ UNCHANGED <<channels, channel_id, connection, is_closing, sock, calls>>
          /\ UNCHANGED chanVars
      BY <1>3 DEF on_flow
    <2>6. AbstractChannelTypeOK'
      BY <2>1, <2>4, <2>5, HandlerType
    <2> QED BY <2>5, <2>6 DEF ChannelTypeOK, chanVars, consumers
  <1>4. CASE on_basic_cancel_ok
    <2>1. Takes /\ Dispatches("BasicCancelOk") /\ "BasicCancelOk" \in Replies
      BY <1>4, RepliesFacts DEF on_basic_cancel_ok, Dispatches
    <2>2. /\ pending' \in [Obj -> [Replies -> Nat]]
          /\ stack' \in Seq(Frame) /\ exc' \in Exceptions
      BY <1>4, <2>1, InType, OneShotType DEF on_basic_cancel_ok
    <2>3. /\ UNCHANGED <<channels, channel_id, connection, is_closing, sock, toServer, calls>>
          /\ toServer' \in [Ids0 -> Seq(Message)]
      BY <1>4 DEF on_basic_cancel_ok, AbstractChannelTypeOK
    <2>4. AbstractChannelTypeOK'
      BY <2>1, <2>2, <2>3, HandlerType
    <2> QED BY <1>4, <2>4, RemoveTagType DEF on_basic_cancel_ok, ChannelTypeOK
  <1>5. CASE on_basic_cancel
    <2>1. Takes /\ Dispatches("BasicCancel")
      BY <1>5 DEF on_basic_cancel, Dispatches
    <2>2. /\ pending' \in [Obj -> [Replies -> Nat]]
          /\ stack' \in Seq(Frame) /\ exc' \in Exceptions
      <3>1. CASE CallBack(Target, "BasicCancel")
        BY <2>1, <3>1, InType, CallBackType
      <3>2. CASE Raises("ConsumerCancelled")
        BY <3>2 DEF Raises, AbstractChannelTypeOK, Exceptions
      <3> QED BY <1>5, <3>1, <3>2 DEF on_basic_cancel
    <2>3. /\ UNCHANGED <<channels, channel_id, connection, is_closing, sock, toServer, calls>>
          /\ toServer' \in [Ids0 -> Seq(Message)]
      BY <1>5 DEF on_basic_cancel, AbstractChannelTypeOK
    <2>4. AbstractChannelTypeOK'
      BY <2>1, <2>2, <2>3, HandlerType
    <2> QED BY <1>5, <2>4, RemoveTagType DEF on_basic_cancel, ChannelTypeOK
  <1>6. CASE on_basic_deliver
    <2>1. Takes /\ Dispatches("BasicDeliver")
      BY <1>6 DEF on_basic_deliver, Dispatches
    <2>2. Target \in Obj
      BY <2>1, InType
    <2> DEFINE reject == Msg(channel_id[Target], "BasicReject", 0)
    <2>3. <<reject>> \in Seq(Message)
      <3>1. reject \in Message
        BY <2>2, RequestType, MethodsFacts
      <3> HIDE DEF reject
      <3> QED BY <3>1
    <2>4. /\ toServer' \in [Ids0 -> Seq(Message)]
          /\ pending' \in [Obj -> [Replies -> Nat]]
          /\ stack' \in Seq(Frame) /\ exc' \in Exceptions
      <3>1. CASE CallBack(Target, "BasicDeliver") /\ UNCHANGED toServer
        BY <2>1, <2>2, <3>1, CallBackType DEF AbstractChannelTypeOK
      <3>2. CASE Raises("TypeError") /\ UNCHANGED toServer
        BY <3>2 DEF Raises, AbstractChannelTypeOK, Exceptions
      <3>3. CASE send_method(Target, <<reject>>) /\ Ends
        BY <2>1, <2>2, <2>3, <3>3, SendType, EndsType
      <3>4. CASE send_method_raises(Target) /\ UNCHANGED <<stack, pending>>
        BY <2>2, <3>4, SendRaisesType DEF AbstractChannelTypeOK
      <3> QED BY <1>6, <3>1, <3>2, <3>3, <3>4 DEF on_basic_deliver
    <2>5. /\ UNCHANGED <<channels, channel_id, connection, is_closing, sock, calls>>
          /\ UNCHANGED chanVars
      BY <1>6 DEF on_basic_deliver
    <2>6. AbstractChannelTypeOK'
      BY <2>1, <2>4, <2>5, HandlerType
    <2> QED BY <2>5, <2>6 DEF ChannelTypeOK, chanVars, consumers
  <1>7. CASE on_basic_ack \/ on_basic_nack
    <2>1. PICK m \in {"BasicAck", "BasicNack"} : Dispatches(m) /\ Answered(m)
      BY <1>7 DEF on_basic_ack, on_basic_nack
    <2>2. Takes /\ m \in Replies
      BY <2>1, RepliesFacts DEF Dispatches
    <2>3. /\ pending' \in [Obj -> [Replies -> Nat]]
          /\ stack' \in Seq(Frame) /\ exc' \in Exceptions
      BY <2>1, <2>2, AnsweredType
    <2>4. /\ UNCHANGED <<channels, channel_id, connection, is_closing, sock, toServer, calls>>
          /\ toServer' \in [Ids0 -> Seq(Message)]
          /\ UNCHANGED chanVars
      BY <1>7 DEF on_basic_ack, on_basic_nack, AbstractChannelTypeOK
    <2>5. AbstractChannelTypeOK'
      BY <2>1, <2>3, <2>4, HandlerType
    <2> QED BY <2>4, <2>5 DEF ChannelTypeOK, chanVars, consumers
  <1>8. CASE on_basic_return
    <2>1. Takes /\ Dispatches("BasicReturn")
      BY <1>8 DEF on_basic_return, Dispatches
    <2>2. /\ pending' \in [Obj -> [Replies -> Nat]]
          /\ stack' \in Seq(Frame) /\ exc' \in Exceptions
      <3>1. CASE CallBack(Target, "BasicReturn")
        BY <2>1, <3>1, InType, CallBackType
      <3>2. CASE Raises("ChannelError")
        BY <3>2 DEF Raises, AbstractChannelTypeOK, Exceptions
      <3> QED BY <1>8, <3>1, <3>2 DEF on_basic_return
    <2>3. /\ UNCHANGED <<channels, channel_id, connection, is_closing, sock, toServer, calls>>
          /\ toServer' \in [Ids0 -> Seq(Message)]
          /\ UNCHANGED chanVars
      BY <1>8 DEF on_basic_return, AbstractChannelTypeOK
    <2>4. AbstractChannelTypeOK'
      BY <2>1, <2>2, <2>3, HandlerType
    <2> QED BY <2>3, <2>4 DEF ChannelTypeOK, chanVars, consumers
  <1>9. CASE CloseReturns
    <2>1. Leave /\ CloseFinally(Top.ch)
      BY <1>9 DEF CloseReturns, Returns, Unwinds
    <2>2. is_closing' \in [Obj -> BOOLEAN] /\ connection' \in [Obj -> BOOLEAN]
      BY <2>1 DEF CloseFinally, AbstractChannelTypeOK
    <2>3. ChannelTypeOK'
      BY <1>9 DEF CloseReturns, ChannelTypeOK, chanVars, consumers
    <2> QED BY <1>9, <2>1, <2>2, <2>3, LeaveType DEF CloseReturns, AbstractChannelTypeOK
  <1>10. CASE ReviveReturns
    <2>1. Leave /\ exc' \in Exceptions
      BY <1>10 DEF ReviveReturns, Returns, Exceptions
    <2>2. ChannelTypeOK'
      BY <1>10 DEF ReviveReturns, ChannelTypeOK, chanVars, consumers
    <2> QED BY <1>10, <2>1, <2>2, LeaveType DEF ReviveReturns, AbstractChannelTypeOK
  <1>11. CASE ConsumeReturns
    <2>1. Leave /\ Registered(Top.ch, Top.got.tag, Top.req.rid, Top.req.no_ack)
      BY <1>11 DEF ConsumeReturns, Returns
    <2>2. Top \in Frame
      BY <2>1, TopType DEF Leave, AbstractChannelTypeOK
    <2>3. Top.got.tag \in Tags \cup {0} /\ Top.req.rid \in Nat
      BY <2>2 DEF Frame, Message
    <2>4. AbstractChannelTypeOK'
      BY <1>11, <2>1, LeaveType DEF ConsumeReturns, AbstractChannelTypeOK
    <2> QED BY <1>11, <2>1, <2>3, <2>4, RegisteredType DEF ConsumeReturns, ChannelTypeOK
  <1> QED BY <1>1, <1>2, <1>3, <1>4, <1>5, <1>6, <1>7, <1>8, <1>9, <1>10, <1>11,
             OnCloseType, SelectReturnsType, PublishWritesType DEF ChannelStep

\* Every handler and return of a connection method preserves TypeOK.
LEMMA ConnectionStepType ==
  ASSUME TypeOK, ConnectionStep
  PROVE  TypeOK'
  <1> USE DEF TypeOK
  <1>0. (BrokerTypeOK /\ created \in 0 .. NumChans)'
    BY DEF ConnectionStep, Connection_on_close_ok, Connection_on_close, on_blocked,
           ConnectionCloseReturns, brokerVars, BrokerTypeOK
  <1>1. 0 \in Obj
    BY SpecAssumption DEF Obj
  <1>2. CASE Connection_on_close_ok
    <2>1. Takes /\ "ConnectionCloseOk" \in Replies /\ Connection_collect
      BY <1>2, RepliesFacts DEF Connection_on_close_ok, Dispatches
    <2>2. /\ pending' \in [Obj -> [Replies -> Nat]]
          /\ stack' \in Seq(Frame) /\ exc' \in Exceptions
      BY <1>1, <1>2, <2>1, OneShotType DEF Connection_on_close_ok
    <2>3. toClient' \in Seq(Message)
      BY <2>1, InType
    <2> QED BY <1>0, <1>2, <2>1, <2>2, <2>3, ConnectionCollectType
            DEF Connection_on_close_ok, AbstractChannelTypeOK, ChannelTypeOK
  <1>3. CASE Connection_on_close
    <2>1. Takes /\ UNCHANGED <<is_closing, calls, confirm_selected>>
      BY <1>3 DEF Connection_on_close, Dispatches
    <2>2. toClient' \in Seq(Message)
      BY <2>1, InType
    <2> DEFINE ok == Msg(0, "ConnectionCloseOk", 0)
    <2>3. CASE /\ send_method(0, <<ok>>)
               /\ Connection_collect
               /\ Raises("ConnectionError")
      <3>1. ok \in Message
        BY MsgType, SpecAssumption DEF Ids0, Methods, Async
      <3>2. <<ok>> \in Seq(Message)
        <4> HIDE DEF ok
        <4> QED BY <3>1
      <3>3. toServer' \in [Ids0 -> Seq(Message)]
        BY <1>1, <2>3, <3>2, SendType
      <3>4. exc' \in Exceptions /\ UNCHANGED <<stack, pending>>
        BY <2>3 DEF Raises, Exceptions
      <3> QED BY <1>0, <2>1, <2>2, <2>3, <3>3, <3>4, ConnectionCollectType
              DEF AbstractChannelTypeOK, ChannelTypeOK
    <2>4. CASE /\ send_method_raises(0)
               /\ UNCHANGED <<sock, channel_id, channels, connection, is_open,
                              consumers, used, stack, pending>>
      BY <1>0, <1>1, <2>1, <2>2, <2>4, SendRaisesType
         DEF AbstractChannelTypeOK, ChannelTypeOK, consumers
    <2> QED BY <1>3, <2>3, <2>4 DEF Connection_on_close
  <1>4. ASSUME NEW m, on_blocked(m) PROVE TypeOK'
    <2>1. Takes /\ Dispatches(m)
      BY <1>4 DEF on_blocked, Dispatches
    <2>2. /\ pending' \in [Obj -> [Replies -> Nat]]
          /\ stack' \in Seq(Frame) /\ exc' \in Exceptions
      BY <1>1, <1>4, <2>1, CallBackType, EndsType DEF on_blocked
    <2>3. /\ UNCHANGED <<channels, channel_id, connection, is_closing, sock, toServer, calls>>
          /\ toServer' \in [Ids0 -> Seq(Message)]
          /\ UNCHANGED chanVars
      BY <1>4 DEF on_blocked, AbstractChannelTypeOK
    <2>4. AbstractChannelTypeOK'
      BY <2>1, <2>2, <2>3, HandlerType
    <2> QED BY <1>0, <2>3, <2>4 DEF ChannelTypeOK, chanVars, consumers
  <1>5. CASE ConnectionCloseReturns
    <2>1. Leave
      BY <1>5 DEF ConnectionCloseReturns, CloseFails, Returns, Unwinds
    <2>2. pending' \in [Obj -> [Replies -> Nat]] /\ stack' \in Seq(Frame)
      BY <2>1, LeaveType
    <2>3. is_closing' \in [Obj -> BOOLEAN]
      BY <1>5 DEF ConnectionCloseReturns, AbstractChannelTypeOK
    <2>4. CASE Connection_collect
      BY <1>0, <1>5, <2>2, <2>3, <2>4, ConnectionCollectType
         DEF ConnectionCloseReturns, AbstractChannelTypeOK, ChannelTypeOK
    <2>5. CASE UNCHANGED <<sock, channel_id, channels, connection, is_open, consumers, used>>
      BY <1>0, <1>5, <2>2, <2>3, <2>5
         DEF ConnectionCloseReturns, AbstractChannelTypeOK, ChannelTypeOK, consumers
    <2> QED BY <1>5, <2>4, <2>5 DEF ConnectionCloseReturns, CloseFails
  <1> QED BY <1>2, <1>3, <1>4, <1>5 DEF ConnectionStep

\* Creating and opening a channel under an id preserves TypeOK.
LEMMA NewChannelType ==
  ASSUME TypeOK, NEW id \in Ids, NewChannel(id), calls' \in Nat, UNCHANGED brokerVars
  PROVE  TypeOK'
  <1> USE DEF TypeOK
  <1> DEFINE c == created + 1
             req == Msg(id, "ChannelOpen", calls + 1)
  <1>1. c \in Obj /\ created' \in 0 .. NumChans /\ id \in Ids0
    BY SpecAssumption DEF NewChannel, Obj, Ids, Ids0
  <1>2. req \in Message
    BY <1>1, MsgType, MethodsFacts DEF AbstractChannelTypeOK
  <1>3. /\ used' \in SUBSET Ids /\ channels' \in [Ids -> Obj]
        /\ channel_id' \in [Obj -> Ids0] /\ connection' \in [Obj -> BOOLEAN]
    BY <1>1 DEF NewChannel, AbstractChannelTypeOK, ChannelTypeOK
  <1>4. /\ toServer' \in [Ids0 -> Seq(Message)] /\ exc' \in Exceptions
        /\ pending' \in [Obj -> [Replies -> Nat]] /\ stack' \in Seq(Frame)
    <2>1. CASE sock
      <3>1. wait(stack, "open", c, {"ChannelOpenOk"}, req) /\ UNCHANGED exc
        BY <2>1 DEF NewChannel
      <3>2. stack \in Seq(Frame) /\ "open" \in WaitOps /\ {"ChannelOpenOk"} \in SUBSET Replies
        BY RepliesFacts DEF WaitOps, AbstractChannelTypeOK
      <3>3. pending' \in [Obj -> [Replies -> Nat]] /\ stack' \in Seq(Frame)
        BY <1>1, <1>2, <3>1, <3>2, WaitType
      <3>4. toServer' = [toServer EXCEPT ![id] = Append(@, req)]
        BY <2>1 DEF NewChannel
      <3>5. toServer[id] \in Seq(Message)
        BY <1>1 DEF AbstractChannelTypeOK
      <3>6. toServer' \in [Ids0 -> Seq(Message)]
        <4> HIDE DEF req
        <4>1. Append(toServer[id], req) \in Seq(Message)
          BY <1>2, <3>5, AppendProperties
        <4> QED BY <3>4, <4>1 DEF AbstractChannelTypeOK
      <3> QED BY <3>1, <3>3, <3>6 DEF AbstractChannelTypeOK
    <2>2. CASE ~sock
      BY <2>2 DEF NewChannel, AbstractChannelTypeOK, Exceptions
    <2> QED BY <2>1, <2>2
  <1>5. AbstractChannelTypeOK'
    BY <1>3, <1>4 DEF NewChannel, AbstractChannelTypeOK
  <1>6. ChannelTypeOK'
    BY <1>3 DEF NewChannel, ChannelTypeOK, consumers
  <1> QED BY <1>1, <1>5, <1>6 DEF BrokerTypeOK, brokerVars

\* _get_free_channel_id returns an id, or 0 when all are in use.
LEMMA FreeIdType ==
  ASSUME get_free_channel_id # 0
  PROVE  get_free_channel_id \in Ids \ used
  <1> DEFINE T == Ids \ used
  <1>1. ~(Ids \subseteq used) /\ T # {} /\ T \subseteq Nat
    BY DEF get_free_channel_id, Ids
  <1>2. PICK x \in T : \A y \in T : ~(<<y, x>> \in OpToRel(<, Nat))
    BY <1>1, WFMin, NatLessThanWellFounded
  <1>3. ASSUME NEW y \in T PROVE x <= y
    <2>1. x \in Nat /\ y \in Nat
      BY <1>1
    <2>2. ASSUME y < x PROVE <<y, x>> \in OpToRel(<, Nat)
      BY <2>1, <2>2 DEF OpToRel
    <2>3. ~(y < x)
      BY <1>2, <2>2, Zenon
    <2> QED BY <2>1, <2>3
  <1> QED BY <1>1, <1>2, <1>3 DEF get_free_channel_id

\* Every call of the application preserves TypeOK.
LEMMA AppCallType ==
  ASSUME TypeOK, AppCall
  PROVE  TypeOK'
  <1> USE DEF TypeOK
  <1>1. 0 \in Obj
    BY SpecAssumption DEF Obj
  <1>2. ASSUME NEW c \in 1 .. created, ChannelCall(c), UNCHANGED <<brokerVars, created>>
        PROVE  TypeOK'
    <2>1. c \in Chan
      BY SpecAssumption DEF Chan
    <2> QED BY <1>2, <2>1, ChannelCallType DEF BrokerTypeOK, brokerVars
  <1>3. ASSUME NEW id \in ExplicitIds, channel(id)
        PROVE  TypeOK'
    <2>1. calls' \in Nat /\ UNCHANGED brokerVars
      BY <1>3, AppCallsType DEF channel
    <2>2. ASSUME NEW e \in Exceptions, NoChannel(e) PROVE TypeOK'
      BY <2>1, <2>2 DEF NoChannel, Raises, AbstractChannelTypeOK, ChannelTypeOK,
         BrokerTypeOK, chanVars, consumers, brokerVars
    <2>3. {"RecoverableConnectionError", "ResourceError", "ConnectionError"} \subseteq Exceptions
      BY DEF Exceptions
    <2>4. ASSUME NEW k \in Ids, NewChannel(k) PROVE TypeOK'
      BY <2>1, <2>4, NewChannelType
    <2>5. id # 0 => id \in Ids
      BY ConnectionAssumption, SpecAssumption DEF Ids, Ids0
    <2> QED BY <1>3, <2>2, <2>3, <2>4, <2>5, FreeIdType DEF channel
  <1>4. CASE drain_events
    <2> DEFINE f == [op |-> "drain", ch |-> 0, on |-> {}, prev |-> [r \in Replies |-> 0],
                     req |-> NoMsg, got |-> NoMsg, ready |-> FALSE, alone |-> TRUE,
                     shot |-> 0]
    <2>1. f \in Frame
      BY <1>1, NoMsgType DEF Frame, DrainOps
    <2>2. stack' \in Seq(Frame)
      BY <1>4, <2>1, PushType DEF drain_events, AbstractChannelTypeOK
    <2>3. calls' \in Nat
      BY <1>4, AppCallsType DEF drain_events
    <2> QED BY <1>4, <2>2, <2>3 DEF drain_events, AbstractChannelTypeOK, ChannelTypeOK,
            BrokerTypeOK, chanVars, consumers, brokerVars
  <1>5. CASE Connection_close
    <2> DEFINE req == Msg(0, "ConnectionClose", calls + 1)
    <2>1. calls' \in Nat /\ is_closing' \in [Obj -> BOOLEAN]
      BY <1>5, AppCallsType DEF Connection_close, AbstractChannelTypeOK
    <2>2. req \in Message
      BY MsgType, MethodsFacts, SpecAssumption DEF Ids0, AbstractChannelTypeOK
    <2>3. UNCHANGED <<toClient, confirm_selected, brokerVars, created>>
      BY <1>5 DEF Connection_close
    <2>4. CASE /\ send_method(0, <<req>>)
               /\ wait(stack, "connclose", 0, {"ConnectionCloseOk"}, req)
               /\ UNCHANGED <<exc, sock, channel_id, channels, connection, is_open,
                              consumers, used>>
      <3>1. <<req>> \in Seq(Message)
        <4> HIDE DEF req
        <4> QED BY <2>2
      <3>2. toServer' \in [Ids0 -> Seq(Message)]
        BY <1>1, <2>4, <3>1, SendType
      <3>3. stack \in Seq(Frame) /\ "connclose" \in WaitOps
            /\ {"ConnectionCloseOk"} \in SUBSET Replies
        BY RepliesFacts DEF WaitOps, AbstractChannelTypeOK
      <3>4. pending' \in [Obj -> [Replies -> Nat]] /\ stack' \in Seq(Frame)
        BY <1>1, <2>2, <2>4, <3>3, WaitType
      <3> QED BY <2>1, <2>3, <2>4, <3>2, <3>4 DEF AbstractChannelTypeOK, ChannelTypeOK,
              BrokerTypeOK, consumers, brokerVars
    <2>5. CASE send_method_raises(0) /\ Connection_collect /\ UNCHANGED <<stack, pending>>
      BY <1>1, <2>1, <2>3, <2>5, SendRaisesType, ConnectionCollectType
         DEF AbstractChannelTypeOK, ChannelTypeOK, BrokerTypeOK, brokerVars
    <2> QED BY <1>5, <2>4, <2>5 DEF Connection_close
  <1> QED BY <1>2, <1>3, <1>4, <1>5 DEF AppCall

(* The broker writes to the client, and to nothing else of it. *)
LEMMA ClientUnchanged ==
  ASSUME TypeOK, UNCHANGED clientVars, UNCHANGED created,
         sock' \in BOOLEAN, toServer' \in [Ids0 -> Seq(Message)],
         toClient' \in Seq(Message), BrokerTypeOK'
  PROVE  TypeOK'
  BY DEF TypeOK, clientVars, chanVars, consumers, AbstractChannelTypeOK, ChannelTypeOK

\* The reply of the broker to a received method is a Message.
LEMMA ReplyType ==
  ASSUME TypeOK, NEW id \in Ids0, toServer[id] # <<>>
  PROVE  /\ Received(id) \in Message /\ Received(id).rid \in Nat
         /\ \A m \in Methods : Reply(id, m) \in Message /\ <<Reply(id, m)>> \in Seq(Message)
  <1>1. toServer[id] \in Seq(Message)
    BY DEF TypeOK, AbstractChannelTypeOK
  <1>2. Received(id) \in Message
    BY <1>1, HeadTailProperties DEF Received
  <1>3. Received(id).rid \in Nat /\ Received(id).tag \in Tags \cup {0}
    BY <1>2 DEF Message
  <1>4. ASSUME NEW m \in Methods
        PROVE  Reply(id, m) \in Message /\ <<Reply(id, m)>> \in Seq(Message)
    <2>1. Reply(id, m) \in Message
      BY <1>3, MsgType, MessageUpdate DEF Reply
    <2> QED BY <2>1
  <1> QED BY <1>2, <1>3, <1>4

\* The broker handling a method keeps the queues well typed.
LEMMA ReceivesType ==
  ASSUME TypeOK, NEW id \in Ids0, NEW ms \in Seq(Message), Receives(id, ms),
         UNCHANGED created, BrokerTypeOK'
  PROVE  TypeOK'
  <1>1. toServer[id] \in Seq(Message) /\ toServer[id] # <<>>
    BY DEF TypeOK, AbstractChannelTypeOK, Receives
  <1>2. Tail(toServer[id]) \in Seq(Message)
    BY <1>1, HeadTailProperties
  <1>3. toServer' \in [Ids0 -> Seq(Message)]
    BY <1>2 DEF TypeOK, AbstractChannelTypeOK, Receives
  <1>4. toClient' \in Seq(Message)
    BY ConcatProperties DEF TypeOK, AbstractChannelTypeOK, Receives
  <1>5. UNCHANGED clientVars /\ sock' \in BOOLEAN
    BY DEF Receives, TypeOK, AbstractChannelTypeOK
  <1> QED BY <1>3, <1>4, <1>5, ClientUnchanged

\* An event of the broker keeps the queue to the client well typed.
LEMMA HappensType ==
  ASSUME TypeOK, NEW m, NEW msg \in Message, Happens(m, msg), UNCHANGED created
  PROVE  BrokerTypeOK' => TypeOK'
  <1>1. toClient' \in Seq(Message)
    BY AppendProperties DEF Happens, TypeOK, AbstractChannelTypeOK
  <1>2. UNCHANGED clientVars /\ sock' \in BOOLEAN /\ toServer' \in [Ids0 -> Seq(Message)]
    BY DEF Happens, TypeOK, AbstractChannelTypeOK
  <1> QED BY <1>1, <1>2, ClientUnchanged

\* Every way the broker handles a method preserves TypeOK.
LEMMA BrokerReceivesType ==
  ASSUME TypeOK, BrokerReceives, UNCHANGED created
  PROVE  TypeOK'
  <1>1. <<>> \in Seq(Message) /\ 0 \in Ids0 /\ Ids \subseteq Ids0
    BY SpecAssumption DEF Ids, Ids0
  <1>2. NoConsumer \in [rid : Nat, no_ack : BOOLEAN]
    BY DEF NoConsumer
  <1>3. ASSUME NEW id \in Ids, NEW m \in Replies, BrokerReplies(id, m) PROVE TypeOK'
    <2>1. /\ Receives(id, IF Received(id).nowait THEN <<>> ELSE <<Reply(id, m)>>)
          /\ toServer[id] # <<>> /\ id \in Ids0
      BY <1>1, <1>3 DEF BrokerReplies
    <2>2. (IF Received(id).nowait THEN <<>> ELSE <<Reply(id, m)>>) \in Seq(Message)
      BY <1>1, <2>1, ReplyType, MethodsFacts
    <2>3. BrokerTypeOK'
      BY <1>2, <1>3 DEF BrokerReplies, BrokerTypeOK, TypeOK
    <2> QED BY <2>1, <2>2, <2>3, ReceivesType
  <1>4. ASSUME NEW id \in Ids, BrokerAccepts(id) PROVE TypeOK'
    <2>1. Receives(id, <<>>) /\ id \in Ids0 /\ BrokerTypeOK'
      BY <1>1, <1>4 DEF BrokerAccepts, brokerVars, BrokerTypeOK, TypeOK
    <2> QED BY <1>1, <2>1, ReceivesType
  <1>5. ASSUME NEW id \in Ids, NEW t \in Tags, BrokerConsumes(id, t) PROVE TypeOK'
    <2> DEFINE ok == [Reply(id, "BasicConsumeOk") EXCEPT !.tag = t]
               ms == IF Received(id).nowait THEN <<>> ELSE <<ok>>
    <2>1. Receives(id, ms) /\ toServer[id] # <<>> /\ id \in Ids0
      BY <1>1, <1>5 DEF BrokerConsumes
    <2>2. Reply(id, "BasicConsumeOk") \in Message /\ Received(id) \in Message
      BY <2>1, ReplyType, RepliesFacts, MethodsFacts
    <2>3. ok \in Message
      BY <2>2, MessageUpdate
    <2>4. ms \in Seq(Message)
      <3> HIDE DEF ok
      <3> QED BY <1>1, <2>3
    <2>5. [rid |-> Received(id).rid, no_ack |-> Received(id).no_ack]
            \in [rid : Nat, no_ack : BOOLEAN]
      BY <2>2 DEF Message
    <2>6. BrokerTypeOK'
      BY <1>5, <2>5 DEF BrokerConsumes, BrokerTypeOK, TypeOK
    <2> QED BY <2>1, <2>4, <2>6, ReceivesType
  <1>6. ASSUME NEW id \in Ids, NEW returned \in BOOLEAN, NEW m \in {"BasicAck", "BasicNack"},
               BrokerPublishes(id, returned, m)
        PROVE  TypeOK'
    <2> DEFINE a == IF returned THEN <<Reply(id, "BasicReturn")>> ELSE <<>>
               b == IF bconfirm[id] THEN <<Reply(id, m)>> ELSE <<>>
    <2>1. Receives(id, a \o b) /\ toServer[id] # <<>> /\ id \in Ids0
      BY <1>1, <1>6 DEF BrokerPublishes
    <2>2. "BasicReturn" \in Methods /\ m \in Methods
      BY RepliesFacts, MethodsFacts DEF Methods, Async
    <2>3. a \in Seq(Message) /\ b \in Seq(Message)
      BY <1>1, <2>1, <2>2, ReplyType
    <2>4. a \o b \in Seq(Message)
      <3> HIDE DEF a, b
      <3> QED BY <2>3, ConcatProperties
    <2>5. BrokerTypeOK'
      BY <1>6 DEF BrokerPublishes, BrokerTypeOK, TypeOK
    <2> QED BY <2>1, <2>4, <2>5, ReceivesType
  <1>7. ASSUME NEW id \in Ids, BrokerOpens(id) PROVE TypeOK'
    <2>1. /\ Receives(id, <<Reply(id, "ChannelOpenOk")>>) /\ toServer[id] # <<>>
          /\ id \in Ids0
      BY <1>1, <1>7 DEF BrokerOpens
    <2>2. <<Reply(id, "ChannelOpenOk")>> \in Seq(Message)
      BY <2>1, ReplyType, RepliesFacts, MethodsFacts
    <2>3. BrokerTypeOK'
      BY <1>7 DEF BrokerOpens, BrokerTypeOK, TypeOK
    <2> QED BY <2>1, <2>2, <2>3, ReceivesType
  <1>8. ASSUME NEW id \in Ids, BrokerCloses(id) PROVE TypeOK'
    <2>1. /\ Receives(id, <<Reply(id, "ChannelCloseOk")>>) /\ toServer[id] # <<>>
          /\ id \in Ids0
      BY <1>1, <1>8 DEF BrokerCloses
    <2>2. <<Reply(id, "ChannelCloseOk")>> \in Seq(Message)
      BY <2>1, ReplyType, RepliesFacts, MethodsFacts
    <2>3. BrokerTypeOK'
      BY <1>2, <1>8 DEF BrokerCloses, Reset, BrokerTypeOK, TypeOK
    <2> QED BY <2>1, <2>2, <2>3, ReceivesType
  <1>9. ASSUME NEW id \in Ids, BrokerDrops(id) PROVE TypeOK'
    <2>1. Receives(id, <<>>) /\ id \in Ids0
      BY <1>1, <1>9 DEF BrokerDrops
    <2>2. BrokerTypeOK'
      BY <1>9 DEF BrokerDrops, BrokerTypeOK, TypeOK
    <2> QED BY <1>1, <2>1, <2>2, ReceivesType
  <1>10. ASSUME NEW id \in Ids, BrokerFails(id) PROVE TypeOK'
    <2>1. Receives(id, <<Msg(0, "ConnectionClose", 0)>>) /\ id \in Ids0
      BY <1>1, <1>10 DEF BrokerFails
    <2>2. <<Msg(0, "ConnectionClose", 0)>> \in Seq(Message)
      <3>1. Msg(0, "ConnectionClose", 0) \in Message
        BY <1>1, MsgType, MethodsFacts
      <3> QED BY <3>1
    <2>3. BrokerTypeOK'
      BY <1>10 DEF BrokerFails, BrokerTypeOK, TypeOK
    <2> QED BY <2>1, <2>2, <2>3, ReceivesType
  <1>11. CASE BrokerDisconnects
    <2> DEFINE ms == IF Received(0).m = "ConnectionClose"
                     THEN <<Reply(0, "ConnectionCloseOk")>> ELSE <<>>
    <2>1. Receives(0, ms) /\ toServer[0] # <<>>
      BY <1>11 DEF BrokerDisconnects
    <2>2. ms \in Seq(Message)
      BY <1>1, <2>1, ReplyType, RepliesFacts, MethodsFacts
    <2>3. BrokerTypeOK'
      BY <1>11 DEF BrokerDisconnects, BrokerTypeOK, TypeOK
    <2> QED BY <1>1, <2>1, <2>2, <2>3, ReceivesType
  <1> QED BY <1>3, <1>4, <1>5, <1>6, <1>7, <1>8, <1>9, <1>10, <1>11 DEF BrokerReceives

\* Every event of the broker or the socket preserves TypeOK.
LEMMA BrokerEventType ==
  ASSUME TypeOK, BrokerEvent, UNCHANGED created
  PROVE  TypeOK'
  <1>1. NoConsumer \in [rid : Nat, no_ack : BOOLEAN]
    BY DEF NoConsumer
  <1>2. Ids \subseteq Ids0 /\ 0 \in Ids0 /\ 0 \in Nat
    BY SpecAssumption DEF Ids, Ids0
  <1>3. ASSUME NEW id \in Ids, NEW t \in Tags, BrokerDelivers(id, t) \/ BrokerCancels(id, t)
        PROVE  TypeOK'
    <2>1. PICK m \in {"BasicDeliver", "BasicCancel"} :
            Happens(m, [Msg(id, m, bcons[id][t].rid) EXCEPT !.tag = t])
      BY <1>3 DEF BrokerDelivers, BrokerCancels
    <2>2. bcons[id][t].rid \in Nat /\ m \in Methods /\ id \in Ids0
      BY <1>2, MethodsFacts DEF TypeOK, BrokerTypeOK, Methods, Async
    <2>3. [Msg(id, m, bcons[id][t].rid) EXCEPT !.tag = t] \in Message
      BY <2>2, MsgType, MessageUpdate
    <2>4. events' \in Nat
      BY <2>1 DEF Happens, TypeOK, BrokerTypeOK
    <2>5. BrokerTypeOK'
      <3>1. CASE BrokerDelivers(id, t)
        BY <2>4, <3>1 DEF BrokerDelivers, BrokerTypeOK, TypeOK
      <3>2. CASE BrokerCancels(id, t)
        <4>1. bcons' \in [Ids -> [Tags -> [rid : Nat, no_ack : BOOLEAN]]]
          BY <1>1, <3>2 DEF BrokerCancels, BrokerTypeOK, TypeOK
        <4> QED BY <2>4, <3>2, <4>1 DEF BrokerCancels, BrokerTypeOK, TypeOK
      <3> QED BY <1>3, <3>1, <3>2
    <2> QED BY <2>1, <2>3, <2>5, HappensType
  <1>4. ASSUME NEW id \in Ids, BrokerFlows(id) PROVE TypeOK'
    <2>1. Msg(id, "ChannelFlow", 0) \in Message
      BY <1>2, MsgType, MethodsFacts
    <2>2. Happens("ChannelFlow", Msg(id, "ChannelFlow", 0)) /\ BrokerTypeOK'
      BY <1>4 DEF BrokerFlows, Happens, BrokerTypeOK, TypeOK
    <2> QED BY <2>1, <2>2, HappensType
  <1>5. ASSUME NEW id \in Ids, BrokerClosesChannel(id) PROVE TypeOK'
    <2>1. Msg(id, "ChannelClose", 0) \in Message
      BY <1>2, MsgType, MethodsFacts
    <2>2. Happens("ChannelClose", Msg(id, "ChannelClose", 0))
      BY <1>5 DEF BrokerClosesChannel
    <2>3. BrokerTypeOK'
      BY <1>1, <1>5 DEF BrokerClosesChannel, Happens, Reset, BrokerTypeOK, TypeOK
    <2> QED BY <2>1, <2>2, <2>3, HappensType
  <1>6. ASSUME NEW m, BrokerBlocks(m) PROVE TypeOK'
    <2>1. m \in Methods
      BY <1>6 DEF BrokerBlocks, Methods, Async
    <2>2. Msg(0, m, 0) \in Message
      BY <1>2, <2>1, MsgType
    <2>3. Happens(m, Msg(0, m, 0)) /\ BrokerTypeOK'
      BY <1>6 DEF BrokerBlocks, Happens, BrokerTypeOK, TypeOK
    <2> QED BY <2>2, <2>3, HappensType
  <1>7. CASE BrokerClosesConnection
    <2>1. Msg(0, "ConnectionClose", 0) \in Message
      BY <1>2, MsgType, MethodsFacts
    <2>2. Happens("ConnectionClose", Msg(0, "ConnectionClose", 0)) /\ BrokerTypeOK'
      BY <1>7 DEF BrokerClosesConnection, Happens, BrokerTypeOK, TypeOK
    <2> QED BY <2>1, <2>2, HappensType
  <1>8. ASSUME NEW n \in 0 .. Len(toClient), SocketBreaks(n) PROVE TypeOK'
    <2>1. toClient \in Seq(Message)
      BY DEF TypeOK, AbstractChannelTypeOK
    <2>2. toClient' \in Seq(Message)
      BY <1>8, <2>1, PrefixType DEF SocketBreaks
    <2>3. UNCHANGED clientVars /\ sock' \in BOOLEAN /\ toServer' \in [Ids0 -> Seq(Message)]
      BY <1>8 DEF SocketBreaks, TypeOK, AbstractChannelTypeOK
    <2>4. BrokerTypeOK'
      BY <1>8 DEF SocketBreaks, TypeOK, BrokerTypeOK
    <2> QED BY <2>2, <2>3, <2>4, ClientUnchanged
  <1> QED BY <1>3, <1>4, <1>5, <1>6, <1>7, <1>8 DEF BrokerEvent

\* The return of a callback preserves TypeOK.
LEMMA CallbackReturnsType ==
  ASSUME AbstractChannelTypeOK, CallbackReturns
  PROVE  AbstractChannelTypeOK'
  <1>1. stack \in Seq(Frame) /\ stack # <<>> /\ Top \in Frame
    BY TopType DEF AbstractChannelTypeOK, CallbackReturns
  <1>2. Pop(stack) \in Seq(Frame) /\ Top.shot \in Nat /\ Top.req \in Message
    BY <1>1, PopType DEF Frame
  <1>3. stack' \in Seq(Frame)
    BY <1>2, FulfilledType DEF CallbackReturns
  <1>4. exc' \in Exceptions
    BY DEF CallbackReturns, RaisedBy, Exceptions
  <1> QED BY <1>3, <1>4 DEF CallbackReturns, AbstractChannelTypeOK

\* TypeOK is inductive.
LEMMA TypeNext ==
  ASSUME TypeOK, [Next]_vars
  PROVE  TypeOK'
  <1>1. CASE AppCall
    BY <1>1, AppCallType
  <1>2. CASE (BaseStep \/ ChannelStep) /\ UNCHANGED <<brokerVars, created>>
    <2>1. AbstractChannelTypeOK' /\ ChannelTypeOK'
      BY <1>2, BaseStepType, ChannelStepType DEF TypeOK
    <2> QED BY <1>2, <2>1 DEF TypeOK, BrokerTypeOK, brokerVars
  <1>3. CASE ConnectionStep
    BY <1>3, ConnectionStepType
  <1>4. CASE CallbackEnds
    <2>1. AbstractChannelTypeOK'
      BY <1>4, CallbackReturnsType DEF CallbackEnds, TypeOK
    <2> QED BY <1>4, <2>1 DEF CallbackEnds, TypeOK, ChannelTypeOK, BrokerTypeOK, chanVars,
            consumers, brokerVars
  <1>5. CASE TimesOut
    BY <1>5 DEF TimesOut, ReadTimesOut, Exceptions, TypeOK, AbstractChannelTypeOK,
       ChannelTypeOK, BrokerTypeOK, chanVars, consumers, brokerVars
  <1>6. CASE BrokerStep
    BY <1>6, BrokerReceivesType, BrokerEventType DEF BrokerStep
  <1>7. CASE UNCHANGED vars
    BY <1>7 DEF vars, clientVars, TypeOK, AbstractChannelTypeOK, ChannelTypeOK,
       BrokerTypeOK, chanVars, consumers, brokerVars
  <1> QED BY <1>1, <1>2, <1>3, <1>4, <1>5, <1>6, <1>7 DEF Next, LibraryStep, Idle

\* TypeOK holds initially.
LEMMA TypeInit == Init => TypeOK
  <1> SUFFICES ASSUME Init PROVE TypeOK
    OBVIOUS
  <1>1. AbstractChannelTypeOK
    BY SpecAssumption DEF Init, AbstractChannelTypeOK, Ids, Ids0, Obj, Exceptions
  <1>2. ChannelTypeOK
    BY DEF Init, ChannelTypeOK
  <1>3. BrokerTypeOK
    BY DEF Init, BrokerInit, BrokerTypeOK, NoConsumer
  <1> QED BY <1>1, <1>2, <1>3, SpecAssumption DEF Init, TypeOK

(***************************************************************************)
(* Type correctness of the client and the broker, in every state reachable *)
(* by any nesting of calls, callbacks and exceptions: for every number of  *)
(* channels and calls, every set of tags and every behaviour of the broker *)
(* (wait, dispatch_method and the handlers keep _pending, the channel      *)
(* registry and the callback tables well-formed).                          *)
(***************************************************************************)
THEOREM TypeCorrect == Spec => []TypeOK
  <1>1. TypeOK /\ [Next]_vars => TypeOK'
    BY TypeNext
  <1> QED BY <1>1, TypeInit, PTL DEF Spec

-----------------------------------------------------------------------------
(***************************************************************************)
(* The tables the client keeps: the promises registered in _pending are    *)
(* those of calls in progress (PendingLive), and the registry of channels  *)
(* of a connection agrees with the attributes of the channel objects       *)
(* (IdsConsistent).                                                        *)
(*                                                                         *)
(* PendingLive speaks of three fields of a frame only (ch, on, prev), so   *)
(* the steps that mark frames as ready or not alone do not matter to it    *)
(* (SameShape).  It is inductive together with the fact that the frames of *)
(* callbacks and of drain_events wait for nothing: these are popped        *)
(* without restoring _pending.                                             *)
(*                                                                         *)
(* IdsConsistent needs two facts to be inductive.  Close-Ok of a channel   *)
(* never arrives on channel 0 (collect of the connection itself would      *)
(* leave its channels registered): this is about what the broker sends.    *)
(* And close() of a channel, whose finally clause cuts the object off from *)
(* the connection, runs on a channel (part of StackOK).                    *)
(***************************************************************************)

-----------------------------------------------------------------------------
(* The promises of _pending.                                               *)

Live(p, s) ==
  /\ \A c \in Obj, m \in Replies :
       p[c][m] # 0 => /\ p[c][m] \in 1 .. Len(s)
                      /\ s[p[c][m]].ch = c /\ m \in s[p[c][m]].on
  /\ \A i \in 1 .. Len(s) : \A m \in s[i].on :
       s[i].prev[m] # 0 => /\ s[i].prev[m] < i
                           /\ s[s[i].prev[m]].ch = s[i].ch
                           /\ m \in s[s[i].prev[m]].on

(* Only wait() waits, and Channel.close() is called on a channel. *)
FramesOK(s) ==
  \A i \in 1 .. Len(s) : /\ s[i].op \notin WaitOps => s[i].on = {}
                         /\ s[i].op = "close" => s[i].ch # 0

StackOK(p, s) == Live(p, s) /\ FramesOK(s)

SameShape(s, t) ==
  /\ Len(t) = Len(s)
  /\ \A i \in 1 .. Len(s) : /\ t[i].op = s[i].op /\ t[i].ch = s[i].ch
                            /\ t[i].on = s[i].on /\ t[i].prev = s[i].prev

-----------------------------------------------------------------------------
\* PendingLive is the predicate Live of the current state.
LEMMA PendingLiveIsLive == TypeOK => (PendingLive <=> Live(pending, stack))
  <1> SUFFICES ASSUME TypeOK PROVE PendingLive <=> Live(pending, stack)
    OBVIOUS
  <1>1. stack \in Seq(Frame) /\ DOMAIN stack = 1 .. Len(stack)
    BY LenProperties DEF TypeOK, AbstractChannelTypeOK
  <1> QED BY <1>1 DEF PendingLive, Live

\* The fields of a frame of a well-typed stack that the argument uses.
LEMMA FrameTypes ==
  ASSUME NEW s \in Seq(Frame), NEW i \in 1 .. Len(s)
  PROVE  /\ s[i] \in Frame /\ Len(s) \in Nat
         /\ s[i].on \subseteq Replies /\ s[i].ch \in Obj
         /\ \A m \in Replies : s[i].prev[m] \in Nat
  <1>1. s[i] \in Frame /\ Len(s) \in Nat
    BY ElementOfSeq, LenProperties
  <1> QED BY <1>1 DEF Frame

\* Live and FramesOK depend on nothing but the shape of the stack.
LEMMA ShapeOK ==
  ASSUME NEW p, NEW s \in Seq(Frame), NEW t, SameShape(s, t), StackOK(p, s)
  PROVE  StackOK(p, t)
  <1>1. FramesOK(t)
    BY DEF StackOK, FramesOK, SameShape
  <1>2. Live(p, t)
    <2>1. ASSUME NEW c \in Obj, NEW m \in Replies, p[c][m] # 0
          PROVE  /\ p[c][m] \in 1 .. Len(t)
                 /\ t[p[c][m]].ch = c /\ m \in t[p[c][m]].on
      BY <2>1 DEF StackOK, Live, SameShape
    <2>2. ASSUME NEW i \in 1 .. Len(t), NEW m \in t[i].on, t[i].prev[m] # 0
          PROVE  /\ t[i].prev[m] < i
                 /\ t[t[i].prev[m]].ch = t[i].ch
                 /\ m \in t[t[i].prev[m]].on
      <3>1. i \in 1 .. Len(s) /\ m \in s[i].on /\ s[i].prev[m] # 0 /\ t[i].prev = s[i].prev
            /\ t[i].ch = s[i].ch
        BY <2>2 DEF SameShape
      <3>2. /\ s[i].prev[m] < i
            /\ s[s[i].prev[m]].ch = s[i].ch
            /\ m \in s[s[i].prev[m]].on
        BY <3>1 DEF StackOK, Live
      <3>3. s[i].prev[m] \in 1 .. Len(s)
        BY <3>1, <3>2, FrameTypes
      <3> QED BY <3>1, <3>2, <3>3 DEF SameShape
    <2> QED BY <2>1, <2>2 DEF Live
  <1> QED BY <1>1, <1>2 DEF StackOK

\* Marking a drain frame as done does not change the shape of the stack.
LEMMA DrainedShape ==
  ASSUME NEW s \in Seq(Frame), s # <<>>
  PROVE  SameShape(s, Drained(s))
  <1>1. Len(s) \in 1 .. Len(s) /\ s[Len(s)] \in Frame
    BY EmptySeq, ElementOfSeq
  <1> DEFINE f == [s[Len(s)] EXCEPT !.ready = @ \/ s[Len(s)].op \in DrainOps]
  <1>2. f \in Frame
    BY <1>1 DEF Frame
  <1>3. Drained(s) = [s EXCEPT ![Len(s)] = f]
    BY DEF Drained
  <1>4. /\ f.op = s[Len(s)].op /\ f.ch = s[Len(s)].ch
        /\ f.on = s[Len(s)].on /\ f.prev = s[Len(s)].prev
    BY <1>1 DEF Frame
  <1>5. /\ Len([s EXCEPT ![Len(s)] = f]) = Len(s)
        /\ \A j \in 1 .. Len(s) :
             [s EXCEPT ![Len(s)] = f][j] = IF j = Len(s) THEN f ELSE s[j]
    <2> HIDE DEF f
    <2> QED BY <1>1, <1>2, ExceptSeq
  <1> HIDE DEF f
  <1> QED BY <1>3, <1>4, <1>5 DEF SameShape

\* Fulfilling a promise does not change the shape of the stack.
LEMMA FulfilledShape ==
  ASSUME NEW s \in Seq(Frame), NEW p \in Nat, NEW msg \in Message
  PROVE  SameShape(s, Fulfilled(s, p, msg))
  <1>1. CASE Fulfilled(s, p, msg) = s
    BY <1>1 DEF SameShape
  <1>2. CASE Fulfilled(s, p, msg) # s
    <2>1. p \in 1 .. Len(s) /\ s[p] \in Frame
      BY <1>2, LenProperties DEF Fulfilled
    <2> DEFINE f == [s[p] EXCEPT !.got = msg, !.ready = msg.m # "BasicNack"]
    <2>2. f \in Frame
      BY <2>1 DEF Frame
    <2>3. Fulfilled(s, p, msg) = [s EXCEPT ![p] = f]
      BY <1>2 DEF Fulfilled
    <2>4. f.op = s[p].op /\ f.ch = s[p].ch /\ f.on = s[p].on /\ f.prev = s[p].prev
      BY <2>1 DEF Frame
    <2> HIDE DEF f
    <2>5. /\ Len([s EXCEPT ![p] = f]) = Len(s)
          /\ \A j \in 1 .. Len(s) : [s EXCEPT ![p] = f][j] = IF j = p THEN f ELSE s[j]
      BY <2>1, <2>2, ExceptSeq
    <2> QED BY <2>3, <2>4, <2>5 DEF SameShape
  <1> QED BY <1>1, <1>2

(* dispatch_method takes a promise out of _pending. *)
LEMMA ZeroOK ==
  ASSUME NEW p \in [Obj -> [Replies -> Nat]], NEW s \in Seq(Frame), StackOK(p, s),
         NEW c \in Obj, NEW m \in Replies
  PROVE  StackOK([p EXCEPT ![c][m] = 0], s)
  <1> DEFINE q == [p EXCEPT ![c][m] = 0]
  <1>1. \A d \in Obj, n \in Replies : q[d][n] # 0 => q[d][n] = p[d][n]
    OBVIOUS
  <1> QED BY <1>1 DEF StackOK, Live

(* A frame that waits for nothing comes and goes. *)
LEMMA PushOK ==
  ASSUME NEW p, NEW s \in Seq(Frame), StackOK(p, s), NEW f \in Frame,
         f.on = {}, f.op \notin WaitOps
  PROVE  StackOK(p, Append(s, f))
  <1> DEFINE t == Append(s, f)
  <1>1. /\ Len(t) = Len(s) + 1 /\ Len(s) \in Nat
        /\ \A i \in 1 .. Len(s) : t[i] = s[i]
        /\ t[Len(s) + 1] = f
    BY AppendProperties, LenProperties
  <1> HIDE DEF t
  <1>2. FramesOK(t)
    <2>1. ASSUME NEW i \in 1 .. Len(t)
          PROVE  /\ t[i].op \notin WaitOps => t[i].on = {}
                 /\ t[i].op = "close" => t[i].ch # 0
      <3>1. CASE i = Len(s) + 1
        <4>1. "close" \in WaitOps
          BY DEF WaitOps
        <4> QED BY <1>1, <3>1, <4>1
      <3>2. CASE i # Len(s) + 1
        <4>1. i \in 1 .. Len(s) /\ t[i] = s[i]
          BY <1>1, <3>2
        <4> QED BY <4>1 DEF StackOK, FramesOK
      <3> QED BY <3>1, <3>2
    <2> QED BY <2>1 DEF FramesOK
  <1>3. Live(p, t)
    <2>1. ASSUME NEW d \in Obj, NEW n \in Replies, p[d][n] # 0
          PROVE  /\ p[d][n] \in 1 .. Len(t)
                 /\ t[p[d][n]].ch = d /\ n \in t[p[d][n]].on
      <3>1. p[d][n] \in 1 .. Len(s) /\ s[p[d][n]].ch = d /\ n \in s[p[d][n]].on
        BY <2>1 DEF StackOK, Live
      <3> QED BY <1>1, <3>1
    <2>2. ASSUME NEW i \in 1 .. Len(t), NEW n \in t[i].on, t[i].prev[n] # 0
          PROVE  /\ t[i].prev[n] < i
                 /\ t[t[i].prev[n]].ch = t[i].ch
                 /\ n \in t[t[i].prev[n]].on
      <3>1. i \in 1 .. Len(s) /\ t[i] = s[i]
        <4>1. i # Len(s) + 1
          BY <1>1
        <4> QED BY <1>1, <4>1
      <3>2. /\ s[i].prev[n] < i
            /\ s[s[i].prev[n]].ch = s[i].ch
            /\ n \in s[s[i].prev[n]].on
        BY <2>2, <3>1 DEF StackOK, Live
      <3>3. s[i].prev[n] \in 1 .. Len(s)
        BY <2>2, <3>1, <3>2, FrameTypes
      <3> QED BY <1>1, <3>1, <3>2, <3>3
    <2> QED BY <2>1, <2>2 DEF Live
  <1> QED BY <1>2, <1>3 DEF StackOK, t

\* Popping a frame that waits for nothing preserves the invariant.
LEMMA PopOK ==
  ASSUME NEW p, NEW s \in Seq(Frame), s # <<>>, StackOK(p, s), s[Len(s)].on = {}
  PROVE  StackOK(p, Pop(s))
  <1>1. /\ Len(Pop(s)) = Len(s) - 1 /\ Len(s) \in Nat \ {0}
        /\ \A i \in 1 .. Len(s) - 1 : Pop(s)[i] = s[i]
    BY PopType, EmptySeq, LenProperties
  <1>2. FramesOK(Pop(s))
    BY <1>1 DEF StackOK, FramesOK
  <1>3. Live(p, Pop(s))
    <2>1. ASSUME NEW d \in Obj, NEW n \in Replies, p[d][n] # 0
          PROVE  /\ p[d][n] \in 1 .. Len(Pop(s))
                 /\ Pop(s)[p[d][n]].ch = d /\ n \in Pop(s)[p[d][n]].on
      <3>1. p[d][n] \in 1 .. Len(s) /\ s[p[d][n]].ch = d /\ n \in s[p[d][n]].on
        BY <2>1 DEF StackOK, Live
      <3>2. p[d][n] # Len(s)
        BY <3>1
      <3> QED BY <1>1, <3>1, <3>2
    <2>2. ASSUME NEW i \in 1 .. Len(Pop(s)), NEW n \in Pop(s)[i].on, Pop(s)[i].prev[n] # 0
          PROVE  /\ Pop(s)[i].prev[n] < i
                 /\ Pop(s)[Pop(s)[i].prev[n]].ch = Pop(s)[i].ch
                 /\ n \in Pop(s)[Pop(s)[i].prev[n]].on
      <3>1. i \in 1 .. Len(s) - 1 /\ i \in 1 .. Len(s) /\ Pop(s)[i] = s[i]
        BY <1>1
      <3>2. /\ s[i].prev[n] < i
            /\ s[s[i].prev[n]].ch = s[i].ch
            /\ n \in s[s[i].prev[n]].on
        BY <2>2, <3>1 DEF StackOK, Live
      <3>3. s[i].prev[n] \in 1 .. Len(s) - 1
        BY <2>2, <3>1, <3>2, <1>1, FrameTypes
      <3> QED BY <1>1, <3>1, <3>2, <3>3
    <2> QED BY <2>1, <2>2 DEF Live
  <1> QED BY <1>2, <1>3 DEF StackOK

(* The finally clause of wait(): what it puts back belongs further out. *)
LEMMA RestoredOK ==
  ASSUME NEW s \in Seq(Frame), s # <<>>, AbstractChannelTypeOK, StackOK(pending, s)
  PROVE  StackOK(Restored(s[Len(s)]), Pop(s))
  <1> DEFINE f == s[Len(s)]
             q == Restored(f)
  <1>1. /\ Len(Pop(s)) = Len(s) - 1 /\ Len(s) \in Nat \ {0} /\ Len(s) \in 1 .. Len(s)
        /\ \A i \in 1 .. Len(s) - 1 : Pop(s)[i] = s[i]
    BY PopType, EmptySeq, LenProperties
  <1>2. f.ch \in Obj /\ f.on \subseteq Replies /\ \A m \in Replies : f.prev[m] \in Nat
    BY <1>1, FrameTypes
  <1>3. \A d \in Obj, n \in Replies :
          q[d][n] = IF d = f.ch /\ n \in f.on THEN f.prev[n] ELSE pending[d][n]
    BY <1>2 DEF Restored, AbstractChannelTypeOK
  <1>4. FramesOK(Pop(s))
    BY <1>1 DEF StackOK, FramesOK
  <1>5. Live(q, Pop(s))
    <2>1. ASSUME NEW d \in Obj, NEW n \in Replies, q[d][n] # 0
          PROVE  /\ q[d][n] \in 1 .. Len(Pop(s))
                 /\ Pop(s)[q[d][n]].ch = d /\ n \in Pop(s)[q[d][n]].on
      <3> HIDE DEF q
      <3>1. CASE d = f.ch /\ n \in f.on
        <4>1. q[d][n] = f.prev[n] /\ f.prev[n] \in Nat
          BY <1>2, <1>3, <3>1
        <4>2. f.prev[n] < Len(s) /\ s[f.prev[n]].ch = d /\ n \in s[f.prev[n]].on
          BY <1>1, <2>1, <3>1, <4>1 DEF StackOK, Live
        <4> QED BY <1>1, <2>1, <4>1, <4>2
      <3>2. CASE ~(d = f.ch /\ n \in f.on)
        <4>1. q[d][n] = pending[d][n]
          BY <1>3, <3>2
        <4>2. q[d][n] \in 1 .. Len(s) /\ s[q[d][n]].ch = d /\ n \in s[q[d][n]].on
          BY <2>1, <4>1 DEF StackOK, Live
        <4>3. q[d][n] # Len(s)
          BY <3>2, <4>2
        <4> QED BY <1>1, <4>2, <4>3
      <3> QED BY <3>1, <3>2
    <2>2. ASSUME NEW i \in 1 .. Len(Pop(s)), NEW n \in Pop(s)[i].on, Pop(s)[i].prev[n] # 0
          PROVE  /\ Pop(s)[i].prev[n] < i
                 /\ Pop(s)[Pop(s)[i].prev[n]].ch = Pop(s)[i].ch
                 /\ n \in Pop(s)[Pop(s)[i].prev[n]].on
      <3>1. i \in 1 .. Len(s) - 1 /\ i \in 1 .. Len(s) /\ Pop(s)[i] = s[i]
        BY <1>1
      <3>2. /\ s[i].prev[n] < i
            /\ s[s[i].prev[n]].ch = s[i].ch
            /\ n \in s[s[i].prev[n]].on
        BY <2>2, <3>1 DEF StackOK, Live
      <3>3. s[i].prev[n] \in 1 .. Len(s) - 1
        BY <2>2, <3>1, <3>2, <1>1, FrameTypes
      <3> QED BY <1>1, <3>1, <3>2, <3>3
    <2> QED BY <2>1, <2>2 DEF Live
  <1> QED BY <1>4, <1>5 DEF StackOK

\* Calls that are not alone any more keep the shape of the stack.
LEMMA CrowdedShape ==
  ASSUME NEW s \in Seq(Frame), NEW c \in Obj, NEW on \in SUBSET Replies
  PROVE  SameShape(s, Crowded(s, c, on))
  <1> DEFINE t == Crowded(s, c, on)
  <1>1. /\ Len(t) = Len(s)
        /\ \A i \in 1 .. Len(s) : \E b \in BOOLEAN : t[i] = [s[i] EXCEPT !.alone = b]
    BY CrowdedType
  <1> HIDE DEF t
  <1>2. ASSUME NEW x \in Frame, NEW b \in BOOLEAN, NEW y, y = [x EXCEPT !.alone = b]
        PROVE  y.op = x.op /\ y.ch = x.ch /\ y.on = x.on /\ y.prev = x.prev
    BY <1>2 DEF Frame
  <1>3. ASSUME NEW i \in 1 .. Len(s)
        PROVE  /\ t[i].op = s[i].op /\ t[i].ch = s[i].ch
               /\ t[i].on = s[i].on /\ t[i].prev = s[i].prev
    <2>1. s[i] \in Frame
      BY LenProperties
    <2>2. PICK b \in BOOLEAN : t[i] = [s[i] EXCEPT !.alone = b]
      BY <1>1
    <2> QED BY <1>2, <2>1, <2>2
  <1>4. SameShape(s, t)
    BY <1>1, <1>3 DEF SameShape
  <1> QED BY <1>4 DEF t

\* The finally clause of wait() preserves the invariant.
LEMMA LeaveOK ==
  ASSUME AbstractChannelTypeOK, StackOK(pending, stack), Leave
  PROVE  StackOK(pending', stack')
  BY RestoredOK DEF Leave, Top, AbstractChannelTypeOK

(* The head of wait(): the new promise displaces what was registered. *)
LEMMA WaitOK ==
  ASSUME AbstractChannelTypeOK,
         NEW s \in Seq(Frame), NEW op \in WaitOps, NEW c \in Obj,
         NEW on \in SUBSET Replies, NEW req \in Message,
         wait(s, op, c, on, req), StackOK(pending, s), op = "close" => c # 0
  PROVE  StackOK(pending', stack')
  <1> DEFINE t == Crowded(s, c, on)
             f == [op |-> op, ch |-> c, on |-> on, prev |-> pending[c], req |-> req,
                   got |-> NoMsg, ready |-> FALSE,
                   alone |-> ~Outstanding(c, req.ch, on), shot |-> 0]
             u == Append(t, f)
  <1>1. stack' = u
    BY DEF wait
  <1>2. Len(s) \in Nat /\ DOMAIN s = 1 .. Len(s) /\ \A i \in 1 .. Len(s) : s[i] \in Frame
    BY LenProperties
  <1>3. \A d \in Obj, n \in Replies :
          pending'[d][n] = IF d = c /\ n \in on THEN Len(s) + 1 ELSE pending[d][n]
    BY DEF wait, AbstractChannelTypeOK
  <1>4. ASSUME NEW i \in 1 .. Len(s)
        PROVE  /\ t[i].op = s[i].op /\ t[i].ch = s[i].ch
               /\ t[i].on = s[i].on /\ t[i].prev = s[i].prev
    BY CrowdedShape DEF SameShape
  <1>5. t \in Seq({t[i] : i \in 1 .. Len(s)} \cup {f}) /\ Len(t) = Len(s)
    <2>1. t \in Seq(Frame) /\ Len(t) = Len(s)
      BY CrowdedType
    <2> HIDE DEF t, f
    <2> QED BY <2>1
  <1>6. /\ Len(u) = Len(s) + 1
        /\ \A i \in 1 .. Len(s) : u[i] = t[i]
        /\ u[Len(s) + 1] = f
    <2> HIDE DEF t, f
    <2> QED BY <1>5, AppendProperties
  <1>7. f.op = op /\ f.ch = c /\ f.on = on /\ f.prev = pending[c]
    OBVIOUS
  <1> HIDE DEF t, f, u
  <1>8. FramesOK(u)
    <2>1. ASSUME NEW i \in 1 .. Len(u)
          PROVE  /\ u[i].op \notin WaitOps => u[i].on = {}
                 /\ u[i].op = "close" => u[i].ch # 0
      <3>1. CASE i = Len(s) + 1
        BY <1>6, <1>7, <3>1
      <3>2. CASE i # Len(s) + 1
        <4>1. i \in 1 .. Len(s)
          BY <1>2, <1>6, <3>2
        <4>2. s[i].op \notin WaitOps => s[i].on = {}
          BY <4>1 DEF StackOK, FramesOK
        <4>3. s[i].op = "close" => s[i].ch # 0
          BY <4>1 DEF StackOK, FramesOK
        <4> QED BY <1>4, <1>6, <4>1, <4>2, <4>3
      <3> QED BY <3>1, <3>2
    <2> QED BY <2>1 DEF FramesOK
  <1>9. Live(pending', u)
    <2>1. ASSUME NEW d \in Obj, NEW n \in Replies, pending'[d][n] # 0
          PROVE  /\ pending'[d][n] \in 1 .. Len(u)
                 /\ u[pending'[d][n]].ch = d /\ n \in u[pending'[d][n]].on
      <3>1. CASE d = c /\ n \in on
        BY <1>2, <1>3, <1>6, <1>7, <3>1
      <3>2. CASE ~(d = c /\ n \in on)
        <4>1. pending'[d][n] = pending[d][n]
          BY <1>3, <3>2
        <4>2. /\ pending[d][n] \in 1 .. Len(s) /\ s[pending[d][n]].ch = d
              /\ n \in s[pending[d][n]].on
          BY <2>1, <4>1 DEF StackOK, Live
        <4> QED BY <1>2, <1>4, <1>6, <4>1, <4>2
      <3> QED BY <3>1, <3>2
    <2>2. ASSUME NEW i \in 1 .. Len(u), NEW n \in u[i].on, u[i].prev[n] # 0
          PROVE  /\ u[i].prev[n] < i
                 /\ u[u[i].prev[n]].ch = u[i].ch
                 /\ n \in u[u[i].prev[n]].on
      <3>1. CASE i = Len(s) + 1
        <4>1. u[i].prev[n] = pending[c][n] /\ n \in Replies /\ u[i].ch = c
          BY <1>6, <1>7, <3>1
        <4>2. /\ pending[c][n] \in 1 .. Len(s) /\ s[pending[c][n]].ch = c
              /\ n \in s[pending[c][n]].on
          BY <2>2, <4>1 DEF StackOK, Live
        <4> QED BY <1>2, <1>4, <1>6, <3>1, <4>1, <4>2
      <3>2. CASE i # Len(s) + 1
        <4>1. /\ i \in 1 .. Len(s) /\ u[i].prev = s[i].prev /\ u[i].ch = s[i].ch
              /\ n \in s[i].on /\ s[i].prev[n] # 0
          BY <1>2, <1>4, <1>6, <2>2, <3>2
        <4>2. /\ s[i].prev[n] < i
              /\ s[s[i].prev[n]].ch = s[i].ch
              /\ n \in s[s[i].prev[n]].on
          BY <4>1 DEF StackOK, Live
        <4>3. s[i].prev[n] \in 1 .. Len(s)
          BY <4>1, <4>2, FrameTypes
        <4> QED BY <1>4, <1>6, <4>1, <4>2, <4>3
      <3> QED BY <3>1, <3>2
    <2> QED BY <2>1, <2>2 DEF Live
  <1> QED BY <1>1, <1>8, <1>9 DEF StackOK

-----------------------------------------------------------------------------
(* Parts of actions.                                                       *)

\* Marking a drain frame as done preserves the invariant.
LEMMA DrainedOK ==
  ASSUME AbstractChannelTypeOK, Takes, NEW p, StackOK(p, stack)
  PROVE  Drained(stack) \in Seq(Frame) /\ StackOK(p, Drained(stack))
  BY InType, DrainedType, DrainedShape, ShapeOK

\* Taking and calling the one-shot promise preserves the invariant.
LEMMA OneShotOK ==
  ASSUME AbstractChannelTypeOK, StackOK(pending, stack), Takes,
         NEW c \in Obj, NEW m \in Replies, OneShot(c, m)
  PROVE  StackOK(pending', stack')
  <1>1. pending \in [Obj -> [Replies -> Nat]] /\ stack \in Seq(Frame)
        /\ pending[c][m] \in Nat /\ In \in Message
    BY InType DEF AbstractChannelTypeOK
  <1>2. StackOK(pending', stack)
    BY <1>1, ZeroOK DEF OneShot
  <1>3. Drained(stack) \in Seq(Frame) /\ StackOK(pending', Drained(stack))
    BY <1>2, DrainedOK
  <1> QED BY <1>1, <1>3, FulfilledShape, ShapeOK DEF OneShot

\* Starting a callback preserves the invariant.
LEMMA CallBackOK ==
  ASSUME AbstractChannelTypeOK, StackOK(pending, stack), Takes,
         NEW c \in Obj, NEW m, CallBack(c, m)
  PROVE  StackOK(pending', stack')
  <1>1. pending \in [Obj -> [Replies -> Nat]] /\ stack \in Seq(Frame)
        /\ (m \in Replies => pending[c][m] \in Nat) /\ In \in Message
    BY InType DEF AbstractChannelTypeOK
  <1>2. StackOK(pending', stack)
    BY <1>1, ZeroOK DEF CallBack
  <1>3. Drained(stack) \in Seq(Frame) /\ StackOK(pending', Drained(stack))
    BY <1>2, DrainedOK
  <1> DEFINE n == IF m \in Replies THEN pending[c][m] ELSE 0
             f == [op |-> "callback", ch |-> c, on |-> {},
                   prev |-> [r \in Replies |-> 0], req |-> In, got |-> NoMsg,
                   ready |-> FALSE, alone |-> TRUE, shot |-> n]
  <1>4. f \in Frame
    <2>1. n \in Nat
      BY <1>1
    <2> QED BY <1>1, <2>1, NoMsgType DEF Frame
  <1>5. f.on = {} /\ f.op \notin WaitOps
    BY DEF WaitOps
  <1>6. stack' = Append(Drained(stack), f)
    BY DEF CallBack
  <1> HIDE DEF f
  <1> QED BY <1>3, <1>4, <1>5, <1>6, PushOK

\* A handler that just returns preserves the invariant.
LEMMA EndsOK ==
  ASSUME AbstractChannelTypeOK, StackOK(pending, stack), Takes, Ends
  PROVE  StackOK(pending', stack')
  BY DrainedOK DEF Ends

\* The tail of dispatch_method for a reply preserves the invariant.
LEMMA AnsweredOK ==
  ASSUME AbstractChannelTypeOK, StackOK(pending, stack), Takes, NEW m \in Replies, Answered(m)
  PROVE  StackOK(pending', stack')
  BY InType, OneShotOK, CallBackOK DEF Answered

\* A step that touches neither _pending nor the stack preserves the
\* invariant.
LEMMA SameOK ==
  ASSUME StackOK(pending, stack), UNCHANGED <<stack, pending>>
  PROVE  StackOK(pending', stack')
  OBVIOUS

\* A public method that sends and waits preserves the invariant.
LEMMA InvokeOK ==
  ASSUME AbstractChannelTypeOK, StackOK(pending, stack), NEW c \in Obj,
         NEW req \in Message, NEW on \in SUBSET Replies, NEW op \in WaitOps,
         op # "close", Invoke(c, req, on, op)
  PROVE  StackOK(pending', stack')
  <1>1. CASE wait(stack, op, c, on, req)
    BY <1>1, WaitOK DEF AbstractChannelTypeOK
  <1>2. CASE UNCHANGED <<stack, pending>>
    BY <1>2, SameOK
  <1>3. CASE stack' = Crowded(stack, c, Expected(req)) /\ UNCHANGED pending
    <2>1. stack \in Seq(Frame)
      BY DEF AbstractChannelTypeOK
    <2> QED BY <1>3, <2>1, ExpectedType, CrowdedShape, ShapeOK
  <1> QED BY <1>1, <1>2, <1>3 DEF Invoke

\* Pushing the frame of _basic_publish preserves the invariant.
LEMMA PublishFrameOK ==
  ASSUME AbstractChannelTypeOK, NEW c \in Obj, NEW rid \in Nat,
         NEW p, NEW s \in Seq(Frame), StackOK(p, s)
  PROVE  StackOK(p, Append(s, PublishFrame(c, rid)))
  <1>1. PublishFrame(c, rid).on = {} /\ PublishFrame(c, rid).op \notin WaitOps
    BY DEF PublishFrame, WaitOps
  <1> QED BY <1>1, PublishFrameType, PushOK

-----------------------------------------------------------------------------
(* The operations.                                                         *)

\* Every public method of a channel preserves the invariant.
LEMMA ChannelCallOK ==
  ASSUME AbstractChannelTypeOK, StackOK(pending, stack), NEW c \in Chan, ChannelCall(c)
  PROVE  StackOK(pending', stack')
  <1>0. c \in Obj /\ c # 0
    BY DEF Chan, Obj
  <1>1. ASSUME NEW m \in Sync, NEW nowait \in BOOLEAN, Simple(c, m, nowait)
        PROVE  StackOK(pending', stack')
    <2>1. Msg(channel_id[c], m, calls + 1) \in Message
      BY <1>0, RequestType, MethodsFacts
    <2>2. [Msg(channel_id[c], m, calls + 1) EXCEPT !.nowait = nowait] \in Message
      BY <2>1, MessageUpdate
    <2>3. (IF nowait THEN {} ELSE ReplyTo[m]) \in SUBSET Replies
      BY RepliesFacts
    <2>4. "rpc" \in WaitOps /\ "rpc" # "close"
      BY DEF WaitOps
    <2> QED BY <1>0, <1>1, <2>2, <2>3, <2>4, InvokeOK DEF Simple, Rpc
  <1>2. ASSUME NEW m \in Methods, SimplePost(c, m) PROVE StackOK(pending', stack')
    <2>1. "rpc" \in WaitOps /\ "rpc" # "close" /\ {} \in SUBSET Replies
      BY DEF WaitOps
    <2> QED BY <1>0, <1>2, <2>1, RequestType, InvokeOK DEF SimplePost, Post
  <1>3. {"ExchangeDeclare", "ExchangeDelete", "ExchangeBind", "ExchangeUnbind",
         "QueueDeclare", "QueueBind", "QueueUnbind", "QueueDelete", "QueuePurge",
         "ConfirmSelect", "ChannelFlow", "BasicGet", "BasicQos", "TxSelect",
         "TxCommit", "TxRollback", "BasicRecover"} \subseteq Sync
    BY DEF Sync, ReplyTo
  <1>4. {"QueueUnbind", "BasicRecover", "BasicRecoverAsync", "BasicAck", "BasicReject"}
          \subseteq Methods
    BY <1>3, MethodsFacts DEF Methods, Async
  <1>5. ASSUME NEW nowait \in Nowaits,
               \/ exchange_declare(c, nowait) \/ exchange_delete(c, nowait)
               \/ exchange_bind(c, nowait) \/ exchange_unbind(c, nowait)
               \/ queue_declare(c, nowait) \/ queue_bind(c, nowait)
               \/ queue_delete(c, nowait)
               \/ queue_purge(c, nowait) \/ confirm_select(c, nowait)
               \/ queue_unbind(c, nowait)
        PROVE  StackOK(pending', stack')
    <2>1. nowait \in BOOLEAN
      BY ConnectionAssumption
    <2>2. CASE queue_unbind(c, nowait)
      <3>1. CASE Simple(c, "QueueUnbind", FALSE)
        BY <1>1, <1>3, <3>1
      <3>2. CASE SimplePost(c, "QueueUnbind")
        BY <1>2, <1>4, <3>2
      <3> QED BY <2>2, <3>1, <3>2 DEF queue_unbind
    <2> QED BY <1>1, <1>3, <1>5, <2>1, <2>2 DEF exchange_declare, exchange_delete,
              exchange_bind, exchange_unbind, queue_declare, queue_bind,
              queue_delete, queue_purge, confirm_select
  <1>6. ASSUME \/ flow(c) \/ basic_get(c) \/ basic_qos(c)
               \/ tx_select(c) \/ tx_commit(c) \/ tx_rollback(c)
        PROVE  StackOK(pending', stack')
    BY <1>1, <1>3, <1>6 DEF flow, basic_get, basic_qos, tx_select, tx_commit, tx_rollback
  <1>7. ASSUME \/ basic_recover(c) \/ basic_recover_async(c) \/ basic_ack(c)
               \/ basic_reject(c)
        PROVE  StackOK(pending', stack')
    BY <1>2, <1>4, <1>7 DEF basic_recover, basic_recover_async, basic_ack, basic_reject
  <1>8. ASSUME NEW nowait \in Nowaits, NEW t \in Tags, basic_cancel(c, t, nowait)
        PROVE  StackOK(pending', stack')
    <2> DEFINE req == [Msg(channel_id[c], "BasicCancel", calls + 1)
                       EXCEPT !.tag = t, !.nowait = nowait]
               on == IF nowait THEN {} ELSE {"BasicCancelOk"}
    <2>1. Msg(channel_id[c], "BasicCancel", calls + 1) \in Message
      BY <1>0, RequestType, MethodsFacts
    <2>2. req \in Message
      BY <2>1, MessageUpdate, ConnectionAssumption
    <2>3. on \in SUBSET Replies /\ "rpc" \in WaitOps /\ "rpc" # "close"
      BY RepliesFacts DEF WaitOps
    <2>4. Invoke(c, req, on, "rpc")
      BY <1>8 DEF basic_cancel
    <2> QED BY <1>0, <2>2, <2>3, <2>4, InvokeOK
  <1>9. ASSUME NEW nowait \in Nowaits, NEW t \in Tags \cup {0}, NEW no_ack \in NoAcks,
               basic_consume(c, t, nowait, no_ack)
        PROVE  StackOK(pending', stack')
    <2> DEFINE req == [Msg(channel_id[c], "BasicConsume", calls + 1)
                       EXCEPT !.tag = t, !.nowait = nowait, !.no_ack = no_ack]
    <2>1. Msg(channel_id[c], "BasicConsume", calls + 1) \in Message
      BY <1>0, RequestType, MethodsFacts
    <2>2. req \in Message
      BY <2>1, MessageUpdate, ConnectionAssumption
    <2>3. {"BasicConsumeOk"} \in SUBSET Replies /\ "consume" \in WaitOps /\ "consume" # "close"
      BY RepliesFacts DEF WaitOps
    <2>4. Invoke(c, req, {"BasicConsumeOk"}, "consume") \/ UNCHANGED <<stack, pending>>
      BY <1>9 DEF basic_consume
    <2> QED BY <1>0, <2>2, <2>3, <2>4, InvokeOK, SameOK
  <1>10. CASE basic_publish(c)
    <2> DEFINE req == Msg(channel_id[c], "ConfirmSelect", calls + 1)
    <2>1. req \in Message /\ stack \in Seq(Frame) /\ calls + 1 \in Nat
      BY <1>0, RequestType, MethodsFacts DEF AbstractChannelTypeOK
    <2>2. {"ConfirmSelectOk"} \in SUBSET Replies /\ "select" \in WaitOps /\ "select" # "close"
      BY RepliesFacts DEF WaitOps
    <2>3. \/ wait(stack, "select", c, {"ConfirmSelectOk"}, req)
          \/ UNCHANGED <<stack, pending>>
          \/ stack' = Append(stack, PublishFrame(c, calls + 1)) /\ UNCHANGED pending
      BY <1>10 DEF basic_publish, Selects
    <2>4. CASE stack' = Append(stack, PublishFrame(c, calls + 1)) /\ UNCHANGED pending
      BY <1>0, <2>1, <2>4, PublishFrameOK
    <2> QED BY <1>0, <2>1, <2>2, <2>3, <2>4, WaitOK, SameOK
  <1>11. CASE Channel_open(c)
    <2>1. {"ChannelOpenOk"} \in SUBSET Replies /\ "open" \in WaitOps /\ "open" # "close"
      BY RepliesFacts DEF WaitOps
    <2> QED BY <1>0, <1>11, <2>1, RequestType, MethodsFacts, InvokeOK DEF Channel_open
  <1>12. CASE Channel_close(c)
    <2> DEFINE req == Msg(channel_id[c], "ChannelClose", calls + 1)
    <2>1. req \in Message /\ stack \in Seq(Frame)
      BY <1>0, RequestType, MethodsFacts DEF AbstractChannelTypeOK
    <2>2. {"ChannelCloseOk"} \in SUBSET Replies /\ "close" \in WaitOps
      BY RepliesFacts DEF WaitOps
    <2>3. \/ wait(stack, "close", c, {"ChannelCloseOk"}, req)
          \/ UNCHANGED <<stack, pending>>
      BY <1>12 DEF Channel_close
    <2> QED BY <1>0, <2>1, <2>2, <2>3, WaitOK, SameOK
  <1> QED BY <1>5, <1>6, <1>7, <1>8, <1>9, <1>10, <1>11, <1>12 DEF ChannelCall

\* Every call of the application preserves the invariant.
LEMMA AppCallOK ==
  ASSUME TypeOK, StackOK(pending, stack), AppCall
  PROVE  StackOK(pending', stack')
  <1>0. AbstractChannelTypeOK /\ 0 \in Obj /\ stack \in Seq(Frame) /\ 0 \in Ids0
    BY SpecAssumption DEF TypeOK, AbstractChannelTypeOK, Obj, Ids0
  <1>1. ASSUME NEW c \in 1 .. created, ChannelCall(c) PROVE StackOK(pending', stack')
    <2>1. c \in Chan
      BY SpecAssumption DEF TypeOK, Chan
    <2> QED BY <1>0, <1>1, <2>1, ChannelCallOK
  <1>2. ASSUME NEW id \in ExplicitIds, channel(id) PROVE StackOK(pending', stack')
    <2>1. ASSUME NEW k \in Ids, NewChannel(k) PROVE StackOK(pending', stack')
      <3> DEFINE c == created + 1
                 req == Msg(k, "ChannelOpen", calls + 1)
      <3>1. c \in Obj /\ k \in Ids0
        BY <2>1, SpecAssumption DEF TypeOK, NewChannel, Obj, Ids, Ids0
      <3>2. req \in Message
        BY <1>0, <3>1, MsgType, MethodsFacts DEF AbstractChannelTypeOK
      <3>3. {"ChannelOpenOk"} \in SUBSET Replies /\ "open" \in WaitOps /\ "open" # "close"
        BY RepliesFacts DEF WaitOps
      <3>4. wait(stack, "open", c, {"ChannelOpenOk"}, req) \/ UNCHANGED <<stack, pending>>
        BY <2>1 DEF NewChannel
      <3> QED BY <1>0, <3>1, <3>2, <3>3, <3>4, WaitOK, SameOK
    <2>2. ASSUME NEW e, NoChannel(e) PROVE StackOK(pending', stack')
      BY <2>2, SameOK DEF NoChannel, Raises
    <2>3. id # 0 => id \in Ids
      BY ConnectionAssumption, SpecAssumption DEF Ids, Ids0
    <2> QED BY <1>2, <2>1, <2>2, <2>3, FreeIdType DEF channel
  <1>3. CASE drain_events
    <2> DEFINE f == [op |-> "drain", ch |-> 0, on |-> {}, prev |-> [r \in Replies |-> 0],
                     req |-> NoMsg, got |-> NoMsg, ready |-> FALSE, alone |-> TRUE,
                     shot |-> 0]
    <2>1. f \in Frame /\ f.on = {} /\ f.op \notin WaitOps
      BY <1>0, NoMsgType DEF Frame, DrainOps, WaitOps
    <2>2. stack' = Append(stack, f) /\ UNCHANGED pending
      BY <1>3 DEF drain_events
    <2> HIDE DEF f
    <2> QED BY <1>0, <2>1, <2>2, PushOK
  <1>4. CASE Connection_close
    <2> DEFINE req == Msg(0, "ConnectionClose", calls + 1)
    <2>1. req \in Message
      BY <1>0, MsgType, MethodsFacts DEF AbstractChannelTypeOK
    <2>2. {"ConnectionCloseOk"} \in SUBSET Replies /\ "connclose" \in WaitOps
          /\ "connclose" # "close"
      BY RepliesFacts DEF WaitOps
    <2>3. wait(stack, "connclose", 0, {"ConnectionCloseOk"}, req) \/ UNCHANGED <<stack, pending>>
      BY <1>4 DEF Connection_close
    <2> QED BY <1>0, <2>1, <2>2, <2>3, WaitOK, SameOK
  <1> QED BY <1>1, <1>2, <1>3, <1>4 DEF AppCall

\* Every step of wait() and dispatch_method preserves the invariant.
LEMMA BaseStepOK ==
  ASSUME AbstractChannelTypeOK, StackOK(pending, stack), BaseStep
  PROVE  StackOK(pending', stack')
  <1>1. CASE ReturnPlain \/ UnwindPlain \/ UnwindCallback
    BY <1>1, LeaveOK DEF ReturnPlain, UnwindPlain, UnwindCallback, Returns, Unwinds
  <1>2. CASE ConnectionGone \/ CallbackCatch \/ Raised \/ ReadFails \/ UnknownChannel
    BY <1>2, SameOK DEF ConnectionGone, CallbackCatch, Raised, ReadFails, UnknownChannel
  <1>3. CASE Discard
    BY <1>3, DrainedOK DEF Discard
  <1>4. ASSUME NEW m \in PlainReplies, OnReply(m) PROVE StackOK(pending', stack')
    <2>1. Takes /\ m \in Replies /\ OneShot(Target, m)
      BY <1>4 DEF OnReply, Dispatches, PlainReplies
    <2> QED BY <2>1, InType, OneShotOK
  <1> QED BY <1>1, <1>2, <1>3, <1>4 DEF BaseStep

\* Every handler and return of a channel method preserves the invariant.
LEMMA ChannelStepOK ==
  ASSUME AbstractChannelTypeOK, StackOK(pending, stack), ChannelStep
  PROVE  StackOK(pending', stack')
  <1>1. CASE Channel_on_open_ok \/ on_basic_ack \/ on_basic_nack
    <2>1. PICK m \in {"ChannelOpenOk", "BasicAck", "BasicNack"} : Takes /\ Answered(m)
      BY <1>1 DEF Channel_on_open_ok, on_basic_ack, on_basic_nack, Dispatches
    <2> QED BY <2>1, RepliesFacts, AnsweredOK
  <1>2. CASE Channel_on_close_ok \/ on_basic_cancel_ok
    <2>1. PICK m \in {"ChannelCloseOk", "BasicCancelOk"} : Takes /\ OneShot(Target, m)
      BY <1>2 DEF Channel_on_close_ok, on_basic_cancel_ok, Dispatches
    <2> QED BY <2>1, RepliesFacts, InType, OneShotOK
  <1>3. CASE on_flow
    <2>1. Takes /\ (Ends \/ UNCHANGED <<stack, pending>>)
      BY <1>3 DEF on_flow, Dispatches
    <2> QED BY <2>1, EndsOK, SameOK
  <1>4. CASE on_basic_cancel
    <2>1. Takes /\ (CallBack(Target, "BasicCancel") \/ UNCHANGED <<stack, pending>>)
      BY <1>4 DEF on_basic_cancel, Dispatches, Raises
    <2> QED BY <2>1, InType, CallBackOK, SameOK
  <1>5. CASE on_basic_deliver
    <2>1. Takes /\ (CallBack(Target, "BasicDeliver") \/ Ends \/ UNCHANGED <<stack, pending>>)
      BY <1>5 DEF on_basic_deliver, Dispatches, Raises
    <2> QED BY <2>1, InType, CallBackOK, EndsOK, SameOK
  <1>6. CASE on_basic_return
    <2>1. Takes /\ (CallBack(Target, "BasicReturn") \/ UNCHANGED <<stack, pending>>)
      BY <1>6 DEF on_basic_return, Dispatches, Raises
    <2> QED BY <2>1, InType, CallBackOK, SameOK
  <1>7. CASE CloseReturns \/ ReviveReturns \/ ConsumeReturns
    BY <1>7, LeaveOK DEF CloseReturns, ReviveReturns, ConsumeReturns, Returns, Unwinds
  <1>8. CASE Channel_on_close
    <2> DEFINE reopen == Msg(channel_id[Target], "ChannelOpen", 0)
    <2>1. Takes
      BY <1>8 DEF Channel_on_close, Dispatches
    <2>2. \/ Ends \/ UNCHANGED <<stack, pending>>
          \/ wait(Drained(stack), "revive", Target, {"ChannelOpenOk"}, reopen)
      BY <1>8 DEF Channel_on_close, Agrees, do_revive
    <2>3. Drained(stack) \in Seq(Frame) /\ StackOK(pending, Drained(stack)) /\ Target \in Obj
      BY <2>1, InType, DrainedOK
    <2>4. reopen \in Message
      BY <2>3, RequestType, MethodsFacts
    <2>5. {"ChannelOpenOk"} \in SUBSET Replies /\ "revive" \in WaitOps /\ "revive" # "close"
      BY RepliesFacts DEF WaitOps
    <2> QED BY <2>1, <2>2, <2>3, <2>4, <2>5, EndsOK, SameOK, WaitOK
  <1>9. CASE SelectReturns
    <2>1. stack \in Seq(Frame) /\ stack # <<>> /\ Top \in Frame
      BY <1>9, TopType DEF SelectReturns, AbstractChannelTypeOK
    <2>2. Top.ch \in Obj /\ Top.req.rid \in Nat /\ Pop(stack) \in Seq(Frame)
      BY <2>1, PopType DEF Frame, Message
    <2>3. StackOK(pending', Pop(stack))
      BY <1>9, <2>1, RestoredOK DEF SelectReturns, Top
    <2>4. stack' = Pop(stack) \/ stack' = Append(Pop(stack), PublishFrame(Top.ch, Top.req.rid))
      BY <1>9 DEF SelectReturns
    <2> QED BY <2>2, <2>3, <2>4, PublishFrameOK
  <1>10. CASE PublishWrites
    <2>1. stack \in Seq(Frame) /\ stack # <<>> /\ Top \in Frame /\ Top.op = "publish"
      BY <1>10, TopType DEF PublishWrites, AbstractChannelTypeOK
    <2>2. Top.ch \in Obj /\ Top.req \in Message /\ Pop(stack) \in Seq(Frame)
      BY <2>1, PopType DEF Frame
    <2>3. Top.on = {}
      <3>1. Len(stack) \in 1 .. Len(stack)
        BY <2>1, TopType
      <3> QED BY <2>1, <3>1 DEF StackOK, FramesOK, Top, WaitOps
    <2>4. StackOK(pending, Pop(stack))
      BY <2>1, <2>3, PopOK DEF Top
    <2>5. {"BasicAck", "BasicNack"} \in SUBSET Replies /\ "confirm" \in WaitOps
          /\ "confirm" # "close"
      BY RepliesFacts DEF WaitOps
    <2>6. \/ stack' = Pop(stack) /\ UNCHANGED pending
          \/ wait(Pop(stack), "confirm", Top.ch, {"BasicAck", "BasicNack"}, Top.req)
      BY <1>10 DEF PublishWrites
    <2> QED BY <2>2, <2>4, <2>5, <2>6, WaitOK
  <1> QED BY <1>1, <1>2, <1>3, <1>4, <1>5, <1>6, <1>7, <1>8, <1>9, <1>10 DEF ChannelStep

\* Every handler and return of a connection method preserves the invariant.
LEMMA ConnectionStepOK ==
  ASSUME AbstractChannelTypeOK, StackOK(pending, stack), ConnectionStep
  PROVE  StackOK(pending', stack')
  <1>0. 0 \in Obj
    BY SpecAssumption DEF Obj
  <1>1. CASE Connection_on_close_ok
    BY <1>0, <1>1, RepliesFacts, OneShotOK DEF Connection_on_close_ok, Dispatches
  <1>2. CASE Connection_on_close
    BY <1>2, SameOK DEF Connection_on_close, Raises
  <1>3. ASSUME NEW m, on_blocked(m) PROVE StackOK(pending', stack')
    <2>1. Takes /\ (CallBack(0, m) \/ Ends)
      BY <1>3 DEF on_blocked, Dispatches
    <2> QED BY <1>0, <2>1, CallBackOK, EndsOK
  <1>4. CASE ConnectionCloseReturns
    BY <1>4, LeaveOK DEF ConnectionCloseReturns, CloseFails, Returns, Unwinds
  <1> QED BY <1>1, <1>2, <1>3, <1>4 DEF ConnectionStep

\* The return of a callback preserves the invariant.
LEMMA CallbackReturnsOK ==
  ASSUME AbstractChannelTypeOK, StackOK(pending, stack), CallbackReturns
  PROVE  StackOK(pending', stack')
  <1>1. stack \in Seq(Frame) /\ stack # <<>> /\ Top \in Frame /\ Top.op = "callback"
    BY TopType DEF CallbackReturns, AbstractChannelTypeOK
  <1>2. Top.shot \in Nat /\ Top.req \in Message /\ Pop(stack) \in Seq(Frame)
    BY <1>1, PopType DEF Frame
  <1>3. Top.on = {}
    <2>1. Len(stack) \in 1 .. Len(stack)
      BY <1>1, TopType
    <2> QED BY <1>1, <2>1 DEF StackOK, FramesOK, Top, WaitOps
  <1>4. StackOK(pending, Pop(stack))
    BY <1>1, <1>3, PopOK DEF Top
  <1>5. StackOK(pending, stack')
    BY <1>2, <1>4, FulfilledShape, ShapeOK DEF CallbackReturns
  <1> QED BY <1>5 DEF CallbackReturns

\* The broker does not touch the variables of the client.
LEMMA BrokerKeepsClient ==
  ASSUME BrokerStep
  PROVE  UNCHANGED clientVars
  BY DEF BrokerStep, BrokerReceives, BrokerEvent, BrokerReplies, BrokerAccepts,
     BrokerConsumes, BrokerPublishes, BrokerOpens, BrokerCloses, BrokerDrops,
     BrokerFails, BrokerDisconnects, BrokerDelivers, BrokerCancels, BrokerFlows,
     BrokerClosesChannel, BrokerBlocks, BrokerClosesConnection, SocketBreaks,
     Receives, Happens

\* The invariant is inductive, given TypeOK.
LEMMA StackNext ==
  ASSUME TypeOK, StackOK(pending, stack), [Next]_vars
  PROVE  StackOK(pending', stack')
  <1>1. CASE AppCall
    BY <1>1, AppCallOK
  <1>2. CASE BaseStep \/ ChannelStep \/ ConnectionStep
    BY <1>2, BaseStepOK, ChannelStepOK, ConnectionStepOK DEF TypeOK
  <1>3. CASE CallbackEnds
    BY <1>3, CallbackReturnsOK DEF CallbackEnds, TypeOK
  <1>4. CASE TimesOut
    BY <1>4, SameOK DEF TimesOut, ReadTimesOut
  <1>5. CASE BrokerStep
    BY <1>5, BrokerKeepsClient, SameOK DEF clientVars
  <1>6. CASE UNCHANGED vars
    BY <1>6, SameOK DEF vars, clientVars
  <1> QED BY <1>1, <1>2, <1>3, <1>4, <1>5, <1>6 DEF Next, LibraryStep, Idle

\* The invariant holds initially.
LEMMA StackInit == Init => StackOK(pending, stack)
  BY DEF Init, StackOK, Live, FramesOK

(* In every reachable state the frames on the stack are well-formed. *)
THEOREM StackCorrect == Spec => []StackOK(pending, stack)
  <1>1. TypeOK /\ StackOK(pending, stack) /\ [Next]_vars => StackOK(pending, stack)'
    BY StackNext
  <1> QED BY <1>1, StackInit, TypeCorrect, PTL DEF Spec

(***************************************************************************)
(* Whatever calls are nested in each other, in whatever order they return  *)
(* or raise, and however many there are: a promise in _pending is that of  *)
(* a call in progress on the channel for the method, and what the finally  *)
(* clause of wait() will put back (prev_p) belongs to a call further out.  *)
(***************************************************************************)
THEOREM PendingCorrect == Spec => []PendingLive
  <1>1. TypeOK /\ StackOK(pending, stack) => PendingLive
    BY PendingLiveIsLive DEF StackOK
  <1> QED BY <1>1, StackCorrect, TypeCorrect, PTL

-----------------------------------------------------------------------------
(* The registry of channels.                                               *)

NoChannelZero(q) == \A i \in 1 .. Len(q) : q[i].ch = 0 => q[i].m # "ChannelCloseOk"

(* What the actions do to the registry. *)
registry == <<channels, channel_id, connection, used>>

\* Object 0 is the connection and not a channel.
LEMMA ObjFacts == 0 \in Obj /\ Chan \subseteq Obj /\ 0 \notin Chan
  BY SpecAssumption DEF Obj, Chan

\* A step that leaves the registry alone preserves IdsConsistent.
LEMMA SameIds ==
  ASSUME IdsConsistent, UNCHANGED registry
  PROVE  IdsConsistent'
  BY DEF IdsConsistent, registry

-----------------------------------------------------------------------------
(* What the broker sends on channel 0.                                     *)

\* Reading a method preserves NoChannelZero.
LEMMA ZeroTail ==
  ASSUME NEW q \in Seq(Message), q # <<>>, NoChannelZero(q)
  PROVE  NoChannelZero(Tail(q))
  <1>1. /\ Len(Tail(q)) = Len(q) - 1 /\ Len(q) \in Nat
        /\ \A i \in 1 .. Len(Tail(q)) : Tail(q)[i] = q[i + 1]
    BY HeadTailProperties, LenProperties
  <1>2. ASSUME NEW i \in 1 .. Len(Tail(q)), Tail(q)[i].ch = 0
        PROVE  Tail(q)[i].m # "ChannelCloseOk"
    <2>1. i + 1 \in 1 .. Len(q) /\ Tail(q)[i] = q[i + 1]
      BY <1>1
    <2> QED BY <1>2, <2>1 DEF NoChannelZero
  <1> QED BY <1>2 DEF NoChannelZero

\* Sending methods that satisfy NoChannelZero preserves it.
LEMMA ZeroConcat ==
  ASSUME NEW q \in Seq(Message), NoChannelZero(q), NEW ms \in Seq(Message), NoChannelZero(ms)
  PROVE  NoChannelZero(q \o ms)
  <1>1. /\ Len(q \o ms) = Len(q) + Len(ms) /\ Len(q) \in Nat /\ Len(ms) \in Nat
        /\ \A i \in 1 .. Len(q) + Len(ms) :
             (q \o ms)[i] = IF i <= Len(q) THEN q[i] ELSE ms[i - Len(q)]
    BY ConcatProperties, LenProperties
  <1>2. ASSUME NEW i \in 1 .. Len(q \o ms), (q \o ms)[i].ch = 0
        PROVE  (q \o ms)[i].m # "ChannelCloseOk"
    <2>1. CASE i <= Len(q)
      <3>1. i \in 1 .. Len(q) /\ (q \o ms)[i] = q[i]
        BY <1>1, <2>1
      <3> QED BY <1>2, <3>1 DEF NoChannelZero
    <2>2. CASE ~(i <= Len(q))
      <3>1. i - Len(q) \in 1 .. Len(ms) /\ (q \o ms)[i] = ms[i - Len(q)]
        BY <1>1, <2>2
      <3> QED BY <1>2, <3>1 DEF NoChannelZero
    <2> QED BY <2>1, <2>2
  <1> QED BY <1>2 DEF NoChannelZero

\* NoChannelZero of a single method.
LEMMA ZeroOne ==
  ASSUME NEW x \in Message, x.ch = 0 => x.m # "ChannelCloseOk"
  PROVE  <<x>> \in Seq(Message) /\ NoChannelZero(<<x>>)
  BY DEF NoChannelZero

\* NoChannelZero of no method.
LEMMA ZeroNone == <<>> \in Seq(Message) /\ NoChannelZero(<<>>)
  BY DEF NoChannelZero

\* A reply of the broker satisfies NoChannelZero.
LEMMA ZeroReply ==
  ASSUME TypeOK, NEW id \in Ids0, toServer[id] # <<>>, NEW m \in Methods,
         id = 0 => m # "ChannelCloseOk"
  PROVE  /\ Reply(id, m) \in Message
         /\ <<Reply(id, m)>> \in Seq(Message) /\ NoChannelZero(<<Reply(id, m)>>)
  <1>1. Reply(id, m) \in Message
    BY ReplyType
  <1>2. Reply(id, m).ch = id /\ Reply(id, m).m = m
    BY DEF Reply, Msg
  <1> QED BY <1>1, <1>2, ZeroOne

\* The broker handling a method preserves NoChannelZero if its answer
\* satisfies it.
LEMMA ZeroReceives ==
  ASSUME TypeOK, NoChannelZero(toClient), NEW id, NEW ms \in Seq(Message),
         NoChannelZero(ms), Receives(id, ms)
  PROVE  NoChannelZero(toClient')
  BY ZeroConcat DEF Receives, TypeOK, AbstractChannelTypeOK

\* An event of the broker preserves NoChannelZero if its method satisfies it.
LEMMA ZeroHappens ==
  ASSUME TypeOK, NoChannelZero(toClient), NEW m, NEW x \in Message,
         x.ch = 0 => x.m # "ChannelCloseOk", Happens(m, x)
  PROVE  NoChannelZero(toClient')
  <1>1. toClient \in Seq(Message) /\ toClient' = Append(toClient, x)
    BY DEF TypeOK, AbstractChannelTypeOK, Happens
  <1>2. /\ Len(toClient') = Len(toClient) + 1 /\ Len(toClient) \in Nat
        /\ \A i \in 1 .. Len(toClient) : toClient'[i] = toClient[i]
        /\ toClient'[Len(toClient) + 1] = x
    BY <1>1, AppendProperties, LenProperties
  <1>3. ASSUME NEW i \in 1 .. Len(toClient'), toClient'[i].ch = 0
        PROVE  toClient'[i].m # "ChannelCloseOk"
    <2>1. CASE i \in 1 .. Len(toClient)
      BY <1>2, <1>3, <2>1 DEF NoChannelZero
    <2>2. CASE i = Len(toClient) + 1
      BY <1>2, <1>3, <2>2
    <2> QED BY <1>2, <2>1, <2>2
  <1> QED BY <1>3 DEF NoChannelZero

\* Every way the broker handles a method preserves NoChannelZero.
LEMMA ZeroBrokerReceives ==
  ASSUME TypeOK, NoChannelZero(toClient), BrokerReceives
  PROVE  NoChannelZero(toClient')
  <1>1. 0 \in Ids0 /\ 0 \notin Ids /\ Ids \subseteq Ids0
    BY SpecAssumption DEF Ids, Ids0
  <1>2. ASSUME NEW id \in Ids, NEW m \in Replies, BrokerReplies(id, m)
        PROVE  NoChannelZero(toClient')
    <2>1. /\ Receives(id, IF Received(id).nowait THEN <<>> ELSE <<Reply(id, m)>>)
          /\ toServer[id] # <<>> /\ id \in Ids0 /\ id # 0 /\ m \in Methods
      BY <1>1, <1>2, MethodsFacts DEF BrokerReplies
    <2> QED BY <2>1, ZeroReply, ZeroNone, ZeroReceives
  <1>3. ASSUME NEW id \in Ids, BrokerAccepts(id) \/ BrokerDrops(id)
        PROVE  NoChannelZero(toClient')
    BY <1>3, ZeroNone, ZeroReceives DEF BrokerAccepts, BrokerDrops
  <1>4. ASSUME NEW id \in Ids, NEW t \in Tags, BrokerConsumes(id, t)
        PROVE  NoChannelZero(toClient')
    <2> DEFINE ok == [Reply(id, "BasicConsumeOk") EXCEPT !.tag = t]
    <2>1. /\ Receives(id, IF Received(id).nowait THEN <<>> ELSE <<ok>>)
          /\ toServer[id] # <<>> /\ id \in Ids0
      BY <1>1, <1>4 DEF BrokerConsumes
    <2>2. Reply(id, "BasicConsumeOk") \in Message
      BY <2>1, ReplyType, RepliesFacts, MethodsFacts
    <2>3. ok \in Message
      BY <2>2, MessageUpdate
    <2>4. ok.m # "ChannelCloseOk"
      BY DEF Reply, Msg
    <2> HIDE DEF ok
    <2> QED BY <2>1, <2>3, <2>4, ZeroOne, ZeroNone, ZeroReceives
  <1>5. ASSUME NEW id \in Ids, NEW returned \in BOOLEAN, NEW m \in {"BasicAck", "BasicNack"},
               BrokerPublishes(id, returned, m)
        PROVE  NoChannelZero(toClient')
    <2> DEFINE a == IF returned THEN <<Reply(id, "BasicReturn")>> ELSE <<>>
               b == IF bconfirm[id] THEN <<Reply(id, m)>> ELSE <<>>
    <2>1. Receives(id, a \o b) /\ toServer[id] # <<>> /\ id \in Ids0
      BY <1>1, <1>5 DEF BrokerPublishes
    <2>2. "BasicReturn" \in Methods /\ m \in Methods
      BY RepliesFacts, MethodsFacts DEF Methods, Async
    <2>3. a \in Seq(Message) /\ NoChannelZero(a)
      BY <2>1, <2>2, ZeroReply, ZeroNone
    <2>4. b \in Seq(Message) /\ NoChannelZero(b)
      BY <2>1, <2>2, ZeroReply, ZeroNone
    <2> HIDE DEF a, b
    <2>5. a \o b \in Seq(Message)
      BY <2>3, <2>4, ConcatProperties
    <2>6. NoChannelZero(a \o b)
      BY <2>3, <2>4, ZeroConcat
    <2> QED BY <2>1, <2>5, <2>6, ZeroReceives
  <1>6. ASSUME NEW id \in Ids, BrokerOpens(id) \/ BrokerCloses(id)
        PROVE  NoChannelZero(toClient')
    <2>1. PICK m \in {"ChannelOpenOk", "ChannelCloseOk"} :
            Receives(id, <<Reply(id, m)>>) /\ toServer[id] # <<>>
      BY <1>6 DEF BrokerOpens, BrokerCloses
    <2>2. id \in Ids0 /\ id # 0 /\ m \in Methods
      BY <1>1, RepliesFacts, MethodsFacts
    <2> QED BY <2>1, <2>2, ZeroReply, ZeroReceives
  <1>7. ASSUME NEW id \in Ids, BrokerFails(id) PROVE NoChannelZero(toClient')
    <2> DEFINE x == Msg(0, "ConnectionClose", 0)
    <2>1. x \in Message /\ x.m # "ChannelCloseOk"
      BY <1>1, MsgType, MethodsFacts DEF Msg
    <2>2. Receives(id, <<x>>)
      BY <1>7 DEF BrokerFails
    <2> HIDE DEF x
    <2> QED BY <2>1, <2>2, ZeroOne, ZeroReceives
  <1>8. CASE BrokerDisconnects
    <2>1. /\ Receives(0, IF Received(0).m = "ConnectionClose"
                         THEN <<Reply(0, "ConnectionCloseOk")>> ELSE <<>>)
          /\ toServer[0] # <<>>
      BY <1>8 DEF BrokerDisconnects
    <2>2. "ConnectionCloseOk" \in Methods
      BY RepliesFacts, MethodsFacts
    <2> QED BY <1>1, <2>1, <2>2, ZeroReply, ZeroNone, ZeroReceives
  <1> QED BY <1>2, <1>3, <1>4, <1>5, <1>6, <1>7, <1>8 DEF BrokerReceives

\* Every event of the broker or the socket preserves NoChannelZero.
LEMMA ZeroBrokerEvent ==
  ASSUME TypeOK, NoChannelZero(toClient), BrokerEvent
  PROVE  NoChannelZero(toClient')
  <1>1. Ids \subseteq Ids0 /\ 0 \in Ids0 /\ 0 \in Nat
    BY SpecAssumption DEF Ids, Ids0
  <1>2. ASSUME NEW id \in Ids, NEW t \in Tags, BrokerDelivers(id, t) \/ BrokerCancels(id, t)
        PROVE  NoChannelZero(toClient')
    <2>1. PICK m \in {"BasicDeliver", "BasicCancel"} :
            Happens(m, [Msg(id, m, bcons[id][t].rid) EXCEPT !.tag = t])
      BY <1>2 DEF BrokerDelivers, BrokerCancels
    <2>2. bcons[id][t].rid \in Nat /\ m \in Methods /\ id \in Ids0
      BY <1>1, MethodsFacts DEF TypeOK, BrokerTypeOK, Methods, Async
    <2> DEFINE x == [Msg(id, m, bcons[id][t].rid) EXCEPT !.tag = t]
    <2>3. x \in Message
      BY <2>2, MsgType, MessageUpdate
    <2>4. x.m # "ChannelCloseOk"
      BY DEF Msg
    <2> HIDE DEF x
    <2> QED BY <2>1, <2>3, <2>4, ZeroHappens DEF x
  <1>3. ASSUME NEW id \in Ids0,
               NEW m \in {"ChannelFlow", "ChannelClose", "ConnectionBlocked",
                          "ConnectionUnblocked", "ConnectionClose"},
               Happens(m, Msg(id, m, 0))
        PROVE  NoChannelZero(toClient')
    <2>1. m \in Methods
      BY MethodsFacts DEF Methods, Async
    <2>2. Msg(id, m, 0) \in Message /\ Msg(id, m, 0).m = m
      BY <1>1, <2>1, MsgType DEF Msg
    <2> QED BY <1>3, <2>2, ZeroHappens
  <1>4. ASSUME NEW n \in 0 .. Len(toClient), SocketBreaks(n) PROVE NoChannelZero(toClient')
    <2>1. toClient \in Seq(Message) /\ toClient' = SubSeq(toClient, 1, n)
      BY <1>4 DEF TypeOK, AbstractChannelTypeOK, SocketBreaks
    <2>2. Len(toClient') = n /\ (\A i \in 1 .. n : toClient'[i] = toClient[i])
          /\ Len(toClient) \in Nat
      BY <2>1, PrefixType, LenProperties
    <2> QED BY <2>2 DEF NoChannelZero
  <1> QED BY <1>1, <1>2, <1>3, <1>4 DEF BrokerEvent, BrokerFlows, BrokerClosesChannel,
             BrokerBlocks, BrokerClosesConnection

\* The client reads from the front of its queue, and does not write to itself.
LEMMA ClientReads ==
  ASSUME AppCall \/ LibraryStep \/ CallbackEnds \/ TimesOut
  PROVE  UNCHANGED toClient \/ Takes
  <1>1. ASSUME NEW c, ChannelCall(c) PROVE UNCHANGED toClient
    <2>1. ASSUME NEW req, NEW on, NEW op, Invoke(c, req, on, op) PROVE UNCHANGED toClient
      BY <2>1 DEF Invoke
    <2>2. ASSUME NEW m, NEW nowait, Simple(c, m, nowait) \/ SimplePost(c, m)
          PROVE  UNCHANGED toClient
      BY <2>1, <2>2 DEF Simple, SimplePost, Rpc, Post
    <2>3. ASSUME NEW t, NEW nowait, basic_cancel(c, t, nowait) PROVE UNCHANGED toClient
      BY <2>1, <2>3 DEF basic_cancel
    <2>4. ASSUME NEW t, NEW nowait, NEW no_ack, basic_consume(c, t, nowait, no_ack)
          PROVE  UNCHANGED toClient
      BY <2>1, <2>4 DEF basic_consume
    <2>5. ASSUME basic_publish(c) \/ Channel_open(c) \/ Channel_close(c)
          PROVE  UNCHANGED toClient
      BY <2>1, <2>5 DEF basic_publish, Channel_open, Channel_close
    <2> QED BY <1>1, <2>2, <2>3, <2>4, <2>5 DEF ChannelCall, exchange_declare,
            exchange_delete, exchange_bind, exchange_unbind, queue_declare,
            queue_bind, queue_unbind, queue_delete, queue_purge, confirm_select,
            flow, basic_get, basic_qos, tx_select, tx_commit, tx_rollback,
            basic_recover, basic_recover_async, basic_ack, basic_reject
  <1>2. AppCall => UNCHANGED toClient
    BY <1>1 DEF AppCall, channel, NewChannel, NoChannel, drain_events, Connection_close
  <1>3. BaseStep => UNCHANGED toClient \/ Takes
    BY DEF BaseStep, ReturnPlain, ConnectionGone, UnwindPlain, UnwindCallback,
       CallbackCatch, Raised, Discard, UnknownChannel, ReadFails, OnReply, Dispatches
  <1>4. ChannelStep => UNCHANGED toClient \/ Takes
    BY DEF ChannelStep, Channel_on_open_ok, Channel_on_close_ok, Channel_on_close,
       on_flow, on_basic_cancel_ok, on_basic_cancel, on_basic_deliver,
       on_basic_ack, on_basic_nack, on_basic_return, CloseReturns, ReviveReturns,
       ConsumeReturns, SelectReturns, PublishWrites, Dispatches
  <1>5. ConnectionStep => UNCHANGED toClient \/ Takes
    BY DEF ConnectionStep, Connection_on_close_ok, Connection_on_close, on_blocked,
       ConnectionCloseReturns, Dispatches
  <1>6. CallbackEnds \/ TimesOut => UNCHANGED toClient
    BY DEF CallbackEnds, CallbackReturns, TimesOut, ReadTimesOut
  <1> QED BY <1>2, <1>3, <1>4, <1>5, <1>6 DEF LibraryStep

\* NoChannelZero is preserved by what the client does.
LEMMA ZeroClient ==
  ASSUME TypeOK, NoChannelZero(toClient),
         AppCall \/ LibraryStep \/ CallbackEnds \/ TimesOut
  PROVE  NoChannelZero(toClient')
  <1>1. CASE UNCHANGED toClient
    BY <1>1
  <1>2. CASE Takes
    BY <1>2, ZeroTail DEF Takes, TypeOK, AbstractChannelTypeOK
  <1> QED BY <1>1, <1>2, ClientReads

\* NoChannelZero is inductive, given TypeOK.
LEMMA ZeroNext ==
  ASSUME TypeOK, NoChannelZero(toClient), [Next]_vars
  PROVE  NoChannelZero(toClient')
  BY ZeroClient, ZeroBrokerReceives, ZeroBrokerEvent DEF Next, BrokerStep, Idle, vars

-----------------------------------------------------------------------------
(* The registry.                                                           *)

(* The finally clause of close() cuts a channel off. *)
LEMMA CutIds ==
  ASSUME AbstractChannelTypeOK, IdsConsistent, NEW c \in Obj, c # 0,
         connection' = [connection EXCEPT ![c] = FALSE],
         UNCHANGED <<channels, channel_id, used>>
  PROVE  IdsConsistent'
  <1>1. connection'[0] = connection[0]
    BY ObjFacts DEF AbstractChannelTypeOK
  <1>2. \A d \in Chan : connection'[d] => connection[d]
    BY ObjFacts DEF AbstractChannelTypeOK
  <1> QED BY <1>1, <1>2 DEF IdsConsistent

\* Channel.collect of a channel preserves IdsConsistent.
LEMMA ChannelCollectIds ==
  ASSUME TypeOK, IdsConsistent, NEW c \in Chan, Channel_collect(c)
  PROVE  IdsConsistent'
  <1> USE DEF TypeOK
  <1>0. c \in Obj /\ c # 0 /\ Chan \subseteq Obj /\ 0 \in Obj
    BY SpecAssumption DEF Chan, Obj
  <1>1. connection'[0] = connection[0]
    BY <1>0 DEF AbstractChannelTypeOK, Channel_collect
  <1>2. \A d \in Chan : connection'[d] => connection[d] /\ d # c
    BY <1>0 DEF AbstractChannelTypeOK, Channel_collect
  <1>3. \A d \in Chan : d # c => channel_id'[d] = channel_id[d]
    BY <1>0 DEF AbstractChannelTypeOK, Channel_collect, Cleared
  <1>4. Freed({c}) = IF connection[c] THEN {channel_id[c]} ELSE {}
    BY DEF Freed
  <1>5. CASE connection[c]
    <2>1. channel_id[c] \in Ids /\ channels[channel_id[c]] = c /\ connection[0]
      BY <1>5 DEF IdsConsistent
    <2>2. channels' = [id \in Ids |-> IF id = channel_id[c] THEN 0 ELSE channels[id]]
      BY <1>4, <1>5 DEF Channel_collect
    <2>3. used' = used \ {channel_id[c]}
      BY <1>4, <1>5 DEF Channel_collect
    <2>4. used' = {id \in Ids : channels'[id] # 0}
      BY <2>1, <2>2, <2>3 DEF IdsConsistent
    <2>5. ASSUME NEW d \in Chan, connection'[d]
          PROVE  connection'[0] /\ channel_id'[d] \in Ids /\ channels'[channel_id'[d]] = d
      <3>1. connection[d] /\ d # c /\ channel_id'[d] = channel_id[d]
        BY <1>2, <1>3, <2>5
      <3>2. connection[0] /\ channel_id[d] \in Ids /\ channels[channel_id[d]] = d
        BY <3>1 DEF IdsConsistent
      <3> QED BY <1>1, <2>1, <2>2, <3>1, <3>2
    <2> QED BY <1>1, <2>1, <2>4, <2>5 DEF IdsConsistent
  <1>6. CASE ~connection[c]
    <2>1. UNCHANGED <<channels, used>>
      BY <1>4, <1>6 DEF Channel_collect, AbstractChannelTypeOK
    <2> QED BY <1>1, <1>2, <1>3, <2>1 DEF IdsConsistent
  <1> QED BY <1>5, <1>6

\* Connection.collect preserves IdsConsistent: it empties the registry.
LEMMA ConnectionCollectIds ==
  ASSUME TypeOK, IdsConsistent, Connection_collect
  PROVE  IdsConsistent'
  <1> USE DEF TypeOK
  <1> DEFINE S == {channels[id] : id \in Ids} \ {0}
  <1>0. Chan \subseteq Obj /\ 0 \in Obj /\ 0 \notin Chan
    BY SpecAssumption DEF Chan, Obj
  <1>1. connection' = [c \in Obj |-> c \notin S \cup {0} /\ connection[c]]
        /\ channels' = [id \in Ids |-> 0]
    BY DEF Connection_collect
  <1>2. ~connection'[0]
    BY <1>0, <1>1
  <1>3. \A c \in Chan : ~connection'[c]
    <2>1. ASSUME NEW c \in Chan, connection[c] PROVE c \in S
      BY <1>0, <2>1 DEF IdsConsistent
    <2> QED BY <1>0, <1>1, <2>1
  <1> QED BY <1>1, <1>2, <1>3 DEF IdsConsistent

\* Creating a channel under an id that is free preserves IdsConsistent.
LEMMA NewChannelIds ==
  ASSUME TypeOK, IdsConsistent, connection[0], NEW id \in Ids \ used, NewChannel(id)
  PROVE  IdsConsistent'
  <1> USE DEF TypeOK
  <1> DEFINE c == created + 1
  <1>0. c \in Chan /\ Chan \subseteq Obj /\ c # 0
    BY SpecAssumption DEF NewChannel, Chan, Obj
  <1>1. /\ used' = used \cup {id}
        /\ channels' = [channels EXCEPT ![id] = c]
        /\ channel_id' = [channel_id EXCEPT ![c] = id]
        /\ connection' = [connection EXCEPT ![c] = TRUE]
    BY DEF NewChannel
  <1> HIDE DEF c
  <1>2. connection'[0]
    BY <1>0, <1>1, SpecAssumption DEF AbstractChannelTypeOK, Obj
  <1>3. used = {k \in Ids : channels[k] # 0}
    BY DEF IdsConsistent
  <1>4. used' = {k \in Ids : channels'[k] # 0}
    BY <1>0, <1>1, <1>3 DEF AbstractChannelTypeOK
  <1>5. ASSUME NEW d \in Chan, connection'[d]
        PROVE  channel_id'[d] \in Ids /\ channels'[channel_id'[d]] = d
    <2>1. CASE d = c
      BY <1>0, <1>1, <2>1 DEF AbstractChannelTypeOK
    <2>2. CASE d # c
      <3>1. connection[d] /\ channel_id'[d] = channel_id[d]
        BY <1>0, <1>1, <1>5, <2>2 DEF AbstractChannelTypeOK
      <3>2. channel_id[d] \in Ids /\ channels[channel_id[d]] = d /\ d # 0
        BY <3>1 DEF IdsConsistent, Chan
      <3>3. channel_id[d] # id
        BY <1>3, <3>2
      <3> QED BY <1>1, <3>1, <3>2, <3>3 DEF AbstractChannelTypeOK
    <2> QED BY <2>1, <2>2
  <1> QED BY <1>2, <1>4, <1>5 DEF IdsConsistent

\* Every public method of a channel preserves IdsConsistent.
LEMMA ChannelCallIds ==
  ASSUME TypeOK, IdsConsistent, NEW c \in Chan, ChannelCall(c)
  PROVE  IdsConsistent'
  <1>0. c \in Obj /\ c # 0
    BY DEF Chan, Obj
  <1>1. ASSUME NEW req, NEW on, NEW op, Invoke(c, req, on, op)
        PROVE  UNCHANGED <<channels, channel_id, connection>>
    BY <1>1 DEF Invoke
  <1>2. ASSUME NEW m, NEW nowait, Simple(c, m, nowait) \/ SimplePost(c, m)
        PROVE  UNCHANGED registry
    BY <1>1, <1>2 DEF Simple, SimplePost, Rpc, Post, registry, chanVars
  <1>3. ASSUME NEW t, NEW nowait, basic_cancel(c, t, nowait) PROVE UNCHANGED registry
    BY <1>1, <1>3 DEF basic_cancel, registry
  <1>4. ASSUME NEW t, NEW nowait, NEW no_ack, basic_consume(c, t, nowait, no_ack)
        PROVE  UNCHANGED registry
    BY <1>1, <1>4 DEF basic_consume, registry
  <1>5. ASSUME basic_publish(c) \/ Channel_open(c)
        PROVE  UNCHANGED registry
    BY <1>1, <1>5 DEF basic_publish, Channel_open, registry, chanVars
  <1>6. CASE Channel_close(c)
    <2>1. UNCHANGED <<channels, channel_id, used>>
      BY <1>6 DEF Channel_close, chanVars
    <2>2. UNCHANGED connection \/ connection' = [connection EXCEPT ![c] = FALSE]
      BY <1>6 DEF Channel_close, CloseFinally
    <2> QED BY <1>0, <2>1, <2>2, SameIds, CutIds DEF registry, TypeOK
  <1>7. Channel_close(c) \/ UNCHANGED registry
    BY <1>2, <1>3, <1>4, <1>5 DEF ChannelCall, exchange_declare,
       exchange_delete, exchange_bind, exchange_unbind, queue_declare,
       queue_bind, queue_unbind, queue_delete, queue_purge, confirm_select,
       flow, basic_get, basic_qos, tx_select, tx_commit, tx_rollback,
       basic_recover, basic_recover_async, basic_ack, basic_reject
  <1> QED BY <1>6, <1>7, SameIds

\* Every call of the application preserves IdsConsistent.
LEMMA AppCallIds ==
  ASSUME TypeOK, IdsConsistent, AppCall
  PROVE  IdsConsistent'
  <1>1. ASSUME NEW c \in 1 .. created, ChannelCall(c) PROVE IdsConsistent'
    <2>1. c \in Chan
      BY SpecAssumption DEF TypeOK, Chan
    <2> QED BY <1>1, <2>1, ChannelCallIds
  <1>2. ASSUME NEW id \in ExplicitIds, channel(id) PROVE IdsConsistent'
    <2>1. ASSUME NEW e, NoChannel(e) PROVE IdsConsistent'
      BY <2>1, SameIds DEF NoChannel, registry, chanVars
    <2>2. id # 0 => id \in Ids
      BY ConnectionAssumption, SpecAssumption DEF Ids, Ids0
    <2> QED BY <1>2, <2>1, <2>2, FreeIdType, NewChannelIds DEF channel
  <1>3. CASE drain_events
    BY <1>3, SameIds DEF drain_events, registry, chanVars
  <1>4. CASE Connection_close
    BY <1>4, SameIds, ConnectionCollectIds DEF Connection_close, registry
  <1> QED BY <1>1, <1>2, <1>3, <1>4 DEF AppCall

\* Every step of the library preserves IdsConsistent.
LEMMA LibraryStepIds ==
  ASSUME TypeOK, StackOK(pending, stack), NoChannelZero(toClient), IdsConsistent,
         LibraryStep
  PROVE  IdsConsistent'
  <1>1. BaseStep => UNCHANGED registry
    BY DEF BaseStep, ReturnPlain, ConnectionGone, UnwindPlain, UnwindCallback,
       CallbackCatch, Raised, Discard, UnknownChannel, ReadFails, OnReply,
       registry, chanVars
  <1>2. ChannelStep => UNCHANGED registry \/ CloseReturns \/ Channel_on_close_ok
    BY DEF ChannelStep, Channel_on_open_ok, Channel_on_close,
       on_flow, on_basic_cancel_ok, on_basic_cancel, on_basic_deliver,
       on_basic_ack, on_basic_nack, on_basic_return, ReviveReturns,
       ConsumeReturns, SelectReturns, PublishWrites, registry, chanVars
  <1>3. ConnectionStep => UNCHANGED registry \/ Connection_collect
    BY DEF ConnectionStep, Connection_on_close_ok, Connection_on_close, on_blocked,
       ConnectionCloseReturns, CloseFails, registry, chanVars
  <1>4. CASE CloseReturns
    <2>1. stack \in Seq(Frame) /\ stack # <<>> /\ Top.op = "close"
      BY <1>4 DEF CloseReturns, Returns, Unwinds, TypeOK, AbstractChannelTypeOK
    <2>2. Top \in Frame /\ Len(stack) \in 1 .. Len(stack)
      BY <2>1, TopType
    <2>3. Top.ch \in Obj /\ Top.ch # 0
      BY <2>1, <2>2 DEF StackOK, FramesOK, Top, Frame
    <2>4. /\ connection' = [connection EXCEPT ![Top.ch] = FALSE]
          /\ UNCHANGED <<channels, channel_id, used>>
      BY <1>4 DEF CloseReturns, CloseFinally, chanVars
    <2> QED BY <2>3, <2>4, CutIds DEF TypeOK
  <1>5. CASE Channel_on_close_ok
    <2>1. Takes /\ In.m = "ChannelCloseOk" /\ (In.ch # 0 => Target # 0)
      BY <1>5 DEF Channel_on_close_ok, Dispatches
    <2>2. toClient \in Seq(Message) /\ toClient # <<>>
      BY <2>1 DEF Takes, TypeOK, AbstractChannelTypeOK
    <2>3. In = toClient[1] /\ 1 \in 1 .. Len(toClient)
      BY <2>2, EmptySeq DEF In
    <2>4. In.ch # 0
      BY <2>1, <2>3 DEF NoChannelZero
    <2>5. Target \in Chan
      BY <2>1, <2>4, InType DEF TypeOK, Chan, Obj
    <2> QED BY <1>5, <2>5, ChannelCollectIds DEF Channel_on_close_ok
  <1> QED BY <1>1, <1>2, <1>3, <1>4, <1>5, SameIds, ConnectionCollectIds DEF LibraryStep

\* IdsConsistent is inductive together with TypeOK, StackOK and
\* NoChannelZero.
LEMMA IdsNext ==
  ASSUME TypeOK, StackOK(pending, stack), NoChannelZero(toClient), IdsConsistent, [Next]_vars
  PROVE  IdsConsistent'
  <1>1. CASE CallbackEnds \/ TimesOut
    BY <1>1, SameIds DEF CallbackEnds, CallbackReturns, TimesOut, ReadTimesOut,
       registry, chanVars
  <1>2. CASE BrokerStep
    BY <1>2, BrokerKeepsClient, SameIds DEF clientVars, chanVars, registry
  <1>3. CASE UNCHANGED vars
    BY <1>3, SameIds DEF vars, clientVars, chanVars, registry
  <1> QED BY <1>1, <1>2, <1>3, AppCallIds, LibraryStepIds DEF Next, Idle

\* IdsConsistent and NoChannelZero hold initially.
LEMMA IdsInit == Init => IdsConsistent /\ NoChannelZero(toClient)
  <1> SUFFICES ASSUME Init PROVE IdsConsistent /\ NoChannelZero(toClient)
    OBVIOUS
  <1>1. connection = [c \in Obj |-> c = 0] /\ channels = [id \in Ids |-> 0] /\ used = {}
    BY DEF Init
  <1>2. connection[0] /\ \A c \in Chan : ~connection[c]
    BY <1>1, ObjFacts
  <1>3. used = {id \in Ids : channels[id] # 0}
    BY <1>1
  <1>4. NoChannelZero(toClient)
    BY DEF Init, NoChannelZero
  <1> QED BY <1>2, <1>3, <1>4 DEF IdsConsistent

(***************************************************************************)
(* For every channel_max, every number of channels opened and closed, and  *)
(* every way calls are interrupted: the ids in use are the registered      *)
(* ones, every channel object that can still send is the one registered    *)
(* under its id, so no two of them share an id (_get_free_channel_id,      *)
(* _claim_channel_id, collect), and none is left once the connection has   *)
(* been collected.                                                         *)
(***************************************************************************)
THEOREM IdsCorrect == Spec => []IdsConsistent
  <1>1. /\ TypeOK /\ StackOK(pending, stack)
        /\ NoChannelZero(toClient) /\ IdsConsistent /\ [Next]_vars
        => (NoChannelZero(toClient) /\ IdsConsistent)'
    BY ZeroNext, IdsNext
  <1> QED BY <1>1, IdsInit, TypeCorrect, StackCorrect, PTL DEF Spec
=============================================================================
