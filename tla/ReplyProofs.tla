---------------------------- MODULE ReplyProofs -----------------------------
(***************************************************************************)
(* Proofs that the reply a call returns is the reply to its own request    *)
(* (ReplyMatches), and that a basic_publish of the confirming kind returns *)
(* when its own message is acknowledged (PublishedIsAcked), for every      *)
(* instance of module Connection.                                          *)
(*                                                                         *)
(* A call that is alone gets the reply to its own request because          *)
(* everything under way that can answer it, requests not handled yet and   *)
(* replies not read yet, carries its number (Pipe).  This is so as long as *)
(* the object the call was made on still has the id that the request was   *)
(* sent on (Owns): the replies of another object that got the id later go  *)
(* to that object.                                                         *)
(***************************************************************************)
EXTENDS CallProofs

(* The methods in a queue. *)
Items(q) == {q[i] : i \in 1 .. Len(q)}

(* In the registry r, object c is the one that methods with this id are    *)
(* dispatched to.                                                          *)
Owns(r, c, id) == IF id = 0 THEN c = 0 ELSE id \in Ids /\ c # 0 /\ r[id] = c

(* What is under way and can answer f has the number of its request. *)
Pipe(f) ==
  /\ \A y \in Items(toServer[f.req.ch]) :
       Expected(y) \cap f.on # {} => y.rid = f.req.rid
  /\ \A y \in Items(toClient) :
       y.ch = f.req.ch /\ y.m \in f.on => y.rid = f.req.rid

(* The invariant of a frame. *)
Matched(f) ==
  /\ f.op = "confirm" => f.on = {"BasicAck", "BasicNack"}
  /\ f.on \cap {"BasicAck", "BasicNack"} # {} => ConfirmPublish
  /\ f.op = "publish" => f.req.m = "BasicPublish" /\ ~f.req.nowait
  /\ f.op \in WaitOps \cup {"publish"} =>
       f.ch <= created /\ \A id \in Ids0 : Owns(channels, f.ch, id) => f.req.ch = id
  /\ f.op \in WaitOps /\ f.ready =>
       f.got.m \in f.on /\ f.got.m # "BasicNack" /\ (f.alone => f.got.rid = f.req.rid)
  /\ f.op \in WaitOps /\ f.alone /\ Owns(channels, f.ch, f.req.ch) => Pipe(f)

RepliesOK ==
  \A i \in 1 .. Len(stack) :
    /\ Matched(stack[i])
    /\ stack[i].shot # 0 /\ stack[stack[i].shot].alone =>
         stack[i].req.rid = stack[stack[i].shot].req.rid

(* Requests that are always answered, and the one for channel 0 only. *)
Firm == {"ChannelOpen", "ChannelClose", "BasicPublish", "ConnectionClose"}

ItemOK(x, id) == /\ x.nowait => x.m \notin Firm
                 /\ x.m = "ConnectionClose" => id = 0

ItemsOK ==
  /\ \A id \in Ids0 : \A x \in Items(toServer[id]) : ItemOK(x, id)
  /\ \A x \in Items(toClient) : x.m = "ConnectionCloseOk" => x.ch = 0

(* No object is registered twice, and none that has not been created. *)
RegistryOK ==
  /\ channel_id[0] = 0
  /\ \A id \in Ids : channels[id] <= created
  /\ \A id, k \in Ids : channels[id] # 0 /\ channels[id] = channels[k] => id = k

-----------------------------------------------------------------------------
(* The elements of the queues.                                             *)

\* The elements of a queue of methods are methods.
LEMMA ItemsType ==
  ASSUME NEW q \in Seq(Message), NEW x \in Items(q)
  PROVE  x \in Message
  BY ElementOfSeq DEF Items

\* What is appended to a queue.
LEMMA ItemsConcat ==
  ASSUME NEW q \in Seq(Message), NEW ms \in Seq(Message), NEW x \in Items(q \o ms)
  PROVE  x \in Items(q) \/ x \in Items(ms)
  <1>1. /\ Len(q \o ms) = Len(q) + Len(ms) /\ Len(q) \in Nat /\ Len(ms) \in Nat
        /\ \A i \in 1 .. Len(q) + Len(ms) :
             (q \o ms)[i] = IF i <= Len(q) THEN q[i] ELSE ms[i - Len(q)]
    BY ConcatProperties, LenProperties
  <1>2. PICK i \in 1 .. Len(q) + Len(ms) : x = (q \o ms)[i]
    BY <1>1 DEF Items
  <1>3. CASE i <= Len(q)
    BY <1>1, <1>2, <1>3 DEF Items
  <1>4. CASE i > Len(q)
    <2>1. i - Len(q) \in 1 .. Len(ms) /\ x = ms[i - Len(q)]
      BY <1>1, <1>2, <1>4
    <2> QED BY <2>1 DEF Items
  <1> QED BY <1>1, <1>3, <1>4

\* What remains of a queue, and what is taken from it.
LEMMA ItemsTail ==
  ASSUME NEW q \in Seq(Message), q # <<>>
  PROVE  Head(q) \in Items(q) /\ Items(Tail(q)) \subseteq Items(q)
  <1>1. /\ Len(Tail(q)) = Len(q) - 1 /\ Len(q) \in Nat \ {0}
        /\ \A i \in 1 .. Len(Tail(q)) : Tail(q)[i] = q[i + 1]
    BY HeadTailProperties, EmptySeq
  <1>2. Head(q) = q[1] /\ 1 \in 1 .. Len(q)
    BY <1>1
  <1>3. ASSUME NEW x \in Items(Tail(q)) PROVE x \in Items(q)
    <2>1. PICK i \in 1 .. Len(Tail(q)) : x = Tail(q)[i]
      BY <1>3 DEF Items
    <2>2. i + 1 \in 1 .. Len(q) /\ x = q[i + 1]
      BY <1>1, <2>1
    <2> QED BY <2>2 DEF Items
  <1> QED BY <1>2, <1>3 DEF Items

\* What is left of a queue that is cut off.
LEMMA ItemsCut ==
  ASSUME NEW q \in Seq(Message), NEW n \in 0 .. Len(q)
  PROVE  Items(SubSeq(q, 1, n)) \subseteq Items(q)
  <1>1. /\ Len(SubSeq(q, 1, n)) = n /\ Len(q) \in Nat
        /\ \A i \in 1 .. n : SubSeq(q, 1, n)[i] = q[i]
    BY PrefixType, LenProperties
  <1>2. 1 .. n \subseteq 1 .. Len(q)
    BY <1>1
  <1> QED BY <1>1, <1>2 DEF Items

\* An empty queue has no methods.
LEMMA ItemsNone == Items(<<>>) = {}
  BY DEF Items

\* The method of a queue of one.
LEMMA ItemsOne ==
  ASSUME NEW x \in Message, NEW y \in Items(<<x>>)
  PROVE  y = x
  BY DEF Items

\* The methods of a queue of two.
LEMMA ItemsTwo ==
  ASSUME NEW x \in Message, NEW z \in Message, NEW y \in Items(<<x, z>>)
  PROVE  y = x \/ y = z
  <1>1. PICK i \in 1 .. 2 : y = <<x, z>>[i]
    BY DEF Items
  <1>2. i = 1 \/ i = 2
    OBVIOUS
  <1> QED BY <1>1, <1>2

\* Nothing that a call waits for is under way when it is alone.
LEMMA NotOutstanding ==
  ASSUME AbstractChannelTypeOK, NEW c, NEW id \in Ids0, NEW on, ~Outstanding(c, id, on)
  PROVE  /\ \A y \in Items(toServer[id]) : Expected(y) \cap on = {}
         /\ \A y \in Items(toClient) : y.ch = id => y.m \notin on
  <1>1. toServer[id] \in Seq(Message) /\ toClient \in Seq(Message)
    BY DEF AbstractChannelTypeOK
  <1>2. DOMAIN toServer[id] = 1 .. Len(toServer[id]) /\ DOMAIN toClient = 1 .. Len(toClient)
    BY <1>1, LenProperties
  <1>3. ASSUME NEW y \in Items(toServer[id]) PROVE Expected(y) \cap on = {}
    <2>1. PICK i \in 1 .. Len(toServer[id]) : y = toServer[id][i]
      BY DEF Items
    <2> QED BY <1>2, <2>1 DEF Outstanding
  <1>4. ASSUME NEW y \in Items(toClient), y.ch = id PROVE y.m \notin on
    <2>1. PICK i \in 1 .. Len(toClient) : y = toClient[i]
      BY DEF Items
    <2> QED BY <1>2, <1>4, <2>1 DEF Outstanding
  <1> QED BY <1>3, <1>4

-----------------------------------------------------------------------------
(* The frames of a step: all but the last have been there before.          *)

Carried(i) == i \in 1 .. Len(stack) /\ Like(stack[i], stack'[i])

Fresh(i) ==
  LET f == stack'[i] IN
  /\ i = Len(stack') /\ Comes(f)
  /\ f.shot # 0 => /\ f.shot \in 1 .. Len(stack) /\ f.shot < i /\ Carried(f.shot)
                   /\ f.op = "callback" /\ f.req.m \in stack[f.shot].on
                   /\ Takes /\ f.req = In /\ Receiver(stack[f.shot].ch)

\* Every frame of the next state is carried over or fresh.
LEMMA FramesMove ==
  ASSUME AbstractChannelTypeOK, AbstractChannelTypeOK', Moved, NEW i \in 1 .. Len(stack')
  PROVE  Carried(i) \/ Fresh(i)
  <1>0. stack \in Seq(Frame) /\ stack' \in Seq(Frame) /\ Len(stack) \in Nat /\ Len(stack') \in Nat
    BY LenProperties DEF AbstractChannelTypeOK
  <1>1. CASE Stays(pending, stack, pending', stack')
    BY <1>1 DEF Stays, Carried
  <1>2. CASE Shrinks(pending, stack, pending', stack')
    BY <1>0, <1>2 DEF Shrinks, Carried
  <1>3. ASSUME NEW p, NEW s \in Seq(Frame), Grows(p, s, pending', stack'),
               Len(s) <= Len(stack), \A j \in 1 .. Len(s) : Like(stack[j], s[j])
        PROVE  Carried(i) \/ Fresh(i)
    <2> DEFINE f == stack'[Len(s) + 1]
    <2>0. Len(s) \in Nat
      BY LenProperties
    <2>1. /\ Len(stack') = Len(s) + 1
          /\ \A j \in 1 .. Len(s) : Like(s[j], stack'[j])
          /\ f.shot # 0 => /\ f.op = "callback" /\ f.shot \in 1 .. Len(s)
                           /\ f.req.m \in s[f.shot].on
                           /\ Takes /\ f.req = In /\ Receiver(s[f.shot].ch)
          /\ Comes(f)
      BY <1>3 DEF Grows
    <2>2. \A j \in 1 .. Len(s) : j \in 1 .. Len(stack) /\ Like(stack[j], stack'[j])
      BY <1>0, <1>3, <2>0, <2>1, LikeTrans
    <2>3. CASE i \in 1 .. Len(s)
      BY <2>2, <2>3 DEF Carried
    <2>4. CASE i = Len(s) + 1
      <3>1. f = stack'[i]
        BY <2>4
      <3> HIDE DEF f
      <3>2. ASSUME f.shot # 0
            PROVE  /\ f.shot \in 1 .. Len(stack) /\ f.shot < i /\ Carried(f.shot)
                   /\ f.op = "callback" /\ f.req.m \in stack[f.shot].on
                   /\ Takes /\ f.req = In /\ Receiver(stack[f.shot].ch)
        <4>1. f.shot \in 1 .. Len(s) /\ f.shot < i
          BY <2>0, <2>1, <2>4, <3>2
        <4>2. f.shot \in 1 .. Len(stack) /\ Carried(f.shot)
          BY <2>2, <4>1 DEF Carried
        <4>3. s[f.shot].on = stack[f.shot].on /\ s[f.shot].ch = stack[f.shot].ch
          BY <1>3, <4>1 DEF Like
        <4> QED BY <2>1, <3>2, <4>1, <4>2, <4>3
      <3> QED BY <2>1, <2>4, <3>1, <3>2 DEF Fresh
    <2> QED BY <1>0, <2>0, <2>1, <2>3, <2>4
  <1>4. CASE Grows(pending, stack, pending', stack')
    BY <1>0, <1>3, <1>4, LikeSelf
  <1>5. ASSUME NEW p \in PendingType, NEW s \in Seq(Frame),
               Stays(pending, stack, p, s) \/ Shrinks(pending, stack, p, s),
               Grows(p, s, pending', stack')
        PROVE  Carried(i) \/ Fresh(i)
    <2>1. Len(s) <= Len(stack) /\ \A j \in 1 .. Len(s) : Like(stack[j], s[j])
      BY <1>0, <1>5 DEF Stays, Shrinks
    <2> QED BY <1>3, <1>5, <2>1
  <1> QED BY <1>1, <1>2, <1>4, <1>5 DEF Moved

-----------------------------------------------------------------------------
(* What a step does to the queues and to the registry.                     *)

(* Nobody waits for an answer to x. *)
Silent(x) == Expected(x) = {} \/ (x.m = "BasicPublish" /\ ~ConfirmPublish)

(* Whoever waits on object c for an answer of the kind that x gets is not  *)
(* alone, or the one that sent x.                                          *)
Lonely(x, c) ==
  \A i \in 1 .. Len(stack') :
    stack'[i].ch = c /\ stack'[i].on \cap Expected(x) # {}
      => ~stack'[i].alone \/ stack'[i].req = x

(* What is sent is sent on the id of an object that has a connection. *)
Asked ==
  \A id \in Ids0 : \A x \in Items(toServer'[id]) :
    \/ x \in Items(toServer[id])
    \/ /\ ItemOK(x, id)
       /\ Silent(x) \/ \E c \in Obj : connection'[c] /\ id = channel_id'[c] /\ Lonely(x, c)

(* What the broker sends is a reply to something it has received, with its *)
(* number, or no reply.                                                    *)
Flowed ==
  \A x \in Items(toClient') :
    \/ x \in Items(toClient)
    \/ x.m \notin Replies
    \/ x.ch \in Ids0 /\ \E y \in Items(toServer[x.ch]) : x.m \in Expected(y) /\ x.rid = y.rid

(* Only a new object is registered. *)
RegMove ==
  /\ channel_id[0] = 0 => channel_id'[0] = 0
  /\ \/ created' = created /\ \A id \in Ids : channels'[id] \in {channels[id], 0}
     \/ /\ created' = created + 1
        /\ \E k \in Ids : channels' = [channels EXCEPT ![k] = created + 1]

\* The registry of the next state.
LEMMA RegistryNext ==
  ASSUME TypeOK, TypeOK', RegistryOK, RegMove
  PROVE  RegistryOK'
  <1>0. /\ created \in Nat /\ created' \in Nat /\ \A id \in Ids : channels[id] \in Nat
        /\ \A id \in Ids : channels[id] <= created
    BY SpecAssumption DEF TypeOK, AbstractChannelTypeOK, Obj, RegistryOK
  <1>1. CASE created' = created /\ \A id \in Ids : channels'[id] \in {channels[id], 0}
    <2>1. \A id \in Ids : channels'[id] <= created'
      BY <1>0, <1>1
    <2>2. \A id, k \in Ids : channels'[id] # 0 /\ channels'[id] = channels'[k] => id = k
      BY <1>0, <1>1 DEF RegistryOK
    <2> QED BY <2>1, <2>2 DEF RegistryOK, RegMove
  <1>2. ASSUME created' = created + 1, NEW n \in Ids,
               channels' = [channels EXCEPT ![n] = created + 1]
        PROVE  RegistryOK'
    <2>1. \A id \in Ids : channels'[id] = IF id = n THEN created + 1 ELSE channels[id]
      BY <1>2 DEF TypeOK, AbstractChannelTypeOK
    <2>2. \A id \in Ids : channels'[id] <= created'
      BY <1>0, <1>2, <2>1
    <2>3. \A id, k \in Ids : channels'[id] # 0 /\ channels'[id] = channels'[k] => id = k
      BY <1>0, <2>1 DEF RegistryOK
    <2> QED BY <2>2, <2>3 DEF RegistryOK, RegMove
  <1> QED BY <1>1, <1>2 DEF RegMove

\* An object that was there before has no new id.
LEMMA OwnsBefore ==
  ASSUME TypeOK, RegMove, NEW c \in Obj, c <= created
  PROVE  /\ c <= created'
         /\ \A id \in Ids0 : Owns(channels', c, id) => Owns(channels, c, id)
  <1>0. created \in Nat /\ c \in Nat /\ c <= created'
    BY SpecAssumption DEF TypeOK, Obj, RegMove
  <1>1. ASSUME NEW id \in Ids0, Owns(channels', c, id) PROVE Owns(channels, c, id)
    <2>1. CASE id = 0
      BY <1>1, <2>1 DEF Owns
    <2>2. CASE id # 0
      <3>1. id \in Ids /\ c # 0 /\ channels'[id] = c
        BY <1>1, <2>2 DEF Owns
      <3>2. CASE created' = created /\ \A k \in Ids : channels'[k] \in {channels[k], 0}
        BY <2>2, <3>1, <3>2 DEF Owns
      <3>3. ASSUME NEW k \in Ids, channels' = [channels EXCEPT ![k] = created + 1]
            PROVE  channels[id] = c
        BY <1>0, <3>1, <3>3 DEF TypeOK, AbstractChannelTypeOK
      <3> QED BY <2>2, <3>1, <3>2, <3>3 DEF RegMove, Owns
    <2> QED BY <2>1, <2>2
  <1> QED BY <1>0, <1>1

\* The object that sends on an id is the one that owns it.
LEMMA SenderOwns ==
  ASSUME TypeOK', IdsConsistent', RegistryOK', NEW c \in Obj, connection'[c]
  PROVE  /\ c <= created'
         /\ \A id \in Ids0 : Owns(channels', c, id) => id = channel_id'[c]
         /\ \A d : Owns(channels', d, channel_id'[c]) => d = c
  <1>1. 0 \notin Ids /\ Ids \subseteq Ids0 /\ created' \in Nat
    BY DEF Ids, Ids0, TypeOK
  <1>2. CASE c = 0
    BY <1>1, <1>2 DEF Owns, RegistryOK
  <1>3. CASE c # 0
    <2>1. c \in Chan
      BY <1>3 DEF Chan, Obj
    <2>2. channel_id'[c] \in Ids /\ channels'[channel_id'[c]] = c
      BY <2>1 DEF IdsConsistent
    <2>3. channel_id'[c] # 0
      BY <1>1, <2>2
    <2> QED BY <1>1, <1>3, <2>1, <2>2, <2>3 DEF Owns, RegistryOK
  <1> QED BY <1>2, <1>3

\* The reply that is read for a call that is alone has its number.
LEMMA ReadMatches ==
  ASSUME TypeOK, ItemsOK, Takes, NEW f \in Frame, Matched(f), f.op \in WaitOps, f.alone,
         In.m \in f.on, Receiver(f.ch)
  PROVE  In.rid = f.req.rid
  <1>1. In \in Message /\ In.ch \in Ids0
    BY InType DEF TypeOK
  <1>2. toClient \in Seq(Message) /\ toClient # <<>>
    BY DEF TypeOK, AbstractChannelTypeOK, Takes
  <1>3. In \in Items(toClient)
    BY <1>2, ItemsTail DEF In
  <1>4. Owns(channels, f.ch, In.ch)
    <2>1. CASE f.ch = Target /\ (In.ch # 0 => Target # 0)
      BY <1>1, <2>1 DEF Owns, Target, Ids, Ids0
    <2>2. CASE f.ch = 0 /\ In.m = "ConnectionCloseOk"
      BY <1>3, <2>2 DEF Owns, ItemsOK
    <2> QED BY <2>1, <2>2 DEF Receiver
  <1>5. f.req.ch = In.ch
    BY <1>1, <1>4 DEF Matched
  <1>6. Pipe(f)
    BY <1>4, <1>5 DEF Matched
  <1> QED BY <1>3, <1>5, <1>6 DEF Pipe

-----------------------------------------------------------------------------
(* The invariant of the replies, from what a step does.                    *)

\* What is under way after a step and can answer a frame has its number.
LEMMA PipeNext ==
  ASSUME TypeOK, TypeOK', IdsConsistent', RegistryOK', Asked, Flowed,
         NEW i \in 1 .. Len(stack'), stack'[i].alone,
         Owns(channels', stack'[i].ch, stack'[i].req.ch),
         stack'[i].on \cap {"BasicAck", "BasicNack"} # {} => ConfirmPublish,
         Pipe(stack'[i])
  PROVE  Pipe(stack[i])'
  <1> DEFINE f == stack'[i]
  <1>0. f \in Frame /\ f.on \subseteq Replies /\ f.req \in Message /\ f.req.ch \in Ids0
    <2>1. f \in Frame
      BY ElementOfSeq DEF TypeOK, AbstractChannelTypeOK
    <2> QED BY <2>1 DEF Frame, Message
  <1>1. ASSUME NEW y \in Items(toServer'[f.req.ch]), Expected(y) \cap f.on # {}
        PROVE  y.rid = f.req.rid
    <2>1. CASE y \in Items(toServer[f.req.ch])
      BY <1>1, <2>1 DEF Pipe
    <2>2. CASE Silent(y)
      <3>1. y.m = "BasicPublish" /\ ~ConfirmPublish
        BY <1>1, <2>2 DEF Silent
      <3>2. Expected(y) \subseteq {"BasicAck", "BasicNack"}
        BY <3>1 DEF Expected, Sync, ReplyTo
      <3> QED BY <1>1, <3>1, <3>2
    <2>3. ASSUME NEW c \in Obj, connection'[c], f.req.ch = channel_id'[c], Lonely(y, c)
          PROVE  y.rid = f.req.rid
      <3>1. \A d : Owns(channels', d, channel_id'[c]) => d = c
        BY <2>3, SenderOwns
      <3>2. f.ch = c
        BY <2>3, <3>1
      <3> QED BY <1>1, <2>3, <3>2 DEF Lonely
    <2> QED BY <1>0, <2>1, <2>2, <2>3 DEF Asked
  <1>2. ASSUME NEW y \in Items(toClient'), y.ch = f.req.ch, y.m \in f.on
        PROVE  y.rid = f.req.rid
    <2>1. CASE y \in Items(toClient)
      BY <1>2, <2>1 DEF Pipe
    <2>2. CASE y.m \notin Replies
      BY <1>0, <1>2, <2>2
    <2>3. ASSUME NEW z \in Items(toServer[y.ch]), y.m \in Expected(z), y.rid = z.rid
          PROVE  y.rid = f.req.rid
      BY <1>2, <2>3 DEF Pipe
    <2> QED BY <2>1, <2>2, <2>3 DEF Flowed
  <1> QED BY <1>1, <1>2 DEF Pipe

\* A frame that is carried over still satisfies the invariant.
LEMMA MatchedCarried ==
  ASSUME TypeOK, TypeOK', ItemsOK, RepliesOK,
         IdsConsistent', RegistryOK', Asked, Flowed, RegMove,
         NEW i \in 1 .. Len(stack'), Carried(i)
  PROVE  Matched(stack[i])'
  <1> DEFINE a == stack[i]
             b == stack'[i]
  <1>0. a \in Frame /\ b \in Frame /\ i \in 1 .. Len(stack)
    BY ElementOfSeq DEF TypeOK, AbstractChannelTypeOK, Carried
  <1>1. /\ b.op = a.op /\ b.ch = a.ch /\ b.on = a.on /\ b.req = a.req /\ (b.alone => a.alone)
        /\ b.op \in WaitOps => (b.got = a.got /\ (b.ready <=> a.ready)) \/ Gets(b)
    BY DEF Carried, Like
  <1>2. Matched(a)
    BY <1>0 DEF RepliesOK
  <1>3. a.ch \in Obj /\ a.req.ch \in Ids0
    BY <1>0 DEF Frame, Message
  <1>4. ASSUME b.op \in WaitOps \cup {"publish"}
        PROVE  /\ b.ch <= created' /\ \A id \in Ids0 : Owns(channels', b.ch, id) => b.req.ch = id
               /\ Owns(channels', b.ch, b.req.ch) => Owns(channels, b.ch, b.req.ch)
    <2>1. a.ch <= created /\ \A id \in Ids0 : Owns(channels, a.ch, id) => a.req.ch = id
      BY <1>1, <1>2, <1>4 DEF Matched
    <2>2. /\ a.ch <= created'
          /\ \A id \in Ids0 : Owns(channels', a.ch, id) => Owns(channels, a.ch, id)
      BY <1>3, <2>1, OwnsBefore
    <2> HIDE DEF a, b
    <2> QED BY <1>1, <1>3, <2>1, <2>2
  <1>5. ASSUME b.op \in WaitOps, b.ready
        PROVE  b.got.m \in b.on /\ b.got.m # "BasicNack" /\ (b.alone => b.got.rid = b.req.rid)
    <2>1. CASE b.got = a.got /\ (b.ready <=> a.ready)
      <3> HIDE DEF a, b
      <3> QED BY <1>1, <1>2, <1>5, <2>1 DEF Matched
    <2>2. CASE Gets(b)
      <3>1. b.got.m \in b.on /\ b.got.m # "BasicNack" /\ Brings(b.got, b)
        BY <1>5, <2>2 DEF Gets
      <3>2. ASSUME b.alone, Takes, b.got = In, Receiver(b.ch) PROVE b.got.rid = b.req.rid
        <4> HIDE DEF a, b
        <4> QED BY <1>0, <1>1, <1>2, <1>5, <3>1, <3>2, ReadMatches
      <3>3. ASSUME b.alone, stack # <<>>, Top.shot # 0, b.got = Top.req,
                   b.req = stack[Top.shot].req, stack[Top.shot].alone
            PROVE  b.got.rid = b.req.rid
        <4>1. Len(stack) \in 1 .. Len(stack) /\ Top = stack[Len(stack)]
          BY <3>3, TopType DEF TypeOK, AbstractChannelTypeOK, Top
        <4> HIDE DEF b
        <4> QED BY <3>3, <4>1 DEF RepliesOK
      <3> QED BY <3>1, <3>2, <3>3 DEF Brings
    <2> QED BY <1>1, <1>5, <2>1, <2>2
  <1>6. ASSUME b.op \in WaitOps, b.alone, Owns(channels', b.ch, b.req.ch)
        PROVE  Pipe(stack[i])'
    <2>1. Owns(channels, a.ch, a.req.ch)
      BY <1>1, <1>4, <1>6
    <2>2. Pipe(a)
      BY <1>1, <1>2, <1>6, <2>1 DEF Matched
    <2>3. Pipe(b)
      <3> HIDE DEF a, b
      <3> QED BY <1>1, <2>2 DEF Pipe
    <2>4. b.on \cap {"BasicAck", "BasicNack"} # {} => ConfirmPublish
      BY <1>1, <1>2 DEF Matched
    <2> QED BY <1>6, <2>3, <2>4, PipeNext
  <1>7. /\ b.op = "confirm" => b.on = {"BasicAck", "BasicNack"}
        /\ b.on \cap {"BasicAck", "BasicNack"} # {} => ConfirmPublish
        /\ b.op = "publish" => b.req.m = "BasicPublish" /\ ~b.req.nowait
    <2> HIDE DEF a, b
    <2> QED BY <1>1, <1>2 DEF Matched
  <1> QED BY <1>4, <1>5, <1>6, <1>7 DEF Matched

\* A frame that comes satisfies the invariant.
LEMMA MatchedFresh ==
  ASSUME TypeOK, TypeOK', RepliesOK, IdsConsistent', RegistryOK', Asked, Flowed, RegMove,
         NEW i \in 1 .. Len(stack'), Fresh(i)
  PROVE  Matched(stack[i])'
  <1> DEFINE b == stack'[i]
  <1>0. b \in Frame
    BY ElementOfSeq DEF TypeOK, AbstractChannelTypeOK
  <1>1. Comes(b)
    BY DEF Fresh
  <1>2. b.ch \in Obj /\ b.req.ch \in Ids0
    BY <1>0 DEF Frame, Message
  <1>3. ASSUME b.op \in WaitOps \cup {"publish"}
        PROVE  b.ch <= created' /\ \A id \in Ids0 : Owns(channels', b.ch, id) => b.req.ch = id
    <2>1. Addressed(b.ch, b.req)
      BY <1>1, <1>3 DEF Comes
    <2>2. CASE connection'[b.ch] /\ (b.req.ch = channel_id'[b.ch] \/ (b.ch = 0 /\ b.req.ch = 0))
      <3>1. /\ b.ch <= created'
            /\ \A id \in Ids0 : Owns(channels', b.ch, id) => id = channel_id'[b.ch]
        BY <1>2, <2>2, SenderOwns
      <3>2. channel_id'[0] = 0
        BY DEF RegistryOK
      <3> HIDE DEF b
      <3> QED BY <2>2, <3>1, <3>2
    <2>3. CASE stack # <<>> /\ Top.op = "publish" /\ b.ch = Top.ch /\ b.req = Top.req
      <3>1. Len(stack) \in 1 .. Len(stack) /\ Top = stack[Len(stack)]
        BY <2>3, TopType DEF TypeOK, AbstractChannelTypeOK, Top
      <3>2. Matched(Top)
        BY <3>1 DEF RepliesOK
      <3>3. Top.ch <= created /\ \A id \in Ids0 : Owns(channels, Top.ch, id) => Top.req.ch = id
        BY <2>3, <3>2 DEF Matched
      <3>4. /\ b.ch <= created'
            /\ \A id \in Ids0 : Owns(channels', b.ch, id) => Owns(channels, b.ch, id)
        BY <1>2, <2>3, <3>3, OwnsBefore
      <3> HIDE DEF b
      <3> QED BY <2>3, <3>3, <3>4
    <2> QED BY <2>1, <2>2, <2>3 DEF Addressed
  <1>4. b.op \in WaitOps => ~b.ready
    BY <1>1 DEF Comes
  <1>5. ASSUME b.op \in WaitOps, b.alone, Owns(channels', b.ch, b.req.ch)
        PROVE  Pipe(stack[i])'
    <2>1. ~Outstanding(b.ch, b.req.ch, b.on)
      BY <1>1, <1>5 DEF Comes
    <2>2. /\ \A y \in Items(toServer[b.req.ch]) : Expected(y) \cap b.on = {}
          /\ \A y \in Items(toClient) : y.ch = b.req.ch => y.m \notin b.on
      BY <1>2, <2>1, NotOutstanding DEF TypeOK
    <2>3. Pipe(b)
      <3> HIDE DEF b
      <3> QED BY <2>2 DEF Pipe
    <2>4. b.on \cap {"BasicAck", "BasicNack"} # {} => ConfirmPublish
      BY <1>1 DEF Comes
    <2> QED BY <1>5, <2>3, <2>4, PipeNext
  <1>6. /\ b.op = "confirm" => b.on = {"BasicAck", "BasicNack"}
        /\ b.on \cap {"BasicAck", "BasicNack"} # {} => ConfirmPublish
        /\ b.op = "publish" => b.req.m = "BasicPublish" /\ ~b.req.nowait
    BY <1>1 DEF Comes
  <1> QED BY <1>3, <1>4, <1>5, <1>6 DEF Matched

\* The invariant of the replies is preserved.
LEMMA RepliesNext ==
  ASSUME TypeOK, TypeOK', StackOK(pending, stack), CallsOK(pending, stack),
         CallsOK(pending, stack)', ItemsOK, RepliesOK, IdsConsistent', RegistryOK',
         Moved, Asked, Flowed, RegMove
  PROVE  RepliesOK'
  <1> SUFFICES ASSUME NEW i \in 1 .. Len(stack')
               PROVE  /\ Matched(stack[i])'
                      /\ stack'[i].shot # 0 /\ stack'[stack'[i].shot].alone =>
                           stack'[i].req.rid = stack'[stack'[i].shot].req.rid
    BY DEF RepliesOK
  <1>0. \A j \in 1 .. Len(stack') : Carried(j) \/ Fresh(j)
    BY FramesMove DEF TypeOK
  <1>1. Matched(stack[i])'
    BY <1>0, MatchedCarried, MatchedFresh
  <1>2. ASSUME stack'[i].shot # 0, stack'[stack'[i].shot].alone
        PROVE  stack'[i].req.rid = stack'[stack'[i].shot].req.rid
    <2> DEFINE k == stack'[i].shot
    <2>1. Len(stack') \in Nat /\ k \in Nat /\ k < i
      <3>1. stack' \in Seq(Frame) /\ stack'[i] \in Frame
        BY ElementOfSeq DEF TypeOK, AbstractChannelTypeOK
      <3>2. k < i
        BY <1>2 DEF CallsOK, ShotsOK
      <3> QED BY <3>1, <3>2, LenProperties DEF Frame
    <2>2. k \in 1 .. Len(stack') /\ k # Len(stack')
      BY <1>2, <2>1
    <2>3. Carried(k)
      BY <1>0, <2>2 DEF Fresh
    <2>4. /\ k \in 1 .. Len(stack) /\ stack'[k].req = stack[k].req /\ stack[k].alone
          /\ stack[k] \in Frame
      BY <1>2, <2>3, ElementOfSeq DEF Carried, Like, TypeOK, AbstractChannelTypeOK
    <2>5. CASE Carried(i)
      <3>1. i \in 1 .. Len(stack) /\ stack[i].shot = k /\ stack'[i].req = stack[i].req
        BY <2>5 DEF Carried, Like
      <3> HIDE DEF k
      <3> QED BY <1>2, <2>4, <3>1 DEF RepliesOK, k
    <2>6. CASE Fresh(i)
      <3>1. Takes /\ stack'[i].req = In /\ In.m \in stack[k].on /\ Receiver(stack[k].ch)
        BY <1>2, <2>6 DEF Fresh
      <3>2. stack[k].op \in WaitOps
        BY <2>4, <3>1 DEF StackOK, FramesOK
      <3>3. Matched(stack[k])
        BY <2>4 DEF RepliesOK
      <3> QED BY <2>4, <3>1, <3>2, <3>3, ReadMatches
    <2> QED BY <1>0, <2>5, <2>6
  <1> QED BY <1>1, <1>2

-----------------------------------------------------------------------------
(* What every step does to the registry.                                   *)

\* A step that leaves the registry alone.
LEMMA SameReg == UNCHANGED <<channels, channel_id, created>> => RegMove
  BY DEF RegMove

\* collect() of a channel takes it out of the registry.
LEMMA ChannelCollectReg ==
  ASSUME NEW c, Channel_collect(c), UNCHANGED created
  PROVE  RegMove
  <1>1. 0 \in Obj
    BY SpecAssumption DEF Obj
  <1>2. channel_id' = [d \in Obj |-> IF d \in {c} THEN 0 ELSE channel_id[d]]
    BY DEF Channel_collect, Cleared
  <1>3. channels' = [id \in Ids |-> IF id \in Freed({c}) THEN 0 ELSE channels[id]]
    BY DEF Channel_collect
  <1> QED BY <1>1, <1>2, <1>3 DEF RegMove

\* collect() of the connection empties the registry.
LEMMA ConnectionCollectReg ==
  ASSUME Connection_collect, UNCHANGED created
  PROVE  RegMove
  <1> DEFINE S == {channels[id] : id \in Ids} \ {0}
  <1>1. 0 \in Obj
    BY SpecAssumption DEF Obj
  <1>2. channel_id' = [d \in Obj |-> IF d \in S THEN 0 ELSE channel_id[d]]
    BY DEF Connection_collect, Cleared
  <1>3. channels' = [id \in Ids |-> 0]
    BY DEF Connection_collect
  <1> HIDE DEF S
  <1> QED BY <1>1, <1>2, <1>3 DEF RegMove

\* Every call of the application.
LEMMA AppCallReg ==
  ASSUME TypeOK, AppCall
  PROVE  RegMove
  <1>1. ASSUME NEW c \in 1 .. created, ChannelCall(c), UNCHANGED <<brokerVars, created>>
        PROVE  RegMove
    <2>1. ASSUME NEW req, NEW on, NEW op, Invoke(c, req, on, op)
          PROVE  UNCHANGED <<channels, channel_id>>
      BY <2>1 DEF Invoke
    <2>2. ASSUME NEW m, NEW nowait, Simple(c, m, nowait) \/ SimplePost(c, m)
          PROVE  UNCHANGED <<channels, channel_id>>
      BY <2>1, <2>2 DEF Simple, SimplePost, Rpc, Post
    <2>3. ASSUME NEW t, NEW nowait, basic_cancel(c, t, nowait)
          PROVE  UNCHANGED <<channels, channel_id>>
      BY <2>1, <2>3 DEF basic_cancel
    <2>4. ASSUME NEW t, NEW nowait, NEW no_ack, basic_consume(c, t, nowait, no_ack)
          PROVE  UNCHANGED <<channels, channel_id>>
      BY <2>1, <2>4 DEF basic_consume
    <2>5. ASSUME basic_publish(c) \/ Channel_open(c) \/ Channel_close(c)
          PROVE  UNCHANGED <<channels, channel_id>>
      BY <2>1, <2>5 DEF basic_publish, Channel_open, Channel_close
    <2>6. UNCHANGED <<channels, channel_id>>
      BY <1>1, <2>2, <2>3, <2>4, <2>5 DEF ChannelCall, exchange_declare,
         exchange_delete, exchange_bind, exchange_unbind, queue_declare,
         queue_bind, queue_unbind, queue_delete, queue_purge, confirm_select,
         flow, basic_get, basic_qos, tx_select, tx_commit, tx_rollback,
         basic_recover, basic_recover_async, basic_ack, basic_reject
    <2> QED BY <1>1, <2>6, SameReg
  <1>2. ASSUME NEW id \in ExplicitIds, channel(id) PROVE RegMove
    <2>1. ASSUME NEW e, NoChannel(e) PROVE RegMove
      BY <2>1, SameReg DEF NoChannel
    <2>2. ASSUME NEW k \in Ids, NewChannel(k) PROVE RegMove
      <3>1. created \in Nat /\ 0 \in Obj /\ created + 1 # 0
        BY SpecAssumption DEF TypeOK, Obj
      <3>2. /\ created' = created + 1
            /\ channels' = [channels EXCEPT ![k] = created + 1]
            /\ channel_id' = [channel_id EXCEPT ![created + 1] = k]
        BY <2>2 DEF NewChannel
      <3>3. channel_id'[0] = channel_id[0]
        BY <3>1, <3>2 DEF TypeOK, AbstractChannelTypeOK
      <3> QED BY <3>2, <3>3 DEF RegMove
    <2>3. id # 0 => id \in Ids
      BY ConnectionAssumption, SpecAssumption DEF Ids, Ids0
    <2> QED BY <1>2, <2>1, <2>2, <2>3, FreeIdType DEF channel
  <1>3. CASE drain_events
    BY <1>3, SameReg DEF drain_events
  <1>4. CASE Connection_close
    BY <1>4, SameReg, ConnectionCollectReg DEF Connection_close
  <1> QED BY <1>1, <1>2, <1>3, <1>4 DEF AppCall

\* Every step.
LEMMA NextReg ==
  ASSUME TypeOK, [Next]_vars
  PROVE  RegMove
  <1>1. CASE BaseStep /\ UNCHANGED created
    BY <1>1, SameReg DEF BaseStep, ReturnPlain, ConnectionGone, UnwindPlain, UnwindCallback,
       CallbackCatch, Raised, Discard, UnknownChannel, ReadFails, OnReply
  <1>2. CASE ChannelStep /\ UNCHANGED created
    BY <1>2, SameReg, ChannelCollectReg DEF ChannelStep, Channel_on_open_ok, Channel_on_close_ok,
       Channel_on_close, on_flow, on_basic_cancel_ok, on_basic_cancel, on_basic_deliver,
       on_basic_ack, on_basic_nack, on_basic_return, CloseReturns, ReviveReturns,
       ConsumeReturns, SelectReturns, PublishWrites
  <1>3. CASE ConnectionStep
    BY <1>3, SameReg, ConnectionCollectReg DEF ConnectionStep, Connection_on_close_ok,
       Connection_on_close, on_blocked, ConnectionCloseReturns, CloseFails
  <1>4. CASE CallbackEnds \/ TimesOut \/ Idle \/ UNCHANGED vars
    BY <1>4, SameReg DEF CallbackEnds, CallbackReturns, TimesOut, ReadTimesOut, Idle, vars,
       clientVars
  <1>5. CASE BrokerStep
    BY <1>5, BrokerKeepsClient, SameReg DEF BrokerStep, clientVars
  <1> QED BY <1>1, <1>2, <1>3, <1>4, <1>5, AppCallReg DEF Next, LibraryStep

-----------------------------------------------------------------------------
(* What every step sends to the client.                                    *)

\* Whoever takes a method from the queue, or leaves it, adds nothing.
LEMMA LessFlowed ==
  ASSUME Items(toClient') \subseteq Items(toClient)
  PROVE  Flowed
  BY DEF Flowed

\* What the client does adds nothing to its queue.
LEMMA ClientFlowed ==
  ASSUME TypeOK, AppCall \/ LibraryStep \/ CallbackEnds \/ TimesOut
  PROVE  Flowed
  <1>1. CASE UNCHANGED toClient
    BY <1>1, LessFlowed
  <1>2. CASE Takes
    <2>1. toClient \in Seq(Message) /\ toClient # <<>> /\ toClient' = Tail(toClient)
      BY <1>2 DEF Takes, TypeOK, AbstractChannelTypeOK
    <2> QED BY <2>1, ItemsTail, LessFlowed
  <1> QED BY <1>1, <1>2, ClientReads

\* A reply carries the id and the number of the request it answers.
LEMMA ReplyFields ==
  ASSUME NEW id, NEW m
  PROVE  Reply(id, m).ch = id /\ Reply(id, m).m = m /\ Reply(id, m).rid = Received(id).rid
  BY DEF Reply, Msg

(* What the broker may send when it handles what it has received. *)
Fits(x, id) ==
  \/ x.m \notin Replies
  \/ x.ch = id /\ x.m \in Expected(Received(id)) /\ x.rid = Received(id).rid

\* What the broker received is a method of the queue.
LEMMA ReceivedItem ==
  ASSUME TypeOK, ItemsOK, NEW id \in Ids0, toServer[id] # <<>>
  PROVE  /\ Received(id) \in Items(toServer[id]) /\ Received(id) \in Message
         /\ ItemOK(Received(id), id)
  <1>1. toServer[id] \in Seq(Message)
    BY DEF TypeOK, AbstractChannelTypeOK
  <1>2. Received(id) \in Items(toServer[id])
    BY <1>1, ItemsTail DEF Received
  <1> QED BY <1>1, <1>2, ItemsType DEF ItemsOK

\* A method that the broker handles.
LEMMA ReceivesFlowed ==
  ASSUME TypeOK, ItemsOK, NEW id \in Ids0, NEW ms \in Seq(Message), Receives(id, ms),
         \A x \in Items(ms) : Fits(x, id)
  PROVE  Flowed
  <1>1. toClient \in Seq(Message) /\ toClient' = toClient \o ms /\ toServer[id] # <<>>
    BY DEF TypeOK, AbstractChannelTypeOK, Receives
  <1>2. Received(id) \in Items(toServer[id])
    BY <1>1, ReceivedItem
  <1>3. ASSUME NEW x \in Items(toClient')
        PROVE  \/ x \in Items(toClient) \/ x.m \notin Replies
               \/ /\ x.ch \in Ids0
                  /\ \E y \in Items(toServer[x.ch]) : x.m \in Expected(y) /\ x.rid = y.rid
    <2>1. x \in Items(toClient) \/ x \in Items(ms)
      BY <1>1, ItemsConcat
    <2> QED BY <1>2, <2>1 DEF Fits
  <1> QED BY <1>3 DEF Flowed

\* A method that the broker handles without an answer.
LEMMA NoneFlowed ==
  ASSUME TypeOK, ItemsOK, NEW id \in Ids0, Receives(id, <<>>)
  PROVE  Flowed
  <1>1. <<>> \in Seq(Message) /\ \A x \in Items(<<>>) : Fits(x, id)
    BY ItemsNone
  <1> QED BY <1>1, ReceivesFlowed

\* A method that the broker handles with one answer.
LEMMA OneFlowed ==
  ASSUME TypeOK, ItemsOK, NEW id \in Ids0, NEW x \in Message, Receives(id, <<x>>), Fits(x, id)
  PROVE  Flowed
  <1>1. <<x>> \in Seq(Message) /\ \A y \in Items(<<x>>) : Fits(y, id)
    BY ItemsOne
  <1> QED BY <1>1, ReceivesFlowed

\* The reply of the broker to a request that expects it.
LEMMA ReplyFits ==
  ASSUME TypeOK, ItemsOK, NEW id \in Ids0, toServer[id] # <<>>, NEW n, Received(id).m = n,
         n \in Sync, NEW m \in ReplyTo[n], ~Received(id).nowait \/ n \in Firm
  PROVE  Reply(id, m) \in Message /\ Fits(Reply(id, m), id)
  <1>1. Received(id) \in Message /\ ItemOK(Received(id), id)
    BY ReceivedItem
  <1>2. m \in Methods
    BY RepliesFacts, MethodsFacts
  <1>3. Reply(id, m) \in Message
    BY <1>2, ReplyType
  <1>4. Expected(Received(id)) = ReplyTo[n]
    BY <1>1 DEF Expected, ItemOK
  <1> QED BY <1>3, <1>4, ReplyFields DEF Fits

\* Every way the broker handles a method.
LEMMA BrokerReceivesFlowed ==
  ASSUME TypeOK, ItemsOK, BrokerReceives
  PROVE  Flowed
  <1>1. 0 \in Ids0 /\ Ids \subseteq Ids0
    BY SpecAssumption DEF Ids, Ids0
  <1>2. ASSUME NEW id \in Ids, NEW m \in Replies, BrokerReplies(id, m)
        PROVE  Flowed
    <2>1. /\ Receives(id, IF Received(id).nowait THEN <<>> ELSE <<Reply(id, m)>>)
          /\ toServer[id] # <<>> /\ id \in Ids0
          /\ Received(id).m \in Sync /\ m \in ReplyTo[Received(id).m]
      BY <1>1, <1>2 DEF BrokerReplies
    <2>2. CASE Received(id).nowait
      BY <2>1, <2>2, NoneFlowed
    <2>3. CASE ~Received(id).nowait
      BY <2>1, <2>3, ReplyFits, OneFlowed
    <2> QED BY <2>2, <2>3
  <1>3. ASSUME NEW id \in Ids, BrokerAccepts(id) \/ BrokerDrops(id)
        PROVE  Flowed
    BY <1>1, <1>3, NoneFlowed DEF BrokerAccepts, BrokerDrops
  <1>4. ASSUME NEW id \in Ids, NEW t \in Tags, BrokerConsumes(id, t)
        PROVE  Flowed
    <2> DEFINE r == Reply(id, "BasicConsumeOk")
               ok == [r EXCEPT !.tag = t]
    <2>1. /\ Receives(id, IF Received(id).nowait THEN <<>> ELSE <<ok>>)
          /\ toServer[id] # <<>> /\ id \in Ids0 /\ Received(id).m = "BasicConsume"
      BY <1>1, <1>4 DEF BrokerConsumes
    <2>2. CASE Received(id).nowait
      BY <2>1, <2>2, NoneFlowed
    <2>3. CASE ~Received(id).nowait
      <3>1. "BasicConsume" \in Sync /\ "BasicConsumeOk" \in ReplyTo["BasicConsume"]
        BY DEF Sync, ReplyTo
      <3>2. r \in Message /\ Fits(r, id)
        BY <2>1, <2>3, <3>1, ReplyFits
      <3>3. ok \in Message /\ ok.ch = r.ch /\ ok.m = r.m /\ ok.rid = r.rid
        <4> HIDE DEF r
        <4> QED BY <3>2, MessageUpdate DEF Message
      <3>4. Fits(ok, id)
        <4> HIDE DEF ok, r
        <4> QED BY <3>2, <3>3 DEF Fits
      <3> HIDE DEF ok
      <3> QED BY <2>1, <2>3, <3>3, <3>4, OneFlowed
    <2> QED BY <2>2, <2>3
  <1>5. ASSUME NEW id \in Ids, NEW returned \in BOOLEAN, NEW m \in {"BasicAck", "BasicNack"},
               BrokerPublishes(id, returned, m)
        PROVE  Flowed
    <2> DEFINE u == Reply(id, "BasicReturn")
               v == Reply(id, m)
               a == IF returned THEN <<u>> ELSE <<>>
               b == IF bconfirm[id] THEN <<v>> ELSE <<>>
    <2>1. Receives(id, a \o b) /\ toServer[id] # <<>> /\ id \in Ids0
          /\ Received(id).m = "BasicPublish"
      BY <1>1, <1>5 DEF BrokerPublishes
    <2>2. "BasicPublish" \in Sync /\ m \in ReplyTo["BasicPublish"] /\ "BasicPublish" \in Firm
      BY DEF Sync, ReplyTo, Firm
    <2>3. v \in Message /\ Fits(v, id)
      BY <2>1, <2>2, ReplyFits
    <2>4. u \in Message /\ Fits(u, id)
      BY <2>1, NoReplies, ReplyType, ReplyFields DEF Fits
    <2> HIDE DEF u, v
    <2>5. a \in Seq(Message) /\ \A x \in Items(a) : Fits(x, id)
      BY <2>4, ItemsNone, ItemsOne
    <2>6. b \in Seq(Message) /\ \A x \in Items(b) : Fits(x, id)
      BY <2>3, ItemsNone, ItemsOne
    <2> HIDE DEF a, b
    <2>7. a \o b \in Seq(Message) /\ \A x \in Items(a \o b) : Fits(x, id)
      BY <2>5, <2>6, ConcatProperties, ItemsConcat
    <2> QED BY <2>1, <2>7, ReceivesFlowed
  <1>6. ASSUME NEW id \in Ids, BrokerOpens(id) \/ BrokerCloses(id)
        PROVE  Flowed
    <2>1. PICK n \in {"ChannelOpen", "ChannelClose"}, m \in {"ChannelOpenOk", "ChannelCloseOk"} :
            /\ Receives(id, <<Reply(id, m)>>) /\ toServer[id] # <<>>
            /\ Received(id).m = n /\ m \in ReplyTo[n]
      BY <1>6 DEF BrokerOpens, BrokerCloses, ReplyTo
    <2>2. id \in Ids0 /\ n \in Sync /\ n \in Firm
      BY <1>1, MethodsFacts DEF Firm
    <2> QED BY <2>1, <2>2, ReplyFits, OneFlowed
  <1>7. ASSUME NEW id \in Ids, BrokerFails(id) PROVE Flowed
    <2> DEFINE x == Msg(0, "ConnectionClose", 0)
    <2>1. x \in Message /\ x.m = "ConnectionClose"
      BY <1>1, MsgType, MethodsFacts DEF Msg
    <2>2. Receives(id, <<x>>) /\ id \in Ids0
      BY <1>1, <1>7 DEF BrokerFails
    <2> HIDE DEF x
    <2> QED BY <2>1, <2>2, NoReplies, OneFlowed DEF Fits
  <1>8. CASE BrokerDisconnects
    <2>1. /\ Receives(0, IF Received(0).m = "ConnectionClose"
                         THEN <<Reply(0, "ConnectionCloseOk")>> ELSE <<>>)
          /\ toServer[0] # <<>>
      BY <1>8 DEF BrokerDisconnects
    <2>2. /\ "ConnectionClose" \in Sync /\ "ConnectionClose" \in Firm
          /\ "ConnectionCloseOk" \in ReplyTo["ConnectionClose"]
      BY DEF Sync, ReplyTo, Firm
    <2>3. CASE Received(0).m = "ConnectionClose"
      BY <1>1, <2>1, <2>2, <2>3, ReplyFits, OneFlowed
    <2>4. CASE Received(0).m # "ConnectionClose"
      BY <1>1, <2>1, <2>4, NoneFlowed
    <2> QED BY <2>3, <2>4
  <1> QED BY <1>2, <1>3, <1>4, <1>5, <1>6, <1>7, <1>8 DEF BrokerReceives

\* Every event of the broker or the socket.
LEMMA BrokerEventFlowed ==
  ASSUME TypeOK, BrokerEvent
  PROVE  Flowed
  <1>0. toClient \in Seq(Message)
    BY DEF TypeOK, AbstractChannelTypeOK
  <1>1. Ids \subseteq Ids0 /\ 0 \in Ids0 /\ 0 \in Nat
    BY SpecAssumption DEF Ids, Ids0
  <1>2. ASSUME NEW m, NEW x \in Message, x.m \notin Replies, Happens(m, x) PROVE Flowed
    <2>1. toClient' = toClient \o <<x>> /\ <<x>> \in Seq(Message)
      BY <1>0, <1>2, AppendIsConcat DEF Happens
    <2>2. ASSUME NEW y \in Items(toClient') PROVE y \in Items(toClient) \/ y.m \notin Replies
      <3>1. y \in Items(toClient) \/ y \in Items(<<x>>)
        BY <1>0, <2>1, ItemsConcat
      <3> QED BY <1>2, <3>1, ItemsOne
    <2> QED BY <2>2 DEF Flowed
  <1>3. ASSUME NEW id \in Ids, NEW t \in Tags, BrokerDelivers(id, t) \/ BrokerCancels(id, t)
        PROVE  Flowed
    <2>1. PICK m \in {"BasicDeliver", "BasicCancel"} :
            Happens(m, [Msg(id, m, bcons[id][t].rid) EXCEPT !.tag = t])
      BY <1>3 DEF BrokerDelivers, BrokerCancels
    <2>2. bcons[id][t].rid \in Nat /\ m \in Methods /\ id \in Ids0 /\ m \notin Replies
      BY <1>1, NoReplies DEF TypeOK, BrokerTypeOK
    <2> DEFINE x == [Msg(id, m, bcons[id][t].rid) EXCEPT !.tag = t]
    <2>3. x \in Message
      BY <2>2, MsgType, MessageUpdate
    <2>4. x.m = m
      BY DEF Msg
    <2> HIDE DEF x
    <2> QED BY <1>2, <2>1, <2>2, <2>3, <2>4 DEF x
  <1>4. ASSUME NEW id \in Ids0,
               NEW m \in {"ChannelFlow", "ChannelClose", "ConnectionBlocked",
                          "ConnectionUnblocked", "ConnectionClose"},
               Happens(m, Msg(id, m, 0))
        PROVE  Flowed
    <2>1. m \in Methods /\ m \notin Replies
      BY NoReplies
    <2>2. Msg(id, m, 0) \in Message /\ Msg(id, m, 0).m = m
      BY <1>1, <2>1, MsgType DEF Msg
    <2> QED BY <1>2, <1>4, <2>1, <2>2
  <1>5. ASSUME NEW n \in 0 .. Len(toClient), SocketBreaks(n) PROVE Flowed
    BY <1>0, <1>5, ItemsCut, LessFlowed DEF SocketBreaks
  <1> QED BY <1>1, <1>3, <1>4, <1>5 DEF BrokerEvent, BrokerFlows, BrokerClosesChannel,
             BrokerBlocks, BrokerClosesConnection

\* Every step.
LEMMA NextFlowed ==
  ASSUME TypeOK, ItemsOK, [Next]_vars
  PROVE  Flowed
  <1>1. CASE UNCHANGED vars
    BY <1>1, LessFlowed DEF vars
  <1> QED BY <1>1, ClientFlowed, BrokerReceivesFlowed, BrokerEventFlowed
          DEF Next, BrokerStep, Idle

-----------------------------------------------------------------------------
(* What every step sends to the broker.                                    *)

\* Whoever sends nothing asks nothing.
LEMMA SameAsks == UNCHANGED toServer => Asked
  BY DEF Asked

\* What is sent on the channel of an object that keeps its connection.
LEMMA SendAsks ==
  ASSUME AbstractChannelTypeOK, NEW c \in Obj, NEW ms \in Seq(Message), send_method(c, ms),
         \A x \in Items(ms) : ItemOK(x, channel_id[c]),
         \A x \in Items(ms) :
           Silent(x) \/ (Lonely(x, c) /\ UNCHANGED <<connection, channel_id>>)
  PROVE  Asked
  <1>1. /\ toServer \in [Ids0 -> Seq(Message)] /\ channel_id[c] \in Ids0
        /\ toServer' = [toServer EXCEPT ![channel_id[c]] = @ \o ms] /\ connection[c]
    BY DEF AbstractChannelTypeOK, send_method
  <1> SUFFICES ASSUME NEW id \in Ids0, NEW x \in Items(toServer'[id]), x \notin Items(toServer[id])
               PROVE  /\ ItemOK(x, id)
                      /\ \/ Silent(x)
                         \/ \E d \in Obj : connection'[d] /\ id = channel_id'[d] /\ Lonely(x, d)
    BY DEF Asked
  <1>2. id = channel_id[c] /\ toServer'[id] = toServer[id] \o ms
    BY <1>1
  <1>3. x \in Items(ms)
    BY <1>1, <1>2, ItemsConcat
  <1> QED BY <1>1, <1>2, <1>3

\* A request that a wait() begins with: nobody else that waits is alone.
LEMMA WaitLonely ==
  ASSUME NEW s \in Seq(Frame), NEW op, NEW c \in Obj, NEW on \in SUBSET Replies,
         NEW req \in Message, wait(s, op, c, on, req), Expected(req) \subseteq on
  PROVE  Lonely(req, c)
  <1> DEFINE t == Crowded(s, c, on)
             f == [op |-> op, ch |-> c, on |-> on, prev |-> pending[c], req |-> req,
                   got |-> NoMsg, ready |-> FALSE,
                   alone |-> ~Outstanding(c, req.ch, on), shot |-> 0]
             u == Append(t, f)
  <1>1. stack' = u
    BY DEF wait
  <1>2. t \in Seq(Frame) /\ Len(t) = Len(s) /\ Len(s) \in Nat /\ DOMAIN s = 1 .. Len(s)
    BY CrowdedType, LenProperties
  <1>3. f.req = req
    OBVIOUS
  <1>4. ASSUME NEW i \in 1 .. Len(s)
        PROVE  t[i].ch = c /\ t[i].on \cap on # {} => ~t[i].alone
    <2>1. s[i] \in Frame
      BY ElementOfSeq
    <2>2. t[i] = [s[i] EXCEPT !.alone = @ /\ ~(s[i].ch = c /\ s[i].on \cap on # {})]
      BY <1>2 DEF Crowded
    <2> QED BY <2>1, <2>2 DEF Frame
  <1>5. t \in Seq({t[i] : i \in 1 .. Len(s)} \cup {f})
    <2> HIDE DEF t, f
    <2> QED BY <1>2
  <1>6. /\ Len(u) = Len(s) + 1
        /\ \A i \in 1 .. Len(s) : u[i] = t[i]
        /\ u[Len(s) + 1] = f
    <2> HIDE DEF t, f
    <2> QED BY <1>2, <1>5, AppendProperties
  <1> HIDE DEF t, f, u
  <1>7. \A i \in 1 .. Len(u) :
          u[i].ch = c /\ u[i].on \cap Expected(req) # {} => ~u[i].alone \/ u[i].req = req
    BY <1>2, <1>3, <1>4, <1>6
  <1> QED BY <1>1, <1>7 DEF Lonely

\* A request that nobody waits for: nobody that waits is alone.
LEMMA CrowdLonely ==
  ASSUME stack \in Seq(Frame), NEW c \in Obj, NEW req \in Message,
         stack' = Crowded(stack, c, Expected(req))
  PROVE  Lonely(req, c)
  <1>1. Len(stack') = Len(stack) /\ DOMAIN stack = 1 .. Len(stack)
    BY CrowdedType, ExpectedType, LenProperties
  <1>2. ASSUME NEW i \in 1 .. Len(stack), stack'[i].ch = c, stack'[i].on \cap Expected(req) # {}
        PROVE  ~stack'[i].alone
    <2>1. stack[i] \in Frame
      BY ElementOfSeq
    <2>2. stack'[i] = [stack[i] EXCEPT !.alone =
                         @ /\ ~(stack[i].ch = c /\ stack[i].on \cap Expected(req) # {})]
      BY <1>1 DEF Crowded
    <2> QED BY <1>2, <2>1, <2>2 DEF Frame
  <1> QED BY <1>1, <1>2 DEF Lonely

\* One request, and the wait() that begins with it.
LEMMA WaitAsks ==
  ASSUME AbstractChannelTypeOK, NEW s \in Seq(Frame), NEW op, NEW c \in Obj,
         NEW on \in SUBSET Replies, NEW req \in Message, wait(s, op, c, on, req),
         send_method(c, <<req>>), UNCHANGED <<connection, channel_id>>,
         Expected(req) \subseteq on, ItemOK(req, channel_id[c])
  PROVE  Asked
  <1>1. Lonely(req, c)
    BY WaitLonely
  <1>2. <<req>> \in Seq(Message) /\ \A x \in Items(<<req>>) : x = req
    BY ItemsOne
  <1> QED BY <1>1, <1>2, SendAsks

\* A method that needs no answer.
LEMMA SilentAsks ==
  ASSUME AbstractChannelTypeOK, NEW c \in Obj, NEW x \in Message, send_method(c, <<x>>),
         Silent(x), ItemOK(x, channel_id[c])
  PROVE  Asked
  <1>1. <<x>> \in Seq(Message) /\ \A y \in Items(<<x>>) : y = x
    BY ItemsOne
  <1> QED BY <1>1, SendAsks

\* A public method that sends and waits, or does not.
LEMMA InvokeAsks ==
  ASSUME AbstractChannelTypeOK, NEW c \in Obj, NEW req \in Message, NEW on \in SUBSET Replies,
         NEW op, Invoke(c, req, on, op), on # {} => Expected(req) \subseteq on,
         ItemOK(req, channel_id[c])
  PROVE  Asked
  <1>1. stack \in Seq(Frame) /\ UNCHANGED <<connection, channel_id>>
    BY DEF AbstractChannelTypeOK, Invoke
  <1>2. CASE send_method(c, <<req>>) /\ wait(stack, op, c, on, req) /\ on # {}
    BY <1>1, <1>2, WaitAsks
  <1>3. CASE send_method(c, <<req>>) /\ stack' = Crowded(stack, c, Expected(req))
    <2>1. Lonely(req, c)
      BY <1>1, <1>3, CrowdLonely
    <2>2. <<req>> \in Seq(Message) /\ \A x \in Items(<<req>>) : x = req
      BY ItemsOne
    <2> QED BY <1>1, <1>3, <2>1, <2>2, SendAsks
  <1>4. CASE send_method_raises(c)
    BY <1>4, SameAsks DEF send_method_raises
  <1> QED BY <1>2, <1>3, <1>4 DEF Invoke

\* Every public method of a channel.
LEMMA ChannelCallAsks ==
  ASSUME AbstractChannelTypeOK, NEW c \in Chan, ChannelCall(c)
  PROVE  Asked
  <1>0. c \in Obj
    BY DEF Chan, Obj
  <1>1. ASSUME NEW m \in Sync \ Firm, NEW nowait \in BOOLEAN, Simple(c, m, nowait)
        PROVE  Asked
    <2> DEFINE req == [Msg(channel_id[c], m, calls + 1) EXCEPT !.nowait = nowait]
               on == IF nowait THEN {} ELSE ReplyTo[m]
    <2>1. Msg(channel_id[c], m, calls + 1) \in Message
      BY <1>0, RequestType, MethodsFacts
    <2>2. req \in Message
      BY <2>1, MessageUpdate
    <2>3. req.m = m /\ on \in SUBSET Replies
      BY RepliesFacts DEF Msg
    <2>4. Invoke(c, req, on, "rpc")
      BY <1>1 DEF Simple, Rpc
    <2>5. on # {} => Expected(req) \subseteq on
      BY <2>3 DEF Expected
    <2>6. ItemOK(req, channel_id[c])
      <3> HIDE DEF req
      <3> QED BY <2>3 DEF ItemOK, Firm
    <2> HIDE DEF req, on
    <2> QED BY <1>0, <2>2, <2>3, <2>4, <2>5, <2>6, InvokeAsks
  <1>2. ASSUME NEW m \in Methods, m # "ConnectionClose", SimplePost(c, m) PROVE Asked
    <2> DEFINE req == Msg(channel_id[c], m, calls + 1)
    <2>1. req \in Message /\ {} \in SUBSET Replies
      BY <1>0, RequestType
    <2>2. req.m = m /\ ~req.nowait
      BY DEF Msg
    <2>3. Invoke(c, req, {}, "rpc")
      BY <1>2 DEF SimplePost, Post
    <2> HIDE DEF req
    <2>4. ItemOK(req, channel_id[c])
      BY <1>2, <2>2 DEF ItemOK
    <2> QED BY <1>0, <2>1, <2>3, <2>4, InvokeAsks
  <1>3. {"ExchangeDeclare", "ExchangeDelete", "ExchangeBind", "ExchangeUnbind",
         "QueueDeclare", "QueueBind", "QueueUnbind", "QueueDelete", "QueuePurge",
         "ConfirmSelect", "ChannelFlow", "BasicGet", "BasicQos", "TxSelect",
         "TxCommit", "TxRollback", "BasicRecover"} \subseteq Sync \ Firm
    BY DEF Sync, ReplyTo, Firm
  <1>4. {"QueueUnbind", "BasicRecover", "BasicRecoverAsync", "BasicAck", "BasicReject"}
          \subseteq Methods
    BY <1>3, MethodsFacts DEF Methods, Async
  <1>5. ASSUME NEW nowait \in Nowaits,
               \/ exchange_declare(c, nowait) \/ exchange_delete(c, nowait)
               \/ exchange_bind(c, nowait) \/ exchange_unbind(c, nowait)
               \/ queue_declare(c, nowait) \/ queue_bind(c, nowait)
               \/ queue_delete(c, nowait)
               \/ queue_purge(c, nowait) \/ confirm_select(c, nowait)
               \/ queue_unbind(c, nowait)
        PROVE  Asked
    <2>1. nowait \in BOOLEAN
      BY ConnectionAssumption
    <2>2. CASE queue_unbind(c, nowait)
      <3>1. CASE Simple(c, "QueueUnbind", FALSE)
        BY <1>1, <1>3, <3>1
      <3>2. CASE SimplePost(c, "QueueUnbind")
        BY <1>2, <1>4, <3>2
      <3> QED BY <2>2, <3>1, <3>2 DEF queue_unbind
    <2> QED BY <1>1, <1>3, <1>5, <2>1, <2>2 DEF exchange_declare, exchange_delete,
              exchange_bind, exchange_unbind, queue_declare, queue_bind,
              queue_delete, queue_purge, confirm_select
  <1>6. ASSUME \/ flow(c) \/ basic_get(c) \/ basic_qos(c)
               \/ tx_select(c) \/ tx_commit(c) \/ tx_rollback(c)
        PROVE  Asked
    BY <1>1, <1>3, <1>6 DEF flow, basic_get, basic_qos, tx_select, tx_commit, tx_rollback
  <1>7. ASSUME \/ basic_recover(c) \/ basic_recover_async(c) \/ basic_ack(c)
               \/ basic_reject(c)
        PROVE  Asked
    BY <1>2, <1>4, <1>7 DEF basic_recover, basic_recover_async, basic_ack, basic_reject
  <1>8. ASSUME NEW nowait \in Nowaits, NEW t \in Tags, basic_cancel(c, t, nowait)
        PROVE  Asked
    <2> DEFINE req == [Msg(channel_id[c], "BasicCancel", calls + 1)
                       EXCEPT !.tag = t, !.nowait = nowait]
               on == IF nowait THEN {} ELSE {"BasicCancelOk"}
    <2>1. Msg(channel_id[c], "BasicCancel", calls + 1) \in Message
      BY <1>0, RequestType, MethodsFacts
    <2>2. req \in Message
      BY <2>1, MessageUpdate, ConnectionAssumption
    <2>3. on \in SUBSET Replies /\ req.m = "BasicCancel"
      BY RepliesFacts DEF Msg
    <2>4. Invoke(c, req, on, "rpc")
      BY <1>8 DEF basic_cancel
    <2>5. on # {} => Expected(req) \subseteq on
      BY <2>3 DEF Expected, ReplyTo
    <2> HIDE DEF req, on
    <2>6. ItemOK(req, channel_id[c])
      BY <2>3 DEF ItemOK, Firm
    <2> QED BY <1>0, <2>2, <2>3, <2>4, <2>5, <2>6, InvokeAsks
  <1>9. ASSUME NEW nowait \in Nowaits, NEW t \in Tags \cup {0}, NEW no_ack \in NoAcks,
               basic_consume(c, t, nowait, no_ack)
        PROVE  Asked
    <2> DEFINE req == [Msg(channel_id[c], "BasicConsume", calls + 1)
                       EXCEPT !.tag = t, !.nowait = nowait, !.no_ack = no_ack]
    <2>1. Msg(channel_id[c], "BasicConsume", calls + 1) \in Message
      BY <1>0, RequestType, MethodsFacts
    <2>2. req \in Message
      BY <2>1, MessageUpdate, ConnectionAssumption
    <2>3. {"BasicConsumeOk"} \in SUBSET Replies /\ req.m = "BasicConsume"
      BY RepliesFacts DEF Msg
    <2>4. \/ Invoke(c, req, {"BasicConsumeOk"}, "consume")
          \/ nowait /\ send_method(c, <<req>>)
          \/ send_method_raises(c)
      BY <1>9 DEF basic_consume
    <2>5. Expected(req) \subseteq {"BasicConsumeOk"}
      BY <2>3 DEF Expected, ReplyTo
    <2>6. nowait => Silent(req)
      BY <2>1 DEF Silent, Expected, Message
    <2> HIDE DEF req
    <2>7. ItemOK(req, channel_id[c])
      BY <2>3 DEF ItemOK, Firm
    <2>8. CASE send_method_raises(c)
      BY <2>8, SameAsks DEF send_method_raises
    <2> QED BY <1>0, <2>2, <2>3, <2>4, <2>5, <2>6, <2>7, <2>8, InvokeAsks, SilentAsks
  <1>10. CASE basic_publish(c)
    <2> DEFINE req == Msg(channel_id[c], "ConfirmSelect", calls + 1)
    <2>1. req \in Message /\ {"ConfirmSelectOk"} \in SUBSET Replies /\ req.m = "ConfirmSelect"
      BY <1>0, RequestType, MethodsFacts, RepliesFacts DEF Msg
    <2>2. /\ UNCHANGED <<connection, channel_id>>
          /\ \/ send_method(c, <<req>>) /\ wait(stack, "select", c, {"ConfirmSelectOk"}, req)
             \/ UNCHANGED toServer
      BY <1>10 DEF basic_publish, Selects, send_method_raises
    <2>3. Expected(req) \subseteq {"ConfirmSelectOk"}
      BY <2>1 DEF Expected, ReplyTo
    <2> HIDE DEF req
    <2>4. ItemOK(req, channel_id[c])
      BY <2>1 DEF ItemOK, Firm
    <2> QED BY <1>0, <2>1, <2>2, <2>3, <2>4, WaitAsks, SameAsks DEF AbstractChannelTypeOK
  <1>11. CASE Channel_open(c)
    <2> DEFINE req == Msg(channel_id[c], "ChannelOpen", calls + 1)
    <2>1. /\ req \in Message /\ {"ChannelOpenOk"} \in SUBSET Replies
          /\ req.m = "ChannelOpen" /\ ~req.nowait
      BY <1>0, RequestType, MethodsFacts, RepliesFacts DEF Msg
    <2>2. Invoke(c, req, {"ChannelOpenOk"}, "open")
      BY <1>11 DEF Channel_open
    <2>3. Expected(req) \subseteq {"ChannelOpenOk"}
      BY <2>1 DEF Expected, ReplyTo
    <2> HIDE DEF req
    <2>4. ItemOK(req, channel_id[c])
      BY <2>1 DEF ItemOK
    <2> QED BY <1>0, <2>1, <2>2, <2>3, <2>4, InvokeAsks
  <1>12. CASE Channel_close(c)
    <2> DEFINE req == Msg(channel_id[c], "ChannelClose", calls + 1)
    <2>1. /\ req \in Message /\ {"ChannelCloseOk"} \in SUBSET Replies
          /\ req.m = "ChannelClose" /\ ~req.nowait
      BY <1>0, RequestType, MethodsFacts, RepliesFacts DEF Msg
    <2>2. \/ /\ send_method(c, <<req>>) /\ wait(stack, "close", c, {"ChannelCloseOk"}, req)
             /\ UNCHANGED <<connection, channel_id>>
          \/ UNCHANGED toServer
      BY <1>12 DEF Channel_close, send_method_raises
    <2>3. Expected(req) \subseteq {"ChannelCloseOk"}
      BY <2>1 DEF Expected, ReplyTo
    <2> HIDE DEF req
    <2>4. ItemOK(req, channel_id[c])
      BY <2>1 DEF ItemOK
    <2> QED BY <1>0, <2>1, <2>2, <2>3, <2>4, WaitAsks, SameAsks DEF AbstractChannelTypeOK
  <1> QED BY <1>5, <1>6, <1>7, <1>8, <1>9, <1>10, <1>11, <1>12 DEF ChannelCall

\* A new channel sends Open on the id it has claimed.
LEMMA NewChannelAsks ==
  ASSUME TypeOK, NEW id \in Ids, NewChannel(id)
  PROVE  Asked
  <1> DEFINE c == created + 1
             req == Msg(id, "ChannelOpen", calls + 1)
  <1>0. AbstractChannelTypeOK /\ c \in Obj /\ id \in Ids0
    BY SpecAssumption DEF TypeOK, NewChannel, Obj, Ids, Ids0
  <1>1. req \in Message
    BY <1>0, MsgType, MethodsFacts DEF AbstractChannelTypeOK
  <1>2. req.m = "ChannelOpen" /\ ~req.nowait
    BY DEF Msg
  <1>3. connection'[c] /\ channel_id'[c] = id
    BY <1>0 DEF NewChannel, AbstractChannelTypeOK
  <1>4. \/ UNCHANGED toServer
        \/ /\ toServer' = [toServer EXCEPT ![id] = Append(@, req)]
           /\ wait(stack, "open", c, {"ChannelOpenOk"}, req)
    BY DEF NewChannel
  <1> HIDE DEF c, req
  <1>5. CASE /\ toServer' = [toServer EXCEPT ![id] = Append(@, req)]
             /\ wait(stack, "open", c, {"ChannelOpenOk"}, req)
    <2>1. {"ChannelOpenOk"} \in SUBSET Replies /\ Expected(req) \subseteq {"ChannelOpenOk"}
      BY <1>2, RepliesFacts DEF Expected, ReplyTo
    <2>2. Lonely(req, c)
      BY <1>0, <1>1, <1>5, <2>1, WaitLonely DEF AbstractChannelTypeOK
    <2>3. ItemOK(req, id)
      BY <1>2 DEF ItemOK
    <2>4. toServer \in [Ids0 -> Seq(Message)] /\ <<req>> \in Seq(Message)
      BY <1>0, <1>1 DEF AbstractChannelTypeOK
    <2>5. ASSUME NEW k \in Ids0, NEW x \in Items(toServer'[k]), x \notin Items(toServer[k])
          PROVE  k = id /\ x = req
      <3>1. k = id
        BY <1>5, <2>4, <2>5
      <3>2. toServer'[k] = toServer[k] \o <<req>>
        BY <1>1, <1>5, <2>4, <3>1, AppendIsConcat
      <3>3. x \in Items(<<req>>)
        BY <2>4, <2>5, <3>2, ItemsConcat
      <3> QED BY <1>1, <3>1, <3>3, ItemsOne
    <2> QED BY <1>0, <1>3, <2>2, <2>3, <2>5 DEF Asked
  <1> QED BY <1>4, <1>5, SameAsks

\* Every call of the application.
LEMMA AppCallAsks ==
  ASSUME TypeOK, RegistryOK, AppCall
  PROVE  Asked
  <1>0. AbstractChannelTypeOK /\ 0 \in Obj /\ 0 \in Ids0 /\ stack \in Seq(Frame)
    BY SpecAssumption DEF TypeOK, AbstractChannelTypeOK, Obj, Ids0
  <1>1. ASSUME NEW c \in 1 .. created, ChannelCall(c) PROVE Asked
    <2>1. c \in Chan
      BY SpecAssumption DEF TypeOK, Chan
    <2> QED BY <1>0, <1>1, <2>1, ChannelCallAsks
  <1>2. ASSUME NEW id \in ExplicitIds, channel(id) PROVE Asked
    <2>1. ASSUME NEW e, NoChannel(e) PROVE Asked
      BY <2>1, SameAsks DEF NoChannel
    <2>2. id # 0 => id \in Ids
      BY ConnectionAssumption, SpecAssumption DEF Ids, Ids0
    <2> QED BY <1>2, <2>1, <2>2, FreeIdType, NewChannelAsks DEF channel
  <1>3. CASE drain_events
    BY <1>3, SameAsks DEF drain_events
  <1>4. CASE Connection_close
    <2> DEFINE req == Msg(0, "ConnectionClose", calls + 1)
    <2>1. req \in Message /\ {"ConnectionCloseOk"} \in SUBSET Replies
      BY <1>0, MsgType, MethodsFacts, RepliesFacts DEF AbstractChannelTypeOK
    <2>2. req.m = "ConnectionClose" /\ ~req.nowait
      BY DEF Msg
    <2>3. \/ /\ send_method(0, <<req>>) /\ wait(stack, "connclose", 0, {"ConnectionCloseOk"}, req)
             /\ UNCHANGED <<connection, channel_id>>
          \/ UNCHANGED toServer
      BY <1>4 DEF Connection_close, send_method_raises
    <2>4. Expected(req) \subseteq {"ConnectionCloseOk"}
      BY <2>2 DEF Expected, ReplyTo
    <2> HIDE DEF req
    <2>5. ItemOK(req, channel_id[0])
      BY <2>2 DEF ItemOK, RegistryOK
    <2> QED BY <1>0, <2>1, <2>3, <2>4, <2>5, WaitAsks, SameAsks
  <1> QED BY <1>1, <1>2, <1>3, <1>4 DEF AppCall

\* A method without a reply, sent by a handler.
LEMMA HandlerAsks ==
  ASSUME AbstractChannelTypeOK, NEW c \in Obj, NEW m \in Methods \ Sync,
         send_method(c, <<Msg(channel_id[c], m, 0)>>)
  PROVE  Asked
  <1> DEFINE x == Msg(channel_id[c], m, 0)
  <1>1. x \in Message
    BY RequestType
  <1>2. x.m = m /\ ~x.nowait
    BY DEF Msg
  <1> HIDE DEF x
  <1>3. Silent(x) /\ ItemOK(x, channel_id[c])
    BY <1>2, MethodsFacts DEF Silent, Expected, ItemOK
  <1> QED BY <1>1, <1>3, SilentAsks DEF x

\* _do_revive: Close-Ok and Open.
LEMMA ReviveAsks ==
  ASSUME AbstractChannelTypeOK, stack # <<>>, NEW c \in Obj, do_revive(c),
         UNCHANGED <<connection, channel_id>>
  PROVE  Asked
  <1> DEFINE agreed == Agreed(c)
             reopen == Msg(channel_id[c], "ChannelOpen", 0)
             ms == <<agreed, reopen>>
  <1>1. agreed \in Message /\ reopen \in Message
    BY RequestType, MethodsFacts DEF Agreed
  <1>2. /\ agreed.m = "ChannelCloseOk" /\ ~agreed.nowait
        /\ reopen.m = "ChannelOpen" /\ ~reopen.nowait
    BY DEF Agreed, Msg
  <1>3. send_method(c, ms) /\ wait(Drained(stack), "revive", c, {"ChannelOpenOk"}, reopen)
    BY DEF do_revive
  <1>4. ms \in Seq(Message) /\ \A x \in Items(ms) : x = agreed \/ x = reopen
    <2> HIDE DEF agreed, reopen
    <2> QED BY <1>1, ItemsTwo
  <1> HIDE DEF agreed, reopen, ms
  <1>5. ItemOK(agreed, channel_id[c]) /\ ItemOK(reopen, channel_id[c])
    BY <1>2 DEF ItemOK
  <1>6. Silent(agreed)
    BY <1>2 DEF Silent, Expected, Sync, ReplyTo
  <1>7. Lonely(reopen, c)
    <2>1. {"ChannelOpenOk"} \in SUBSET Replies /\ Expected(reopen) \subseteq {"ChannelOpenOk"}
      BY <1>2, RepliesFacts DEF Expected, ReplyTo
    <2>2. Drained(stack) \in Seq(Frame)
      BY DrainedType DEF AbstractChannelTypeOK
    <2> QED BY <1>1, <1>3, <2>1, <2>2, WaitLonely
  <1> QED BY <1>3, <1>4, <1>5, <1>6, <1>7, SendAsks

\* _basic_publish writes the message.
LEMMA PublishAsks ==
  ASSUME TypeOK, RepliesOK, PublishWrites
  PROVE  Asked
  <1>0. AbstractChannelTypeOK /\ stack \in Seq(Frame) /\ stack # <<>> /\ Top.op = "publish"
    BY DEF TypeOK, AbstractChannelTypeOK, PublishWrites
  <1>1. Top \in Frame /\ Len(stack) \in 1 .. Len(stack) /\ Top = stack[Len(stack)]
    BY <1>0, TopType DEF Top
  <1>2. Top.ch \in Obj /\ Top.req \in Message
    BY <1>1 DEF Frame
  <1>3. Matched(Top)
    BY <1>1 DEF RepliesOK
  <1>4. Top.req.m = "BasicPublish" /\ ~Top.req.nowait
    BY <1>0, <1>3 DEF Matched
  <1>5. ItemOK(Top.req, channel_id[Top.ch])
    BY <1>4 DEF ItemOK
  <1>6. Pop(stack) \in Seq(Frame) /\ {"BasicAck", "BasicNack"} \in SUBSET Replies
    BY <1>0, PopType, RepliesFacts
  <1>7. Expected(Top.req) \subseteq {"BasicAck", "BasicNack"}
    BY <1>4 DEF Expected, ReplyTo
  <1>8. /\ UNCHANGED <<connection, channel_id>>
        /\ \/ UNCHANGED toServer
           \/ send_method(Top.ch, <<Top.req>>) /\ ~ConfirmPublish
           \/ /\ send_method(Top.ch, <<Top.req>>)
              /\ wait(Pop(stack), "confirm", Top.ch, {"BasicAck", "BasicNack"}, Top.req)
    BY DEF PublishWrites, send_method_raises
  <1>9. ~ConfirmPublish => Silent(Top.req)
    BY <1>4 DEF Silent
  <1> QED BY <1>0, <1>2, <1>5, <1>6, <1>7, <1>8, <1>9, WaitAsks, SilentAsks, SameAsks

\* Every step of a channel.
LEMMA ChannelStepAsks ==
  ASSUME TypeOK, RepliesOK, ChannelStep
  PROVE  Asked
  <1>0. AbstractChannelTypeOK
    BY DEF TypeOK
  <1>1. {"ChannelCloseOk", "ChannelFlowOk", "BasicReject"} \subseteq Methods \ Sync
    BY DEF Methods, Async, Sync, ReplyTo
  <1>2. CASE Channel_on_close
    <2>1. Takes /\ UNCHANGED <<connection, channel_id>>
      BY <1>2 DEF Channel_on_close, Dispatches
    <2>2. Target \in Obj /\ stack # <<>>
      BY <1>0, <2>1, InType
    <2>3. \/ UNCHANGED toServer \/ do_revive(Target)
          \/ send_method(Target, <<Msg(channel_id[Target], "ChannelCloseOk", 0)>>)
      BY <1>2 DEF Channel_on_close, send_method_raises, Agrees, Agreed
    <2> QED BY <1>0, <1>1, <2>1, <2>2, <2>3, SameAsks, ReviveAsks, HandlerAsks
  <1>3. CASE on_flow
    <2>1. Target \in Obj
      BY <1>0, <1>3, InType DEF on_flow, Dispatches
    <2>2. \/ UNCHANGED toServer
          \/ send_method(Target, <<Msg(channel_id[Target], "ChannelFlowOk", 0)>>)
      BY <1>3 DEF on_flow, send_method_raises
    <2> QED BY <1>0, <1>1, <2>1, <2>2, SameAsks, HandlerAsks
  <1>4. CASE on_basic_deliver
    <2>1. Target \in Obj
      BY <1>0, <1>4, InType DEF on_basic_deliver, Dispatches
    <2>2. \/ UNCHANGED toServer
          \/ send_method(Target, <<Msg(channel_id[Target], "BasicReject", 0)>>)
      BY <1>4 DEF on_basic_deliver, send_method_raises
    <2> QED BY <1>0, <1>1, <2>1, <2>2, SameAsks, HandlerAsks
  <1>5. CASE \/ Channel_on_open_ok \/ Channel_on_close_ok \/ on_basic_cancel_ok \/ on_basic_cancel
             \/ on_basic_ack \/ on_basic_nack \/ on_basic_return \/ CloseReturns
             \/ ReviveReturns \/ ConsumeReturns \/ SelectReturns
    BY <1>5, SameAsks DEF Channel_on_open_ok, Channel_on_close_ok, on_basic_cancel_ok,
       on_basic_cancel, on_basic_ack, on_basic_nack, on_basic_return, CloseReturns,
       ReviveReturns, ConsumeReturns, SelectReturns
  <1> QED BY <1>2, <1>3, <1>4, <1>5, PublishAsks DEF ChannelStep

\* Every step.
LEMMA NextAsks ==
  ASSUME TypeOK, RepliesOK, RegistryOK, [Next]_vars
  PROVE  Asked
  <1>0. AbstractChannelTypeOK /\ 0 \in Obj
    BY SpecAssumption DEF TypeOK, Obj
  <1>1. CASE BaseStep
    BY <1>1, SameAsks DEF BaseStep, ReturnPlain, ConnectionGone, UnwindPlain, UnwindCallback,
       CallbackCatch, Raised, Discard, UnknownChannel, ReadFails, OnReply
  <1>2. CASE Connection_on_close
    <2>1. \/ UNCHANGED toServer
          \/ send_method(0, <<Msg(0, "ConnectionCloseOk", 0)>>)
      BY <1>2 DEF Connection_on_close, send_method_raises
    <2>2. "ConnectionCloseOk" \in Methods \ Sync /\ channel_id[0] = 0
      BY DEF Methods, Async, Sync, ReplyTo, RegistryOK
    <2> QED BY <1>0, <2>1, <2>2, SameAsks, HandlerAsks
  <1>3. CASE \/ Connection_on_close_ok \/ ConnectionCloseReturns
             \/ on_blocked("ConnectionBlocked") \/ on_blocked("ConnectionUnblocked")
    BY <1>3, SameAsks DEF Connection_on_close_ok, on_blocked, ConnectionCloseReturns
  <1>4. CASE CallbackEnds \/ TimesOut \/ Idle \/ UNCHANGED vars
    BY <1>4, SameAsks DEF CallbackEnds, CallbackReturns, TimesOut, ReadTimesOut, Idle, vars
  <1>5. CASE BrokerStep
    <2>1. ASSUME NEW id \in Ids0, NEW ms, Receives(id, ms) PROVE Asked
      <3>1. /\ toServer \in [Ids0 -> Seq(Message)] /\ toServer[id] # <<>>
            /\ toServer' = [toServer EXCEPT ![id] = Tail(@)]
        BY <1>0, <2>1 DEF Receives, AbstractChannelTypeOK
      <3>2. \A k \in Ids0 : Items(toServer'[k]) \subseteq Items(toServer[k])
        BY <3>1, ItemsTail
      <3> QED BY <3>2 DEF Asked
    <2>2. 0 \in Ids0 /\ Ids \subseteq Ids0
      BY SpecAssumption DEF Ids, Ids0
    <2>3. CASE BrokerReceives
      <3>1. \E id \in Ids0 : \E ms : Receives(id, ms)
        <4>1. CASE BrokerDisconnects
          BY <2>2, <4>1, Zenon DEF BrokerDisconnects
        <4>2. ASSUME NEW id, NEW m, BrokerReplies(id, m) PROVE \E ms : Receives(id, ms)
          BY <4>2, Zenon DEF BrokerReplies
        <4>3. ASSUME NEW id, NEW t, BrokerConsumes(id, t) PROVE \E ms : Receives(id, ms)
          BY <4>3, Zenon DEF BrokerConsumes
        <4>4. ASSUME NEW id, NEW r, NEW m, BrokerPublishes(id, r, m)
              PROVE  \E ms : Receives(id, ms)
          BY <4>4, Zenon DEF BrokerPublishes
        <4>5. ASSUME NEW id, \/ BrokerAccepts(id) \/ BrokerOpens(id) \/ BrokerCloses(id)
                             \/ BrokerDrops(id) \/ BrokerFails(id)
              PROVE  \E ms : Receives(id, ms)
          BY <4>5, Zenon DEF BrokerAccepts, BrokerOpens, BrokerCloses, BrokerDrops, BrokerFails
        <4> QED BY <2>2, <2>3, <4>1, <4>2, <4>3, <4>4, <4>5, Zenon DEF BrokerReceives
      <3> QED BY <2>1, <3>1
    <2>4. CASE BrokerEvent
      BY <2>4, SameAsks DEF BrokerEvent, BrokerDelivers, BrokerCancels, BrokerFlows,
         BrokerClosesChannel, BrokerBlocks, BrokerClosesConnection, SocketBreaks, Happens
    <2> QED BY <1>5, <2>3, <2>4 DEF BrokerStep
  <1> QED BY <1>1, <1>2, <1>3, <1>4, <1>5, AppCallAsks, ChannelStepAsks
          DEF Next, LibraryStep, ConnectionStep

\* The methods under way after a step.
LEMMA ItemsNext ==
  ASSUME TypeOK, TypeOK', ItemsOK, Asked, Flowed
  PROVE  ItemsOK'
  <1>1. \A id \in Ids0 : \A x \in Items(toServer'[id]) : ItemOK(x, id)
    BY DEF ItemsOK, Asked
  <1>2. ASSUME NEW x \in Items(toClient'), x.m = "ConnectionCloseOk" PROVE x.ch = 0
    <2>1. CASE x \in Items(toClient)
      BY <1>2, <2>1 DEF ItemsOK
    <2>2. ASSUME x.ch \in Ids0, NEW y \in Items(toServer[x.ch]), x.m \in Expected(y)
          PROVE  x.ch = 0
      <3>1. y.m = "ConnectionClose"
        BY <1>2, <2>2 DEF Expected, Sync, ReplyTo
      <3> QED BY <2>2, <3>1 DEF ItemsOK, ItemOK
    <2>3. "ConnectionCloseOk" \in Replies
      BY RepliesFacts
    <2> QED BY <1>2, <2>1, <2>2, <2>3 DEF Flowed
  <1> QED BY <1>1, <1>2 DEF ItemsOK

-----------------------------------------------------------------------------
(* The theorems.                                                           *)

ReplyInv == RepliesOK /\ ItemsOK /\ RegistryOK

\* The invariant holds initially.
LEMMA ReplyInit == Init => ReplyInv
  <1> SUFFICES ASSUME Init PROVE ReplyInv
    OBVIOUS
  <1>1. /\ stack = <<>> /\ toClient = <<>> /\ toServer = [id \in Ids0 |-> <<>>]
        /\ channels = [id \in Ids |-> 0] /\ channel_id = [c \in Obj |-> 0] /\ created = 0
        /\ 0 \in Obj
    BY SpecAssumption DEF Init, Obj
  <1>2. RepliesOK
    BY <1>1 DEF RepliesOK
  <1>3. ItemsOK
    BY <1>1, ItemsNone DEF ItemsOK
  <1>4. RegistryOK
    BY <1>1 DEF RegistryOK
  <1> QED BY <1>2, <1>3, <1>4 DEF ReplyInv

\* ... and is preserved by every step.
LEMMA ReplyNext ==
  ASSUME TypeOK, TypeOK', StackOK(pending, stack), CallsOK(pending, stack),
         CallsOK(pending, stack)', IdsConsistent', ReplyInv, [Next]_vars
  PROVE  ReplyInv'
  <1>1. RepliesOK /\ ItemsOK /\ RegistryOK
    BY DEF ReplyInv
  <1>2. Asked /\ Flowed /\ RegMove
    BY <1>1, NextAsks, NextFlowed, NextReg
  <1>3. Moved
    BY NextMoves, MoveKinds DEF TypeOK
  <1>4. RegistryOK'
    BY <1>1, <1>2, RegistryNext
  <1>5. ItemsOK'
    BY <1>1, <1>2, ItemsNext
  <1>6. RepliesOK'
    BY <1>1, <1>2, <1>3, <1>4, RepliesNext
  <1> QED BY <1>4, <1>5, <1>6 DEF ReplyInv

\* The invariant of the replies holds in every reachable state.
LEMMA ReplyCorrect == Spec => []ReplyInv
  <1> DEFINE Inv == TypeOK /\ StackOK(pending, stack) /\ CallsOK(pending, stack) /\ IdsConsistent
  <1>1. Inv /\ Inv' /\ ReplyInv /\ [Next]_vars => ReplyInv'
    BY ReplyNext
  <1>2. Spec => []Inv
    BY TypeCorrect, StackCorrect, CallsCorrect, IdsCorrect, PTL
  <1> HIDE DEF Inv
  <1> QED BY <1>1, <1>2, ReplyInit, PTL DEF Spec

(***************************************************************************)
(* A call that returns has the reply to its own request, however many      *)
(* calls are nested in its wait() and whatever they dispatch, as long as   *)
(* no other request that the same reply answers was outstanding on the     *)
(* channel.  (AMQP replies carry no number: with two such requests the     *)
(* client cannot tell the replies apart.)                                  *)
(***************************************************************************)
THEOREM RepliesMatch == Spec => []ReplyMatches
  <1>1. TypeOK /\ ReplyInv => ReplyMatches
    <2> SUFFICES ASSUME TypeOK, ReplyInv, NEW i \in DOMAIN stack,
                        stack[i].op \in WaitOps, stack[i].ready, stack[i].alone
                 PROVE  stack[i].got.rid = stack[i].req.rid
      BY DEF ReplyMatches
    <2>1. i \in 1 .. Len(stack)
      BY LenProperties DEF TypeOK, AbstractChannelTypeOK
    <2> QED BY <2>1 DEF ReplyInv, RepliesOK, Matched
  <1> QED BY <1>1, ReplyCorrect, TypeCorrect, PTL

(***************************************************************************)
(* basic_publish_confirm that returns, and was alone, has the Ack of the   *)
(* message it has published, never a Nack and never the Ack of another.    *)
(***************************************************************************)
THEOREM PublishedAlwaysAcked == Spec => []PublishedIsAcked
  <1>1. TypeOK /\ ReplyInv => PublishedIsAcked
    <2> SUFFICES ASSUME TypeOK, ReplyInv, NEW i \in DOMAIN stack,
                        stack[i].op = "confirm", stack[i].ready, stack[i].alone
                 PROVE  stack[i].got.m = "BasicAck" /\ stack[i].got.rid = stack[i].req.rid
      BY DEF PublishedIsAcked
    <2>1. i \in 1 .. Len(stack) /\ "confirm" \in WaitOps
      BY LenProperties DEF TypeOK, AbstractChannelTypeOK, WaitOps
    <2> QED BY <2>1 DEF ReplyInv, RepliesOK, Matched
  <1> QED BY <1>1, ReplyCorrect, TypeCorrect, PTL
=============================================================================
