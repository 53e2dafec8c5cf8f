-------------------------- MODULE ConsumerProofs ---------------------------
(***************************************************************************)
(* Proof that a message that is delivered reaches the callback given to    *)
(* the basic_consume call it is delivered for (DeliveryReachesConsumer),   *)
(* for every instance of module Connection in which nothing disturbs a     *)
(* basic_consume while it waits for Consume-Ok (Undisturbed).              *)
(*                                                                         *)
(* The callback of a tag is set by three methods of the broker, Consume-Ok *)
(* (through basic_consume, once it returns), Cancel-Ok and Cancel.  The    *)
(* invariant says of each Deliver on its way that the last of these before *)
(* it in the queue, or the callback of now if there is none, is that of    *)
(* its consumer (Told); and that at most one Consume or Consume-Ok is on   *)
(* its way, for the basic_consume that is in progress (OneConsume).  All   *)
(* of it holds as long as the connection lives.                            *)
(***************************************************************************)
EXTENDS AgreementProofs

(* The calls that send a method and wait for nothing. *)
Posts == {"BasicAck", "BasicReject", "BasicRecover", "BasicRecoverAsync"}

(* What the broker sends of its own accord to the callbacks of the         *)
(* application.                                                            *)
Pushed == {"BasicDeliver", "BasicCancel", "BasicReturn"}

(* No channel is closed by either side (Unrevived says that the broker     *)
(* closes none, and includes Orderly), the socket does not break, and      *)
(* basic_consume has no timeout.  The application has a callback for       *)
(* everything the broker sends of its own accord: without one the method   *)
(* raises an exception in whatever call is waiting.  It says nowait in no  *)
(* call, and its callbacks start no call that waits.  The last two are     *)
(* needed although nothing fails without them: the wait of a nested call   *)
(* may dispatch Consume-Ok and then a Deliver before the basic_consume     *)
(* further out registers its callback (channel.py basic_consume), and a    *)
(* basic_consume with nowait registers its callback at once, also when     *)
(* deliveries to the consumer that had the tag before, cancelled with      *)
(* nowait, are still on their way.                                         *)
Undisturbed ==
  /\ Unrevived /\ "ChannelClose" \notin Requests /\ "drop" \notin Events
  /\ CallbackRequests \subseteq Posts
  /\ Events \cap Pushed \subseteq Callbacks
  /\ "consume" \notin TimedOps
  /\ TRUE \notin Nowaits

(* Channels are opened and not closed: an id without an object is quiet. *)
SettledId(id) ==
  /\ bchan[id] # "closing" /\ "ChannelClose" \notin Names(toServer[id])
  /\ channels[id] = 0 => /\ toServer[id] = <<>> /\ bchan[id] = "closed"
                         /\ \A t \in Tags : bcons[id][t] = NoConsumer

(* What comes is for an object, and for a callback if it needs one. *)
Welcome(x) ==
  /\ x.m \notin {"ChannelClose", "ChannelCloseOk"}
  /\ x.ch # 0 => channels[x.ch] # 0
  /\ x.m \in Pushed => x.m \in Callbacks /\ (x.m # "BasicReturn" => x.tag \in Tags)

(* The connection works, and nothing is being closed. *)
Settled ==
  /\ sock
  /\ \A c \in Chan : ~is_closing[c] /\ (c <= created => connection[c])
  /\ \A id \in Ids : SettledId(id)
  /\ \A x \in Items(toClient) : Welcome(x)

(* A call of the application, and a callback on top of it. *)
Flat(s) ==
  /\ Len(s) <= 2
  /\ \A i \in 1 .. Len(s) : /\ s[i].op \notin {"close", "revive"}
                            /\ s[i].op = "callback" <=> i = 2

(* The call is basic_consume: it waits for Consume-Ok, or has it and is   *)
(* about to return.                                                        *)
Consuming(s) == s # <<>> /\ s[1].op = "consume"
Waiting == Consuming(stack) /\ ~stack[1].ready
Consumed == Consuming(stack) /\ stack[1].ready

(* basic_consume is not disturbed, and its promise is registered until it  *)
(* has its answer.                                                         *)
CallOK ==
  /\ Flat(stack)
  /\ Consuming(stack) =>
       /\ exc = "none" /\ stack[1].ch \in Chan /\ stack[1].on = {"BasicConsumeOk"}
       /\ stack[1].req.rid # 0
       /\ ~stack[1].ready => /\ pending[stack[1].ch]["BasicConsumeOk"] = 1
                             /\ stack[1].got = NoMsg
       /\ stack[1].ready => stack[1].got.tag \in Tags

(* A tag that has a callback has an on_cancel callback. *)
CancelOK ==
  "BasicCancel" \in Callbacks =>
    \A c \in Chan, t \in Tags : callbacks[c][t] # 0 => t \in cancel_callbacks[c]

(* The consumer being asked for is the only one. *)
Single(s, m) == \A i, j \in 1 .. Len(s) : s[i].m = m /\ s[j].m = m => i = j

(* x is the request of that basic_consume, or the answer to it. *)
Wanted(id, x) == Waiting /\ channels[id] = stack[1].ch /\ x.rid = stack[1].req.rid

(* Request or answer is on its way, not both, and nobody else's. *)
OneConsume ==
  /\ Single(toClient, "BasicConsumeOk")
  /\ \A x \in Items(toClient) : x.m = "BasicConsumeOk" =>
       x.ch \in Ids /\ Wanted(x.ch, x) /\ x.tag \in Tags
  /\ \A id \in Ids :
       /\ Single(toServer[id], "BasicConsume")
       /\ "BasicConsume" \in Names(toServer[id]) => "BasicConsumeOk" \notin Names(toClient)
       /\ \A x \in Items(toServer[id]) : x.m = "BasicConsume" => Wanted(id, x) /\ ~x.nowait

(* What is meant for the callback of tag t of a channel (Owed), and what   *)
(* changes this callback (Sets), and to what (Gives).                      *)
Setting == {"BasicConsumeOk", "BasicCancel", "BasicCancelOk"}
Owed(x, id, t) == x.ch = id /\ x.tag = t /\ x.m \in {"BasicDeliver", "BasicCancel"}
Sets(x, id, t) == x.ch = id /\ x.tag = t /\ x.m \in Setting
Gives(x) == IF x.m = "BasicConsumeOk" THEN x.rid ELSE 0

(* When the first n methods of q have been read, the callback is r; it is  *)
(* v now.                                                                  *)
Leads(q, n, id, t, v, r) ==
  /\ (\A k \in 1 .. n : ~Sets(q[k], id, t)) => v = r
  /\ \A j \in 1 .. n :
       Sets(q[j], id, t) /\ (\A k \in j + 1 .. n : ~Sets(q[k], id, t)) => Gives(q[j]) = r

(* Everything in q, and what consumer b will be sent after it, finds the   *)
(* callback it is meant for.                                               *)
Told(q, id, t, v, b) ==
  /\ \A n \in 1 .. Len(q) : Owed(q[n], id, t) =>
       q[n].rid # 0 /\ Leads(q, n - 1, id, t, v, q[n].rid)
  /\ b # NoConsumer => b.rid # 0 /\ Leads(q, Len(q), id, t, v, b.rid)

(* The callback, counting the one a basic_consume is about to register.    *)
Callback(id, t) ==
  IF Consumed /\ stack[1].ch = channels[id] /\ stack[1].got.tag = t
  THEN stack[1].req.rid ELSE callbacks[channels[id]][t]

(* Every method on its way, and every consumer, finds its callback. *)
ToldOK ==
  \A id \in Ids, t \in Tags : channels[id] # 0 =>
    Told(toClient, id, t, Callback(id, t), bcons[id][t])

(* The inductive invariant. *)
ConsumerInv ==
  CancelOK /\ (connection[0] => Settled /\ CallOK /\ OneConsume /\ ToldOK)

-----------------------------------------------------------------------------
(* The queues.                                                             *)

\* A queue that is taken from.
LEMMA SingleTaken ==
  ASSUME NEW s \in Seq(Message), s # <<>>, NEW m, Single(s, m)
  PROVE  Single(Tail(s), m) /\ (Head(s).m = m => m \notin Names(Tail(s)))
  <1>1. /\ Len(Tail(s)) = Len(s) - 1 /\ Len(s) \in Nat \ {0} /\ Head(s) = s[1]
        /\ \A i \in 1 .. Len(Tail(s)) : Tail(s)[i] = s[i + 1]
    BY HeadTailProperties, EmptySeq
  <1>2. Single(Tail(s), m)
    <2> SUFFICES ASSUME NEW i \in 1 .. Len(Tail(s)), NEW j \in 1 .. Len(Tail(s)),
                        Tail(s)[i].m = m, Tail(s)[j].m = m
                 PROVE  i = j
      BY DEF Single
    <2>1. i + 1 \in 1 .. Len(s) /\ j + 1 \in 1 .. Len(s) /\ s[i + 1].m = m /\ s[j + 1].m = m
      BY <1>1
    <2>2. i + 1 = j + 1
      BY <2>1 DEF Single
    <2> QED BY <2>2
  <1>3. ASSUME Head(s).m = m, m \in Names(Tail(s)) PROVE FALSE
    <2>1. PICK i \in 1 .. Len(Tail(s)) : Tail(s)[i].m = m
      BY <1>3 DEF Names, Items
    <2>2. i + 1 \in 1 .. Len(s) /\ 1 \in 1 .. Len(s) /\ s[i + 1].m = m /\ s[1].m = m
      BY <1>1, <1>3, <2>1
    <2>3. i + 1 = 1
      BY <2>2 DEF Single
    <2> QED BY <2>3
  <1> QED BY <1>2, <1>3

\* A queue that is appended to.
LEMMA SingleMore ==
  ASSUME NEW s \in Seq(Message), NEW x \in Message, NEW m, Single(s, m),
         x.m # m \/ m \notin Names(s)
  PROVE  Single(s \o <<x>>, m)
  <1>1. /\ Len(s \o <<x>>) = Len(s) + 1 /\ Len(s) \in Nat
        /\ \A i \in 1 .. Len(s) + 1 : (s \o <<x>>)[i] = IF i <= Len(s) THEN s[i] ELSE x
    BY OneMore
  <1>2. \A i \in 1 .. Len(s) : s[i].m \in Names(s)
    BY DEF Names, Items
  <1> QED BY <1>1, <1>2 DEF Single

\* The first method of a queue is read.
LEMMA ToldTaken ==
  ASSUME NEW q \in Seq(Message), q # <<>>, NEW id, NEW t, NEW v, NEW b, Told(q, id, t, v, b)
  PROVE  /\ Told(Tail(q), id, t, IF Sets(Head(q), id, t) THEN Gives(Head(q)) ELSE v, b)
         /\ Owed(Head(q), id, t) => v = Head(q).rid /\ v # 0
  <1> DEFINE p == Tail(q)
             h == Head(q)
             w == IF Sets(h, id, t) THEN Gives(h) ELSE v
  <1>1. /\ Len(p) = Len(q) - 1 /\ Len(q) \in Nat \ {0} /\ h = q[1]
        /\ \A i \in 1 .. Len(p) : p[i] = q[i + 1]
    BY HeadTailProperties, EmptySeq
  <1> HIDE DEF p, h
  <1>2. ASSUME NEW n \in 0 .. Len(p), NEW r, Leads(q, n + 1, id, t, v, r)
        PROVE  Leads(p, n, id, t, w, r)
    <2>0. 1 \in 1 .. n + 1 /\ \A k \in 1 .. n : k + 1 \in 1 .. n + 1 /\ p[k] = q[k + 1]
      BY <1>1
    <2>1. ASSUME NEW j \in 0 .. n, \A k \in j + 1 .. n : ~Sets(p[k], id, t)
          PROVE  \A k \in (j + 1) + 1 .. n + 1 : ~Sets(q[k], id, t)
      <3> SUFFICES ASSUME NEW k \in (j + 1) + 1 .. n + 1 PROVE ~Sets(q[k], id, t)
        OBVIOUS
      <3>1. k - 1 \in j + 1 .. n /\ p[k - 1] = q[k]
        BY <1>1
      <3> QED BY <2>1, <3>1
    <2>2. ASSUME \A k \in 1 .. n : ~Sets(p[k], id, t) PROVE w = r
      <3>1. \A k \in 1 + 1 .. n + 1 : ~Sets(q[k], id, t)
        <4>1. 0 \in 0 .. n /\ 0 + 1 = 1 /\ (0 + 1) + 1 = 1 + 1
          OBVIOUS
        <4> QED BY <2>1, <2>2, <4>1
      <3>2. CASE Sets(h, id, t)
        <4>1. Gives(q[1]) = r
          BY <1>1, <1>2, <2>0, <3>1, <3>2 DEF Leads
        <4> QED BY <1>1, <3>2, <4>1
      <3>3. CASE ~Sets(h, id, t)
        <4>1. \A k \in 1 .. n + 1 : ~Sets(q[k], id, t)
          BY <1>1, <3>1, <3>3
        <4> QED BY <1>2, <3>3, <4>1 DEF Leads
      <3> QED BY <3>2, <3>3
    <2>3. ASSUME NEW j \in 1 .. n, Sets(p[j], id, t), \A k \in j + 1 .. n : ~Sets(p[k], id, t)
          PROVE  Gives(p[j]) = r
      <3>1. j + 1 \in 1 .. n + 1 /\ p[j] = q[j + 1]
        BY <2>0
      <3>2. \A k \in (j + 1) + 1 .. n + 1 : ~Sets(q[k], id, t)
        BY <2>1, <2>3
      <3> QED BY <1>2, <2>3, <3>1, <3>2 DEF Leads
    <2> HIDE DEF w
    <2> QED BY <2>2, <2>3 DEF Leads
  <1> HIDE DEF w
  <1>3. ASSUME NEW n \in 1 .. Len(p), Owed(p[n], id, t)
        PROVE  p[n].rid # 0 /\ Leads(p, n - 1, id, t, w, p[n].rid)
    <2>1. n + 1 \in 1 .. Len(q) /\ p[n] = q[n + 1] /\ (n + 1) - 1 = (n - 1) + 1
          /\ n - 1 \in 0 .. Len(p)
      BY <1>1
    <2>2. q[n + 1].rid # 0 /\ Leads(q, (n - 1) + 1, id, t, v, q[n + 1].rid)
      BY <1>3, <2>1 DEF Told
    <2> QED BY <1>2, <2>1, <2>2
  <1>4. ASSUME b # NoConsumer PROVE b.rid # 0 /\ Leads(p, Len(p), id, t, w, b.rid)
    <2>1. Len(q) = Len(p) + 1 /\ Len(p) \in 0 .. Len(p)
      BY <1>1
    <2> QED BY <1>2, <1>4, <2>1 DEF Told
  <1>5. Told(p, id, t, w, b)
    BY <1>3, <1>4 DEF Told
  <1>6. ASSUME Owed(h, id, t) PROVE v = h.rid /\ v # 0
    <2>1. 1 \in 1 .. Len(q) /\ Owed(q[1], id, t) /\ 1 - 1 = 0
      BY <1>1, <1>6
    <2>2. q[1].rid # 0 /\ Leads(q, 0, id, t, v, q[1].rid)
      BY <2>1 DEF Told
    <2> QED BY <1>1, <2>2 DEF Leads
  <1> QED BY <1>5, <1>6 DEF p, h, w

\* A method is appended to a queue.
LEMMA ToldMore ==
  ASSUME NEW q \in Seq(Message), NEW x \in Message, NEW id, NEW t, NEW v, NEW b, NEW b2,
         Told(q, id, t, v, b), Owed(x, id, t) => b # NoConsumer /\ x.rid = b.rid,
         b2 # NoConsumer => IF Sets(x, id, t) THEN b2.rid = Gives(x) /\ b2.rid # 0 ELSE b2 = b
  PROVE  Told(q \o <<x>>, id, t, v, b2)
  <1> DEFINE p == q \o <<x>>
  <1>1. /\ Len(p) = Len(q) + 1 /\ Len(q) \in Nat
        /\ \A i \in 1 .. Len(q) + 1 : p[i] = IF i <= Len(q) THEN q[i] ELSE x
    BY OneMore
  <1> HIDE DEF p
  <1>2. \A i \in 1 .. Len(q) : p[i] = q[i]
    BY <1>1
  <1>3. ASSUME NEW n \in 0 .. Len(q), NEW r, Leads(q, n, id, t, v, r)
        PROVE  Leads(p, n, id, t, v, r)
    <2>1. \A k \in 1 .. n : p[k] = q[k]
      BY <1>1, <1>2
    <2>2. \A j \in 1 .. n : \A k \in j + 1 .. n : p[k] = q[k]
      BY <1>1, <1>2
    <2> QED BY <1>3, <2>1, <2>2 DEF Leads
  <1>4. ASSUME NEW n \in 1 .. Len(p), Owed(p[n], id, t)
        PROVE  p[n].rid # 0 /\ Leads(p, n - 1, id, t, v, p[n].rid)
    <2>1. CASE n <= Len(q)
      <3>1. n \in 1 .. Len(q) /\ p[n] = q[n] /\ n - 1 \in 0 .. Len(q)
        BY <1>1, <2>1
      <3> QED BY <1>3, <1>4, <3>1 DEF Told
    <2>2. CASE n = Len(q) + 1
      <3>1. p[n] = x /\ n - 1 = Len(q) /\ Len(q) \in 0 .. Len(q)
        BY <1>1, <2>2
      <3> QED BY <1>3, <1>4, <3>1 DEF Told
    <2> QED BY <1>1, <2>1, <2>2
  <1>5. ASSUME b2 # NoConsumer PROVE b2.rid # 0 /\ Leads(p, Len(p), id, t, v, b2.rid)
    <2>0. Len(p) \in 1 .. Len(p) /\ p[Len(p)] = x
      BY <1>1
    <2>1. CASE Sets(x, id, t)
      <3>1. b2.rid = Gives(x) /\ b2.rid # 0
        BY <1>5, <2>1
      <3>2. ASSUME NEW j \in 1 .. Len(p), \A k \in j + 1 .. Len(p) : ~Sets(p[k], id, t)
            PROVE  j = Len(p)
        <4>1. j < Len(p) => Len(p) \in j + 1 .. Len(p)
          BY <1>1
        <4> QED BY <1>1, <2>0, <2>1, <3>2, <4>1
      <3> QED BY <2>0, <2>1, <3>1, <3>2 DEF Leads
    <2>2. CASE ~Sets(x, id, t)
      <3>1. b2 = b /\ b.rid # 0 /\ Leads(q, Len(q), id, t, v, b.rid)
        BY <1>5, <2>2 DEF Told
      <3>2. Leads(p, Len(q), id, t, v, b.rid)
        BY <1>1, <1>3, <3>1
      <3>3. ASSUME NEW j \in 1 .. Len(p), Sets(p[j], id, t),
                   \A k \in j + 1 .. Len(p) : ~Sets(p[k], id, t)
            PROVE  Gives(p[j]) = b.rid
        <4>1. j \in 1 .. Len(q) /\ \A k \in j + 1 .. Len(q) : k \in j + 1 .. Len(p)
          BY <1>1, <2>0, <2>2, <3>3
        <4> QED BY <3>2, <3>3, <4>1 DEF Leads
      <3>4. ASSUME \A k \in 1 .. Len(p) : ~Sets(p[k], id, t) PROVE v = b.rid
        <4>1. \A k \in 1 .. Len(q) : k \in 1 .. Len(p)
          BY <1>1
        <4> QED BY <3>2, <3>4, <4>1 DEF Leads
      <3> QED BY <3>1, <3>3, <3>4 DEF Leads
    <2> QED BY <2>1, <2>2
  <1>6. Told(p, id, t, v, b2)
    BY <1>4, <1>5 DEF Told
  <1> QED BY <1>6 DEF p

-----------------------------------------------------------------------------
(* The stack: what comes and goes while basic_consume waits.               *)

(* The stack stays flat, no basic_consume comes or goes, and nothing is    *)
(* raised in one.                                                          *)
Still ==
  /\ Flat(stack') /\ (Consuming(stack') <=> Consuming(stack))
  /\ Consuming(stack) => exc' = "none"

\* The frame on top of a flat stack.
LEMMA FlatTop ==
  ASSUME stack \in Seq(Frame), Flat(stack), stack # <<>>
  PROVE  /\ Len(stack) \in {1, 2} /\ 1 \in 1 .. Len(stack)
         /\ Top.op \notin {"close", "revive"}
         /\ Top.op = "callback" <=> Len(stack) = 2
         /\ Top.op # "callback" => Len(stack) = 1 /\ Top = stack[1]
  <1>1. Len(stack) \in Nat \ {0} /\ Len(stack) <= 2
    BY TopType DEF Flat
  <1> DEFINE n == Len(stack)
  <1>a. n \in Nat \ {0} /\ n <= 2
    BY <1>1
  <1>2. n \in 1 .. n /\ n \in {1, 2} /\ 1 \in 1 .. n
    <2> HIDE DEF n
    <2> QED BY <1>a
  <1>3. Top = stack[Len(stack)] /\ Top.op \notin {"close", "revive"}
        /\ (Top.op = "callback" <=> Len(stack) = 2)
    BY <1>2 DEF Flat, Top
  <1> QED BY <1>2, <1>3

\* No frame comes or goes.
LEMMA StillSame ==
  ASSUME stack \in Seq(Frame), stack' \in Seq(Frame), Flat(stack), Len(stack') = Len(stack),
         \A i \in 1 .. Len(stack) : stack'[i].op = stack[i].op,
         Consuming(stack) => exc' = "none"
  PROVE  Still
  <1>1. stack' = <<>> <=> stack = <<>>
    BY EmptySeq
  <1>2. stack # <<>> => 1 \in 1 .. Len(stack)
    BY FlatTop
  <1> QED BY <1>1, <1>2 DEF Still, Flat, Consuming

\* A frame goes.
LEMMA StillLess ==
  ASSUME stack \in Seq(Frame), stack' \in Seq(Frame), Flat(stack), stack # <<>>,
         Len(stack') = Len(stack) - 1,
         \A i \in 1 .. Len(stack') : stack'[i].op = stack[i].op,
         Top.op # "consume", Consuming(stack) => exc' = "none"
  PROVE  Still
  <1>1. /\ Len(stack) \in {1, 2} /\ Len(stack') \in {0, 1} /\ (Len(stack') = 1 <=> Len(stack) = 2)
        /\ Len(stack) = 1 => Top = stack[1]
    BY FlatTop
  <1>2. stack' = <<>> <=> Len(stack') = 0
    BY EmptySeq
  <1>3. Flat(stack')
    BY <1>1 DEF Flat
  <1>4. CASE Len(stack) = 1
    BY <1>1, <1>2, <1>3, <1>4 DEF Still, Consuming
  <1>5. CASE Len(stack) = 2
    <2>1. stack'[1].op = stack[1].op /\ stack' # <<>>
      BY <1>1, <1>2, <1>5
    <2> QED BY <1>3, <2>1 DEF Still, Consuming
  <1> QED BY <1>1, <1>4, <1>5

\* The only frame is put in the place of none, or of another one.
LEMMA StillFirst ==
  ASSUME stack' \in Seq(Frame), Len(stack') = 1,
         stack'[1].op \notin {"close", "revive", "callback", "consume"}, ~Consuming(stack)
  PROVE  Still
  BY EmptySeq DEF Still, Flat, Consuming

\* A frame on an empty stack.
LEMMA FirstPushed ==
  ASSUME NEW s \in Seq(Frame), s = <<>>, NEW f, stack' = Append(s, f)
  PROVE  Len(stack') = 1 /\ stack'[1] = f
  <1>1. s \in Seq({f}) /\ Len(s) = 0
    BY EmptySeq
  <1> QED BY <1>1, AppendProperties

\* A wait() that no other call is in progress with.
LEMMA WaitFirst ==
  ASSUME AbstractChannelTypeOK, NEW s \in Seq(Frame), s = <<>>, NEW op \in WaitOps, NEW c \in Obj,
         NEW on \in SUBSET Replies, NEW req \in Message, wait(s, op, c, on, req)
  PROVE  /\ stack' \in Seq(Frame) /\ Len(stack') = 1
         /\ stack'[1].op = op /\ stack'[1].ch = c /\ stack'[1].on = on /\ stack'[1].req = req
         /\ stack'[1].got = NoMsg /\ ~stack'[1].ready
         /\ \A m \in on : pending'[c][m] = 1
  <1> DEFINE t == Crowded(s, c, on)
             f == [op |-> op, ch |-> c, on |-> on, prev |-> pending[c], req |-> req,
                   got |-> NoMsg, ready |-> FALSE, alone |-> ~Outstanding(c, req.ch, on),
                   shot |-> 0]
  <1>1. t \in Seq(Frame) /\ Len(t) = 0
    BY CrowdedType, EmptySeq
  <1>2. stack' = Append(t, f)
    BY DEF wait
  <1>3. f \in Frame
    <2>1. Outstanding(c, req.ch, on) \in BOOLEAN
      BY DEF Outstanding
    <2>2. pending[c] \in [Replies -> Nat]
      BY DEF AbstractChannelTypeOK
    <2> QED BY <2>1, <2>2, NoMsgType DEF Frame
  <1>4. /\ f.op = op /\ f.ch = c /\ f.on = on /\ f.req = req /\ f.got = NoMsg /\ ~f.ready
    OBVIOUS
  <1> HIDE DEF t, f
  <1>5. stack' \in Seq(Frame) /\ Len(stack') = 1 /\ stack'[1] = f
    BY <1>1, <1>2, <1>3, AppendProperties
  <1>6. \A m \in on : pending'[c][m] = 1
    BY EmptySeq DEF wait, AbstractChannelTypeOK
  <1> QED BY <1>4, <1>5, <1>6

\* An action that leaves the stack as it is.
LEMMA StillUnchanged ==
  ASSUME AbstractChannelTypeOK, Flat(stack), UNCHANGED stack, Consuming(stack) => exc' = "none"
  PROVE  Still
  BY DEF Still

\* The handler returns, or the method is dropped.
LEMMA StillDrained ==
  ASSUME AbstractChannelTypeOK, Flat(stack), Reading, stack' = Drained(stack), UNCHANGED exc
  PROVE  Still
  <1>1. stack \in Seq(Frame) /\ stack # <<>> /\ exc' = "none"
    BY DEF AbstractChannelTypeOK, Reading
  <1>2. /\ stack' \in Seq(Frame) /\ Len(stack') = Len(stack)
        /\ \A i \in 1 .. Len(stack) : stack'[i].op = stack[i].op
    BY <1>1, DrainedType, DrainedLike DEF Like
  <1> QED BY <1>1, <1>2, StillSame

\* The handler calls the application.
LEMMA StillBack ==
  ASSUME AbstractChannelTypeOK, Flat(stack), Takes, NEW c \in Obj, NEW m, CallBack(c, m)
  PROVE  Still
  <1>1. stack \in Seq(Frame) /\ stack # <<>> /\ exc' = "none"
    BY DEF AbstractChannelTypeOK, Takes, Reading, CallBack
  <1>2. Len(stack) = 1 /\ Top = stack[1]
    BY <1>1, FlatTop DEF Takes, Reading
  <1> DEFINE s == Drained(stack)
             f == [op |-> "callback", ch |-> c, on |-> {}, prev |-> [r \in Replies |-> 0],
                   req |-> In, got |-> NoMsg, ready |-> FALSE, alone |-> TRUE,
                   shot |-> IF m \in Replies THEN pending[c][m] ELSE 0]
  <1>3. s \in Seq(Frame) /\ Len(s) = 1 /\ s[1].op = stack[1].op
    BY <1>1, <1>2, DrainedType, DrainedLike DEF Like
  <1>4. stack' = Append(s, f) /\ f.op = "callback"
    BY DEF CallBack
  <1> HIDE DEF s, f
  <1>5. Len(stack') = 2 /\ stack'[1] = s[1] /\ stack'[2] = f
    <2>1. pending[c] \in [Replies -> Nat] /\ (IF m \in Replies THEN pending[c][m] ELSE 0) \in Nat
      BY DEF AbstractChannelTypeOK
    <2>2. f \in Frame
      BY <2>1, InType, NoMsgType DEF Frame, f
    <2>3. /\ Len(stack') = Len(s) + 1 /\ stack'[Len(s) + 1] = f
          /\ \A i \in 1 .. Len(s) : stack'[i] = s[i]
      BY <1>3, <1>4, <2>2, AppendProperties
    <2> QED BY <1>3, <2>3
  <1>6. stack' # <<>>
    BY <1>5, EmptySeq
  <1>7. stack[1].op \notin {"close", "revive", "callback"}
    BY <1>1, <1>2, FlatTop
  <1>8. Flat(stack')
    BY <1>3, <1>4, <1>5, <1>7 DEF Flat
  <1> QED BY <1>1, <1>3, <1>5, <1>6, <1>8 DEF Still, Consuming

\* What an uncalled promise of basic_consume has on top of it.
LEMMA ConsumeTop ==
  ASSUME CallInv, CallOK, Consuming(stack)
  PROVE  /\ stack[1] \in Frame /\ 1 \in 1 .. Len(stack)
         /\ \A c \in Obj, m \in Replies \ {"BasicConsumeOk"} : Len(stack) = 1 => pending[c][m] = 0
         /\ Top.op = "callback" => Top.shot = 0 /\ Len(stack) = 2
         /\ connection[0] /\ Settled => connection[stack[1].ch]
  <1>1. stack \in Seq(Frame) /\ stack # <<>> /\ Flat(stack) /\ stack[1].op = "consume"
    BY DEF CallInv, TypeOK, AbstractChannelTypeOK, Consuming, CallOK
  <1>2. stack[1].on = {"BasicConsumeOk"} /\ stack[1].ch \in Chan
    BY DEF CallOK
  <1>3. Len(stack) \in {1, 2} /\ 1 \in 1 .. Len(stack) /\ (Top.op = "callback" <=> Len(stack) = 2)
    BY <1>1, FlatTop
  <1>4. ASSUME NEW c \in Obj, NEW m \in Replies \ {"BasicConsumeOk"}, Len(stack) = 1
        PROVE  pending[c][m] = 0
    BY <1>2, <1>4 DEF CallInv, StackOK, Live
  <1>5. ASSUME Len(stack) = 2 PROVE Top.shot = 0
    <2>1. Top = stack[2] /\ 2 \in 1 .. Len(stack) /\ stack[2] \in Frame
      BY <1>1, <1>5 DEF Top
    <2>2. stack[2].shot \in Nat
      BY <2>1 DEF Frame
    <2>3. CASE stack[2].shot # 0
      <3>1. /\ stack[2].shot < 2 /\ stack[2].req.m \in ListenedReplies
            /\ stack[2].req.m \in stack[stack[2].shot].on
        BY <2>1, <2>3 DEF CallInv, CallsOK, ShotsOK
      <3>2. stack[2].shot = 1
        BY <2>2, <2>3, <3>1
      <3> QED BY <1>2, <3>1, <3>2 DEF ListenedReplies
    <2> QED BY <2>1, <2>3
  <1>6. stack[1].ch <= created
    BY <1>1, <1>3 DEF CallInv, RepliesOK, Matched, WaitOps
  <1>7. stack[1] \in Frame
    BY <1>1, <1>3
  <1> QED BY <1>2, <1>3, <1>4, <1>5, <1>6, <1>7 DEF Settled

\* A reply is handed to the call that waits for it.
LEMMA StillShot ==
  ASSUME CallInv, CallOK, Takes, NEW c \in Obj, NEW m \in Replies, In.m = m, OneShot(c, m)
  PROVE  Still
  <1>1. stack \in Seq(Frame) /\ stack # <<>> /\ Flat(stack) /\ AbstractChannelTypeOK
    BY DEF CallInv, TypeOK, AbstractChannelTypeOK, Takes, Reading, CallOK
  <1>2. In \in Message /\ pending[c][m] \in Nat
    BY <1>1, InType DEF Takes, AbstractChannelTypeOK
  <1>3. /\ Drained(stack) \in Seq(Frame) /\ Len(Drained(stack)) = Len(stack)
        /\ \A i \in 1 .. Len(stack) : Drained(stack)[i].op = stack[i].op
    BY <1>1, DrainedType, DrainedLike DEF Like
  <1> DEFINE s == Drained(stack)
             p == pending[c][m]
  <1>4. stack' = Fulfilled(s, p, In) /\ exc' = RaisedBy(p, In)
    BY DEF OneShot
  <1> HIDE DEF s, p
  <1>5. stack' \in Seq(Frame) /\ Len(stack') = Len(stack)
    BY <1>2, <1>3, <1>4, FulfilledType DEF s, p
  <1>6. \A i \in 1 .. Len(stack) : stack'[i].op = s[i].op
    <2>1. CASE stack' = s
      BY <2>1
    <2>2. CASE stack' # s
      <3>1. p \in 1 .. Len(s) /\ s[p] \in Frame /\ s \in Seq(Frame)
        BY <1>3, <1>4, <2>2, LenProperties DEF Fulfilled, s
      <3> DEFINE f == [s[p] EXCEPT !.got = In, !.ready = In.m # "BasicNack"]
      <3>2. stack' = [s EXCEPT ![p] = f]
        BY <1>4, <2>2 DEF Fulfilled
      <3>3. f.op = s[p].op
        BY <3>1 DEF Frame
      <3> HIDE DEF f
      <3> QED BY <1>3, <3>1, <3>2, <3>3 DEF s
    <2> QED BY <2>1, <2>2
  <1>7. ASSUME Consuming(stack) PROVE exc' = "none"
    <2>1. Top.op # "callback" /\ Len(stack) = 1
      BY <1>1, FlatTop DEF Takes, Reading
    <2>2. m # "BasicConsumeOk" => p = 0
      BY <1>7, <2>1, ConsumeTop DEF p
    <2> QED BY <1>4, <2>2 DEF RaisedBy
  <1> QED BY <1>1, <1>3, <1>5, <1>6, <1>7, StillSame DEF s

\* A call that is not basic_consume, or a callback, returns or is left.
LEMMA StillLeave ==
  ASSUME AbstractChannelTypeOK, CallOK, Leave \/ stack' = Pop(stack), stack # <<>>,
         Top.op # "consume", exc' = exc \/ ~Consuming(stack)
  PROVE  Still
  <1>1. stack \in Seq(Frame) /\ stack' = Pop(stack) /\ Flat(stack)
    BY DEF AbstractChannelTypeOK, Leave, CallOK
  <1>2. /\ stack' \in Seq(Frame) /\ Len(stack') = Len(stack) - 1
        /\ \A i \in 1 .. Len(stack') : stack'[i].op = stack[i].op
    BY <1>1, PopType
  <1>3. Consuming(stack) => exc' = "none"
    BY DEF CallOK
  <1> QED BY <1>1, <1>2, <1>3, StillLess

\* A callback returns.
LEMMA StillReturns ==
  ASSUME CallInv, CallOK, CallbackReturns
  PROVE  Still
  <1>1. stack \in Seq(Frame) /\ stack # <<>> /\ Flat(stack) /\ AbstractChannelTypeOK /\ Top.op = "callback"
    BY DEF CallInv, TypeOK, AbstractChannelTypeOK, CallbackReturns, CallOK
  <1>2. Shrinks(pending, stack, pending', stack')
    BY <1>1, CallbackReturnsShrinks DEF CallInv
  <1>3. /\ Len(stack') = Len(stack) - 1
        /\ \A i \in 1 .. Len(stack) - 1 : stack'[i].op = stack[i].op
    BY <1>2 DEF Shrinks, Like
  <1>4. Top.shot \in Nat /\ Top.req \in Message /\ Pop(stack) \in Seq(Frame)
    BY <1>1, TopType, PopType DEF Frame
  <1>5. stack' \in Seq(Frame)
    BY <1>4, FulfilledType DEF CallbackReturns
  <1>6. Consuming(stack) => exc' = "none"
    BY <1>1, ConsumeTop DEF CallbackReturns, RaisedBy
  <1> QED BY <1>1, <1>3, <1>5, <1>6, StillLess

\* A basic_consume that waits is left alone until Consume-Ok is read.
LEMMA ConsumeKept ==
  ASSUME CallInv, CallInv', CallOK, Consuming(stack), StackMove, Still,
         Takes => In.m # "BasicConsumeOk"
  PROVE  LET f == stack[1] g == stack'[1] IN
         /\ g.ch = f.ch /\ g.on = f.on /\ g.req = f.req /\ g.got = f.got /\ (g.ready <=> f.ready)
         /\ ~f.ready =>
              pending'[f.ch]["BasicConsumeOk"] = pending[f.ch]["BasicConsumeOk"]
  <1> DEFINE f == stack[1]
             g == stack'[1]
             r == "BasicConsumeOk"
  <1>0. /\ stack \in Seq(Frame) /\ stack' \in Seq(Frame) /\ AbstractChannelTypeOK
        /\ StackOK(pending, stack) /\ CallsOK(pending, stack) /\ FramesOK(stack')
    BY DEF CallInv, TypeOK, AbstractChannelTypeOK, StackOK
  <1>1. /\ stack # <<>> /\ stack' # <<>> /\ Flat(stack) /\ f.op = "consume" /\ g.op = "consume"
        /\ f.on = {r} /\ f.ch \in Chan /\ f.ch \in Obj /\ r \in Replies
        /\ ~f.ready => pending[f.ch][r] = 1 /\ f.got = NoMsg
    BY ObjFacts, RepliesFacts DEF Consuming, Still, CallOK
  <1>2. /\ Len(stack) \in {1, 2} /\ 1 \in 1 .. Len(stack)
        /\ Top.op = "callback" <=> Len(stack) = 2
        /\ Top.op # "callback" => Top.op = "consume"
        /\ Top.op = "callback" => Top.shot = 0
    BY <1>0, <1>1, FlatTop, ConsumeTop
  <1>3. Len(stack') \in {1, 2} /\ 1 \in 1 .. Len(stack') /\ Flat(stack')
    <2> DEFINE n == Len(stack')
    <2>1. n \in Nat /\ n # 0 /\ n <= 2 /\ Flat(stack')
      BY <1>0, <1>1, EmptySeq DEF Still, Flat
    <2> HIDE DEF n
    <2>2. n \in {1, 2} /\ 1 \in 1 .. n
      BY <2>1
    <2> QED BY <2>1, <2>2 DEF n
  <1>4. Top.shot = 0
    <2>1. Top \in Frame /\ Len(stack) \in 1 .. Len(stack) /\ Top = stack[Len(stack)]
      BY <1>0, <1>1, TopType DEF Top
    <2>2. Top.op = "consume" => Top.shot = 0
      BY <1>0, <2>1 DEF CallsOK, ShotsOK
    <2> QED BY <1>2, <2>2
  <1>5. ASSUME Like(f, g)
        PROVE  /\ g.ch = f.ch /\ g.on = f.on /\ g.req = f.req
               /\ g.got = f.got /\ (g.ready <=> f.ready)
    <2>1. ~Gets(g)
      BY <1>1, <1>4, <1>5 DEF Gets, Brings, Like
    <2> QED BY <1>1, <1>5, <2>1 DEF Like, WaitOps
  <1> DEFINE Goal == /\ Like(f, g) /\ (~f.ready => pending'[f.ch][r] = pending[f.ch][r])
  <1>6. ASSUME Stays(pending, stack, pending', stack') PROVE Goal
    <2>1. Like(f, g)
      BY <1>2, <1>6 DEF Stays
    <2>2. ASSUME ~f.ready PROVE pending'[f.ch][r] = pending[f.ch][r]
      <3>1. ~Called(stack'[1])
        BY <1>1, <1>5, <2>1, <2>2 DEF Called
      <3> QED BY <1>1, <1>6, <2>2, <3>1 DEF Stays
    <2> QED BY <2>1, <2>2
  <1>7. ASSUME NEW s \in Seq(Frame), Len(s) = Len(stack),
               \A i \in 1 .. Len(stack) : Like(stack[i], s[i]),
               Grows(pending, s, pending', stack')
        PROVE  Goal
    <2>1. Len(stack) = 1 /\ Len(stack') = 2 /\ Like(f, g)
      <3>1. Len(stack') = Len(stack) + 1 /\ Like(s[1], g) /\ Like(f, s[1])
        BY <1>2, <1>7 DEF Grows
      <3> QED BY <1>2, <1>3, <3>1, LikeTrans
    <2>2. stack'[2].op = "callback" /\ stack'[2].on = {}
      <3>1. 2 \in 1 .. Len(stack')
        BY <2>1
      <3> QED BY <1>0, <1>3, <3>1 DEF Flat, FramesOK, WaitOps
    <2>3. ASSUME ~f.ready PROVE pending'[f.ch][r] = pending[f.ch][r]
      <3>1. /\ \/ pending'[f.ch][r] = pending[f.ch][r]
               \/ pending[f.ch][r] = stack'[2].shot
            /\ stack'[2].shot # 0 => /\ stack'[2].req.m \in ListenedReplies
                                     /\ stack'[2].req.m \in s[stack'[2].shot].on
        BY <1>1, <1>7, <2>1, <2>2 DEF Grows
      <3>2. CASE pending[f.ch][r] = stack'[2].shot
        <4>1. stack'[2].shot = 1 /\ s[1].on = {r}
          BY <1>1, <1>2, <1>7, <2>3, <3>2 DEF Like
        <4> QED BY <3>1, <4>1 DEF ListenedReplies
      <3> QED BY <3>1, <3>2
    <2> QED BY <2>1, <2>3
  <1>8. ASSUME Shrinks(pending, stack, pending', stack') PROVE Goal
    <2>1. Len(stack) = 2 /\ Like(f, g)
      <3>1. Len(stack') = Len(stack) - 1
        BY <1>8 DEF Shrinks
      <3>2. Len(stack) = 2
        BY <1>2, <1>3, <3>1
      <3>3. 1 \in 1 .. Len(stack) - 1
        BY <3>2
      <3> QED BY <1>8, <3>2, <3>3 DEF Shrinks
    <2>2. stack[Len(stack)].on = {}
      <3>1. 2 \in 1 .. Len(stack) /\ Len(stack) = 2
        BY <2>1
      <3> QED BY <1>0, <1>1, <3>1 DEF Flat, FramesOK, StackOK, WaitOps
    <2> QED BY <1>1, <1>8, <2>1, <2>2 DEF Shrinks
  <1>9. Goal
    <2>1. Drained(stack) \in Seq(Frame) /\ Len(Drained(stack)) = Len(stack)
          /\ \A i \in 1 .. Len(stack) : Like(stack[i], Drained(stack)[i])
      BY <1>0, <1>1, DrainedType, DrainedLike
    <2>2. CASE UNCHANGED <<stack, pending>>
      BY <2>2, LikeSelf
    <2>3. CASE Crowds
      <3>1. PICK c \in Obj, on \in SUBSET Replies : stack' = Crowded(stack, c, on)
        BY <2>3 DEF Crowds
      <3>2. Like(f, g)
        BY <1>0, <1>2, <3>1, CrowdedLike
      <3> QED BY <2>3, <3>2 DEF Crowds
    <2>4. CASE HandlerEnds
      BY <1>2, <2>1, <2>4 DEF HandlerEnds
    <2>5. CASE Fulfils
      BY <1>0, <1>6, <2>5, FulfilsStays
    <2>6. CASE Waits(stack) \/ (Pushes(stack) /\ UNCHANGED pending) \/ CallsBack
      <3>1. Grows(pending, stack, pending', stack')
        BY <1>0, <2>6, WaitGrows, PushGrows, CallsBackGrows
      <3> QED BY <1>0, <1>7, <3>1, LikeSelf
    <2>7. CASE Takes /\ Waits(Drained(stack))
      BY <1>0, <1>7, <2>1, <2>7, WaitGrows
    <2>8. CASE Leaves
      <3>1. stack' = Pop(stack) /\ pending' = Restored(Top)
        BY <2>8 DEF Leaves, Leave
      <3> QED BY <1>0, <1>1, <1>4, <1>8, <3>1, PopShrinks
    <2>9. CASE CallbackReturns
      BY <1>0, <1>8, <2>9, CallbackReturnsShrinks
    <2>10. ~Continues /\ ~SelectEnds
      BY <1>2 DEF Continues, SelectEnds
    <2> QED BY <2>2, <2>3, <2>4, <2>5, <2>6, <2>7, <2>8, <2>9, <2>10 DEF StackMove
  <1> QED BY <1>5, <1>9

-----------------------------------------------------------------------------
(* The steps of the client, as long as the connection lives.               *)

(* What is known of a step: what has been proved of calls, the invariant   *)
(* before it, and that the connection lives through it.                    *)
Going ==
  /\ Undisturbed /\ CallInv /\ CallInv' /\ ControlOK /\ PublishOK
  /\ CancelOK /\ Settled /\ CallOK /\ OneConsume /\ ToldOK
  /\ connection[0] /\ connection'[0]

(* What is sent, at most, is neither Consume nor Close, for an object. *)
Posted ==
  \/ UNCHANGED toServer
  \/ \E k \in Ids0, x \in Message :
       /\ x.m \notin {"BasicConsume", "ChannelClose"} /\ (k # 0 => channels'[k] # 0)
       /\ toServer' = [toServer EXCEPT ![k] = @ \o <<x>>]

(* A step that has nothing to do with consumers. *)
Beside ==
  /\ Still /\ Posted /\ UNCHANGED <<callbacks, cancel_callbacks, bcons>>
  /\ UNCHANGED toClient \/ Takes
  /\ Takes => In.m \notin Setting

(* basic_consume sends its request. *)
Asks(c, req) ==
  /\ stack = <<>> /\ exc = "none" /\ send_method(c, <<req>>)
  /\ wait(stack, "consume", c, {"BasicConsumeOk"}, req)
  /\ req \in Message /\ req.m = "BasicConsume" /\ req.rid # 0 /\ ~req.nowait
  /\ UNCHANGED <<channels, exc, callbacks, cancel_callbacks, bcons, toClient>>

(* Consume-Ok is read. *)
Begins ==
  /\ Dispatches("BasicConsumeOk") /\ OneShot(Target, "BasicConsumeOk")
  /\ UNCHANGED <<channels, callbacks, cancel_callbacks, bcons, toServer>>

(* Cancel-Ok or Cancel is read. *)
Stops ==
  /\ In.m \in {"BasicCancel", "BasicCancelOk"} /\ Dispatches(In.m)
  /\ Still /\ remove_tag(Target, In.tag)
  /\ UNCHANGED <<channels, bcons, toServer>>

\* A channel object can send.
LEMMA CanSend ==
  ASSUME Going, NEW c \in Chan, c <= created
  PROVE  /\ connection[c] /\ sock /\ ~send_method_raises(c) /\ c # 0 /\ c \in Obj
         /\ channel_id[c] \in Ids /\ channel_id[c] \in Ids0 /\ channel_id[c] # 0
         /\ channels[channel_id[c]] = c
  <1>1. connection[c] /\ sock
    BY DEF Going, Settled
  <1>2. channel_id[c] \in Ids /\ channels[channel_id[c]] = c
    BY <1>1 DEF Going, CallInv, IdsConsistent
  <1>3. channel_id[c] \in Ids0 /\ channel_id[c] # 0 /\ c # 0
    BY <1>2, SpecAssumption, ObjFacts DEF Ids, Ids0
  <1> QED BY <1>1, <1>2, <1>3, ObjFacts DEF send_method_raises

\* Whom a method that is read is for.
LEMMA Addressee ==
  ASSUME Going, Takes
  PROVE  /\ In \in Message /\ In \in Items(toClient) /\ Welcome(In)
         /\ In.ch = 0 => In.m \in Control /\ Target = 0
         /\ In.ch # 0 => /\ In.ch \in Ids /\ Target = channels[In.ch] /\ Target # 0
                         /\ Target \in Chan /\ Target <= created /\ ~is_closing[Target]
         /\ stack # <<>> /\ Len(stack) = 1 /\ Top = stack[1] /\ ~Top.ready /\ Target \in Obj
  <1>1. /\ toClient \in Seq(Message) /\ toClient # <<>> /\ channels \in [Ids -> Obj]
        /\ stack \in Seq(Frame) /\ stack # <<>> /\ Flat(stack)
        /\ Top.op # "callback" /\ ~Top.ready
    BY DEF Going, CallInv, TypeOK, AbstractChannelTypeOK, Takes, Reading, CallOK
  <1>2. In \in Items(toClient) /\ In \in Message
    BY <1>1, ItemsTaken, ItemsType DEF In
  <1>3. Welcome(In)
    BY <1>2 DEF Going, Settled
  <1>4. In.ch \in Ids0 /\ 0 \in Obj
    BY <1>2, ObjFacts DEF Message
  <1>5. ASSUME In.ch # 0
        PROVE  /\ In.ch \in Ids /\ Target = channels[In.ch] /\ Target # 0
               /\ Target \in Chan /\ Target <= created /\ ~is_closing[Target]
    <2>1. In.ch \in Ids /\ Target = channels[In.ch] /\ Target # 0
      BY <1>3, <1>4, <1>5, SpecAssumption DEF Ids, Ids0, Target, Welcome
    <2>2. Target \in Obj /\ Target <= created
      BY <1>1, <2>1 DEF Going, CallInv, RegistryOK
    <2>3. Target \in Chan
      BY <2>1, <2>2 DEF Obj, Chan
    <2> QED BY <2>1, <2>2, <2>3 DEF Going, Settled
  <1>6. In.ch = 0 => In.m \in Control /\ Target = 0
    BY <1>2 DEF Going, ControlOK, Target
  <1>7. Len(stack) = 1 /\ Top = stack[1]
    BY <1>1, FlatTop
  <1> QED BY <1>1, <1>2, <1>3, <1>4, <1>5, <1>6, <1>7, ObjFacts

\* A step that reads does not leave the queue as it is.
LEMMA TakesOne ==
  ASSUME Going, Takes
  PROVE  toClient' # toClient
  <1>1. toClient \in Seq(Message) /\ toClient # <<>> /\ toClient' = Tail(toClient)
    BY DEF Going, CallInv, TypeOK, AbstractChannelTypeOK, Takes
  <1>2. Len(toClient') = Len(toClient) - 1 /\ Len(toClient) \in Nat
    BY <1>1, HeadTailProperties, EmptySeq
  <1> QED BY <1>2

\* A method is sent for a channel, and nothing is read.
LEMMA PostedOne ==
  ASSUME Going, NEW c \in Chan, c <= created, NEW x \in Message,
         x.m \notin {"BasicConsume", "ChannelClose"}, UNCHANGED channels,
         send_method(c, <<x>>) \/ UNCHANGED toServer
  PROVE  Posted
  <1>1. channel_id[c] \in Ids0 /\ channels'[channel_id[c]] # 0
    BY CanSend
  <1> QED BY <1>1 DEF Posted, send_method

\* The application calls: outside of a callback, or to send and not to wait.
LEMMA InvokeBeside ==
  ASSUME Going, NEW c \in Chan, c <= created, NEW req \in Message,
         req.m \notin {"BasicConsume", "ChannelClose"}, NEW on \in SUBSET Replies,
         NEW op \in {"rpc", "open"}, on # {} => req.m \notin Posts, Invoke(c, req, on, op),
         UNCHANGED <<callbacks, cancel_callbacks, bcons>>
  PROVE  Beside
  <1>0. /\ AbstractChannelTypeOK /\ stack \in Seq(Frame) /\ stack' \in Seq(Frame) /\ Flat(stack)
        /\ CallOK /\ c \in Obj
    BY ObjFacts DEF Going, CallInv, TypeOK, AbstractChannelTypeOK, CallOK
  <1>1. /\ send_method(c, <<req>>) /\ UNCHANGED <<exc, toClient, channels>>
        /\ IF on = {} THEN stack' = Crowded(stack, c, Expected(req))
                      ELSE wait(stack, op, c, on, req)
    BY CanSend DEF Invoke
  <1>2. Posted
    BY <1>1, PostedOne
  <1>3. CASE on = {}
    <2>1. Expected(req) \in SUBSET Replies
      BY RepliesFacts DEF Expected
    <2>2. /\ Len(stack') = Len(stack)
          /\ \A i \in 1 .. Len(stack) : stack'[i].op = stack[i].op
      BY <1>0, <1>1, <1>3, <2>1, CrowdedLike DEF Like
    <2>3. Consuming(stack) => exc' = "none"
      BY <1>0, <1>1 DEF CallOK
    <2>4. Still
      BY <1>0, <2>2, <2>3, StillSame
    <2> QED BY <1>1, <1>2, <2>4, TakesOne DEF Beside
  <1>4. CASE on # {}
    <2>1. stack = <<>>
      <3>1. AppCalls(c, req.m) /\ CallbackRequests \subseteq Posts /\ req.m \notin Posts
        BY <1>4 DEF Invoke, Going, Undisturbed
      <3> QED BY <3>1 DEF AppCalls
    <2>2. Len(stack') = 1 /\ stack'[1].op = op
      <3>1. op \in WaitOps /\ wait(stack, op, c, on, req)
        BY <1>1, <1>4 DEF WaitOps
      <3> QED BY <1>0, <2>1, <3>1, WaitFirst
    <2>6. Still
      BY <1>0, <2>1, <2>2, StillFirst DEF Consuming
    <2> QED BY <1>1, <1>2, <2>6, TakesOne DEF Beside
  <1> QED BY <1>3, <1>4

\* A call that does more than send is made when no other is in progress.
LEMMA CallsAlone ==
  ASSUME Going, NEW c, NEW m, m \notin Posts, AppCalls(c, m)
  PROVE  stack = <<>> /\ ~Consuming(stack)
  <1>1. stack # <<>> => m \in CallbackRequests
    BY DEF AppCalls
  <1>2. CallbackRequests \subseteq Posts
    BY DEF Going, Undisturbed
  <1> QED BY <1>1, <1>2 DEF Consuming

\* Every public method of a channel.
LEMMA ChannelCallBeside ==
  ASSUME Going, NEW c \in Chan, c <= created, ChannelCall(c), UNCHANGED bcons
  PROVE  Beside \/ \E req : Asks(c, req)
  <1>0. /\ c \in Obj /\ AbstractChannelTypeOK /\ stack \in Seq(Frame) /\ stack' \in Seq(Frame)
        /\ calls \in Nat
    BY ObjFacts DEF Going, CallInv, TypeOK, AbstractChannelTypeOK
  <1>1. \A nowait \in Nowaits : nowait = FALSE
    BY ConnectionAssumption DEF Going, Undisturbed
  <1>2. ASSUME NEW m \in Sync \ (Posts \cup {"BasicConsume", "ChannelClose"}),
               Simple(c, m, FALSE)
        PROVE  Beside
    <2> DEFINE req == [Msg(channel_id[c], m, calls + 1) EXCEPT !.nowait = FALSE]
    <2>1. req \in Message /\ req.m = m
      <3>1. Msg(channel_id[c], m, calls + 1) \in Message
        BY <1>0, RequestType, MethodsFacts
      <3> QED BY <3>1, MessageUpdate DEF Msg
    <2>2. Invoke(c, req, ReplyTo[m], "rpc") /\ UNCHANGED <<callbacks, cancel_callbacks>>
      BY <1>2 DEF Simple, Rpc, chanVars, consumers
    <2>3. ReplyTo[m] \in SUBSET Replies
      BY RepliesFacts
    <2> HIDE DEF req
    <2> QED BY <2>1, <2>2, <2>3, InvokeBeside
  <1>3. ASSUME NEW m \in Posts, SimplePost(c, m) PROVE Beside
    <2> DEFINE req == Msg(channel_id[c], m, calls + 1)
    <2>1. m \in Methods /\ m \notin {"BasicConsume", "ChannelClose"}
      BY DEF Posts, Methods, Async, Sync, ReplyTo
    <2>2. req \in Message /\ req.m = m
      BY <1>0, <2>1, RequestType DEF Msg
    <2>3. Invoke(c, req, {}, "rpc") /\ UNCHANGED <<callbacks, cancel_callbacks>>
      BY <1>3 DEF SimplePost, Post, chanVars, consumers
    <2> HIDE DEF req
    <2> QED BY <2>1, <2>2, <2>3, InvokeBeside
  <1>4. {"ExchangeDeclare", "ExchangeDelete", "ExchangeBind", "ExchangeUnbind",
         "QueueDeclare", "QueueBind", "QueueUnbind", "QueueDelete", "QueuePurge",
         "ConfirmSelect", "ChannelFlow", "BasicGet", "BasicQos", "TxSelect",
         "TxCommit", "TxRollback"} \subseteq Sync \ (Posts \cup {"BasicConsume", "ChannelClose"})
    BY DEF Sync, ReplyTo, Posts
  <1>5. ASSUME NEW nowait \in Nowaits,
               \/ exchange_declare(c, nowait) \/ exchange_delete(c, nowait)
               \/ exchange_bind(c, nowait) \/ exchange_unbind(c, nowait)
               \/ queue_declare(c, nowait) \/ queue_bind(c, nowait)
               \/ queue_delete(c, nowait)
               \/ queue_purge(c, nowait) \/ confirm_select(c, nowait)
               \/ queue_unbind(c, nowait)
        PROVE  Beside
    <2>1. nowait = FALSE
      BY <1>1
    <2> QED BY <1>2, <1>4, <1>5, <2>1 DEF exchange_declare, exchange_delete,
              exchange_bind, exchange_unbind, queue_declare, queue_bind, queue_unbind,
              queue_delete, queue_purge, confirm_select
  <1>6. ASSUME \/ flow(c) \/ basic_get(c) \/ basic_qos(c)
               \/ tx_select(c) \/ tx_commit(c) \/ tx_rollback(c)
        PROVE  Beside
    BY <1>2, <1>4, <1>6 DEF flow, basic_get, basic_qos, tx_select, tx_commit, tx_rollback
  <1>7. ASSUME \/ basic_recover(c) \/ basic_recover_async(c) \/ basic_ack(c)
               \/ basic_reject(c)
        PROVE  Beside
    BY <1>3, <1>7 DEF basic_recover, basic_recover_async, basic_ack, basic_reject, Posts
  <1>8. ASSUME NEW nowait \in Nowaits, NEW t \in Tags, basic_cancel(c, t, nowait)
        PROVE  Beside
    <2> DEFINE req == [Msg(channel_id[c], "BasicCancel", calls + 1)
                       EXCEPT !.tag = t, !.nowait = nowait]
               on == IF nowait THEN {} ELSE {"BasicCancelOk"}
    <2>1. Msg(channel_id[c], "BasicCancel", calls + 1) \in Message
      BY <1>0, RequestType, MethodsFacts
    <2>2. req \in Message /\ req.m = "BasicCancel"
      BY <2>1, MessageUpdate, ConnectionAssumption DEF Msg
    <2>3. /\ Invoke(c, req, on, "rpc") /\ UNCHANGED <<callbacks, cancel_callbacks>>
          /\ on \in SUBSET Replies
      BY <1>8, RepliesFacts DEF basic_cancel
    <2> HIDE DEF req, on
    <2> QED BY <2>2, <2>3, InvokeBeside DEF Posts
  <1>9. ASSUME NEW nowait \in Nowaits, NEW t \in Tags \cup {0}, NEW no_ack \in NoAcks,
               basic_consume(c, t, nowait, no_ack)
        PROVE  \E req : Asks(c, req)
    <2> DEFINE req == [Msg(channel_id[c], "BasicConsume", calls + 1)
                       EXCEPT !.tag = t, !.nowait = nowait, !.no_ack = no_ack]
    <2>1. Msg(channel_id[c], "BasicConsume", calls + 1) \in Message
      BY <1>0, RequestType, MethodsFacts
    <2>2. req \in Message /\ req.m = "BasicConsume" /\ req.rid # 0 /\ ~req.nowait
      <3>1. no_ack \in BOOLEAN /\ nowait = FALSE /\ nowait \in BOOLEAN
        BY <1>1, ConnectionAssumption
      <3>2. req \in Message
        BY <2>1, <3>1, MessageUpdate
      <3>3. req.m = "BasicConsume" /\ req.rid = calls + 1 /\ req.nowait = FALSE
        BY <3>1 DEF Msg
      <3>4. calls + 1 # 0
        BY <1>0
      <3> HIDE DEF req
      <3> QED BY <3>2, <3>3, <3>4
    <2>3. Invoke(c, req, {"BasicConsumeOk"}, "consume") /\ UNCHANGED consumers
      BY <1>1, <1>9 DEF basic_consume
    <2> HIDE DEF req
    <2>4. stack = <<>>
      <3>1. AppCalls(c, "BasicConsume")
        BY <2>2, <2>3 DEF Invoke
      <3> QED BY <3>1, CallsAlone DEF Posts
    <2>5. /\ send_method(c, <<req>>) /\ wait(stack, "consume", c, {"BasicConsumeOk"}, req)
          /\ UNCHANGED <<exc, channels, toClient>> /\ exc = "none"
      BY <2>3, CanSend DEF Invoke, AppCalls
    <2> QED BY <2>2, <2>3, <2>4, <2>5 DEF Asks, consumers
  <1>10. CASE basic_publish(c)
    <2> DEFINE req == Msg(channel_id[c], "ConfirmSelect", calls + 1)
    <2>1. req \in Message /\ req.m = "ConfirmSelect"
      BY <1>0, RequestType, MethodsFacts DEF Msg
    <2>2. stack = <<>> /\ ~Consuming(stack)
      BY <1>10, CallsAlone DEF basic_publish, Posts
    <2>3. connection[c] /\ ~send_method_raises(c)
      BY CanSend
    <2>4. /\ UNCHANGED <<callbacks, cancel_callbacks, toClient, channels>>
          /\ \/ send_method(c, <<req>>) /\ wait(stack, "select", c, {"ConfirmSelectOk"}, req)
             \/ UNCHANGED toServer /\ stack' = Append(stack, PublishFrame(c, calls + 1))
      BY <1>10, <2>3 DEF basic_publish, Selects, consumers
    <2> HIDE DEF req
    <2>5. Posted
      BY <2>1, <2>4, PostedOne
    <2>6. Len(stack') = 1 /\ stack'[1].op \in {"select", "publish"}
      <3>1. CASE wait(stack, "select", c, {"ConfirmSelectOk"}, req)
        BY <1>0, <2>1, <2>2, <3>1, RepliesFacts, WaitFirst DEF WaitOps
      <3>2. CASE stack' = Append(stack, PublishFrame(c, calls + 1))
        <4> DEFINE f == PublishFrame(c, calls + 1)
        <4>1. f.op = "publish"
          BY DEF PublishFrame
        <4> HIDE DEF f
        <4> QED BY <1>0, <2>2, <3>2, <4>1, FirstPushed DEF f
      <3> QED BY <2>4, <3>1, <3>2
    <2>7. Still
      BY <1>0, <2>2, <2>6, StillFirst
    <2> QED BY <2>4, <2>5, <2>7, TakesOne DEF Beside
  <1>11. ~Channel_open(c) /\ ~Channel_close(c)
    <2>1. Msg(channel_id[c], "ChannelOpen", calls + 1).m = "ChannelOpen"
      BY DEF Msg
    <2> QED BY <2>1 DEF Channel_open, Channel_close, Invoke, AppCalls, Going, Undisturbed,
               Unrevived, Orderly
  <1> QED BY <1>5, <1>6, <1>7, <1>8, <1>9, <1>10, <1>11 DEF ChannelCall

\* Every call of the application.
LEMMA AppCallBeside ==
  ASSUME Going, AppCall
  PROVE  Beside \/ \E c \in Chan : c <= created /\ \E req : Asks(c, req)
  <1>0. /\ AbstractChannelTypeOK /\ stack \in Seq(Frame) /\ stack' \in Seq(Frame) /\ Flat(stack)
        /\ 0 \in Obj /\ 0 \in Ids0 /\ channel_id[0] = 0 /\ calls \in Nat /\ created \in 0 .. NumChans
    BY ObjFacts, SpecAssumption DEF Going, CallInv, TypeOK, AbstractChannelTypeOK, CallOK,
       RegistryOK, Ids0
  <1>1. ASSUME NEW c \in 1 .. created, ChannelCall(c), UNCHANGED <<brokerVars, created>>
        PROVE  Beside \/ \E d \in Chan : d <= created /\ \E req : Asks(d, req)
    <2>1. c \in Chan /\ c <= created /\ UNCHANGED bcons
      BY <1>0, <1>1, SpecAssumption DEF Chan, brokerVars
    <2> QED BY <1>1, <2>1, ChannelCallBeside
  <1>2. ASSUME NEW id \in ExplicitIds, channel(id) PROVE Beside
    <2>0. UNCHANGED bcons /\ stack = <<>> /\ ~Consuming(stack)
      BY <1>2, CallsAlone DEF channel, brokerVars, Posts
    <2>1. ASSUME NEW e, NoChannel(e) PROVE Beside
      <3>1. /\ UNCHANGED <<stack, toServer, toClient, callbacks, cancel_callbacks>>
        BY <2>1 DEF NoChannel, Raises, chanVars, consumers
      <3>2. Still
        BY <1>0, <2>0, <3>1, StillUnchanged
      <3> QED BY <2>0, <3>1, <3>2, TakesOne DEF Beside, Posted
    <2>2. ASSUME NEW k \in Ids \ used, NewChannel(k) PROVE Beside
      <3> DEFINE c == created + 1
                 req == Msg(k, "ChannelOpen", calls + 1)
      <3>1. c \in Obj /\ c # 0 /\ k \in Ids0 /\ req \in Message /\ req.m = "ChannelOpen"
        BY <1>0, <2>2, MsgType, MethodsFacts, SpecAssumption DEF NewChannel, Obj, Ids, Ids0, Msg
      <3>2. /\ toServer' = [toServer EXCEPT ![k] = Append(@, req)]
            /\ wait(stack, "open", c, {"ChannelOpenOk"}, req)
            /\ channels' = [channels EXCEPT ![k] = c]
            /\ UNCHANGED <<toClient, callbacks, cancel_callbacks>>
        BY <2>2 DEF NewChannel, Going, Settled, consumers
      <3> HIDE DEF c, req
      <3>3. Append(toServer[k], req) = toServer[k] \o <<req>> /\ channels'[k] # 0
        BY <1>0, <2>2, <3>1, <3>2, AppendIsConcat DEF AbstractChannelTypeOK
      <3>4. Posted
        BY <3>1, <3>2, <3>3 DEF Posted
      <3>5. Len(stack') = 1 /\ stack'[1].op = "open"
        BY <1>0, <2>0, <3>1, <3>2, RepliesFacts, WaitFirst DEF WaitOps
      <3>6. Still
        BY <1>0, <2>0, <3>5, StillFirst
      <3> QED BY <2>0, <3>2, <3>4, <3>6, TakesOne DEF Beside
    <2>3. ASSUME id \notin used, id # 0 PROVE id \in Ids \ used
      BY <2>3, ConnectionAssumption, SpecAssumption DEF Ids, Ids0
    <2> QED BY <1>2, <2>1, <2>2, <2>3, FreeIdType DEF channel
  <1>3. CASE drain_events
    <2>1. stack = <<>> /\ ~Consuming(stack)
      BY <1>3, CallsAlone DEF drain_events, Posts
    <2> DEFINE f == [op |-> "drain", ch |-> 0, on |-> {}, prev |-> [r \in Replies |-> 0],
                     req |-> NoMsg, got |-> NoMsg, ready |-> FALSE, alone |-> TRUE, shot |-> 0]
    <2>2. stack' = Append(stack, f) /\ f.op = "drain"
      BY <1>3 DEF drain_events
    <2> HIDE DEF f
    <2>3. Len(stack') = 1 /\ stack'[1].op = "drain"
      BY <1>0, <2>1, <2>2, FirstPushed
    <2>4. Still
      BY <1>0, <2>1, <2>3, StillFirst
    <2>5. UNCHANGED <<toServer, toClient, callbacks, cancel_callbacks, bcons>>
      BY <1>3 DEF drain_events, chanVars, consumers, brokerVars
    <2> QED BY <2>4, <2>5, TakesOne DEF Beside, Posted
  <1>4. CASE Connection_close
    <2>1. stack = <<>> /\ ~Consuming(stack)
      BY <1>4, CallsAlone DEF Connection_close, Posts
    <2> DEFINE req == Msg(0, "ConnectionClose", calls + 1)
    <2>2. req \in Message /\ req.m = "ConnectionClose"
      BY <1>0, MsgType, MethodsFacts DEF Msg
    <2>3. ~send_method_raises(0)
      BY DEF send_method_raises, Going, Settled
    <2>4. /\ send_method(0, <<req>>) /\ wait(stack, "connclose", 0, {"ConnectionCloseOk"}, req)
          /\ UNCHANGED <<toClient, callbacks, cancel_callbacks, bcons>>
      <3>1. UNCHANGED <<toClient, bcons>>
        BY <1>4 DEF Connection_close, brokerVars
      <3>2. /\ send_method(0, <<req>>) /\ wait(stack, "connclose", 0, {"ConnectionCloseOk"}, req)
            /\ UNCHANGED consumers
        BY <1>4, <2>3 DEF Connection_close
      <3> QED BY <3>1, <3>2 DEF consumers
    <2> HIDE DEF req
    <2>5. Posted
      <3>1. toServer' = [toServer EXCEPT ![0] = @ \o <<req>>]
        BY <1>0, <2>4 DEF send_method
      <3> QED BY <1>0, <2>2, <3>1 DEF Posted
    <2>6. Len(stack') = 1 /\ stack'[1].op = "connclose"
      <3>1. "connclose" \in WaitOps /\ {"ConnectionCloseOk"} \in SUBSET Replies
        BY RepliesFacts DEF WaitOps
      <3> QED BY <1>0, <2>1, <2>2, <2>4, <3>1, WaitFirst
    <2>7. Still
      BY <1>0, <2>1, <2>6, StillFirst
    <2> QED BY <2>4, <2>5, <2>7, TakesOne DEF Beside
  <1> QED BY <1>1, <1>2, <1>3, <1>4 DEF AppCall


\* Steps that neither send nor read.
LEMMA QuietBeside ==
  ASSUME Going, Still, UNCHANGED <<toServer, toClient, callbacks, cancel_callbacks, bcons>>
  PROVE  Beside
  BY TakesOne DEF Beside, Posted

\* Steps that read what concerns no consumer.
LEMMA ReadBeside ==
  ASSUME Takes, In.m \notin Setting, Still, Posted,
         UNCHANGED <<callbacks, cancel_callbacks, bcons>>
  PROVE  Beside
  BY DEF Beside

\* Everything wait() and dispatch_method do by themselves.
LEMMA BaseStepBeside ==
  ASSUME Going, BaseStep, UNCHANGED bcons
  PROVE  Beside \/ Begins
  <1>0. /\ AbstractChannelTypeOK /\ CallInv /\ CallOK /\ Flat(stack) /\ stack \in Seq(Frame)
        /\ UNCHANGED <<callbacks, cancel_callbacks, bcons>>
    BY DEF Going, CallInv, TypeOK, AbstractChannelTypeOK, CallOK, BaseStep, chanVars, consumers
  <1>1. CASE ReturnPlain
    <2>1. /\ Leave /\ stack # <<>> /\ Top.op # "consume" /\ exc' = exc
          /\ UNCHANGED <<toServer, toClient>>
      BY <1>1 DEF ReturnPlain, Returns
    <2>2. Still
      BY <1>0, <2>1, StillLeave
    <2> QED BY <1>0, <2>1, <2>2, QuietBeside
  <1>2. CASE ConnectionGone
    <2>1. ~Consuming(stack)
      <3> SUFFICES ASSUME Consuming(stack) PROVE FALSE
        OBVIOUS
      <3>1. connection[stack[1].ch]
        BY <1>0, ConsumeTop DEF Going
      <3>2. stack # <<>> /\ Top.op # "callback" /\ ~connection[Top.ch]
        BY <1>2 DEF ConnectionGone, WaitOps
      <3> QED BY <1>0, <3>1, <3>2, FlatTop
    <2>2. UNCHANGED <<stack, toServer, toClient>>
      BY <1>2 DEF ConnectionGone
    <2>3. Still
      BY <1>0, <2>1, <2>2, StillUnchanged
    <2> QED BY <1>0, <2>2, <2>3, QuietBeside
  <1>3. CASE UnwindPlain \/ UnwindCallback
    <2>1. Leave /\ stack # <<>> /\ exc # "none" /\ exc' = exc /\ UNCHANGED <<toServer, toClient>>
      BY <1>3 DEF UnwindPlain, UnwindCallback, Unwinds
    <2>2. ~Consuming(stack)
      BY <1>0, <2>1 DEF CallOK
    <2>3. Top.op # "consume"
      BY <1>0, <2>1, <2>2, FlatTop DEF Consuming
    <2>4. Still
      BY <1>0, <2>1, <2>3, StillLeave
    <2> QED BY <1>0, <2>1, <2>4, QuietBeside
  <1>4. CASE CallbackCatch \/ Raised
    <2>1. exc' = "none" /\ UNCHANGED <<stack, toServer, toClient>>
      BY <1>4 DEF CallbackCatch, Raised
    <2>2. Still
      BY <1>0, <2>1, StillUnchanged
    <2> QED BY <1>0, <2>1, <2>2, QuietBeside
  <1>5. CASE Discard
    <2>1. Takes /\ stack' = Drained(stack) /\ UNCHANGED <<exc, toServer>> /\ is_closing[Target]
      BY <1>5 DEF Discard
    <2>2. In.m \notin Setting
      BY <2>1, Addressee DEF Control, Setting
    <2>3. Still
      BY <1>0, <2>1, StillDrained DEF Takes
    <2> QED BY <1>0, <2>1, <2>2, <2>3, ReadBeside DEF Posted
  <1>6. ~UnknownChannel /\ ~ReadFails
    BY Addressee DEF UnknownChannel, ReadFails, Going, Settled
  <1>7. ASSUME NEW m \in PlainReplies, OnReply(m) PROVE Beside \/ Begins
    <2>1. Dispatches(m) /\ Takes /\ In.m = m /\ OneShot(Target, m) /\ UNCHANGED <<channels, toServer>>
      BY <1>7 DEF OnReply, Dispatches
    <2>2. CASE m = "BasicConsumeOk"
      BY <1>0, <2>1, <2>2 DEF Begins
    <2>3. CASE m # "BasicConsumeOk"
      <3>1. m \in Replies /\ m \notin Setting
        BY <2>3, NoReplies DEF PlainReplies, Setting
      <3>2. Target \in Obj
        BY <2>1, Addressee
      <3>3. Still
        BY <1>0, <2>1, <3>1, <3>2, StillShot
      <3> QED BY <1>0, <2>1, <3>1, <3>3, ReadBeside DEF Posted
    <2> QED BY <2>2, <2>3
  <1> QED BY <1>1, <1>2, <1>3, <1>4, <1>5, <1>6, <1>7 DEF BaseStep

\* A method that is handed to the application, or to the call waiting for it.
LEMMA AnsweredStill ==
  ASSUME Going, NEW m \in Replies, Dispatches(m), Answered(m)
  PROVE  Still
  <1>1. Takes /\ In.m = m /\ Target \in Obj
    BY Addressee DEF Dispatches
  <1>2. AbstractChannelTypeOK /\ CallInv /\ CallOK /\ Flat(stack)
    BY DEF Going, CallInv, TypeOK, CallOK
  <1>3. CallBack(Target, m) \/ OneShot(Target, m)
    BY DEF Answered
  <1> QED BY <1>1, <1>2, <1>3, StillBack, StillShot

\* The object a method is dispatched to can send.
LEMMA TargetSends ==
  ASSUME Going, NEW m, Dispatches(m), m \notin Control
  PROVE  /\ Takes /\ In.m = m /\ In.ch \in Ids /\ Target = channels[In.ch] /\ Target \in Chan
         /\ Target \in Obj /\ Target <= created /\ ~send_method_raises(Target)
         /\ channel_id[Target] \in Ids0 /\ In \in Message /\ Welcome(In)
  <1>1. Takes /\ In.m = m
    BY DEF Dispatches
  <1>2. In.ch # 0
    BY <1>1, Addressee
  <1>3. Target \in Chan /\ Target <= created /\ In.ch \in Ids /\ Target = channels[In.ch]
        /\ In \in Message /\ Welcome(In)
    BY <1>1, <1>2, Addressee
  <1> QED BY <1>1, <1>3, CanSend

\* Every handler of a channel, and every way a call of a channel ends.
LEMMA ChannelStepBeside ==
  ASSUME Going, ChannelStep, UNCHANGED bcons
  PROVE  Beside \/ Stops \/ ConsumeReturns
  <1>0. /\ AbstractChannelTypeOK /\ CallInv /\ CallOK /\ Flat(stack) /\ stack \in Seq(Frame)
        /\ stack' \in Seq(Frame)
    BY DEF Going, CallInv, TypeOK, AbstractChannelTypeOK, CallOK
  <1>a. ASSUME NEW m, Dispatches(m), m \notin Control, m \notin Setting, Still, UNCHANGED toServer,
               UNCHANGED <<callbacks, cancel_callbacks>>
        PROVE  Beside
    BY <1>a, ReadBeside DEF Dispatches, Posted
  <1>1. CASE Channel_on_open_ok \/ on_basic_ack \/ on_basic_nack
    <2>1. PICK m \in {"ChannelOpenOk", "BasicAck", "BasicNack"} : Dispatches(m) /\ Answered(m)
      BY <1>1 DEF Channel_on_open_ok, on_basic_ack, on_basic_nack
    <2>2. UNCHANGED <<toServer, callbacks, cancel_callbacks>>
      BY <1>1 DEF Channel_on_open_ok, on_basic_ack, on_basic_nack, chanVars, consumers
    <2>3. Still
      BY <2>1, AnsweredStill, RepliesFacts
    <2> QED BY <1>a, <2>1, <2>2, <2>3 DEF Control, Setting
  <1>2. ~Channel_on_close_ok /\ ~Channel_on_close
    <2>1. ~Dispatches("ChannelCloseOk") /\ ~Dispatches("ChannelClose")
      BY Addressee DEF Dispatches, Welcome
    <2> QED BY <2>1 DEF Channel_on_close_ok, Channel_on_close
  <1>3. CASE on_flow
    <2> DEFINE x == Msg(channel_id[Target], "ChannelFlowOk", 0)
    <2>1. Dispatches("ChannelFlow") /\ "ChannelFlow" \notin Control /\ "ChannelFlow" \notin Setting
      BY <1>3 DEF on_flow, Control, Setting
    <2>2. /\ send_method(Target, <<x>>) /\ Ends /\ UNCHANGED channels
          /\ UNCHANGED <<callbacks, cancel_callbacks>>
      BY <1>3, <2>1, TargetSends DEF on_flow, chanVars, consumers
    <2>3. x \in Message /\ x.m = "ChannelFlowOk"
      <3>1. "ChannelFlowOk" \in Methods
        BY DEF Methods, Async
      <3> QED BY <2>1, <3>1, TargetSends, MsgType DEF Msg
    <2> HIDE DEF x
    <2>4. Posted
      BY <2>1, <2>2, <2>3, TargetSends, PostedOne
    <2>5. Still
      BY <1>0, <2>1, <2>2, StillDrained DEF Dispatches, Takes, Ends
    <2> QED BY <2>1, <2>2, <2>4, <2>5, ReadBeside DEF Dispatches
  <1>4. CASE on_basic_cancel_ok
    <2>1. /\ Dispatches("BasicCancelOk") /\ In.m = "BasicCancelOk" /\ remove_tag(Target, In.tag)
          /\ OneShot(Target, "BasicCancelOk") /\ UNCHANGED <<channels, toServer>>
      BY <1>4 DEF on_basic_cancel_ok, Dispatches
    <2>2. Still
      <3>1. Takes /\ Target \in Obj /\ "BasicCancelOk" \in Replies
        BY <2>1, Addressee, RepliesFacts DEF Dispatches
      <3> QED BY <1>0, <2>1, <3>1, StillShot
    <2> QED BY <2>1, <2>2 DEF Stops
  <1>5. CASE on_basic_cancel
    <2>1. /\ Dispatches("BasicCancel") /\ In.m = "BasicCancel" /\ remove_tag(Target, In.tag)
          /\ UNCHANGED <<channels, toServer>>
      BY <1>5 DEF on_basic_cancel, Dispatches
    <2>2. /\ Takes /\ In.ch \in Ids /\ Target = channels[In.ch] /\ Target \in Chan /\ Target \in Obj
          /\ Welcome(In)
      BY <2>1, TargetSends DEF Control
    <2>3. "BasicCancel" \in Callbacks /\ In.tag \in Tags
      BY <2>1, <2>2 DEF Welcome, Pushed
    <2>4. callbacks[Target][In.tag] # 0
      <3>1. Told(toClient, In.ch, In.tag, Callback(In.ch, In.tag), bcons[In.ch][In.tag])
        BY <2>2, <2>3, ObjFacts DEF Going, ToldOK
      <3>2. toClient \in Seq(Message) /\ toClient # <<>> /\ Owed(In, In.ch, In.tag)
        BY <1>0, <2>1, <2>2 DEF AbstractChannelTypeOK, Takes, Owed
      <3>3. Callback(In.ch, In.tag) # 0
        BY <3>1, <3>2, ToldTaken DEF In
      <3>4. ~Consumed
        BY <2>2, Addressee DEF Consumed
      <3> QED BY <2>2, <3>3, <3>4 DEF Callback
    <2>5. In.tag \in cancel_callbacks[Target]
      BY <2>2, <2>3, <2>4 DEF Going, CancelOK
    <2>6. CallBack(Target, "BasicCancel")
      BY <1>5, <2>5 DEF on_basic_cancel
    <2>7. Still
      BY <1>0, <2>2, <2>6, StillBack
    <2> QED BY <2>1, <2>7 DEF Stops
  <1>6. CASE on_basic_deliver
    <2> DEFINE x == Msg(channel_id[Target], "BasicReject", 0)
    <2>1. Dispatches("BasicDeliver") /\ "BasicDeliver" \notin Control /\ "BasicDeliver" \notin Setting
      BY <1>6 DEF on_basic_deliver, Control, Setting
    <2>2. /\ Takes /\ Target \in Chan /\ Target \in Obj /\ Target <= created
          /\ "BasicDeliver" \in Callbacks /\ ~send_method_raises(Target)
      BY <2>1, TargetSends DEF Welcome, Pushed
    <2>3. /\ UNCHANGED <<channels, callbacks, cancel_callbacks>>
          /\ \/ CallBack(Target, "BasicDeliver") /\ UNCHANGED toServer
             \/ send_method(Target, <<x>>) /\ Ends
      BY <1>6, <2>2 DEF on_basic_deliver, chanVars, consumers
    <2>4. x \in Message /\ x.m = "BasicReject"
      BY <2>1, TargetSends, MsgType, MethodsFacts DEF Msg
    <2> HIDE DEF x
    <2>5. Posted
      BY <2>2, <2>3, <2>4, PostedOne
    <2>6. Still
      <3>1. CASE CallBack(Target, "BasicDeliver")
        BY <1>0, <2>2, <3>1, StillBack
      <3>2. CASE Ends
        BY <1>0, <2>2, <3>2, StillDrained DEF Takes, Ends
      <3> QED BY <2>3, <3>1, <3>2
    <2> QED BY <2>1, <2>3, <2>5, <2>6, ReadBeside DEF Dispatches
  <1>7. CASE on_basic_return
    <2>1. Dispatches("BasicReturn") /\ "BasicReturn" \notin Control /\ "BasicReturn" \notin Setting
          /\ UNCHANGED <<toServer, callbacks, cancel_callbacks>>
      BY <1>7 DEF on_basic_return, Control, Setting, chanVars, consumers
    <2>2. Takes /\ Target \in Obj /\ "BasicReturn" \in Callbacks
      BY <2>1, TargetSends DEF Welcome, Pushed
    <2>3. CallBack(Target, "BasicReturn")
      BY <1>7, <2>2 DEF on_basic_return
    <2>4. Still
      BY <1>0, <2>2, <2>3, StillBack
    <2> QED BY <1>a, <2>1, <2>4
  <1>8. ~CloseReturns /\ ~ReviveReturns
    <2>1. stack # <<>> => Top.op \notin {"close", "revive"}
      BY <1>0, FlatTop
    <2> QED BY <2>1 DEF CloseReturns, ReviveReturns, Returns, Unwinds
  <1>9. CASE SelectReturns
    <2>1. stack # <<>> /\ Top.op = "select"
      BY <1>9 DEF SelectReturns
    <2>2. /\ UNCHANGED <<toServer, toClient, callbacks, cancel_callbacks>>
          /\ stack' = Pop(stack) \/ stack' = Append(Pop(stack), PublishFrame(Top.ch, Top.req.rid))
      BY <1>9 DEF SelectReturns, chanVars, consumers
    <2>3. Len(stack) = 1 /\ ~Consuming(stack)
      BY <1>0, <2>1, FlatTop DEF Consuming
    <2>4. Pop(stack) = <<>> /\ Pop(stack) \in Seq(Frame)
      BY <1>0, <2>1, <2>3, PopType, EmptySeq
    <2>5. Still
      <3>1. CASE stack' = Pop(stack)
        BY <1>0, <2>1, <2>3, <3>1, StillLeave
      <3>2. CASE stack' = Append(Pop(stack), PublishFrame(Top.ch, Top.req.rid))
        <4> DEFINE f == PublishFrame(Top.ch, Top.req.rid)
        <4>1. f.op = "publish"
          BY DEF PublishFrame
        <4> HIDE DEF f
        <4>2. Len(stack') = 1 /\ stack'[1] = f
          BY <2>4, <3>2, FirstPushed DEF f
        <4> QED BY <1>0, <2>3, <4>1, <4>2, StillFirst
      <3> QED BY <2>2, <3>1, <3>2
    <2> QED BY <2>2, <2>5, QuietBeside
  <1>10. CASE PublishWrites
    <2>1. stack # <<>> /\ Top.op = "publish" /\ UNCHANGED <<channels, toClient, callbacks, cancel_callbacks>>
      BY <1>10 DEF PublishWrites, chanVars, consumers
    <2>2. Len(stack) = 1 /\ ~Consuming(stack) /\ Top = stack[1] /\ 1 \in 1 .. Len(stack)
      BY <1>0, <2>1, FlatTop DEF Consuming
    <2>3. Pop(stack) = <<>> /\ Pop(stack) \in Seq(Frame)
      BY <1>0, <2>1, <2>2, PopType, EmptySeq
    <2>4. Top.ch \in Chan /\ Top.ch <= created /\ Top.req.m = "BasicPublish" /\ Top.req \in Message
      <3>1. Top.ch \in Chan
        BY <2>1, <2>2 DEF Going, PublishOK
      <3>2. Matched(Top)
        BY <2>2 DEF Going, CallInv, RepliesOK
      <3>3. Top \in Frame
        BY <1>0, <2>1, TopType
      <3> QED BY <2>1, <3>1, <3>2, <3>3 DEF Matched, Frame
    <2>5. connection[Top.ch] /\ ~send_method_raises(Top.ch) /\ Top.ch \in Obj
      BY <2>4, CanSend
    <2>6. /\ send_method(Top.ch, <<Top.req>>)
          /\ \/ stack' = Pop(stack)
             \/ wait(Pop(stack), "confirm", Top.ch, {"BasicAck", "BasicNack"}, Top.req)
      BY <1>10, <2>5 DEF PublishWrites
    <2>7. Posted
      BY <2>1, <2>4, <2>6, PostedOne
    <2>8. Still
      <3>1. CASE stack' = Pop(stack)
        BY <1>0, <2>1, <2>2, <3>1, StillLeave
      <3>2. CASE wait(Pop(stack), "confirm", Top.ch, {"BasicAck", "BasicNack"}, Top.req)
        <4>1. "confirm" \in WaitOps /\ {"BasicAck", "BasicNack"} \in SUBSET Replies
          BY RepliesFacts DEF WaitOps
        <4>2. Len(stack') = 1 /\ stack'[1].op = "confirm"
          BY <1>0, <2>3, <2>4, <2>5, <3>2, <4>1, WaitFirst
        <4> QED BY <1>0, <2>2, <4>2, StillFirst
      <3> QED BY <2>6, <3>1, <3>2
    <2> QED BY <2>1, <2>7, <2>8, TakesOne DEF Beside
  <1> QED BY <1>1, <1>2, <1>3, <1>4, <1>5, <1>6, <1>7, <1>8, <1>9, <1>10 DEF ChannelStep

\* The rest: the handlers of channel 0, and the return of a callback.
LEMMA ConnectionStepBeside ==
  ASSUME Going, ConnectionStep \/ CallbackEnds \/ TimesOut
  PROVE  Beside
  <1>0. /\ AbstractChannelTypeOK /\ CallInv /\ CallOK /\ Flat(stack) /\ stack \in Seq(Frame)
    BY DEF Going, CallInv, TypeOK, AbstractChannelTypeOK, CallOK
  <1>1. ~Connection_collect
    BY ObjFacts DEF Connection_collect, Going
  <1>2. ~Connection_on_close_ok
    BY <1>1 DEF Connection_on_close_ok
  <1>3. ~Connection_on_close
    BY <1>1 DEF Connection_on_close, Going, Settled, send_method_raises
  <1>4. ASSUME NEW m \in {"ConnectionBlocked", "ConnectionUnblocked"}, on_blocked(m) PROVE Beside
    <2>1. /\ Dispatches(m) /\ Takes /\ In.m = m
          /\ UNCHANGED <<toServer, callbacks, cancel_callbacks, bcons>>
      BY <1>4 DEF on_blocked, Dispatches, chanVars, consumers, brokerVars
    <2>2. Still
      <3>1. CASE CallBack(0, m)
        BY <1>0, <2>1, <3>1, StillBack, ObjFacts
      <3>2. CASE Ends
        BY <1>0, <2>1, <3>2, StillDrained DEF Takes, Ends
      <3> QED BY <1>4, <3>1, <3>2 DEF on_blocked
    <2> QED BY <2>1, <2>2, ReadBeside DEF Posted, Setting
  <1>5. CASE ConnectionCloseReturns
    <2>1. /\ stack # <<>> /\ Top.op = "connclose" /\ Leave /\ exc' = exc
          /\ UNCHANGED <<toServer, toClient, callbacks, cancel_callbacks, bcons>>
      BY <1>1, <1>5 DEF ConnectionCloseReturns, CloseFails, Returns, Unwinds, consumers, brokerVars
    <2>2. Still
      BY <1>0, <2>1, StillLeave
    <2> QED BY <2>1, <2>2, QuietBeside
  <1>6. CASE CallbackEnds
    <2>1. CallbackReturns /\ UNCHANGED <<toServer, toClient, callbacks, cancel_callbacks, bcons>>
      BY <1>6 DEF CallbackEnds, CallbackReturns, chanVars, consumers, brokerVars
    <2>2. Still
      BY <1>0, <2>1, StillReturns
    <2> QED BY <2>1, <2>2, QuietBeside
  <1>7. CASE TimesOut
    <2>1. /\ stack # <<>> /\ Top.op # "callback" /\ Top.op # "consume"
          /\ UNCHANGED <<stack, toServer, toClient, callbacks, cancel_callbacks, bcons>>
      BY <1>7 DEF TimesOut, ReadTimesOut, Reading, chanVars, consumers, brokerVars, Going, Undisturbed
    <2>2. ~Consuming(stack)
      BY <1>0, <2>1, FlatTop DEF Consuming
    <2>3. Still
      BY <1>0, <2>1, <2>2, StillUnchanged
    <2> QED BY <2>1, <2>3, QuietBeside
  <1> QED BY <1>2, <1>3, <1>4, <1>5, <1>6, <1>7 DEF ConnectionStep

\* Every step of the client.
LEMMA ClientBeside ==
  ASSUME Going, AppCall \/ LibraryStep \/ CallbackEnds \/ TimesOut
  PROVE  \/ Beside \/ Begins \/ Stops \/ (ConsumeReturns /\ UNCHANGED bcons)
         \/ \E c \in Chan : c <= created /\ \E req : Asks(c, req)
  <1>1. (BaseStep \/ ChannelStep) /\ UNCHANGED <<brokerVars, created>> => UNCHANGED bcons
    BY DEF brokerVars
  <1>2. CASE AppCall
    BY <1>2, AppCallBeside
  <1>3. ASSUME BaseStep, UNCHANGED <<brokerVars, created>> PROVE Beside \/ Begins
    BY <1>1, <1>3, BaseStepBeside
  <1>4. ASSUME ChannelStep, UNCHANGED <<brokerVars, created>>
        PROVE  Beside \/ Stops \/ (ConsumeReturns /\ UNCHANGED bcons)
    BY <1>1, <1>4, ChannelStepBeside
  <1>5. CASE ConnectionStep \/ CallbackEnds \/ TimesOut
    BY <1>5, ConnectionStepBeside
  <1> QED BY <1>2, <1>3, <1>4, <1>5 DEF LibraryStep

-----------------------------------------------------------------------------
(* What a step of the client leaves as it was.                             *)

(* Objects are added only, under an id that has none. *)
Adds ==
  /\ sock' /\ UNCHANGED bchan
  /\ \A c \in Chan : ~is_closing'[c] /\ (c <= created' => connection'[c])
  /\ \A id \in Ids : channels[id] # 0 => channels'[id] = channels[id]

\* Every step of the client.
LEMMA ClientAdds ==
  ASSUME Going, AppCall \/ LibraryStep \/ CallbackEnds \/ TimesOut
  PROVE  Adds
  <1>0. /\ TypeOK /\ Orderly /\ ControlOK /\ RepliesOK /\ MayPublish /\ sock
        /\ stack \in Seq(Frame) /\ Flat(stack) /\ channels \in [Ids -> Obj]
        /\ connection \in [Obj -> BOOLEAN] /\ is_closing \in [Obj -> BOOLEAN]
        /\ created \in 0 .. NumChans
    BY PublishMay DEF Going, Undisturbed, Unrevived, CallInv, Settled, CallOK, TypeOK,
       AbstractChannelTypeOK
  <1>1. \A c \in Chan : ~is_closing[c] /\ (c <= created => connection[c])
    BY DEF Going, Settled
  <1>2. CASE Ordinary
    BY <1>0, <1>1, <1>2 DEF Ordinary, Calm, Adds
  <1>3. CASE Turns
    <2>0. UNCHANGED bchan
      BY <1>3 DEF Turns
    <2>1. \A c : ~Channel_close(c)
      BY DEF Channel_close, AppCalls, Going, Undisturbed
    <2>2. ~CloseReturns
      <3>1. stack # <<>> => Top.op \notin {"close", "revive"}
        BY <1>0, FlatTop
      <3> QED BY <3>1 DEF CloseReturns, Returns, Unwinds
    <2>3. ~Channel_on_close_ok /\ ~Channel_on_close
      <3>1. ~Dispatches("ChannelCloseOk") /\ ~Dispatches("ChannelClose")
        BY Addressee DEF Dispatches, Welcome
      <3> QED BY <3>1 DEF Channel_on_close_ok, Channel_on_close
    <2>4. ~Connection_collect
      BY ObjFacts DEF Connection_collect, Going
    <2>5. ~Connection_on_close_ok /\ ~Connection_on_close
      BY <1>0, <2>4 DEF Connection_on_close_ok, Connection_on_close, Going, send_method_raises
    <2>6. ASSUME Channel_on_open_ok, UNCHANGED created PROVE Adds
      BY <1>0, <1>1, <2>0, <2>6 DEF Channel_on_open_ok, Adds
    <2>7. ASSUME UNCHANGED <<created, sock, channels, connection>>,
                 \E b \in BOOLEAN : is_closing' = [is_closing EXCEPT ![0] = b]
          PROVE  Adds
      BY <1>0, <1>1, <2>0, <2>7, ObjFacts DEF Adds
    <2>8. ASSUME Connection_close PROVE Adds
      BY <1>0, <2>4, <2>7, <2>8 DEF Connection_close
    <2>9. ASSUME ConnectionCloseReturns PROVE Adds
      BY <1>0, <2>4, <2>7, <2>9 DEF ConnectionCloseReturns, CloseFails
    <2>10. ASSUME NEW k \in Ids \ used, NewChannel(k) PROVE Adds
      <3>1. /\ channels' = [channels EXCEPT ![k] = created + 1] /\ created' = created + 1
            /\ connection' = [connection EXCEPT ![created + 1] = TRUE]
            /\ created < NumChans /\ UNCHANGED <<sock, is_closing>>
        BY <2>10 DEF NewChannel
      <3>2. channels[k] = 0
        BY DEF Going, CallInv, IdsConsistent
      <3>3. ASSUME NEW c \in Chan, c <= created' PROVE connection'[c]
        <4>1. c = created + 1 \/ c <= created
          BY <1>0, <3>1, <3>3, SpecAssumption DEF Chan
        <4> QED BY <1>0, <1>1, <3>1, <4>1, ObjFacts
      <3> QED BY <1>0, <1>1, <2>0, <3>1, <3>2, <3>3 DEF Adds
    <2> QED BY <1>3, <2>1, <2>2, <2>3, <2>5, <2>6, <2>8, <2>9, <2>10 DEF Turns
  <1> QED BY <1>0, <1>2, <1>3, ClientKinds

(* A method other than Close is sent for an object, at most. *)
PostedAny ==
  \/ UNCHANGED toServer
  \/ \E k \in Ids0, x \in Message :
       /\ x.m # "ChannelClose" /\ (k # 0 => channels'[k] # 0)
       /\ toServer' = [toServer EXCEPT ![k] = @ \o <<x>>]

(* The queue to the client is left alone, or read from. *)
Reads1 == UNCHANGED toClient \/ Takes

\* What is left of the queue to the client.
LEMMA ReadsLess ==
  ASSUME Going, Reads1
  PROVE  /\ toClient \in Seq(Message) /\ toClient' \in Seq(Message)
         /\ Items(toClient') \subseteq Items(toClient) /\ Names(toClient') \subseteq Names(toClient)
         /\ \A x \in Items(toClient) : x \in Message
         /\ \A m : Single(toClient, m) => Single(toClient', m)
  <1>1. toClient \in Seq(Message) /\ toClient' \in Seq(Message)
    BY DEF Going, CallInv, TypeOK, AbstractChannelTypeOK
  <1>2. Items(toClient') \subseteq Items(toClient)
    BY <1>1, ItemsTaken DEF Reads1, Takes
  <1>3. \A m : Single(toClient, m) => Single(toClient', m)
    BY <1>1, SingleTaken DEF Reads1, Takes
  <1> QED BY <1>1, <1>2, <1>3, ItemsType DEF Names

\* Settled is preserved.
LEMMA ClientSettled ==
  ASSUME Going, Adds, PostedAny, Reads1, UNCHANGED bcons
  PROVE  Settled'
  <1>0. Settled /\ toServer \in [Ids0 -> Seq(Message)] /\ channels \in [Ids -> Obj]
    BY DEF Going, CallInv, TypeOK, AbstractChannelTypeOK
  <1>1. ASSUME NEW id \in Ids PROVE SettledId(id)'
    <2>1. id \in Ids0 /\ id # 0 /\ toServer[id] \in Seq(Message)
      BY <1>0, SpecAssumption DEF Ids, Ids0
    <2>2. SettledId(id)
      BY <1>0 DEF Settled
    <2>3. channels'[id] = 0 => channels[id] = 0
      BY DEF Adds
    <2>4. CASE toServer'[id] = toServer[id]
      BY <2>2, <2>3, <2>4 DEF SettledId, Adds
    <2>5. ASSUME NEW x \in Message, x.m # "ChannelClose", channels'[id] # 0,
                 toServer'[id] = toServer[id] \o <<x>>
          PROVE  SettledId(id)'
      <3>1. "ChannelClose" \notin Names(toServer'[id])
        BY <2>1, <2>2, <2>5, NamesMove DEF SettledId
      <3> QED BY <2>2, <2>5, <3>1 DEF SettledId, Adds
    <2> QED BY <1>0, <2>1, <2>4, <2>5 DEF PostedAny
  <1>2. ASSUME NEW x \in Items(toClient') PROVE Welcome(x)'
    <2>1. x \in Items(toClient) /\ x \in Message /\ Welcome(x)
      BY <1>0, ReadsLess DEF Settled
    <2>2. x.ch # 0 => x.ch \in Ids
      BY <2>1, SpecAssumption DEF Message, Ids, Ids0
    <2> QED BY <2>1, <2>2 DEF Welcome, Adds
  <1> QED BY <1>1, <1>2 DEF Settled, Adds

(* basic_consume, if it is in progress, stays as it is. *)
Undone ==
  /\ Consuming(stack') <=> Consuming(stack)
  /\ Consuming(stack) =>
       LET f == stack[1] g == stack'[1] IN
       /\ g.ch = f.ch /\ g.req = f.req /\ g.got = f.got /\ (g.ready <=> f.ready)

\* A step that leaves the stack still leaves basic_consume in progress.
LEMMA StillKeeps ==
  ASSUME Going, [Next]_vars, Still, Takes => In.m # "BasicConsumeOk"
  PROVE  CallOK' /\ Undone
  <1>1. StackMove /\ CallInv /\ CallInv' /\ CallOK
    BY NextMoves DEF Going, CallInv
  <1>2. Flat(stack') /\ (Consuming(stack') <=> Consuming(stack)) /\ (Consuming(stack) => exc' = "none")
    BY DEF Still
  <1>3. CASE ~Consuming(stack)
    BY <1>2, <1>3 DEF CallOK, Undone
  <1>4. CASE Consuming(stack)
    <2>1. LET f == stack[1] g == stack'[1] IN
          /\ g.ch = f.ch /\ g.on = f.on /\ g.req = f.req /\ g.got = f.got /\ (g.ready <=> f.ready)
          /\ ~f.ready => pending'[f.ch]["BasicConsumeOk"] = pending[f.ch]["BasicConsumeOk"]
      BY <1>1, <1>4, ConsumeKept
    <2>2. /\ stack[1].ch \in Chan /\ stack[1].on = {"BasicConsumeOk"}
          /\ stack[1].req.rid # 0
          /\ ~stack[1].ready => /\ pending[stack[1].ch]["BasicConsumeOk"] = 1
                                /\ stack[1].got = NoMsg
          /\ stack[1].ready => stack[1].got.tag \in Tags
      BY <1>1, <1>4 DEF CallOK
    <2>3. CallOK'
      BY <1>2, <1>4, <2>1, <2>2 DEF CallOK
    <2> QED BY <1>2, <2>1, <2>3 DEF Undone
  <1> QED BY <1>3, <1>4

\* The one consumer being asked for, while it is.
LEMMA ClientOne ==
  ASSUME Going, Adds, Posted, Reads1, Undone
  PROVE  OneConsume'
  <1>0. OneConsume /\ toServer \in [Ids0 -> Seq(Message)] /\ CallOK
    BY DEF Going, CallInv, TypeOK, AbstractChannelTypeOK
  <1>1. ASSUME NEW id \in Ids, NEW x, Wanted(id, x) PROVE Wanted(id, x)'
    <2>1. Consuming(stack) /\ ~stack[1].ready /\ channels[id] = stack[1].ch /\ channels[id] # 0
      BY <1>0, <1>1, ObjFacts DEF Wanted, Waiting, CallOK
    <2>2. channels'[id] = channels[id]
      BY <2>1 DEF Adds
    <2> QED BY <1>1, <2>1, <2>2 DEF Wanted, Waiting, Undone
  <1>2. Single(toClient', "BasicConsumeOk")
    BY <1>0, ReadsLess DEF OneConsume
  <1>3. ASSUME NEW x \in Items(toClient'), x.m = "BasicConsumeOk"
        PROVE  x.ch \in Ids /\ Wanted(x.ch, x)' /\ x.tag \in Tags
    <2>1. x \in Items(toClient)
      BY ReadsLess
    <2>2. x.ch \in Ids /\ Wanted(x.ch, x) /\ x.tag \in Tags
      BY <1>0, <1>3, <2>1 DEF OneConsume
    <2> QED BY <1>1, <2>2
  <1>4. ASSUME NEW id \in Ids
        PROVE  /\ Single(toServer'[id], "BasicConsume")
               /\ "BasicConsume" \in Names(toServer'[id]) => "BasicConsumeOk" \notin Names(toClient')
               /\ \A x \in Items(toServer'[id]) :
                    x.m = "BasicConsume" => Wanted(id, x)' /\ ~x.nowait
    <2>1. id \in Ids0 /\ toServer[id] \in Seq(Message)
      BY <1>0, SpecAssumption DEF Ids, Ids0
    <2>2. /\ Single(toServer[id], "BasicConsume")
          /\ "BasicConsume" \in Names(toServer[id]) => "BasicConsumeOk" \notin Names(toClient)
          /\ \A x \in Items(toServer[id]) : x.m = "BasicConsume" => Wanted(id, x) /\ ~x.nowait
      BY <1>0 DEF OneConsume
    <2>3. CASE toServer'[id] = toServer[id]
      BY <1>1, <2>2, <2>3, ReadsLess
    <2>4. ASSUME NEW y \in Message, y.m # "BasicConsume", toServer'[id] = toServer[id] \o <<y>>
          PROVE  /\ Single(toServer'[id], "BasicConsume")
                 /\ Names(toServer'[id]) = Names(toServer[id]) \cup {y.m}
                 /\ Items(toServer'[id]) = Items(toServer[id]) \cup {y}
      <3>1. Single(toServer'[id], "BasicConsume")
        BY <2>1, <2>2, <2>4, SingleMore
      <3>2. Names(toServer'[id]) = Names(toServer[id]) \cup {y.m}
        BY <2>1, <2>4, NamesMove
      <3>3. Items(<<y>>) = {y} /\ <<y>> \in Seq(Message)
        BY ItemsFew
      <3>4. Items(toServer'[id]) = Items(toServer[id]) \cup {y}
        BY <2>1, <2>4, <3>3, ItemsBoth
      <3> QED BY <3>1, <3>2, <3>4
    <2>5. ASSUME NEW y \in Message, y.m # "BasicConsume", toServer'[id] = toServer[id] \o <<y>>
          PROVE  /\ Single(toServer'[id], "BasicConsume")
                 /\ "BasicConsume" \in Names(toServer'[id]) => "BasicConsumeOk" \notin Names(toClient')
                 /\ \A x \in Items(toServer'[id]) :
                      x.m = "BasicConsume" => Wanted(id, x)' /\ ~x.nowait
      BY <1>1, <2>2, <2>4, <2>5, ReadsLess
    <2> QED BY <1>0, <2>1, <2>3, <2>5 DEF Posted
  <1> QED BY <1>2, <1>3, <1>4 DEF OneConsume

\* Nothing is on its way when no basic_consume waits.
LEMMA NoneAsked ==
  ASSUME Going, ~Waiting
  PROVE  /\ "BasicConsumeOk" \notin Names(toClient)
         /\ \A id \in Ids : "BasicConsume" \notin Names(toServer[id])
  BY DEF Going, OneConsume, Wanted, Names

\* Every method on its way finds its callback.
LEMMA ClientTold ==
  ASSUME Going, Adds, Reads1, UNCHANGED bcons,
         \A id \in Ids, t \in Tags : channels[id] # 0 =>
           Callback(id, t)' = IF Takes /\ Sets(In, id, t) THEN Gives(In) ELSE Callback(id, t)
  PROVE  ToldOK'
  <1> SUFFICES ASSUME NEW id \in Ids, NEW t \in Tags, channels'[id] # 0
               PROVE  Told(toClient', id, t, Callback(id, t)', bcons'[id][t])
    BY DEF ToldOK
  <1>0. toClient \in Seq(Message) /\ toClient' \in Seq(Message)
    BY ReadsLess
  <1>1. CASE channels[id] # 0
    <2>1. Told(toClient, id, t, Callback(id, t), bcons[id][t])
      BY <1>1 DEF Going, ToldOK
    <2>2. Callback(id, t)' = IF Takes /\ Sets(In, id, t) THEN Gives(In) ELSE Callback(id, t)
      BY <1>1
    <2>3. CASE Takes
      BY <1>0, <2>1, <2>2, <2>3, ToldTaken DEF Takes, In
    <2>4. CASE ~Takes
      BY <2>1, <2>2, <2>4 DEF Reads1
    <2> QED BY <2>3, <2>4
  <1>2. CASE channels[id] = 0
    <2>1. bcons'[id][t] = NoConsumer
      BY <1>2 DEF Going, Settled, SettledId
    <2>2. ASSUME NEW n \in 1 .. Len(toClient'), Owed(toClient'[n], id, t) PROVE FALSE
      <3>0. toClient'[n] \in Items(toClient') /\ toClient'[n].ch = id
        BY <2>2 DEF Items, Owed
      <3>1. toClient'[n] \in Items(toClient) /\ toClient'[n].ch = id /\ id # 0
        BY <3>0, ReadsLess, SpecAssumption DEF Ids
      <3> QED BY <1>2, <3>1 DEF Going, Settled, Welcome
    <2> QED BY <2>1, <2>2 DEF Told
  <1> QED BY <1>1, <1>2

-----------------------------------------------------------------------------
(* The steps of the client keep the invariant.                             *)

(* The part of the invariant that holds while the connection lives. *)
Lives == Settled /\ CallOK /\ OneConsume /\ ToldOK

\* While a method is read no basic_consume is about to return.
LEMMA NoneConsumed ==
  ASSUME Going, Takes
  PROVE  ~Consumed
  BY Addressee DEF Consumed

\* Steps that have nothing to do with consumers.
LEMMA BesideLives ==
  ASSUME Going, [Next]_vars, Adds, Beside
  PROVE  Lives'
  <1>1. /\ Still /\ Posted /\ Reads1 /\ UNCHANGED <<callbacks, bcons>>
        /\ Takes => In.m \notin Setting
    BY DEF Beside, Reads1
  <1>2. CallOK' /\ Undone
    BY <1>1, StillKeeps DEF Setting
  <1>3. PostedAny
    BY <1>1 DEF Posted, PostedAny
  <1>4. ASSUME NEW id \in Ids, NEW t \in Tags, channels[id] # 0
        PROVE  Callback(id, t)' = IF Takes /\ Sets(In, id, t) THEN Gives(In) ELSE Callback(id, t)
    <2>1. channels'[id] = channels[id] /\ ~(Takes /\ Sets(In, id, t))
      BY <1>1, <1>4 DEF Adds, Sets
    <2>2. Callback(id, t)' = Callback(id, t)
      BY <1>1, <1>2, <2>1 DEF Callback, Consumed, Undone
    <2> QED BY <2>1, <2>2
  <1> QED BY <1>1, <1>2, <1>3, <1>4, ClientSettled, ClientOne, ClientTold DEF Lives

\* Cancel, or Cancel-Ok, is read.
LEMMA StopsLives ==
  ASSUME Going, [Next]_vars, Adds, Stops
  PROVE  Lives'
  <1>1. /\ Still /\ Posted /\ Reads1 /\ UNCHANGED <<channels, bcons>> /\ Takes
        /\ In.m \in {"BasicCancel", "BasicCancelOk"} /\ Dispatches(In.m)
        /\ callbacks' = [callbacks EXCEPT ![Target][In.tag] = 0]
    BY DEF Stops, Reads1, Posted, Dispatches, remove_tag
  <1>2. CallOK' /\ Undone
    BY <1>1, StillKeeps
  <1>3. PostedAny
    BY <1>1 DEF Posted, PostedAny
  <1>4. ASSUME NEW id \in Ids, NEW t \in Tags, channels[id] # 0
        PROVE  Callback(id, t)' = IF Takes /\ Sets(In, id, t) THEN Gives(In) ELSE Callback(id, t)
    <2>1. ~Consumed /\ ~Consumed'
      BY <1>1, <1>2, NoneConsumed DEF Consumed, Undone
    <2>2. In.ch \in Ids /\ Target = channels[In.ch] /\ Target \in Chan
      BY <1>1, TargetSends DEF Control
    <2>3. channels[id] = Target <=> id = In.ch
      BY <1>4, <2>2 DEF Going, CallInv, RegistryOK
    <2>4. callbacks \in [Chan -> [Tags -> Nat]] /\ channels[id] \in Chan
      BY <1>4 DEF Going, CallInv, TypeOK, ChannelTypeOK, AbstractChannelTypeOK, Obj, Chan
    <2>5. Callback(id, t) = callbacks[channels[id]][t] /\ Callback(id, t)' = callbacks'[channels[id]][t]
      BY <1>1, <2>1 DEF Callback
    <2>6. callbacks'[channels[id]][t] =
            IF id = In.ch /\ t = In.tag THEN 0 ELSE callbacks[channels[id]][t]
      BY <1>1, <2>2, <2>3, <2>4
    <2> QED BY <1>1, <2>5, <2>6 DEF Sets, Gives, Setting
  <1> QED BY <1>1, <1>2, <1>3, <1>4, ClientSettled, ClientOne, ClientTold DEF Lives

\* basic_consume is called.
LEMMA AsksLives ==
  ASSUME Going, Adds, NEW c \in Chan, c <= created, NEW req, Asks(c, req)
  PROVE  Lives'
  <1>0. /\ AbstractChannelTypeOK /\ toServer \in [Ids0 -> Seq(Message)] /\ toClient \in Seq(Message)
        /\ stack = <<>> /\ exc = "none" /\ stack \in Seq(Frame)
        /\ req \in Message /\ req.m = "BasicConsume" /\ req.rid # 0 /\ ~req.nowait
        /\ UNCHANGED <<channels, exc, callbacks, bcons, toClient>>
    BY DEF Going, CallInv, TypeOK, AbstractChannelTypeOK, Asks
  <1> DEFINE k == channel_id[c]
  <1>1. k \in Ids /\ k \in Ids0 /\ channels[k] = c /\ c # 0 /\ c \in Obj
    BY CanSend
  <1>2. toServer' = [toServer EXCEPT ![k] = @ \o <<req>>]
    BY DEF Asks, send_method
  <1> HIDE DEF k
  <1>3. /\ Len(stack') = 1 /\ stack'[1].op = "consume" /\ stack'[1].ch = c
        /\ stack'[1].on = {"BasicConsumeOk"} /\ stack'[1].req = req /\ stack'[1].got = NoMsg
        /\ ~stack'[1].ready /\ pending'[c]["BasicConsumeOk"] = 1 /\ stack' \in Seq(Frame)
    <2> DEFINE op == "consume"
               on == {"BasicConsumeOk"}
    <2>1. op \in WaitOps /\ on \in SUBSET Replies /\ wait(stack, op, c, on, req)
      BY RepliesFacts DEF WaitOps, Asks
    <2>2. /\ AbstractChannelTypeOK /\ stack \in Seq(Frame) /\ stack = <<>> /\ req \in Message
          /\ c \in Obj
      BY <1>0, <1>1
    <2> HIDE DEF op, on
    <2>3. /\ stack' \in Seq(Frame) /\ Len(stack') = 1
          /\ stack'[1].op = op /\ stack'[1].ch = c /\ stack'[1].on = on /\ stack'[1].req = req
          /\ stack'[1].got = NoMsg /\ ~stack'[1].ready
          /\ \A m \in on : pending'[c][m] = 1
      BY <2>1, <2>2, WaitFirst
    <2> QED BY <2>3 DEF op, on
  <1>4. ~Consuming(stack) /\ Consuming(stack')
    <2>0. stack' \in Seq(Frame) /\ Len(stack') # 0
      BY <1>3
    <2>1. stack' # <<>>
      BY <2>0, EmptySeq
    <2> QED BY <1>0, <1>3, <2>1 DEF Consuming
  <1>5. CallOK'
    <2>1. Flat(stack')
      BY <1>3 DEF Flat
    <2>2. exc' = "none" /\ stack'[1].req.rid # 0
      BY <1>0, <1>3
    <2> QED BY <1>3, <2>1, <2>2 DEF CallOK
  <1>6. Settled'
    <2>1. PostedAny /\ Reads1
      BY <1>0, <1>1, <1>2 DEF PostedAny, Reads1
    <2> QED BY <1>0, <2>1, ClientSettled
  <1>7. ToldOK'
    <2>1. ~Consumed /\ ~Consumed' /\ Reads1
      BY <1>0, <1>3, <1>4 DEF Consumed, Reads1
    <2>2. ~Takes
      BY <1>0 DEF Takes, Reading
    <2>3. \A id \in Ids, t \in Tags : Callback(id, t)' = Callback(id, t)
      BY <1>0, <2>1 DEF Callback
    <2> QED BY <1>0, <2>1, <2>2, <2>3, ClientTold
  <1>8. OneConsume'
    <2>1. "BasicConsumeOk" \notin Names(toClient) /\ \A id \in Ids : "BasicConsume" \notin Names(toServer[id])
      BY <1>4, NoneAsked DEF Waiting
    <2>2. Single(toClient', "BasicConsumeOk")
      BY <1>0 DEF Going, OneConsume
    <2>3. \A x \in Items(toClient') : x.m # "BasicConsumeOk"
      BY <1>0, <2>1 DEF Names
    <2>4. ASSUME NEW id \in Ids
          PROVE  /\ Single(toServer'[id], "BasicConsume")
                 /\ "BasicConsumeOk" \notin Names(toClient')
                 /\ \A x \in Items(toServer'[id]) :
                      x.m = "BasicConsume" => Wanted(id, x)' /\ ~x.nowait
      <3>0. toServer[id] \in Seq(Message) /\ id \in Ids0
        BY <1>0, SpecAssumption DEF Ids, Ids0
      <3>1. CASE id # k
        <4>1. toServer'[id] = toServer[id]
          BY <1>0, <1>1, <1>2, <3>0, <3>1
        <4>2. Single(toServer'[id], "BasicConsume")
          BY <4>1 DEF Going, OneConsume
        <4> QED BY <1>0, <2>1, <4>1, <4>2 DEF Names
      <3>2. CASE id = k
        <4>1. toServer'[id] = toServer[id] \o <<req>>
          BY <1>0, <1>1, <1>2, <3>0, <3>2
        <4>2. Single(toServer'[id], "BasicConsume")
          <5>1. Single(toServer[id], "BasicConsume")
            BY DEF Going, OneConsume
          <5> QED BY <1>0, <2>1, <3>0, <4>1, <5>1, SingleMore
        <4>3. Items(<<req>>) = {req} /\ <<req>> \in Seq(Message)
          BY <1>0, ItemsFew
        <4>4. Items(toServer'[id]) = Items(toServer[id]) \cup {req}
          BY <3>0, <4>1, <4>3, ItemsBoth
        <4>5. Wanted(id, req)'
          BY <1>0, <1>1, <1>3, <1>4, <3>2 DEF Wanted, Waiting
        <4> QED BY <1>0, <2>1, <4>2, <4>4, <4>5 DEF Names
      <3> QED BY <3>1, <3>2
    <2> QED BY <2>2, <2>3, <2>4 DEF OneConsume
  <1> QED BY <1>5, <1>6, <1>7, <1>8 DEF Lives

\* basic_consume returns, and registers the callback.
LEMMA ReturnLives ==
  ASSUME Going, Adds, ConsumeReturns, UNCHANGED bcons
  PROVE  Lives'
  <1>0. /\ stack \in Seq(Frame) /\ Flat(stack) /\ stack # <<>> /\ Top.op = "consume" /\ Top.ready
        /\ stack' = Pop(stack) /\ UNCHANGED <<channels, toServer, toClient>>
        /\ callbacks' = [callbacks EXCEPT ![Top.ch][Top.got.tag] = Top.req.rid]
    BY DEF Going, CallInv, TypeOK, AbstractChannelTypeOK, CallOK, ConsumeReturns, Returns, Leave,
       Registered
  <1>1. Len(stack) = 1 /\ Top = stack[1]
    BY <1>0, FlatTop
  <1>2. stack' = <<>>
    BY <1>0, <1>1, PopType, EmptySeq
  <1>3. Consuming(stack) /\ Consumed /\ ~Waiting /\ ~Consuming(stack')
    BY <1>0, <1>1, <1>2 DEF Consuming, Consumed, Waiting
  <1>4. CallOK'
    BY <1>2, <1>3 DEF CallOK, Flat
  <1>5. PostedAny /\ Reads1 /\ ~Takes
    BY <1>0, TakesOne DEF PostedAny, Reads1
  <1>6. Settled'
    BY <1>5, ClientSettled
  <1>7. ASSUME NEW id \in Ids, NEW t \in Tags, channels[id] # 0
        PROVE  Callback(id, t)' = Callback(id, t)
    <2>1. stack[1].ch \in Chan /\ stack[1].got.tag \in Tags
      BY <1>0, <1>1, <1>3 DEF Going, CallOK
    <2>2. callbacks \in [Chan -> [Tags -> Nat]] /\ channels[id] \in Chan
      BY <1>7 DEF Going, CallInv, TypeOK, ChannelTypeOK, AbstractChannelTypeOK, Obj, Chan
    <2>3. Callback(id, t)' = callbacks'[channels[id]][t]
      BY <1>0, <1>3 DEF Callback, Consumed
    <2>4. callbacks'[channels[id]][t] =
            IF stack[1].ch = channels[id] /\ stack[1].got.tag = t THEN stack[1].req.rid
            ELSE callbacks[channels[id]][t]
      BY <1>0, <1>1, <2>1, <2>2
    <2> QED BY <1>3, <2>3, <2>4 DEF Callback
  <1>8. ToldOK'
    BY <1>5, <1>7, ClientTold
  <1>9. OneConsume'
    <2>1. "BasicConsumeOk" \notin Names(toClient) /\ \A id \in Ids : "BasicConsume" \notin Names(toServer[id])
      BY <1>3, NoneAsked
    <2>2. Single(toClient', "BasicConsumeOk") /\ \A id \in Ids : Single(toServer'[id], "BasicConsume")
      BY <1>0 DEF Going, OneConsume
    <2> QED BY <1>0, <2>1, <2>2 DEF OneConsume, Names
  <1> QED BY <1>4, <1>6, <1>8, <1>9 DEF Lives

\* Consume-Ok is read.
LEMMA BeginsLives ==
  ASSUME Going, Adds, Begins
  PROVE  Lives'
  <1>0. /\ Takes /\ In.m = "BasicConsumeOk" /\ OneShot(Target, "BasicConsumeOk")
        /\ UNCHANGED <<channels, callbacks, bcons, toServer>> /\ In \in Message
        /\ stack \in Seq(Frame) /\ Flat(stack) /\ stack # <<>> /\ Len(stack) = 1 /\ Top = stack[1]
        /\ ~Top.ready /\ AbstractChannelTypeOK /\ toClient \in Seq(Message) /\ toClient # <<>>
    BY Addressee DEF Begins, Dispatches, Going, CallInv, TypeOK, AbstractChannelTypeOK, CallOK, Takes
  <1>1. In.ch \in Ids /\ Waiting /\ channels[In.ch] = stack[1].ch /\ In.rid = stack[1].req.rid
        /\ In.tag \in Tags
    BY <1>0, Addressee DEF Going, OneConsume, Wanted
  <1>2. /\ Target = stack[1].ch /\ stack[1].ch \in Chan /\ pending[Target]["BasicConsumeOk"] = 1
        /\ stack[1].op = "consume" /\ stack[1].on = {"BasicConsumeOk"} /\ stack[1].req.rid # 0
    <2>1. In.ch # 0 /\ Target = stack[1].ch
      BY <1>1, SpecAssumption DEF Ids, Target
    <2> QED BY <1>1, <2>1 DEF Going, CallOK, Waiting, Consuming
  <1> DEFINE s == Drained(stack)
             g == [s[1] EXCEPT !.got = In, !.ready = TRUE]
  <1>3. /\ s \in Seq(Frame) /\ Len(s) = 1 /\ s[1] \in Frame /\ s[1].op = "consume"
        /\ s[1].ch = stack[1].ch /\ s[1].on = stack[1].on /\ s[1].req = stack[1].req
    <2>1. s \in Seq(Frame) /\ Len(s) = 1 /\ Like(stack[1], s[1])
      BY <1>0, DrainedType, DrainedLike
    <2>2. s[1] \in Frame
      BY <2>1
    <2> QED BY <1>2, <2>1, <2>2 DEF Like
  <1>4. stack' = Fulfilled(s, 1, In) /\ exc' = "none"
    BY <1>0, <1>2 DEF OneShot, RaisedBy
  <1>5. /\ g.op = "consume" /\ g.ch = stack[1].ch /\ g.on = {"BasicConsumeOk"}
        /\ g.req = stack[1].req /\ g.got = In /\ g.ready
    BY <1>2, <1>3 DEF Frame
  <1>6. stack' = [s EXCEPT ![1] = g]
    <2>1. 1 \in DOMAIN s
      BY <1>3
    <2> QED BY <1>0, <1>4, <2>1 DEF Fulfilled
  <1> HIDE DEF s, g
  <1>7. Len(stack') = 1 /\ stack'[1] = g /\ stack' \in Seq(Frame)
    <2>1. stack' \in Seq(Frame)
      BY DEF Going, CallInv, TypeOK, AbstractChannelTypeOK
    <2> QED BY <1>3, <1>6, <2>1
  <1>8. Consuming(stack') /\ Consumed' /\ ~Waiting'
    <2>0. stack' \in Seq(Frame) /\ Len(stack') # 0
      BY <1>7
    <2>1. stack' # <<>>
      BY <2>0, EmptySeq
    <2> QED BY <1>5, <1>7, <2>1 DEF Consuming, Consumed, Waiting
  <1>9. CallOK'
    <2>1. Flat(stack')
      BY <1>5, <1>7 DEF Flat
    <2>2. /\ stack'[1].ch \in Chan /\ stack'[1].on = {"BasicConsumeOk"} /\ stack'[1].req.rid # 0
          /\ stack'[1].got.tag \in Tags /\ stack'[1].ready
      BY <1>1, <1>2, <1>5, <1>7
    <2> QED BY <1>4, <2>1, <2>2 DEF CallOK
  <1>10. Settled'
    <2>1. PostedAny /\ Reads1
      BY <1>0 DEF PostedAny, Reads1
    <2> QED BY <1>0, <2>1, ClientSettled
  <1>11. ASSUME NEW id \in Ids, NEW t \in Tags, channels[id] # 0
         PROVE  Callback(id, t)' = IF Takes /\ Sets(In, id, t) THEN Gives(In) ELSE Callback(id, t)
    <2>1. stack[1].ch = channels[id] <=> id = In.ch
      BY <1>1, <1>11 DEF Going, CallInv, RegistryOK
    <2>2. Callback(id, t) = callbacks[channels[id]][t]
      BY <1>0, NoneConsumed DEF Callback
    <2>3. Callback(id, t)' = IF id = In.ch /\ In.tag = t THEN In.rid ELSE callbacks[channels[id]][t]
      BY <1>0, <1>1, <1>5, <1>7, <1>8, <2>1 DEF Callback
    <2> QED BY <1>0, <2>2, <2>3 DEF Sets, Gives, Setting
  <1>12. ToldOK'
    BY <1>0, <1>11, ClientTold DEF Reads1
  <1>13. OneConsume'
    <2>1. toClient' = Tail(toClient) /\ Single(toClient, "BasicConsumeOk")
      BY <1>0 DEF Takes, Going, OneConsume
    <2>2. Single(toClient', "BasicConsumeOk") /\ "BasicConsumeOk" \notin Names(toClient')
      BY <1>0, <2>1, SingleTaken DEF In
    <2>3. "BasicConsumeOk" \in Names(toClient)
      BY <1>0, NamesMove DEF In
    <2>4. \A id \in Ids : Single(toServer[id], "BasicConsume") /\ "BasicConsume" \notin Names(toServer[id])
      BY <2>3 DEF Going, OneConsume
    <2> QED BY <1>0, <2>2, <2>4 DEF OneConsume, Names
  <1> QED BY <1>9, <1>10, <1>12, <1>13 DEF Lives

\* Every step of the client.
LEMMA ClientLives ==
  ASSUME Going, [Next]_vars, AppCall \/ LibraryStep \/ CallbackEnds \/ TimesOut
  PROVE  Lives'
  BY ClientAdds, ClientBeside, BesideLives, StopsLives, AsksLives, ReturnLives, BeginsLives

-----------------------------------------------------------------------------
(* The steps of the broker keep the invariant.                             *)

\* Other methods are appended to a queue.
LEMMA SingleJoin ==
  ASSUME NEW s \in Seq(Message), NEW ms \in Seq(Message), NEW m, Single(s, m), m \notin Names(ms)
  PROVE  Single(s \o ms, m)
  <1> DEFINE p == s \o ms
             n == Len(s)
             l == Len(ms)
  <1>1. /\ Len(p) = n + l /\ n \in Nat /\ l \in Nat
        /\ \A i \in 1 .. n + l : p[i] = IF i <= n THEN s[i] ELSE ms[i - n]
    BY ConcatProperties, LenProperties
  <1>2. \A i \in 1 .. l : ms[i].m # m
    BY DEF Names, Items
  <1>3. \A i, j \in 1 .. n : s[i].m = m /\ s[j].m = m => i = j
    BY DEF Single
  <1> HIDE DEF p, n, l
  <1>4. ASSUME NEW i \in 1 .. n + l, p[i].m = m PROVE i \in 1 .. n /\ s[i].m = m
    <2>1. i > n => i - n \in 1 .. l /\ p[i] = ms[i - n]
      BY <1>1
    <2>2. i <= n
      BY <1>1, <1>2, <1>4, <2>1
    <2> QED BY <1>1, <1>4, <2>2
  <1>5. \A i, j \in 1 .. Len(p) : p[i].m = m /\ p[j].m = m => i = j
    BY <1>1, <1>3, <1>4
  <1> QED BY <1>5 DEF Single, p

\* What is appended to a queue concerns no callback; the consumer may be gone.
LEMMA ToldJoin ==
  ASSUME NEW q \in Seq(Message), NEW ms \in Seq(Message), NEW id, NEW t, NEW v, NEW b, NEW b2,
         Told(q, id, t, v, b), b2 = b \/ b2 = NoConsumer,
         \A y \in Items(ms) : ~Owed(y, id, t) /\ ~Sets(y, id, t)
  PROVE  Told(q \o ms, id, t, v, b2)
  <1> DEFINE p == q \o ms
             a == Len(q)
             l == Len(ms)
  <1>1. /\ Len(p) = a + l /\ a \in Nat /\ l \in Nat
        /\ \A i \in 1 .. a + l : p[i] = IF i <= a THEN q[i] ELSE ms[i - a]
    BY ConcatProperties, LenProperties
  <1>2. \A i \in 1 .. l : ~Owed(ms[i], id, t) /\ ~Sets(ms[i], id, t)
    BY DEF Items
  <1>3. /\ \A n \in 1 .. a : Owed(q[n], id, t) => q[n].rid # 0 /\ Leads(q, n - 1, id, t, v, q[n].rid)
        /\ b # NoConsumer => b.rid # 0 /\ Leads(q, a, id, t, v, b.rid)
    BY DEF Told
  <1> HIDE DEF p, a, l
  <1>4. ASSUME NEW i \in 1 .. a + l, i > a PROVE ~Owed(p[i], id, t) /\ ~Sets(p[i], id, t)
    <2>1. i - a \in 1 .. l /\ p[i] = ms[i - a]
      BY <1>1, <1>4
    <2> QED BY <1>2, <2>1
  <1>5. ASSUME NEW n \in 0 .. a, NEW r, Leads(q, n, id, t, v, r)
        PROVE  Leads(p, n, id, t, v, r)
    <2>1. \A k \in 1 .. n : p[k] = q[k]
      BY <1>1
    <2>2. \A j \in 1 .. n : \A k \in j + 1 .. n : p[k] = q[k]
      BY <1>1
    <2> QED BY <1>5, <2>1, <2>2 DEF Leads
  <1>6. ASSUME NEW n \in 1 .. Len(p), Owed(p[n], id, t)
        PROVE  p[n].rid # 0 /\ Leads(p, n - 1, id, t, v, p[n].rid)
    <2>1. n \in 1 .. a /\ p[n] = q[n] /\ n - 1 \in 0 .. a
      BY <1>1, <1>4, <1>6
    <2> QED BY <1>3, <1>5, <1>6, <2>1
  <1>7. ASSUME b2 # NoConsumer PROVE b2.rid # 0 /\ Leads(p, Len(p), id, t, v, b2.rid)
    <2>1. b2 = b /\ b.rid # 0 /\ Leads(p, a, id, t, v, b.rid)
      BY <1>1, <1>3, <1>5, <1>7
    <2>2. ASSUME \A k \in 1 .. Len(p) : ~Sets(p[k], id, t) PROVE v = b.rid
      <3>1. \A k \in 1 .. a : k \in 1 .. Len(p)
        BY <1>1
      <3> QED BY <2>1, <2>2, <3>1 DEF Leads
    <2>3. ASSUME NEW j \in 1 .. Len(p), Sets(p[j], id, t),
                 \A k \in j + 1 .. Len(p) : ~Sets(p[k], id, t)
          PROVE  Gives(p[j]) = b.rid
      <3>1. j \in 1 .. a /\ \A k \in j + 1 .. a : k \in j + 1 .. Len(p)
        BY <1>1, <1>4, <2>3
      <3> QED BY <2>1, <2>3, <3>1 DEF Leads
    <2> QED BY <2>1, <2>2, <2>3 DEF Leads
  <1>8. Told(p, id, t, v, b2)
    BY <1>6, <1>7 DEF Told
  <1> QED BY <1>8 DEF p

(* At most one method is taken from the queues to the broker. *)
Took ==
  \/ UNCHANGED toServer
  \/ \E k \in Ids0 : toServer[k] # <<>> /\ toServer' = [toServer EXCEPT ![k] = Tail(@)]

(* The broker sends ms.  It closes no channel and gives none to an id that *)
(* has no object.                                                          *)
Serves(ms) ==
  /\ sock' /\ UNCHANGED <<clientVars, created>> /\ Took
  /\ toClient' = toClient \o ms /\ \A y \in Items(ms) : Welcome(y)
  /\ \A id \in Ids : /\ bchan'[id] # "closing"
                     /\ channels[id] = 0 => bchan'[id] = bchan[id] /\ bcons'[id] = bcons[id]

\* What is left of a queue to the broker.
LEMMA TookLess ==
  ASSUME Going, Took, NEW id \in Ids
  PROVE  /\ Items(toServer'[id]) \subseteq Items(toServer[id])
         /\ Names(toServer'[id]) \subseteq Names(toServer[id])
         /\ toServer[id] = <<>> => toServer'[id] = <<>>
         /\ \A m : Single(toServer[id], m) => Single(toServer'[id], m)
  <1>0. toServer \in [Ids0 -> Seq(Message)] /\ id \in Ids0
    BY SpecAssumption DEF Going, CallInv, TypeOK, AbstractChannelTypeOK, Ids, Ids0
  <1>1. toServer'[id] = toServer[id] \/ (toServer[id] # <<>> /\ toServer'[id] = Tail(toServer[id]))
    BY <1>0 DEF Took
  <1>2. Items(toServer'[id]) \subseteq Items(toServer[id])
    BY <1>0, <1>1, ItemsTaken
  <1>3. \A m : Single(toServer[id], m) => Single(toServer'[id], m)
    BY <1>0, <1>1, SingleTaken
  <1> QED BY <1>1, <1>2, <1>3 DEF Names

\* What the broker sends is welcome.
LEMMA ServesSettled ==
  ASSUME Going, NEW ms \in Seq(Message), Serves(ms)
  PROVE  Settled' /\ CallOK'
  <1>0. Settled /\ CallOK /\ toClient \in Seq(Message) /\ UNCHANGED clientVars /\ UNCHANGED created
    BY DEF Going, CallInv, TypeOK, AbstractChannelTypeOK, Serves
  <1>1. UNCHANGED <<channels, connection, is_closing, pending, stack, exc>>
    BY <1>0 DEF clientVars
  <1>2. CallOK'
    BY <1>0, <1>1 DEF CallOK, Consuming, Flat
  <1>3. ASSUME NEW id \in Ids PROVE SettledId(id)'
    <2>1. SettledId(id)
      BY <1>0 DEF Settled
    <2> QED BY <1>1, <2>1, TookLess DEF SettledId, Serves
  <1>4. ASSUME NEW x \in Items(toClient') PROVE Welcome(x)'
    <2>1. x \in Items(toClient) \/ x \in Items(ms)
      BY <1>0, ItemsBoth DEF Serves
    <2>2. Welcome(x)
      BY <1>0, <2>1 DEF Settled, Serves
    <2> QED BY <1>1, <2>2 DEF Welcome
  <1> QED BY <1>0, <1>1, <1>2, <1>3, <1>4 DEF Settled, Serves

\* Nothing but Consume is answered with Consume-Ok.
LEMMA ServesOne ==
  ASSUME Going, NEW ms \in Seq(Message), Serves(ms), "BasicConsumeOk" \notin Names(ms)
  PROVE  OneConsume'
  <1>0. OneConsume /\ toClient \in Seq(Message) /\ UNCHANGED clientVars /\ Took
        /\ toClient' = toClient \o ms
    BY DEF Going, CallInv, TypeOK, AbstractChannelTypeOK, Serves
  <1>1. UNCHANGED <<channels, stack>>
    BY <1>0 DEF clientVars
  <1>2. \A id, x : Wanted(id, x)' <=> Wanted(id, x)
    BY <1>1 DEF Wanted, Waiting, Consuming
  <1>3. Single(toClient', "BasicConsumeOk")
    BY <1>0, SingleJoin DEF OneConsume
  <1>4. Items(toClient') = Items(toClient) \cup Items(ms)
    BY <1>0, ItemsBoth
  <1>5. Names(toClient') = Names(toClient) \cup Names(ms)
    BY <1>4 DEF Names
  <1>6. ASSUME NEW x \in Items(toClient'), x.m = "BasicConsumeOk"
        PROVE  x.ch \in Ids /\ Wanted(x.ch, x)' /\ x.tag \in Tags
    <2>1. x \in Items(toClient)
      BY <1>4, <1>6 DEF Names
    <2> QED BY <1>0, <1>2, <1>6, <2>1 DEF OneConsume
  <1>7. ASSUME NEW id \in Ids
        PROVE  /\ Single(toServer'[id], "BasicConsume")
               /\ "BasicConsume" \in Names(toServer'[id]) => "BasicConsumeOk" \notin Names(toClient')
               /\ \A x \in Items(toServer'[id]) :
                    x.m = "BasicConsume" => Wanted(id, x)' /\ ~x.nowait
    <2>1. /\ Single(toServer[id], "BasicConsume")
          /\ "BasicConsume" \in Names(toServer[id]) => "BasicConsumeOk" \notin Names(toClient)
          /\ \A x \in Items(toServer[id]) : x.m = "BasicConsume" => Wanted(id, x) /\ ~x.nowait
      BY <1>0 DEF OneConsume
    <2> QED BY <1>0, <1>2, <1>5, <2>1, TookLess
  <1> QED BY <1>3, <1>6, <1>7 DEF OneConsume

\* The callbacks are those of before.
LEMMA ServesCallback ==
  ASSUME NEW ms, Serves(ms)
  PROVE  UNCHANGED channels /\ \A id, t : Callback(id, t)' = Callback(id, t)
  <1>1. UNCHANGED <<channels, stack, callbacks>>
    BY DEF Serves, clientVars, chanVars, consumers
  <1> QED BY <1>1 DEF Callback, Consumed, Consuming

\* Steps of the broker that have nothing to do with consumers, or end one.
LEMMA AsideLives ==
  ASSUME Going, NEW ms \in Seq(Message), Serves(ms),
         \A y \in Items(ms) : y.m \notin Setting \cup {"BasicDeliver"},
         \A id \in Ids, t \in Tags : bcons'[id][t] = bcons[id][t] \/ bcons'[id][t] = NoConsumer
  PROVE  Lives'
  <1>1. "BasicConsumeOk" \notin Names(ms)
    BY DEF Names, Setting
  <1>2. ASSUME NEW id \in Ids, NEW t \in Tags, channels'[id] # 0
        PROVE  Told(toClient', id, t, Callback(id, t)', bcons'[id][t])
    <2>1. Told(toClient, id, t, Callback(id, t), bcons[id][t]) /\ toClient \in Seq(Message)
      BY <1>2, ServesCallback DEF Going, ToldOK, CallInv, TypeOK, AbstractChannelTypeOK
    <2>2. \A y \in Items(ms) : ~Owed(y, id, t) /\ ~Sets(y, id, t)
      BY DEF Owed, Sets, Setting
    <2>3. Told(toClient \o ms, id, t, Callback(id, t), bcons'[id][t])
      BY <2>1, <2>2, ToldJoin
    <2> QED BY <2>3, ServesCallback DEF Serves
  <1> QED BY <1>1, <1>2, ServesSettled, ServesOne DEF Lives, ToldOK

\* A method for the callbacks is sent, or what ends a consumer.
LEMMA TellsLives ==
  ASSUME Going, NEW x \in Message, Serves(<<x>>), x.m # "BasicConsumeOk",
         \A id \in Ids, t \in Tags :
           /\ Owed(x, id, t) => bcons[id][t] # NoConsumer /\ x.rid = bcons[id][t].rid
           /\ bcons'[id][t] = IF Sets(x, id, t) THEN NoConsumer ELSE bcons[id][t]
  PROVE  Lives'
  <1>0. <<x>> \in Seq(Message) /\ Items(<<x>>) = {x} /\ "BasicConsumeOk" \notin Names(<<x>>)
    BY ItemsFew DEF Names
  <1>1. toClient' = toClient \o <<x>> /\ \A id, t : Callback(id, t)' = Callback(id, t)
    <2>1. \A id, t : Callback(id, t)' = Callback(id, t)
      BY ServesCallback
    <2> QED BY <2>1 DEF Serves
  <1>2. ASSUME NEW id \in Ids, NEW t \in Tags, channels'[id] # 0
        PROVE  Told(toClient', id, t, Callback(id, t)', bcons'[id][t])
    <2>1. Told(toClient, id, t, Callback(id, t), bcons[id][t]) /\ toClient \in Seq(Message)
      BY <1>2, ServesCallback DEF Going, ToldOK, CallInv, TypeOK, AbstractChannelTypeOK
    <2>2. Told(toClient \o <<x>>, id, t, Callback(id, t), bcons'[id][t])
      <3> DEFINE b == bcons[id][t]
                 b2 == bcons'[id][t]
      <3>1. /\ Owed(x, id, t) => b # NoConsumer /\ x.rid = b.rid
            /\ b2 # NoConsumer => IF Sets(x, id, t) THEN b2.rid = Gives(x) /\ b2.rid # 0 ELSE b2 = b
        OBVIOUS
      <3> HIDE DEF b, b2
      <3>2. Told(toClient, id, t, Callback(id, t), b)
        BY <2>1 DEF b
      <3>3. Told(toClient \o <<x>>, id, t, Callback(id, t), b2)
        BY <2>1, <3>1, <3>2, ToldMore
      <3> QED BY <3>3 DEF b2
    <2> QED BY <1>1, <2>2
  <1> QED BY <1>0, <1>2, ServesSettled, ServesOne DEF Lives, ToldOK

\* A channel that hears from the client, or is open, has an object.
LEMMA HasObject ==
  ASSUME Going, NEW id \in Ids, toServer[id] # <<>> \/ bchan[id] = "open"
  PROVE  channels[id] # 0 /\ id # 0 /\ id \in Ids0 /\ SettledId(id)
  <1>1. SettledId(id)
    BY DEF Going, Settled
  <1> QED BY <1>1, SpecAssumption DEF SettledId, Ids, Ids0

\* What the broker answers to other requests concerns no callback.
LEMMA OtherAnswers ==
  \A n \in Sync \ {"ChannelOpen", "ChannelClose", "BasicConsume", "BasicPublish", "BasicCancel"} :
    ReplyTo[n] \cap (Setting \cup Pushed \cup {"ChannelClose", "ChannelCloseOk"}) = {}
  BY DEF Sync, ReplyTo, Setting, Pushed

\* A method of a channel is handled, or one of the connection.
LEMMA ReceivesServes ==
  ASSUME Going, NEW id \in Ids0, NEW ms \in Seq(Message), Receives(id, ms), UNCHANGED created,
         \A y \in Items(ms) : Welcome(y),
         \A k \in Ids : bchan'[k] = bchan[k] \/ (k = id /\ bchan'[k] = "open"),
         \A k \in Ids : k # id => bcons'[k] = bcons[k]
  PROVE  Serves(ms)
  <1>1. /\ sock' /\ UNCHANGED <<clientVars, created>> /\ Took /\ toClient' = toClient \o ms
        /\ toServer[id] # <<>>
    BY DEF Receives, Took
  <1>2. ASSUME NEW k \in Ids
        PROVE  /\ bchan'[k] # "closing"
               /\ channels[k] = 0 => bchan'[k] = bchan[k] /\ bcons'[k] = bcons[k]
    <2>1. SettledId(k)
      BY DEF Going, Settled
    <2> QED BY <1>1, <2>1, HasObject DEF SettledId
  <1> QED BY <1>1, <1>2 DEF Serves

\* A method is sent without being asked for.
LEMMA HappensServes ==
  ASSUME Going, NEW x \in Message, NEW m, Happens(m, x), UNCHANGED created, UNCHANGED bchan,
         Welcome(x), \A k \in Ids : channels[k] = 0 => bcons'[k] = bcons[k]
  PROVE  Serves(<<x>>)
  <1>1. /\ sock' /\ UNCHANGED <<clientVars, created>> /\ Took /\ toClient' = toClient \o <<x>>
    <2>1. toClient \in Seq(Message)
      BY DEF Going, CallInv, TypeOK, AbstractChannelTypeOK
    <2> QED BY <2>1, AppendIsConcat DEF Happens, Took
  <1>2. Items(<<x>>) = {x}
    BY ItemsFew
  <1>3. ASSUME NEW k \in Ids PROVE bchan'[k] # "closing"
    BY DEF Going, Settled, SettledId
  <1> QED BY <1>1, <1>2, <1>3 DEF Serves

\* A request is answered.
LEMMA RepliesLives ==
  ASSUME Going, UNCHANGED created, NEW id \in Ids, NEW m \in Replies, BrokerReplies(id, m)
  PROVE  Lives'
  <1> DEFINE r == Received(id)
             x == Reply(id, m)
             ms == IF r.nowait THEN <<>> ELSE <<x>>
  <1>0. /\ TypeOK /\ toServer[id] # <<>> /\ Receives(id, ms) /\ UNCHANGED bchan
        /\ r.m \in Sync \ {"ChannelOpen", "ChannelClose", "BasicConsume", "BasicPublish"}
        /\ m \in ReplyTo[r.m] /\ m \in Methods
        /\ bcons' = IF r.m # "BasicCancel" THEN bcons
                    ELSE [bcons EXCEPT ![id][r.tag] = NoConsumer]
        /\ bcons \in [Ids -> [Tags -> [rid : Nat, no_ack : BOOLEAN]]]
    BY MethodsFacts DEF BrokerReplies, Going, CallInv, TypeOK, BrokerTypeOK
  <1>1. channels[id] # 0 /\ id # 0 /\ id \in Ids0
    BY <1>0, HasObject
  <1>2. x \in Message /\ x.ch = id /\ x.m = m /\ x.tag = r.tag
    BY <1>0, <1>1, ReplyType, ReplyFields DEF Reply, Msg
  <1>3. CASE r.m # "BasicCancel"
    <2>1. m \notin Setting \cup Pushed \cup {"ChannelClose", "ChannelCloseOk"}
      BY <1>0, <1>3, OtherAnswers
    <2>2. ms \in Seq(Message) /\ \A y \in Items(ms) : y = x
      <3> HIDE DEF x
      <3> QED BY <1>2, ItemsOne, ItemsFew, ItemsNone
    <2> HIDE DEF x, ms
    <2>3. \A y \in Items(ms) : Welcome(y) /\ y.m \notin Setting \cup {"BasicDeliver"}
      BY <1>1, <1>2, <2>1, <2>2 DEF Welcome, Pushed
    <2>4. Serves(ms)
      BY <1>0, <1>1, <1>3, <2>2, <2>3, ReceivesServes
    <2> QED BY <1>0, <1>3, <2>2, <2>3, <2>4, AsideLives
  <1>4. CASE r.m = "BasicCancel"
    <2>1. m = "BasicCancelOk"
      BY <1>0, <1>4 DEF ReplyTo
    <2>2. /\ \A k \in Ids : k # id => bcons'[k] = bcons[k]
          /\ \A k \in Ids, t \in Tags :
               bcons'[k][t] = IF k = id /\ t = r.tag THEN NoConsumer ELSE bcons[k][t]
      <3> HIDE DEF r
      <3> QED BY <1>0, <1>4
    <2>3. CASE r.nowait
      <3>1. ms = <<>> /\ ms \in Seq(Message) /\ Items(ms) = {}
        BY <2>3, ItemsNone
      <3> HIDE DEF ms
      <3>2. Serves(ms)
        BY <1>0, <1>1, <2>2, <3>1, ReceivesServes
      <3> QED BY <2>2, <3>1, <3>2, AsideLives
    <2>4. CASE ~r.nowait
      <3>1. ms = <<x>>
        BY <2>4
      <3> HIDE DEF x, ms
      <3>2. ms \in Seq(Message) /\ \A y \in Items(ms) : y = x
        BY <1>2, <3>1, ItemsOne, ItemsFew
      <3>3. Welcome(x)
        BY <1>1, <1>2, <2>1 DEF Welcome, Pushed
      <3>4. Serves(ms)
        BY <1>0, <1>1, <2>2, <3>2, <3>3, ReceivesServes
      <3>5. ASSUME NEW k \in Ids, NEW t \in Tags
            PROVE  /\ ~Owed(x, k, t)
                   /\ bcons'[k][t] = IF Sets(x, k, t) THEN NoConsumer ELSE bcons[k][t]
        BY <1>2, <2>1, <2>2 DEF Owed, Sets, Setting
      <3>6. Serves(<<x>>) /\ x.m # "BasicConsumeOk" /\ x \in Message
        BY <1>2, <2>1, <3>1, <3>4
      <3> QED BY <3>5, <3>6, TellsLives
    <2> QED BY <2>3, <2>4
  <1> QED BY <1>3, <1>4

\* A message is published.
LEMMA PublishesLives ==
  ASSUME Going, UNCHANGED created, NEW id \in Ids, NEW returned \in BOOLEAN,
         NEW m \in {"BasicAck", "BasicNack"}, BrokerPublishes(id, returned, m)
  PROVE  Lives'
  <1> DEFINE u == Reply(id, "BasicReturn")
             v == Reply(id, m)
             a == IF returned THEN <<u>> ELSE <<>>
             b == IF bconfirm[id] THEN <<v>> ELSE <<>>
  <1>0. /\ TypeOK /\ toServer[id] # <<>> /\ Receives(id, a \o b) /\ UNCHANGED <<bchan, bcons>>
        /\ returned => "BasicReturn" \in Events
    BY DEF BrokerPublishes, Going, CallInv
  <1>1. channels[id] # 0 /\ id # 0 /\ id \in Ids0
    BY <1>0, HasObject
  <1>2. u \in Message /\ u.ch = id /\ u.m = "BasicReturn"
    BY <1>0, <1>1, ReplyType, ReplyFields, NoReplies
  <1>3. v \in Message /\ v.ch = id /\ v.m = m
    BY <1>0, <1>1, ReplyType, ReplyFields, RepliesFacts, MethodsFacts
  <1>4. returned => "BasicReturn" \in Callbacks
    BY <1>0 DEF Going, Undisturbed, Pushed
  <1>5. returned => Welcome(u)
    <2> HIDE DEF u
    <2> QED BY <1>1, <1>2, <1>4 DEF Welcome, Pushed
  <1>6. Welcome(v)
    <2> HIDE DEF v
    <2> QED BY <1>1, <1>3 DEF Welcome, Pushed
  <1> HIDE DEF u, v
  <1>7. a \in Seq(Message) /\ \A y \in Items(a) : Welcome(y) /\ y.m = "BasicReturn"
    BY <1>2, <1>5, ItemsOne, ItemsNone
  <1>8. b \in Seq(Message) /\ \A y \in Items(b) : Welcome(y) /\ y.m = m
    BY <1>3, <1>6, ItemsOne, ItemsNone
  <1> DEFINE ms == a \o b
  <1> HIDE DEF a, b
  <1>9. /\ ms \in Seq(Message)
        /\ \A y \in Items(ms) : Welcome(y) /\ y.m \notin Setting \cup {"BasicDeliver"}
    BY <1>7, <1>8, ConcatProperties, ItemsConcat DEF Setting
  <1> HIDE DEF ms
  <1>10. Receives(id, ms)
    BY <1>0 DEF ms
  <1>11. Serves(ms)
    BY <1>0, <1>1, <1>9, <1>10, ReceivesServes
  <1> QED BY <1>0, <1>9, <1>11, AsideLives

\* A method without an answer, or one that is an error; Open; Close of the connection.
LEMMA AcceptsLives ==
  ASSUME Going, UNCHANGED created,
         \/ \E id \in Ids : BrokerAccepts(id) \/ BrokerOpens(id) \/ BrokerFails(id)
         \/ BrokerDisconnects
  PROVE  Lives'
  <1>0. TypeOK /\ Ids \subseteq Ids0 /\ 0 \in Ids0 /\ 0 \notin Ids /\ 0 \in Nat
        /\ bchan \in [Ids -> {"closed", "open", "closing"}]
    BY SpecAssumption DEF Going, CallInv, TypeOK, BrokerTypeOK, Ids, Ids0
  <1>1. ASSUME NEW id \in Ids0, NEW ms \in Seq(Message), Receives(id, ms), UNCHANGED bcons,
               \A y \in Items(ms) : /\ y.ch = id \/ y.ch = 0
                                    /\ y.m \in {"ChannelOpenOk", "ConnectionClose", "ConnectionCloseOk"},
               \A k \in Ids : bchan'[k] = bchan[k] \/ (k = id /\ bchan'[k] = "open")
        PROVE  Lives'
    <2>1. id = 0 \/ (id \in Ids /\ channels[id] # 0)
      BY <1>0, <1>1, HasObject DEF Receives, Ids, Ids0
    <2>2. \A y \in Items(ms) : Welcome(y) /\ y.m \notin Setting \cup {"BasicDeliver"}
      BY <1>1, <2>1 DEF Welcome, Pushed, Setting
    <2>3. Serves(ms)
      BY <1>1, <2>2, ReceivesServes
    <2> QED BY <1>1, <2>2, <2>3, AsideLives
  <1>2. <<>> \in Seq(Message) /\ Items(<<>>) = {}
    BY ItemsNone
  <1>3. ASSUME NEW id \in Ids, BrokerAccepts(id) PROVE Lives'
    <2>1. Receives(id, <<>>) /\ UNCHANGED <<bchan, bcons>> /\ id \in Ids0
      BY <1>0, <1>3 DEF BrokerAccepts, brokerVars
    <2> QED BY <1>1, <1>2, <2>1
  <1>4. ASSUME NEW id \in Ids, BrokerOpens(id) PROVE Lives'
    <2> DEFINE x == Reply(id, "ChannelOpenOk")
               ms == <<x>>
    <2>1. /\ Receives(id, ms) /\ UNCHANGED bcons /\ id \in Ids0 /\ toServer[id] # <<>>
          /\ bchan' = [bchan EXCEPT ![id] = "open"]
      BY <1>0, <1>4 DEF BrokerOpens
    <2>2. x \in Message /\ x.ch = id /\ x.m = "ChannelOpenOk"
      BY <1>0, <2>1, ReplyType, ReplyFields, RepliesFacts, MethodsFacts
    <2> HIDE DEF x
    <2>3. ms \in Seq(Message) /\ Items(ms) = {x}
      BY <2>2, ItemsFew
    <2>4. \A k \in Ids : bchan'[k] = bchan[k] \/ (k = id /\ bchan'[k] = "open")
      BY <1>0, <2>1
    <2> HIDE DEF ms
    <2> QED BY <1>1, <2>1, <2>2, <2>3, <2>4
  <1>5. ASSUME NEW id \in Ids, BrokerFails(id) PROVE Lives'
    <2> DEFINE x == Msg(0, "ConnectionClose", 0)
               ms == <<x>>
    <2>1. Receives(id, ms) /\ UNCHANGED <<bchan, bcons>> /\ id \in Ids0
      BY <1>0, <1>5 DEF BrokerFails
    <2>2. x \in Message /\ x.ch = 0 /\ x.m = "ConnectionClose"
      BY <1>0, MsgType, NoReplies DEF Msg
    <2> HIDE DEF x
    <2>3. ms \in Seq(Message) /\ Items(ms) = {x}
      BY <2>2, ItemsFew
    <2> HIDE DEF ms
    <2> QED BY <1>1, <2>1, <2>2, <2>3
  <1>6. ASSUME BrokerDisconnects PROVE Lives'
    <2> DEFINE x == Reply(0, "ConnectionCloseOk")
               ms == IF Received(0).m = "ConnectionClose" THEN <<x>> ELSE <<>>
    <2>1. Receives(0, ms) /\ UNCHANGED <<bchan, bcons>> /\ toServer[0] # <<>>
      BY <1>6 DEF BrokerDisconnects
    <2>2. x \in Message /\ x.ch = 0 /\ x.m = "ConnectionCloseOk"
      BY <1>0, <2>1, ReplyType, ReplyFields, RepliesFacts, MethodsFacts
    <2> HIDE DEF x
    <2>3. ms \in Seq(Message) /\ \A y \in Items(ms) : y = x
      BY <2>2, ItemsOne, ItemsFew, ItemsNone
    <2> HIDE DEF ms
    <2> QED BY <1>0, <1>1, <2>1, <2>2, <2>3
  <1> QED BY <1>3, <1>4, <1>5, <1>6

\* A consumer is added.
LEMMA ConsumesLives ==
  ASSUME Going, UNCHANGED created, NEW id \in Ids, NEW tag \in Tags, BrokerConsumes(id, tag)
  PROVE  Lives'
  <1> DEFINE r == Received(id)
             w == Reply(id, "BasicConsumeOk")
             x == [w EXCEPT !.tag = tag]
             c == [rid |-> r.rid, no_ack |-> r.no_ack]
  <1>0. /\ TypeOK /\ toServer[id] # <<>> /\ UNCHANGED bchan /\ r.m = "BasicConsume"
        /\ Receives(id, IF r.nowait THEN <<>> ELSE <<x>>)
        /\ bcons' = [bcons EXCEPT ![id][tag] = c]
        /\ bcons \in [Ids -> [Tags -> [rid : Nat, no_ack : BOOLEAN]]]
        /\ toServer \in [Ids0 -> Seq(Message)] /\ toClient \in Seq(Message)
    BY DEF BrokerConsumes, Going, CallInv, TypeOK, BrokerTypeOK, AbstractChannelTypeOK
  <1>1. channels[id] # 0 /\ id # 0 /\ id \in Ids0 /\ toServer[id] \in Seq(Message)
    BY <1>0, HasObject
  <1>2. w \in Message /\ w.ch = id /\ w.m = "BasicConsumeOk" /\ w.rid = r.rid
    BY <1>0, <1>1, ReplyType, ReplyFields, RepliesFacts, MethodsFacts
  <1>3. x \in Message /\ x.ch = id /\ x.m = "BasicConsumeOk" /\ x.rid = r.rid /\ x.tag = tag
    <2> HIDE DEF w
    <2> QED BY <1>2, MessageUpdate DEF Message
  <1>4. r \in Items(toServer[id]) /\ "BasicConsume" \in Names(toServer[id])
    BY <1>0, <1>1, ItemsTaken, NamesMove DEF Received
  <1>5. Wanted(id, r) /\ ~r.nowait
    BY <1>0, <1>4 DEF Going, OneConsume
  <1>6. /\ Waiting /\ ~Consumed /\ r.rid # 0
        /\ Wanted(id, x)
    BY <1>3, <1>5 DEF Wanted, Waiting, Consumed, Going, CallOK
  <1> HIDE DEF x
  <1>7. /\ <<x>> \in Seq(Message) /\ Items(<<x>>) = {x} /\ Receives(id, <<x>>)
    BY <1>0, <1>3, <1>5, ItemsFew
  <1> HIDE DEF r
  <1>8. \A k \in Ids, t \in Tags : bcons'[k][t] = IF k = id /\ t = tag THEN c ELSE bcons[k][t]
    BY <1>0
  <1>9. \A k \in Ids : k # id => bcons'[k] = bcons[k]
    BY <1>0
  <1>10. Serves(<<x>>)
    <2> DEFINE ms == <<x>>
    <2>1. Welcome(x)
      BY <1>1, <1>3 DEF Welcome, Pushed
    <2>2. ms \in Seq(Message) /\ Receives(id, ms) /\ \A y \in Items(ms) : Welcome(y)
      BY <1>7, <2>1
    <2> HIDE DEF ms
    <2>3. Serves(ms)
      BY <1>0, <1>1, <1>9, <2>2, ReceivesServes
    <2> QED BY <2>3 DEF ms
  <1>11. toClient' = toClient \o <<x>> /\ UNCHANGED channels /\ \A k, t : Callback(k, t)' = Callback(k, t)
    <2>1. UNCHANGED channels /\ \A k, t : Callback(k, t)' = Callback(k, t)
      BY <1>10, ServesCallback
    <2> QED BY <1>10, <2>1 DEF Serves
  <1>12. Settled' /\ CallOK'
    BY <1>7, <1>10, ServesSettled
  <1>13. ToldOK'
    <2> SUFFICES ASSUME NEW k \in Ids, NEW t \in Tags, channels[k] # 0
                 PROVE  Told(toClient \o <<x>>, k, t, Callback(k, t), bcons'[k][t])
      BY <1>11 DEF ToldOK
    <2> DEFINE b == bcons[k][t]
               b2 == bcons'[k][t]
    <2>1. Told(toClient, k, t, Callback(k, t), b)
      BY DEF Going, ToldOK
    <2>2. ~Owed(x, k, t) /\ (Sets(x, k, t) <=> k = id /\ t = tag) /\ Gives(x) = r.rid
      BY <1>3 DEF Owed, Sets, Setting, Gives
    <2>3. b2 # NoConsumer => IF Sets(x, k, t) THEN b2.rid = Gives(x) /\ b2.rid # 0 ELSE b2 = b
      BY <1>6, <1>8, <2>2
    <2> HIDE DEF b, b2
    <2>4. Told(toClient \o <<x>>, k, t, Callback(k, t), b2)
      BY <1>0, <1>3, <2>1, <2>2, <2>3, ToldMore
    <2> QED BY <2>4 DEF b2
  <1>14. OneConsume'
    <2>0. \A k, y : Wanted(k, y)' <=> Wanted(k, y)
      <3>1. UNCHANGED <<channels, stack>>
        BY <1>10 DEF Serves, clientVars
      <3> QED BY <3>1 DEF Wanted, Waiting, Consuming
    <2>1. OneConsume /\ Single(toClient, "BasicConsumeOk") /\ "BasicConsumeOk" \notin Names(toClient)
      BY <1>4 DEF Going, OneConsume
    <2>2. Single(toClient', "BasicConsumeOk")
      BY <1>0, <1>3, <1>11, <2>1, SingleMore
    <2>3. Items(toClient') = Items(toClient) \cup {x}
      BY <1>0, <1>7, <1>11, ItemsBoth
    <2>4. ASSUME NEW y \in Items(toClient'), y.m = "BasicConsumeOk"
          PROVE  y.ch \in Ids /\ Wanted(y.ch, y)' /\ y.tag \in Tags
      <3>1. y = x
        BY <2>1, <2>3, <2>4 DEF Names
      <3> QED BY <1>3, <1>6, <2>0, <3>1
    <2>5. ASSUME NEW k \in Ids
          PROVE  Single(toServer'[k], "BasicConsume") /\ "BasicConsume" \notin Names(toServer'[k])
      <3>0. Single(toServer[k], "BasicConsume") /\ k \in Ids0
        BY <2>1, SpecAssumption DEF OneConsume, Ids, Ids0
      <3>1. Single(toServer'[k], "BasicConsume")
        BY <1>10, <3>0, TookLess DEF Serves
      <3>2. CASE k = id
        <4>1. toServer'[k] = Tail(toServer[id])
          BY <1>0, <1>1, <1>7, <3>2 DEF Receives
        <4>2. Head(toServer[id]).m = "BasicConsume"
          BY <1>0 DEF Received, r
        <4> QED BY <1>0, <1>1, <3>0, <3>1, <3>2, <4>1, <4>2, SingleTaken
      <3>3. CASE k # id
        <4>1. toServer'[k] = toServer[k]
          BY <1>0, <1>1, <1>7, <3>0, <3>3 DEF Receives
        <4>2. ASSUME NEW y \in Items(toServer[k]), y.m = "BasicConsume" PROVE FALSE
          <5>1. Wanted(k, y)
            BY <2>1, <4>2 DEF OneConsume
          <5>2. channels[k] = channels[id] /\ channels[id] # 0
            BY <1>1, <1>5, <5>1 DEF Wanted
          <5>3. k = id
            BY <5>2 DEF Going, CallInv, RegistryOK
          <5> QED BY <3>3, <5>3
        <4> QED BY <3>1, <4>1, <4>2 DEF Names
      <3> QED BY <3>2, <3>3
    <2>6. \A k \in Ids : \A y \in Items(toServer'[k]) : y.m # "BasicConsume"
      BY <2>5 DEF Names
    <2> QED BY <2>2, <2>4, <2>5, <2>6 DEF OneConsume
  <1> QED BY <1>12, <1>13, <1>14 DEF Lives

\* What the broker does of its own accord.
LEMMA EventLives ==
  ASSUME Going, UNCHANGED created, BrokerEvent
  PROVE  Lives'
  <1>0. /\ TypeOK /\ Ids \subseteq Ids0 /\ 0 \in Ids0 /\ 0 \notin Ids /\ 0 \in Nat
        /\ "drop" \notin Events /\ "ChannelClose" \notin Events /\ Events \cap Pushed \subseteq Callbacks
        /\ bcons \in [Ids -> [Tags -> [rid : Nat, no_ack : BOOLEAN]]]
    BY SpecAssumption DEF Going, Undisturbed, Unrevived, CallInv, TypeOK, BrokerTypeOK, Ids, Ids0
  <1>1. ASSUME NEW id \in Ids, NEW tag \in Tags, NEW m \in {"BasicDeliver", "BasicCancel"},
               Happens(m, [Msg(id, m, bcons[id][tag].rid) EXCEPT !.tag = tag]),
               bchan[id] = "open", bcons[id][tag] # NoConsumer, UNCHANGED bchan,
               bcons' = IF m = "BasicDeliver" THEN bcons ELSE [bcons EXCEPT ![id][tag] = NoConsumer]
        PROVE  Lives'
    <2> DEFINE w == Msg(id, m, bcons[id][tag].rid)
               x == [w EXCEPT !.tag = tag]
    <2>1. bcons[id][tag].rid \in Nat /\ m \in Methods /\ id \in Ids0 /\ channels[id] # 0 /\ id # 0
          /\ m \in Callbacks
      BY <1>0, <1>1, NoReplies, HasObject DEF Happens, Pushed
    <2>2. w \in Message
      BY <2>1, MsgType
    <2>3. w.ch = id /\ w.m = m /\ w.rid = bcons[id][tag].rid
      BY DEF Msg
    <2>4. x \in Message /\ x.ch = id /\ x.m = m /\ x.rid = bcons[id][tag].rid /\ x.tag = tag
      <3> HIDE DEF w
      <3> QED BY <2>2, <2>3, MessageUpdate DEF Message
    <2>5. Happens(m, x)
      BY <1>1
    <2> HIDE DEF x
    <2>6. Welcome(x)
      BY <2>1, <2>4 DEF Welcome
    <2>7. /\ \A k \in Ids : k # id => bcons'[k] = bcons[k]
          /\ \A k \in Ids, t \in Tags :
               bcons'[k][t] = IF k = id /\ t = tag /\ m = "BasicCancel" THEN NoConsumer ELSE bcons[k][t]
      BY <1>0, <1>1
    <2>8. Serves(<<x>>)
      BY <1>1, <2>1, <2>4, <2>5, <2>6, <2>7, HappensServes
    <2>9. ASSUME NEW k \in Ids, NEW t \in Tags
          PROVE  /\ Owed(x, k, t) => bcons[k][t] # NoConsumer /\ x.rid = bcons[k][t].rid
                 /\ bcons'[k][t] = IF Sets(x, k, t) THEN NoConsumer ELSE bcons[k][t]
      BY <1>1, <2>4, <2>7 DEF Owed, Sets, Setting
    <2>10. x.m # "BasicConsumeOk"
      BY <2>4
    <2> QED BY <2>4, <2>8, <2>9, <2>10, TellsLives
  <1>2. ASSUME NEW id \in Ids0, id # 0 => id \in Ids /\ channels[id] # 0,
               NEW m \in {"ChannelFlow", "ConnectionBlocked", "ConnectionUnblocked", "ConnectionClose"},
               Happens(m, Msg(id, m, 0)), UNCHANGED bchan, UNCHANGED bcons
        PROVE  Lives'
    <2> DEFINE x == Msg(id, m, 0)
               ms == <<x>>
    <2>1. x \in Message /\ x.ch = id /\ x.m = m
      BY <1>0, NoReplies, MsgType DEF Msg
    <2>2. Happens(m, x)
      BY <1>2
    <2> HIDE DEF x
    <2>3. Welcome(x) /\ x.m \notin Setting \cup {"BasicDeliver"}
      BY <1>2, <2>1 DEF Welcome, Pushed, Setting
    <2>4. Serves(ms)
      BY <1>2, <2>1, <2>2, <2>3, HappensServes
    <2>5. ms \in Seq(Message) /\ Items(ms) = {x}
      BY <2>1, ItemsFew
    <2> HIDE DEF ms
    <2> QED BY <1>2, <2>3, <2>4, <2>5, AsideLives
  <1>3. ASSUME NEW id \in Ids, NEW t \in Tags, BrokerDelivers(id, t) \/ BrokerCancels(id, t)
        PROVE  Lives'
    BY <1>1, <1>3 DEF BrokerDelivers, BrokerCancels
  <1>4. ASSUME NEW id \in Ids, BrokerFlows(id) PROVE Lives'
    <2>1. id \in Ids0 /\ channels[id] # 0
      BY <1>4, HasObject DEF BrokerFlows
    <2> QED BY <1>2, <1>4, <2>1 DEF BrokerFlows
  <1>5. ASSUME NEW id \in Ids, BrokerClosesChannel(id) PROVE FALSE
    BY <1>0, <1>5 DEF BrokerClosesChannel, Happens
  <1>6. ASSUME NEW m \in Events, BrokerBlocks(m) PROVE Lives'
    BY <1>0, <1>2, <1>6 DEF BrokerBlocks
  <1>7. ASSUME BrokerClosesConnection PROVE Lives'
    BY <1>0, <1>2, <1>7 DEF BrokerClosesConnection
  <1>8. ASSUME NEW n \in 0 .. Len(toClient), SocketBreaks(n) PROVE FALSE
    BY <1>0, <1>8 DEF SocketBreaks
  <1> QED BY <1>3, <1>4, <1>5, <1>6, <1>7, <1>8, Zenon DEF BrokerEvent

\* Every step of the broker.
LEMMA BrokerLives ==
  ASSUME Going, BrokerStep
  PROVE  Lives'
  <1>1. UNCHANGED created
    BY DEF BrokerStep
  <1>2. ASSUME NEW id \in Ids, BrokerCloses(id) \/ BrokerDrops(id) PROVE FALSE
    <2>1. toServer[id] # <<>> /\ (Received(id).m = "ChannelClose" \/ bchan[id] = "closing")
      BY <1>2 DEF BrokerCloses, BrokerDrops
    <2>2. id \in Ids0 /\ SettledId(id) /\ toServer[id] \in Seq(Message)
      BY <2>1, HasObject DEF Going, CallInv, TypeOK, AbstractChannelTypeOK
    <2> QED BY <2>1, <2>2, NamesMove DEF SettledId, Received
  <1>3. ASSUME BrokerReceives PROVE Lives'
    BY <1>1, <1>2, <1>3, RepliesLives, AcceptsLives, ConsumesLives, PublishesLives, Zenon
       DEF BrokerReceives
  <1> QED BY <1>1, <1>3, EventLives DEF BrokerStep

-----------------------------------------------------------------------------
(* A callback for the messages comes with one for the cancellation.        *)

(* A consumer is registered, or some are forgotten. *)
TagsMove ==
  \/ UNCHANGED <<callbacks, cancel_callbacks>>
  \/ \E c, t, rid, no_ack : Registered(c, t, rid, no_ack)
  \/ \E c, t : remove_tag(c, t)
  \/ \E S : Cleared(S)

\* Every such step.
LEMMA TagsKeep ==
  ASSUME TypeOK, CancelOK, TagsMove
  PROVE  CancelOK'
  <1> SUFFICES ASSUME "BasicCancel" \in Callbacks, NEW d \in Chan, NEW u \in Tags, callbacks'[d][u] # 0
               PROVE  u \in cancel_callbacks'[d]
    BY DEF CancelOK
  <1>0. /\ callbacks \in [Chan -> [Tags -> Nat]]
        /\ cancel_callbacks \in [Chan -> SUBSET (Tags \cup {0})]
        /\ callbacks[d][u] # 0 => u \in cancel_callbacks[d]
    BY DEF TypeOK, ChannelTypeOK, CancelOK
  <1>1. CASE UNCHANGED <<callbacks, cancel_callbacks>>
    BY <1>0, <1>1
  <1>2. ASSUME NEW c, NEW t, NEW rid, NEW no_ack, Registered(c, t, rid, no_ack)
        PROVE  u \in cancel_callbacks'[d]
    BY <1>0, <1>2 DEF Registered
  <1>3. ASSUME NEW c, NEW t, remove_tag(c, t) PROVE u \in cancel_callbacks'[d]
    BY <1>0, <1>3 DEF remove_tag
  <1>4. ASSUME NEW S, Cleared(S) PROVE u \in cancel_callbacks'[d]
    BY <1>0, <1>4 DEF Cleared
  <1> QED BY <1>1, <1>2, <1>3, <1>4 DEF TagsMove

\* Every step is one.
LEMMA NextTags ==
  ASSUME [Next]_vars
  PROVE  TagsMove
  <1>0. ASSUME UNCHANGED chanVars \/ UNCHANGED consumers PROVE TagsMove
    BY <1>0 DEF chanVars, consumers, TagsMove
  <1>1. ASSUME NEW c, NEW nowait,
               \/ exchange_declare(c, nowait) \/ exchange_delete(c, nowait)
               \/ exchange_bind(c, nowait) \/ exchange_unbind(c, nowait)
               \/ queue_declare(c, nowait) \/ queue_bind(c, nowait)
               \/ queue_unbind(c, nowait) \/ queue_delete(c, nowait)
               \/ queue_purge(c, nowait) \/ confirm_select(c, nowait)
        PROVE  TagsMove
    BY <1>0, <1>1 DEF exchange_declare, exchange_delete, exchange_bind, exchange_unbind,
       queue_declare, queue_bind, queue_unbind, queue_delete, queue_purge, confirm_select,
       Simple, SimplePost
  <1>2. ASSUME NEW c, flow(c) \/ basic_get(c) \/ basic_qos(c) \/ tx_select(c) \/ tx_commit(c)
                      \/ tx_rollback(c) \/ basic_recover(c) \/ basic_recover_async(c)
                      \/ basic_ack(c) \/ basic_reject(c) \/ basic_publish(c)
                      \/ Channel_open(c) \/ Channel_close(c)
        PROVE  TagsMove
    BY <1>0, <1>2 DEF flow, basic_get, basic_qos, tx_select, tx_commit, tx_rollback, basic_recover,
       basic_recover_async, basic_ack, basic_reject, basic_publish, Channel_open, Channel_close,
       Simple, SimplePost
  <1>3. ASSUME NEW c, NEW t, NEW nowait, NEW no_ack, basic_consume(c, t, nowait, no_ack)
        PROVE  TagsMove
    BY <1>0, <1>3 DEF basic_consume, TagsMove
  <1>4. ASSUME NEW c, NEW t, NEW nowait, basic_cancel(c, t, nowait)
        PROVE  TagsMove
    BY <1>4 DEF basic_cancel, TagsMove
  <1>5. ASSUME NEW c, ChannelCall(c) PROVE TagsMove
    BY <1>1, <1>2, <1>3, <1>4, <1>5 DEF ChannelCall
  <1>6. Connection_collect => TagsMove
    BY DEF Connection_collect, TagsMove
  <1>7. ASSUME NEW id, channel(id) PROVE TagsMove
    BY <1>0, <1>7 DEF channel, NewChannel, NoChannel
  <1>8. ASSUME AppCall PROVE TagsMove
    BY <1>0, <1>5, <1>6, <1>7, <1>8 DEF AppCall, drain_events, Connection_close
  <1>9. ASSUME Channel_on_open_ok \/ Channel_on_close \/ on_flow \/ on_basic_deliver \/ on_basic_ack
               \/ on_basic_nack \/ on_basic_return \/ CloseReturns \/ ReviveReturns
               \/ SelectReturns \/ PublishWrites
        PROVE  TagsMove
    BY <1>0, <1>9 DEF Channel_on_open_ok, Channel_on_close, on_flow, on_basic_deliver, on_basic_ack,
       on_basic_nack, on_basic_return, CloseReturns, ReviveReturns, SelectReturns, PublishWrites
  <1>10. ASSUME Channel_on_close_ok \/ on_basic_cancel_ok \/ on_basic_cancel \/ ConsumeReturns
         PROVE  TagsMove
    BY <1>10 DEF Channel_on_close_ok, on_basic_cancel_ok, on_basic_cancel, ConsumeReturns,
       Channel_collect, TagsMove
  <1>11. ASSUME ConnectionStep PROVE TagsMove
    BY <1>0, <1>6, <1>11 DEF ConnectionStep, Connection_on_close_ok, Connection_on_close, on_blocked,
       ConnectionCloseReturns, CloseFails
  <1>12. ASSUME LibraryStep \/ CallbackEnds \/ TimesOut PROVE TagsMove
    BY <1>0, <1>9, <1>10, <1>11, <1>12 DEF LibraryStep, BaseStep, ChannelStep, CallbackEnds, TimesOut
  <1>13. ASSUME BrokerStep PROVE TagsMove
    <2>1. UNCHANGED chanVars
      BY <1>13, BrokerKeepsClient DEF clientVars
    <2> QED BY <1>0, <2>1
  <1>14. ASSUME UNCHANGED vars PROVE TagsMove
    <2>1. UNCHANGED chanVars
      BY <1>14 DEF vars, clientVars
    <2> QED BY <1>0, <2>1
  <1> QED BY <1>8, <1>12, <1>13, <1>14 DEF Next, Idle

-----------------------------------------------------------------------------
(* The theorem.                                                            *)

\* The invariant holds initially.
LEMMA ConsumerInit == Init => ConsumerInv
  <1> SUFFICES ASSUME Init PROVE ConsumerInv
    OBVIOUS
  <1>1. /\ channels = [id \in Ids |-> 0] /\ is_closing = [c \in Obj |-> FALSE] /\ stack = <<>>
        /\ toServer = [id \in Ids0 |-> <<>>] /\ toClient = <<>> /\ sock /\ created = 0
        /\ callbacks = [c \in Chan |-> [t \in Tags |-> 0]]
        /\ bchan = [id \in Ids |-> "closed"]
        /\ bcons = [id \in Ids |-> [t \in Tags |-> NoConsumer]]
    BY DEF Init, BrokerInit
  <1>2. Ids \subseteq Ids0 /\ Chan \subseteq Obj /\ \A c \in Chan : ~(c <= 0)
    BY SpecAssumption, ObjFacts DEF Ids, Ids0, Chan
  <1>3. Items(<<>>) = {} /\ Names(<<>>) = {}
    BY ItemsNone DEF Names
  <1>4. CancelOK
    BY <1>1 DEF CancelOK
  <1>5. Settled
    BY <1>1, <1>2, <1>3 DEF Settled, SettledId
  <1>6. CallOK
    BY <1>1 DEF CallOK, Flat, Consuming
  <1>7. OneConsume
    BY <1>1, <1>2, <1>3 DEF OneConsume, Single
  <1>8. ToldOK
    BY <1>1 DEF ToldOK
  <1> QED BY <1>4, <1>5, <1>6, <1>7, <1>8 DEF ConsumerInv

\* Every step preserves it.
LEMMA ConsumerNext ==
  ASSUME Undisturbed, CallInv, CallInv', AgreementInv, ConsumerInv, [Next]_vars
  PROVE  ConsumerInv'
  <1>1. CancelOK'
    BY NextTags, TagsKeep DEF CallInv, ConsumerInv
  <1>2. SUFFICES ASSUME connection'[0] PROVE Lives'
    BY <1>1 DEF ConsumerInv, Lives
  <1>3. connection[0]
    <2>1. Linked /\ connection \in [Obj -> BOOLEAN] /\ connection' \in [Obj -> BOOLEAN] /\ 0 \in Obj
      BY NextLinked, ObjFacts DEF CallInv, TypeOK, AbstractChannelTypeOK
    <2> QED BY <1>2, <2>1 DEF Linked
  <1>4. Going
    BY <1>2, <1>3 DEF Going, AgreementInv, ConsumerInv
  <1>5. CASE UNCHANGED vars
    <2>1. UNCHANGED <<channels, connection, is_closing, pending, stack, exc, sock, toServer, toClient,
                      callbacks, created, bchan, bcons>>
      BY <1>5 DEF vars, clientVars, chanVars, consumers, brokerVars
    <2>2. Settled' /\ CallOK'
      BY <1>4, <2>1 DEF Going, Settled, SettledId, Welcome, CallOK, Flat, Consuming
    <2>3. OneConsume'
      BY <1>4, <2>1 DEF Going, OneConsume, Wanted, Waiting, Consuming
    <2>4. ToldOK'
      BY <1>4, <2>1 DEF Going, ToldOK, Callback, Consumed, Consuming
    <2> QED BY <2>2, <2>3, <2>4 DEF Lives
  <1> QED BY <1>4, <1>5, ClientLives, BrokerLives DEF Next, Idle

\* The invariant of consumers.
LEMMA ConsumerCorrect == Undisturbed => (Spec => []ConsumerInv)
  <1> SUFFICES ASSUME Undisturbed PROVE Spec => []ConsumerInv
    OBVIOUS
  <1>1. CallInv /\ CallInv' /\ AgreementInv /\ ConsumerInv /\ [Next]_vars => ConsumerInv'
    BY ConsumerNext
  <1>2. Spec => []AgreementInv
    BY AgreementCorrect DEF Undisturbed, Unrevived
  <1> QED BY <1>1, <1>2, ConsumerInit, CallInvCorrect, PTL DEF Spec

(***************************************************************************)
(* A message that is delivered reaches the callback given to the           *)
(* basic_consume call that it is delivered for, however consumers of       *)
(* several channels are started, cancelled by either side and started      *)
(* again under the same tag, and whatever other calls time out, as long as *)
(* basic_consume is Undisturbed: no nowait, no call that waits inside a    *)
(* callback, no close of a channel, no broken socket, no timeout of        *)
(* basic_consume, no method of the broker without a callback for it.  The  *)
(* callback is registered only after Consume-Ok has been read and          *)
(* basic_consume returns; no message of the new consumer is read before    *)
(* that, and none of the old one after it.                                 *)
(***************************************************************************)
THEOREM DeliveryAlwaysReaches == Undisturbed => (Spec => []DeliveryReachesConsumer)
  <1> SUFFICES ASSUME Undisturbed PROVE Spec => []DeliveryReachesConsumer
    OBVIOUS
  <1>1. CallInv /\ AgreementInv /\ ConsumerInv => DeliveryReachesConsumer
    <2> SUFFICES ASSUME CallInv, AgreementInv, ConsumerInv, Reading, toClient # <<>>,
                        In.m = "BasicDeliver", Target # 0
                 PROVE  callbacks[Target][In.tag] = In.rid
      BY DEF DeliveryReachesConsumer
    <2>1. /\ toClient \in Seq(Message) /\ stack \in Seq(Frame) /\ stack # <<>>
          /\ Top.op # "callback" /\ ~Top.ready
      BY DEF CallInv, TypeOK, AbstractChannelTypeOK, Reading
    <2>2. In \in Items(toClient) /\ In \in Message
      BY <2>1, ItemsTaken, ItemsType DEF In
    <2>3. In.ch \in Ids /\ Target = channels[In.ch] /\ channels[In.ch] # 0
      BY <2>2, SpecAssumption DEF Message, Ids, Ids0, Target
    <2>4. connection[0]
      BY <2>3 DEF CallInv, IdsConsistent
    <2>5. Settled /\ CallOK /\ ToldOK
      BY <2>4 DEF ConsumerInv
    <2>6. In.tag \in Tags
      BY <2>2, <2>5 DEF Settled, Welcome, Pushed
    <2>7. ~Consumed
      BY <2>1, <2>5, FlatTop DEF CallOK, Consumed
    <2>8. Callback(In.ch, In.tag) = callbacks[Target][In.tag]
      BY <2>3, <2>7 DEF Callback
    <2>9. Told(toClient, In.ch, In.tag, Callback(In.ch, In.tag), bcons[In.ch][In.tag])
      BY <2>3, <2>5, <2>6 DEF ToldOK
    <2>10. Owed(Head(toClient), In.ch, In.tag)
      BY DEF Owed, In
    <2>11. Callback(In.ch, In.tag) = Head(toClient).rid
      BY <2>1, <2>9, <2>10, ToldTaken
    <2> QED BY <2>8, <2>11 DEF In
  <1>2. Spec => []AgreementInv
    BY AgreementCorrect DEF Undisturbed, Unrevived
  <1>3. Spec => []ConsumerInv
    BY ConsumerCorrect
  <1> QED BY <1>1, <1>2, <1>3, CallInvCorrect, PTL
=============================================================================
