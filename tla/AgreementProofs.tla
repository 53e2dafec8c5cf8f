-------------------------- MODULE AgreementProofs ---------------------------
(***************************************************************************)
(* Proofs that client and broker agree on the channels, for every instance *)
(* of module Connection in which the application neither uses a channel    *)
(* that it is closing nor calls open() on a channel object again           *)
(* (Orderly): when all is quiet they agree on which channels are open      *)
(* (OpenAgrees); and, as long as the application does not close the        *)
(* connection, an id that has been released is quiet (FreedIdIsQuiet) and  *)
(* no rule of the protocol is broken (NoProtocolError); and, as long as    *)
(* the broker closes no channel, they agree on publisher confirms          *)
(* (ConfirmAgrees).                                                        *)
(*                                                                         *)
(* What one channel id is about is a conversation.  Its state is the set N *)
(* of the methods on their way to the broker, the set V of those on their  *)
(* way to the client, what the broker takes the channel for (b) and what   *)
(* the client takes it for (u).  Talk says which of these states are       *)
(* possible, SentOK and ComingOK in which order the methods are under way. *)
(* All of it holds as long as nothing has been sent on channel 0.          *)
(***************************************************************************)
EXTENDS ReplyProofs

(* The application is done with a channel when it closes it, and leaves    *)
(* the opening of channels to channel() and to the library.                *)
Orderly == ~UsesClosing /\ "ChannelOpen" \notin Requests

(* ... and it does not close the connection. *)
Steady == Orderly /\ "ConnectionClose" \notin Requests

Talking == sock /\ bconn = "open" /\ toServer[0] = <<>>

Names(s) == {x.m : x \in Items(s)}
View(id, q) == {x.m : x \in {y \in Items(q) : y.ch = id}}

(* The methods that open and close channels: all others are plain. *)
Asking == {"ChannelOpen", "ChannelClose", "ChannelCloseOk"}
Telling == {"ChannelOpenOk", "ChannelClose", "ChannelCloseOk"}

(* The order of the methods of a channel on their way to the broker. *)
SentOK(s, b) ==
  /\ b = "closed" /\ s # <<>> => s[1].m = "ChannelOpen"
  /\ \A i \in 1 .. Len(s) :
       /\ s[i].m = "ChannelOpen" =>
            IF i = 1 THEN b = "closed" ELSE s[i - 1].m = "ChannelCloseOk"
       /\ s[i].m = "ChannelCloseOk" =>
            b = "closing" /\ (i < Len(s) => s[i + 1].m = "ChannelOpen")
       /\ s[i].m = "ChannelClose" =>
            b # "closed" /\ (i < Len(s) => i + 1 = Len(s) /\ s[i + 1].m = "ChannelCloseOk")
       /\ s[i].m \in {"ChannelOpen", "ChannelCloseOk"} =>
            \A j \in i + 1 .. Len(s) : s[j].m \notin {"ChannelClose", "ChannelCloseOk"}

(* The order of the methods on their way to the client. *)
Follows(x, y) ==
  x.ch = y.ch /\ x.ch # 0 =>
    /\ y.m # "ChannelOpenOk"
    /\ x.m # "ChannelCloseOk"
    /\ x.m = "ChannelClose" => y.m = "ChannelCloseOk"

ComingOK(q) == \A i, j \in 1 .. Len(q) : i < j => Follows(q[i], q[j])

(* What the client takes the channel of an id for: "none" when no object   *)
(* is registered, "gone" when the object has been cut off by close().      *)
Status(c) ==
  IF c = 0 THEN "none"
  ELSE IF ~connection[c] THEN "gone"
  ELSE IF is_closing[c] THEN "closing"
  ELSE IF is_open[c] THEN "open" ELSE "opening"

Talk(N, V, b, u) ==
  /\ "ChannelOpen" \in N => V = {}
  /\ "ChannelOpenOk" \in V => b # "closed" /\ N \cap Asking = {}
  /\ "ChannelClose" \in V =>
       b = "closing" /\ "ChannelOpen" \notin N /\ "ChannelCloseOk" \notin N
  /\ "ChannelCloseOk" \in V =>
       \/ b = "closed" /\ N = {}
       \/ b = "closing" /\ N = {} /\ ("ChannelClose" \in V \/ u = "gone")
       \/ b = "closing" /\ N = {"ChannelCloseOk"}
  /\ u = "none" => /\ V = {}
                   /\ (b = "closed" /\ N = {}) \/ (b = "closing" /\ N = {"ChannelCloseOk"})
  /\ u \in {"opening", "open", "closing"} /\ b = "closing" =>
       "ChannelClose" \in V \/ "ChannelCloseOk" \in N
  /\ u \in {"opening", "open"} =>
       /\ "ChannelClose" \notin N /\ "ChannelCloseOk" \notin V
       /\ N = {} => b # "closed"
       /\ "ChannelCloseOk" \in N => "ChannelOpen" \in N
  /\ u \in {"open", "closing"} => "ChannelOpen" \notin N /\ "ChannelOpenOk" \notin V
  /\ u = "opening" => "ChannelOpen" \in N \/ "ChannelOpenOk" \in V
  /\ u = "closing" => "ChannelClose" \in N \/ "ChannelCloseOk" \in V

InStep(id) ==
  /\ SentOK(toServer[id], bchan[id])
  /\ Talk(Names(toServer[id]), View(id, toClient), bchan[id], Status(channels[id]))

AgreeOK ==
  Talking => ~is_closing[0] /\ ComingOK(toClient) /\ \A id \in Ids : InStep(id)

-----------------------------------------------------------------------------
(* The conversation.                                                       *)

Broker3 == {"closed", "open", "closing"}

\* The client sends a plain method on a channel that it may use.
LEMMA TalkSend ==
  ASSUME NEW N, NEW V, NEW b, NEW u \in {"opening", "open"}, Talk(N, V, b, u),
         NEW m, m \notin Asking
  PROVE  Talk(N \cup {m}, V, b, u)
  BY DEF Talk, Asking

\* The client takes a plain method, or one that nobody is interested in.
LEMMA TalkTake ==
  ASSUME NEW N, NEW V, NEW W, NEW b \in Broker3, NEW u, Talk(N, V, b, u),
         NEW h \in V, W \subseteq V, V \subseteq W \cup {h},
         h \notin Telling \/ u = "gone" \/ (u = "closing" /\ h = "ChannelOpenOk") \/ u = "none",
         h = "ChannelClose" => W \subseteq {"ChannelCloseOk"},
         h = "ChannelCloseOk" => W = {}
  PROVE  Talk(N, W, b, u)
  BY DEF Talk, Asking, Telling, Broker3

\* Open-Ok is read.
LEMMA TalkOpened ==
  ASSUME NEW N, NEW V, NEW W, NEW b \in Broker3, NEW u \in {"opening", "open"}, Talk(N, V, b, u),
         "ChannelOpenOk" \in V, W \subseteq V, V \subseteq W \cup {"ChannelOpenOk"},
         "ChannelOpenOk" \notin W
  PROVE  Talk(N, W, b, "open")
  BY DEF Talk, Asking, Telling, Broker3

\* Close-Ok is read, by a close() in progress.
LEMMA TalkClosed ==
  ASSUME NEW N, NEW V, NEW b \in Broker3, NEW u, u # "gone", Talk(N, V, b, u),
         "ChannelCloseOk" \in V, V \subseteq {"ChannelCloseOk"}
  PROVE  Talk(N, {}, b, "none")
  BY DEF Talk, Asking, Telling, Broker3

\* Close of the broker crosses that of the client, which agrees.
LEMMA TalkAgree ==
  ASSUME NEW N, NEW V, NEW W, NEW b \in Broker3, Talk(N, V, b, "closing"),
         "ChannelClose" \in V, W \subseteq V, V \subseteq W \cup {"ChannelClose"},
         W \subseteq {"ChannelCloseOk"}
  PROVE  Talk(N \cup {"ChannelCloseOk"}, W, b, "closing")
  BY DEF Talk, Asking, Telling, Broker3

\* A channel is opened on an id that is free.
LEMMA TalkNew ==
  ASSUME NEW N, NEW V, NEW b \in Broker3, Talk(N, V, b, "none")
  PROVE  Talk(N \cup {"ChannelOpen"}, V, b, "opening")
  BY DEF Talk, Asking, Telling, Broker3

\* A channel is closed.
LEMMA TalkClose ==
  ASSUME NEW N, NEW V, NEW b \in Broker3, Talk(N, V, b, "open")
  PROVE  Talk(N \cup {"ChannelClose"}, V, b, "closing")
  BY DEF Talk, Asking, Telling, Broker3

\* close() is over and leaves the channel without a connection.
LEMMA TalkGone ==
  ASSUME NEW N, NEW V, NEW b \in Broker3, NEW u, u # "none", Talk(N, V, b, u)
  PROVE  Talk(N, V, b, "gone")
  BY DEF Talk, Asking, Telling, Broker3

\* The broker takes a plain method of an open channel, and answers it or not.
LEMMA TalkHandled ==
  ASSUME NEW N, NEW M, NEW V, NEW P, NEW u, Talk(N, V, "open", u),
         NEW h \in N, h \notin Asking, M \subseteq N, N \subseteq M \cup {h},
         N \cap {"ChannelOpen", "ChannelCloseOk"} = {}, P \cap Telling = {}
  PROVE  /\ Talk(M, V \cup P, "open", u)
         /\ "ChannelClose" \notin V /\ "ChannelCloseOk" \notin V
  BY DEF Talk, Asking, Telling

\* The broker sends a plain method on an open channel.
LEMMA TalkPushed ==
  ASSUME NEW N, NEW V, NEW p, NEW u, Talk(N, V, "open", u),
         N \cap {"ChannelOpen", "ChannelCloseOk"} = {}, p \notin Telling
  PROVE  /\ Talk(N, V \cup {p}, "open", u)
         /\ "ChannelClose" \notin V /\ "ChannelCloseOk" \notin V
  BY DEF Talk, Asking, Telling

\* The broker closes an open channel.
LEMMA TalkBrokerCloses ==
  ASSUME NEW N, NEW V, NEW u, Talk(N, V, "open", u),
         N \cap {"ChannelOpen", "ChannelCloseOk"} = {}
  PROVE  /\ Talk(N, V \cup {"ChannelClose"}, "closing", u)
         /\ "ChannelClose" \notin V /\ "ChannelCloseOk" \notin V
  BY DEF Talk, Asking, Telling

\* The broker drops a plain method, on a channel that it has closed.
LEMMA TalkDropped ==
  ASSUME NEW N, NEW M, NEW V, NEW u, Talk(N, V, "closing", u),
         NEW h \in N, h \notin Asking, M \subseteq N, N \subseteq M \cup {h}
  PROVE  Talk(M, V, "closing", u)
  BY DEF Talk, Asking, Telling

\* The broker gets the Close-Ok it waits for.
LEMMA TalkAgreed ==
  ASSUME NEW N, NEW M, NEW V, NEW u \in {"none", "gone", "closing", "open", "opening"},
         Talk(N, V, "closing", u), "ChannelCloseOk" \in N, M \subseteq N,
         N \subseteq M \cup {"ChannelCloseOk"}, "ChannelCloseOk" \notin M,
         "ChannelClose" \notin M
  PROVE  Talk(M, V, "closed", u)
  BY DEF Talk, Asking, Telling

\* The broker opens a channel.
LEMMA TalkOpens ==
  ASSUME NEW N, NEW M, NEW V, NEW u \in {"none", "gone", "closing", "open", "opening"},
         Talk(N, V, "closed", u), "ChannelOpen" \in N, M \subseteq N,
         N \subseteq M \cup {"ChannelOpen"}, M \cap Asking = {}
  PROVE  V = {} /\ Talk(M, V \cup {"ChannelOpenOk"}, "open", u)
  BY DEF Talk, Asking, Telling

\* The broker gets the Close of the client, on a channel that it has open.
LEMMA TalkCloses ==
  ASSUME NEW N, NEW M, NEW V, NEW u \in {"none", "gone", "closing", "open", "opening"},
         Talk(N, V, "open", u), "ChannelClose" \in N, M \subseteq N,
         N \subseteq M \cup {"ChannelClose"}, M = {}
  PROVE  "ChannelCloseOk" \notin V /\ Talk(M, V \cup {"ChannelCloseOk"}, "closed", u)
  BY DEF Talk, Asking, Telling

-----------------------------------------------------------------------------
(* The queues.                                                             *)

\* The methods in a queue that is appended to.
LEMMA ItemsBoth ==
  ASSUME NEW q \in Seq(Message), NEW ms \in Seq(Message)
  PROVE  Items(q \o ms) = Items(q) \cup Items(ms)
  <1>1. /\ Len(q \o ms) = Len(q) + Len(ms) /\ Len(q) \in Nat /\ Len(ms) \in Nat
        /\ \A i \in 1 .. Len(q) + Len(ms) :
             (q \o ms)[i] = IF i <= Len(q) THEN q[i] ELSE ms[i - Len(q)]
    BY ConcatProperties, LenProperties
  <1>2. ASSUME NEW x \in Items(q) PROVE x \in Items(q \o ms)
    <2>1. PICK i \in 1 .. Len(q) : x = q[i]
      BY DEF Items
    <2>2. i \in 1 .. Len(q \o ms) /\ x = (q \o ms)[i]
      BY <1>1, <2>1
    <2> QED BY <2>2 DEF Items
  <1>3. ASSUME NEW x \in Items(ms) PROVE x \in Items(q \o ms)
    <2>1. PICK i \in 1 .. Len(ms) : x = ms[i]
      BY DEF Items
    <2>2. Len(q) + i \in 1 .. Len(q \o ms) /\ x = (q \o ms)[Len(q) + i]
      BY <1>1, <2>1
    <2> QED BY <2>2 DEF Items
  <1> QED BY <1>2, <1>3, ItemsConcat

\* The methods in a queue that is taken from.
LEMMA ItemsTaken ==
  ASSUME NEW q \in Seq(Message), q # <<>>
  PROVE  Items(q) = Items(Tail(q)) \cup {Head(q)}
  <1>1. /\ Len(Tail(q)) = Len(q) - 1 /\ Len(q) \in Nat \ {0}
        /\ \A i \in 1 .. Len(Tail(q)) : Tail(q)[i] = q[i + 1]
    BY HeadTailProperties, EmptySeq
  <1>2. ASSUME NEW x \in Items(q) PROVE x = Head(q) \/ x \in Items(Tail(q))
    <2>1. PICK i \in 1 .. Len(q) : x = q[i]
      BY DEF Items
    <2>2. CASE i = 1
      BY <2>1, <2>2
    <2>3. CASE i # 1
      <3>1. i - 1 \in 1 .. Len(Tail(q)) /\ x = Tail(q)[i - 1]
        BY <1>1, <2>1, <2>3
      <3> QED BY <3>1 DEF Items
    <2> QED BY <2>2, <2>3
  <1> QED BY <1>2, ItemsTail

\* The method of a queue of one, and those of a queue of two.
LEMMA ItemsFew ==
  ASSUME NEW x \in Message, NEW y \in Message
  PROVE  /\ Items(<<x>>) = {x} /\ <<x>> \in Seq(Message)
         /\ Items(<<x, y>>) = {x, y} /\ <<x, y>> \in Seq(Message)
  <1>1. x \in Items(<<x>>)
    <2>1. 1 \in 1 .. Len(<<x>>) /\ <<x>>[1] = x
      OBVIOUS
    <2> QED BY <2>1 DEF Items
  <1>2. x \in Items(<<x, y>>) /\ y \in Items(<<x, y>>)
    <2>1. 1 \in 1 .. Len(<<x, y>>) /\ <<x, y>>[1] = x /\ 2 \in 1 .. Len(<<x, y>>) /\ <<x, y>>[2] = y
      OBVIOUS
    <2> QED BY <2>1 DEF Items
  <1> QED BY <1>1, <1>2, ItemsOne, ItemsTwo

\* Whatever is in a queue, no method is in an empty one.
LEMMA NamesEmpty ==
  ASSUME NEW s \in Seq(Message)
  PROVE  Names(s) = {} <=> s = <<>>
  <1>1. s = <<>> => Names(s) = {}
    BY ItemsNone DEF Names
  <1>2. s # <<>> => Head(s) \in Items(s)
    BY ItemsTail
  <1> QED BY <1>1, <1>2 DEF Names

\* The names in a queue that is appended to, or taken from.
LEMMA NamesMove ==
  ASSUME NEW s \in Seq(Message)
  PROVE  /\ \A x \in Message : Names(s \o <<x>>) = Names(s) \cup {x.m}
         /\ \A x, y \in Message : Names(s \o <<x, y>>) = Names(s) \cup {x.m, y.m}
         /\ s # <<>> => /\ Head(s).m \in Names(s) /\ Names(Tail(s)) \subseteq Names(s)
                        /\ Names(s) \subseteq Names(Tail(s)) \cup {Head(s).m}
  <1>1. ASSUME NEW x \in Message PROVE Names(s \o <<x>>) = Names(s) \cup {x.m}
    <2>1. Items(s \o <<x>>) = Items(s) \cup {x}
      BY ItemsFew, ItemsBoth
    <2> QED BY <2>1 DEF Names
  <1>2. ASSUME NEW x \in Message, NEW y \in Message
        PROVE  Names(s \o <<x, y>>) = Names(s) \cup {x.m, y.m}
    <2>0. <<x, y>> \in Seq(Message) /\ Items(<<x, y>>) = {x, y}
      BY ItemsFew
    <2>1. Items(s \o <<x, y>>) = Items(s) \cup {x, y}
      BY <2>0, ItemsBoth, Zenon
    <2> QED BY <2>1 DEF Names
  <1>3. ASSUME s # <<>>
        PROVE  /\ Head(s).m \in Names(s) /\ Names(Tail(s)) \subseteq Names(s)
               /\ Names(s) \subseteq Names(Tail(s)) \cup {Head(s).m}
    <2>1. Items(s) = Items(Tail(s)) \cup {Head(s)}
      BY <1>3, ItemsTaken
    <2> QED BY <2>1 DEF Names
  <1> QED BY <1>1, <1>2, <1>3

\* What comes for an id, in a queue that is appended to or taken from.
LEMMA ViewMove ==
  ASSUME NEW q \in Seq(Message), NEW id
  PROVE  /\ \A ms \in Seq(Message) : View(id, q \o ms) = View(id, q) \cup View(id, ms)
         /\ q # <<>> =>
              /\ View(id, Tail(q)) \subseteq View(id, q)
              /\ Head(q).ch = id => /\ Head(q).m \in View(id, q)
                                    /\ View(id, q) \subseteq View(id, Tail(q)) \cup {Head(q).m}
              /\ Head(q).ch # id => View(id, Tail(q)) = View(id, q)
  <1>1. ASSUME NEW ms \in Seq(Message)
        PROVE  View(id, q \o ms) = View(id, q) \cup View(id, ms)
    <2>1. Items(q \o ms) = Items(q) \cup Items(ms)
      BY ItemsBoth
    <2> QED BY <2>1 DEF View
  <1>2. ASSUME q # <<>>
        PROVE  /\ View(id, Tail(q)) \subseteq View(id, q)
               /\ Head(q).ch = id => /\ Head(q).m \in View(id, q)
                                     /\ View(id, q) \subseteq View(id, Tail(q)) \cup {Head(q).m}
               /\ Head(q).ch # id => View(id, Tail(q)) = View(id, q)
    <2>1. Items(q) = Items(Tail(q)) \cup {Head(q)}
      BY <1>2, ItemsTaken
    <2> QED BY <2>1 DEF View
  <1> QED BY <1>1, <1>2

\* One method more in a queue.
LEMMA OneMore ==
  ASSUME NEW s \in Seq(Message), NEW x \in Message
  PROVE  /\ s \o <<x>> \in Seq(Message) /\ Len(s) \in Nat /\ Len(s \o <<x>>) = Len(s) + 1
         /\ \A i \in 1 .. Len(s) : (s \o <<x>>)[i] = s[i]
         /\ (s \o <<x>>)[Len(s) + 1] = x
  <1>1. s \o <<x>> = Append(s, x)
    BY AppendIsConcat
  <1> QED BY <1>1, AppendProperties, LenProperties

\* The queue to the broker, when a method is sent that is in order.
LEMMA SentMore ==
  ASSUME NEW s \in Seq(Message), NEW t \in Seq(Message), NEW x \in Message, NEW b, SentOK(s, b),
         Len(t) = Len(s) + 1, \A i \in 1 .. Len(s) : t[i] = s[i], t[Len(s) + 1] = x,
         s = <<>> /\ b = "closed" => x.m = "ChannelOpen",
         x.m = "ChannelOpen" => IF s = <<>> THEN b = "closed" ELSE s[Len(s)].m = "ChannelCloseOk",
         x.m = "ChannelCloseOk" => b = "closing",
         x.m = "ChannelClose" => b # "closed",
         s # <<>> /\ s[Len(s)].m = "ChannelCloseOk" => x.m = "ChannelOpen",
         "ChannelClose" \in Names(s) => s[Len(s)].m = "ChannelClose" /\ x.m = "ChannelCloseOk",
         x.m \in {"ChannelClose", "ChannelCloseOk"} =>
           "ChannelOpen" \notin Names(s) /\ "ChannelCloseOk" \notin Names(s)
  PROVE  SentOK(t, b)
  <1>0. Len(s) \in Nat /\ (s = <<>> <=> Len(s) = 0) /\ 1 .. Len(t) = 1 .. Len(s) + 1
    BY LenProperties, EmptySeq
  <1>1. \A i \in 1 .. Len(s) : s[i].m \in Names(s)
    BY DEF Names, Items
  <1>2. b = "closed" /\ t # <<>> => t[1].m = "ChannelOpen"
    BY <1>0 DEF SentOK
  <1>3. ASSUME NEW i \in 1 .. Len(s) + 1, t[i].m = "ChannelOpen"
        PROVE  IF i = 1 THEN b = "closed" ELSE t[i - 1].m = "ChannelCloseOk"
    <2>1. CASE i = Len(s) + 1
      BY <1>0, <1>3, <2>1
    <2>2. CASE i \in 1 .. Len(s)
      BY <1>0, <1>3, <2>2 DEF SentOK
    <2> QED BY <1>0, <2>1, <2>2
  <1>4. ASSUME NEW i \in 1 .. Len(s) + 1, t[i].m = "ChannelCloseOk"
        PROVE  b = "closing" /\ (i < Len(t) => t[i + 1].m = "ChannelOpen")
    <2>1. CASE i = Len(s) + 1
      BY <1>0, <1>4, <2>1
    <2>2. CASE i = Len(s)
      BY <1>0, <1>4, <2>2 DEF SentOK
    <2>3. CASE i \in 1 .. Len(s) /\ i # Len(s)
      BY <1>0, <1>4, <2>3 DEF SentOK
    <2> QED BY <1>0, <2>1, <2>2, <2>3
  <1>5. ASSUME NEW i \in 1 .. Len(s) + 1, t[i].m = "ChannelClose"
        PROVE  b # "closed" /\ (i < Len(t) => i + 1 = Len(t) /\ t[i + 1].m = "ChannelCloseOk")
    <2>1. CASE i = Len(s) + 1
      BY <1>0, <1>5, <2>1
    <2>2. CASE i = Len(s)
      <3>1. s[i].m = "ChannelClose" /\ "ChannelClose" \in Names(s)
        BY <1>0, <1>1, <1>5, <2>2
      <3> QED BY <1>0, <1>5, <2>2, <3>1 DEF SentOK
    <2>3. CASE i \in 1 .. Len(s) /\ i # Len(s)
      <3>1. s[i].m = "ChannelClose" /\ "ChannelClose" \in Names(s)
        BY <1>0, <1>1, <1>5, <2>3
      <3>2. s[i + 1].m = "ChannelCloseOk" /\ i + 1 = Len(s)
        BY <1>0, <2>3, <3>1 DEF SentOK
      <3> QED BY <1>0, <3>1, <3>2
    <2> QED BY <1>0, <2>1, <2>2, <2>3
  <1>6. ASSUME NEW i \in 1 .. Len(s) + 1, t[i].m \in {"ChannelOpen", "ChannelCloseOk"},
               NEW j \in i + 1 .. Len(s) + 1
        PROVE  t[j].m \notin {"ChannelClose", "ChannelCloseOk"}
    <2>1. i \in 1 .. Len(s) /\ t[i] = s[i]
      BY <1>0
    <2>2. CASE j = Len(s) + 1
      BY <1>1, <1>6, <2>1, <2>2
    <2>3. CASE j \in i + 1 .. Len(s)
      <3>1. t[j] = s[j]
        BY <1>0, <2>1, <2>3
      <3> QED BY <1>6, <2>1, <2>3, <3>1 DEF SentOK
    <2> QED BY <1>0, <2>1, <2>2, <2>3
  <1> QED BY <1>0, <1>2, <1>3, <1>4, <1>5, <1>6 DEF SentOK

\* The queue to the broker, when a method has been handled.
LEMMA SentLess ==
  ASSUME NEW s \in Seq(Message), s # <<>>, NEW b \in Broker3, SentOK(s, b)
  PROVE  LET t == Tail(s) m == Head(s).m IN
         /\ b = "closed" => m = "ChannelOpen"
         /\ m \notin Asking => b # "closed" /\ SentOK(t, b)
         /\ m = "ChannelOpen" => /\ b = "closed" /\ SentOK(t, "open")
                                 /\ Names(t) \cap Asking = {}
         /\ m = "ChannelClose" => /\ b # "closed" /\ Names(t) \subseteq {"ChannelCloseOk"}
                                  /\ "ChannelCloseOk" \in Names(t) => b = "closing"
                                  /\ SentOK(t, IF b = "open" THEN "closed" ELSE b)
         /\ m = "ChannelCloseOk" => /\ b = "closing" /\ SentOK(t, "closed")
                                    /\ "ChannelCloseOk" \notin Names(t)
                                    /\ "ChannelClose" \notin Names(t)
  <1> DEFINE t == Tail(s)
             m == Head(s).m
  <1>a. /\ t \in Seq(Message) /\ Len(t) = Len(s) - 1 /\ Len(s) \in Nat \ {0}
        /\ \A i \in 1 .. Len(t) : t[i] = s[i + 1]
    BY HeadTailProperties, EmptySeq
  <1>b. m = s[1].m
    OBVIOUS
  <1> HIDE DEF t, m
  <1>c. Len(t) \in Nat /\ (t = <<>> <=> Len(t) = 0)
    BY <1>a, EmptySeq, LenProperties
  <1>0. /\ t \in Seq(Message) /\ Len(t) = Len(s) - 1 /\ Len(s) \in Nat \ {0} /\ m = s[1].m
        /\ \A i \in 1 .. Len(t) : t[i] = s[i + 1] /\ i + 1 \in 1 .. Len(s)
        /\ Len(t) \in Nat /\ (t = <<>> <=> Len(t) = 0)
    BY <1>a, <1>b, <1>c
  <1>d. /\ 1 \in 1 .. Len(s)
        /\ 1 < Len(s) => s[1 + 1] = t[1] /\ Len(t) # 0
        /\ Len(t) # 0 => 1 < Len(s)
    BY <1>0
  <1>e. /\ m = "ChannelOpen" => b = "closed"
        /\ m = "ChannelCloseOk" => b = "closing" /\ (Len(t) # 0 => t[1].m = "ChannelOpen")
        /\ m = "ChannelClose" =>
             b # "closed" /\ (Len(t) # 0 => Len(t) = 1 /\ t[1].m = "ChannelCloseOk")
    BY <1>0, <1>d DEF SentOK
  <1>1. \A n : n \in Names(t) <=> \E i \in 1 .. Len(t) : t[i].m = n
    BY DEF Names, Items
  <1>2. b = "closed" => m = "ChannelOpen"
    BY <1>0 DEF SentOK
  <1>3. \A i \in 1 .. Len(t) :
          /\ t[i].m = "ChannelOpen" =>
               IF i = 1 THEN m = "ChannelCloseOk" ELSE t[i - 1].m = "ChannelCloseOk"
          /\ t[i].m = "ChannelCloseOk" =>
               b = "closing" /\ (i < Len(t) => t[i + 1].m = "ChannelOpen")
          /\ t[i].m = "ChannelClose" =>
               b # "closed" /\ (i < Len(t) => i + 1 = Len(t) /\ t[i + 1].m = "ChannelCloseOk")
          /\ t[i].m \in {"ChannelOpen", "ChannelCloseOk"} =>
               \A j \in i + 1 .. Len(t) : t[j].m \notin {"ChannelClose", "ChannelCloseOk"}
    <2> SUFFICES ASSUME NEW i \in 1 .. Len(t)
                 PROVE  /\ t[i].m = "ChannelOpen" =>
                             IF i = 1 THEN m = "ChannelCloseOk" ELSE t[i - 1].m = "ChannelCloseOk"
                        /\ t[i].m = "ChannelCloseOk" =>
                             b = "closing" /\ (i < Len(t) => t[i + 1].m = "ChannelOpen")
                        /\ t[i].m = "ChannelClose" =>
                             /\ b # "closed"
                             /\ i < Len(t) => i + 1 = Len(t) /\ t[i + 1].m = "ChannelCloseOk"
                        /\ t[i].m \in {"ChannelOpen", "ChannelCloseOk"} =>
                             \A j \in i + 1 .. Len(t) :
                               t[j].m \notin {"ChannelClose", "ChannelCloseOk"}
      OBVIOUS
    <2>1. t[i] = s[i + 1] /\ i + 1 \in 1 .. Len(s)
      BY <1>0
    <2>2. t[i].m = "ChannelOpen" =>
            IF i = 1 THEN m = "ChannelCloseOk" ELSE t[i - 1].m = "ChannelCloseOk"
      <3>1. t[i].m = "ChannelOpen" => s[(i + 1) - 1].m = "ChannelCloseOk"
        BY <2>1 DEF SentOK
      <3>2. (i + 1) - 1 = i /\ (i # 1 => i - 1 \in 1 .. Len(t) /\ (i - 1) + 1 = i)
        BY <1>0
      <3>3. i # 1 => t[i - 1] = s[i]
        BY <1>0, <3>2
      <3> QED BY <1>0, <3>1, <3>2, <3>3
    <2>3. t[i].m = "ChannelCloseOk" =>
            b = "closing" /\ (i < Len(t) => t[i + 1].m = "ChannelOpen")
      BY <1>0, <2>1 DEF SentOK
    <2>4. t[i].m = "ChannelClose" =>
            b # "closed" /\ (i < Len(t) => i + 1 = Len(t) /\ t[i + 1].m = "ChannelCloseOk")
      BY <1>0, <2>1 DEF SentOK
    <2>5. ASSUME t[i].m \in {"ChannelOpen", "ChannelCloseOk"}, NEW j \in i + 1 .. Len(t)
          PROVE  t[j].m \notin {"ChannelClose", "ChannelCloseOk"}
      <3>1. j + 1 \in (i + 1) + 1 .. Len(s) /\ t[j] = s[j + 1]
        BY <1>0
      <3> QED BY <2>1, <2>5, <3>1 DEF SentOK
    <2> QED BY <2>2, <2>3, <2>4, <2>5
  <1>4. m \in {"ChannelOpen", "ChannelCloseOk"} =>
          \A j \in 1 .. Len(t) : t[j].m \notin {"ChannelClose", "ChannelCloseOk"}
    <2> SUFFICES ASSUME m \in {"ChannelOpen", "ChannelCloseOk"}, NEW j \in 1 .. Len(t)
                 PROVE  t[j].m \notin {"ChannelClose", "ChannelCloseOk"}
      OBVIOUS
    <2>1. j + 1 \in 1 + 1 .. Len(s) /\ t[j] = s[j + 1] /\ 1 \in 1 .. Len(s)
      BY <1>0
    <2> QED BY <1>0, <2>1 DEF SentOK
  <1>5. CASE m \notin Asking
    <2>1. \A i \in 1 .. Len(t) : t[i].m = "ChannelOpen" => i # 1
      BY <1>3, <1>5 DEF Asking
    <2> QED BY <1>2, <1>3, <1>5, <2>1 DEF SentOK, Asking, t, m
  <1>6. CASE m = "ChannelOpen"
    <2>1. b = "closed"
      BY <1>6, <1>e
    <2>2. \A i \in 1 .. Len(t) : t[i].m \notin Asking
      BY <1>0, <1>3, <1>4, <1>6 DEF Asking
    <2>3. SentOK(t, "open")
      BY <2>2 DEF SentOK, Asking
    <2>4. Names(t) \cap Asking = {}
      BY <1>1, <2>2
    <2> QED BY <1>6, <2>1, <2>3, <2>4 DEF t, m, Asking
  <1>7. CASE m = "ChannelClose"
    <2>1. b # "closed" /\ (Len(t) # 0 => Len(t) = 1 /\ t[1].m = "ChannelCloseOk")
      BY <1>7, <1>e
    <2>2. \A i \in 1 .. Len(t) : i = 1 /\ t[i].m = "ChannelCloseOk"
      BY <1>0, <2>1
    <2>3. Names(t) \subseteq {"ChannelCloseOk"}
      BY <1>1, <2>2
    <2>4. "ChannelCloseOk" \in Names(t) => b = "closing"
      BY <1>1, <1>3
    <2>5. b = "open" => Len(t) = 0
      BY <1>0, <1>3, <2>1
    <2>6. SentOK(t, IF b = "open" THEN "closed" ELSE b)
      BY <1>0, <1>3, <2>1, <2>2, <2>5 DEF SentOK
    <2> QED BY <1>7, <2>1, <2>3, <2>4, <2>6 DEF t, m, Asking
  <1>8. CASE m = "ChannelCloseOk"
    <2>1. b = "closing" /\ (Len(t) # 0 => t[1].m = "ChannelOpen")
      BY <1>8, <1>e
    <2>2. \A j \in 1 .. Len(t) : t[j].m \notin {"ChannelClose", "ChannelCloseOk"}
      BY <1>4, <1>8
    <2>3. SentOK(t, "closed")
      BY <1>0, <1>3, <2>1, <2>2 DEF SentOK
    <2> QED BY <1>1, <1>8, <2>1, <2>2, <2>3 DEF t, m, Asking
  <1> QED BY <1>5, <1>6, <1>7, <1>8 DEF Asking

\* A channel that the broker takes for open is not being opened or given up.
LEMMA SentOpen ==
  ASSUME NEW s \in Seq(Message), SentOK(s, "open")
  PROVE  Names(s) \cap {"ChannelOpen", "ChannelCloseOk"} = {} /\ SentOK(s, "closing")
  <1>1. \A i \in 1 .. Len(s) : s[i].m \notin {"ChannelOpen", "ChannelCloseOk"}
    <2> SUFFICES ASSUME NEW i \in 1 .. Len(s), s[i].m \in {"ChannelOpen", "ChannelCloseOk"}
                 PROVE  FALSE
      OBVIOUS
    <2>1. s[i].m # "ChannelCloseOk"
      BY DEF SentOK
    <2>2. i # 1 /\ s[i - 1].m = "ChannelCloseOk" /\ i - 1 \in 1 .. Len(s)
      BY <2>1, LenProperties DEF SentOK
    <2> QED BY <2>2 DEF SentOK
  <1>2. Names(s) \cap {"ChannelOpen", "ChannelCloseOk"} = {}
    BY <1>1 DEF Names, Items
  <1>3. SentOK(s, "closing")
    BY <1>1 DEF SentOK
  <1> QED BY <1>2, <1>3

\* The last method in the queue to the broker.
LEMMA SentLast ==
  ASSUME NEW s \in Seq(Message), NEW b, SentOK(s, b), s # <<>>
  PROVE  LET n == s[Len(s)].m IN
         /\ n \in Names(s)
         /\ n = "ChannelCloseOk" => "ChannelOpen" \notin Names(s)
         /\ "ChannelClose" \in Names(s) /\ "ChannelCloseOk" \notin Names(s) => n = "ChannelClose"
  <1>0. Len(s) \in Nat \ {0} /\ Len(s) \in 1 .. Len(s)
    BY EmptySeq, LenProperties
  <1>1. \A n : n \in Names(s) <=> \E i \in 1 .. Len(s) : s[i].m = n
    BY DEF Names, Items
  <1>2. ASSUME s[Len(s)].m = "ChannelCloseOk", NEW i \in 1 .. Len(s), s[i].m = "ChannelOpen"
        PROVE  FALSE
    <2>1. i # Len(s)
      BY <1>2
    <2>2. Len(s) \in i + 1 .. Len(s)
      BY <1>0, <2>1
    <2> QED BY <1>2, <2>2 DEF SentOK
  <1>3. ASSUME NEW i \in 1 .. Len(s), s[i].m = "ChannelClose", "ChannelCloseOk" \notin Names(s)
        PROVE  i = Len(s)
    <2> SUFFICES ASSUME i # Len(s) PROVE FALSE
      OBVIOUS
    <2>1. i + 1 \in 1 .. Len(s) /\ i < Len(s)
      BY <1>0
    <2>2. s[i + 1].m = "ChannelCloseOk"
      BY <1>3, <2>1 DEF SentOK
    <2> QED BY <1>1, <1>3, <2>1, <2>2
  <1> QED BY <1>0, <1>1, <1>2, <1>3

\* The same, for the queue itself.
LEMMA SentNext ==
  ASSUME NEW s \in Seq(Message), NEW x \in Message, NEW b, SentOK(s, b),
         s = <<>> /\ b = "closed" => x.m = "ChannelOpen",
         x.m = "ChannelOpen" => IF s = <<>> THEN b = "closed" ELSE s[Len(s)].m = "ChannelCloseOk",
         x.m = "ChannelCloseOk" => b = "closing",
         x.m = "ChannelClose" => b # "closed",
         s # <<>> /\ s[Len(s)].m = "ChannelCloseOk" => x.m = "ChannelOpen",
         "ChannelClose" \in Names(s) => s[Len(s)].m = "ChannelClose" /\ x.m = "ChannelCloseOk",
         x.m \in {"ChannelClose", "ChannelCloseOk"} =>
           "ChannelOpen" \notin Names(s) /\ "ChannelCloseOk" \notin Names(s)
  PROVE  SentOK(s \o <<x>>, b)
  <1> DEFINE t == s \o <<x>>
  <1>1. /\ t \in Seq(Message) /\ Len(t) = Len(s) + 1
        /\ \A i \in 1 .. Len(s) : t[i] = s[i]
        /\ t[Len(s) + 1] = x
    BY OneMore
  <1> HIDE DEF t
  <1>2. SentOK(t, b)
    BY <1>1, SentMore
  <1> QED BY <1>2 DEF t

\* A plain method is in order on a channel that the client may use.
LEMMA SentPlain ==
  ASSUME NEW s \in Seq(Message), NEW b \in Broker3, NEW V, NEW u \in {"opening", "open"},
         SentOK(s, b), Talk(Names(s), V, b, u), NEW x \in Message, x.m \notin Asking
  PROVE  SentOK(s \o <<x>>, b)
  <1> DEFINE N == Names(s)
  <1>1. /\ "ChannelClose" \notin N
        /\ N = {} => b # "closed"
        /\ "ChannelCloseOk" \in N => "ChannelOpen" \in N
    BY DEF Talk
  <1>2. s # <<>> => s[Len(s)].m # "ChannelCloseOk"
    BY <1>1, SentLast
  <1>3. ~(s = <<>> /\ b = "closed")
    BY <1>1, NamesEmpty
  <1> QED BY <1>1, <1>2, <1>3, SentNext DEF Asking

\* Open is in order on an id that is free.
LEMMA SentNew ==
  ASSUME NEW s \in Seq(Message), NEW b \in Broker3, NEW V,
         SentOK(s, b), Talk(Names(s), V, b, "none"), NEW x \in Message, x.m = "ChannelOpen"
  PROVE  SentOK(s \o <<x>>, b)
  <1> DEFINE N == Names(s)
  <1>1. (b = "closed" /\ N = {}) \/ (b = "closing" /\ N = {"ChannelCloseOk"})
    BY DEF Talk
  <1>2. IF s = <<>> THEN b = "closed" ELSE s[Len(s)].m = "ChannelCloseOk"
    BY <1>1, SentLast, NamesEmpty
  <1>3. "ChannelClose" \notin N
    BY <1>1
  <1> QED BY <1>2, <1>3, SentNext

\* Close is in order on an open channel.
LEMMA SentClose ==
  ASSUME NEW s \in Seq(Message), NEW b \in Broker3, NEW V,
         SentOK(s, b), Talk(Names(s), V, b, "open"), NEW x \in Message, x.m = "ChannelClose"
  PROVE  SentOK(s \o <<x>>, b)
  <1> DEFINE N == Names(s)
  <1>1. /\ N \cap Asking = {}
        /\ N = {} => b # "closed"
    BY DEF Talk, Asking
  <1>2. s # <<>> => s[Len(s)].m \notin Asking /\ s[1].m \notin Asking
    <2>1. s # <<>> => s[1].m \in N
      BY NamesMove
    <2> QED BY <1>1, <2>1, SentLast
  <1>3. b # "closed"
    BY <1>1, <1>2, NamesEmpty DEF SentOK, Asking
  <1> QED BY <1>1, <1>2, <1>3, SentNext DEF Asking

\* Close-Ok is in order when Close has come.
LEMMA SentAgree ==
  ASSUME NEW s \in Seq(Message), NEW b \in Broker3, NEW V, NEW u, "ChannelClose" \in V,
         SentOK(s, b), Talk(Names(s), V, b, u), NEW x \in Message, x.m = "ChannelCloseOk"
  PROVE  SentOK(s \o <<x>>, b)
  <1> DEFINE N == Names(s)
  <1>1. b = "closing" /\ "ChannelOpen" \notin N /\ "ChannelCloseOk" \notin N
    BY DEF Talk
  <1>2. s # <<>> => s[Len(s)].m # "ChannelCloseOk"
    BY <1>1, SentLast
  <1>3. "ChannelClose" \in N => s # <<>> /\ s[Len(s)].m = "ChannelClose"
    BY <1>1, SentLast, NamesEmpty
  <1> QED BY <1>1, <1>2, <1>3, SentNext

\* ... and so is Open after it, on a channel that the client has not closed.
LEMMA SentRevive ==
  ASSUME NEW s \in Seq(Message), NEW b \in Broker3, NEW V, NEW u \in {"opening", "open"},
         "ChannelClose" \in V, SentOK(s, b), Talk(Names(s), V, b, u),
         NEW x \in Message, x.m = "ChannelCloseOk", NEW y \in Message, y.m = "ChannelOpen"
  PROVE  SentOK(s \o <<x, y>>, b)
  <1> DEFINE r == s \o <<x>>
             t == s \o <<x, y>>
  <1>1. SentOK(r, b) /\ b = "closing"
    BY SentAgree DEF Talk
  <1>2. /\ r \in Seq(Message) /\ Len(s) \in Nat /\ Len(r) = Len(s) + 1
        /\ \A i \in 1 .. Len(s) : r[i] = s[i]
        /\ r[Len(s) + 1] = x
    BY OneMore
  <1>3. /\ <<x, y>> \in Seq(Message) /\ Len(<<x, y>>) = 2
        /\ <<x, y>>[1] = x /\ <<x, y>>[2] = y
    OBVIOUS
  <1>4. /\ t \in Seq(Message) /\ Len(t) = Len(s) + 2
        /\ \A i \in 1 .. Len(s) : t[i] = s[i]
        /\ t[Len(s) + 1] = x /\ t[Len(s) + 2] = y
    <2> DEFINE ms == <<x, y>>
    <2> HIDE DEF ms
    <2>1. ms \in Seq(Message) /\ Len(ms) = 2 /\ ms[1] = x /\ ms[2] = y
      BY <1>3 DEF ms
    <2>2. /\ s \o ms \in Seq(Message) /\ Len(s \o ms) = Len(s) + 2
          /\ \A i \in 1 .. Len(s) + 2 : (s \o ms)[i] = IF i <= Len(s) THEN s[i] ELSE ms[i - Len(s)]
      <3>1. /\ s \o ms \in Seq(Message) /\ Len(s \o ms) = Len(s) + Len(ms)
            /\ \A i \in 1 .. Len(s) + Len(ms) :
                 (s \o ms)[i] = IF i <= Len(s) THEN s[i] ELSE ms[i - Len(s)]
        BY <2>1, ConcatProperties
      <3> QED BY <2>1, <3>1
    <2>3. /\ Len(s) + 1 \in 1 .. Len(s) + 2 /\ Len(s) + 2 \in 1 .. Len(s) + 2
          /\ \A i \in 1 .. Len(s) : i \in 1 .. Len(s) + 2 /\ i <= Len(s)
          /\ ~(Len(s) + 1 <= Len(s)) /\ (Len(s) + 1) - Len(s) = 1
          /\ ~(Len(s) + 2 <= Len(s)) /\ (Len(s) + 2) - Len(s) = 2
      BY <1>2
    <2>4. /\ \A i \in 1 .. Len(s) : (s \o ms)[i] = s[i]
          /\ (s \o ms)[Len(s) + 1] = ms[1] /\ (s \o ms)[Len(s) + 2] = ms[2]
      BY <2>2, <2>3
    <2> QED BY <2>1, <2>2, <2>4 DEF ms
  <1>5. Names(r) = Names(s) \cup {"ChannelCloseOk"}
    BY NamesMove
  <1>6. "ChannelClose" \notin Names(r)
    BY <1>5 DEF Talk
  <1> HIDE DEF r, t
  <1>7. /\ Len(t) = Len(r) + 1 /\ t[Len(r) + 1] = y /\ r # <<>>
        /\ r[Len(r)] = x
        /\ \A i \in 1 .. Len(r) : t[i] = r[i]
    BY <1>2, <1>4
  <1>8. SentOK(t, b)
    BY <1>1, <1>2, <1>4, <1>6, <1>7, SentMore
  <1> QED BY <1>8 DEF t

\* The queue to the client, when its first method is taken.
LEMMA ComingTaken ==
  ASSUME NEW q \in Seq(Message), q # <<>>, ComingOK(q)
  PROVE  /\ ComingOK(Tail(q))
         /\ \A id : Head(q).ch = id /\ id # 0 =>
              /\ "ChannelOpenOk" \notin View(id, Tail(q))
              /\ Head(q).m = "ChannelCloseOk" => View(id, Tail(q)) = {}
              /\ Head(q).m = "ChannelClose" => View(id, Tail(q)) \subseteq {"ChannelCloseOk"}
  <1> DEFINE t == Tail(q)
             h == Head(q)
  <1>1. /\ Len(t) = Len(q) - 1 /\ Len(q) \in Nat \ {0}
        /\ \A i \in 1 .. Len(t) : t[i] = q[i + 1]
    BY HeadTailProperties, EmptySeq
  <1>2. h = q[1]
    OBVIOUS
  <1> HIDE DEF t, h
  <1>3. \A i \in 1 .. Len(t) : i + 1 \in 1 .. Len(q) /\ t[i] = q[i + 1]
    BY <1>1
  <1>4. ComingOK(t)
    <2> SUFFICES ASSUME NEW i \in 1 .. Len(t), NEW j \in 1 .. Len(t), i < j
                 PROVE  Follows(t[i], t[j])
      BY DEF ComingOK
    <2>1. i + 1 < j + 1
      BY <1>1
    <2> QED BY <1>3, <2>1 DEF ComingOK
  <1>5. ASSUME NEW y \in Items(t) PROVE Follows(h, y)
    <2>1. PICK j \in 1 .. Len(t) : y = t[j]
      BY DEF Items
    <2>2. 1 \in 1 .. Len(q) /\ 1 < j + 1
      BY <1>1, <2>1
    <2> QED BY <1>2, <1>3, <2>1, <2>2 DEF ComingOK
  <1>6. ASSUME NEW id, h.ch = id, id # 0, NEW n \in View(id, t)
        PROVE  /\ n # "ChannelOpenOk" /\ h.m # "ChannelCloseOk"
               /\ h.m = "ChannelClose" => n = "ChannelCloseOk"
    <2>1. PICK y \in Items(t) : y.ch = id /\ n = y.m
      BY <1>6 DEF View
    <2> QED BY <1>5, <1>6, <2>1 DEF Follows
  <1> QED BY <1>4, <1>6 DEF t, h

\* The queue to the client, when methods are appended.
LEMMA ComingMore ==
  ASSUME NEW q \in Seq(Message), NEW ms \in Seq(Message), ComingOK(q), ComingOK(ms),
         \A x \in Items(q), y \in Items(ms) : Follows(x, y)
  PROVE  ComingOK(q \o ms)
  <1> DEFINE t == q \o ms
  <1>1. /\ Len(t) = Len(q) + Len(ms) /\ Len(q) \in Nat /\ Len(ms) \in Nat
        /\ \A i \in 1 .. Len(q) + Len(ms) : t[i] = IF i <= Len(q) THEN q[i] ELSE ms[i - Len(q)]
    BY ConcatProperties, LenProperties
  <1> HIDE DEF t
  <1> SUFFICES ASSUME NEW i \in 1 .. Len(t), NEW j \in 1 .. Len(t), i < j
               PROVE  Follows(t[i], t[j])
    BY DEF ComingOK, t
  <1>2. CASE j <= Len(q)
    <2>1. i \in 1 .. Len(q) /\ j \in 1 .. Len(q) /\ t[i] = q[i] /\ t[j] = q[j]
      BY <1>1, <1>2
    <2> QED BY <2>1 DEF ComingOK
  <1>3. CASE ~(i <= Len(q))
    <2>1. /\ i - Len(q) \in 1 .. Len(ms) /\ j - Len(q) \in 1 .. Len(ms)
          /\ i - Len(q) < j - Len(q)
          /\ t[i] = ms[i - Len(q)] /\ t[j] = ms[j - Len(q)]
      BY <1>1, <1>3
    <2> QED BY <2>1 DEF ComingOK
  <1>4. CASE i <= Len(q) /\ ~(j <= Len(q))
    <2>1. /\ i \in 1 .. Len(q) /\ j - Len(q) \in 1 .. Len(ms)
          /\ t[i] = q[i] /\ t[j] = ms[j - Len(q)]
      BY <1>1, <1>4
    <2>2. t[i] \in Items(q) /\ t[j] \in Items(ms)
      BY <2>1 DEF Items
    <2> QED BY <2>2
  <1> QED BY <1>1, <1>2, <1>3, <1>4

\* Plain methods may follow as long as no Close and no Close-Ok has been sent.
LEMMA ComingPlain ==
  ASSUME NEW q \in Seq(Message), NEW ms \in Seq(Message), ComingOK(q), NEW id,
         \A y \in Items(ms) : y.ch = id /\ y.m \notin Telling,
         "ChannelClose" \notin View(id, q), "ChannelCloseOk" \notin View(id, q)
  PROVE  ComingOK(q \o ms)
  <1>1. ComingOK(ms)
    <2> SUFFICES ASSUME NEW i \in 1 .. Len(ms), NEW j \in 1 .. Len(ms)
                 PROVE  Follows(ms[i], ms[j])
      BY DEF ComingOK
    <2>1. ms[i] \in Items(ms) /\ ms[j] \in Items(ms)
      BY DEF Items
    <2> QED BY <2>1 DEF Follows, Telling
  <1>2. ASSUME NEW x \in Items(q), NEW y \in Items(ms) PROVE Follows(x, y)
    <2>1. y.ch = id /\ y.m \notin Telling
      OBVIOUS
    <2>2. x.ch = id => x.m \in View(id, q)
      BY DEF View
    <2> QED BY <2>1, <2>2 DEF Follows, Telling
  <1> QED BY <1>1, <1>2, ComingMore

\* One method that is in order.
LEMMA ComingOne ==
  ASSUME NEW q \in Seq(Message), NEW x \in Message, ComingOK(q), NEW id, x.ch = id,
         id # 0 => /\ x.m = "ChannelOpenOk" => View(id, q) = {}
                   /\ "ChannelCloseOk" \notin View(id, q)
                   /\ "ChannelClose" \in View(id, q) => x.m = "ChannelCloseOk"
  PROVE  ComingOK(q \o <<x>>)
  <1>0. <<x>> \in Seq(Message) /\ Items(<<x>>) = {x} /\ Len(<<x>>) = 1
    BY ItemsFew
  <1>1. ComingOK(<<x>>)
    BY <1>0 DEF ComingOK
  <1>2. ASSUME NEW z \in Items(q), NEW y \in Items(<<x>>) PROVE Follows(z, y)
    <2>1. y = x
      BY <1>0
    <2>2. z.ch = id => z.m \in View(id, q)
      BY DEF View
    <2> QED BY <2>1, <2>2 DEF Follows
  <1> QED BY <1>0, <1>1, <1>2, ComingMore

\* What a queue of one brings.
LEMMA ViewOne ==
  ASSUME NEW x \in Message, NEW id
  PROVE  View(id, <<x>>) = IF x.ch = id THEN {x.m} ELSE {}
  <1>1. Items(<<x>>) = {x}
    BY ItemsFew
  <1> QED BY <1>1 DEF View

-----------------------------------------------------------------------------
(* What the broker does.                                                   *)

(* A plain method of an open channel is handled, with the answers ms.      *)
Handles(id, ms) ==
  /\ Receives(id, ms) /\ UNCHANGED <<bconn, bchan>>
  /\ bconn = "open" /\ bchan[id] = "open"
  /\ Received(id).m \notin {"ChannelOpen", "ChannelClose"}
  /\ \A y \in Items(ms) : y.ch = id /\ y.m \notin Telling

(* A method x is sent without being asked for. *)
Emits(x) ==
  /\ sock /\ bconn = "open"
  /\ toClient' = toClient \o <<x>>
  /\ UNCHANGED <<clientVars, sock, toServer>>

\* No other request is answered with what opens and closes channels.
LEMMA PlainAnswers ==
  /\ \A n \in Sync \ {"ChannelOpen", "ChannelClose"} : ReplyTo[n] \cap Telling = {}
  /\ Async \cap {"ChannelOpen", "ChannelClose"} = {}
  BY DEF Sync, ReplyTo, Telling, Async

\* Every way the broker handles a method.
LEMMA BrokerHandles ==
  ASSUME TypeOK, BrokerReceives
  PROVE  \/ \E id \in Ids, ms \in Seq(Message) : Handles(id, ms)
         \/ \E id \in Ids : \/ BrokerOpens(id) \/ BrokerCloses(id)
                            \/ BrokerDrops(id) \/ BrokerFails(id)
         \/ BrokerDisconnects
  <1>1. 0 \in Ids0 /\ Ids \subseteq Ids0
    BY SpecAssumption DEF Ids, Ids0
  <1>3. ASSUME NEW id \in Ids, NEW m \in Replies, BrokerReplies(id, m)
        PROVE  \E ms \in Seq(Message) : Handles(id, ms)
    <2> DEFINE ms == IF Received(id).nowait THEN <<>> ELSE <<Reply(id, m)>>
    <2>1. /\ Receives(id, ms) /\ toServer[id] # <<>> /\ UNCHANGED <<bconn, bchan>>
          /\ bconn = "open" /\ bchan[id] = "open"
          /\ Received(id).m \in Sync \ {"ChannelOpen", "ChannelClose"}
          /\ m \in ReplyTo[Received(id).m]
      BY <1>3 DEF BrokerReplies
    <2>2. m \notin Telling /\ m \in Methods
      BY <2>1, PlainAnswers, MethodsFacts
    <2>3. Reply(id, m) \in Message
      BY <1>1, <2>1, <2>2, ReplyType
    <2>4. ms \in Seq(Message) /\ \A y \in Items(ms) : y.ch = id /\ y.m \notin Telling
      BY <2>2, <2>3, ItemsOne, ItemsNone, ReplyFields
    <2> HIDE DEF ms
    <2> QED BY <2>1, <2>4 DEF Handles
  <1>4. ASSUME NEW id \in Ids, BrokerAccepts(id)
        PROVE  \E ms \in Seq(Message) : Handles(id, ms)
    <2>1. <<>> \in Seq(Message) /\ Items(<<>>) = {}
      BY ItemsNone
    <2>2. Handles(id, <<>>)
      BY <1>4, <2>1, PlainAnswers DEF BrokerAccepts, Handles, brokerVars
    <2> QED BY <2>1, <2>2
  <1>5. ASSUME NEW id \in Ids, NEW t \in Tags, BrokerConsumes(id, t)
        PROVE  \E ms \in Seq(Message) : Handles(id, ms)
    <2> DEFINE r == Reply(id, "BasicConsumeOk")
               ok == [r EXCEPT !.tag = t]
               ms == IF Received(id).nowait THEN <<>> ELSE <<ok>>
    <2>1. /\ Receives(id, ms) /\ toServer[id] # <<>> /\ UNCHANGED <<bconn, bchan>>
          /\ bconn = "open" /\ bchan[id] = "open" /\ Received(id).m = "BasicConsume"
      BY <1>5 DEF BrokerConsumes
    <2>2. r \in Message /\ r.ch = id /\ r.m = "BasicConsumeOk"
      BY <1>1, <2>1, ReplyType, ReplyFields, RepliesFacts, MethodsFacts
    <2>3. ok \in Message /\ ok.ch = id /\ ok.m = "BasicConsumeOk"
      <3> HIDE DEF r
      <3> QED BY <2>2, MessageUpdate DEF Message
    <2> HIDE DEF ok
    <2>4. ms \in Seq(Message) /\ \A y \in Items(ms) : y.ch = id /\ y.m \notin Telling
      BY <2>3, ItemsOne, ItemsNone DEF Telling
    <2> HIDE DEF ms
    <2> QED BY <2>1, <2>4 DEF Handles
  <1>6. ASSUME NEW id \in Ids, NEW returned \in BOOLEAN, NEW m \in {"BasicAck", "BasicNack"},
               BrokerPublishes(id, returned, m)
        PROVE  \E ms \in Seq(Message) : Handles(id, ms)
    <2> DEFINE u == Reply(id, "BasicReturn")
               v == Reply(id, m)
               a == IF returned THEN <<u>> ELSE <<>>
               b == IF bconfirm[id] THEN <<v>> ELSE <<>>
    <2>1. /\ Receives(id, a \o b) /\ toServer[id] # <<>> /\ UNCHANGED <<bconn, bchan>>
          /\ bconn = "open" /\ bchan[id] = "open" /\ Received(id).m = "BasicPublish"
      BY <1>6 DEF BrokerPublishes
    <2>2. u \in Message /\ u.ch = id /\ u.m = "BasicReturn"
      BY <1>1, <2>1, ReplyType, ReplyFields, NoReplies
    <2>3. v \in Message /\ v.ch = id /\ v.m = m
      BY <1>1, <2>1, ReplyType, ReplyFields, RepliesFacts, MethodsFacts
    <2> HIDE DEF u, v
    <2>4. /\ a \in Seq(Message) /\ \A y \in Items(a) : y.ch = id /\ y.m \notin Telling
          /\ b \in Seq(Message) /\ \A y \in Items(b) : y.ch = id /\ y.m \notin Telling
      BY <2>2, <2>3, ItemsOne, ItemsNone DEF Telling
    <2> HIDE DEF a, b
    <2>5. a \o b \in Seq(Message) /\ \A y \in Items(a \o b) : y.ch = id /\ y.m \notin Telling
      BY <2>4, ConcatProperties, ItemsConcat
    <2>6. Handles(id, a \o b)
      BY <2>1, <2>5 DEF Handles
    <2> QED BY <2>5, <2>6
  <1> QED BY <1>3, <1>4, <1>5, <1>6 DEF BrokerReceives

\* Every event of the broker.
LEMMA BrokerEmits ==
  ASSUME TypeOK, BrokerEvent
  PROVE  \/ \E id \in Ids, x \in Message : /\ Emits(x) /\ x.ch = id /\ x.m \notin Telling
                                           /\ bchan[id] = "open" /\ UNCHANGED <<bconn, bchan>>
         \/ \E id \in Ids, x \in Message : /\ Emits(x) /\ x.ch = id /\ x.m = "ChannelClose"
                                           /\ bchan[id] = "open" /\ UNCHANGED bconn
                                           /\ bchan' = [bchan EXCEPT ![id] = "closing"]
         \/ \E x \in Message : /\ Emits(x) /\ x.ch = 0
                               /\ x.m \in {"ConnectionBlocked", "ConnectionUnblocked"}
                               /\ UNCHANGED <<bconn, bchan>>
         \/ \E x \in Message : /\ Emits(x) /\ x.ch = 0 /\ x.m = "ConnectionClose"
                               /\ bconn' # "open" /\ UNCHANGED bchan
         \/ /\ ~sock' /\ UNCHANGED <<bconn, clientVars, toServer>>
            /\ Items(toClient') \subseteq Items(toClient)
  <1>0. toClient \in Seq(Message)
    BY DEF TypeOK, AbstractChannelTypeOK
  <1>1. Ids \subseteq Ids0 /\ 0 \in Ids0 /\ 0 \in Nat
    BY SpecAssumption DEF Ids, Ids0
  <1>2. ASSUME NEW m, NEW x, Happens(m, x) PROVE Emits(x)
    BY <1>0, <1>2, AppendIsConcat DEF Happens, Emits
  <1>3. ASSUME NEW id \in Ids, NEW t \in Tags, BrokerDelivers(id, t) \/ BrokerCancels(id, t)
        PROVE  \E x \in Message : /\ Emits(x) /\ x.ch = id /\ x.m \notin Telling
                                  /\ bchan[id] = "open" /\ UNCHANGED <<bconn, bchan>>
    <2>1. PICK m \in {"BasicDeliver", "BasicCancel"} :
            /\ Happens(m, [Msg(id, m, bcons[id][t].rid) EXCEPT !.tag = t])
            /\ bchan[id] = "open" /\ UNCHANGED <<bconn, bchan>>
      BY <1>3 DEF BrokerDelivers, BrokerCancels
    <2>2. bcons[id][t].rid \in Nat /\ m \in Methods /\ id \in Ids0
      BY <1>1, NoReplies DEF TypeOK, BrokerTypeOK
    <2> DEFINE x == [Msg(id, m, bcons[id][t].rid) EXCEPT !.tag = t]
    <2>3. x \in Message
      BY <2>2, MsgType, MessageUpdate
    <2>4. x.m = m /\ x.ch = id
      BY DEF Msg
    <2>5. Emits(x) /\ x.m \notin Telling
      BY <1>2, <2>1, <2>4 DEF Telling
    <2> HIDE DEF x
    <2> QED BY <2>1, <2>3, <2>4, <2>5
  <1>4. ASSUME NEW id \in Ids0,
               NEW m \in {"ChannelFlow", "ChannelClose", "ConnectionBlocked",
                          "ConnectionUnblocked", "ConnectionClose"},
               Happens(m, Msg(id, m, 0))
        PROVE  \E x \in Message : Emits(x) /\ x.ch = id /\ x.m = m
    <2>1. Msg(id, m, 0) \in Message /\ Msg(id, m, 0).m = m /\ Msg(id, m, 0).ch = id
      BY <1>1, NoReplies, MsgType DEF Msg
    <2> QED BY <1>2, <1>4, <2>1
  <1>5. ASSUME NEW id \in Ids, BrokerFlows(id)
        PROVE  \E x \in Message : /\ Emits(x) /\ x.ch = id /\ x.m \notin Telling
                                  /\ bchan[id] = "open" /\ UNCHANGED <<bconn, bchan>>
    BY <1>1, <1>4, <1>5 DEF BrokerFlows, Telling
  <1>6. ASSUME NEW id \in Ids, BrokerClosesChannel(id)
        PROVE  \E x \in Message : /\ Emits(x) /\ x.ch = id /\ x.m = "ChannelClose"
                                  /\ bchan[id] = "open" /\ UNCHANGED bconn
                                  /\ bchan' = [bchan EXCEPT ![id] = "closing"]
    BY <1>1, <1>4, <1>6 DEF BrokerClosesChannel
  <1>7. ASSUME NEW m \in Events, BrokerBlocks(m)
        PROVE  \E x \in Message : /\ Emits(x) /\ x.ch = 0
                                  /\ x.m \in {"ConnectionBlocked", "ConnectionUnblocked"}
                                  /\ UNCHANGED <<bconn, bchan>>
    BY <1>1, <1>4, <1>7 DEF BrokerBlocks
  <1>8. ASSUME BrokerClosesConnection
        PROVE  \E x \in Message : /\ Emits(x) /\ x.ch = 0 /\ x.m = "ConnectionClose"
                                  /\ bconn' # "open" /\ UNCHANGED bchan
    BY <1>1, <1>4, <1>8 DEF BrokerClosesConnection
  <1>9. ASSUME NEW n \in 0 .. Len(toClient), SocketBreaks(n)
        PROVE  /\ ~sock' /\ UNCHANGED <<bconn, clientVars, toServer>>
               /\ Items(toClient') \subseteq Items(toClient)
    BY <1>0, <1>9, ItemsCut DEF SocketBreaks
  <1> QED BY <1>3, <1>5, <1>6, <1>7, <1>8, <1>9, Zenon DEF BrokerEvent

(* What the broker says on channel 0. *)
Control == {"ConnectionClose", "ConnectionCloseOk", "ConnectionBlocked", "ConnectionUnblocked"}

ControlOK == \A x \in Items(toClient) : x.ch = 0 => x.m \in Control

\* The types of what a channel is taken for.
LEMMA SideTypes ==
  ASSUME TypeOK, NEW id \in Ids
  PROVE  /\ id \in Ids0 /\ id # 0 /\ bchan[id] \in Broker3
         /\ toServer[id] \in Seq(Message) /\ toClient \in Seq(Message)
         /\ Status(channels[id]) \in {"none", "gone", "closing", "open", "opening"}
  BY SpecAssumption DEF TypeOK, AbstractChannelTypeOK, BrokerTypeOK, Ids, Ids0, Broker3, Status

\* The broker handles what concerns one channel, and it stays in step.
LEMMA OneInStep ==
  ASSUME TypeOK, AgreeOK, Talking, UNCHANGED clientVars, NEW id \in Ids,
         NEW s \in Seq(Message), toServer' = [toServer EXCEPT ![id] = s],
         NEW b, bchan' = [bchan EXCEPT ![id] = b],
         NEW ms \in Seq(Message), toClient' = toClient \o ms, \A y \in Items(ms) : y.ch = id,
         ComingOK(toClient \o ms), SentOK(s, b),
         Talk(Names(s), View(id, toClient) \cup View(id, ms), b, Status(channels[id]))
  PROVE  AgreeOK'
  <1>1. \A k \in Ids : Status(channels[k])' = Status(channels[k])
    BY DEF Status, clientVars, chanVars
  <1>2. /\ toServer'[id] = s /\ bchan'[id] = b
        /\ \A k \in Ids : k # id => toServer'[k] = toServer[k] /\ bchan'[k] = bchan[k]
    BY SideTypes DEF TypeOK, AbstractChannelTypeOK, BrokerTypeOK
  <1>3. \A k \in Ids : View(k, toClient') = View(k, toClient) \cup View(k, ms)
    BY ViewMove DEF TypeOK, AbstractChannelTypeOK
  <1>4. \A k \in Ids : k # id => View(k, ms) = {}
    BY DEF View
  <1>5. InStep(id)'
    BY <1>1, <1>2, <1>3 DEF InStep
  <1>6. ASSUME NEW k \in Ids, k # id PROVE InStep(k)'
    <2>1. View(k, toClient') = View(k, toClient)
      BY <1>3, <1>4, <1>6
    <2> QED BY <1>1, <1>2, <1>6, <2>1 DEF InStep, AgreeOK
  <1>7. ~is_closing'[0]
    BY DEF AgreeOK, clientVars
  <1> QED BY <1>5, <1>6, <1>7 DEF AgreeOK

\* The broker handles a method of an open channel.
LEMMA HandlesAgree ==
  ASSUME TypeOK, AgreeOK, NEW id \in Ids, NEW ms \in Seq(Message), Handles(id, ms)
  PROVE  AgreeOK'
  <1> SUFFICES ASSUME Talking' PROVE AgreeOK'
    BY DEF AgreeOK
  <1> DEFINE s == toServer[id]
             V == View(id, toClient)
             P == View(id, ms)
             u == Status(channels[id])
  <1>1. /\ s \in Seq(Message) /\ s # <<>> /\ Head(s).m \notin {"ChannelOpen", "ChannelClose"}
        /\ toServer' = [toServer EXCEPT ![id] = Tail(s)] /\ toClient' = toClient \o ms
        /\ UNCHANGED <<clientVars, sock, bconn, bchan>> /\ bchan[id] = "open"
        /\ \A y \in Items(ms) : y.ch = id /\ y.m \notin Telling
    BY SideTypes DEF Handles, Receives, Received
  <1>2. Talking
    BY <1>1, SideTypes DEF Talking, TypeOK, AbstractChannelTypeOK
  <1>3. SentOK(s, "open") /\ Talk(Names(s), V, "open", u) /\ ComingOK(toClient)
    BY <1>1, <1>2 DEF AgreeOK, InStep
  <1>4. Names(s) \cap {"ChannelOpen", "ChannelCloseOk"} = {}
    BY <1>1, <1>3, SentOpen
  <1>5. /\ Head(s).m \in Names(s) /\ Names(Tail(s)) \subseteq Names(s)
        /\ Names(s) \subseteq Names(Tail(s)) \cup {Head(s).m}
    BY <1>1, NamesMove
  <1>6. Head(s).m \notin Asking
    BY <1>1, <1>4, <1>5 DEF Asking
  <1>7. P \cap Telling = {}
    BY <1>1 DEF View
  <1>8. /\ Talk(Names(Tail(s)), V \cup P, "open", u)
        /\ "ChannelClose" \notin V /\ "ChannelCloseOk" \notin V
    <2> HIDE DEF s, V, P, u
    <2> QED BY <1>3, <1>4, <1>5, <1>6, <1>7, TalkHandled
  <1>9. SentOK(Tail(s), "open")
    <2> HIDE DEF s
    <2> QED BY <1>1, <1>3, <1>6, SentLess DEF Broker3
  <1>10. toClient \in Seq(Message) /\ Tail(s) \in Seq(Message)
    BY <1>1, HeadTailProperties, SideTypes
  <1>11. ComingOK(toClient \o ms)
    BY <1>1, <1>3, <1>8, <1>10, ComingPlain
  <1>12. bchan' = [bchan EXCEPT ![id] = "open"]
    BY <1>1 DEF TypeOK, BrokerTypeOK
  <1>13. UNCHANGED clientVars /\ \A y \in Items(ms) : y.ch = id
    BY <1>1
  <1> HIDE DEF s
  <1> QED BY <1>1, <1>2, <1>8, <1>9, <1>10, <1>11, <1>12, <1>13, OneInStep

\* The broker opens a channel, closes one, or drops what comes for one it has closed.
LEMMA OpensAgree ==
  ASSUME TypeOK, AgreeOK, NEW id \in Ids, BrokerOpens(id) \/ BrokerCloses(id) \/ BrokerDrops(id)
  PROVE  AgreeOK'
  <1> SUFFICES ASSUME Talking' PROVE AgreeOK'
    BY DEF AgreeOK
  <1> DEFINE s == toServer[id]
             h == Head(s).m
             V == View(id, toClient)
             u == Status(channels[id])
             c == bchan[id]
  <1>1. /\ s \in Seq(Message) /\ s # <<>>
        /\ toServer' = [toServer EXCEPT ![id] = Tail(s)]
        /\ UNCHANGED <<clientVars, sock, bconn>>
    BY SideTypes DEF BrokerOpens, BrokerCloses, BrokerDrops, Receives
  <1>2. Talking
    BY <1>1, SideTypes DEF Talking, TypeOK, AbstractChannelTypeOK
  <1>3. SentOK(s, c) /\ Talk(Names(s), V, c, u) /\ ComingOK(toClient)
    BY <1>2 DEF AgreeOK, InStep
  <1>4. /\ h \in Names(s) /\ Names(Tail(s)) \subseteq Names(s)
        /\ Names(s) \subseteq Names(Tail(s)) \cup {h}
    BY <1>1, NamesMove
  <1>5. /\ toClient \in Seq(Message) /\ Tail(s) \in Seq(Message) /\ id \in Ids0 /\ id # 0
        /\ c \in Broker3 /\ u \in {"none", "gone", "closing", "open", "opening"}
    BY <1>1, HeadTailProperties, SideTypes
  <1>6. ASSUME NEW b, bchan' = [bchan EXCEPT ![id] = b], NEW x \in Message, x.ch = id,
               x.m \notin {"ChannelClose"},
               toClient' = toClient \o <<x>>, SentOK(Tail(s), b),
               Talk(Names(Tail(s)), V \cup {x.m}, b, u),
               x.m = "ChannelOpenOk" => V = {}, "ChannelCloseOk" \notin V,
               "ChannelClose" \in V => x.m = "ChannelCloseOk"
        PROVE  AgreeOK'
    <2>1. <<x>> \in Seq(Message) /\ (\A y \in Items(<<x>>) : y.ch = id) /\ View(id, <<x>>) = {x.m}
      BY <1>6, ItemsFew, ViewOne
    <2>2. ComingOK(toClient \o <<x>>)
      BY <1>3, <1>5, <1>6, ComingOne
    <2>3. UNCHANGED clientVars
      BY <1>1
    <2> DEFINE ms == <<x>>
    <2>4. /\ ms \in Seq(Message) /\ toClient' = toClient \o ms /\ \A y \in Items(ms) : y.ch = id
          /\ ComingOK(toClient \o ms)
          /\ Talk(Names(Tail(s)), V \cup View(id, ms), b, u)
      BY <1>6, <2>1, <2>2
    <2> HIDE DEF ms, s
    <2> QED BY <1>1, <1>2, <1>5, <1>6, <2>3, <2>4, OneInStep
  <1>7. CASE BrokerOpens(id)
    <2> DEFINE x == Reply(id, "ChannelOpenOk")
    <2>1. /\ h = "ChannelOpen" /\ c = "closed" /\ toClient' = toClient \o <<x>>
          /\ bchan' = [bchan EXCEPT ![id] = "open"]
      BY <1>7 DEF BrokerOpens, Receives, Received
    <2>2. x \in Message /\ x.ch = id /\ x.m = "ChannelOpenOk"
      BY <1>1, <1>5, ReplyType, ReplyFields, RepliesFacts, MethodsFacts
    <2>3. SentOK(Tail(s), "open") /\ Names(Tail(s)) \cap Asking = {}
      <3> HIDE DEF s, c
      <3> QED BY <1>1, <1>3, <1>5, <2>1, SentLess
    <2>4. V = {} /\ Talk(Names(Tail(s)), V \cup {"ChannelOpenOk"}, "open", u)
      <3> DEFINE N == Names(s)
                 M == Names(Tail(s))
      <3>1. /\ Talk(N, V, "closed", u) /\ "ChannelOpen" \in N /\ M \subseteq N
            /\ N \subseteq M \cup {"ChannelOpen"} /\ M \cap Asking = {}
            /\ u \in {"none", "gone", "closing", "open", "opening"}
        BY <1>3, <1>4, <1>5, <2>1, <2>3
      <3> HIDE DEF N, M, V, u
      <3>2. V = {} /\ Talk(M, V \cup {"ChannelOpenOk"}, "open", u)
        BY <3>1, TalkOpens
      <3> QED BY <3>2 DEF M
    <2> HIDE DEF x, s, V, u
    <2> QED BY <1>6, <2>1, <2>2, <2>3, <2>4
  <1>8. CASE BrokerCloses(id)
    <2> DEFINE x == Reply(id, "ChannelCloseOk")
               b == IF c = "open" THEN "closed" ELSE c
    <2>1. /\ h = "ChannelClose" /\ c # "closed" /\ toClient' = toClient \o <<x>>
          /\ bchan' = [bchan EXCEPT ![id] = b]
      BY <1>8 DEF BrokerCloses, Receives, Received, TypeOK, BrokerTypeOK
    <2>2. x \in Message /\ x.ch = id /\ x.m = "ChannelCloseOk"
      BY <1>1, <1>5, ReplyType, ReplyFields, RepliesFacts, MethodsFacts
    <2>3. /\ Names(Tail(s)) \subseteq {"ChannelCloseOk"} /\ SentOK(Tail(s), b)
          /\ "ChannelCloseOk" \in Names(Tail(s)) => c = "closing"
      <3> HIDE DEF s, c
      <3> QED BY <1>1, <1>3, <1>5, <2>1, SentLess
    <2>4. "ChannelCloseOk" \notin V /\ Talk(Names(Tail(s)), V \cup {"ChannelCloseOk"}, b, u)
      <3>1. c \in {"open", "closing"}
        BY <1>5, <2>1 DEF Broker3
      <3> DEFINE N == Names(s)
                 M == Names(Tail(s))
      <3>2. /\ Talk(N, V, c, u) /\ "ChannelClose" \in N /\ M \subseteq N
            /\ N \subseteq M \cup {"ChannelClose"} /\ (M = {} \/ M = {"ChannelCloseOk"})
            /\ "ChannelCloseOk" \in M => c = "closing"
            /\ u \in {"none", "gone", "closing", "open", "opening"}
        BY <1>3, <1>4, <1>5, <2>1, <2>3
      <3> HIDE DEF N, M, V, u, c
      <3>3. CASE c = "open"
        <4>1. Talk(N, V, "open", u) /\ M = {}
          BY <3>2, <3>3
        <4>2. "ChannelCloseOk" \notin V /\ Talk(M, V \cup {"ChannelCloseOk"}, "closed", u)
          BY <3>2, <4>1, TalkCloses
        <4> QED BY <3>3, <4>2 DEF M
      <3>4. CASE c = "closing"
        <4>1. Talk(N, V, "closing", u)
          BY <3>2, <3>4
        <4>2. "ChannelCloseOk" \notin V /\ Talk(M, V \cup {"ChannelCloseOk"}, "closing", u)
          <5>1. CASE M = {}
            BY <3>2, <4>1, <5>1 DEF Talk, Asking, Telling
          <5>2. CASE M = {"ChannelCloseOk"}
            BY <3>2, <4>1, <5>2 DEF Talk, Asking, Telling
          <5> QED BY <3>2, <5>1, <5>2
        <4> QED BY <3>4, <4>2 DEF M
      <3> QED BY <3>1, <3>3, <3>4
    <2> HIDE DEF x, s, V, u, b
    <2> QED BY <1>6, <2>1, <2>2, <2>3, <2>4
  <1>9. CASE BrokerDrops(id)
    <2> DEFINE b == IF h = "ChannelCloseOk" THEN "closed" ELSE c
               ms == <<>>
    <2>1. /\ h # "ChannelClose" /\ c = "closing" /\ toClient' = toClient \o ms
          /\ bchan' = [bchan EXCEPT ![id] = b]
      BY <1>9 DEF BrokerDrops, Receives, Received, TypeOK, BrokerTypeOK
    <2>2. SentOK(Tail(s), b) /\ Talk(Names(Tail(s)), V, b, u)
      <3>1. h # "ChannelOpen"
        <4> HIDE DEF s, c
        <4> QED BY <1>1, <1>3, <1>5, <2>1, SentLess
      <3>2. CASE h = "ChannelCloseOk"
        <4>1. /\ SentOK(Tail(s), "closed") /\ "ChannelCloseOk" \notin Names(Tail(s))
              /\ "ChannelClose" \notin Names(Tail(s))
          <5> HIDE DEF s, c
          <5> QED BY <1>1, <1>3, <1>5, <3>2, SentLess
        <4>2. Talk(Names(Tail(s)), V, "closed", u)
          <5> HIDE DEF s, c, h, V, u
          <5> QED BY <1>3, <1>4, <1>5, <2>1, <3>2, <4>1, TalkAgreed
        <4> QED BY <3>2, <4>1, <4>2
      <3>3. CASE h # "ChannelCloseOk"
        <4>0. h \notin Asking
          BY <2>1, <3>1, <3>3 DEF Asking
        <4>1. SentOK(Tail(s), c)
          <5> HIDE DEF s, c
          <5> QED BY <1>1, <1>3, <1>5, <4>0, SentLess
        <4>2. Talk(Names(Tail(s)), V, "closing", u)
          <5> HIDE DEF s, c, h, V, u
          <5> QED BY <1>3, <1>4, <1>5, <2>1, <4>0, TalkDropped
        <4> QED BY <2>1, <3>3, <4>1, <4>2
      <3> QED BY <3>2, <3>3
    <2>3. /\ ms \in Seq(Message) /\ (\A y \in Items(ms) : y.ch = id) /\ View(id, ms) = {}
          /\ toClient \o ms = toClient
      BY <1>5, ItemsNone, ConcatEmptySeq DEF View
    <2>4. Talk(Names(Tail(s)), V \cup View(id, ms), b, u) /\ ComingOK(toClient \o ms)
      <3>1. V \cup View(id, ms) = V
        BY <2>3
      <3> QED BY <1>3, <2>2, <2>3, <3>1
    <2>5. UNCHANGED clientVars
      BY <1>1
    <2> HIDE DEF s, u, b, ms, V
    <2> QED BY <1>1, <1>2, <1>5, <2>1, <2>2, <2>3, <2>4, <2>5, OneInStep DEF V, u
  <1> QED BY <1>7, <1>8, <1>9

\* The broker sends a plain method on an open channel, or closes the channel.
LEMMA EmitsAgree ==
  ASSUME TypeOK, AgreeOK, NEW id \in Ids, NEW x \in Message, Emits(x), x.ch = id,
         bchan[id] = "open", UNCHANGED bconn,
         \/ x.m \notin Telling /\ UNCHANGED bchan
         \/ x.m = "ChannelClose" /\ bchan' = [bchan EXCEPT ![id] = "closing"]
  PROVE  AgreeOK'
  <1> SUFFICES ASSUME Talking' PROVE AgreeOK'
    BY DEF AgreeOK
  <1> DEFINE s == toServer[id]
             V == View(id, toClient)
             u == Status(channels[id])
             ms == <<x>>
             b == IF x.m = "ChannelClose" THEN "closing" ELSE "open"
  <1>1. /\ s \in Seq(Message) /\ toClient \in Seq(Message) /\ id # 0
        /\ toServer' = [toServer EXCEPT ![id] = s] /\ toClient' = toClient \o ms
        /\ UNCHANGED <<clientVars, sock, toServer>> /\ UNCHANGED clientVars
    BY SideTypes DEF Emits, TypeOK, AbstractChannelTypeOK
  <1>2. Talking
    BY <1>1 DEF Talking
  <1>3. SentOK(s, "open") /\ Talk(Names(s), V, "open", u) /\ ComingOK(toClient)
    BY <1>1, <1>2 DEF AgreeOK, InStep
  <1>4. Names(s) \cap {"ChannelOpen", "ChannelCloseOk"} = {} /\ SentOK(s, "closing")
    BY <1>1, <1>3, SentOpen
  <1>5. /\ Talk(Names(s), V \cup {x.m}, b, u)
        /\ "ChannelClose" \notin V /\ "ChannelCloseOk" \notin V
    <2>1. CASE x.m = "ChannelClose"
      <3> HIDE DEF s, V, u
      <3> QED BY <1>3, <1>4, <2>1, TalkBrokerCloses
    <2>2. CASE x.m \notin Telling
      <3> HIDE DEF s, V, u
      <3> QED BY <1>3, <1>4, <2>2, TalkPushed DEF Telling
    <2> QED BY <2>1, <2>2
  <1>6. bchan' = [bchan EXCEPT ![id] = b] /\ x.m # "ChannelOpenOk"
    BY DEF TypeOK, BrokerTypeOK, Telling
  <1>7. ms \in Seq(Message) /\ (\A y \in Items(ms) : y.ch = id) /\ View(id, ms) = {x.m}
    BY ItemsFew, ViewOne
  <1>8. ComingOK(toClient \o ms)
    BY <1>1, <1>3, <1>5, <1>6, ComingOne
  <1>9. SentOK(s, b) /\ Talk(Names(s), V \cup View(id, ms), b, u)
    BY <1>3, <1>4, <1>5, <1>7
  <1> HIDE DEF ms, s, b
  <1> QED BY <1>1, <1>2, <1>6, <1>7, <1>8, <1>9, OneInStep

\* A method of the broker on channel 0 concerns no channel.
LEMMA ZeroAgree ==
  ASSUME TypeOK, AgreeOK, NEW x \in Message, Emits(x), x.ch = 0, UNCHANGED <<bconn, bchan>>
  PROVE  AgreeOK'
  <1>1. /\ toClient \in Seq(Message) /\ toClient' = toClient \o <<x>>
        /\ UNCHANGED <<clientVars, sock, toServer>>
    BY DEF Emits, TypeOK, AbstractChannelTypeOK
  <1>2. ASSUME NEW id \in Ids PROVE View(id, toClient') = View(id, toClient)
    <2> DEFINE ms == <<x>>
    <2>1. id # 0
      BY SpecAssumption DEF Ids
    <2>2. View(id, ms) = {}
      BY <2>1, ViewOne
    <2>3. ms \in Seq(Message) /\ toClient' = toClient \o ms
      BY <1>1
    <2> HIDE DEF ms
    <2>4. View(id, toClient \o ms) = View(id, toClient) \cup View(id, ms)
      BY <1>1, <2>3, ViewMove
    <2> QED BY <2>2, <2>3, <2>4
  <1>3. Talking' => Talking
    BY <1>1 DEF Talking
  <1>4. \A id \in Ids : InStep(id) => InStep(id)'
    BY <1>1, <1>2 DEF InStep, Status, clientVars, chanVars
  <1>5. ComingOK(toClient) => ComingOK(toClient')
    BY <1>1, ComingOne
  <1> QED BY <1>1, <1>3, <1>4, <1>5 DEF AgreeOK, clientVars

\* What the broker objects to, other than a consumer tag, is out of order.
LEMMA NoMistake ==
  ASSUME TypeOK, AgreeOK, Talking, NEW id \in Ids, BrokerFails(id)
  PROVE  bconn' = "closing"
  <1> DEFINE s == toServer[id]
             b == bchan[id]
  <1>1. /\ s \in Seq(Message) /\ s # <<>> /\ b \in Broker3 /\ SentOK(s, b)
        /\ Received(id).m = Head(s).m
    BY SideTypes DEF BrokerFails, AgreeOK, InStep, Received
  <1>2. /\ b = "closed" => Head(s).m = "ChannelOpen"
        /\ Head(s).m = "ChannelOpen" => b = "closed"
    <2> HIDE DEF s, b
    <2> QED BY <1>1, SentLess
  <1>3. Received(id).m = "BasicConsume"
    BY <1>1, <1>2 DEF BrokerFails, Mistake
  <1> QED BY <1>3 DEF BrokerFails

\* A step of the broker keeps the two sides in step.
LEMMA BrokerAgrees ==
  ASSUME TypeOK, AgreeOK, BrokerStep
  PROVE  AgreeOK'
  <1>1. ASSUME NEW id \in Ids, BrokerFails(id) PROVE ~Talking'
    BY <1>1 DEF BrokerFails, Talking
  <1>2. BrokerDisconnects => ~Talking'
    BY DEF BrokerDisconnects, Talking
  <1>3. CASE BrokerReceives
    BY <1>1, <1>2, <1>3, BrokerHandles, HandlesAgree, OpensAgree DEF AgreeOK
  <1>4. CASE BrokerEvent
    <2>1. ASSUME NEW x, Emits(x), bconn' # "open" PROVE ~Talking'
      BY <2>1 DEF Talking
    <2>2. ~sock' => ~Talking'
      BY DEF Talking
    <2>3. ASSUME ~Talking' PROVE AgreeOK'
      BY <2>3 DEF AgreeOK
    <2> QED BY <1>4, <2>1, <2>2, <2>3, BrokerEmits, EmitsAgree, ZeroAgree
  <1> QED BY <1>3, <1>4 DEF BrokerStep

\* A step of the broker sends nothing else on channel 0.
LEMMA BrokerControl ==
  ASSUME TypeOK, ControlOK, BrokerStep
  PROVE  ControlOK'
  <1>0. toClient \in Seq(Message) /\ \A id \in Ids : id \in Ids0 /\ id # 0
    BY SpecAssumption DEF TypeOK, AbstractChannelTypeOK, Ids, Ids0
  <1>1. ASSUME NEW ms \in Seq(Message), toClient' = toClient \o ms,
               \A y \in Items(ms) : y.ch = 0 => y.m \in Control
        PROVE  ControlOK'
    <2>1. Items(toClient') = Items(toClient) \cup Items(ms)
      BY <1>0, <1>1, ItemsBoth
    <2> QED BY <1>1, <2>1 DEF ControlOK
  <1>2. ASSUME NEW x \in Message, toClient' = toClient \o <<x>>, x.ch = 0 => x.m \in Control
        PROVE  ControlOK'
    <2> DEFINE ms == <<x>>
    <2>1. ms \in Seq(Message) /\ \A y \in Items(ms) : y = x
      BY ItemsOne
    <2>2. toClient' = toClient \o ms
      BY <1>2
    <2> HIDE DEF ms
    <2> QED BY <1>1, <1>2, <2>1, <2>2
  <1>3. ASSUME toClient' = toClient \o <<>> PROVE ControlOK'
    <2>1. toClient' = toClient
      BY <1>0, <1>3, ConcatEmptySeq
    <2> QED BY <2>1 DEF ControlOK
  <1>4. ASSUME NEW id \in Ids, NEW ms \in Seq(Message), Handles(id, ms) PROVE ControlOK'
    BY <1>0, <1>1, <1>4 DEF Handles, Receives
  <1>5. ASSUME NEW id \in Ids, BrokerOpens(id) \/ BrokerCloses(id) PROVE ControlOK'
    <2>1. PICK m \in {"ChannelOpenOk", "ChannelCloseOk"} :
            toClient' = toClient \o <<Reply(id, m)>> /\ toServer[id] # <<>>
      BY <1>5 DEF BrokerOpens, BrokerCloses, Receives
    <2>2. Reply(id, m) \in Message /\ Reply(id, m).ch = id
      BY <1>0, <2>1, ReplyType, ReplyFields, RepliesFacts, MethodsFacts
    <2> QED BY <1>0, <1>2, <2>1, <2>2
  <1>6. ASSUME NEW id \in Ids, BrokerDrops(id) PROVE ControlOK'
    BY <1>3, <1>6 DEF BrokerDrops, Receives
  <1>7. ASSUME NEW id \in Ids, BrokerFails(id) PROVE ControlOK'
    <2> DEFINE x == Msg(0, "ConnectionClose", 0)
    <2>1. x \in Message /\ x.m = "ConnectionClose"
      BY SpecAssumption, MsgType, MethodsFacts DEF Msg, Ids0
    <2>2. toClient' = toClient \o <<x>>
      BY <1>7 DEF BrokerFails, Receives
    <2> HIDE DEF x
    <2> QED BY <1>2, <2>1, <2>2 DEF Control
  <1>8. CASE BrokerDisconnects
    <2>1. /\ 0 \in Ids0 /\ toServer[0] # <<>>
          /\ toClient' = toClient \o (IF Received(0).m = "ConnectionClose"
                                     THEN <<Reply(0, "ConnectionCloseOk")>> ELSE <<>>)
      BY <1>8, SpecAssumption DEF BrokerDisconnects, Receives, Ids0
    <2>2. /\ Reply(0, "ConnectionCloseOk") \in Message
          /\ Reply(0, "ConnectionCloseOk").m = "ConnectionCloseOk"
      BY <2>1, ReplyType, ReplyFields, RepliesFacts, MethodsFacts
    <2>3. CASE Received(0).m = "ConnectionClose"
      BY <1>2, <2>1, <2>2, <2>3 DEF Control
    <2>4. CASE Received(0).m # "ConnectionClose"
      BY <1>3, <2>1, <2>4
    <2> QED BY <2>3, <2>4
  <1>9. CASE BrokerReceives
    BY <1>4, <1>5, <1>6, <1>7, <1>8, <1>9, BrokerHandles
  <1>10. CASE BrokerEvent
    <2>1. ASSUME NEW x \in Message, Emits(x), x.ch \in Ids \/ x.m \in Control PROVE ControlOK'
      BY <1>0, <1>2, <2>1 DEF Emits
    <2>2. ASSUME Items(toClient') \subseteq Items(toClient) PROVE ControlOK'
      BY <2>2 DEF ControlOK
    <2> QED BY <1>10, <2>1, <2>2, BrokerEmits DEF Control
  <1> QED BY <1>9, <1>10 DEF BrokerStep

-----------------------------------------------------------------------------
(* The steps of the client that open and close nothing.                    *)

(* What is read is plain, or read for an object that has no use for it.    *)
Reads ==
  \/ UNCHANGED toClient
  \/ /\ Takes
     /\ \/ In.ch = 0 \/ In.m \notin Telling \/ Target = 0 \/ ~connection[Target]
        \/ is_closing[Target] /\ In.m = "ChannelOpenOk"

(* What is sent is plain, and sent on a channel that may be used.          *)
Sends ==
  \/ UNCHANGED toServer
  \/ \E c \in Chan, x \in Message :
       /\ connection[c] /\ ~is_closing[c] /\ x.m \notin Asking
       /\ toServer' = [toServer EXCEPT ![channel_id[c]] = @ \o <<x>>]

\* What has been read leaves the two sides in step.
LEMMA ReadsAgree ==
  ASSUME TypeOK, AgreeOK, Talking, Reads
  PROVE  /\ ComingOK(toClient')
         /\ \A id \in Ids : Talk(Names(toServer[id]), View(id, toClient'), bchan[id],
                                 Status(channels[id]))
  <1>1. CASE UNCHANGED toClient
    BY <1>1 DEF AgreeOK, InStep
  <1>2. CASE toClient' # toClient
    <2>1. /\ Takes /\ toClient \in Seq(Message) /\ toClient # <<>> /\ toClient' = Tail(toClient)
          /\ In = Head(toClient)
      BY <1>2 DEF Reads, Takes, TypeOK, AbstractChannelTypeOK, In
    <2>2. ComingOK(toClient)
      BY DEF AgreeOK
    <2>3. ASSUME NEW id \in Ids
          PROVE  Talk(Names(toServer[id]), View(id, toClient'), bchan[id], Status(channels[id]))
      <3> DEFINE N == Names(toServer[id])
                 V == View(id, toClient)
                 W == View(id, toClient')
                 b == bchan[id]
                 u == Status(channels[id])
                 h == In.m
      <3>0. id # 0 /\ b \in Broker3 /\ Talk(N, V, b, u)
        BY SideTypes DEF AgreeOK, InStep
      <3>1. CASE In.ch # id
        <4>1. W = V
          BY <2>1, <3>1, ViewMove
        <4> HIDE DEF W, V
        <4> QED BY <3>0, <4>1 DEF W, V
      <3>2. CASE In.ch = id
        <4>1. W \subseteq V /\ h \in V /\ V \subseteq W \cup {h}
          BY <2>1, <3>2, ViewMove
        <4>2. /\ h = "ChannelCloseOk" => W = {}
              /\ h = "ChannelClose" => W \subseteq {"ChannelCloseOk"}
          BY <2>1, <2>2, <3>0, <3>2, ComingTaken
        <4>3. Target = channels[id]
          BY <3>0, <3>2 DEF Target
        <4>4. h \notin Telling \/ u = "gone" \/ (u = "closing" /\ h = "ChannelOpenOk") \/ u = "none"
          BY <1>2, <3>0, <3>2, <4>3 DEF Reads, Status
        <4> HIDE DEF N, V, W, b, u, h
        <4>5. Talk(N, W, b, u)
          BY <3>0, <4>1, <4>2, <4>4, TalkTake
        <4> QED BY <4>5 DEF N, W, b, u
      <3> QED BY <3>1, <3>2
    <2> QED BY <2>1, <2>2, <2>3, ComingTaken
  <1> QED BY <1>1, <1>2

\* The object that has a connection is the one registered for its id.
LEMMA OwnStatus ==
  ASSUME IdsConsistent, NEW c \in Chan, connection[c]
  PROVE  /\ channel_id[c] \in Ids /\ channels[channel_id[c]] = c /\ c # 0
         /\ Status(c) = IF is_closing[c] THEN "closing"
                        ELSE IF is_open[c] THEN "open" ELSE "opening"
  <1>1. c # 0
    BY DEF Chan
  <1> QED BY <1>1 DEF IdsConsistent, Status

\* A step that opens and closes nothing leaves the two sides in step.
LEMMA PlainAgrees ==
  ASSUME TypeOK, IdsConsistent, AgreeOK, UNCHANGED <<sock, bconn, bchan>>,
         is_closing'[0] => is_closing[0],
         \A id \in Ids : Status(channels[id])' = Status(channels[id]), Sends, Reads
  PROVE  AgreeOK'
  <1> SUFFICES ASSUME Talking' PROVE AgreeOK'
    BY DEF AgreeOK
  <1>0. 0 \in Ids0 /\ 0 \notin Ids /\ toServer \in [Ids0 -> Seq(Message)] /\ Ids \subseteq Ids0
    BY SpecAssumption DEF TypeOK, AbstractChannelTypeOK, Ids, Ids0
  <1>1. CASE UNCHANGED toServer
    <2>1. Talking
      BY <1>1 DEF Talking
    <2>2. /\ ComingOK(toClient')
          /\ \A id \in Ids : Talk(Names(toServer[id]), View(id, toClient'), bchan[id],
                                  Status(channels[id]))
      BY <2>1, ReadsAgree
    <2>3. \A id \in Ids : SentOK(toServer[id], bchan[id])
      BY <2>1 DEF AgreeOK, InStep
    <2> QED BY <1>1, <2>1, <2>2, <2>3 DEF AgreeOK, InStep
  <1>2. ASSUME NEW c \in Chan, NEW x \in Message, connection[c], ~is_closing[c], x.m \notin Asking,
               toServer' = [toServer EXCEPT ![channel_id[c]] = @ \o <<x>>]
        PROVE  AgreeOK'
    <2>0. PICK k \in Ids : k = channel_id[c] /\ Status(channels[k]) \in {"opening", "open"}
      BY <1>2, OwnStatus
    <2> DEFINE s == toServer[k]
               b == bchan[k]
               V == View(k, toClient')
               u == Status(channels[k])
               N == Names(s)
               t == s \o <<x>>
    <2>1. u \in {"opening", "open"}
      BY <2>0
    <2>2. /\ toServer'[0] = toServer[0]
          /\ \A id \in Ids : toServer'[id] = IF id = k THEN t ELSE toServer[id]
      BY <1>0, <1>2, <2>0
    <2>3. Talking
      BY <2>2 DEF Talking
    <2>4. /\ ComingOK(toClient')
          /\ \A id \in Ids : Talk(Names(toServer[id]), View(id, toClient'), bchan[id],
                                  Status(channels[id]))
      BY <2>3, ReadsAgree
    <2>5. \A id \in Ids : SentOK(toServer[id], bchan[id])
      BY <2>3 DEF AgreeOK, InStep
    <2>6. s \in Seq(Message) /\ b \in Broker3 /\ SentOK(s, b) /\ Talk(N, V, b, u)
      BY <1>0, <2>1, <2>4, <2>5, SideTypes
    <2>7. SentOK(t, b) /\ Names(t) = N \cup {x.m}
      <3> HIDE DEF s, b, V, u
      <3> QED BY <1>2, <2>1, <2>6, SentPlain, NamesMove
    <2>8. Talk(N \cup {x.m}, V, b, u)
      <3> HIDE DEF s, b, V, u, N
      <3> QED BY <1>2, <2>1, <2>6, TalkSend
    <2>9. InStep(k)'
      <3> HIDE DEF t
      <3> QED BY <2>1, <2>2, <2>7, <2>8 DEF InStep
    <2>10. ASSUME NEW id \in Ids, id # k PROVE InStep(id)'
      BY <2>2, <2>4, <2>5, <2>10 DEF InStep
    <2> QED BY <2>3, <2>4, <2>9, <2>10 DEF AgreeOK
  <1> QED BY <1>1, <1>2 DEF Sends

-----------------------------------------------------------------------------
(* The steps of the client that open or close a channel.                   *)

\* What comes for an id, when a method of its is taken.
LEMMA TakenFor ==
  ASSUME TypeOK, AgreeOK, Talking, Takes, NEW k \in Ids, In.ch = k
  PROVE  LET V == View(k, toClient) W == View(k, toClient') IN
         /\ W \subseteq V /\ In.m \in V /\ V \subseteq W \cup {In.m}
         /\ "ChannelOpenOk" \notin W
         /\ In.m = "ChannelCloseOk" => W = {}
         /\ In.m = "ChannelClose" => W \subseteq {"ChannelCloseOk"}
  <1>1. /\ toClient \in Seq(Message) /\ toClient # <<>> /\ toClient' = Tail(toClient)
        /\ In = Head(toClient) /\ ComingOK(toClient) /\ k # 0
    BY SideTypes DEF Takes, TypeOK, AbstractChannelTypeOK, In, AgreeOK
  <1> QED BY <1>1, ViewMove, ComingTaken

\* A step that concerns the channel of one id, and leaves it in step.
LEMMA OneMoves ==
  ASSUME TypeOK, AgreeOK, UNCHANGED <<sock, bconn, bchan>>, is_closing'[0] => is_closing[0],
         NEW k \in Ids, NEW t \in Seq(Message), toServer' = [toServer EXCEPT ![k] = t],
         UNCHANGED toClient \/ (Takes /\ In.ch = k),
         \A id \in Ids \ {k} : Status(channels[id])' = Status(channels[id]),
         Talking => /\ SentOK(t, bchan[k])
                    /\ Talk(Names(t), View(k, toClient'), bchan[k], Status(channels[k])')
  PROVE  AgreeOK'
  <1> SUFFICES ASSUME Talking' PROVE AgreeOK'
    BY DEF AgreeOK
  <1>0. 0 \in Ids0 /\ k # 0 /\ k \in Ids0 /\ toServer \in [Ids0 -> Seq(Message)]
        /\ Ids \subseteq Ids0 /\ toClient \in Seq(Message)
    BY SpecAssumption DEF TypeOK, AbstractChannelTypeOK, Ids, Ids0
  <1>1. /\ toServer'[0] = toServer[0] /\ toServer'[k] = t
        /\ \A id \in Ids \ {k} : toServer'[id] = toServer[id]
    BY <1>0
  <1>2. Talking
    BY <1>1 DEF Talking
  <1>3. ComingOK(toClient) /\ \A id \in Ids : InStep(id)
    BY <1>2 DEF AgreeOK
  <1>4. Takes => toClient # <<>> /\ toClient' = Tail(toClient) /\ In = Head(toClient)
    BY DEF Takes, In
  <1>5. ComingOK(toClient')
    BY <1>0, <1>3, <1>4, ComingTaken
  <1>6. \A id \in Ids \ {k} : View(id, toClient') = View(id, toClient)
    BY <1>0, <1>4, ViewMove
  <1>7. ASSUME NEW id \in Ids, id # k PROVE InStep(id)'
    BY <1>1, <1>3, <1>6, <1>7 DEF InStep
  <1>8. InStep(k)'
    BY <1>1, <1>2 DEF InStep
  <1> QED BY <1>2, <1>5, <1>7, <1>8 DEF AgreeOK

\* A step that concerns one object does not concern the others.
LEMMA OtherStatus ==
  ASSUME TypeOK, NEW k, NEW c,
         \A id \in Ids \ {k} : channels'[id] = channels[id] /\ channels[id] # c,
         \A d \in Chan \ {c} : /\ connection'[d] = connection[d] /\ is_open'[d] = is_open[d]
                               /\ is_closing'[d] = is_closing[d]
  PROVE  \A id \in Ids \ {k} : Status(channels[id])' = Status(channels[id])
  <1> SUFFICES ASSUME NEW id \in Ids \ {k} PROVE Status(channels[id])' = Status(channels[id])
    OBVIOUS
  <1>1. channels'[id] = channels[id] /\ channels[id] # c /\ channels[id] \in Obj
    BY DEF TypeOK, AbstractChannelTypeOK
  <1>2. channels[id] # 0 => channels[id] \in Chan \ {c}
    BY <1>1 DEF Obj, Chan
  <1> QED BY <1>1, <1>2 DEF Status

\* The object that is registered for an id is registered for no other.
LEMMA OnlyHere ==
  ASSUME RegistryOK, NEW k \in Ids, channels[k] # 0
  PROVE  \A id \in Ids \ {k} : channels[id] # channels[k]
  BY DEF RegistryOK

\* close() ends, with or without the answer: the object is cut off.
LEMMA FinallyAgrees ==
  ASSUME TypeOK, IdsConsistent, RegistryOK, AgreeOK, NEW c \in Chan, CloseFinally(c),
         UNCHANGED <<channels, is_open, sock, bconn, bchan, toServer, toClient>>
  PROVE  AgreeOK'
  <1>0. c # 0 /\ 0 \in Obj /\ c \in Obj
    BY SpecAssumption DEF Chan, Obj
  <1>1. /\ is_closing'[0] = is_closing[0] /\ ~connection'[c]
        /\ \A d \in Chan \ {c} : /\ connection'[d] = connection[d] /\ is_open'[d] = is_open[d]
                                 /\ is_closing'[d] = is_closing[d]
    BY <1>0, ObjFacts DEF CloseFinally, TypeOK, AbstractChannelTypeOK
  <1>2. CASE ~connection[c]
    <2>1. ASSUME NEW id \in Ids PROVE Status(channels[id])' = Status(channels[id])
      <3>1. channels[id] \in Obj /\ channels'[id] = channels[id]
        BY DEF TypeOK, AbstractChannelTypeOK
      <3>2. channels[id] \in Chan \ {c} \/ channels[id] \in {0, c}
        BY <3>1 DEF Obj, Chan
      <3> QED BY <1>0, <1>1, <1>2, <3>1, <3>2 DEF Status
    <2> QED BY <1>1, <2>1, PlainAgrees DEF Sends, Reads
  <1>3. CASE connection[c]
    <2>1. PICK k \in Ids : channels[k] = c
      BY <1>3, OwnStatus
    <2>2. \A id \in Ids \ {k} : Status(channels[id])' = Status(channels[id])
      BY <1>0, <1>1, <2>1, OnlyHere, OtherStatus
    <2>3. Status(channels[k]) # "none" /\ Status(channels[k])' = "gone"
      BY <1>0, <1>1, <2>1 DEF Status
    <2>4. toServer[k] \in Seq(Message) /\ bchan[k] \in Broker3
      BY SideTypes
    <2>5. toServer' = [toServer EXCEPT ![k] = toServer[k]]
      BY DEF TypeOK, AbstractChannelTypeOK
    <2>6. ASSUME Talking
          PROVE  /\ SentOK(toServer[k], bchan[k])
                 /\ Talk(Names(toServer[k]), View(k, toClient'), bchan[k], "gone")
      BY <2>3, <2>4, <2>6, TalkGone DEF AgreeOK, InStep
    <2> QED BY <1>1, <2>2, <2>3, <2>4, <2>5, <2>6, OneMoves
  <1> QED BY <1>2, <1>3

\* close(): Close is sent, or close() ends at once.
LEMMA CloseAgrees ==
  ASSUME TypeOK, Orderly, IdsConsistent, RegistryOK, AgreeOK, NEW c \in Chan, Channel_close(c),
         UNCHANGED <<bconn, bchan>>
  PROVE  AgreeOK'
  <1>0. c # 0 /\ 0 \in Obj /\ c \in Obj /\ ~is_closing[c]
    BY SpecAssumption DEF Chan, Obj, Channel_close, AppCalls, Orderly
  <1>1. CASE CloseFinally(c) /\ UNCHANGED toServer
    BY <1>1, FinallyAgrees DEF Channel_close, chanVars
  <1> DEFINE req == Msg(channel_id[c], "ChannelClose", calls + 1)
  <1>2. CASE /\ is_open[c] /\ send_method(c, <<req>>)
             /\ is_closing' = [is_closing EXCEPT ![c] = TRUE] /\ UNCHANGED connection
    <2>1. PICK k \in Ids : k = channel_id[c] /\ channels[k] = c /\ Status(channels[k]) = "open"
      BY <1>0, <1>2, OwnStatus DEF send_method
    <2>2. /\ is_closing'[0] = is_closing[0] /\ is_closing'[c] /\ connection'[c]
          /\ UNCHANGED <<channels, sock, toClient>>
          /\ \A d \in Chan \ {c} : /\ connection'[d] = connection[d] /\ is_open'[d] = is_open[d]
                                   /\ is_closing'[d] = is_closing[d]
      <3>1. UNCHANGED <<channels, sock, toClient, is_open, connection>> /\ connection[c]
        BY <1>2 DEF Channel_close, send_method, chanVars
      <3> QED BY <1>0, <1>2, <3>1, ObjFacts DEF TypeOK, AbstractChannelTypeOK
    <2>3. \A id \in Ids \ {k} : Status(channels[id])' = Status(channels[id])
      BY <1>0, <2>1, <2>2, OnlyHere, OtherStatus
    <2>4. Status(channels[k])' = "closing"
      BY <1>0, <2>1, <2>2 DEF Status
    <2>5. req \in Message /\ req.m = "ChannelClose"
      BY <1>0, RequestType, MethodsFacts DEF Msg, TypeOK
    <2> HIDE DEF req
    <2> DEFINE s == toServer[k]
               t == s \o <<req>>
               N == Names(s)
               V == View(k, toClient)
               b == bchan[k]
    <2>6. s \in Seq(Message) /\ b \in Broker3 /\ toServer' = [toServer EXCEPT ![k] = t]
      BY <1>2, <2>1, SideTypes DEF send_method
    <2>7. t \in Seq(Message) /\ Names(t) = N \cup {"ChannelClose"}
      <3> HIDE DEF s
      <3> QED BY <2>5, <2>6, OneMore, NamesMove
    <2>8. ASSUME Talking PROVE SentOK(t, b) /\ Talk(Names(t), V, b, "closing")
      <3>1. SentOK(s, b) /\ Talk(N, V, b, "open")
        BY <2>1, <2>8 DEF AgreeOK, InStep
      <3>2. SentOK(t, b)
        <4> HIDE DEF s, b, V
        <4> QED BY <2>5, <2>6, <3>1, SentClose
      <3>3. Talk(N \cup {"ChannelClose"}, V, b, "closing")
        <4> HIDE DEF N, b, V
        <4> QED BY <2>6, <3>1, TalkClose
      <3> HIDE DEF t
      <3> QED BY <2>7, <3>2, <3>3
    <2> HIDE DEF t, s
    <2> QED BY <2>2, <2>3, <2>4, <2>6, <2>7, <2>8, OneMoves
  <1> QED BY <1>1, <1>2 DEF Channel_close, send_method_raises

\* The channel that a method about channels is dispatched to.
LEMMA DispatchedTo ==
  ASSUME TypeOK, ControlOK, NEW m, Dispatches(m), m \notin Control
  PROVE  /\ Takes /\ In.m = m /\ In.ch \in Ids /\ Target = channels[In.ch]
         /\ Target \in Chan /\ Target # 0 /\ toClient' = Tail(toClient)
  <1>1. /\ Takes /\ In.m = m /\ (In.ch # 0 => Target # 0)
        /\ toClient \in Seq(Message) /\ toClient # <<>> /\ toClient' = Tail(toClient)
        /\ In = Head(toClient)
    BY DEF Dispatches, Takes, In, TypeOK, AbstractChannelTypeOK
  <1>2. In \in Items(toClient)
    BY <1>1, ItemsTail
  <1>3. In.ch # 0
    BY <1>1, <1>2 DEF ControlOK
  <1>4. In.ch \in Ids0 /\ Target \in Obj
    BY <1>1, InType DEF TypeOK
  <1> QED BY <1>1, <1>3, <1>4, SpecAssumption DEF Ids, Ids0, Obj, Chan, Target

\* Open-Ok of a channel.
LEMMA OpenedAgrees ==
  ASSUME TypeOK, ControlOK, RegistryOK, IdsConsistent, AgreeOK, Channel_on_open_ok,
         UNCHANGED <<bconn, bchan>>
  PROVE  AgreeOK'
  <1>1. /\ UNCHANGED <<channels, connection, is_closing, sock, toServer>>
        /\ is_open' = [is_open EXCEPT ![Target] = TRUE]
        /\ Dispatches("ChannelOpenOk")
    BY DEF Channel_on_open_ok
  <1>2. PICK k \in Ids : In.ch = k /\ Target = channels[k] /\ Target \in Chan /\ Target # 0
                         /\ Takes /\ In.m = "ChannelOpenOk"
    BY <1>1, DispatchedTo DEF Control
  <1>3. ~is_closing[Target]
    BY <1>1 DEF Dispatches, AllowedWhenClosing
  <1>4. PICK c \in Chan : c = Target
    BY <1>2
  <1>5. is_open'[c] /\ \A d \in Chan \ {c} : is_open'[d] = is_open[d]
    BY <1>1, <1>4 DEF TypeOK, ChannelTypeOK
  <1>6. \A id \in Ids \ {k} : Status(channels[id])' = Status(channels[id])
    <2>1. \A id \in Ids \ {k} : channels'[id] = channels[id] /\ channels[id] # c
      BY <1>1, <1>2, <1>4, OnlyHere
    <2>2. \A d \in Chan \ {c} : /\ connection'[d] = connection[d] /\ is_open'[d] = is_open[d]
                                 /\ is_closing'[d] = is_closing[d]
      BY <1>1, <1>5
    <2> QED BY <2>1, <2>2, OtherStatus
  <1>7. CASE ~connection[c]
    <2>1. Status(channels[k])' = Status(channels[k])
      BY <1>1, <1>2, <1>4, <1>7 DEF Status
    <2>2. Sends /\ Reads
      BY <1>1, <1>2, <1>4, <1>7 DEF Sends, Reads
    <2> QED BY <1>1, <1>6, <2>1, <2>2, PlainAgrees
  <1>8. CASE connection[c]
    <2>1. Status(channels[k]) \in {"opening", "open"} /\ Status(channels[k])' = "open"
      BY <1>1, <1>2, <1>3, <1>4, <1>5, <1>8 DEF Status
    <2> DEFINE s == toServer[k]
               N == Names(s)
               V == View(k, toClient)
               W == View(k, toClient')
               b == bchan[k]
               u == Status(channels[k])
    <2>2. s \in Seq(Message) /\ b \in Broker3 /\ toServer' = [toServer EXCEPT ![k] = s]
      BY <1>1, SideTypes DEF TypeOK, AbstractChannelTypeOK
    <2>3. ASSUME Talking PROVE SentOK(s, b) /\ Talk(N, W, b, "open")
      <3>1. SentOK(s, b) /\ Talk(N, V, b, u)
        BY <2>3 DEF AgreeOK, InStep
      <3>2. /\ W \subseteq V /\ "ChannelOpenOk" \in V /\ V \subseteq W \cup {"ChannelOpenOk"}
            /\ "ChannelOpenOk" \notin W
        BY <1>2, <2>3, TakenFor
      <3> HIDE DEF N, V, W, b, u
      <3>3. Talk(N, W, b, "open")
        BY <2>1, <2>2, <3>1, <3>2, TalkOpened DEF u
      <3> QED BY <3>1, <3>3
    <2> HIDE DEF s
    <2> QED BY <1>1, <1>2, <1>6, <2>1, <2>2, <2>3, OneMoves DEF s
  <1> QED BY <1>7, <1>8

\* Close-Ok of a channel: its id is free again.
LEMMA ClosedAgrees ==
  ASSUME TypeOK, ControlOK, RegistryOK, IdsConsistent, AgreeOK, Channel_on_close_ok,
         UNCHANGED <<bconn, bchan>>
  PROVE  AgreeOK'
  <1>1. /\ UNCHANGED <<is_closing, sock, toServer>> /\ Channel_collect(Target)
        /\ Dispatches("ChannelCloseOk")
    BY DEF Channel_on_close_ok
  <1>2. PICK k \in Ids : In.ch = k /\ Target = channels[k] /\ Target \in Chan /\ Target # 0
                         /\ Takes /\ In.m = "ChannelCloseOk"
    BY <1>1, DispatchedTo DEF Control
  <1>3. PICK c \in Chan : c = Target
    BY <1>2
  <1>4. /\ is_open' = [d \in Chan |-> d \notin {c} /\ is_open[d]]
        /\ connection' = [connection EXCEPT ![c] = FALSE]
        /\ channels' = [id \in Ids |-> IF id \in Freed({c}) THEN 0 ELSE channels[id]]
    BY <1>1, <1>3 DEF Channel_collect, Cleared
  <1>5. /\ ~connection'[c]
        /\ \A d \in Chan \ {c} : is_open'[d] = is_open[d] /\ connection'[d] = connection[d]
    BY <1>4, ObjFacts DEF TypeOK, AbstractChannelTypeOK, ChannelTypeOK
  <1>6. CASE ~connection[c]
    <2>1. Freed({c}) = {}
      BY <1>6 DEF Freed
    <2>2. channels' = channels
      BY <1>4, <2>1 DEF TypeOK, AbstractChannelTypeOK
    <2>3. \A id \in Ids \ {k} : Status(channels[id])' = Status(channels[id])
      BY <1>1, <1>2, <1>3, <1>5, <2>2, OnlyHere, OtherStatus
    <2>4. Status(channels[k])' = Status(channels[k])
      BY <1>2, <1>3, <1>5, <1>6, <2>2 DEF Status
    <2>5. Sends /\ Reads
      BY <1>1, <1>2, <1>3, <1>6 DEF Sends, Reads
    <2> QED BY <1>1, <2>3, <2>4, <2>5, PlainAgrees
  <1>7. CASE connection[c]
    <2>0. channel_id[c] = k
      BY <1>2, <1>3, <1>7, OwnStatus DEF RegistryOK
    <2>1. Freed({c}) = {k}
      BY <1>7, <2>0 DEF Freed
    <2>2. channels'[k] = 0 /\ \A id \in Ids \ {k} : channels'[id] = channels[id]
      BY <1>4, <2>1
    <2>3. \A id \in Ids \ {k} : Status(channels[id])' = Status(channels[id])
      BY <1>1, <1>2, <1>3, <1>5, <2>2, OnlyHere, OtherStatus
    <2>4. Status(channels[k]) # "gone" /\ Status(channels[k])' = "none"
      BY <1>2, <1>3, <1>7, <2>2 DEF Status
    <2> DEFINE s == toServer[k]
               N == Names(s)
               V == View(k, toClient)
               W == View(k, toClient')
               b == bchan[k]
               u == Status(channels[k])
    <2>5. s \in Seq(Message) /\ b \in Broker3 /\ toServer' = [toServer EXCEPT ![k] = s]
      BY <1>1, SideTypes DEF TypeOK, AbstractChannelTypeOK
    <2>6. ASSUME Talking PROVE SentOK(s, b) /\ Talk(N, W, b, "none")
      <3>1. SentOK(s, b) /\ Talk(N, V, b, u)
        BY <2>6 DEF AgreeOK, InStep
      <3>2. W = {} /\ "ChannelCloseOk" \in V /\ V \subseteq W \cup {"ChannelCloseOk"}
        BY <1>2, <2>6, TakenFor
      <3>3. u # "gone"
        BY <2>4
      <3> HIDE DEF N, V, W, b, u
      <3>4. Talk(N, {}, b, "none")
        BY <2>5, <3>1, <3>2, <3>3, TalkClosed
      <3> QED BY <3>1, <3>2, <3>4
    <2> HIDE DEF s
    <2> QED BY <1>1, <1>2, <2>3, <2>4, <2>5, <2>6, OneMoves DEF s
  <1> QED BY <1>6, <1>7

\* Close of a channel, by the broker: the client agrees, and opens it again.
LEMMA BrokerClosedAgrees ==
  ASSUME TypeOK, ControlOK, RegistryOK, IdsConsistent, AgreeOK, Channel_on_close,
         UNCHANGED <<bconn, bchan>>
  PROVE  AgreeOK'
  <1> SUFFICES ASSUME Talking' PROVE AgreeOK'
    BY DEF AgreeOK
  <1>1. /\ UNCHANGED <<channels, channel_id, connection, is_closing, sock>>
        /\ Dispatches("ChannelClose")
    BY DEF Channel_on_close
  <1>2. PICK k \in Ids : In.ch = k /\ Target = channels[k] /\ Target \in Chan /\ Target # 0
                         /\ Takes /\ In.m = "ChannelClose"
    BY <1>1, DispatchedTo DEF Control
  <1>3. PICK c \in Chan : c = Target
    BY <1>2
  <1>4. sock
    BY <1>1 DEF Talking
  <1>5. CASE ~connection[c]
    <2>1. UNCHANGED <<toServer, is_open>>
      BY <1>3, <1>5 DEF Channel_on_close, send_method_raises, Agrees, do_revive, send_method
    <2>2. \A id \in Ids : Status(channels[id])' = Status(channels[id])
      BY <1>1, <2>1 DEF Status
    <2>3. Sends /\ Reads
      BY <1>2, <1>3, <1>5, <2>1 DEF Sends, Reads
    <2> QED BY <1>1, <2>2, <2>3, PlainAgrees
  <1>6. CASE connection[c]
    <2> DEFINE agreed == Agreed(c)
               reopen == Msg(channel_id[c], "ChannelOpen", 0)
               s == toServer[k]
               N == Names(s)
               V == View(k, toClient)
               W == View(k, toClient')
               b == bchan[k]
               u == Status(channels[k])
    <2>1. channel_id[c] = k /\ k # 0
      BY <1>2, <1>3, <1>6, OwnStatus, SideTypes DEF RegistryOK
    <2>2. /\ agreed \in Message /\ reopen \in Message
          /\ agreed.m = "ChannelCloseOk" /\ reopen.m = "ChannelOpen"
      BY ObjFacts, RequestType, MethodsFacts DEF Agreed, Msg, TypeOK
    <2>3. \/ /\ is_closing[0] \/ is_closing[c]
             /\ toServer' = [toServer EXCEPT ![k] = @ \o <<agreed>>]
             /\ UNCHANGED is_open
          \/ /\ ~is_closing[c]
             /\ toServer' = [toServer EXCEPT ![k] = @ \o <<agreed, reopen>>]
             /\ is_open' = [is_open EXCEPT ![c] = FALSE]
      BY <1>3, <1>4, <1>6, <2>1
         DEF Channel_on_close, send_method_raises, Agrees, do_revive, send_method
    <2>4. Talking
      <3>1. toServer'[0] = toServer[0]
        BY <2>1, <2>3, SpecAssumption DEF TypeOK, AbstractChannelTypeOK, Ids0
      <3> QED BY <1>1, <3>1 DEF Talking
    <2>5. /\ s \in Seq(Message) /\ b \in Broker3 /\ SentOK(s, b) /\ Talk(N, V, b, u)
          /\ ~is_closing[0]
      BY <2>4, SideTypes DEF AgreeOK, InStep
    <2>6. /\ W \subseteq V /\ "ChannelClose" \in V /\ V \subseteq W \cup {"ChannelClose"}
          /\ W \subseteq {"ChannelCloseOk"}
      BY <1>2, <2>4, TakenFor
    <2>7. UNCHANGED toClient \/ (Takes /\ In.ch = k)
      BY <1>2
    <2> HIDE DEF agreed, reopen
    <2>8. CASE /\ is_closing[0] \/ is_closing[c]
               /\ toServer' = [toServer EXCEPT ![k] = @ \o <<agreed>>]
               /\ UNCHANGED is_open
      <3> DEFINE t == s \o <<agreed>>
      <3>1. \A id \in Ids : Status(channels[id])' = Status(channels[id])
        BY <1>1, <2>8 DEF Status
      <3>2. u = "closing"
        BY <1>2, <1>3, <1>6, <2>5, <2>8 DEF Status
      <3>3. t \in Seq(Message) /\ Names(t) = N \cup {"ChannelCloseOk"} /\ SentOK(t, b)
        <4> HIDE DEF s, b, u, V
        <4> QED BY <2>2, <2>5, <2>6, OneMore, NamesMove, SentAgree
      <3>4. Talk(N \cup {"ChannelCloseOk"}, W, b, "closing")
        <4> HIDE DEF N, V, W, b
        <4> QED BY <2>5, <2>6, <3>2, TalkAgree
      <3>5. toServer' = [toServer EXCEPT ![k] = t]
        BY <2>8
      <3>6. Status(channels[k])' = "closing"
        BY <3>1, <3>2
      <3>7. SentOK(t, b) /\ Talk(Names(t), W, b, Status(channels[k])')
        <4> HIDE DEF t, N, W, b
        <4> QED BY <3>3, <3>4, <3>6
      <3> HIDE DEF t
      <3> QED BY <1>1, <2>7, <3>1, <3>3, <3>5, <3>7, OneMoves
    <2>9. CASE /\ ~is_closing[c]
               /\ toServer' = [toServer EXCEPT ![k] = @ \o <<agreed, reopen>>]
               /\ is_open' = [is_open EXCEPT ![c] = FALSE]
      <3> DEFINE ms == <<agreed, reopen>>
                 t == s \o ms
      <3>0. ~is_open'[c] /\ \A d \in Chan \ {c} : is_open'[d] = is_open[d]
        BY <2>9 DEF TypeOK, ChannelTypeOK
      <3>1. \A id \in Ids \ {k} : Status(channels[id])' = Status(channels[id])
        <4>1. \A id \in Ids \ {k} : channels'[id] = channels[id] /\ channels[id] # c
          BY <1>1, <1>2, <1>3, OnlyHere
        <4>2. \A d \in Chan \ {c} : /\ connection'[d] = connection[d] /\ is_open'[d] = is_open[d]
                                    /\ is_closing'[d] = is_closing[d]
          BY <1>1, <3>0
        <4> QED BY <4>1, <4>2, OtherStatus
      <3>2. u \in {"opening", "open"} /\ Status(channels[k])' = "opening"
        BY <1>1, <1>2, <1>3, <1>6, <2>9, <3>0 DEF Status
      <3>3. Names(t) = N \cup {"ChannelCloseOk", "ChannelOpen"} /\ SentOK(t, b)
        <4> HIDE DEF s, b, u, V
        <4> QED BY <2>2, <2>5, <2>6, <3>2, NamesMove, SentRevive
      <3>4. Talk(N \cup {"ChannelCloseOk", "ChannelOpen"}, W, b, "opening")
        <4>1. Talk(N, V, b, u) /\ b \in Broker3 /\ u \in {"opening", "open"}
          BY <2>5, <3>2
        <4> HIDE DEF N, V, W, b, u
        <4>2. W = {} /\ Talk(N \cup {"ChannelCloseOk", "ChannelOpen"}, W, b, "opening")
          BY <2>6, <4>1 DEF Talk, Asking, Telling, Broker3
        <4> QED BY <4>2
      <3>5. toServer' = [toServer EXCEPT ![k] = t]
        BY <2>9
      <3>6. t \in Seq(Message)
        <4>1. ms \in Seq(Message)
          BY <2>2, ItemsFew
        <4> HIDE DEF ms, s
        <4> QED BY <2>5, <4>1, ConcatProperties
      <3>7. SentOK(t, b) /\ Talk(Names(t), W, b, Status(channels[k])')
        <4> HIDE DEF t, N, W, b
        <4> QED BY <3>2, <3>3, <3>4
      <3> HIDE DEF t
      <3> QED BY <1>1, <2>7, <3>1, <3>5, <3>6, <3>7, OneMoves
    <2> QED BY <2>3, <2>8, <2>9
  <1> QED BY <1>5, <1>6

(* An object that has not been created is neither open nor being closed.   *)
NewOK == \A c \in Chan : c > created => ~is_open[c] /\ ~is_closing[c]

\* A channel is opened on an id that is free.
LEMMA NewAgrees ==
  ASSUME TypeOK, RegistryOK, IdsConsistent, NewOK, AgreeOK, NEW k \in Ids \ used, connection[0],
         NewChannel(k), UNCHANGED <<bconn, bchan>>
  PROVE  AgreeOK'
  <1> SUFFICES ASSUME Talking' PROVE AgreeOK'
    BY DEF AgreeOK
  <1>1. PICK c \in Chan : c = created + 1 /\ c > created
    BY SpecAssumption DEF NewChannel, TypeOK, Chan
  <1> DEFINE req == Msg(k, "ChannelOpen", calls + 1)
             s == toServer[k]
             t == s \o <<req>>
             N == Names(s)
             V == View(k, toClient)
             b == bchan[k]
  <1>2. req \in Message /\ req.m = "ChannelOpen"
    BY MsgType, MethodsFacts, SideTypes DEF Msg, TypeOK, AbstractChannelTypeOK
  <1>3. /\ channels' = [channels EXCEPT ![k] = c] /\ connection' = [connection EXCEPT ![c] = TRUE]
        /\ UNCHANGED <<is_closing, sock, toClient, is_open>>
        /\ toServer' = [toServer EXCEPT ![k] = Append(@, req)]
    BY <1>1 DEF NewChannel, Talking
  <1>4. s \in Seq(Message) /\ b \in Broker3 /\ k \in Ids0
    BY SideTypes
  <1> HIDE DEF req
  <1>5. toServer' = [toServer EXCEPT ![k] = t]
    BY <1>2, <1>3, <1>4, AppendIsConcat
  <1>6. channels[k] = 0
    BY DEF IdsConsistent
  <1>7. c # 0 /\ \A id \in Ids : channels[id] # c
    BY <1>1, ObjFacts DEF RegistryOK, TypeOK, AbstractChannelTypeOK
  <1>8. /\ channels'[k] = c /\ connection'[c]
        /\ \A id \in Ids \ {k} : channels'[id] = channels[id] /\ channels[id] # c
        /\ \A d \in Chan \ {c} : /\ connection'[d] = connection[d] /\ is_open'[d] = is_open[d]
                                 /\ is_closing'[d] = is_closing[d]
    BY <1>3, <1>7, ObjFacts DEF TypeOK, AbstractChannelTypeOK
  <1>9. \A id \in Ids \ {k} : Status(channels[id])' = Status(channels[id])
    BY <1>8, OtherStatus
  <1>10. Status(channels[k]) = "none" /\ Status(channels[k])' = "opening"
    BY <1>1, <1>3, <1>6, <1>7, <1>8 DEF Status, NewOK
  <1>11. t \in Seq(Message) /\ Names(t) = N \cup {"ChannelOpen"}
    <2> HIDE DEF s
    <2> QED BY <1>2, <1>4, OneMore, NamesMove
  <1>12. ASSUME Talking PROVE SentOK(t, b) /\ Talk(Names(t), View(k, toClient'), b, "opening")
    <2>1. SentOK(s, b) /\ Talk(N, V, b, "none")
      BY <1>10, <1>12 DEF AgreeOK, InStep
    <2>2. SentOK(t, b)
      <3> HIDE DEF s, b, V
      <3> QED BY <1>2, <1>4, <2>1, SentNew
    <2>3. Talk(N \cup {"ChannelOpen"}, V, b, "opening")
      <3> HIDE DEF N, b, V
      <3> QED BY <1>4, <2>1, TalkNew
    <2> HIDE DEF t
    <2> QED BY <1>3, <1>11, <2>2, <2>3
  <1> HIDE DEF t
  <1> QED BY <1>3, <1>5, <1>9, <1>10, <1>11, <1>12, OneMoves

-----------------------------------------------------------------------------
(* Every step of the client is of one of these kinds.                      *)

Calm == /\ UNCHANGED <<channels, channel_id, connection, is_closing, is_open, sock>>
        /\ Sends /\ Reads

Ordinary == Calm /\ UNCHANGED <<bconn, bchan, created>>

Turns ==
  /\ UNCHANGED <<bconn, bchan>>
  /\ \/ /\ UNCHANGED created
        /\ \/ \E c \in 1 .. created : Channel_close(c)
           \/ CloseReturns \/ Channel_on_open_ok \/ Channel_on_close_ok \/ Channel_on_close
           \/ Connection_close \/ Connection_on_close \/ Connection_on_close_ok
           \/ ConnectionCloseReturns
     \/ connection[0] /\ \E id \in Ids \ used : NewChannel(id)

(* A basic_publish that is about to write may write. *)
MayPublish ==
  stack # <<>> /\ Top.op = "publish" /\ connection[Top.ch] =>
    Top.ch \in Chan /\ ~is_closing[Top.ch]

\* A public method that sends a plain request.
LEMMA InvokeCalm ==
  ASSUME AbstractChannelTypeOK, Orderly, NEW c \in Chan, NEW req \in Message, req.m \notin Asking,
         NEW on, NEW op, Invoke(c, req, on, op), UNCHANGED is_open
  PROVE  Calm
  <1>1. /\ UNCHANGED <<channels, channel_id, connection, is_closing, is_open, sock, toClient>>
        /\ ~is_closing[c]
        /\ UNCHANGED toServer \/ send_method(c, <<req>>)
    BY DEF Invoke, AppCalls, Orderly, send_method_raises
  <1>2. Sends
    BY <1>1 DEF Sends, send_method
  <1> QED BY <1>1, <1>2 DEF Calm, Reads

\* Every public method of a channel other than close().
LEMMA ChannelCallCalm ==
  ASSUME AbstractChannelTypeOK, Orderly, NEW c \in Chan, ChannelCall(c), ~Channel_close(c)
  PROVE  Calm
  <1>0. c \in Obj
    BY ObjFacts
  <1>1. ASSUME NEW m \in Methods \ Asking, NEW nowait \in BOOLEAN, Simple(c, m, nowait)
        PROVE  Calm
    <2> DEFINE req == [Msg(channel_id[c], m, calls + 1) EXCEPT !.nowait = nowait]
               on == IF nowait THEN {} ELSE ReplyTo[m]
    <2>1. Msg(channel_id[c], m, calls + 1) \in Message
      BY <1>0, RequestType
    <2>2. req \in Message
      BY <2>1, MessageUpdate
    <2>3. req.m \notin Asking
      BY DEF Msg
    <2>4. Invoke(c, req, on, "rpc") /\ UNCHANGED is_open
      BY <1>1 DEF Simple, Rpc, chanVars
    <2> HIDE DEF req, on
    <2> QED BY <2>2, <2>3, <2>4, InvokeCalm
  <1>2. ASSUME NEW m \in Methods \ Asking, SimplePost(c, m) PROVE Calm
    <2> DEFINE req == Msg(channel_id[c], m, calls + 1)
    <2>1. req \in Message /\ req.m \notin Asking
      BY <1>0, RequestType DEF Msg
    <2>2. Invoke(c, req, {}, "rpc") /\ UNCHANGED is_open
      BY <1>2 DEF SimplePost, Post, chanVars
    <2> HIDE DEF req
    <2> QED BY <2>1, <2>2, InvokeCalm
  <1>3. {"ExchangeDeclare", "ExchangeDelete", "ExchangeBind", "ExchangeUnbind",
         "QueueDeclare", "QueueBind", "QueueUnbind", "QueueDelete", "QueuePurge",
         "ConfirmSelect", "ChannelFlow", "BasicGet", "BasicQos", "TxSelect",
         "TxCommit", "TxRollback", "BasicRecover"} \subseteq Methods \ Asking
    <2>1. {"ExchangeDeclare", "ExchangeDelete", "ExchangeBind", "ExchangeUnbind",
           "QueueDeclare", "QueueBind", "QueueUnbind", "QueueDelete", "QueuePurge",
           "ConfirmSelect", "ChannelFlow", "BasicGet", "BasicQos", "TxSelect",
           "TxCommit", "TxRollback", "BasicRecover"} \subseteq Sync
      BY DEF Sync, ReplyTo
    <2> QED BY <2>1, MethodsFacts DEF Asking
  <1>4. {"BasicRecoverAsync", "BasicAck", "BasicReject"} \subseteq Methods \ Asking
    BY MethodsFacts DEF Async, Asking
  <1>5. ASSUME NEW nowait \in Nowaits,
               \/ exchange_declare(c, nowait) \/ exchange_delete(c, nowait)
               \/ exchange_bind(c, nowait) \/ exchange_unbind(c, nowait)
               \/ queue_declare(c, nowait) \/ queue_bind(c, nowait)
               \/ queue_delete(c, nowait)
               \/ queue_purge(c, nowait) \/ confirm_select(c, nowait)
               \/ queue_unbind(c, nowait)
        PROVE  Calm
    <2>1. nowait \in BOOLEAN
      BY ConnectionAssumption
    <2>2. CASE queue_unbind(c, nowait)
      <3>1. CASE Simple(c, "QueueUnbind", FALSE)
        BY <1>1, <1>3, <3>1
      <3>2. CASE SimplePost(c, "QueueUnbind")
        BY <1>2, <1>3, <3>2
      <3> QED BY <2>2, <3>1, <3>2 DEF queue_unbind
    <2> QED BY <1>1, <1>3, <1>5, <2>1, <2>2 DEF exchange_declare, exchange_delete,
              exchange_bind, exchange_unbind, queue_declare, queue_bind,
              queue_delete, queue_purge, confirm_select
  <1>6. ASSUME \/ flow(c) \/ basic_get(c) \/ basic_qos(c)
               \/ tx_select(c) \/ tx_commit(c) \/ tx_rollback(c)
        PROVE  Calm
    BY <1>1, <1>3, <1>6 DEF flow, basic_get, basic_qos, tx_select, tx_commit, tx_rollback
  <1>7. ASSUME \/ basic_recover(c) \/ basic_recover_async(c) \/ basic_ack(c)
               \/ basic_reject(c)
        PROVE  Calm
    BY <1>2, <1>3, <1>4, <1>7 DEF basic_recover, basic_recover_async, basic_ack, basic_reject
  <1>8. ASSUME NEW nowait \in Nowaits, NEW t \in Tags, basic_cancel(c, t, nowait)
        PROVE  Calm
    <2> DEFINE req == [Msg(channel_id[c], "BasicCancel", calls + 1)
                       EXCEPT !.tag = t, !.nowait = nowait]
               on == IF nowait THEN {} ELSE {"BasicCancelOk"}
    <2>1. Msg(channel_id[c], "BasicCancel", calls + 1) \in Message
      BY <1>0, RequestType, MethodsFacts
    <2>2. req \in Message
      BY <2>1, MessageUpdate, ConnectionAssumption
    <2>3. req.m \notin Asking
      BY DEF Msg, Asking
    <2>4. Invoke(c, req, on, "rpc") /\ UNCHANGED is_open
      BY <1>8 DEF basic_cancel
    <2> HIDE DEF req, on
    <2> QED BY <2>2, <2>3, <2>4, InvokeCalm
  <1>9. ASSUME NEW nowait \in Nowaits, NEW t \in Tags \cup {0}, NEW no_ack \in NoAcks,
               basic_consume(c, t, nowait, no_ack)
        PROVE  Calm
    <2> DEFINE req == [Msg(channel_id[c], "BasicConsume", calls + 1)
                       EXCEPT !.tag = t, !.nowait = nowait, !.no_ack = no_ack]
    <2>1. Msg(channel_id[c], "BasicConsume", calls + 1) \in Message
      BY <1>0, RequestType, MethodsFacts
    <2>2. req \in Message
      BY <2>1, MessageUpdate, ConnectionAssumption
    <2>3. req.m \notin Asking
      BY DEF Msg, Asking
    <2>4. CASE Invoke(c, req, {"BasicConsumeOk"}, "consume")
      <3>1. UNCHANGED is_open
        BY <1>9 DEF basic_consume
      <3> HIDE DEF req
      <3> QED BY <2>2, <2>3, <2>4, <3>1, InvokeCalm
    <2>5. CASE ~Invoke(c, req, {"BasicConsumeOk"}, "consume")
      <3>1. /\ UNCHANGED <<channels, channel_id, connection, is_closing, is_open, sock, toClient>>
            /\ ~is_closing[c]
            /\ UNCHANGED toServer \/ send_method(c, <<req>>)
        BY <1>9, <2>5 DEF basic_consume, AppCalls, Orderly, send_method_raises
      <3> HIDE DEF req
      <3>2. Sends
        BY <2>2, <2>3, <3>1 DEF Sends, send_method
      <3> QED BY <3>1, <3>2 DEF Calm, Reads
    <2> QED BY <2>4, <2>5
  <1>10. CASE basic_publish(c)
    <2> DEFINE req == Msg(channel_id[c], "ConfirmSelect", calls + 1)
    <2>1. req \in Message /\ req.m \notin Asking
      BY <1>0, RequestType, MethodsFacts DEF Msg, Asking
    <2>2. /\ UNCHANGED <<channels, channel_id, connection, is_closing, is_open, sock, toClient>>
          /\ ~is_closing[c]
          /\ UNCHANGED toServer \/ send_method(c, <<req>>)
      BY <1>10 DEF basic_publish, Selects, AppCalls, Orderly, send_method_raises
    <2> HIDE DEF req
    <2>3. Sends
      BY <2>1, <2>2 DEF Sends, send_method
    <2> QED BY <2>2, <2>3 DEF Calm, Reads
  <1>11. CASE Channel_open(c)
    <2>1. Msg(channel_id[c], "ChannelOpen", calls + 1).m = "ChannelOpen"
      BY DEF Msg
    <2> QED BY <1>11, <2>1 DEF Channel_open, Invoke, AppCalls, Orderly
  <1> QED BY <1>5, <1>6, <1>7, <1>8, <1>9, <1>10, <1>11 DEF ChannelCall

\* Every call of the application.
LEMMA AppCallKinds ==
  ASSUME TypeOK, Orderly, AppCall
  PROVE  Ordinary \/ Turns
  <1>1. ASSUME NEW c \in 1 .. created, ChannelCall(c), UNCHANGED <<brokerVars, created>>
        PROVE  Ordinary \/ Turns
    <2>1. c \in Chan /\ AbstractChannelTypeOK
      BY SpecAssumption DEF TypeOK, Chan
    <2>2. CASE ~Channel_close(c)
      BY <1>1, <2>1, <2>2, ChannelCallCalm DEF Ordinary, brokerVars
    <2> QED BY <1>1, <2>2 DEF Turns, brokerVars
  <1>2. ASSUME NEW id \in ExplicitIds, channel(id) PROVE Ordinary \/ Turns
    <2>1. ASSUME NEW e, NoChannel(e) PROVE Ordinary
      BY <1>2, <2>1 DEF NoChannel, channel, Ordinary, Calm, Sends, Reads, chanVars, brokerVars
    <2>2. ASSUME NEW k \in Ids \ used, NewChannel(k), connection[0] PROVE Turns
      BY <1>2, <2>2 DEF channel, Turns, brokerVars
    <2>3. id # 0 => id \in Ids
      BY ConnectionAssumption, SpecAssumption DEF Ids, Ids0
    <2> QED BY <1>2, <2>1, <2>2, <2>3, FreeIdType DEF channel
  <1>3. CASE drain_events
    BY <1>3 DEF drain_events, Ordinary, Calm, Sends, Reads, chanVars, brokerVars
  <1>4. CASE Connection_close
    BY <1>4 DEF Connection_close, Turns, brokerVars
  <1> QED BY <1>1, <1>2, <1>3, <1>4 DEF AppCall

\* A method without a reply, sent by a handler of a channel that is in use.
LEMMA HandlerCalm ==
  ASSUME TypeOK, ControlOK, NEW m \in Methods \ Asking, NEW h, Dispatches(h),
         h \notin Telling \cup Control \cup AllowedWhenClosing,
         UNCHANGED toServer \/ send_method(Target, <<Msg(channel_id[Target], m, 0)>>),
         UNCHANGED <<channels, channel_id, connection, is_closing, is_open, sock>>
  PROVE  Calm
  <1>1. Takes /\ In.m = h /\ ~is_closing[Target] /\ Target \in Chan
    BY DispatchedTo DEF Dispatches
  <1> DEFINE x == Msg(channel_id[Target], m, 0)
  <1>2. x \in Message /\ x.m \notin Asking
    BY <1>1, ObjFacts, RequestType DEF Msg, TypeOK
  <1> HIDE DEF x
  <1>3. Sends
    BY <1>1, <1>2 DEF Sends, send_method, x
  <1> QED BY <1>1, <1>3 DEF Calm, Reads

\* Every step of a channel.
LEMMA ChannelStepKinds ==
  ASSUME TypeOK, ControlOK, RepliesOK, MayPublish, ChannelStep, UNCHANGED <<brokerVars, created>>
  PROVE  Ordinary \/ Turns
  <1>0. UNCHANGED <<bconn, bchan, created>>
    BY DEF brokerVars
  <1>1. CASE on_flow
    <2>1. /\ Dispatches("ChannelFlow")
          /\ \/ UNCHANGED toServer
             \/ send_method(Target, <<Msg(channel_id[Target], "ChannelFlowOk", 0)>>)
          /\ UNCHANGED <<channels, channel_id, connection, is_closing, is_open, sock>>
      BY <1>1 DEF on_flow, send_method_raises, chanVars
    <2>2. /\ "ChannelFlowOk" \in Methods \ Asking
          /\ "ChannelFlow" \notin Telling \cup Control \cup AllowedWhenClosing
      BY DEF Methods, Async, Asking, Telling, Control, AllowedWhenClosing
    <2> QED BY <1>0, <2>1, <2>2, HandlerCalm DEF Ordinary
  <1>2. CASE on_basic_deliver
    <2>1. /\ Dispatches("BasicDeliver")
          /\ \/ UNCHANGED toServer
             \/ send_method(Target, <<Msg(channel_id[Target], "BasicReject", 0)>>)
          /\ UNCHANGED <<channels, channel_id, connection, is_closing, is_open, sock>>
      BY <1>2 DEF on_basic_deliver, send_method_raises, chanVars
    <2>2. /\ "BasicReject" \in Methods \ Asking
          /\ "BasicDeliver" \notin Telling \cup Control \cup AllowedWhenClosing
      BY DEF Methods, Async, Asking, Telling, Control, AllowedWhenClosing
    <2> QED BY <1>0, <2>1, <2>2, HandlerCalm DEF Ordinary
  <1>3. CASE PublishWrites
    <2>1. stack \in Seq(Frame) /\ stack # <<>> /\ Top.op = "publish"
      BY <1>3 DEF TypeOK, AbstractChannelTypeOK, PublishWrites
    <2>2. Top \in Frame /\ Len(stack) \in 1 .. Len(stack) /\ Top = stack[Len(stack)]
      BY <2>1, TopType DEF Top
    <2>3. Top.req \in Message /\ Matched(Top)
      BY <2>2 DEF Frame, RepliesOK
    <2>4. Top.req.m = "BasicPublish"
      BY <2>1, <2>3 DEF Matched
    <2>5. /\ UNCHANGED <<channels, channel_id, connection, is_closing, is_open, sock, toClient>>
          /\ UNCHANGED toServer \/ send_method(Top.ch, <<Top.req>>)
      BY <1>3 DEF PublishWrites, send_method_raises, chanVars
    <2>6. Sends
      BY <2>1, <2>3, <2>4, <2>5 DEF Sends, send_method, MayPublish, Asking
    <2> QED BY <1>0, <2>5, <2>6 DEF Ordinary, Calm, Reads
  <1>4. CASE \/ on_basic_cancel_ok \/ on_basic_cancel
             \/ on_basic_ack \/ on_basic_nack \/ on_basic_return
    <2>1. /\ UNCHANGED <<channels, channel_id, connection, is_closing, is_open, sock, toServer>>
          /\ Takes /\ In.m \notin Telling
      BY <1>4 DEF on_basic_cancel_ok, on_basic_cancel, on_basic_ack, on_basic_nack,
         on_basic_return, Dispatches, chanVars, Telling
    <2> QED BY <1>0, <2>1 DEF Ordinary, Calm, Sends, Reads
  <1>5. CASE ReviveReturns \/ ConsumeReturns \/ SelectReturns
    BY <1>0, <1>5 DEF ReviveReturns, ConsumeReturns, SelectReturns, Ordinary, Calm, Sends, Reads,
       chanVars
  <1>6. CASE Channel_on_open_ok \/ Channel_on_close_ok \/ Channel_on_close \/ CloseReturns
    BY <1>0, <1>6 DEF Turns
  <1> QED BY <1>1, <1>2, <1>3, <1>4, <1>5, <1>6 DEF ChannelStep

\* Every step of the client.
LEMMA ClientKinds ==
  ASSUME TypeOK, Orderly, ControlOK, RepliesOK, MayPublish,
         AppCall \/ LibraryStep \/ CallbackEnds \/ TimesOut
  PROVE  Ordinary \/ Turns
  <1>1. CASE BaseStep /\ UNCHANGED <<brokerVars, created>>
    <2>1. /\ UNCHANGED <<channels, channel_id, connection, is_closing, is_open, sock, toServer>>
          /\ UNCHANGED <<bconn, bchan, created>>
      BY <1>1 DEF BaseStep, ReturnPlain, ConnectionGone, UnwindPlain, UnwindCallback,
         CallbackCatch, Raised, Discard, UnknownChannel, ReadFails, OnReply, chanVars, brokerVars
    <2>2. Reads
      <3>1. CASE Discard \/ UnknownChannel
        BY <3>1 DEF Discard, UnknownChannel, Reads, Telling, AllowedWhenClosing
      <3>2. ASSUME NEW m \in PlainReplies, OnReply(m) PROVE Reads
        <4>1. m \notin Telling
          BY DEF PlainReplies, Telling, Replies, ReplyTo, Sync
        <4> QED BY <3>2, <4>1 DEF OnReply, Dispatches, Reads
      <3>3. ASSUME ReturnPlain \/ ConnectionGone \/ UnwindPlain \/ UnwindCallback
                   \/ CallbackCatch \/ Raised \/ ReadFails
            PROVE  Reads
        BY <3>3 DEF ReturnPlain, ConnectionGone, UnwindPlain, UnwindCallback,
           CallbackCatch, Raised, ReadFails, Reads
      <3> QED BY <1>1, <3>1, <3>2, <3>3 DEF BaseStep
    <2> QED BY <2>1, <2>2 DEF Ordinary, Calm, Sends
  <1>2. CASE ConnectionStep
    <2>1. CASE on_blocked("ConnectionBlocked") \/ on_blocked("ConnectionUnblocked")
      <3>1. /\ UNCHANGED <<channels, channel_id, connection, is_closing, is_open, sock, toServer>>
            /\ UNCHANGED <<bconn, bchan, created>> /\ Takes /\ In.m \notin Telling
        BY <2>1 DEF on_blocked, Dispatches, chanVars, brokerVars, Telling
      <3> QED BY <3>1 DEF Ordinary, Calm, Sends, Reads
    <2>2. CASE Connection_on_close_ok \/ Connection_on_close \/ ConnectionCloseReturns
      BY <2>2 DEF Turns, brokerVars, Connection_on_close_ok, Connection_on_close,
         ConnectionCloseReturns
    <2> QED BY <1>2, <2>1, <2>2 DEF ConnectionStep
  <1>3. CASE CallbackEnds \/ TimesOut
    BY <1>3 DEF CallbackEnds, CallbackReturns, TimesOut, ReadTimesOut, Ordinary, Calm, Sends, Reads,
       chanVars, brokerVars
  <1> QED BY <1>1, <1>2, <1>3, AppCallKinds, ChannelStepKinds DEF LibraryStep

\* The steps that end the connection, or give up ending it.
LEMMA ConnectionAgrees ==
  ASSUME TypeOK, RegistryOK, IdsConsistent, AgreeOK, UNCHANGED <<bconn, bchan>>,
         \/ Connection_close \/ Connection_on_close \/ Connection_on_close_ok
         \/ ConnectionCloseReturns
  PROVE  AgreeOK'
  <1>0. 0 \in Obj /\ 0 \in Ids0 /\ toServer \in [Ids0 -> Seq(Message)]
    BY SpecAssumption DEF TypeOK, AbstractChannelTypeOK, Obj, Ids0
  <1>1. CASE Connection_collect
    BY <1>1 DEF Connection_collect, AgreeOK, Talking
  <1>2. CASE Connection_close
    <2> DEFINE req == Msg(0, "ConnectionClose", calls + 1)
    <2>1. CASE send_method(0, <<req>>)
      <3>1. toServer'[0] = toServer[0] \o <<req>> /\ toServer[0] \in Seq(Message)
        BY <1>0, <2>1 DEF send_method, RegistryOK
      <3>2. req \in Message
        BY MsgType, MethodsFacts, <1>0 DEF TypeOK, AbstractChannelTypeOK
      <3> HIDE DEF req
      <3>3. toServer'[0] # <<>>
        BY <3>1, <3>2
      <3> QED BY <3>3 DEF AgreeOK, Talking
    <2> QED BY <1>1, <1>2, <2>1 DEF Connection_close
  <1>3. CASE Connection_on_close /\ ~Connection_collect
    <2>1. /\ UNCHANGED <<channels, connection, is_closing, is_open, sock, toServer>>
          /\ Takes /\ In.m \notin Telling
      BY <1>3 DEF Connection_on_close, Dispatches, send_method_raises, Telling
    <2>2. \A id \in Ids : Status(channels[id])' = Status(channels[id])
      BY <2>1 DEF Status
    <2> QED BY <2>1, <2>2, PlainAgrees DEF Sends, Reads
  <1>4. CASE ConnectionCloseReturns /\ ~Connection_collect
    <2>1. /\ UNCHANGED <<channels, connection, is_open, sock, toServer, toClient>>
          /\ is_closing' = [is_closing EXCEPT ![0] = FALSE]
      BY <1>4 DEF ConnectionCloseReturns, CloseFails
    <2>2. ~is_closing'[0] /\ \A d \in Obj \ {0} : is_closing'[d] = is_closing[d]
      BY <1>0, <2>1 DEF TypeOK, AbstractChannelTypeOK
    <2>3. \A id \in Ids : channels[id] \in Obj
      BY DEF TypeOK, AbstractChannelTypeOK
    <2>4. \A id \in Ids : Status(channels[id])' = Status(channels[id])
      BY <2>1, <2>2, <2>3 DEF Status
    <2> QED BY <2>1, <2>2, <2>4, PlainAgrees DEF Sends, Reads
  <1> QED BY <1>1, <1>2, <1>3, <1>4 DEF Connection_on_close_ok

\* Every step of the client leaves the two sides in step.
LEMMA ClientAgrees ==
  ASSUME TypeOK, Orderly, FramesOK(stack), ControlOK, RegistryOK, IdsConsistent, NewOK, AgreeOK,
         Ordinary \/ Turns
  PROVE  AgreeOK'
  <1>0. UNCHANGED <<bconn, bchan>>
    BY DEF Ordinary, Turns
  <1>1. CASE Ordinary
    <2>1. /\ UNCHANGED <<channels, connection, is_closing, is_open, sock>> /\ Sends /\ Reads
      BY <1>1 DEF Ordinary, Calm
    <2>2. \A id \in Ids : Status(channels[id])' = Status(channels[id])
      BY <2>1 DEF Status
    <2> QED BY <1>0, <2>1, <2>2, PlainAgrees
  <1>2. ASSUME NEW c \in 1 .. created, Channel_close(c) PROVE AgreeOK'
    <2>1. c \in Chan
      BY SpecAssumption DEF TypeOK, Chan
    <2> QED BY <1>0, <1>2, <2>1, CloseAgrees
  <1>3. CASE CloseReturns
    <2>1. stack \in Seq(Frame) /\ stack # <<>> /\ Top.op = "close"
      BY <1>3 DEF TypeOK, AbstractChannelTypeOK, CloseReturns, Returns, Unwinds
    <2>2. Top \in Frame /\ Len(stack) \in 1 .. Len(stack) /\ Top = stack[Len(stack)]
      BY <2>1, TopType DEF Top
    <2>3. Top.ch \in Chan
      BY <2>1, <2>2 DEF FramesOK, Frame, Obj, Chan
    <2>4. CloseFinally(Top.ch)
          /\ UNCHANGED <<channels, is_open, sock, bconn, bchan, toServer, toClient>>
      BY <1>0, <1>3 DEF CloseReturns, chanVars
    <2> QED BY <2>3, <2>4, FinallyAgrees
  <1>4. CASE Channel_on_open_ok \/ Channel_on_close_ok \/ Channel_on_close
    BY <1>0, <1>4, OpenedAgrees, ClosedAgrees, BrokerClosedAgrees
  <1>5. CASE Connection_close \/ Connection_on_close \/ Connection_on_close_ok
             \/ ConnectionCloseReturns
    BY <1>0, <1>5, ConnectionAgrees
  <1>6. ASSUME connection[0], NEW k \in Ids \ used, NewChannel(k) PROVE AgreeOK'
    BY <1>0, <1>6, NewAgrees
  <1> QED BY <1>1, <1>2, <1>3, <1>4, <1>5, <1>6 DEF Turns

\* What the client does leaves the methods of channel 0 as they are.
LEMMA ClientControl ==
  ASSUME TypeOK, ControlOK, AppCall \/ LibraryStep \/ CallbackEnds \/ TimesOut
  PROVE  ControlOK'
  <1>1. CASE UNCHANGED toClient
    BY <1>1 DEF ControlOK
  <1>2. CASE Takes
    <2>1. toClient \in Seq(Message) /\ toClient # <<>> /\ toClient' = Tail(toClient)
      BY <1>2 DEF Takes, TypeOK, AbstractChannelTypeOK
    <2>2. Items(toClient') \subseteq Items(toClient)
      BY <2>1, ItemsTail
    <2> QED BY <2>2 DEF ControlOK
  <1> QED BY <1>1, <1>2, ClientReads

\* collect() leaves closed what is closed.
LEMMA CollectNew ==
  ASSUME TypeOK, NewOK, NEW S, Cleared(S), UNCHANGED created,
         \A c \in Chan : is_closing'[c] => is_closing[c]
  PROVE  NewOK'
  BY DEF Cleared, NewOK

\* Objects that have not been created stay as they are.
LEMMA ClientNew ==
  ASSUME TypeOK, FramesOK(stack), ControlOK, RegistryOK, NewOK, Ordinary \/ Turns
  PROVE  NewOK'
  <1>0. 0 \in Obj /\ 0 \notin Chan /\ created \in Nat /\ Chan \subseteq Nat
    BY SpecAssumption DEF TypeOK, Obj, Chan
  <1>1. CASE Ordinary
    BY <1>1 DEF Ordinary, Calm, NewOK
  <1>2. ASSUME NEW c \in 1 .. created, Channel_close(c), UNCHANGED created PROVE NewOK'
    <2>1. c \in Chan
      BY SpecAssumption DEF TypeOK, Chan
    <2>2. \A d \in Chan \ {c} : is_closing'[d] = is_closing[d]
      BY <1>2, <2>1, ObjFacts
         DEF Channel_close, CloseFinally, TypeOK, AbstractChannelTypeOK
    <2>3. UNCHANGED is_open
      BY <1>2 DEF Channel_close, chanVars
    <2> QED BY <1>0, <1>2, <2>1, <2>2, <2>3 DEF NewOK
  <1>3. CASE CloseReturns /\ UNCHANGED created
    <2>1. \A d \in Chan : is_closing'[d] => is_closing[d]
      BY <1>3, ObjFacts DEF CloseReturns, CloseFinally, TypeOK, AbstractChannelTypeOK
    <2>2. UNCHANGED is_open
      BY <1>3 DEF CloseReturns, chanVars
    <2> QED BY <1>3, <2>1, <2>2 DEF NewOK
  <1>4. CASE Channel_on_open_ok /\ UNCHANGED created
    <2>1. Target \in Chan /\ Target = channels[In.ch] /\ In.ch \in Ids
      BY <1>4, DispatchedTo DEF Channel_on_open_ok, Control
    <2>2. Target <= created
      BY <2>1 DEF RegistryOK
    <2>3. \A d \in Chan \ {Target} : is_open'[d] = is_open[d]
      BY <1>4, <2>1 DEF Channel_on_open_ok, TypeOK, ChannelTypeOK
    <2>4. UNCHANGED is_closing
      BY <1>4 DEF Channel_on_open_ok
    <2>5. ASSUME NEW d \in Chan, d > created PROVE ~is_open'[d] /\ ~is_closing'[d]
      <3>1. d # Target
        BY <1>0, <2>1, <2>2, <2>5
      <3> QED BY <2>3, <2>4, <2>5, <3>1 DEF NewOK
    <2> QED BY <1>4, <2>5 DEF NewOK
  <1>5. CASE Channel_on_close_ok /\ UNCHANGED created
    BY <1>5, CollectNew DEF Channel_on_close_ok, Channel_collect
  <1>6. CASE Channel_on_close /\ UNCHANGED created
    <2>1. \A d \in Chan : is_open'[d] => is_open[d]
      BY <1>6 DEF Channel_on_close, Agrees, do_revive, TypeOK, ChannelTypeOK
    <2>2. UNCHANGED is_closing
      BY <1>6 DEF Channel_on_close
    <2> QED BY <1>6, <2>1, <2>2 DEF NewOK
  <1>7. CASE /\ \/ Connection_close \/ Connection_on_close \/ Connection_on_close_ok
                \/ ConnectionCloseReturns
             /\ UNCHANGED created
    <2>1. \A d \in Chan : is_closing'[d] = is_closing[d]
      BY <1>0, <1>7, ObjFacts DEF Connection_close, Connection_on_close, Connection_on_close_ok,
         ConnectionCloseReturns, TypeOK, AbstractChannelTypeOK
    <2>2. CASE Connection_collect
      BY <1>7, <2>1, <2>2, CollectNew DEF Connection_collect
    <2>3. CASE ~Connection_collect
      <3>1. UNCHANGED is_open
        BY <1>7, <2>3 DEF Connection_close, Connection_on_close, Connection_on_close_ok,
           ConnectionCloseReturns, CloseFails
      <3> QED BY <1>7, <2>1, <3>1 DEF NewOK
    <2> QED BY <2>2, <2>3
  <1>8. ASSUME NEW k, NewChannel(k) PROVE NewOK'
    BY <1>0, <1>8 DEF NewChannel, NewOK
  <1> QED BY <1>1, <1>2, <1>3, <1>4, <1>5, <1>6, <1>7, <1>8 DEF Turns

-----------------------------------------------------------------------------
(* A basic_publish that has begun on a channel finds it being closed only  *)
(* while the close(), made by a callback, is still in progress.            *)
PublishOK ==
  \A i \in 1 .. Len(stack) : stack[i].op \in {"publish", "select"} =>
    /\ stack[i].ch \in Chan
    /\ is_closing[stack[i].ch] /\ connection[stack[i].ch] =>
         \E j \in i + 1 .. Len(stack) : stack[j].op = "close" /\ stack[j].ch = stack[i].ch

\* So it does not write then.
LEMMA PublishMay ==
  ASSUME TypeOK, PublishOK
  PROVE  MayPublish
  <1> SUFFICES ASSUME stack # <<>>, Top.op = "publish", connection[Top.ch]
               PROVE  Top.ch \in Chan /\ ~is_closing[Top.ch]
    BY DEF MayPublish
  <1>1. Len(stack) \in 1 .. Len(stack) /\ Top = stack[Len(stack)] /\ Len(stack) \in Nat
    BY TopType, LenProperties DEF TypeOK, AbstractChannelTypeOK, Top
  <1> QED BY <1>1 DEF PublishOK

\* Only the last frame can go.
LEMMA OldFrames ==
  ASSUME AbstractChannelTypeOK, AbstractChannelTypeOK', Moved, NEW j \in 1 .. Len(stack) - 1
  PROVE  Carried(j) /\ j \in 1 .. Len(stack')
  <1>0. Len(stack) \in Nat /\ j \in 1 .. Len(stack)
    BY LenProperties DEF AbstractChannelTypeOK
  <1>1. CASE Stays(pending, stack, pending', stack')
    BY <1>0, <1>1 DEF Stays, Carried
  <1>2. CASE Grows(pending, stack, pending', stack')
    BY <1>0, <1>2 DEF Grows, Carried
  <1>3. CASE Shrinks(pending, stack, pending', stack')
    BY <1>0, <1>3 DEF Shrinks, Carried
  <1>4. ASSUME NEW p \in PendingType, NEW s \in Seq(Frame),
               Stays(pending, stack, p, s) \/ Shrinks(pending, stack, p, s),
               Grows(p, s, pending', stack')
        PROVE  Carried(j) /\ j \in 1 .. Len(stack')
    <2>1. j \in 1 .. Len(s) /\ Like(stack[j], s[j]) /\ Len(s) \in Nat
      BY <1>0, <1>4, LenProperties DEF Stays, Shrinks
    <2>2. Like(s[j], stack'[j]) /\ Len(stack') = Len(s) + 1
      BY <1>4, <2>1 DEF Grows
    <2> QED BY <1>0, <2>1, <2>2, LikeTrans DEF Carried
  <1> QED BY <1>1, <1>2, <1>3, <1>4 DEF Moved

\* ... and that of a close() goes with the close().
LEMMA CloseStays ==
  ASSUME AbstractChannelTypeOK, AbstractChannelTypeOK', StackOK(pending, stack),
         CallsOK(pending, stack), StackMove, stack # <<>>, Top.op = "close", ~CloseReturns
  PROVE  Carried(Len(stack)) /\ Len(stack) \in 1 .. Len(stack')
  <1> DEFINE L == Len(stack)
  <1>0. stack \in Seq(Frame) /\ L \in Nat /\ L \in 1 .. L
    BY LenProperties, TopType DEF AbstractChannelTypeOK
  <1>1. /\ Drained(stack) \in Seq(Frame) /\ Len(Drained(stack)) = L
        /\ Like(stack[L], Drained(stack)[L])
    BY <1>0, DrainedType, DrainedLike
  <1>2. CASE UNCHANGED <<stack, pending>> \/ HandlerEnds
    BY <1>0, <1>1, <1>2, LikeSelf DEF HandlerEnds, Carried
  <1>3. CASE \E p, q : Grows(p, stack, q, stack')
    BY <1>0, <1>3 DEF Grows, Carried
  <1>4. CASE Takes /\ Waits(Drained(stack))
    <2>1. Grows(pending, Drained(stack), pending', stack')
      BY <1>1, <1>4, WaitGrows
    <2>2. Like(Drained(stack)[L], stack'[L]) /\ Len(stack') = L + 1
      BY <1>0, <1>1, <2>1 DEF Grows
    <2> QED BY <1>0, <1>1, <2>2, LikeTrans DEF Carried
  <1>5. CASE Waits(stack) \/ (Pushes(stack) /\ UNCHANGED pending) \/ CallsBack
    <2>1. Grows(pending, stack, pending', stack')
      BY <1>0, <1>5, WaitGrows, PushGrows, CallsBackGrows
    <2> QED BY <1>3, <2>1
  <1>6. ~Continues /\ ~SelectEnds /\ ~CallbackReturns /\ ~Leaves
    BY DEF Continues, SelectEnds, CallbackReturns, Leaves
  <1>7. CASE Fulfils
    BY <1>0, <1>7, FulfilsStays DEF Stays, Carried
  <1>8. CASE Crowds
    <2>1. PICK c \in Obj, on \in SUBSET Replies : stack' = Crowded(stack, c, on)
      BY <1>8 DEF Crowds
    <2> QED BY <1>0, <2>1, CrowdedLike DEF Carried
  <1> QED BY <1>2, <1>4, <1>5, <1>6, <1>7, <1>8 DEF StackMove

(* Whoever begins to close a channel is on top of the stack. *)
ClosingMove ==
  \A c \in Chan : is_closing'[c] /\ connection'[c] =>
    \/ is_closing[c] /\ connection[c]
    \/ /\ Len(stack') = Len(stack) + 1
       /\ stack'[Len(stack')].op = "close" /\ stack'[Len(stack')].ch = c

\* Every step of the client.
LEMMA ClientCloses ==
  ASSUME TypeOK, NewOK, Ordinary \/ Turns
  PROVE  ClosingMove
  <1>0. 0 \in Obj /\ 0 \notin Chan /\ created \in Nat /\ Chan \subseteq Nat
    BY SpecAssumption DEF TypeOK, Obj, Chan
  <1>1. ASSUME \A c \in Chan : /\ is_closing'[c] => is_closing[c]
                               /\ connection'[c] => connection[c]
        PROVE  ClosingMove
    BY <1>1 DEF ClosingMove
  <1>2. CASE Ordinary
    BY <1>1, <1>2 DEF Ordinary, Calm
  <1>3. ASSUME NEW c \in 1 .. created, Channel_close(c) PROVE ClosingMove
    <2>1. c \in Chan /\ c \in Obj
      BY SpecAssumption DEF TypeOK, Chan, Obj
    <2>2. CASE CloseFinally(c)
      BY <1>1, <2>1, <2>2, ObjFacts DEF CloseFinally, TypeOK, AbstractChannelTypeOK
    <2> DEFINE req == Msg(channel_id[c], "ChannelClose", calls + 1)
    <2>3. CASE /\ wait(stack, "close", c, {"ChannelCloseOk"}, req) /\ UNCHANGED connection
               /\ is_closing' = [is_closing EXCEPT ![c] = TRUE]
      <3>1. stack \in Seq(Frame) /\ {"ChannelCloseOk"} \in SUBSET Replies
        BY RepliesFacts DEF TypeOK, AbstractChannelTypeOK
      <3> DEFINE t == Crowded(stack, c, {"ChannelCloseOk"})
                 f == [op |-> "close", ch |-> c, on |-> {"ChannelCloseOk"}, prev |-> pending[c],
                       req |-> req, got |-> NoMsg, ready |-> FALSE,
                       alone |-> ~Outstanding(c, req.ch, {"ChannelCloseOk"}), shot |-> 0]
      <3>2. t \in Seq(Frame) /\ Len(t) = Len(stack) /\ Len(stack) \in Nat
        BY <2>1, <3>1, CrowdedType, LenProperties
      <3>3. stack' = Append(t, f)
        BY <2>3 DEF wait
      <3>4. f.op = "close" /\ f.ch = c
        OBVIOUS
      <3> HIDE DEF t, f
      <3>5. Len(stack') = Len(stack) + 1 /\ stack'[Len(stack')] = f
        BY <3>2, <3>3
      <3>6. \A d \in Chan \ {c} : is_closing'[d] = is_closing[d]
        BY <2>1, <2>3, ObjFacts DEF TypeOK, AbstractChannelTypeOK
      <3> QED BY <2>3, <3>4, <3>5, <3>6 DEF ClosingMove
    <2> QED BY <1>3, <2>2, <2>3 DEF Channel_close
  <1>4. CASE CloseReturns
    BY <1>1, <1>4, ObjFacts DEF CloseReturns, CloseFinally, TypeOK, AbstractChannelTypeOK
  <1>5. CASE Channel_on_open_ok \/ Channel_on_close
    BY <1>1, <1>5 DEF Channel_on_open_ok, Channel_on_close
  <1>6. CASE Channel_on_close_ok
    BY <1>1, <1>6, ObjFacts DEF Channel_on_close_ok, Channel_collect, TypeOK, AbstractChannelTypeOK
  <1>7. CASE Connection_close \/ Connection_on_close \/ Connection_on_close_ok
             \/ ConnectionCloseReturns
    <2>1. \A d \in Chan : is_closing'[d] = is_closing[d]
      BY <1>0, <1>7, ObjFacts DEF Connection_close, Connection_on_close, Connection_on_close_ok,
         ConnectionCloseReturns, TypeOK, AbstractChannelTypeOK
    <2>2. CASE Connection_collect
      <3>1. \A d \in Chan : connection'[d] => connection[d]
        BY <2>2, ObjFacts DEF Connection_collect
      <3> QED BY <1>1, <2>1, <3>1
    <2>3. CASE ~Connection_collect
      <3>1. UNCHANGED connection
        BY <1>7, <2>3 DEF Connection_close, Connection_on_close, Connection_on_close_ok,
           ConnectionCloseReturns, CloseFails
      <3> QED BY <1>1, <2>1, <3>1
    <2> QED BY <2>2, <2>3
  <1>8. ASSUME NEW k, NewChannel(k) PROVE ClosingMove
    <2>1. /\ UNCHANGED is_closing /\ connection' = [connection EXCEPT ![created + 1] = TRUE]
      BY <1>8 DEF NewChannel
    <2>2. ASSUME NEW d \in Chan, is_closing'[d], connection'[d]
          PROVE  is_closing[d] /\ connection[d]
      <3>1. d # created + 1
        BY <1>0, <2>1, <2>2 DEF NewOK
      <3> QED BY <2>1, <2>2, <3>1, ObjFacts DEF TypeOK, AbstractChannelTypeOK
    <2> QED BY <2>2 DEF ClosingMove
  <1> QED BY <1>2, <1>3, <1>4, <1>5, <1>6, <1>7, <1>8 DEF Turns

\* PublishOK is inductive, together with the other invariants.
LEMMA PublishNext ==
  ASSUME TypeOK, TypeOK', Orderly, StackOK(pending, stack), CallsOK(pending, stack), [Next]_vars,
         ClosingMove, PublishOK
  PROVE  PublishOK'
  <1>0. /\ AbstractChannelTypeOK /\ AbstractChannelTypeOK'
        /\ stack \in Seq(Frame) /\ Len(stack) \in Nat /\ Len(stack') \in Nat
    BY LenProperties DEF TypeOK, AbstractChannelTypeOK
  <1>1. StackMove /\ Moved
    BY NextMoves, MoveKinds DEF TypeOK
  <1> SUFFICES ASSUME NEW i \in 1 .. Len(stack'), stack'[i].op \in {"publish", "select"}
               PROVE  LET c == stack'[i].ch IN
                      /\ c \in Chan
                      /\ is_closing'[c] /\ connection'[c] =>
                           \E j \in i + 1 .. Len(stack') :
                              stack'[j].op = "close" /\ stack'[j].ch = c
    BY DEF PublishOK
  <1> DEFINE c == stack'[i].ch
  <1>2. CASE Carried(i)
    <2>1. i \in 1 .. Len(stack) /\ stack[i].op \in {"publish", "select"} /\ stack[i].ch = c
      BY <1>2 DEF Carried, Like
    <2>2. c \in Chan
      BY <2>1 DEF PublishOK
    <2>3. ASSUME is_closing'[c], connection'[c], is_closing[c], connection[c]
          PROVE  \E j \in i + 1 .. Len(stack') : stack'[j].op = "close" /\ stack'[j].ch = c
      <3>1. PICK j \in i + 1 .. Len(stack) : stack[j].op = "close" /\ stack[j].ch = c
        BY <2>1, <2>3 DEF PublishOK
      <3>2. Carried(j) /\ j \in 1 .. Len(stack')
        <4>1. CASE j \in 1 .. Len(stack) - 1
          BY <1>0, <1>1, <4>1, OldFrames
        <4>2. CASE j = Len(stack)
          <5>1. stack # <<>> /\ Top.op = "close" /\ Top.ch = c
            BY <1>0, <2>1, <3>1, <4>2 DEF Top
          <5>2. ~CloseReturns
            BY <2>2, <2>3, <5>1, ObjFacts
               DEF CloseReturns, CloseFinally, TypeOK, AbstractChannelTypeOK
          <5> QED BY <1>0, <1>1, <4>2, <5>1, <5>2, CloseStays
        <4> QED BY <1>0, <2>1, <3>1, <4>1, <4>2
      <3>3. j \in i + 1 .. Len(stack') /\ stack'[j].op = "close" /\ stack'[j].ch = c
        BY <1>0, <2>1, <3>1, <3>2 DEF Carried, Like
      <3> QED BY <3>3
    <2>4. ASSUME Len(stack') = Len(stack) + 1, stack'[Len(stack')].op = "close",
                 stack'[Len(stack')].ch = c
          PROVE  \E j \in i + 1 .. Len(stack') : stack'[j].op = "close" /\ stack'[j].ch = c
      <3>1. Len(stack') \in i + 1 .. Len(stack')
        BY <1>0, <2>1, <2>4
      <3> QED BY <2>4, <3>1
    <2> QED BY <2>2, <2>3, <2>4 DEF ClosingMove
  <1>3. CASE Fresh(i)
    <2>1. i = Len(stack') /\ Publishing(c)
      BY <1>3 DEF Fresh, Comes
    <2>2. c \in Chan /\ (connection[c] => ~is_closing[c])
      <3>1. CASE c \in Chan /\ AppCalls(c, "BasicPublish")
        BY <3>1 DEF AppCalls, Orderly
      <3>2. CASE stack # <<>> /\ Top.op = "select" /\ c = Top.ch
        <4>1. Len(stack) \in 1 .. Len(stack) /\ Top = stack[Len(stack)]
          BY <1>0, <3>2, TopType DEF Top
        <4> QED BY <1>0, <3>2, <4>1 DEF PublishOK
      <3> QED BY <2>1, <3>1, <3>2 DEF Publishing
    <2>3. ~(is_closing'[c] /\ connection'[c])
      BY <2>1, <2>2 DEF ClosingMove
    <2> QED BY <2>2, <2>3
  <1> QED BY <1>0, <1>1, <1>2, <1>3, FramesMove

-----------------------------------------------------------------------------
(* Nothing is sent on channel 0 as long as the connection is in use.       *)
ZeroSent == sock /\ bconn = "open" => toServer[0] = <<>>

\* What is sent for a channel is not sent on channel 0.
LEMMA SentElsewhere ==
  ASSUME TypeOK, IdsConsistent, NEW c \in Chan, NEW ms, send_method(c, ms)
  PROVE  toServer'[0] = toServer[0]
  <1>1. PICK k \in Ids : k = channel_id[c]
    BY OwnStatus DEF send_method
  <1>2. k # 0 /\ 0 \in Ids0
    BY SideTypes, SpecAssumption DEF Ids0
  <1> QED BY <1>1, <1>2 DEF send_method, TypeOK, AbstractChannelTypeOK

\* The client sends nothing on channel 0 but Close and Close-Ok.
LEMMA ClientZero ==
  ASSUME TypeOK, Steady, ControlOK, IdsConsistent, ZeroSent, sock' => sock, Ordinary \/ Turns
  PROVE  ZeroSent'
  <1>0. 0 \in Ids0 /\ \A k \in Ids : k # 0
    BY SideTypes, SpecAssumption DEF Ids0
  <1>1. ASSUME toServer'[0] = toServer[0] \/ ~sock' PROVE ZeroSent'
    BY <1>1 DEF ZeroSent, Ordinary, Turns
  <1>2. CASE Ordinary
    <2>1. ASSUME NEW c \in Chan, NEW x \in Message, connection[c],
                 toServer' = [toServer EXCEPT ![channel_id[c]] = @ \o <<x>>]
          PROVE  toServer'[0] = toServer[0]
      <3>1. PICK k \in Ids : k = channel_id[c]
        BY <2>1, OwnStatus
      <3> QED BY <1>0, <2>1, <3>1 DEF TypeOK, AbstractChannelTypeOK
    <2> QED BY <1>1, <1>2, <2>1 DEF Ordinary, Calm, Sends
  <1>3. ASSUME NEW c \in 1 .. created, Channel_close(c) PROVE ZeroSent'
    <2>1. c \in Chan
      BY SpecAssumption DEF TypeOK, Chan
    <2> QED BY <1>1, <1>3, <2>1, SentElsewhere DEF Channel_close, send_method_raises
  <1>4. CASE CloseReturns \/ Channel_on_open_ok \/ Channel_on_close_ok
             \/ Connection_on_close_ok \/ ConnectionCloseReturns
    BY <1>1, <1>4 DEF CloseReturns, Channel_on_open_ok, Channel_on_close_ok,
       Connection_on_close_ok, ConnectionCloseReturns
  <1>5. CASE Channel_on_close
    <2>1. Target \in Chan
      BY <1>5, DispatchedTo DEF Channel_on_close, Control
    <2>2. UNCHANGED toServer \/ \E ms : send_method(Target, ms)
      BY <1>5, Zenon DEF Channel_on_close, send_method_raises, Agrees, do_revive
    <2> QED BY <1>1, <2>1, <2>2, SentElsewhere
  <1>6. CASE Connection_close
    BY <1>6 DEF Connection_close, AppCalls, Steady
  <1>7. CASE Connection_on_close
    BY <1>1, <1>7 DEF Connection_on_close, Connection_collect, send_method_raises
  <1>8. ASSUME NEW k \in Ids, NewChannel(k) PROVE ZeroSent'
    BY <1>0, <1>1, <1>8 DEF NewChannel, TypeOK, AbstractChannelTypeOK
  <1> QED BY <1>2, <1>3, <1>4, <1>5, <1>6, <1>7, <1>8 DEF Turns

\* The broker sends nothing for the client.
LEMMA BrokerZero ==
  ASSUME TypeOK, ZeroSent, BrokerStep
  PROVE  ZeroSent'
  <1>0. 0 \in Ids0 /\ \A k \in Ids : k # 0
    BY SideTypes, SpecAssumption DEF Ids0
  <1> SUFFICES ASSUME sock', bconn' = "open" PROVE toServer'[0] = <<>>
    BY DEF ZeroSent
  <1>1. CASE BrokerReceives
    <2>1. ASSUME NEW id \in Ids, NEW ms, Receives(id, ms), bconn = "open" PROVE toServer'[0] = <<>>
      BY <1>0, <2>1 DEF Receives, ZeroSent, TypeOK, AbstractChannelTypeOK
    <2>2. ~BrokerDisconnects
      BY DEF BrokerDisconnects
    <2>3. ASSUME NEW id, NEW m, BrokerReplies(id, m)
          PROVE  bconn = "open" /\ \E ms : Receives(id, ms)
      BY <2>3, Zenon DEF BrokerReplies
    <2>4. ASSUME NEW id, NEW t, BrokerConsumes(id, t)
          PROVE  bconn = "open" /\ \E ms : Receives(id, ms)
      BY <2>4, Zenon DEF BrokerConsumes
    <2>5. ASSUME NEW id, NEW r, NEW m, BrokerPublishes(id, r, m)
          PROVE  bconn = "open" /\ \E ms : Receives(id, ms)
      BY <2>5, Zenon DEF BrokerPublishes
    <2>6. ASSUME NEW id, \/ BrokerAccepts(id) \/ BrokerOpens(id) \/ BrokerCloses(id)
                         \/ BrokerDrops(id) \/ BrokerFails(id)
          PROVE  bconn = "open" /\ \E ms : Receives(id, ms)
      BY <2>6, Zenon DEF BrokerAccepts, BrokerOpens, BrokerCloses, BrokerDrops, BrokerFails
    <2>7. \E id \in Ids : bconn = "open" /\ \E ms : Receives(id, ms)
      BY <1>1, <2>2, <2>3, <2>4, <2>5, <2>6, Zenon DEF BrokerReceives
    <2> QED BY <2>1, <2>7
  <1>2. CASE BrokerEvent
    <2>1. UNCHANGED toServer /\ sock /\ bconn = "open"
      BY <1>2 DEF BrokerEvent, BrokerDelivers, BrokerCancels, BrokerFlows, BrokerClosesChannel,
         BrokerBlocks, BrokerClosesConnection, SocketBreaks, Happens
    <2> QED BY <2>1 DEF ZeroSent
  <1> QED BY <1>1, <1>2 DEF BrokerStep

\* Only a mistake makes the broker give up.
LEMMA BrokerNoError ==
  ASSUME TypeOK, AgreeOK, ZeroSent, NoProtocolError, BrokerStep
  PROVE  NoProtocolError'
  <1>1. ASSUME NEW id \in Ids, BrokerFails(id) PROVE NoProtocolError'
    <2>1. Talking
      BY <1>1 DEF BrokerFails, Receives, Talking, ZeroSent
    <2> QED BY <1>1, <2>1, NoMistake DEF NoProtocolError
  <1>2. ASSUME BrokerReceives, ~\E id \in Ids : BrokerFails(id)
        PROVE  bconn' = bconn \/ bconn' = "closed"
    BY <1>2 DEF BrokerReceives, BrokerReplies, BrokerAccepts, BrokerConsumes, BrokerPublishes,
       BrokerOpens, BrokerCloses, BrokerDrops, BrokerDisconnects, brokerVars
  <1>3. ASSUME BrokerEvent PROVE bconn' = bconn \/ bconn' = "closing"
    BY <1>3 DEF BrokerEvent, BrokerDelivers, BrokerCancels, BrokerFlows, BrokerClosesChannel,
       BrokerBlocks, BrokerClosesConnection, SocketBreaks
  <1> QED BY <1>1, <1>2, <1>3 DEF BrokerStep, NoProtocolError

-----------------------------------------------------------------------------
(* The invariants.                                                         *)

CallInv == /\ TypeOK /\ StackOK(pending, stack) /\ CallsOK(pending, stack)
           /\ NoChannelZero(toClient) /\ IdsConsistent /\ RepliesOK /\ RegistryOK

AgreementInv == ControlOK /\ NewOK /\ PublishOK /\ AgreeOK

\* What has been proved about calls, replies and ids.
LEMMA CallInvCorrect == Spec => []CallInv
  <1>1. Init => NoChannelZero(toClient)
    BY IdsInit
  <1>2. TypeOK /\ NoChannelZero(toClient) /\ [Next]_vars => NoChannelZero(toClient)'
    BY ZeroNext
  <1>3. Spec => []NoChannelZero(toClient)
    BY <1>1, <1>2, TypeCorrect, PTL DEF Spec
  <1>4. /\ TypeOK /\ StackOK(pending, stack) /\ CallsOK(pending, stack)
        /\ NoChannelZero(toClient) /\ IdsConsistent /\ ReplyInv
        => CallInv
    BY DEF CallInv, ReplyInv
  <1> QED BY <1>3, <1>4, TypeCorrect, StackCorrect, CallsCorrect, IdsCorrect, ReplyCorrect, PTL

\* Client and broker begin in step.
LEMMA AgreementInit == Init => AgreementInv /\ ZeroSent /\ NoProtocolError
  <1> SUFFICES ASSUME Init PROVE AgreementInv /\ ZeroSent /\ NoProtocolError
    OBVIOUS
  <1>1. /\ channels = [id \in Ids |-> 0] /\ is_closing = [c \in Obj |-> FALSE] /\ stack = <<>>
        /\ toServer = [id \in Ids0 |-> <<>>] /\ toClient = <<>> /\ is_open = [c \in Chan |-> FALSE]
        /\ bconn = "open" /\ bchan = [id \in Ids |-> "closed"]
    BY DEF Init, BrokerInit
  <1>2. 0 \in Obj /\ 0 \in Ids0 /\ Ids \subseteq Ids0
    BY SpecAssumption DEF Obj, Ids, Ids0
  <1>3. Items(<<>>) = {}
    BY ItemsNone
  <1>4. ControlOK
    BY <1>1, <1>3 DEF ControlOK
  <1>5. NewOK
    BY <1>1, ObjFacts DEF NewOK
  <1>6. PublishOK
    BY <1>1 DEF PublishOK
  <1>7. ASSUME NEW id \in Ids PROVE InStep(id)
    <2>1. toServer[id] = <<>> /\ bchan[id] = "closed" /\ Status(channels[id]) = "none"
      BY <1>1, <1>2 DEF Status
    <2>2. SentOK(<<>>, "closed")
      BY DEF SentOK
    <2>3. Names(<<>>) = {} /\ View(id, <<>>) = {}
      BY <1>3 DEF Names, View
    <2>4. Talk({}, {}, "closed", "none")
      BY DEF Talk
    <2> QED BY <1>1, <2>1, <2>2, <2>3, <2>4 DEF InStep
  <1>8. AgreeOK
    <2>1. ComingOK(toClient)
      BY <1>1 DEF ComingOK
    <2> QED BY <1>1, <1>2, <1>7, <2>1 DEF AgreeOK
  <1>9. ZeroSent /\ NoProtocolError
    BY <1>1, <1>2 DEF ZeroSent, NoProtocolError
  <1> QED BY <1>4, <1>5, <1>6, <1>8, <1>9 DEF AgreementInv

\* A step of the broker, or none, leaves the objects of the client alone.
LEMMA ObjectsStay ==
  ASSUME UNCHANGED <<clientVars, created>>, NewOK, PublishOK
  PROVE  NewOK' /\ PublishOK'
  BY DEF clientVars, chanVars, NewOK, PublishOK

\* Every step keeps the two sides in step.
LEMMA AgreementNext ==
  ASSUME Orderly, CallInv, TypeOK', AgreementInv, [Next]_vars
  PROVE  AgreementInv'
  <1>0. /\ TypeOK /\ StackOK(pending, stack) /\ CallsOK(pending, stack) /\ FramesOK(stack)
        /\ IdsConsistent /\ RepliesOK /\ RegistryOK
        /\ ControlOK /\ NewOK /\ PublishOK /\ AgreeOK
    BY DEF CallInv, AgreementInv, StackOK
  <1>1. CASE AppCall \/ LibraryStep \/ CallbackEnds \/ TimesOut
    <2>1. Ordinary \/ Turns
      BY <1>0, <1>1, PublishMay, ClientKinds
    <2>2. ControlOK'
      BY <1>0, <1>1, ClientControl
    <2>3. NewOK' /\ ClosingMove
      BY <1>0, <2>1, ClientNew, ClientCloses
    <2>4. PublishOK'
      BY <1>0, <2>3, PublishNext
    <2>5. AgreeOK'
      BY <1>0, <2>1, ClientAgrees
    <2> QED BY <2>2, <2>3, <2>4, <2>5 DEF AgreementInv
  <1>2. CASE BrokerStep
    <2>1. UNCHANGED <<clientVars, created>>
      BY <1>2, BrokerKeepsClient DEF BrokerStep
    <2> QED BY <1>0, <1>2, <2>1, BrokerControl, BrokerAgrees, ObjectsStay DEF AgreementInv
  <1>3. CASE UNCHANGED vars
    <2>1. UNCHANGED <<clientVars, created, sock, toServer, toClient, bconn, bchan>>
      BY <1>3 DEF vars, brokerVars
    <2>2. ControlOK'
      BY <1>0, <2>1 DEF ControlOK
    <2>3. UNCHANGED <<channels, connection, is_closing, is_open>>
      BY <2>1 DEF clientVars, chanVars
    <2>4. \A id \in Ids : Status(channels[id])' = Status(channels[id])
      BY <2>3 DEF Status
    <2>5. AgreeOK'
      BY <1>0, <2>1, <2>3, <2>4, PlainAgrees DEF Sends, Reads
    <2> QED BY <1>0, <2>1, <2>2, <2>5, ObjectsStay DEF AgreementInv
  <1> QED BY <1>1, <1>2, <1>3 DEF Next, Idle

\* ... and, as long as the connection is not closed, says nothing on channel 0.
LEMMA SteadyNext ==
  ASSUME Steady, CallInv, AgreementInv, ZeroSent, NoProtocolError, [Next]_vars
  PROVE  ZeroSent' /\ NoProtocolError'
  <1>0. /\ TypeOK /\ StackOK(pending, stack) /\ NoChannelZero(toClient) /\ Orderly
        /\ IdsConsistent /\ RepliesOK /\ RegistryOK
        /\ ControlOK /\ PublishOK /\ AgreeOK
    BY DEF CallInv, AgreementInv, Steady
  <1>1. CASE AppCall \/ LibraryStep \/ CallbackEnds \/ TimesOut
    <2>1. Ordinary \/ Turns
      BY <1>0, <1>1, PublishMay, ClientKinds
    <2>2. sock' => sock
      BY <1>0, NextLinked DEF Linked
    <2>3. ZeroSent'
      BY <1>0, <2>1, <2>2, ClientZero
    <2>4. UNCHANGED bconn
      BY <2>1 DEF Ordinary, Turns
    <2> QED BY <2>3, <2>4 DEF NoProtocolError
  <1>2. CASE BrokerStep
    BY <1>0, <1>2, BrokerZero, BrokerNoError
  <1>3. CASE UNCHANGED vars
    BY <1>3 DEF vars, brokerVars, ZeroSent, NoProtocolError
  <1> QED BY <1>1, <1>2, <1>3 DEF Next, Idle

\* The invariant of the agreement.
LEMMA AgreementCorrect == Orderly => (Spec => []AgreementInv)
  <1> SUFFICES ASSUME Orderly PROVE Spec => []AgreementInv
    OBVIOUS
  <1>1. CallInv /\ CallInv' /\ AgreementInv /\ [Next]_vars => AgreementInv'
    BY AgreementNext DEF CallInv
  <1>2. Init => AgreementInv
    BY AgreementInit
  <1> QED BY <1>1, <1>2, CallInvCorrect, PTL DEF Spec

\* ... and of a connection that is not closed.
LEMMA SteadyCorrect == Steady => (Spec => [](ZeroSent /\ NoProtocolError))
  <1> SUFFICES ASSUME Steady PROVE Spec => [](ZeroSent /\ NoProtocolError)
    OBVIOUS
  <1> DEFINE Inv == ZeroSent /\ NoProtocolError
  <1>1. CallInv /\ AgreementInv /\ Inv /\ [Next]_vars => Inv'
    BY SteadyNext
  <1>2. Init => Inv
    BY AgreementInit
  <1>3. Spec => []AgreementInv
    BY AgreementCorrect DEF Steady
  <1> HIDE DEF Inv
  <1>4. Spec => []Inv
    BY <1>1, <1>2, <1>3, CallInvCorrect, PTL DEF Spec
  <1> QED BY <1>4 DEF Inv

(***************************************************************************)
(* When all is quiet, client and broker agree on which channels are open,  *)
(* whatever came before: nested calls, calls cut short by a timeout or by  *)
(* an exception of a callback, a Close of the broker that crosses that of  *)
(* the client, the revival of a channel, and the reuse of its id.  The     *)
(* hypothesis is about the application: it does not use a channel that it  *)
(* is closing, and does not call open() itself.                            *)
(***************************************************************************)
THEOREM OpenAlwaysAgrees == Orderly => (Spec => []OpenAgrees)
  <1> SUFFICES ASSUME Orderly PROVE Spec => []OpenAgrees
    OBVIOUS
  <1>1. CallInv /\ AgreementInv => OpenAgrees
    <2> SUFFICES ASSUME CallInv, AgreementInv, Quiet, Connected, NEW c \in Chan, connection[c]
                 PROVE  is_open[c] <=> bchan[channel_id[c]] = "open"
      BY DEF OpenAgrees
    <2>1. TypeOK /\ IdsConsistent /\ AgreeOK
      BY DEF CallInv, AgreementInv
    <2>2. PICK k \in Ids : k = channel_id[c] /\ channels[k] = c /\ c # 0
      BY <2>1, OwnStatus
    <2>3. toServer[k] = <<>> /\ toServer[0] = <<>> /\ toClient = <<>>
      BY SpecAssumption DEF Quiet, Ids, Ids0
    <2>4. Talk(Names(<<>>), View(k, <<>>), bchan[k], Status(c))
      BY <2>1, <2>2, <2>3 DEF AgreeOK, Talking, Connected, InStep
    <2>5. Names(<<>>) = {} /\ View(k, <<>>) = {}
      BY ItemsNone DEF Names, View
    <2>6. bchan[k] \in Broker3 /\ Status(c) \in {"closing", "open", "opening"}
      BY <2>1, <2>2, SideTypes DEF Status
    <2>7. Status(c) = "open" /\ bchan[k] = "open"
      BY <2>4, <2>5, <2>6 DEF Talk, Broker3
    <2> QED BY <2>1, <2>2, <2>7, OwnStatus
  <1> QED BY <1>1, CallInvCorrect, AgreementCorrect, PTL

(***************************************************************************)
(* A channel id that has been released carries nothing of the channel that *)
(* had it: nothing is under way to the client, and the broker is done with *)
(* it, or will be when it reads the Close-Ok that is the last it is sent.  *)
(* The application, in addition, does not close the connection.            *)
(***************************************************************************)
THEOREM FreedIdAlwaysQuiet == Steady => (Spec => []FreedIdIsQuiet)
  <1> SUFFICES ASSUME Steady PROVE Spec => []FreedIdIsQuiet
    OBVIOUS
  <1> DEFINE Inv == ZeroSent /\ NoProtocolError
  <1>1. CallInv /\ AgreementInv /\ Inv => FreedIdIsQuiet
    <2> SUFFICES ASSUME CallInv, AgreementInv, ZeroSent, Connected, NEW k \in Ids, channels[k] = 0
                 PROVE  /\ \A i \in DOMAIN toClient : toClient[i].ch # k
                        /\ \/ bchan[k] = "closed" /\ toServer[k] = <<>>
                           \/ /\ bchan[k] = "closing"
                              /\ toServer[k] # <<>> /\ Last(toServer[k]).m = "ChannelCloseOk"
      BY DEF FreedIdIsQuiet
    <2> DEFINE s == toServer[k]
               N == Names(s)
               V == View(k, toClient)
               b == bchan[k]
    <2>1. TypeOK /\ AgreeOK /\ Talking
      BY DEF CallInv, AgreementInv, ZeroSent, Connected, Talking
    <2>2. s \in Seq(Message) /\ toClient \in Seq(Message) /\ SentOK(s, b) /\ Talk(N, V, b, "none")
      BY <2>1, SideTypes DEF AgreeOK, InStep, Status
    <2>3. V = {} /\ ((b = "closed" /\ N = {}) \/ (b = "closing" /\ N = {"ChannelCloseOk"}))
      <3> HIDE DEF N, V, b
      <3> QED BY <2>2 DEF Talk
    <2>4. ASSUME NEW i \in DOMAIN toClient PROVE toClient[i].ch # k
      <3>1. toClient[i] \in Items(toClient)
        BY <2>2, LenProperties DEF Items
      <3> QED BY <2>3, <3>1 DEF View
    <2>5. N = {} <=> s = <<>>
      BY <2>2, NamesEmpty
    <2>6. s # <<>> => s[Len(s)].m \in N
      BY <2>2, SentLast
    <2> QED BY <2>3, <2>4, <2>5, <2>6 DEF Last
  <1>2. Spec => []AgreementInv
    BY AgreementCorrect DEF Steady
  <1>3. Spec => []Inv
    BY SteadyCorrect
  <1> HIDE DEF Inv
  <1> QED BY <1>1, <1>2, <1>3, CallInvCorrect, PTL

(***************************************************************************)
(* The broker never has a reason to close the connection because of the    *)
(* order in which the client opens, uses and closes channels.              *)
(***************************************************************************)
THEOREM NeverProtocolError == Steady => (Spec => []NoProtocolError)
  <1> SUFFICES ASSUME Steady PROVE Spec => []NoProtocolError
    OBVIOUS
  <1>1. Spec => [](ZeroSent /\ NoProtocolError)
    BY SteadyCorrect
  <1> QED BY <1>1, PTL


-----------------------------------------------------------------------------
(* Publisher confirms, when the broker closes no channel of its own accord *)
(* (otherwise the channel is revived, and its flag is not reset).          *)
Unrevived == Orderly /\ "ChannelClose" \notin Events

Usable(c) == connection[c] /\ ~is_closing[c]

Selected(id) == bconfirm[id] \/ "ConfirmSelect" \in Names(toServer[id])

ConfirmOK ==
  /\ \A c \in Chan : c > created => ~confirm_selected[c]
  /\ Talking =>
       /\ \A id \in Ids : bchan[id] # "closing"
       /\ \A c \in Chan : Usable(c) /\ confirm_selected[c] => Selected(channel_id[c])

(* What the client has sent stays on its way. *)
SendsMore == \A id \in Ids0 : Names(toServer[id]) \subseteq Names(toServer'[id])

\* Sending adds to what is on its way.
LEMMA SendGrows ==
  ASSUME TypeOK, NEW k \in Ids0, NEW ms \in Seq(Message),
         toServer' = [toServer EXCEPT ![k] = @ \o ms]
  PROVE  SendsMore
  <1> SUFFICES ASSUME NEW id \in Ids0 PROVE Names(toServer[id]) \subseteq Names(toServer'[id])
    BY DEF SendsMore
  <1>1. toServer[id] \in Seq(Message) /\ toServer \in [Ids0 -> Seq(Message)]
    BY DEF TypeOK, AbstractChannelTypeOK
  <1>2. Items(toServer[id] \o ms) = Items(toServer[id]) \cup Items(ms)
    BY <1>1, ItemsBoth
  <1>3. toServer'[id] = toServer[id] \/ toServer'[id] = toServer[id] \o ms
    BY <1>1
  <1> QED BY <1>2, <1>3 DEF Names

\* One method, or two, of an object.
LEMMA MethodGrows ==
  ASSUME TypeOK, NEW c \in Obj, NEW x \in Message, NEW y \in Message,
         send_method(c, <<x>>) \/ send_method(c, <<x, y>>)
  PROVE  SendsMore
  <1> DEFINE k == channel_id[c]
             one == <<x>>
             two == <<x, y>>
  <1>1. k \in Ids0 /\ one \in Seq(Message) /\ two \in Seq(Message)
    BY ItemsFew DEF TypeOK, AbstractChannelTypeOK
  <1>2. \/ toServer' = [toServer EXCEPT ![k] = @ \o one]
        \/ toServer' = [toServer EXCEPT ![k] = @ \o two]
    BY DEF send_method
  <1> HIDE DEF one, two, k
  <1> QED BY <1>1, <1>2, SendGrows

\* Every step of the client, but for those that end the connection.
LEMMA ClientGrows ==
  ASSUME TypeOK, ControlOK, IdsConsistent, Ordinary \/ Turns, sock'
  PROVE  SendsMore
  <1>0. 0 \in Obj /\ 0 \in Ids0 /\ calls \in Nat
    BY SpecAssumption DEF Obj, Ids0, TypeOK, AbstractChannelTypeOK
  <1>1. CASE UNCHANGED toServer
    BY <1>1 DEF SendsMore
  <1>2. CASE Ordinary
    <2>1. ASSUME NEW c \in Chan, NEW x \in Message, connection[c],
                 toServer' = [toServer EXCEPT ![channel_id[c]] = @ \o <<x>>]
          PROVE  SendsMore
      <3> DEFINE ms == <<x>>
                 k == channel_id[c]
      <3>1. k \in Ids0 /\ ms \in Seq(Message)
        BY ItemsFew, ObjFacts DEF TypeOK, AbstractChannelTypeOK
      <3>2. toServer' = [toServer EXCEPT ![k] = @ \o ms]
        BY <2>1
      <3> HIDE DEF ms, k
      <3> QED BY <3>1, <3>2, SendGrows
    <2> QED BY <1>1, <1>2, <2>1 DEF Ordinary, Calm, Sends
  <1>3. ASSUME NEW c \in 1 .. created, Channel_close(c) PROVE SendsMore
    <2>1. c \in Obj
      BY SpecAssumption DEF TypeOK, Obj
    <2>2. Msg(channel_id[c], "ChannelClose", calls + 1) \in Message
      BY <1>0, <2>1, RequestType, MethodsFacts DEF TypeOK
    <2> QED BY <1>1, <1>3, <2>1, <2>2, MethodGrows DEF Channel_close, send_method_raises
  <1>4. CASE CloseReturns \/ Channel_on_open_ok \/ Channel_on_close_ok
             \/ Connection_on_close_ok \/ ConnectionCloseReturns
    BY <1>1, <1>4 DEF CloseReturns, Channel_on_open_ok, Channel_on_close_ok,
       Connection_on_close_ok, ConnectionCloseReturns
  <1>5. CASE Channel_on_close
    <2>1. Target \in Obj
      BY <1>5, DispatchedTo, ObjFacts DEF Channel_on_close, Control
    <2> DEFINE x == Agreed(Target)
               y == Msg(channel_id[Target], "ChannelOpen", 0)
    <2>2. x \in Message /\ y \in Message
      BY <2>1, RequestType, MethodsFacts DEF Agreed, TypeOK
    <2>3. \/ UNCHANGED toServer
          \/ send_method(Target, <<x>>)
          \/ send_method(Target, <<x, y>>)
      BY <1>5, Zenon DEF Channel_on_close, send_method_raises, Agrees, do_revive
    <2> HIDE DEF x, y
    <2> QED BY <1>1, <2>1, <2>2, <2>3, MethodGrows
  <1>6. CASE Connection_close
    <2>1. Msg(0, "ConnectionClose", calls + 1) \in Message
      BY <1>0, MsgType, MethodsFacts
    <2> QED BY <1>0, <1>1, <1>6, <2>1, MethodGrows DEF Connection_close, send_method_raises
  <1>7. CASE Connection_on_close
    BY <1>1, <1>7 DEF Connection_on_close, Connection_collect, send_method_raises
  <1>8. ASSUME NEW k \in Ids, NewChannel(k) PROVE SendsMore
    <2> DEFINE x == Msg(k, "ChannelOpen", calls + 1)
               ms == <<x>>
    <2>1. x \in Message /\ k \in Ids0 /\ toServer[k] \in Seq(Message)
      BY <1>0, MsgType, MethodsFacts, SideTypes
    <2>2. UNCHANGED toServer \/ toServer' = [toServer EXCEPT ![k] = Append(@, x)]
      BY <1>8 DEF NewChannel
    <2> HIDE DEF x
    <2>3. ms \in Seq(Message) /\ Append(toServer[k], x) = toServer[k] \o ms
      BY <2>1, ItemsFew, AppendIsConcat
    <2>4. UNCHANGED toServer \/ toServer' = [toServer EXCEPT ![k] = @ \o ms]
      BY <2>2, <2>3
    <2> HIDE DEF ms
    <2> QED BY <1>1, <2>1, <2>3, <2>4, SendGrows
  <1> QED BY <1>2, <1>3, <1>4, <1>5, <1>6, <1>7, <1>8 DEF Turns

\* Only basic_publish sets the flag.
LEMMA ChannelCallFlag ==
  ASSUME NEW c, ChannelCall(c)
  PROVE  UNCHANGED confirm_selected \/ basic_publish(c)
  <1>1. ASSUME NEW m, NEW nowait, Simple(c, m, nowait) \/ SimplePost(c, m)
        PROVE  UNCHANGED confirm_selected
    BY <1>1 DEF Simple, SimplePost, chanVars
  <1>2. CASE flow(c) \/ basic_get(c) \/ basic_qos(c) \/ tx_select(c) \/ tx_commit(c)
             \/ tx_rollback(c) \/ basic_recover(c) \/ basic_recover_async(c) \/ basic_ack(c)
             \/ basic_reject(c)
    BY <1>1, <1>2 DEF flow, basic_get, basic_qos, tx_select, tx_commit, tx_rollback,
       basic_recover, basic_recover_async, basic_ack, basic_reject
  <1>3. ASSUME NEW n, \/ exchange_declare(c, n) \/ exchange_delete(c, n) \/ exchange_bind(c, n)
                      \/ exchange_unbind(c, n) \/ queue_declare(c, n) \/ queue_bind(c, n)
                      \/ queue_unbind(c, n) \/ queue_delete(c, n) \/ queue_purge(c, n)
                      \/ confirm_select(c, n)
        PROVE  UNCHANGED confirm_selected
    BY <1>1, <1>3 DEF exchange_declare, exchange_delete, exchange_bind, exchange_unbind,
       queue_declare, queue_bind, queue_unbind, queue_delete, queue_purge, confirm_select
  <1>4. ASSUME NEW t, NEW n, NEW a, basic_cancel(c, t, n) \/ basic_consume(c, t, n, a)
        PROVE  UNCHANGED confirm_selected
    BY <1>4 DEF basic_cancel, basic_consume, chanVars
  <1>5. CASE Channel_open(c) \/ Channel_close(c)
    BY <1>5 DEF Channel_open, Channel_close, chanVars
  <1> QED BY <1>2, <1>3, <1>4, <1>5, Zenon DEF ChannelCall

\* Every step of the client.
LEMMA ClientFlag ==
  ASSUME AppCall \/ LibraryStep \/ CallbackEnds \/ TimesOut
  PROVE  /\ UNCHANGED bconfirm
         /\ \/ UNCHANGED confirm_selected
            \/ \E c \in 1 .. created : basic_publish(c) /\ UNCHANGED created
  <1>1. CASE AppCall
    <2>1. ASSUME NEW id, channel(id) PROVE UNCHANGED <<bconfirm, confirm_selected>>
      BY <2>1 DEF channel, NoChannel, NewChannel, chanVars, brokerVars
    <2>2. CASE drain_events \/ Connection_close
      BY <2>2 DEF drain_events, Connection_close, chanVars, brokerVars
    <2> QED BY <1>1, <2>1, <2>2, ChannelCallFlag DEF AppCall, brokerVars
  <1>2. CASE LibraryStep
    <2>1. BaseStep => UNCHANGED confirm_selected
      BY DEF BaseStep, chanVars
    <2>2. ChannelStep => UNCHANGED confirm_selected
      BY DEF ChannelStep, Channel_on_open_ok, Channel_on_close_ok, Channel_on_close,
         on_flow, on_basic_cancel_ok, on_basic_cancel, on_basic_deliver, on_basic_ack,
         on_basic_nack, on_basic_return, CloseReturns, ReviveReturns, ConsumeReturns,
         SelectReturns, PublishWrites, chanVars
    <2>3. ConnectionStep => UNCHANGED <<bconfirm, confirm_selected>>
      BY DEF ConnectionStep, Connection_on_close_ok, Connection_on_close, on_blocked,
         ConnectionCloseReturns, chanVars, brokerVars
    <2> QED BY <1>2, <2>1, <2>2, <2>3 DEF LibraryStep, brokerVars
  <1>3. CASE CallbackEnds \/ TimesOut
    BY <1>3 DEF CallbackEnds, TimesOut, chanVars, brokerVars
  <1> QED BY <1>1, <1>2, <1>3
(* An object that may be used was usable before, under the same id, or is  *)
(* new.                                                                    *)
UsableMove ==
  \A c \in Chan : Usable(c)' =>
    \/ Usable(c) /\ channel_id'[c] = channel_id[c]
    \/ c > created

\* Every step of the client.
LEMMA ClientUsable ==
  ASSUME TypeOK, FramesOK(stack), ControlOK, Ordinary \/ Turns
  PROVE  UsableMove
  <1>0. 0 \in Obj /\ 0 \notin Chan /\ created \in Nat /\ Chan \subseteq Obj /\ Chan \subseteq Nat
    BY SpecAssumption DEF TypeOK, Obj, Chan
  <1>1. CASE UNCHANGED <<connection, is_closing, channel_id>>
    BY <1>1 DEF UsableMove, Usable
  <1>2. ASSUME NEW c \in Chan, UNCHANGED channel_id,
               CloseFinally(c) \/ (UNCHANGED connection
                                   /\ is_closing' = [is_closing EXCEPT ![c] = TRUE])
        PROVE  UsableMove
    BY <1>0, <1>2 DEF CloseFinally, UsableMove, Usable, TypeOK, AbstractChannelTypeOK
  <1>3. CASE Ordinary \/ Channel_on_open_ok \/ Channel_on_close
    BY <1>1, <1>3 DEF Ordinary, Calm, Channel_on_open_ok, Channel_on_close
  <1>4. ASSUME NEW c \in 1 .. created, Channel_close(c) PROVE UsableMove
    <2>1. c \in Chan
      BY SpecAssumption DEF TypeOK, Chan
    <2> QED BY <1>2, <1>4, <2>1 DEF Channel_close
  <1>5. CASE CloseReturns
    <2>1. stack \in Seq(Frame) /\ stack # <<>> /\ Top.op = "close"
      BY <1>5 DEF TypeOK, AbstractChannelTypeOK, CloseReturns, Returns, Unwinds
    <2>2. Top \in Frame /\ Len(stack) \in 1 .. Len(stack) /\ Top = stack[Len(stack)]
      BY <2>1, TopType DEF Top
    <2>3. Top.ch \in Chan
      BY <2>1, <2>2 DEF FramesOK, Frame, Obj, Chan
    <2> QED BY <1>2, <1>5, <2>3 DEF CloseReturns
  <1>6. ASSUME NEW S, Cleared(S), \A c \in Chan : connection'[c] => c \notin S /\ connection[c],
               \A c \in Chan : is_closing'[c] = is_closing[c]
        PROVE  UsableMove
    BY <1>0, <1>6 DEF Cleared, UsableMove, Usable, TypeOK, AbstractChannelTypeOK
  <1>7. CASE Channel_on_close_ok
    <2>1. Target \in Chan
      BY <1>7, DispatchedTo DEF Channel_on_close_ok, Control
    <2> QED BY <1>0, <1>6, <1>7, <2>1
            DEF Channel_on_close_ok, Channel_collect, TypeOK, AbstractChannelTypeOK
  <1>8. CASE Connection_close \/ Connection_on_close \/ Connection_on_close_ok
             \/ ConnectionCloseReturns
    <2>1. \A c \in Chan : is_closing'[c] = is_closing[c]
      BY <1>0, <1>8 DEF Connection_close, Connection_on_close, Connection_on_close_ok,
         ConnectionCloseReturns, TypeOK, AbstractChannelTypeOK
    <2>2. CASE Connection_collect
      BY <1>0, <1>6, <2>1, <2>2 DEF Connection_collect
    <2>3. CASE ~Connection_collect
      <3>1. UNCHANGED <<connection, channel_id>>
        BY <1>8, <2>3 DEF Connection_close, Connection_on_close, Connection_on_close_ok,
           ConnectionCloseReturns, CloseFails
      <3> QED BY <2>1, <3>1 DEF UsableMove, Usable
    <2> QED BY <2>2, <2>3
  <1>9. ASSUME NEW k, NewChannel(k) PROVE UsableMove
    BY <1>0, <1>9 DEF NewChannel, UsableMove, Usable, TypeOK, AbstractChannelTypeOK
  <1> QED BY <1>3, <1>4, <1>5, <1>7, <1>8, <1>9 DEF Turns

\* A step of the client keeps ConfirmOK.
LEMMA ClientConfirms ==
  ASSUME TypeOK, TypeOK', FramesOK(stack), ControlOK, IdsConsistent, ConfirmOK,
         sock' => sock, created' >= created, Ordinary \/ Turns,
         AppCall \/ LibraryStep \/ CallbackEnds \/ TimesOut
  PROVE  ConfirmOK'
  <1>0. created \in Nat /\ created' \in Nat /\ Chan \subseteq Nat /\ 0 \in Ids0
        /\ Chan \subseteq Obj
    BY SpecAssumption DEF TypeOK, Chan, Obj, Ids0
  <1>1. UNCHANGED <<bconn, bchan, bconfirm>>
    BY ClientFlag DEF Ordinary, Turns
  <1>2. UsableMove
    BY ClientUsable
  <1>3. ASSUME Talking' PROVE SendsMore /\ Talking
    <2>1. SendsMore
      BY <1>3, ClientGrows DEF Talking
    <2>2. toServer[0] \in Seq(Message) /\ toServer'[0] \in Seq(Message)
      BY <1>0 DEF TypeOK, AbstractChannelTypeOK
    <2>3. Names(toServer'[0]) = {} /\ Names(toServer[0]) \subseteq Names(toServer'[0])
      BY <1>0, <1>3, <2>1, <2>2, NamesEmpty DEF Talking, SendsMore
    <2>4. toServer[0] = <<>>
      BY <2>2, <2>3, NamesEmpty
    <2> QED BY <1>1, <1>3, <2>1, <2>4 DEF Talking
  <1>4. ASSUME NEW id \in Ids, Talking', Selected(id) PROVE Selected(id)'
    <2>1. id \in Ids0
      BY SideTypes
    <2> QED BY <1>1, <1>3, <1>4, <2>1 DEF SendsMore, Selected
  <1>5. ASSUME NEW c \in Chan, Talking', Usable(c)', confirm_selected[c]
        PROVE  Selected(channel_id[c])'
    <2>1. Usable(c) /\ channel_id'[c] = channel_id[c]
      BY <1>2, <1>5 DEF UsableMove, ConfirmOK
    <2>2. PICK k \in Ids : k = channel_id[c] /\ Selected(k)
      BY <1>3, <1>5, <2>1, OwnStatus DEF ConfirmOK, Usable
    <2>3. Selected(k)' /\ channel_id'[c] = k
      BY <1>4, <1>5, <2>1, <2>2
    <2> QED BY <2>3 DEF Selected
  <1>6. CASE UNCHANGED confirm_selected
    <2>1. \A c \in Chan : c > created' => ~confirm_selected'[c]
      BY <1>0, <1>6 DEF ConfirmOK
    <2>2. Talking' => \A id \in Ids : bchan'[id] # "closing"
      BY <1>1, <1>3 DEF ConfirmOK
    <2> QED BY <1>5, <1>6, <2>1, <2>2 DEF ConfirmOK
  <1>7. ASSUME NEW c \in 1 .. created, basic_publish(c), UNCHANGED created,
               ~UNCHANGED confirm_selected
        PROVE  ConfirmOK'
    <2>0. c \in Chan /\ c \in Obj
      BY SpecAssumption DEF TypeOK, Chan, Obj
    <2> DEFINE req == Msg(channel_id[c], "ConfirmSelect", calls + 1)
    <2>1. /\ confirm_selected' = [confirm_selected EXCEPT ![c] = TRUE]
          /\ send_method(c, <<req>>) \/ ~(connection[c] /\ sock)
          /\ UNCHANGED <<channel_id, connection, is_closing, sock>>
      BY <1>7 DEF basic_publish, Selects, send_method_raises
    <2>2. req \in Message /\ req.m = "ConfirmSelect"
      BY <2>0, RequestType, MethodsFacts DEF TypeOK, Msg
    <2> HIDE DEF req
    <2>3. ASSUME send_method(c, <<req>>) PROVE Selected(channel_id[c])'
      <3>1. PICK k \in Ids : k = channel_id[c] /\ k \in Ids0
        BY <2>0, <2>3, OwnStatus, SideTypes DEF send_method
      <3>2. toServer'[k] = toServer[k] \o <<req>> /\ toServer[k] \in Seq(Message)
        BY <2>3, <3>1 DEF send_method, TypeOK, AbstractChannelTypeOK
      <3>3. "ConfirmSelect" \in Names(toServer'[k])
        BY <2>2, <3>2, NamesMove
      <3> QED BY <2>1, <3>1, <3>3 DEF Selected
    <2>4. \A d \in Chan : d > created' => ~confirm_selected'[d]
      BY <1>0, <1>7, <2>0, <2>1 DEF ConfirmOK, TypeOK, ChannelTypeOK
    <2>5. Talking' => \A id \in Ids : bchan'[id] # "closing"
      BY <1>1, <1>3 DEF ConfirmOK
    <2>6. ASSUME NEW d \in Chan, Talking', Usable(d)', confirm_selected'[d]
          PROVE  Selected(channel_id[d])'
      <3>1. CASE d = c
        BY <2>1, <2>3, <2>6, <3>1 DEF Talking, Usable
      <3>2. CASE d # c
        BY <1>5, <2>1, <2>6, <3>2 DEF TypeOK, ChannelTypeOK
      <3> QED BY <3>1, <3>2
    <2> QED BY <2>4, <2>5, <2>6 DEF ConfirmOK
  <1> QED BY <1>6, <1>7, ClientFlag

(* The broker takes a method of a channel, and remembers Select. *)
Keeps(k) ==
  /\ sock /\ bconn = "open" /\ toServer[k] # <<>>
  /\ toServer' = [toServer EXCEPT ![k] = Tail(@)]
  /\ \A id \in Ids \ {k} : bconfirm'[id] = bconfirm[id]
  /\ \/ bconfirm[k] \/ Head(toServer[k]).m = "ConfirmSelect" => bconfirm'[k]
     \/ Head(toServer[k]).m = "ChannelClose"
     \/ bchan[k] = "closing"

\* What the broker may do to the confirm mode of a channel.
LEMMA BrokerKeeps ==
  ASSUME TypeOK, "ChannelClose" \notin Events, BrokerStep, sock', bconn' = "open"
  PROVE  /\ \A id \in Ids : bchan'[id] = "closing" => bchan[id] = "closing"
         /\ \/ \E k \in Ids : Keeps(k)
            \/ UNCHANGED <<sock, bconn, toServer, bconfirm>>
  <1>0. bconfirm \in [Ids -> BOOLEAN] /\ bchan \in [Ids -> Broker3]
    BY DEF TypeOK, BrokerTypeOK, Broker3
  <1>1. ASSUME NEW k \in Ids, NEW m, BrokerReplies(k, m) PROVE Keeps(k) /\ UNCHANGED bchan
    BY <1>0, <1>1 DEF BrokerReplies, Receives, Received, Keeps
  <1>2. ASSUME NEW k \in Ids, BrokerAccepts(k) \/ BrokerOpens(k) \/ BrokerDrops(k)
        PROVE  Keeps(k)
    <2>1. "ConfirmSelect" \notin Async
      BY DEF Async
    <2> QED BY <1>0, <1>2, <2>1 DEF BrokerAccepts, BrokerOpens, BrokerDrops, Receives, Received,
               Keeps, brokerVars
  <1>3. ASSUME NEW k \in Ids, NEW t, BrokerConsumes(k, t) PROVE Keeps(k) /\ UNCHANGED bchan
    BY <1>0, <1>3 DEF BrokerConsumes, Receives, Received, Keeps
  <1>4. ASSUME NEW k \in Ids, NEW r, NEW m, BrokerPublishes(k, r, m)
        PROVE  Keeps(k) /\ UNCHANGED bchan
    BY <1>0, <1>4 DEF BrokerPublishes, Receives, Received, Keeps
  <1>5. ASSUME NEW k \in Ids, BrokerCloses(k) PROVE Keeps(k)
    BY <1>0, <1>5 DEF BrokerCloses, Receives, Received, Keeps, Reset
  <1>6. ASSUME NEW k \in Ids,
               BrokerAccepts(k) \/ BrokerOpens(k) \/ BrokerDrops(k) \/ BrokerCloses(k)
        PROVE  \A id \in Ids : bchan'[id] = "closing" => bchan[id] = "closing"
    BY <1>0, <1>6 DEF BrokerAccepts, BrokerOpens, BrokerDrops, BrokerCloses, brokerVars
  <1>7. ASSUME NEW k \in Ids PROVE ~BrokerFails(k)
    BY DEF BrokerFails
  <1>8. ~BrokerDisconnects
    BY DEF BrokerDisconnects
  <1>9. CASE BrokerReceives
    BY <1>1, <1>2, <1>3, <1>4, <1>5, <1>6, <1>7, <1>8, <1>9 DEF BrokerReceives
  <1>10. CASE BrokerEvent
    BY <1>10 DEF BrokerEvent, BrokerDelivers, BrokerCancels, BrokerFlows, BrokerClosesChannel,
       BrokerBlocks, BrokerClosesConnection, SocketBreaks, Happens
  <1> QED BY <1>9, <1>10 DEF BrokerStep

\* A step of the broker keeps ConfirmOK.
LEMMA BrokerConfirms ==
  ASSUME TypeOK, Unrevived, IdsConsistent, AgreeOK, ConfirmOK, BrokerStep,
         UNCHANGED <<clientVars, created>>
  PROVE  ConfirmOK'
  <1>0. UNCHANGED <<channel_id, connection, is_closing, confirm_selected, created>>
    BY DEF clientVars, chanVars
  <1>1. \A c \in Chan : c > created' => ~confirm_selected'[c]
    BY <1>0 DEF ConfirmOK
  <1> SUFFICES ASSUME Talking'
               PROVE  /\ \A id \in Ids : bchan'[id] # "closing"
                      /\ \A c \in Chan : (Usable(c) /\ confirm_selected[c])'
                                           => Selected(channel_id[c])'
    BY <1>1 DEF ConfirmOK
  <1>2. sock' /\ bconn' = "open" /\ toServer'[0] = <<>>
    BY DEF Talking
  <1>3. /\ \A id \in Ids : bchan'[id] = "closing" => bchan[id] = "closing"
        /\ \/ \E k \in Ids : Keeps(k)
           \/ UNCHANGED <<sock, bconn, toServer, bconfirm>>
    BY <1>2, BrokerKeeps DEF Unrevived
  <1>4. toServer \in [Ids0 -> Seq(Message)] /\ 0 \in Ids0 /\ \A k \in Ids : k # 0
    BY SideTypes, SpecAssumption DEF TypeOK, AbstractChannelTypeOK, Ids0
  <1>5. Talking
    <2>1. ASSUME NEW k \in Ids, Keeps(k) PROVE Talking
      BY <1>2, <1>4, <2>1 DEF Keeps, Talking
    <2> QED BY <1>2, <1>3, <2>1 DEF Talking
  <1>6. \A id \in Ids : bchan[id] # "closing" /\ bchan'[id] # "closing"
    BY <1>3, <1>5 DEF ConfirmOK
  <1>7. ASSUME NEW c \in Chan, (Usable(c) /\ confirm_selected[c])' PROVE Selected(channel_id[c])'
    <2>1. Usable(c) /\ confirm_selected[c]
      BY <1>0, <1>7 DEF Usable
    <2>2. PICK id \in Ids : id = channel_id[c] /\ channels[id] = c /\ Selected(id)
      BY <1>5, <2>1, OwnStatus DEF Usable, ConfirmOK
    <2>3. Status(channels[id]) \in {"open", "opening"}
      BY <2>1, <2>2, OwnStatus DEF Usable
    <2> DEFINE s == toServer[id]
               N == Names(s)
    <2>4. "ChannelClose" \notin N
      BY <1>5, <2>3 DEF AgreeOK, InStep, Talk
    <2>5. ASSUME NEW k \in Ids, Keeps(k) PROVE Selected(id)'
      <3>1. CASE k # id
        <4>1. toServer'[id] = toServer[id] /\ bconfirm'[id] = bconfirm[id]
          BY <1>4, <2>5, <3>1, SideTypes DEF Keeps
        <4> QED BY <2>2, <4>1 DEF Selected
      <3>2. CASE k = id
        <4>1. s \in Seq(Message) /\ s # <<>> /\ toServer'[id] = Tail(s)
          BY <1>4, <2>5, <3>2, SideTypes DEF Keeps
        <4>2. Head(s).m \in N /\ N \subseteq Names(Tail(s)) \cup {Head(s).m}
          BY <4>1, NamesMove
        <4>3. bconfirm[id] \/ Head(s).m = "ConfirmSelect" => bconfirm'[id]
          BY <1>6, <2>4, <2>5, <3>2, <4>2 DEF Keeps
        <4>4. bconfirm[id] \/ "ConfirmSelect" \in N
          BY <2>2 DEF Selected
        <4>5. bconfirm'[id] \/ "ConfirmSelect" \in Names(toServer'[id])
          BY <4>1, <4>2, <4>3, <4>4
        <4> QED BY <4>5 DEF Selected
      <3> QED BY <3>1, <3>2
    <2>6. ASSUME UNCHANGED <<toServer, bconfirm>> PROVE Selected(id)'
      BY <2>2, <2>6 DEF Selected
    <2>7. Selected(id)' /\ channel_id'[c] = id
      BY <1>0, <1>3, <2>2, <2>5, <2>6
    <2> QED BY <2>7 DEF Selected
  <1> QED BY <1>6, <1>7

\* The invariant of publisher confirms.
LEMMA ConfirmCorrect == Unrevived => (Spec => []ConfirmOK)
  <1> SUFFICES ASSUME Unrevived PROVE Spec => []ConfirmOK
    OBVIOUS
  <1>1. Init => ConfirmOK
    <2> SUFFICES ASSUME Init PROVE ConfirmOK
      OBVIOUS
    <2>1. /\ confirm_selected = [c \in Chan |-> FALSE]
          /\ bchan = [id \in Ids |-> "closed"]
      BY DEF Init, BrokerInit
    <2> QED BY <2>1 DEF ConfirmOK
  <1>2. ASSUME CallInv, TypeOK', AgreementInv, ConfirmOK, [Next]_vars PROVE ConfirmOK'
    <2>0. /\ TypeOK /\ StackOK(pending, stack) /\ NoChannelZero(toClient) /\ FramesOK(stack)
          /\ IdsConsistent /\ RepliesOK /\ RegistryOK /\ Orderly
          /\ ControlOK /\ PublishOK /\ AgreeOK
      BY <1>2 DEF CallInv, AgreementInv, StackOK, Unrevived
    <2>1. CASE AppCall \/ LibraryStep \/ CallbackEnds \/ TimesOut
      <3>1. Ordinary \/ Turns
        BY <2>0, <2>1, PublishMay, ClientKinds
      <3>2. sock' => sock
        BY <1>2, <2>0, NextLinked DEF Linked
      <3>3. created' >= created
        BY <2>0, <3>1 DEF Ordinary, Turns, NewChannel, TypeOK
      <3> QED BY <1>2, <2>0, <2>1, <3>1, <3>2, <3>3, ClientConfirms
    <2>2. CASE BrokerStep
      <3>1. UNCHANGED <<clientVars, created>>
        BY <2>2, BrokerKeepsClient DEF BrokerStep
      <3> QED BY <1>2, <2>0, <2>2, <3>1, BrokerConfirms
    <2>3. CASE UNCHANGED vars
      BY <1>2, <2>3 DEF vars, brokerVars, clientVars, chanVars, ConfirmOK, Talking, Usable, Selected
    <2> QED BY <1>2, <2>1, <2>2, <2>3 DEF Next, Idle
  <1>3. CallInv /\ CallInv' /\ AgreementInv /\ ConfirmOK /\ [Next]_vars => ConfirmOK'
    BY <1>2 DEF CallInv
  <1>4. Spec => []AgreementInv
    BY AgreementCorrect DEF Unrevived
  <1> QED BY <1>1, <1>3, <1>4, CallInvCorrect, PTL DEF Spec

(***************************************************************************)
(* _confirm_selected does not lie: when all is quiet, a channel that has   *)
(* it set is in confirm mode at the broker, whatever interrupted the       *)
(* confirm_select() that basic_publish_confirm makes after setting it.     *)
(* The broker closes no channel: a channel that is revived keeps the flag  *)
(* and has lost the mode.                                                  *)
(***************************************************************************)
THEOREM ConfirmAlwaysAgrees == Unrevived => (Spec => []ConfirmAgrees)
  <1> SUFFICES ASSUME Unrevived PROVE Spec => []ConfirmAgrees
    OBVIOUS
  <1>1. CallInv /\ AgreementInv /\ ConfirmOK => ConfirmAgrees
    <2> SUFFICES ASSUME CallInv, AgreementInv, ConfirmOK, Quiet, Connected, NEW c \in Chan,
                        connection[c], confirm_selected[c]
                 PROVE  bconfirm[channel_id[c]]
      BY DEF ConfirmAgrees
    <2>1. TypeOK /\ IdsConsistent /\ AgreeOK
      BY DEF CallInv, AgreementInv
    <2>2. PICK k \in Ids : k = channel_id[c] /\ channels[k] = c /\ c # 0
      BY <2>1, OwnStatus
    <2>3. toServer[k] = <<>> /\ toServer[0] = <<>> /\ toClient = <<>>
      BY SpecAssumption DEF Quiet, Ids, Ids0
    <2>4. Talking /\ Talk(Names(<<>>), View(k, <<>>), bchan[k], Status(c))
      BY <2>1, <2>2, <2>3 DEF AgreeOK, Talking, Connected, InStep
    <2>5. Names(<<>>) = {} /\ View(k, <<>>) = {}
      BY ItemsNone DEF Names, View
    <2>6. Usable(c)
      <3>1. Status(c) # "closing"
        BY <2>4, <2>5 DEF Talk
      <3> QED BY <2>1, <3>1, OwnStatus DEF Usable
    <2>7. Selected(k)
      BY <2>2, <2>4, <2>6 DEF ConfirmOK
    <2> QED BY <2>2, <2>3, <2>5, <2>7 DEF Selected
  <1>2. Spec => []AgreementInv
    BY AgreementCorrect DEF Unrevived
  <1> QED BY <1>1, <1>2, ConfirmCorrect, CallInvCorrect, PTL
=============================================================================
