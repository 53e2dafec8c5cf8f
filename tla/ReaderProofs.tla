---------------------------- MODULE ReaderProofs ----------------------------
(***************************************************************************)
(* Proofs about module Reader, for every size of frames, every number of   *)
(* channels and every bound.                                               *)
(*                                                                         *)
(* The transport reads the stream as it is: timeouts in any part of a      *)
(* frame lose, repeat and move no byte.  A piece of the stream is a Run of *)
(* positions.  The invariant says which: what read_frame has, what _read   *)
(* has and what is still on the wire are three or four runs that follow    *)
(* each other from the beginning of the next frame.  NothingLost alone is  *)
(* not inductive: it does not say that the unpacked header is that         *)
(* frame's, nor how much of the frame each of read_frame_buffer and part1  *)
(* holds.                                                                  *)
(*                                                                         *)
(* The frame handler puts the broker's methods together again: it is in    *)
(* step with the broker (HandlerInStep), and Reader implements             *)
(* MethodDelivery, for every way of cutting bodies into frames and of      *)
(* mixing the frames of channels, and whatever wrong frames come in        *)
(* between.  Handler and broker are a number of frames apart: those on the *)
(* stream.  The invariant says that there is a history, of the broker's    *)
(* record of every channel (peer) and of the methods it has sent, before   *)
(* and after each frame of the stream, that ends with the present, and     *)
(* that the handler is where the history is after the frames handled.      *)
(* What the broker does appends to the history, what the handler does goes *)
(* one frame on in it: nothing need be computed by recursion over frames.  *)
(***************************************************************************)
EXTENDS Reader, SequenceTheorems, TLAPS

\* Run(a, b) is the bytes a + 1 .. b, in order.
LEMMA RunProperties ==
  ASSUME NEW a \in Nat, NEW b \in Nat, a <= b
  PROVE  /\ Run(a, b) \in Seq(Nat)
         /\ Len(Run(a, b)) = b - a
         /\ \A k \in 1 .. b - a : Run(a, b)[k] = a + k
<1>1. b - a \in Nat
  OBVIOUS
<1> DEFINE n == b - a
<1>2. Run(a, b) = [k \in 1 .. n |-> a + k]
  BY DEF Run
<1>3. \A k \in 1 .. n : a + k \in Nat
  BY <1>1
<1> HIDE DEF n
<1> QED BY <1>1, <1>2, <1>3 DEF n

\* An empty run.
LEMMA RunEmpty == \A a \in Nat : Run(a, a) = << >>
<1> SUFFICES ASSUME NEW a \in Nat PROVE Run(a, a) = << >>
  OBVIOUS
<1> QED BY RunProperties

\* Two adjacent runs make one.
LEMMA RunConcat ==
  ASSUME NEW a \in Nat, NEW b \in Nat, NEW c \in Nat, a <= b, b <= c
  PROVE  Run(a, b) \o Run(b, c) = Run(a, c)
<1> DEFINE s == Run(a, b)
           t == Run(b, c)
           u == Run(a, c)
<1>1. s \in Seq(Nat) /\ Len(s) = b - a /\ \A k \in 1 .. b - a : s[k] = a + k
  BY RunProperties
<1>2. t \in Seq(Nat) /\ Len(t) = c - b /\ \A k \in 1 .. c - b : t[k] = b + k
  BY RunProperties
<1>3. a <= c
  OBVIOUS
<1>4. u \in Seq(Nat) /\ Len(u) = c - a /\ \A k \in 1 .. c - a : u[k] = a + k
  BY <1>3, RunProperties
<1> HIDE DEF s, t, u
<1>5. /\ s \o t \in Seq(Nat) /\ Len(s \o t) = Len(s) + Len(t)
      /\ \A i \in 1 .. Len(s) + Len(t) :
           (s \o t)[i] = IF i <= Len(s) THEN s[i] ELSE t[i - Len(s)]
  BY <1>1, <1>2, ConcatProperties, Zenon
<1>6. Len(s) + Len(t) = c - a
  BY <1>1, <1>2
<1>7. ASSUME NEW i \in 1 .. c - a
      PROVE  (s \o t)[i] = u[i]
  <2>1. u[i] = a + i
    BY <1>4
  <2>2. CASE i <= b - a
    <3>1. (s \o t)[i] = s[i]
      BY <1>1, <1>5, <1>6, <2>2
    <3> QED BY <1>1, <2>1, <2>2, <3>1
  <2>3. CASE ~(i <= b - a)
    <3>1. (s \o t)[i] = t[i - (b - a)]
      BY <1>1, <1>5, <1>6, <2>3
    <3>2. i - (b - a) \in 1 .. c - b
      BY <2>3
    <3>3. t[i - (b - a)] = b + (i - (b - a))
      BY <1>2, <3>2
    <3> QED BY <2>1, <3>1, <3>3
  <2> QED BY <2>2, <2>3
<1>8. s \o t = u
  BY <1>4, <1>5, <1>6, <1>7, SeqEqual
<1> QED BY <1>8 DEF s, t, u

(* The first k elements of a run, and the others.                          *)
FirstOf(s, k) == SubSeq(s, 1, k)
AfterOf(s, k) == SubSeq(s, k + 1, Len(s))

\* Cutting a run after k bytes gives two adjacent runs.
LEMMA RunSplit ==
  ASSUME NEW a \in Nat, NEW b \in Nat, NEW k \in Nat, a + k <= b
  PROVE  /\ FirstOf(Run(a, b), k) = Run(a, a + k)
         /\ AfterOf(Run(a, b), k) = Run(a + k, b)
<1> DEFINE s == Run(a, b)
           t == Run(a, a + k)
           u == Run(a + k, b)
<1>0. a <= b /\ a <= a + k /\ a + k \in Nat /\ a + k - a = k
  OBVIOUS
<1>1. s \in Seq(Nat) /\ Len(s) = b - a /\ \A i \in 1 .. b - a : s[i] = a + i
  BY <1>0, RunProperties
<1>2. t \in Seq(Nat) /\ Len(t) = k /\ \A i \in 1 .. k : t[i] = a + i
  BY <1>0, RunProperties
<1>3. u \in Seq(Nat) /\ Len(u) = b - (a + k) /\ \A i \in 1 .. b - (a + k) : u[i] = (a + k) + i
  BY <1>0, RunProperties
<1> HIDE DEF s, t, u
<1>4. SubSeq(s, 1, k) = t
  <2>1. \A i \in 1 .. k : s[i] \in Nat
    BY <1>1
  <2> DEFINE v == SubSeq(s, 1, k)
  <2>2. v \in Seq(Nat) /\ Len(v) = k /\ \A i \in 1 .. k : v[i] = s[i]
    BY <2>1, SubSeqProperties
  <2> HIDE DEF v
  <2>3. \A i \in 1 .. k : v[i] = t[i]
    BY <2>2, <1>1, <1>2
  <2>4. v = t
    BY <2>2, <2>3, <1>2, SeqEqual
  <2> QED BY <2>4 DEF v
<1>5. SubSeq(s, k + 1, Len(s)) = u
  <2> DEFINE v == SubSeq(s, k + 1, b - a)
  <2>1. \A i \in k + 1 .. b - a : s[i] \in Nat
    BY <1>1
  <2>2. /\ v \in Seq(Nat) /\ Len(v) = b - (a + k)
        /\ \A i \in 1 .. b - (a + k) : v[i] = s[k + i]
    BY <2>1, SubSeqProperties
  <2> HIDE DEF v
  <2>3. \A i \in 1 .. b - (a + k) : v[i] = u[i]
    BY <2>2, <1>1, <1>3
  <2>4. v = u
    BY <2>2, <2>3, <1>3, SeqEqual
  <2> QED BY <1>1, <2>4 DEF v
<1> QED BY <1>4, <1>5 DEF s, t, u, FirstOf, AfterOf

(* Two runs that begin at different places differ.                         *)
LEMMA RunInjective ==
  ASSUME NEW a \in Nat, NEW b \in Nat, NEW c \in Nat, NEW d \in Nat, a < c, b <= d,
         Run(a, c) = Run(b, d)
  PROVE  a = b /\ c = d
<1>1. Len(Run(a, c)) = c - a /\ \A k \in 1 .. c - a : Run(a, c)[k] = a + k
  <2> a <= c
    OBVIOUS
  <2> QED BY RunProperties
<1>2. Len(Run(b, d)) = d - b /\ \A k \in 1 .. d - b : Run(b, d)[k] = b + k
  BY RunProperties
<1>3. c - a = d - b /\ 1 \in 1 .. c - a
  BY <1>1, <1>2
<1>4. a + 1 = b + 1
  BY <1>1, <1>2, <1>3
<1> QED BY <1>3, <1>4

-----------------------------------------------------------------------------
(* Types.  A payload of which a first part is read is larger than that     *)
(* part, so that the second is a number of bytes.                          *)
StageOK == reading \in {"part1", "part2"} => header.size > SIGNED_INT_MAX

TypeInv == TypeOK /\ StageOK

PeerType == [next : 1 .. 3, n : Nat, left : Nat, body : Bytes]
SentType == [n : Nat, body : Bytes]

ReaderTypeOK ==
  /\ peer \in [Channels -> PeerType]
  /\ sent \in [Channels -> Seq(SentType)]
  /\ wrong \subseteq DOMAIN frames
  /\ refused \in Nat

\* TypeOK by component.
LEMMA TypeParts ==
  /\ TypeOK <=> TransportTypeOK /\ HandlerTypeOK /\ ReaderTypeOK
  /\ TypeOK' <=> TransportTypeOK' /\ HandlerTypeOK' /\ ReaderTypeOK'
BY DEF TypeOK, ReaderTypeOK, PeerType, SentType

\* The empty arguments, the unreadable frame and the empty bytes have their types.
LEMMA NoArgType == NoArg \in Arg /\ Garbage \in Frame /\ << >> \in Bytes
<1>1. << >> \in Bytes
  BY DEF Bytes
<1>2. NoArg \in Arg
  BY DEF NoArg, Arg
<1> QED BY <1>1, <1>2 DEF Garbage, Frame

(* How the broker's record of a channel changes.                           *)
LEMMA PeerUpdates ==
  ASSUME NEW r \in PeerType, NEW i \in 1 .. 3, NEW n \in Nat, NEW body \in Bytes
  PROVE  /\ [r EXCEPT !.next = i, !.n = n] \in PeerType
         /\ [r EXCEPT !.next = i, !.left = n] \in PeerType
         /\ n < r.left => [r EXCEPT !.left = @ - n, !.body = body] \in PeerType
<1>1. [r EXCEPT !.next = i, !.n = n] \in PeerType
  BY DEF PeerType
<1>2. [r EXCEPT !.next = i, !.left = n] \in PeerType
  BY DEF PeerType
<1>3. n < r.left => [r EXCEPT !.left = @ - n, !.body = body] \in PeerType
  <2>1. n < r.left => r.left - n \in Nat
    BY DEF PeerType
  <2>2. \A k \in Nat : [r EXCEPT !.left = k, !.body = body] \in PeerType
    BY DEF PeerType
  <2> QED BY <2>1, <2>2
<1> QED BY <1>1, <1>2, <1>3

\* A channel with no method under way is of PeerType.
LEMMA IdleType == Idle \in PeerType
BY NoArgType DEF Idle, PeerType

\* TypeInv holds at the start.
LEMMA TypeInvInit == Init => TypeInv
<1> SUFFICES ASSUME Init PROVE TypeInv
  OBVIOUS
<1>1. TransportTypeOK /\ StageOK
  <2>1. NoFrame \in [type : 0 .. 8, channel : Nat, arg : Arg, buf : Bytes]
    BY NoArgType DEF NoFrame
  <2>2. << >> \in Seq(Frame)
    OBVIOUS
  <2> QED BY <2>1, <2>2, NoArgType DEF Init, TransportInit, TransportTypeOK, Stages, StageOK
<1>2. HandlerTypeOK
  BY NoArgType DEF Init, HandlerInit, HandlerTypeOK, Message, NoMessage, Bytes
<1>3. ReaderTypeOK
  <2>1. Idle \in PeerType /\ << >> \in Seq(SentType)
    BY IdleType
  <2> QED BY <2>1 DEF Init, ReaderTypeOK
<1> QED BY <1>1, <1>2, <1>3, TypeParts DEF TypeInv

(* The broker's steps.                                                     *)
LEMMA PutFrameType ==
  ASSUME TransportTypeOK, StageOK, NEW type \in 0 .. 8, NEW channel \in Nat, NEW size \in Nat,
         NEW arg \in Arg, NEW end_ok \in BOOLEAN, PutFrame(type, channel, size, arg, end_ok)
  PROVE  /\ TransportTypeOK' /\ StageOK'
         /\ Len(frames') = Len(frames) + 1 /\ DOMAIN frames \subseteq DOMAIN frames'
         /\ UNCHANGED clientVars
<1> DEFINE end == total + HeaderSize + size + 1
           f == [start |-> total, size |-> size, type |-> type, channel |-> channel,
                 arg |-> arg, end_ok |-> end_ok]
<1>1. total \in Nat /\ end \in Nat /\ total <= end
  BY TransportAssumption DEF TransportTypeOK
<1>2. f \in Frame
  BY <1>1 DEF Frame
<1>3. Run(total, end) \in Bytes
  BY <1>1, RunProperties DEF Bytes
<1>4. frames' = Append(frames, f) /\ wire' = wire \o Run(total, end) /\ total' = end
  BY DEF PutFrame
<1> HIDE DEF end, f
<1>5. wire' \in Bytes
  BY <1>3, <1>4, ConcatProperties DEF TransportTypeOK, Bytes
<1>6. frames \in Seq(Frame)
  BY DEF TransportTypeOK
<1>7. frames' \in Seq(Frame) /\ Len(frames') = Len(frames) + 1
  BY <1>2, <1>4, <1>6, AppendProperties
<1>8. DOMAIN frames \subseteq DOMAIN frames'
  BY <1>6, <1>7
<1>9. UNCHANGED <<closed, clientVars>>
  BY DEF PutFrame
<1>10. TransportTypeOK'
  BY <1>1, <1>4, <1>5, <1>7, <1>9 DEF TransportTypeOK, clientVars, localVars
<1>11. StageOK'
  BY <1>9 DEF StageOK, clientVars, localVars
<1> QED BY <1>7, <1>8, <1>9, <1>10, <1>11

\* Completing a method keeps the types of the broker's side.
LEMMA CompletesType ==
  ASSUME ReaderTypeOK, NEW c \in Channels, NEW n \in Nat, NEW body \in Bytes, Completes(c, n, body)
  PROVE  peer' \in [Channels -> PeerType] /\ sent' \in [Channels -> Seq(SentType)]
<1>1. Idle \in PeerType
  BY IdleType
<1>2. [n |-> n, body |-> body] \in SentType
  BY DEF SentType
<1>3. sent[c] \in Seq(SentType)
  BY DEF ReaderTypeOK
<1>4. Append(sent[c], [n |-> n, body |-> body]) \in Seq(SentType)
  BY <1>2, <1>3, AppendProperties
<1> QED BY <1>1, <1>4 DEF Completes, ReaderTypeOK

\* Putting a frame on the stream keeps the types of the broker's side.
LEMMA PutKeepsReader ==
  ASSUME ReaderTypeOK, DOMAIN frames \subseteq DOMAIN frames', wrong' = wrong, refused' = refused,
         peer' \in [Channels -> PeerType], sent' \in [Channels -> Seq(SentType)]
  PROVE  ReaderTypeOK'
BY DEF ReaderTypeOK

\* A step that leaves the frame handler alone keeps its types.
LEMMA HandlerTypeStutters == HandlerTypeOK /\ UNCHANGED handlerVars => HandlerTypeOK'
BY DEF HandlerTypeOK, handlerVars

\* The fields of what the broker has under way on a channel.
LEMMA PeerTypes ==
  ASSUME ReaderTypeOK, NEW c \in Channels
  PROVE  /\ peer[c] \in PeerType
         /\ peer[c].next \in 1 .. 3 /\ peer[c].n \in Nat /\ peer[c].left \in Nat
         /\ peer[c].body \in Bytes
         /\ c \in Nat
BY ChannelsAssumption DEF ReaderTypeOK, PeerType

\* Every step of the broker keeps TypeInv.
LEMMA PeerStepType ==
  ASSUME TypeInv, PeerStep
  PROVE  TypeInv'
<1>0. TransportTypeOK /\ HandlerTypeOK /\ ReaderTypeOK /\ StageOK
  BY TypeParts DEF TypeInv
<1>1. frames \in Seq(Frame) /\ Len(frames) \in Nat /\ total \in Nat /\ NoArg \in Arg
  BY <1>0, NoArgType DEF TransportTypeOK
<1>2. ASSUME NEW type \in 0 .. 8, NEW channel \in Nat, NEW size \in Nat, NEW arg \in Arg,
             Sends(type, channel, size, arg),
             peer' \in [Channels -> PeerType], sent' \in [Channels -> Seq(SentType)]
      PROVE  TypeInv'
  <2>1. PutFrame(type, channel, size, arg, TRUE) /\ UNCHANGED <<handlerVars, wrong, refused>>
    BY <1>2 DEF Sends
  <2>2. TransportTypeOK' /\ StageOK' /\ DOMAIN frames \subseteq DOMAIN frames'
    BY <1>0, <2>1, PutFrameType
  <2>3. HandlerTypeOK'
    BY <1>0, <2>1, HandlerTypeStutters
  <2>4. ReaderTypeOK'
    BY <1>0, <1>2, <2>1, <2>2, PutKeepsReader
  <2> QED BY <2>2, <2>3, <2>4, TypeParts DEF TypeInv
<1>3. ASSUME NEW c \in Channels, PeerMethod(c) PROVE TypeInv'
  <2> DEFINE n == Len(frames) + 1
             arg1 == [NoArg EXCEPT !.n = n]
             arg2 == [NoArg EXCEPT !.n = n, !.content = TRUE]
             busy == [Idle EXCEPT !.next = 2, !.n = n]
  <2>0. n \in Nat
    BY <1>1
  <2> HIDE DEF n
  <2>1. arg1 \in Arg /\ arg2 \in Arg
    BY <2>0 DEF NoArg, Arg
  <2>2. busy \in PeerType
    <3>1. 2 \in 1 .. 3
      OBVIOUS
    <3> QED BY <2>0, <3>1, IdleType, NoArgType, PeerUpdates, Zenon
  <2>a. SIGNED_INT_MAX + 1 \in Nat /\ c \in Nat /\ 1 \in 0 .. 8 /\ 1 \in Nat
    BY ChannelsAssumption, TransportAssumption
  <2> HIDE DEF arg1, arg2, busy
  <2>3. CASE Sends(1, c, 1, arg1) /\ Completes(c, n, << >>)
    <3>1. peer' \in [Channels -> PeerType] /\ sent' \in [Channels -> Seq(SentType)]
      BY <1>0, <2>0, <2>3, NoArgType, CompletesType
    <3> QED BY <1>2, <2>1, <2>a, <2>3, <3>1
  <2>4. CASE /\ Sends(1, c, SIGNED_INT_MAX + 1, arg2)
             /\ peer' = [peer EXCEPT ![c] = busy] /\ UNCHANGED sent
    <3>1. peer' \in [Channels -> PeerType] /\ sent' \in [Channels -> Seq(SentType)]
      BY <1>0, <2>2, <2>4 DEF ReaderTypeOK
    <3> QED BY <1>2, <2>1, <2>a, <2>4, <3>1
  <2> QED BY <1>3, <2>3, <2>4, Zenon DEF PeerMethod, n, arg1, arg2, busy
<1>4. ASSUME NEW c \in Channels, PeerHeader(c) PROVE TypeInv'
  <2>1. PICK size \in BodySizes :
          /\ Sends(2, c, 0, [NoArg EXCEPT !.body_size = size])
          /\ \/ size = 0 /\ Completes(c, peer[c].n, << >>)
             \/ /\ peer' = [peer EXCEPT ![c].next = 3, ![c].left = size]
                /\ UNCHANGED sent
    BY <1>4, Zenon DEF PeerHeader
  <2>2. size \in Nat /\ [NoArg EXCEPT !.body_size = size] \in Arg
    BY <2>1, ReaderAssumption DEF NoArg, Arg
  <2>3. peer[c] \in PeerType /\ peer[c].n \in Nat /\ c \in Nat
    BY <1>0, PeerTypes
  <2>4. peer' \in [Channels -> PeerType] /\ sent' \in [Channels -> Seq(SentType)]
    <3>1. CASE Completes(c, peer[c].n, << >>)
      BY <1>0, <2>3, <3>1, NoArgType, CompletesType
    <3>2. CASE peer' = [peer EXCEPT ![c].next = 3, ![c].left = size] /\ UNCHANGED sent
      <4>1. [peer[c] EXCEPT !.next = 3, !.left = size] \in PeerType
        <5>1. 3 \in 1 .. 3
          OBVIOUS
        <5> QED BY <2>2, <2>3, <5>1, NoArgType, PeerUpdates, Zenon
      <4>2. peer' = [peer EXCEPT ![c] = [peer[c] EXCEPT !.next = 3, !.left = size]]
        BY <1>0, <2>3, <3>2 DEF ReaderTypeOK, PeerType
      <4> QED BY <1>0, <3>2, <4>1, <4>2 DEF ReaderTypeOK
    <3> QED BY <2>1, <3>1, <3>2
  <2>5. 2 \in 0 .. 8 /\ 0 \in Nat
    OBVIOUS
  <2> QED BY <1>2, <2>1, <2>2, <2>3, <2>4, <2>5, Zenon
<1>5. ASSUME NEW c \in Channels, PeerBody(c) PROVE TypeInv'
  <2>1. peer[c] \in PeerType /\ peer[c].n \in Nat /\ c \in Nat /\ peer[c].left \in Nat
        /\ peer[c].body \in Bytes
    BY <1>0, PeerTypes
  <2>2. PICK k \in 1 .. peer[c].left :
          /\ Sends(3, c, k, NoArg)
          /\ LET body == peer[c].body \o Run(total + HeaderSize, total + HeaderSize + k) IN
             \/ Completes(c, peer[c].n, body)
             \/ /\ k < peer[c].left
                /\ peer' = [peer EXCEPT ![c].left = @ - k, ![c].body = body]
                /\ UNCHANGED sent
    BY <1>5, Zenon DEF PeerBody
  <2> DEFINE body == peer[c].body \o Run(total + HeaderSize, total + HeaderSize + k)
  <2>3. k \in Nat /\ peer[c].left - k \in Nat
    BY <2>1
  <2>4. body \in Bytes
    <3>1. total + HeaderSize \in Nat /\ total + HeaderSize + k \in Nat
          /\ total + HeaderSize <= total + HeaderSize + k
      BY <1>1, <2>3, TransportAssumption
    <3>2. Run(total + HeaderSize, total + HeaderSize + k) \in Seq(Nat)
      BY <3>1, RunProperties
    <3> QED BY <2>1, <3>2, ConcatProperties DEF Bytes
  <2>5. peer' \in [Channels -> PeerType] /\ sent' \in [Channels -> Seq(SentType)]
    <3> HIDE DEF body
    <3>1. CASE Completes(c, peer[c].n, body)
      BY <1>0, <2>1, <2>4, <3>1, CompletesType
    <3>2. CASE /\ peer' = [peer EXCEPT ![c].left = @ - k, ![c].body = body]
               /\ UNCHANGED sent
      BY <1>0, <2>1, <2>3, <2>4, <3>2 DEF ReaderTypeOK, PeerType
    <3> QED BY <2>2, <3>1, <3>2 DEF body
  <2>6. 3 \in 0 .. 8
    OBVIOUS
  <2> QED BY <1>1, <1>2, <2>1, <2>2, <2>3, <2>5, <2>6, Zenon
<1>6. ASSUME PeerHeartbeat PROVE TypeInv'
  BY <1>0, <1>1, <1>2, <1>6 DEF PeerHeartbeat, ReaderTypeOK
<1>7. ASSUME PeerErrs PROVE TypeInv'
  <2>1. /\ wrong' = wrong \cup {Len(frames) + 1}
        /\ UNCHANGED <<handlerVars, peer, sent, refused>>
    BY <1>7 DEF PeerErrs
  <2>2. \A c \in Channels : (peer[c].next % 3) + 1 \in 0 .. 8 /\ c \in Nat
    <3> SUFFICES ASSUME NEW c \in Channels PROVE (peer[c].next % 3) + 1 \in 0 .. 8 /\ c \in Nat
      OBVIOUS
    <3>1. peer[c].next \in 1 .. 3 /\ c \in Nat
      BY <1>0, PeerTypes
    <3> QED BY <3>1
  <2>3. PICK type \in 0 .. 8, c \in Nat, ok \in BOOLEAN : PutFrame(type, c, 0, NoArg, ok)
    <3>1. CASE \E c \in Channels : PutFrame((peer[c].next % 3) + 1, c, 0, NoArg, TRUE)
      BY <2>2, <3>1
    <3>2. CASE PutFrame(8, 0, 0, NoArg, FALSE)
      <4> 8 \in 0 .. 8 /\ 0 \in Nat
        OBVIOUS
      <4> QED BY <3>2
    <3> QED BY <1>7, <3>1, <3>2 DEF PeerErrs
  <2>4. /\ TransportTypeOK' /\ StageOK'
        /\ Len(frames') = Len(frames) + 1 /\ DOMAIN frames \subseteq DOMAIN frames'
    BY <1>0, <1>1, <2>3, PutFrameType
  <2>5. Len(frames) + 1 \in DOMAIN frames'
    <3>1. frames' \in Seq(Frame)
      BY <2>4 DEF TransportTypeOK
    <3> QED BY <1>1, <2>4, <3>1
  <2>6. ReaderTypeOK'
    BY <1>0, <2>1, <2>4, <2>5 DEF ReaderTypeOK
  <2>7. HandlerTypeOK'
    BY <1>0, <2>1, HandlerTypeStutters
  <2> QED BY <2>4, <2>6, <2>7, TypeParts DEF TypeInv
<1>8. ASSUME PeerCloses PROVE TypeInv'
  <2>1. PICK k \in 0 .. Len(wire) : wire' = SubSeq(wire, 1, k)
    BY <1>8 DEF PeerCloses, StreamEnds
  <2>2. wire \in Seq(Nat)
    BY <1>0 DEF TransportTypeOK, Bytes
  <2>3. wire' \in Bytes
    <3>1. \A i \in 1 .. k : wire[i] \in Nat
      BY <2>1, <2>2
    <3> QED BY <2>1, <2>2, <3>1, SubSeqProperties DEF Bytes
  <2>4. /\ closed' = TRUE /\ UNCHANGED <<frames, total, clientVars, handlerVars, readerVars>>
    BY <1>8 DEF PeerCloses, StreamEnds
  <2>5. TransportTypeOK' /\ StageOK'
    BY <1>0, <2>3, <2>4 DEF TransportTypeOK, StageOK, clientVars, localVars
  <2>6. ReaderTypeOK'
    BY <1>0, <2>4 DEF ReaderTypeOK, readerVars
  <2>7. HandlerTypeOK'
    BY <1>0, <2>4, HandlerTypeStutters
  <2> QED BY <2>5, <2>6, <2>7, TypeParts DEF TypeInv
<1> QED BY <1>3, <1>4, <1>5, <1>6, <1>7, <1>8 DEF PeerStep

(* The library's steps.                                                    *)
LEMMA SubSeqType ==
  ASSUME NEW s \in Bytes, NEW m \in Int, NEW n \in Int, 1 <= m, n <= Len(s)
  PROVE  SubSeq(s, m, n) \in Bytes
<1>1. s \in Seq(Nat) /\ Len(s) \in Nat
  BY DEF Bytes
<1>2. \A i \in m .. n : s[i] \in Nat
  BY <1>1
<1> QED BY <1>2, SubSeqProperties DEF Bytes

\* What _read waits for is a number of bytes.
LEMMA WantedType == TransportTypeOK /\ StageOK => Wanted \in Nat
<1> SUFFICES ASSUME TransportTypeOK, StageOK PROVE Wanted \in Nat
  OBVIOUS
<1>1. header.size \in Nat
  BY DEF TransportTypeOK, Frame
<1>2. reading = "part2" => header.size - SIGNED_INT_MAX \in Nat
  BY <1>1, TransportAssumption DEF StageOK
<1> QED BY <1>1, <1>2, TransportAssumption DEF Wanted

\* What _read returns, and what it leaves, are bytes.
LEMMA ResultType ==
  ASSUME TransportTypeOK, StageOK, NEW stage, ReadEnds(stage)
  PROVE  Result \in Bytes /\ Rest \in Bytes
<1>1. Wanted \in Nat /\ rbuf \in Bytes /\ Len(rbuf) \in Nat /\ Wanted <= Len(rbuf)
  BY WantedType DEF TransportTypeOK, Bytes, ReadEnds
<1>2. 1 \in Int /\ Wanted + 1 \in Int /\ 1 <= Wanted + 1 /\ Len(rbuf) <= Len(rbuf)
  BY <1>1
<1> QED BY <1>1, <1>2, SubSeqType DEF Result, Rest

\* Whatever bytes unpack is given, it gives a frame header.
LEMMA UnpackType == frames \in Seq(Frame) => \A bytes : unpack(bytes) \in Frame
<1> SUFFICES ASSUME frames \in Seq(Frame), NEW bytes PROVE unpack(bytes) \in Frame
  OBVIOUS
<1> DEFINE S == {i \in DOMAIN frames : HeaderOf(frames[i]) = bytes}
<1>1. CASE S = {}
  BY <1>1, NoArgType DEF unpack
<1>2. CASE S # {}
  <2>1. (CHOOSE i \in S : TRUE) \in S
    BY <1>2
  <2>2. \A i \in S : frames[i] \in Frame
    OBVIOUS
  <2> HIDE DEF S
  <2>3. unpack(bytes) = frames[CHOOSE i \in S : TRUE]
    BY <1>2 DEF unpack, S
  <2> QED BY <2>1, <2>2, <2>3
<1> QED BY <1>1, <1>2

\* An exception in read_frame keeps the types.
LEMMA RaisesType ==
  ASSUME TransportTypeOK, StageOK, NEW e \in {"timeout", "OSError"}, Raises(e),
         read_buffer' \in Bytes, connected' \in BOOLEAN
  PROVE  TransportTypeOK' /\ StageOK'
BY NoArgType DEF Raises, TransportTypeOK, StageOK, Stages

\* Every step of read_frame keeps the types of the transport.
LEMMA ReadStepType ==
  ASSUME TransportTypeOK, StageOK, ReadStep
  PROVE  TransportTypeOK' /\ StageOK' /\ frames' = frames
<1>1. CASE ReadHeader
  <2>1. Result \in Bytes /\ Rest \in Bytes
    BY <1>1, ResultType DEF ReadHeader
  <2>2. header' \in Frame
    BY <1>1, UnpackType DEF ReadHeader, TransportTypeOK
  <2>3. header'.size \in Nat /\ SIGNED_INT_MAX \in Nat
    BY <2>2, TransportAssumption DEF Frame
  <2> QED BY <1>1, <2>1, <2>2, <2>3 DEF ReadHeader, ReadEnds, TransportTypeOK, StageOK, Stages
<1>2. CASE ReadPart1
  <2>1. Result \in Bytes /\ Rest \in Bytes
    BY <1>2, ResultType DEF ReadPart1
  <2> QED BY <1>2, <2>1 DEF ReadPart1, ReadEnds, TransportTypeOK, StageOK, Stages
<1>3. CASE ReadPayload
  <2>1. Result \in Bytes /\ Rest \in Bytes
    BY <1>3, ResultType DEF ReadPayload
  <2>2. read_frame_buffer \o part1 \o Result \in Bytes
    BY <2>1, ConcatProperties DEF Bytes, TransportTypeOK
  <2> QED BY <1>3, <2>1, <2>2, NoArgType
          DEF ReadPayload, ReadEnds, TransportTypeOK, StageOK, Stages
<1>4. CASE ReadFrameEnd
  <2>1. Rest \in Bytes
    BY <1>4, ResultType DEF ReadFrameEnd
  <2>2. Payload \in Bytes
    <3>1. read_frame_buffer \in Bytes /\ Len(read_frame_buffer) \in Nat
      BY DEF TransportTypeOK, Bytes
    <3>2. HeaderSize + 1 \in Int /\ 1 <= HeaderSize + 1
      BY TransportAssumption
    <3> QED BY <3>1, <3>2, SubSeqType DEF Payload
  <2>3. inbound' \in [type : 0 .. 8, channel : Nat, arg : Arg, buf : Bytes]
    <3>1. header.type \in 0 .. 8 /\ header.channel \in Nat /\ header.arg \in Arg
      BY DEF TransportTypeOK, Frame
    <3> QED BY <1>4, <2>2, <3>1, NoArgType DEF ReadFrameEnd, TransportTypeOK
  <2>4. mode' \in Modes \cup {"none"} /\ raised' \in {"none", "timeout", "OSError", "UnexpectedFrame"}
    BY <1>4 DEF ReadFrameEnd, TransportTypeOK
  <2>5. reading' = "no" /\ read_buffer' = Rest
        /\ rbuf' = << >> /\ read_frame_buffer' = << >> /\ part1' = << >> /\ header' = Garbage
        /\ UNCHANGED <<frames, total, wire, closed, connected>>
    BY <1>4 DEF ReadFrameEnd, ReadEnds
  <2> QED BY <2>1, <2>3, <2>4, <2>5, NoArgType DEF TransportTypeOK, StageOK, Stages
<1>5. CASE ReadTimesOut
  <2>1. PutBack \in Bytes
    BY ConcatProperties DEF PutBack, TransportTypeOK, Bytes
  <2>2. Raises("timeout") /\ read_buffer' = PutBack /\ UNCHANGED connected
    BY <1>5 DEF ReadTimesOut
  <2>3. UNCHANGED frames /\ connected' \in BOOLEAN
    BY <2>2 DEF Raises, TransportTypeOK
  <2> QED BY <2>1, <2>2, <2>3, RaisesType
<1>6. CASE ReadFails
  <2>1. Raises("OSError") /\ read_buffer' = rbuf /\ connected' = FALSE /\ rbuf \in Bytes
    BY <1>6 DEF ReadFails, TransportTypeOK
  <2>2. UNCHANGED frames
    BY <2>1 DEF Raises
  <2> QED BY <2>1, <2>2, RaisesType
<1> QED BY <1>1, <1>2, <1>3, <1>4, <1>5, <1>6 DEF ReadStep

\* A call of read_frame keeps the types of the transport.
LEMMA ReadFrameType ==
  ASSUME TransportTypeOK, StageOK, NEW m \in Modes, read_frame(m), raised' = "none"
  PROVE  TransportTypeOK' /\ StageOK' /\ frames' = frames
BY NoArgType DEF read_frame, TransportTypeOK, StageOK, Stages

\* recv keeps the types of the transport.
LEMMA RecvType ==
  ASSUME TransportTypeOK, StageOK, recv
  PROVE  TransportTypeOK' /\ StageOK' /\ frames' = frames
<1>1. PICK k \in 1 .. Len(wire) :
        rbuf' = rbuf \o SubSeq(wire, 1, k) /\ wire' = SubSeq(wire, k + 1, Len(wire))
  BY DEF recv
<1>2. wire \in Bytes /\ Len(wire) \in Nat /\ rbuf \in Bytes
  BY DEF TransportTypeOK, Bytes
<1>3. SubSeq(wire, 1, k) \in Bytes /\ SubSeq(wire, k + 1, Len(wire)) \in Bytes
  <2>1. k \in Int /\ k + 1 \in Int /\ 1 <= k + 1 /\ k <= Len(wire) /\ 1 <= k
    BY <1>2
  <2> QED BY <1>2, <2>1, SubSeqType
<1>4. rbuf' \in Bytes /\ wire' \in Bytes
  BY <1>1, <1>2, <1>3, ConcatProperties DEF Bytes
<1> QED BY <1>4 DEF recv, TransportTypeOK, StageOK

\* A message with a piece more of its content is a message.
LEMMA ReceivedType ==
  ASSUME HandlerTypeOK, NEW f \in [type : 0 .. 8, channel : Nat, arg : Arg, buf : Bytes],
         f.channel \in Channels
  PROVE  Received(f) \in Message
<1>1. partial_messages[f.channel] \in Message /\ f.arg.body_size \in Nat /\ f.buf \in Seq(Nat)
  BY DEF HandlerTypeOK, Arg, Bytes
<1> DEFINE msg == partial_messages[f.channel]
<1>2. msg.body \o f.buf \in Seq(Nat)
  BY <1>1, ConcatProperties DEF Message
<1> HIDE DEF msg
<1>3. [msg EXCEPT !.body_size = f.arg.body_size] \in Message
  BY <1>1 DEF Message, msg
<1>4. [msg EXCEPT !.body = @ \o f.buf] \in Message
  BY <1>1, <1>2 DEF Message, msg
<1> QED BY <1>3, <1>4 DEF Received, msg

\* The missing partial message is a message.
LEMMA NoMessageType == NoMessage \in Message
BY NoArgType DEF NoMessage, Message, Bytes

\* Keeping a partial message keeps the types of the frame handler.
LEMMA KeepType ==
  ASSUME HandlerTypeOK, NEW c \in Nat, NEW type \in 1 .. 3, NEW msg,
         c \in Channels => msg \in Message, Keep(c, type, msg), bytes_recv' = bytes_recv + 1
  PROVE  HandlerTypeOK'
<1>1. partial_messages' \in [Channels -> Message] /\ expected_types' \in [Channels -> 1 .. 3]
  BY DEF HandlerTypeOK, Keep
<1> QED BY <1>1 DEF HandlerTypeOK, Keep

\* Delivering a method keeps the types of the frame handler.
LEMMA DoneType ==
  ASSUME HandlerTypeOK, NEW c \in Nat, NEW method,
         c \in Channels => method \in SentType, Done(c, method), bytes_recv' = bytes_recv + 1
  PROVE  HandlerTypeOK'
<1>1. expected_types' \in [Channels -> 1 .. 3]
  <2>1. /\ expected_types \in [Channels -> 1 .. 3] /\ 1 \in 1 .. 3
        /\ expected_types' = [expected_types EXCEPT ![c] = 1]
    BY DEF HandlerTypeOK, Done
  <2> QED BY <2>1
<1>2. NoMessage \in Message
  BY NoMessageType
<1>3. partial_messages' \in [Channels -> Message]
  BY <1>2 DEF HandlerTypeOK, Done
<1>4. delivered \in [Channels -> Seq(SentType)]
  BY DEF HandlerTypeOK, SentType, Bytes
<1>5. c \in Channels => Append(delivered[c], method) \in Seq(SentType)
  BY <1>4, AppendProperties
<1>6. delivered' \in [Channels -> Seq(SentType)]
  BY <1>4, <1>5 DEF Done
<1>7. bytes_recv' \in Nat
  BY DEF HandlerTypeOK
<1> QED BY <1>1, <1>3, <1>6, <1>7 DEF HandlerTypeOK, SentType, Bytes

\* on_frame keeps the types of the frame handler, whatever frame it is given.
LEMMA OnFrameType ==
  ASSUME HandlerTypeOK, NEW f \in [type : 0 .. 8, channel : Nat, arg : Arg, buf : Bytes],
         on_frame_raises(f) \/ on_frame_false(f) \/ on_frame_true(f)
  PROVE  HandlerTypeOK'
<1>1. /\ f.channel \in Nat /\ f.arg.n \in Nat
      /\ bytes_recv' = bytes_recv + 1 /\ bytes_recv' \in Nat
  BY DEF Arg, on_frame_raises, on_frame_false, on_frame_true, HandlerTypeOK
<1>2. CASE UNCHANGED <<expected_types, partial_messages, delivered>>
  BY <1>1, <1>2 DEF HandlerTypeOK
<1>3. CASE Keep(f.channel, 2, [NoMessage EXCEPT !.n = f.arg.n])
  <2>1. \A r \in Message, n \in Nat : [r EXCEPT !.n = n] \in Message
    BY DEF Message
  <2>2. [NoMessage EXCEPT !.n = f.arg.n] \in Message /\ 2 \in 1 .. 3
    BY <1>1, <2>1, NoMessageType
  <2> QED BY <1>1, <1>3, <2>2, KeepType
<1>4. CASE Keep(f.channel, 3, Received(f))
  <2> 3 \in 1 .. 3
    OBVIOUS
  <2> QED BY <1>1, <1>4, ReceivedType, KeepType
<1>5. CASE Done(f.channel, [n |-> f.arg.n, body |-> << >>])
  <2>1. [n |-> f.arg.n, body |-> << >>] \in SentType
    BY <1>1, NoArgType DEF SentType
  <2> QED BY <1>1, <1>5, <2>1, DoneType
<1>6. CASE Done(f.channel, [n |-> Received(f).n, body |-> Received(f).body])
  <2>1. f.channel \in Channels => [n |-> Received(f).n, body |-> Received(f).body] \in SentType
    BY ReceivedType DEF Message, SentType, Bytes
  <2> QED BY <1>1, <1>6, <2>1, DoneType
<1> QED BY <1>2, <1>3, <1>4, <1>5, <1>6, Zenon DEF on_frame_raises, on_frame_false, on_frame_true

\* Every step of the library keeps TypeInv.
LEMMA LibraryTypes ==
  ASSUME TypeInv, drain_events \/ Receives \/ LibraryStep
  PROVE  TypeInv'
<1>0. TransportTypeOK /\ HandlerTypeOK /\ ReaderTypeOK /\ StageOK
  BY TypeParts DEF TypeInv
<1>1. ASSUME TransportTypeOK', StageOK', frames' = frames, HandlerTypeOK',
             UNCHANGED <<peer, sent, wrong>>, refused' \in Nat
      PROVE  TypeInv'
  <2>1. ReaderTypeOK'
    BY <1>0, <1>1 DEF ReaderTypeOK
  <2> QED BY <1>1, <2>1, TypeParts DEF TypeInv
<1>2. CASE drain_events
  <2>1. PICK m \in Modes : read_frame(m)
    BY <1>2 DEF drain_events
  <2>2. TransportTypeOK' /\ StageOK' /\ frames' = frames
    BY <1>0, <1>2, <2>1, ReadFrameType DEF drain_events
  <2>3. HandlerTypeOK' /\ UNCHANGED <<peer, sent, wrong>> /\ refused' \in Nat
    BY <1>0, <1>2, HandlerTypeStutters DEF drain_events, ReaderTypeOK
  <2> QED BY <1>1, <2>2, <2>3
<1>3. CASE Receives
  <2>1. HandlerTypeOK' /\ UNCHANGED <<peer, sent, wrong>> /\ refused' \in Nat
    BY <1>0, <1>3, HandlerTypeStutters DEF Receives, ReaderTypeOK, readerVars
  <2> QED BY <1>0, <1>1, <1>3, <2>1, RecvType DEF Receives
<1>4. CASE ReadingStep
  <2>1. HandlerTypeOK' /\ UNCHANGED <<peer, sent, wrong>> /\ refused' \in Nat
    BY <1>0, <1>4, HandlerTypeStutters DEF ReadingStep, ReaderTypeOK
  <2> QED BY <1>0, <1>1, <1>4, <2>1, ReadStepType DEF ReadingStep
<1>5. CASE OnFrameRaises \/ OnFrameFalse \/ OnFrameTrue
  <2>1. inbound \in [type : 0 .. 8, channel : Nat, arg : Arg, buf : Bytes]
    BY <1>0 DEF TransportTypeOK
  <2>2. HandlerTypeOK'
    BY <1>0, <1>5, <2>1, OnFrameType DEF OnFrameRaises, OnFrameFalse, OnFrameTrue
  <2>3. NoFrame \in [type : 0 .. 8, channel : Nat, arg : Arg, buf : Bytes]
    BY NoArgType DEF NoFrame
  <2>4. /\ inbound' = NoFrame /\ reading' \in {reading, "header"}
        /\ raised' \in {raised, "UnexpectedFrame"} /\ mode' \in {mode, "none"}
        /\ rbuf' \in {rbuf, read_buffer}
        /\ UNCHANGED <<frames, total, wire, closed, connected, read_buffer, read_frame_buffer,
                       part1, header, peer, sent, wrong, refused>>
    BY <1>5 DEF OnFrameRaises, OnFrameFalse, OnFrameTrue, readerVars
  <2>5. TransportTypeOK' /\ StageOK'
    BY <1>0, <2>3, <2>4 DEF TransportTypeOK, StageOK, Stages
  <2> QED BY <1>0, <1>1, <2>2, <2>4, <2>5 DEF ReaderTypeOK
<1> QED BY <1>2, <1>3, <1>4, <1>5 DEF LibraryStep

\* Every step keeps TypeInv.
LEMMA TypeInvNext == TypeInv /\ [Next]_vars => TypeInv'
<1> SUFFICES ASSUME TypeInv, [Next]_vars PROVE TypeInv'
  OBVIOUS
<1>1. CASE UNCHANGED vars
  BY <1>1 DEF vars, transportVars, handlerVars, readerVars, TypeInv, TypeOK, StageOK,
              TransportTypeOK, HandlerTypeOK
<1> QED BY <1>1, PeerStepType, LibraryTypes DEF Next

(* Every variable of the reader keeps its type.                            *)
THEOREM ReaderTypeCorrect == Spec => []TypeOK
<1>1. TypeInv => TypeOK
  BY DEF TypeInv
<1> QED BY <1>1, TypeInvInit, TypeInvNext, PTL DEF Spec

-----------------------------------------------------------------------------
(* Where frame i begins; the stream ends where the next one will begin.    *)
StartOf(i) == IF i = Len(frames) + 1 THEN total ELSE frames[i].start

Geometry ==
  /\ \A i \in DOMAIN frames :
       /\ frames[i].type # 0
       /\ frames[i].start < total
       /\ StartOf(i + 1) = frames[i].start + HeaderSize + frames[i].size + 1
  /\ \A i, j \in DOMAIN frames : i < j => frames[i].start < frames[j].start

(* What read_frame returns of a frame.                                     *)
InboundOf(f) == [type |-> f.type, channel |-> f.channel, arg |-> f.arg, buf |-> PayloadOf(f)]

(* Where the library is: reading the next frame, of which it has unpacked  *)
(* the header, or holding the last one, or called by nobody.               *)
Control ==
  /\ Taken <= Len(frames)
  /\ (mode = "none") <=> (reading = "no" /\ ~HasFrame)
  /\ reading # "no" => ~HasFrame
  /\ mode # "none" => connected /\ raised = "none"
  /\ reading \in {"part1", "part2", "payload", "end"} =>
       Taken < Len(frames) /\ header = frames[Taken + 1]
  /\ HasFrame => /\ Taken >= 1 /\ frames[Taken].end_ok
                 /\ inbound = InboundOf(frames[Taken])

(* How far read_frame_buffer and part1 reach from the beginning p.         *)
Layout(p, q1, q2) ==
  /\ reading \in {"no", "header"} => q1 = p /\ q2 = p
  /\ reading \in {"part1", "payload"} => q1 = p + HeaderSize /\ q2 = q1
  /\ reading = "part2" => q1 = p + HeaderSize /\ q2 = q1 + SIGNED_INT_MAX
  /\ reading = "end" => q1 = p + HeaderSize + header.size /\ q2 = q1

Buffer == IF reading = "no" THEN read_buffer ELSE rbuf

PiecesAt(p, q1, q2, q3, w) ==
  /\ p <= q1 /\ q1 <= q2 /\ q2 <= q3 /\ q3 <= w /\ w <= total
  /\ ~closed => w = total
  /\ Layout(p, q1, q2)
  /\ read_frame_buffer = Run(p, q1)
  /\ part1 = Run(q1, q2)
  /\ Buffer = Run(q2, q3)
  /\ wire = Run(q3, w)

Pieces == \E q1, q2, q3, w \in Nat : PiecesAt(NextStart, q1, q2, q3, w)

StreamInv == Geometry /\ Control /\ (connected => Pieces)

\* StreamInv holds at the start: an empty stream.
LEMMA StreamInvInit == Init => StreamInv
<1> SUFFICES ASSUME Init PROVE StreamInv
  OBVIOUS
<1> USE DEF Init, TransportInit, HandlerInit
<1>1. Taken = 0 /\ Len(frames) = 0 /\ ~HasFrame /\ DOMAIN frames = {}
  BY DEF Taken, HasFrame
<1>2. NextStart = 0
  BY <1>1 DEF NextStart
<1>3. PiecesAt(0, 0, 0, 0, 0)
  <2>1. Run(0, 0) = << >>
    BY RunEmpty
  <2> QED BY <2>1 DEF PiecesAt, Layout, Buffer
<1>4. Pieces
  BY <1>2, <1>3 DEF Pieces
<1>5. Geometry
  BY <1>1 DEF Geometry
<1>6. Control
  BY <1>1 DEF Control
<1> QED BY <1>4, <1>5, <1>6 DEF StreamInv

(* Facts about the numbers of a state.                                     *)
LEMMA Counts ==
  ASSUME TypeInv
  PROVE  /\ frames \in Seq(Frame) /\ Len(frames) \in Nat /\ DOMAIN frames = 1 .. Len(frames)
         /\ total \in Nat /\ Taken \in Nat
         /\ bytes_recv \in Nat /\ refused \in Nat
         /\ \A i \in DOMAIN frames : /\ frames[i] \in Frame
                                     /\ frames[i].start \in Nat /\ frames[i].size \in Nat
         /\ HeaderSize \in Nat /\ HeaderSize > 0 /\ SIGNED_INT_MAX \in Nat /\ SIGNED_INT_MAX > 0
<1>1. frames \in Seq(Frame) /\ total \in Nat /\ bytes_recv \in Nat /\ refused \in Nat
  BY DEF TypeInv, TypeOK, TransportTypeOK, HandlerTypeOK
<1>2. Len(frames) \in Nat /\ DOMAIN frames = 1 .. Len(frames)
  BY <1>1
<1>3. \A i \in DOMAIN frames : frames[i] \in Frame
  BY <1>1
<1>4. \A f \in Frame : f.start \in Nat /\ f.size \in Nat
  BY DEF Frame
<1>5. Taken \in Nat
  BY <1>1 DEF Taken
<1> QED BY <1>1, <1>2, <1>3, <1>4, <1>5, TransportAssumption

\* The first byte not yet taken is where the next frame starts.
LEMMA NextStartIs ==
  ASSUME TypeInv, Taken <= Len(frames)
  PROVE  NextStart \in Nat /\ NextStart = StartOf(Taken + 1)
<1>1. NextStart = StartOf(Taken + 1)
  BY Counts DEF NextStart, StartOf
<1>2. CASE Taken = Len(frames)
  BY <1>1, <1>2, Counts DEF NextStart
<1>3. CASE Taken # Len(frames)
  <2>1. Taken + 1 \in DOMAIN frames
    BY <1>3, Counts
  <2> QED BY <1>1, <1>3, <2>1, Counts DEF NextStart
<1> QED BY <1>1, <1>2, <1>3

(* A frame is put on the stream.                                           *)
LEMMA PutFrameStream ==
  ASSUME TypeInv, StreamInv, NEW type \in 1 .. 8, NEW channel \in Nat, NEW size \in Nat,
         NEW arg \in Arg, NEW end_ok \in BOOLEAN, PutFrame(type, channel, size, arg, end_ok),
         UNCHANGED <<bytes_recv, refused>>
  PROVE  StreamInv'
<1> DEFINE L == Len(frames)
           end == total + HeaderSize + size + 1
           f == [start |-> total, size |-> size, type |-> type, channel |-> channel,
                 arg |-> arg, end_ok |-> end_ok]
<1>0. /\ frames' = Append(frames, f) /\ wire' = wire \o Run(total, end) /\ total' = end
      /\ ~closed /\ UNCHANGED <<closed, connected, read_buffer, reading, mode, rbuf,
                                read_frame_buffer, part1, header, inbound, raised>>
  BY DEF PutFrame, clientVars, localVars
<1>1. L \in Nat /\ total \in Nat /\ end \in Nat /\ total < end /\ DOMAIN frames = 1 .. L
  BY Counts
<1>2. /\ Len(frames') = L + 1 /\ DOMAIN frames' = 1 .. L + 1
      /\ \A i \in 1 .. L : frames'[i] = frames[i]
      /\ frames'[L + 1] = f
  <2>1. f \in Frame
    BY <1>1 DEF Frame
  <2>2. frames' \in Seq(Frame)
    BY <1>0, <2>1, Counts, AppendProperties
  <2> HIDE DEF f
  <2> QED BY <1>0, <1>1, <2>1, <2>2, Counts, AppendProperties
<1>3. f.start = total /\ f.size = size /\ f.type = type
  OBVIOUS
<1> HIDE DEF f, L
<1>4. Taken' = Taken /\ Taken \in Nat /\ Taken <= L /\ HasFrame' = HasFrame
  BY <1>0, Counts DEF Taken, HasFrame, StreamInv, Control, L
<1>5. NextStart' = NextStart /\ NextStart \in Nat
  <2>1. CASE Taken = L
    <3>1. NextStart = total
      BY <2>1 DEF NextStart, L
    <3>2. Taken' # Len(frames') /\ Taken' + 1 = L + 1
      BY <1>1, <1>2, <1>4, <2>1
    <3>3. NextStart' = frames'[L + 1].start
      BY <3>2, Zenon DEF NextStart
    <3> QED BY <1>1, <1>2, <1>3, <3>1, <3>3
  <2>2. CASE Taken # L
    <3>1. NextStart = frames[Taken + 1].start /\ NextStart \in Nat
      BY <1>4, <2>2, NextStartIs DEF NextStart, L
    <3>2. Taken' # Len(frames') /\ Taken' + 1 = Taken + 1 /\ Taken + 1 \in 1 .. L
      BY <1>1, <1>2, <1>4, <2>2
    <3>3. NextStart' = frames'[Taken + 1].start
      BY <3>2, Zenon DEF NextStart
    <3> QED BY <1>2, <3>1, <3>2, <3>3
  <2> QED BY <2>1, <2>2
<1>6. Geometry'
  <2>1. \A i \in 1 .. L : frames[i].start < total /\ frames[i].start \in Nat /\ frames[i].size \in Nat
    BY <1>1, Counts DEF StreamInv, Geometry
  <2>2. ASSUME NEW i \in 1 .. L + 1
        PROVE  /\ frames'[i].type # 0 /\ frames'[i].start < total'
               /\ StartOf(i + 1)' = frames'[i].start + HeaderSize + frames'[i].size + 1
    <3>1. CASE i = L + 1
      BY <1>0, <1>1, <1>2, <1>3, <3>1 DEF StartOf
    <3>2. CASE i \in 1 .. L
      <4>1. StartOf(i + 1) = frames[i].start + HeaderSize + frames[i].size + 1 /\ frames[i].type # 0
        BY <1>1, <3>2 DEF StreamInv, Geometry
      <4>2. StartOf(i + 1)' = StartOf(i + 1)
        <5>1. CASE i = L
          BY <1>1, <1>2, <1>3, <5>1 DEF StartOf, L
        <5>2. CASE i # L
          BY <1>1, <1>2, <3>2, <5>2 DEF StartOf, L
        <5> QED BY <5>1, <5>2
      <4> QED BY <1>0, <1>1, <1>2, <2>1, <3>2, <4>1, <4>2
    <3> QED BY <1>1, <3>1, <3>2
  <2>3. ASSUME NEW i \in 1 .. L + 1, NEW j \in 1 .. L + 1, i < j
        PROVE  frames'[i].start < frames'[j].start
    <3>1. i \in 1 .. L
      BY <1>1, <2>3
    <3>2. CASE j = L + 1
      BY <1>2, <1>3, <2>1, <3>1, <3>2
    <3>3. CASE j \in 1 .. L
      BY <1>1, <1>2, <2>3, <3>1, <3>3 DEF StreamInv, Geometry
    <3> QED BY <1>1, <3>2, <3>3
  <2> QED BY <1>2, <2>2, <2>3 DEF Geometry
<1>7. Control'
  <2>1. Taken < L => frames'[Taken + 1] = frames[Taken + 1]
    BY <1>1, <1>2, <1>4
  <2>2. Taken >= 1 => frames'[Taken] = frames[Taken]
    BY <1>1, <1>2, <1>4
  <2>3. Taken' <= Len(frames')
    BY <1>1, <1>2, <1>4
  <2>4. reading \in {"part1", "part2", "payload", "end"} =>
          Taken' < Len(frames') /\ header' = frames'[Taken' + 1]
    BY <1>0, <1>1, <1>2, <1>4, <2>1 DEF StreamInv, Control, L
  <2>5. HasFrame => /\ Taken' >= 1 /\ frames'[Taken'].end_ok
                    /\ inbound' = InboundOf(frames'[Taken'])
    BY <1>0, <1>4, <2>2 DEF StreamInv, Control
  <2>6. InboundOf(frames[Taken])' = InboundOf(frames'[Taken'])
    BY DEF InboundOf, PayloadOf
  <2> QED BY <1>0, <1>4, <2>3, <2>4, <2>5, <2>6, Zenon DEF StreamInv, Control
<1>8. connected => Pieces'
  <2> SUFFICES ASSUME connected PROVE Pieces'
    OBVIOUS
  <2>1. PICK q1, q2, q3, w \in Nat : PiecesAt(NextStart, q1, q2, q3, w)
    BY DEF StreamInv, Pieces
  <2>2. w = total /\ q3 <= total /\ wire = Run(q3, total)
    BY <1>0, <2>1 DEF PiecesAt
  <2>3. PICK e \in Nat : e = end
    BY <1>1
  <2> HIDE DEF end
  <2>4. total <= e
    BY <1>1, <2>3
  <2>5. wire' = Run(q3, e)
    BY <1>0, <1>1, <2>2, <2>3, <2>4, RunConcat
  <2>6. total' = e
    BY <1>0, <2>3
  <2>7. PiecesAt(NextStart, q1, q2, q3, e)'
    BY <1>0, <1>1, <1>5, <2>1, <2>2, <2>4, <2>5, <2>6 DEF PiecesAt, Layout, Buffer
  <2> QED BY <2>7 DEF Pieces
<1> QED BY <1>0, <1>6, <1>7, <1>8 DEF StreamInv

\* Geometry is about the frames sent only.
LEMMA GeometryStays == Geometry /\ UNCHANGED <<frames, total>> => Geometry'
BY DEF Geometry, StartOf

(* The stream is cut: what is on the wire is lost from some byte on.       *)
LEMMA StreamEndsStream ==
  ASSUME TypeInv, StreamInv, StreamEnds, UNCHANGED <<bytes_recv, refused>>
  PROVE  StreamInv'
<1>1. /\ closed' = TRUE
      /\ UNCHANGED <<frames, total, connected, read_buffer, reading, mode, rbuf,
                     read_frame_buffer, part1, header, inbound, raised>>
  BY DEF StreamEnds, clientVars, localVars
<1>2. Geometry'
  BY <1>1, GeometryStays DEF StreamInv
<1>3. Taken' = Taken /\ HasFrame' = HasFrame /\ NextStart' = NextStart
  BY <1>1 DEF Taken, HasFrame, NextStart
<1>4. Control'
  BY <1>1, <1>3 DEF StreamInv, Control, InboundOf, PayloadOf
<1>5. connected => Pieces'
  <2> SUFFICES ASSUME connected PROVE Pieces'
    OBVIOUS
  <2>1. PICK q1, q2, q3, w \in Nat : PiecesAt(NextStart, q1, q2, q3, w)
    BY DEF StreamInv, Pieces
  <2>2. q3 <= w /\ w <= total /\ wire = Run(q3, w) /\ total \in Nat
    BY <2>1, Counts DEF PiecesAt
  <2>3. Len(wire) = w - q3
    BY <2>2, RunProperties
  <2>4. PICK k \in Nat : k <= Len(wire) /\ wire' = SubSeq(wire, 1, k)
    BY <2>2, <2>3 DEF StreamEnds
  <2>a. PICK q \in Nat : q = q3 + k
    OBVIOUS
  <2>5. q3 <= q /\ q <= w
    BY <2>2, <2>3, <2>4, <2>a
  <2>6. wire' = Run(q3, q)
    <3>1. FirstOf(wire, k) = Run(q3, q)
      BY <2>2, <2>5, <2>a, RunSplit
    <3> QED BY <2>4, <3>1 DEF FirstOf
  <2>7. PiecesAt(NextStart, q1, q2, q3, q)'
    BY <1>1, <1>3, <2>1, <2>2, <2>5, <2>6 DEF PiecesAt, Layout, Buffer
  <2> QED BY <2>5, <2>7 DEF Pieces
<1> QED BY <1>1, <1>2, <1>4, <1>5 DEF StreamInv

\* Every step of the broker keeps StreamInv.
LEMMA PeerStepStream ==
  ASSUME TypeInv, StreamInv, PeerStep
  PROVE  StreamInv'
<1>0. ReaderTypeOK /\ frames \in Seq(Frame) /\ Len(frames) + 1 \in Nat /\ NoArg \in Arg
  BY Counts, TypeParts, NoArgType DEF TypeInv
<1>1. ASSUME NEW type \in 1 .. 8, NEW channel \in Nat, NEW size \in Nat, NEW arg \in Arg,
             Sends(type, channel, size, arg)
      PROVE  StreamInv'
  <2>1. /\ PutFrame(type, channel, size, arg, TRUE)
        /\ UNCHANGED <<bytes_recv, refused>> /\ TRUE \in BOOLEAN
    BY <1>1 DEF Sends, handlerVars
  <2> QED BY <2>1, PutFrameStream
<1>2. ASSUME NEW c \in Channels, PeerMethod(c) PROVE StreamInv'
  <2> DEFINE n == Len(frames) + 1
  <2>1. /\ [NoArg EXCEPT !.n = n] \in Arg
        /\ [NoArg EXCEPT !.n = n, !.content = TRUE] \in Arg
    BY <1>0 DEF NoArg, Arg
  <2>2. /\ 1 \in 1 .. 8 /\ 1 \in Nat /\ SIGNED_INT_MAX + 1 \in Nat /\ c \in Nat
    BY TransportAssumption, ChannelsAssumption
  <2>3. \/ Sends(1, c, 1, [NoArg EXCEPT !.n = n])
        \/ Sends(1, c, SIGNED_INT_MAX + 1, [NoArg EXCEPT !.n = n, !.content = TRUE])
    BY <1>2, Zenon DEF PeerMethod
  <2> HIDE DEF n
  <2> QED BY <1>1, <2>1, <2>2, <2>3, Zenon
<1>3. ASSUME NEW c \in Channels, PeerHeader(c) PROVE StreamInv'
  <2>1. PICK size \in BodySizes : Sends(2, c, 0, [NoArg EXCEPT !.body_size = size])
    BY <1>3, Zenon DEF PeerHeader
  <2>2. [NoArg EXCEPT !.body_size = size] \in Arg
    BY <2>1, ReaderAssumption DEF NoArg, Arg
  <2>3. 2 \in 1 .. 8 /\ 0 \in Nat /\ c \in Nat
    BY ChannelsAssumption
  <2> QED BY <1>1, <2>1, <2>2, <2>3, Zenon
<1>4. ASSUME NEW c \in Channels, PeerBody(c) PROVE StreamInv'
  <2>1. PICK k \in 1 .. peer[c].left : Sends(3, c, k, NoArg)
    BY <1>4, Zenon DEF PeerBody
  <2>2. 3 \in 1 .. 8 /\ k \in Nat /\ c \in Nat
    BY <1>0, PeerTypes
  <2> QED BY <1>0, <1>1, <2>1, <2>2, Zenon
<1>5. CASE PeerHeartbeat
  <2>1. Sends(8, 0, 0, NoArg)
    BY <1>5, Zenon DEF PeerHeartbeat
  <2>2. 8 \in 1 .. 8 /\ 0 \in Nat
    OBVIOUS
  <2> QED BY <1>0, <1>1, <2>1, <2>2, Zenon
<1>6. CASE PeerErrs
  <2>1. UNCHANGED <<bytes_recv, refused>>
    BY <1>6 DEF PeerErrs, handlerVars
  <2>2. ASSUME NEW c \in Channels, PutFrame((peer[c].next % 3) + 1, c, 0, NoArg, TRUE)
        PROVE  StreamInv'
    <3>1. (peer[c].next % 3) + 1 \in 1 .. 8 /\ 0 \in Nat /\ c \in Nat /\ TRUE \in BOOLEAN
      BY <1>0, PeerTypes
    <3> QED BY <1>0, <2>1, <2>2, <3>1, PutFrameStream
  <2>3. CASE PutFrame(8, 0, 0, NoArg, FALSE)
    <3>1. 8 \in 1 .. 8 /\ 0 \in Nat /\ FALSE \in BOOLEAN
      OBVIOUS
    <3> QED BY <1>0, <2>1, <2>3, <3>1, PutFrameStream
  <2> QED BY <1>6, <2>2, <2>3, Zenon DEF PeerErrs
<1>7. CASE PeerCloses
  <2>1. UNCHANGED <<bytes_recv, refused>> /\ StreamEnds
    BY <1>7 DEF PeerCloses, handlerVars, readerVars
  <2> QED BY <2>1, StreamEndsStream
<1> QED BY <1>2, <1>3, <1>4, <1>5, <1>6, <1>7, Zenon DEF PeerStep

(* The library's steps.  While read_frame runs, the stream has a place.    *)
LEMMA WhileReading ==
  ASSUME TypeInv, StreamInv, reading # "no"
  PROVE  /\ connected /\ raised = "none" /\ mode # "none" /\ ~HasFrame /\ Pieces
         /\ Taken = bytes_recv + refused /\ Taken <= Len(frames) /\ NextStart \in Nat
<1>1. ~HasFrame /\ mode # "none" /\ connected /\ raised = "none" /\ Taken <= Len(frames) /\ Pieces
  BY DEF StreamInv, Control
<1>2. Taken = bytes_recv + refused
  BY <1>1, Counts DEF Taken
<1> QED BY <1>1, <1>2, NextStartIs

(* Steps that handle and refuse no frame.                                  *)
LEMMA PlaceStays ==
  ASSUME UNCHANGED <<frames, total, bytes_recv, refused, inbound>>
  PROVE  Taken' = Taken /\ HasFrame' = HasFrame /\ NextStart' = NextStart
BY DEF Taken, HasFrame, NextStart

\* Calling drain_events keeps StreamInv.
LEMMA DrainStream ==
  ASSUME TypeInv, StreamInv, drain_events
  PROVE  StreamInv'
<1>1. PICK m \in Modes : read_frame(m)
  BY DEF drain_events
<1>2. /\ reading = "no" /\ mode = "none" /\ connected /\ raised' = "none"
      /\ reading' = "header" /\ mode' \in Modes /\ rbuf' = read_buffer
      /\ read_frame_buffer' = << >> /\ part1' = << >>
      /\ UNCHANGED <<frames, total, wire, closed, connected, read_buffer, inbound,
                     bytes_recv, refused>>
  BY <1>1 DEF drain_events, read_frame, handlerVars
<1>3. ~HasFrame /\ Taken' = Taken /\ HasFrame' = HasFrame /\ NextStart' = NextStart
  BY <1>2, PlaceStays DEF StreamInv, Control
<1>4. Control'
  BY <1>2, <1>3 DEF StreamInv, Control, Modes
<1>5. Pieces'
  <2>1. PICK q1, q2, q3, w \in Nat : PiecesAt(NextStart, q1, q2, q3, w)
    BY <1>2 DEF StreamInv, Pieces
  <2>2. q1 = NextStart /\ q2 = q1 /\ read_buffer = Run(q2, q3) /\ Run(q1, q1) = << >>
    BY <1>2, <2>1, RunEmpty DEF PiecesAt, Layout, Buffer
  <2>3. PiecesAt(NextStart, q1, q2, q3, w)'
    BY <1>2, <1>3, <2>1, <2>2 DEF PiecesAt, Layout, Buffer
  <2> QED BY <2>3 DEF Pieces
<1> QED BY <1>2, <1>4, <1>5, GeometryStays DEF StreamInv

\* recv keeps StreamInv: what leaves the wire is appended to rbuf.
LEMMA ReceivesStream ==
  ASSUME TypeInv, StreamInv, Receives
  PROVE  StreamInv'
<1>1. /\ reading # "no"
      /\ UNCHANGED <<frames, total, closed, connected, read_buffer, reading, mode,
                     read_frame_buffer, part1, header, inbound, raised, bytes_recv, refused>>
  BY DEF Receives, recv, Short, handlerVars, readerVars
<1>2. Taken' = Taken /\ HasFrame' = HasFrame /\ NextStart' = NextStart
  BY <1>1, PlaceStays
<1>3. Control'
  BY <1>1, <1>2 DEF StreamInv, Control, InboundOf, PayloadOf
<1>4. Pieces'
  <2>1. PICK q1, q2, q3, w \in Nat : PiecesAt(NextStart, q1, q2, q3, w)
    BY <1>1, WhileReading DEF Pieces
  <2>2. /\ q2 <= q3 /\ q3 <= w /\ w <= total /\ total \in Nat
        /\ wire = Run(q3, w) /\ rbuf = Run(q2, q3)
    BY <1>1, <2>1, Counts DEF PiecesAt, Buffer
  <2>3. Len(wire) = w - q3
    BY <2>2, RunProperties
  <2>4. PICK k \in Nat : /\ k <= Len(wire)
                         /\ rbuf' = rbuf \o SubSeq(wire, 1, k)
                         /\ wire' = SubSeq(wire, k + 1, Len(wire))
    <3>1. \A k \in 1 .. Len(wire) : k \in Nat /\ k <= Len(wire)
      BY <2>2, <2>3
    <3> QED BY <3>1, Zenon DEF Receives, recv
  <2>5. PICK q \in Nat : q = q3 + k
    BY <2>2, <2>3
  <2>6. q3 + k <= w /\ q3 <= q /\ q <= w
    BY <2>2, <2>3, <2>4, <2>5
  <2>7. SubSeq(wire, 1, k) = Run(q3, q) /\ SubSeq(wire, k + 1, Len(wire)) = Run(q, w)
    <3>1. FirstOf(wire, k) = Run(q3, q) /\ AfterOf(wire, k) = Run(q, w)
      BY <2>2, <2>5, <2>6, RunSplit
    <3> QED BY <3>1, Zenon DEF FirstOf, AfterOf
  <2>8. Run(q2, q3) \o Run(q3, q) = Run(q2, q)
    BY <2>2, <2>6, RunConcat
  <2>9. rbuf' = Run(q2, q) /\ wire' = Run(q, w)
    BY <2>2, <2>4, <2>7, <2>8
  <2>10. PiecesAt(NextStart, q1, q2, q, w)'
    BY <1>1, <1>2, <2>1, <2>2, <2>6, <2>9 DEF PiecesAt, Layout, Buffer
  <2> QED BY <2>10 DEF Pieces
<1> QED BY <1>1, <1>3, <1>4, GeometryStays DEF StreamInv

(* Seven bytes that begin where a frame begins are its header.             *)
LEMMA Unpacks ==
  ASSUME TypeInv, Geometry, NEW i \in DOMAIN frames
  PROVE  unpack(HeaderOf(frames[i])) = frames[i]
<1> DEFINE S == {j \in DOMAIN frames : HeaderOf(frames[j]) = HeaderOf(frames[i])}
<1>1. S = {i}
  <2>1. ASSUME NEW j \in DOMAIN frames, HeaderOf(frames[j]) = HeaderOf(frames[i])
        PROVE  j = i
    <3>1. frames[j].start \in Nat /\ frames[i].start \in Nat /\ HeaderSize \in Nat /\ HeaderSize > 0
          /\ i \in Nat /\ j \in Nat
      BY Counts
    <3>2. PICK a \in Nat, b \in Nat : a = frames[j].start /\ b = frames[i].start
      BY <3>1
    <3>3. Run(a, a + HeaderSize) = Run(b, b + HeaderSize)
      BY <2>1, <3>2 DEF HeaderOf
    <3>4. a + HeaderSize \in Nat /\ b + HeaderSize \in Nat /\ a < a + HeaderSize /\ b <= b + HeaderSize
      BY <3>1
    <3>5. a = b
      BY <3>3, <3>4, RunInjective
    <3>6. ~(i < j) /\ ~(j < i)
      <4>1. /\ i < j => frames[i].start < frames[j].start
            /\ j < i => frames[j].start < frames[i].start
        BY DEF Geometry
      <4>2. ~(frames[i].start < frames[j].start) /\ ~(frames[j].start < frames[i].start)
        BY <3>2, <3>5
      <4> QED BY <4>1, <4>2
    <3> QED BY <3>1, <3>6
  <2> QED BY <2>1
<1>2. (CHOOSE j \in S : TRUE) = i /\ S # {}
  BY <1>1
<1> HIDE DEF S
<1>3. unpack(HeaderOf(frames[i])) = IF S = {} THEN Garbage ELSE frames[CHOOSE j \in S : TRUE]
  BY DEF unpack, S
<1> QED BY <1>2, <1>3

(* A read of Wanted bytes that ends: what it returns and what it leaves.   *)
LEMMA ReadGives ==
  ASSUME NEW a \in Nat, NEW b \in Nat, a <= b, rbuf = Run(a, b),
         Wanted \in Nat, Len(rbuf) >= Wanted
  PROVE  /\ a + Wanted <= b /\ a + Wanted \in Nat
         /\ Result = Run(a, a + Wanted) /\ Rest = Run(a + Wanted, b)
<1>1. Len(Run(a, b)) = b - a
  BY RunProperties
<1>2. a + Wanted <= b /\ a + Wanted \in Nat
  BY <1>1
<1>3. FirstOf(rbuf, Wanted) = Run(a, a + Wanted) /\ AfterOf(rbuf, Wanted) = Run(a + Wanted, b)
  BY <1>2, RunSplit
<1> QED BY <1>2, <1>3, Zenon DEF Result, Rest, FirstOf, AfterOf

(* The pieces when a read of Wanted bytes ends: _read splits rbuf at q.    *)
ReadAt(p, q1, q2, q, q3, w) ==
  /\ p = NextStart /\ q = q2 + Wanted
  /\ p <= q1 /\ q1 <= q2 /\ q2 <= q /\ q <= q3 /\ q3 <= w /\ w <= total
  /\ ~closed => w = total
  /\ Layout(p, q1, q2)
  /\ read_frame_buffer = Run(p, q1) /\ part1 = Run(q1, q2)
  /\ Result = Run(q2, q) /\ Rest = Run(q, q3) /\ wire = Run(q3, w)

\* When _read has what it wants, the pieces are adjacent runs of the stream.
LEMMA ReadSplits ==
  ASSUME TypeInv, StreamInv, reading # "no", Len(rbuf) >= Wanted
  PROVE  \E p, q1, q2, q, q3, w \in Nat : ReadAt(p, q1, q2, q, q3, w)
<1>1. PICK q1, q2, q3, w \in Nat : PiecesAt(NextStart, q1, q2, q3, w)
  BY WhileReading DEF Pieces
<1>2. PICK p \in Nat : p = NextStart
  BY WhileReading
<1>3. q2 <= q3 /\ rbuf = Run(q2, q3)
  BY <1>1 DEF PiecesAt, Buffer
<1>4. Wanted \in Nat
  BY WantedType DEF TypeInv, TypeOK
<1>5. PICK q \in Nat : q = q2 + Wanted
  BY <1>4
<1>6. q2 <= q /\ q <= q3 /\ Result = Run(q2, q) /\ Rest = Run(q, q3)
  BY <1>3, <1>4, <1>5, ReadGives
<1>7. ReadAt(p, q1, q2, q, q3, w)
  BY <1>1, <1>2, <1>5, <1>6 DEF ReadAt, PiecesAt
<1> QED BY <1>7

(* A read ends and read_frame goes on with the next part of the frame.     *)
LEMMA StageStream ==
  ASSUME TypeInv, StreamInv, reading # "no",
         NEW p \in Nat, NEW q1 \in Nat, NEW q2 \in Nat, NEW q \in Nat, NEW q3 \in Nat, NEW w \in Nat,
         ReadAt(p, q1, q2, q, q3, w), NEW r1 \in Nat, p <= r1, r1 <= q,
         UNCHANGED <<frames, total, wire, closed, connected, mode, inbound, raised,
                     bytes_recv, refused>>,
         reading' \in {"part1", "part2", "payload", "end"},
         Taken < Len(frames), header' = frames[Taken + 1],
         Layout(p, r1, q)', rbuf' = Run(q, q3),
         read_frame_buffer' = Run(p, r1), part1' = Run(r1, q)
  PROVE  StreamInv'
<1>1. Taken' = Taken /\ HasFrame' = HasFrame /\ NextStart' = NextStart
  BY PlaceStays
<1>2. connected /\ raised = "none" /\ mode # "none" /\ ~HasFrame /\ Taken <= Len(frames)
  BY WhileReading
<1>3. Control'
  BY <1>1, <1>2 DEF Control
<1>4. PiecesAt(NextStart, r1, q, q3, w)'
  BY <1>1 DEF ReadAt, PiecesAt, Buffer
<1>5. Pieces'
  BY <1>4 DEF Pieces
<1> QED BY <1>3, <1>5, GeometryStays DEF StreamInv

\* Reading the header keeps StreamInv.
LEMMA ReadHeaderStream ==
  ASSUME TypeInv, StreamInv, ReadHeader, UNCHANGED <<bytes_recv, refused>>
  PROVE  StreamInv'
<1>1. /\ reading = "header" /\ Len(rbuf) >= Wanted
      /\ header' = unpack(Result) /\ read_frame_buffer' = Result /\ rbuf' = Rest
      /\ reading' = IF header'.size > SIGNED_INT_MAX THEN "part1" ELSE "payload"
      /\ UNCHANGED <<frames, total, wire, closed, connected, mode, part1, inbound, raised>>
  BY DEF ReadHeader, ReadEnds
<1>2. PICK p, q1, q2, q, q3, w \in Nat : ReadAt(p, q1, q2, q, q3, w)
  BY <1>1, ReadSplits
<1>3. /\ q1 = p /\ q2 = p /\ q = p + HeaderSize /\ q <= total /\ p < total /\ p <= q
      /\ Result = Run(p, q) /\ Rest = Run(q, q3) /\ part1 = Run(p, p) /\ p = NextStart
  BY <1>1, <1>2, Counts DEF ReadAt, Layout, Wanted
<1>4. Taken \in Nat /\ Taken < Len(frames) /\ Taken + 1 \in DOMAIN frames /\ frames[Taken + 1].start = p
  <2>1. Taken <= Len(frames) /\ Taken \in Nat /\ Len(frames) \in Nat /\ DOMAIN frames = 1 .. Len(frames)
    BY Counts DEF StreamInv, Control
  <2>2. Taken # Len(frames)
    BY <1>3, Counts DEF NextStart
  <2>3. Taken < Len(frames) /\ Taken + 1 \in DOMAIN frames
    BY <2>2, Counts DEF StreamInv, Control
  <2>4. frames[Taken + 1].start = p
    BY <1>3, <2>2 DEF NextStart
  <2> QED BY <2>1, <2>3, <2>4
<1>5. header' = frames[Taken + 1]
  <2>1. HeaderOf(frames[Taken + 1]) = Run(p, q)
    BY <1>3, <1>4 DEF HeaderOf
  <2>2. unpack(HeaderOf(frames[Taken + 1])) = frames[Taken + 1]
    BY <1>4, Unpacks DEF StreamInv
  <2> QED BY <1>1, <1>3, <2>1, <2>2
<1>6. part1' = Run(q, q)
  BY <1>1, <1>3, RunEmpty
<1>7. Layout(p, q, q)'
  BY <1>1, <1>3 DEF Layout
<1>8. /\ reading' \in {"part1", "part2", "payload", "end"} /\ reading # "no" /\ q <= q
      /\ rbuf' = Run(q, q3) /\ read_frame_buffer' = Run(p, q)
  BY <1>1, <1>3
<1>9. UNCHANGED <<frames, total, wire, closed, connected, mode, inbound, raised,
                     bytes_recv, refused>>
  BY <1>1
<1> QED BY <1>2, <1>3, <1>4, <1>5, <1>6, <1>7, <1>8, <1>9, StageStream

\* Reading the first part of a payload beyond SIGNED_INT_MAX keeps StreamInv.
LEMMA ReadPart1Stream ==
  ASSUME TypeInv, StreamInv, ReadPart1, UNCHANGED <<bytes_recv, refused>>
  PROVE  StreamInv'
<1>1. /\ reading = "part1" /\ Len(rbuf) >= Wanted
      /\ part1' = Result /\ reading' = "part2" /\ rbuf' = Rest
      /\ UNCHANGED <<frames, total, wire, closed, connected, mode, read_frame_buffer, header,
                     inbound, raised>>
  BY DEF ReadPart1, ReadEnds
<1>2. PICK p, q1, q2, q, q3, w \in Nat : ReadAt(p, q1, q2, q, q3, w)
  BY <1>1, ReadSplits
<1>3. /\ q1 = p + HeaderSize /\ q2 = q1 /\ q = q1 + SIGNED_INT_MAX /\ p <= q1 /\ q1 <= q
      /\ Result = Run(q1, q) /\ Rest = Run(q, q3) /\ read_frame_buffer = Run(p, q1)
  BY <1>1, <1>2, Counts DEF ReadAt, Layout, Wanted
<1>4. Taken < Len(frames) /\ header' = frames[Taken + 1]
  BY <1>1 DEF StreamInv, Control
<1>5. Layout(p, q1, q)'
  BY <1>1, <1>3 DEF Layout
<1> QED BY <1>1, <1>2, <1>3, <1>4, <1>5, StageStream

\* Reading the payload, or the rest of it, keeps StreamInv.
LEMMA ReadPayloadStream ==
  ASSUME TypeInv, StreamInv, ReadPayload, UNCHANGED <<bytes_recv, refused>>
  PROVE  StreamInv'
<1>1. /\ reading \in {"part2", "payload"} /\ Len(rbuf) >= Wanted
      /\ read_frame_buffer' = read_frame_buffer \o part1 \o Result
      /\ part1' = << >> /\ reading' = "end" /\ rbuf' = Rest
      /\ UNCHANGED <<frames, total, wire, closed, connected, mode, header, inbound, raised>>
  BY DEF ReadPayload, ReadEnds
<1>2. PICK p, q1, q2, q, q3, w \in Nat : ReadAt(p, q1, q2, q, q3, w)
  BY <1>1, ReadSplits
<1>3. /\ p <= q1 /\ q1 <= q2 /\ q2 <= q
      /\ Result = Run(q2, q) /\ Rest = Run(q, q3)
      /\ read_frame_buffer = Run(p, q1) /\ part1 = Run(q1, q2)
  BY <1>2 DEF ReadAt
<1>4. q = p + HeaderSize + header.size
  <2>1. header.size \in Nat
    BY DEF TypeInv, TypeOK, TransportTypeOK, Frame
  <2>2. q = q2 + Wanted /\ Layout(p, q1, q2)
    BY <1>2 DEF ReadAt
  <2>3. CASE reading = "part2"
    <3>1. /\ q1 = p + HeaderSize /\ q2 = q1 + SIGNED_INT_MAX
          /\ Wanted = header.size - SIGNED_INT_MAX
      BY <2>2, <2>3 DEF Layout, Wanted
    <3> QED BY <2>1, <2>2, <3>1, TransportAssumption
  <2>4. CASE reading = "payload"
    <3>1. q1 = p + HeaderSize /\ q2 = q1 /\ Wanted = header.size
      BY <2>2, <2>4 DEF Layout, Wanted
    <3> QED BY <2>1, <2>2, <3>1, TransportAssumption
  <2> QED BY <1>1, <2>3, <2>4
<1>5. read_frame_buffer' = Run(p, q)
  <2>0. p <= q2
    BY <1>3
  <2>1. Run(p, q1) \o Run(q1, q2) = Run(p, q2)
    BY <1>3, RunConcat
  <2>2. Run(p, q2) \o Run(q2, q) = Run(p, q)
    BY <1>3, <2>0, RunConcat
  <2> QED BY <1>1, <1>3, <2>1, <2>2
<1>6. Taken < Len(frames) /\ header' = frames[Taken + 1]
  BY <1>1 DEF StreamInv, Control
<1>7. Layout(p, q, q)'
  BY <1>1, <1>4 DEF Layout
<1>8. part1' = Run(q, q) /\ p <= q
  BY <1>1, <1>3, RunEmpty
<1>9. /\ reading' \in {"part1", "part2", "payload", "end"} /\ reading # "no" /\ q <= q
      /\ rbuf' = Run(q, q3)
  BY <1>1, <1>3
<1>10. UNCHANGED <<frames, total, wire, closed, connected, mode, inbound, raised,
                     bytes_recv, refused>>
  BY <1>1
<1> QED BY <1>2, <1>5, <1>6, <1>7, <1>8, <1>9, <1>10, StageStream

\* A run of one byte.
LEMMA RunOne == \A a \in Nat : Run(a, a + 1) = <<a + 1>>
<1> SUFFICES ASSUME NEW a \in Nat PROVE Run(a, a + 1) = <<a + 1>>
  OBVIOUS
<1>1. a + 1 \in Nat /\ a <= a + 1 /\ (a + 1) - a = 1
  OBVIOUS
<1> DEFINE s == Run(a, a + 1)
<1>2. s \in Seq(Nat) /\ Len(s) = 1 /\ s[1] = a + 1
  <2>1. /\ s \in Seq(Nat) /\ Len(s) = (a + 1) - a
        /\ \A k \in 1 .. (a + 1) - a : s[k] = a + k
    BY <1>1, RunProperties, Zenon
  <2> HIDE DEF s
  <2> QED BY <1>1, <2>1
<1>3. <<a + 1>> \in Seq(Nat) /\ Len(<<a + 1>>) = 1 /\ <<a + 1>>[1] = a + 1
  BY <1>1
<1> HIDE DEF s
<1>4. \A i \in 1 .. 1 : s[i] = <<a + 1>>[i]
  BY <1>2, <1>3
<1>5. s = <<a + 1>>
  BY <1>2, <1>3, <1>4, SeqEqual
<1> QED BY <1>5 DEF s

(* What is known when the frame-end octet has been read.                   *)
LEMMA FrameEndFacts ==
  ASSUME TypeInv, StreamInv, reading = "end", Len(rbuf) >= Wanted,
         NEW p \in Nat, NEW q1 \in Nat, NEW q2 \in Nat, NEW q \in Nat, NEW q3 \in Nat, NEW w \in Nat,
         ReadAt(p, q1, q2, q, q3, w)
  PROVE  /\ Taken \in Nat /\ Taken + 1 \in DOMAIN frames /\ header = frames[Taken + 1]
         /\ StartOf(Taken + 2) = q
         /\ Result = <<EndOf(header)>> /\ Payload = PayloadOf(header)
<1>1. /\ q1 = p + HeaderSize + header.size /\ q2 = q1 /\ q = q1 + 1 /\ Result = Run(q1, q)
      /\ read_frame_buffer = Run(p, q1) /\ p = NextStart
  BY DEF ReadAt, Layout, Wanted
<1>2. Taken \in Nat /\ Taken < Len(frames) /\ header = frames[Taken + 1]
  BY Counts DEF StreamInv, Control
<1>3. Taken + 1 \in DOMAIN frames
  <2>1. Taken + 1 \in 1 .. Len(frames) /\ DOMAIN frames = 1 .. Len(frames)
    BY <1>2, Counts
  <2> QED BY <2>1
<1>4. header.start = p /\ header.size \in Nat /\ HeaderSize \in Nat
  <2>1. Taken # Len(frames)
    <3>1. Len(frames) \in Nat
      BY Counts
    <3>2. \A i, j \in Nat : i < j => i # j
      OBVIOUS
    <3> QED BY <1>2, <3>1, <3>2, Zenon
  <2>2. NextStart = frames[Taken + 1].start
    BY <2>1, Zenon DEF NextStart
  <2> QED BY <1>1, <1>2, <1>3, <2>2, Counts
<1>5. StartOf((Taken + 1) + 1) = frames[Taken + 1].start + HeaderSize + frames[Taken + 1].size + 1
  BY <1>3 DEF StreamInv, Geometry
<1>6. StartOf(Taken + 2) = q
  <2>1. (Taken + 1) + 1 = Taken + 2
    BY <1>2
  <2> QED BY <1>1, <1>2, <1>4, <1>5, <2>1
<1>7. Result = <<EndOf(header)>>
  <2>1. Run(q1, q1 + 1) = <<q1 + 1>>
    BY RunOne
  <2>2. EndOf(header) = q1 + 1
    BY <1>1, <1>4 DEF EndOf
  <2> QED BY <1>1, <2>1, <2>2
<1>8. Payload = PayloadOf(header)
  <2>1. PICK m \in Nat : m = p + HeaderSize
    BY <1>4
  <2>2. m <= q1
    BY <1>1, <1>4, <2>1
  <2>3. AfterOf(read_frame_buffer, HeaderSize) = Run(m, q1)
    BY <1>1, <1>4, <2>1, <2>2, RunSplit
  <2>4. PayloadOf(header) = Run(m, q1)
    BY <1>1, <1>4, <2>1 DEF PayloadOf
  <2> QED BY <2>3, <2>4 DEF Payload, AfterOf
<1> QED BY <1>2, <1>3, <1>6, <1>7, <1>8

\* Reading the frame end keeps StreamInv: the frame is taken, whole, or refused.
LEMMA ReadFrameEndStream ==
  ASSUME TypeInv, StreamInv, ReadFrameEnd, UNCHANGED bytes_recv,
         refused' = refused + (IF raised' = "UnexpectedFrame" THEN 1 ELSE 0)
  PROVE  StreamInv'
<1>1. /\ reading = "end" /\ Len(rbuf) >= Wanted /\ reading' = "no" /\ read_buffer' = Rest
      /\ read_frame_buffer' = << >> /\ part1' = << >>
      /\ UNCHANGED <<frames, total, wire, closed, connected>>
  BY DEF ReadFrameEnd, ReadEnds
<1>2. PICK p, q1, q2, q, q3, w \in Nat : ReadAt(p, q1, q2, q, q3, w)
  BY <1>1, ReadSplits
<1>3. /\ Taken \in Nat /\ Taken + 1 \in DOMAIN frames /\ header = frames[Taken + 1]
      /\ StartOf(Taken + 2) = q
      /\ Result = <<EndOf(header)>> /\ Payload = PayloadOf(header)
  BY <1>1, <1>2, FrameEndFacts
<1>4. /\ connected /\ raised = "none" /\ mode # "none" /\ ~HasFrame
      /\ Taken = bytes_recv + refused /\ bytes_recv \in Nat /\ refused \in Nat
  BY <1>1, WhileReading, Counts
<1>5. /\ Taken' = Taken + 1
      /\ (mode' = "none") <=> ~HasFrame'
      /\ mode' # "none" => raised' = "none"
      /\ HasFrame' => header.end_ok /\ inbound' = InboundOf(header)
  <2>1. CASE header.end_ok
    <3>1. /\ inbound' = [type |-> header.type, channel |-> header.channel, arg |-> header.arg,
                         buf |-> Payload]
          /\ UNCHANGED <<mode, raised>>
      BY <1>3, <2>1, Zenon DEF ReadFrameEnd
    <3>2. inbound'.type = header.type /\ NoFrame.type = 0
      BY <3>1 DEF NoFrame
    <3>3. header.type # 0
      BY <1>3 DEF StreamInv, Geometry
    <3>4. HasFrame'
      BY <3>2, <3>3 DEF HasFrame
    <3>5. refused' = refused
      BY <1>4, <3>1
    <3>6. Taken' = Taken + 1
      BY <1>4, <3>4, <3>5 DEF Taken
    <3>7. inbound' = InboundOf(header)
      BY <1>3, <3>1, Zenon DEF InboundOf
    <3> QED BY <1>4, <2>1, <3>1, <3>4, <3>6, <3>7
  <2>2. CASE ~header.end_ok
    <3>1. raised' = "UnexpectedFrame" /\ mode' = "none" /\ UNCHANGED inbound
      BY <2>2, Zenon DEF ReadFrameEnd
    <3>2. ~HasFrame'
      BY <1>4, <3>1 DEF HasFrame
    <3>3. refused' = refused + 1
      BY <3>1
    <3>4. Taken' = Taken + 1
      BY <1>4, <3>2, <3>3 DEF Taken
    <3> QED BY <3>1, <3>2, <3>4
  <2> QED BY <2>1, <2>2
<1>6. Taken + 1 <= Len(frames) /\ Taken + 1 >= 1
  BY <1>3, Counts
<1>7. InboundOf(header) = InboundOf(frames'[Taken'])
  BY <1>1, <1>3, <1>5 DEF InboundOf, PayloadOf
<1>8. Control'
  <2>1. HasFrame' => /\ Taken' >= 1 /\ frames'[Taken'].end_ok
                     /\ inbound' = InboundOf(frames'[Taken'])
    BY <1>1, <1>3, <1>5, <1>6, <1>7
  <2>2. InboundOf(frames[Taken])' = InboundOf(frames'[Taken'])
    BY DEF InboundOf, PayloadOf
  <2>3. Taken' <= Len(frames')
    BY <1>1, <1>5, <1>6
  <2> QED BY <1>1, <1>4, <1>5, <2>1, <2>2, <2>3 DEF Control
<1>9. NextStart' = q
  <2>1. PICK n \in Nat : n = Taken
    BY <1>3
  <2>2. Taken' = n + 1 /\ (n + 1) + 1 = n + 2 /\ Len(frames) \in Nat
    BY <1>5, <2>1, Counts
  <2>3. NextStart' = IF n + 1 = Len(frames) THEN total ELSE frames[n + 2].start
    BY <1>1, <2>2 DEF NextStart
  <2>4. q = IF n + 2 = Len(frames) + 1 THEN total ELSE frames[n + 2].start
    BY <1>3, <2>1 DEF StartOf
  <2> QED BY <2>2, <2>3, <2>4
<1>10. Pieces'
  <2>1. q <= q3 /\ q3 <= w /\ w <= total /\ (~closed => w = total) /\ Rest = Run(q, q3) /\ wire = Run(q3, w)
    BY <1>2 DEF ReadAt
  <2>2. Run(q, q) = << >> /\ q <= q
    BY RunEmpty
  <2>3. PiecesAt(NextStart, q, q, q3, w)'
    BY <1>1, <1>9, <2>1, <2>2 DEF PiecesAt, Layout, Buffer
  <2> QED BY <2>3 DEF Pieces
<1> QED BY <1>1, <1>8, <1>10, GeometryStays DEF StreamInv

\* A timeout keeps StreamInv: every piece goes back to _read_buffer, in order.
LEMMA ReadTimesOutStream ==
  ASSUME TypeInv, StreamInv, ReadTimesOut, UNCHANGED <<bytes_recv, refused>>
  PROVE  StreamInv'
<1>1. /\ reading # "no" /\ reading' = "no" /\ mode' = "none"
      /\ read_buffer' = read_frame_buffer \o part1 \o rbuf
      /\ read_frame_buffer' = << >> /\ part1' = << >>
      /\ UNCHANGED <<frames, total, wire, closed, connected, inbound>>
  BY DEF ReadTimesOut, Raises, PutBack, Short
<1>2. Taken' = Taken /\ HasFrame' = HasFrame /\ NextStart' = NextStart
  BY <1>1, PlaceStays
<1>3. ~HasFrame /\ Taken <= Len(frames)
  BY <1>1, WhileReading
<1>4. Control'
  BY <1>1, <1>2, <1>3 DEF Control
<1>5. Pieces'
  <2>1. PICK q1, q2, q3, w \in Nat : PiecesAt(NextStart, q1, q2, q3, w)
    BY <1>1, WhileReading DEF Pieces
  <2>2. PICK p \in Nat : p = NextStart
    BY <1>1, WhileReading
  <2>3. /\ p <= q1 /\ q1 <= q2 /\ q2 <= q3 /\ read_frame_buffer = Run(p, q1)
        /\ part1 = Run(q1, q2) /\ rbuf = Run(q2, q3)
    BY <1>1, <2>1, <2>2 DEF PiecesAt, Buffer
  <2>4. read_buffer' = Run(p, q3)
    <3>0. p <= q2
      BY <2>3
    <3>1. Run(p, q1) \o Run(q1, q2) = Run(p, q2)
      BY <2>3, RunConcat
    <3>2. Run(p, q2) \o Run(q2, q3) = Run(p, q3)
      BY <2>3, <3>0, RunConcat
    <3> QED BY <1>1, <2>3, <3>1, <3>2
  <2>5. Run(p, p) = << >> /\ p <= p /\ p <= q3
    BY <2>3, RunEmpty
  <2>6. q3 <= w /\ w <= total /\ (~closed => w = total) /\ wire = Run(q3, w)
    BY <2>1 DEF PiecesAt
  <2>7. PiecesAt(NextStart, p, p, q3, w)'
    BY <1>1, <1>2, <2>2, <2>4, <2>5, <2>6 DEF PiecesAt, Layout, Buffer
  <2> QED BY <2>7 DEF Pieces
<1> QED BY <1>1, <1>4, <1>5, GeometryStays DEF StreamInv

\* Another OSError keeps StreamInv: the transport is no longer connected.
LEMMA ReadFailsStream ==
  ASSUME TypeInv, StreamInv, ReadFails, UNCHANGED <<bytes_recv, refused>>
  PROVE  StreamInv'
<1>1. /\ reading # "no" /\ reading' = "no" /\ mode' = "none" /\ connected' = FALSE
      /\ UNCHANGED <<frames, total, inbound>>
  BY DEF ReadFails, Raises, Short
<1>2. Taken' = Taken /\ HasFrame' = HasFrame
  BY <1>1, PlaceStays
<1>3. ~HasFrame /\ Taken <= Len(frames)
  BY <1>1, WhileReading
<1>4. Control'
  BY <1>1, <1>2, <1>3 DEF Control
<1> QED BY <1>1, <1>4, GeometryStays DEF StreamInv

\* Every step of read_frame keeps StreamInv.
LEMMA ReadingStepStream ==
  ASSUME TypeInv, StreamInv, ReadingStep
  PROVE  StreamInv'
<1>1. /\ UNCHANGED bytes_recv
      /\ refused' = refused + (IF raised' = "UnexpectedFrame" THEN 1 ELSE 0)
      /\ refused \in Nat
  BY Counts DEF ReadingStep, handlerVars
<1>2. CASE ReadFrameEnd
  BY <1>1, <1>2, ReadFrameEndStream
<1>3. ASSUME ReadHeader \/ ReadPart1 \/ ReadPayload \/ ReadTimesOut \/ ReadFails
      PROVE  refused' = refused
  <2>1. CASE ReadHeader \/ ReadPart1 \/ ReadPayload
    <3>1. raised' = raised /\ reading # "no"
      BY <2>1 DEF ReadHeader, ReadPart1, ReadPayload, ReadEnds
    <3>2. raised' # "UnexpectedFrame"
      BY <3>1, WhileReading
    <3> QED BY <1>1, <3>2
  <2>2. CASE ReadTimesOut \/ ReadFails
    <3>1. raised' # "UnexpectedFrame"
      BY <2>2 DEF ReadTimesOut, ReadFails, Raises
    <3> QED BY <1>1, <3>1
  <2> QED BY <1>3, <2>1, <2>2
<1>4. CASE ReadHeader
  BY <1>1, <1>3, <1>4, ReadHeaderStream
<1>5. CASE ReadPart1
  BY <1>1, <1>3, <1>5, ReadPart1Stream
<1>6. CASE ReadPayload
  BY <1>1, <1>3, <1>6, ReadPayloadStream
<1>7. CASE ReadTimesOut
  BY <1>1, <1>3, <1>7, ReadTimesOutStream
<1>8. CASE ReadFails
  BY <1>1, <1>3, <1>8, ReadFailsStream
<1> QED BY <1>2, <1>4, <1>5, <1>6, <1>7, <1>8, Zenon DEF ReadingStep, ReadStep

(* on_frame takes the frame that read_frame has returned.                  *)
LEMMA OnFrameStream ==
  ASSUME TypeInv, StreamInv, OnFrameRaises \/ OnFrameFalse \/ OnFrameTrue
  PROVE  StreamInv'
<1>1. /\ HasFrame /\ inbound' = NoFrame /\ bytes_recv' = bytes_recv + 1
      /\ UNCHANGED <<frames, total, wire, closed, connected, read_buffer,
                     read_frame_buffer, part1, header, refused>>
  BY DEF OnFrameRaises, OnFrameFalse, OnFrameTrue, on_frame_raises, on_frame_false, on_frame_true,
         readerVars
<1>2. /\ \/ reading' = reading /\ mode' = "none" /\ rbuf' = rbuf
         \/ reading' = "header" /\ rbuf' = read_buffer /\ mode' = mode /\ raised' = raised
  BY DEF OnFrameRaises, OnFrameFalse, OnFrameTrue
<1>3. reading = "no" /\ mode # "none" /\ connected /\ raised = "none" /\ Taken <= Len(frames)
  BY <1>1 DEF StreamInv, Control
<1>4. ~HasFrame'
  BY <1>1 DEF HasFrame
<1>5. Taken' = Taken
  BY <1>1, <1>4, Counts DEF Taken
<1>6. NextStart' = NextStart
  BY <1>1, <1>5 DEF NextStart
<1>7. Control'
  BY <1>1, <1>2, <1>3, <1>4, <1>5 DEF Control
<1>8. Pieces'
  <2>1. PICK q1, q2, q3, w \in Nat : PiecesAt(NextStart, q1, q2, q3, w)
    BY <1>3 DEF StreamInv, Pieces
  <2>2. PiecesAt(NextStart, q1, q2, q3, w)'
    BY <1>1, <1>2, <1>3, <1>6, <2>1 DEF PiecesAt, Layout, Buffer
  <2> QED BY <2>2 DEF Pieces
<1> QED BY <1>1, <1>7, <1>8, GeometryStays DEF StreamInv

\* Every step keeps StreamInv.
LEMMA StreamInvNext == TypeInv /\ StreamInv /\ [Next]_vars => StreamInv'
<1> SUFFICES ASSUME TypeInv, StreamInv, [Next]_vars PROVE StreamInv'
  OBVIOUS
<1>1. CASE UNCHANGED vars
  <2>1. /\ UNCHANGED <<frames, total, wire, closed, connected, read_buffer, reading, mode, rbuf,
                       read_frame_buffer, part1, header, inbound, raised>>
        /\ UNCHANGED <<bytes_recv, refused>>
    BY <1>1 DEF vars, transportVars, handlerVars, readerVars
  <2>2. Taken' = Taken /\ HasFrame' = HasFrame /\ NextStart' = NextStart
    BY <2>1, PlaceStays
  <2>3. Geometry' /\ Control'
    BY <2>1, <2>2, GeometryStays DEF StreamInv, Control, InboundOf, PayloadOf
  <2>4. connected => Pieces'
    BY <2>1, <2>2 DEF StreamInv, Pieces, PiecesAt, Layout, Buffer
  <2> QED BY <2>1, <2>3, <2>4 DEF StreamInv
<1> QED BY <1>1, PeerStepStream, DrainStream, ReceivesStream, ReadingStepStream, OnFrameStream
        DEF Next, LibraryStep

\* StreamInv gives NothingLost.
LEMMA StreamIsKept ==
  ASSUME TypeInv, StreamInv
  PROVE  NothingLost
<1> SUFFICES ASSUME connected
             PROVE  LET bytes == Held \o wire IN
                    /\ bytes = Run(NextStart, NextStart + Len(bytes))
                    /\ ~closed => NextStart + Len(bytes) = total
  BY DEF NothingLost
<1>1. PICK q1, q2, q3, w \in Nat : PiecesAt(NextStart, q1, q2, q3, w)
  BY DEF StreamInv, Pieces
<1>2. PICK p \in Nat : p = NextStart
  BY NextStartIs DEF StreamInv, Control
<1>3. /\ p <= q1 /\ q1 <= q2 /\ q2 <= q3 /\ q3 <= w /\ (~closed => w = total)
      /\ read_frame_buffer = Run(p, q1) /\ part1 = Run(q1, q2) /\ Buffer = Run(q2, q3)
      /\ wire = Run(q3, w)
  BY <1>1, <1>2 DEF PiecesAt
<1>4. Held = Run(p, q3)
  <2>1. CASE reading = "no"
    BY <1>1, <1>2, <1>3, <2>1 DEF PiecesAt, Layout, Buffer, Held
  <2>2. CASE reading # "no"
    <3>0. p <= q2
      BY <1>3
    <3>1. Run(p, q1) \o Run(q1, q2) = Run(p, q2)
      BY <1>3, RunConcat
    <3>2. Run(p, q2) \o Run(q2, q3) = Run(p, q3)
      BY <1>3, <3>0, RunConcat
    <3> QED BY <1>3, <2>2, <3>1, <3>2 DEF Held, Buffer
  <2> QED BY <2>1, <2>2
<1>5. Held \o wire = Run(p, w)
  <2>1. p <= q3
    BY <1>3
  <2>2. Run(p, q3) \o Run(q3, w) = Run(p, w)
    BY <1>3, <2>1, RunConcat
  <2> QED BY <1>3, <1>4, <2>2
<1>6. Len(Run(p, w)) = w - p
  <2>1. p <= w
    BY <1>3
  <2> QED BY <2>1, RunProperties
<1>7. p + (w - p) = w
  OBVIOUS
<1> QED BY <1>2, <1>3, <1>5, <1>6, <1>7

(* No byte of the stream is lost, repeated or moved by read_frame and      *)
(* _read (transport.py), however often and wherever a read is cut short by *)
(* a timeout and taken up again.                                           *)
THEOREM NothingEverLost == Spec => []NothingLost
<1>1. Init => TypeInv /\ StreamInv
  BY TypeInvInit, StreamInvInit
<1>2. (TypeInv /\ StreamInv) /\ [Next]_vars => (TypeInv /\ StreamInv)'
  BY TypeInvNext, StreamInvNext
<1>3. TypeInv /\ StreamInv => NothingLost
  BY StreamIsKept
<1> QED BY <1>1, <1>2, <1>3, PTL DEF Spec

-----------------------------------------------------------------------------
(* The frame handler.                                                      *)

(* What a frame makes of the broker's record p of its channel.             *)
Left(p, f) == IF f.type = 2 THEN f.arg.body_size
              ELSE IF f.type = 3 THEN p.left - f.size ELSE 0
BodyOf(p, f) == IF f.type = 3 THEN p.body \o PayloadOf(f) ELSE << >>
NumberOf(p, f) == IF f.type = 1 THEN f.arg.n ELSE p.n
Ends(p, f) == IF f.type = 1 THEN ~f.arg.content ELSE Left(p, f) = 0

PeerAfter(p, f, q) ==
  IF Ends(p, f) THEN q = Idle
  ELSE /\ q.next = IF f.type = 1 THEN 2 ELSE 3
       /\ q.n = NumberOf(p, f) /\ q.left = Left(p, f) /\ q.body = BodyOf(p, f)

Fits(p, f) ==
  /\ f.type \in 1 .. 3 /\ f.type = p.next
  /\ f.type = 3 => f.size <= p.left

(* The records h and the methods s before a frame, g and t after it.       *)
WrongFrame(f, h) ==
  \/ f.type = 8 /\ ~f.end_ok
  \/ f.type \in 1 .. 3 /\ f.channel \in Channels /\ f.type # h[f.channel].next

GoodFrame(f, h, g, s, t) ==
  LET c == f.channel IN
  /\ f.end_ok /\ c \in Channels /\ Fits(h[c], f)
  /\ \A d \in Channels \ {c} : g[d] = h[d] /\ t[d] = s[d]
  /\ PeerAfter(h[c], f, g[c])
  /\ t[c] = IF Ends(h[c], f)
            THEN Append(s[c], [n |-> NumberOf(h[c], f), body |-> BodyOf(h[c], f)]) ELSE s[c]

FrameStep(f, bad, h, g, s, t) ==
  \/ g = h /\ t = s /\ bad /\ WrongFrame(f, h)
  \/ g = h /\ t = s /\ ~bad /\ f.type = 8 /\ f.end_ok
  \/ ~bad /\ GoodFrame(f, h, g, s, t)

(* A record between two frames.                                            *)
PeerOK(p) ==
  /\ p.next = 1 => p = Idle
  /\ p.next # 1 => p.n # 0
  /\ p.next = 2 => p.left = 0 /\ p.body = << >>

Begins(a, b) == Len(a) <= Len(b) /\ \A j \in 1 .. Len(a) : a[j] = b[j]

PeerHistory == [Nat -> [Channels -> PeerType]]
SentHistory == [Nat -> [Channels -> Seq(SentType)]]

History(hp, hs) ==
  /\ hp[Len(frames)] = peer /\ hs[Len(frames)] = sent
  /\ \A i \in 1 .. Len(frames) :
       FrameStep(frames[i], i \in wrong, hp[i - 1], hp[i], hs[i - 1], hs[i])
  /\ \A i \in 0 .. Len(frames), c \in Channels : PeerOK(hp[i][c]) /\ Begins(hs[i][c], sent[c])

Handled == bytes_recv + refused

(* The handler is where the broker was after the frames handled.           *)
MessageIs(msg, p) == /\ msg.n = p.n /\ msg.body = p.body
                     /\ msg.body_size = p.left + Len(p.body)

InStep(h, s) ==
  /\ delivered = s
  /\ \A c \in Channels : /\ expected_types[c] = h[c].next
                         /\ MessageIs(partial_messages[c], h[c])

Delivers == \E hp \in PeerHistory, hs \in SentHistory :
              History(hp, hs) /\ InStep(hp[Handled], hs[Handled])

Blames == raised = "UnexpectedFrame" => Taken \in wrong

DeliveryInv == Delivers /\ Blames

-----------------------------------------------------------------------------
\* The fields of a channel with no method under way.
LEMMA IdleFields == Idle.next = 1 /\ Idle.n = 0 /\ Idle.left = 0 /\ Idle.body = << >>
BY DEF Idle

\* A channel with no method under way is well formed.
LEMMA IdleOK == PeerOK(Idle)
BY IdleFields DEF PeerOK

\* A sequence begins with itself.
LEMMA BeginsSelf == ASSUME NEW S, NEW a \in Seq(S) PROVE Begins(a, a)
BY DEF Begins

\* What begins a sequence still begins it when it grows.
LEMMA BeginsAppend ==
  ASSUME NEW S, NEW a \in Seq(S), NEW b \in Seq(S), NEW m \in S, Begins(a, b)
  PROVE  Begins(a, Append(b, m))
<1>1. Len(a) \in Nat /\ Len(b) \in Nat /\ Len(a) <= Len(b)
  BY DEF Begins
<1>2. /\ Len(Append(b, m)) = Len(b) + 1
      /\ \A i \in 1 .. Len(b) : Append(b, m)[i] = b[i]
  BY AppendProperties
<1>3. \A i \in 1 .. Len(a) : i \in 1 .. Len(b)
  BY <1>1
<1> QED BY <1>1, <1>2, <1>3 DEF Begins

\* The history holds at the start: nothing sent, nothing handled.
LEMMA DeliveryInit == Init => DeliveryInv
<1> SUFFICES ASSUME Init PROVE DeliveryInv
  OBVIOUS
<1> USE DEF Init, TransportInit, HandlerInit
<1>1. Len(frames) = 0 /\ Handled = 0 /\ 1 .. Len(frames) = {} /\ 0 .. Len(frames) = {0}
  BY DEF Handled
<1> DEFINE hp == [i \in Nat |-> [c \in Channels |-> Idle]]
           hs == [i \in Nat |-> [c \in Channels |-> << >>]]
<1>2. hp \in PeerHistory /\ hs \in SentHistory
  <2>1. << >> \in Seq(SentType) /\ Idle \in PeerType
    BY IdleType
  <2> QED BY <2>1 DEF PeerHistory, SentHistory
<1>3. hp[0] = peer /\ hs[0] = sent
  OBVIOUS
<1>4. \A c \in Channels : hp[0][c] = Idle /\ hs[0][c] = << >> /\ sent[c] = << >>
  OBVIOUS
<1>5. Begins(<< >>, << >>)
  BY DEF Begins
<1> HIDE DEF hp, hs
<1>6. History(hp, hs)
  BY <1>1, <1>3, <1>4, <1>5, IdleOK DEF History
<1>7. delivered = hs[0]
  BY <1>3
<1>8. \A c \in Channels : expected_types[c] = hp[0][c].next /\ MessageIs(partial_messages[c], hp[0][c])
  BY <1>4, IdleFields DEF MessageIs, NoMessage
<1>9. InStep(hp[Handled], hs[Handled])
  BY <1>1, <1>7, <1>8 DEF InStep
<1>10. Delivers
  BY <1>2, <1>6, <1>9 DEF Delivers
<1> QED BY <1>10 DEF DeliveryInv, Blames

(* The broker puts a frame on the stream: the history grows by one.        *)
LEMMA HistoryGrows ==
  ASSUME TypeInv, TypeInv', StreamInv, Delivers, NEW f \in Frame, NEW bad \in BOOLEAN,
         frames' = Append(frames, f),
         wrong' = IF bad THEN wrong \cup {Len(frames) + 1} ELSE wrong,
         FrameStep(f, bad, peer, peer', sent, sent'),
         \A c \in Channels : PeerOK(peer'[c]),
         \A c \in Channels : sent'[c] = sent[c] \/ \E m \in SentType : sent'[c] = Append(sent[c], m),
         UNCHANGED <<handlerVars, refused>>
  PROVE  Delivers'
<1>1. PICK hp \in PeerHistory, hs \in SentHistory :
        History(hp, hs) /\ InStep(hp[Handled], hs[Handled])
  BY DEF Delivers
<1>2. PICK L \in Nat : L = Len(frames)
  BY Counts
<1>3. PICK np \in [Channels -> PeerType], ns \in [Channels -> Seq(SentType)] :
        np = peer' /\ ns = sent'
  BY DEF TypeInv, TypeOK, PeerType, SentType
<1>4. /\ peer \in [Channels -> PeerType] /\ sent \in [Channels -> Seq(SentType)]
      /\ wrong \subseteq 1 .. L /\ frames \in Seq(Frame)
  BY <1>2, Counts DEF TypeInv, TypeOK, PeerType, SentType
<1> DEFINE gp == [hp EXCEPT ![L + 1] = np]
           gs == [hs EXCEPT ![L + 1] = ns]
<1>5. gp \in PeerHistory /\ gs \in SentHistory
  BY DEF PeerHistory, SentHistory
<1>6. /\ gp[L + 1] = np /\ gs[L + 1] = ns
      /\ \A i \in 0 .. L : gp[i] = hp[i] /\ gs[i] = hs[i]
  BY DEF PeerHistory, SentHistory
<1> HIDE DEF gp, gs
<1>7. /\ Len(frames') = L + 1 /\ frames'[L + 1] = f
      /\ \A i \in 1 .. L : frames'[i] = frames[i]
  BY <1>2, <1>4, AppendProperties
<1>8. /\ \A i \in 1 .. L : (i \in wrong') <=> (i \in wrong)
      /\ (L + 1 \in wrong') <=> bad
  BY <1>2, <1>4
<1>9. Handled' = Handled /\ Handled \in 0 .. L
  <2>1. Handled \in Nat /\ Handled <= Taken /\ Taken <= Len(frames)
    BY Counts DEF Handled, Taken, StreamInv, Control
  <2> QED BY <1>2, <2>1, Counts DEF Handled, handlerVars
<1>10. ASSUME NEW i \in 1 .. L + 1
       PROVE  FrameStep(frames'[i], i \in wrong', gp[i - 1], gp[i], gs[i - 1], gs[i])
  <2>1. CASE i \in 1 .. L
    <3>1. i - 1 \in 0 .. L /\ i \in 0 .. L
      BY <2>1
    <3>2. FrameStep(frames[i], i \in wrong, hp[i - 1], hp[i], hs[i - 1], hs[i])
      BY <1>1, <1>2, <2>1 DEF History
    <3>3. /\ gp[i - 1] = hp[i - 1] /\ gs[i - 1] = hs[i - 1] /\ gp[i] = hp[i] /\ gs[i] = hs[i]
          /\ frames'[i] = frames[i]
      BY <1>6, <1>7, <2>1, <3>1
    <3>4. (i \in wrong') = (i \in wrong)
      BY <1>8, <2>1
    <3> QED BY <3>2, <3>3, <3>4 DEF FrameStep
  <2>2. CASE i = L + 1
    <3>1. i - 1 = L /\ L \in 0 .. L
      BY <2>2
    <3>2. gp[i - 1] = peer /\ gs[i - 1] = sent /\ gp[i] = peer' /\ gs[i] = sent'
      BY <1>1, <1>2, <1>3, <1>6, <2>2, <3>1 DEF History
    <3>3. frames'[i] = f /\ ((i \in wrong') <=> bad)
      BY <1>7, <1>8, <2>2
    <3>4. FrameStep(f, bad, peer, np, sent, ns)
      BY <1>3, Zenon
    <3>5. gp[i - 1] = peer /\ gs[i - 1] = sent /\ gp[i] = np /\ gs[i] = ns
      BY <1>3, <3>2
    <3>6. CASE bad
      <4>1. i \in wrong' /\ np = peer /\ ns = sent /\ WrongFrame(f, peer)
        BY <3>3, <3>4, <3>6, Zenon DEF FrameStep
      <4> QED BY <3>3, <3>5, <4>1 DEF FrameStep
    <3>7. CASE ~bad
      <4>1. i \notin wrong'
        BY <3>3, <3>7
      <4>2. \/ np = peer /\ ns = sent /\ f.type = 8 /\ f.end_ok
            \/ GoodFrame(f, peer, np, sent, ns)
        BY <3>4, <3>7, Zenon DEF FrameStep
      <4> QED BY <3>3, <3>5, <4>1, <4>2 DEF FrameStep
    <3> QED BY <3>6, <3>7, Zenon
  <2>3. i \in 1 .. L \/ i = L + 1
    OBVIOUS
  <2> QED BY <2>1, <2>2, <2>3, Zenon
<1>11. ASSUME NEW i \in 0 .. L + 1, NEW c \in Channels
       PROVE  PeerOK(gp[i][c]) /\ Begins(gs[i][c], sent'[c])
  <2>1. CASE i \in 0 .. L
    <3>1. PeerOK(hp[i][c]) /\ Begins(hs[i][c], sent[c])
      BY <1>1, <1>2, <2>1 DEF History
    <3>2. hs[i][c] \in Seq(SentType) /\ sent[c] \in Seq(SentType)
      BY <1>4, <2>1 DEF SentHistory
    <3>3. Begins(hs[i][c], sent'[c])
      BY <3>1, <3>2, BeginsAppend
    <3> QED BY <1>6, <2>1, <3>1, <3>3
  <2>2. CASE i = L + 1
    <3>1. sent'[c] \in Seq(SentType)
      BY <1>3
    <3> QED BY <1>3, <1>6, <2>2, <3>1, BeginsSelf
  <2> QED BY <2>1, <2>2
<1>12. History(gp, gs)'
  BY <1>3, <1>6, <1>7, <1>10, <1>11 DEF History
<1>13. InStep(gp[Handled], gs[Handled])'
  <2>1. gp[Handled'] = hp[Handled] /\ gs[Handled'] = hs[Handled]
    BY <1>6, <1>9
  <2> QED BY <1>1, <2>1 DEF InStep, handlerVars
<1> QED BY <1>5, <1>12, <1>13 DEF Delivers

\* What the broker has under way on each channel is well formed.
LEMMA PeersOK == TypeInv /\ Delivers => \A c \in Channels : PeerOK(peer[c])
<1> SUFFICES ASSUME TypeInv, Delivers, NEW c \in Channels PROVE PeerOK(peer[c])
  OBVIOUS
<1>1. PICK hp \in PeerHistory, hs \in SentHistory : History(hp, hs)
  BY DEF Delivers
<1>2. Len(frames) \in 0 .. Len(frames)
  BY Counts
<1> QED BY <1>1, <1>2 DEF History

SentGrows == \A d \in Channels : \/ sent'[d] = sent[d]
                                 \/ \E m \in SentType : sent'[d] = Append(sent[d], m)

(* The last frame of a method.                                             *)
LEMMA CompletesStep ==
  ASSUME ReaderTypeOK, \A d \in Channels : PeerOK(peer[d]),
         NEW c \in Channels, NEW f \in Frame, f.channel = c, f.end_ok,
         Fits(peer[c], f), Ends(peer[c], f), NEW n \in Nat, NEW body \in Bytes,
         n = NumberOf(peer[c], f), body = BodyOf(peer[c], f), Completes(c, n, body)
  PROVE  /\ FrameStep(f, FALSE, peer, peer', sent, sent')
         /\ \A d \in Channels : PeerOK(peer'[d])
         /\ SentGrows
<1>1. /\ peer \in [Channels -> PeerType] /\ sent \in [Channels -> Seq(SentType)]
      /\ [n |-> n, body |-> body] \in SentType
  BY DEF ReaderTypeOK, SentType
<1>2. /\ peer'[c] = Idle /\ \A d \in Channels \ {c} : peer'[d] = peer[d]
      /\ sent'[c] = Append(sent[c], [n |-> n, body |-> body])
      /\ \A d \in Channels \ {c} : sent'[d] = sent[d]
  BY <1>1 DEF Completes
<1>3. GoodFrame(f, peer, peer', sent, sent')
  BY <1>2 DEF GoodFrame, PeerAfter
<1>4. \A d \in Channels : PeerOK(peer'[d])
  BY <1>2, IdleOK
<1>5. SentGrows
  BY <1>1, <1>2 DEF SentGrows
<1> QED BY <1>3, <1>4, <1>5 DEF FrameStep

(* A frame that more must follow.                                          *)
LEMMA ContinuesStep ==
  ASSUME ReaderTypeOK, \A d \in Channels : PeerOK(peer[d]),
         NEW c \in Channels, NEW f \in Frame, f.channel = c, f.end_ok,
         Fits(peer[c], f), ~Ends(peer[c], f), NEW q \in PeerType,
         peer' = [peer EXCEPT ![c] = q], UNCHANGED sent,
         PeerAfter(peer[c], f, q), PeerOK(q)
  PROVE  /\ FrameStep(f, FALSE, peer, peer', sent, sent')
         /\ \A d \in Channels : PeerOK(peer'[d])
         /\ SentGrows
<1>1. peer \in [Channels -> PeerType]
  BY DEF ReaderTypeOK
<1>2. peer'[c] = q /\ \A d \in Channels \ {c} : peer'[d] = peer[d]
  BY <1>1
<1>3. GoodFrame(f, peer, peer', sent, sent')
  BY <1>2 DEF GoodFrame
<1>4. \A d \in Channels : PeerOK(peer'[d])
  BY <1>2
<1> QED BY <1>3, <1>4 DEF FrameStep, SentGrows

(* The frame that PutFrame puts on the stream.                             *)
NewFrame(type, channel, size, arg, end_ok) ==
  [start |-> total, size |-> size, type |-> type, channel |-> channel,
   arg |-> arg, end_ok |-> end_ok]

SoundFrame(type, channel, size, arg) == NewFrame(type, channel, size, arg, TRUE)

\* A frame put on the stream extends the history by one step.
LEMMA PutDelivers ==
  ASSUME TypeInv, TypeInv', StreamInv, DeliveryInv,
         NEW type \in 0 .. 8, NEW channel \in Nat, NEW size \in Nat, NEW arg \in Arg,
         NEW end_ok \in BOOLEAN, NEW bad \in BOOLEAN, PutFrame(type, channel, size, arg, end_ok),
         wrong' = IF bad THEN wrong \cup {Len(frames) + 1} ELSE wrong,
         UNCHANGED <<handlerVars, refused>>,
         FrameStep(NewFrame(type, channel, size, arg, end_ok), bad, peer, peer', sent, sent'),
         \A c \in Channels : PeerOK(peer'[c]), SentGrows
  PROVE  DeliveryInv'
<1> DEFINE f0 == NewFrame(type, channel, size, arg, end_ok)
<1>0. f0 \in Frame
  BY Counts DEF NewFrame, Frame
<1> HIDE DEF f0
<1>1. PICK f \in Frame : f = f0
  BY <1>0, Zenon
<1>2. frames' = Append(frames, f) /\ UNCHANGED <<inbound, raised>>
  BY <1>1, Zenon DEF PutFrame, NewFrame, clientVars, f0
<1>a. FrameStep(f, bad, peer, peer', sent, sent')
  BY <1>1, Zenon DEF f0
<1>3. Delivers'
  BY <1>2, <1>a, HistoryGrows, Zenon DEF DeliveryInv, SentGrows
<1>4. Blames'
  BY <1>2 DEF DeliveryInv, Blames, Taken, HasFrame, handlerVars
<1> QED BY <1>3, <1>4 DEF DeliveryInv

(* A step of the broker that sends a frame it may send.                    *)
LEMMA SendsDelivers ==
  ASSUME TypeInv, TypeInv', StreamInv, DeliveryInv,
         NEW type \in 0 .. 8, NEW channel \in Nat, NEW size \in Nat, NEW arg \in Arg,
         Sends(type, channel, size, arg),
         FrameStep(SoundFrame(type, channel, size, arg), FALSE, peer, peer', sent, sent'),
         \A c \in Channels : PeerOK(peer'[c]), SentGrows
  PROVE  DeliveryInv'
<1>1. /\ PutFrame(type, channel, size, arg, TRUE) /\ UNCHANGED <<handlerVars, refused>>
      /\ wrong' = IF FALSE THEN wrong \cup {Len(frames) + 1} ELSE wrong
      /\ TRUE \in BOOLEAN /\ FALSE \in BOOLEAN
  BY Zenon DEF Sends
<1>2. FrameStep(NewFrame(type, channel, size, arg, TRUE), FALSE, peer, peer', sent, sent')
  BY Zenon DEF SoundFrame
<1> QED BY <1>1, <1>2, PutDelivers, Zenon

\* PeerMethod keeps the history: a method with or without content begins.
LEMMA PeerMethodDelivers ==
  ASSUME TypeInv, TypeInv', StreamInv, DeliveryInv, NEW c \in Channels, PeerMethod(c)
  PROVE  DeliveryInv'
<1>0. ReaderTypeOK /\ peer[c].next = 1 /\ c \in Nat
  BY TypeParts, PeerTypes DEF TypeInv, PeerMethod
<1>1. PICK n \in Nat : n = Len(frames) + 1 /\ n # 0
  BY Counts
<1>2. \A d \in Channels : PeerOK(peer[d])
  BY PeersOK DEF DeliveryInv
<1>3. 1 \in 0 .. 8 /\ 1 \in Nat /\ SIGNED_INT_MAX + 1 \in Nat /\ TRUE \in BOOLEAN
  BY TransportAssumption
<1>4. CASE Sends(1, c, 1, [NoArg EXCEPT !.n = n]) /\ Completes(c, n, << >>)
  <2>0. LET a == [NoArg EXCEPT !.n = n] IN a \in Arg /\ a.n = n /\ ~a.content
    BY DEF NoArg, Arg
  <2>1. PICK a \in Arg : a = [NoArg EXCEPT !.n = n] /\ a.n = n /\ ~a.content
    BY <2>0, Zenon
  <2> DEFINE f0 == SoundFrame(1, c, 1, a)
  <2>e. f0 \in Frame /\ f0.type = 1 /\ f0.channel = c /\ f0.arg = a /\ f0.end_ok
    BY <1>0, <1>3, Counts DEF SoundFrame, NewFrame, Frame
  <2> HIDE DEF f0
  <2>g. \E f \in Frame : f = f0 /\ f.type = 1 /\ f.channel = c /\ f.arg = a /\ f.end_ok
    BY <2>e, Zenon
  <2>f. PICK f \in Frame : /\ f = SoundFrame(1, c, 1, a)
                           /\ f.type = 1 /\ f.channel = c /\ f.arg = a /\ f.end_ok
    BY <2>g, Zenon DEF f0
  <2>2. f.type = 1 /\ f.channel = c /\ f.arg = a /\ f.end_ok
    BY <2>f, Zenon
  <2>3. /\ Fits(peer[c], f) /\ Ends(peer[c], f) /\ n = NumberOf(peer[c], f)
        /\ << >> = BodyOf(peer[c], f) /\ << >> \in Bytes
    BY <1>0, <2>1, <2>2, NoArgType DEF Fits, Ends, NumberOf, BodyOf
  <2>4. /\ FrameStep(f, FALSE, peer, peer', sent, sent')
        /\ \A d \in Channels : PeerOK(peer'[d])
        /\ SentGrows
    BY <1>0, <1>2, <1>4, <2>2, <2>3, CompletesStep
  <2>5. Sends(1, c, 1, a) /\ FrameStep(SoundFrame(1, c, 1, a), FALSE, peer, peer', sent, sent')
    BY <1>4, <2>1, <2>f, <2>4, Zenon
  <2> QED BY <1>0, <1>3, <2>4, <2>5, SendsDelivers, Zenon
<1>5. CASE /\ Sends(1, c, SIGNED_INT_MAX + 1, [NoArg EXCEPT !.n = n, !.content = TRUE])
           /\ peer' = [peer EXCEPT ![c] = [Idle EXCEPT !.next = 2, !.n = n]]
           /\ UNCHANGED sent
  <2>0. LET a == [NoArg EXCEPT !.n = n, !.content = TRUE] IN a \in Arg /\ a.n = n /\ a.content
    BY DEF NoArg, Arg
  <2>1. PICK a \in Arg : /\ a = [NoArg EXCEPT !.n = n, !.content = TRUE]
                         /\ a.n = n /\ a.content
    BY <2>0, Zenon
  <2>s. PICK size \in Nat : size = SIGNED_INT_MAX + 1
    BY <1>3
  <2> DEFINE f0 == SoundFrame(1, c, size, a)
  <2>e. f0 \in Frame /\ f0.type = 1 /\ f0.channel = c /\ f0.arg = a /\ f0.end_ok
    BY <1>0, <1>3, Counts DEF SoundFrame, NewFrame, Frame
  <2> HIDE DEF f0
  <2>f. PICK f \in Frame : f = f0 /\ f.type = 1 /\ f.channel = c /\ f.arg = a /\ f.end_ok
    BY <2>e, Zenon
  <2>2. f.type = 1 /\ f.channel = c /\ f.arg = a /\ f.end_ok
    BY <2>f, Zenon
  <2>3. PICK q \in PeerType : /\ q = [Idle EXCEPT !.next = 2, !.n = n]
                              /\ q.next = 2 /\ q.n = n /\ q.left = 0 /\ q.body = << >>
    <3>1. 2 \in 1 .. 3
      OBVIOUS
    <3>2. [Idle EXCEPT !.next = 2, !.n = n] \in PeerType
      BY <3>1, IdleType, NoArgType, PeerUpdates, Zenon
    <3> QED BY <3>2 DEF Idle
  <2>4. Fits(peer[c], f) /\ ~Ends(peer[c], f) /\ PeerAfter(peer[c], f, q) /\ PeerOK(q)
    BY <1>0, <1>1, <2>1, <2>2, <2>3 DEF Fits, Ends, PeerAfter, NumberOf, BodyOf, Left, PeerOK
  <2>5. /\ FrameStep(f, FALSE, peer, peer', sent, sent')
        /\ \A d \in Channels : PeerOK(peer'[d])
        /\ SentGrows
    BY <1>0, <1>2, <1>5, <2>2, <2>3, <2>4, ContinuesStep
  <2>6. /\ Sends(1, c, size, a)
        /\ FrameStep(SoundFrame(1, c, size, a), FALSE, peer, peer', sent, sent')
    BY <1>5, <2>1, <2>s, <2>f, <2>5, Zenon DEF f0
  <2> QED BY <1>0, <1>3, <2>5, <2>6, SendsDelivers, Zenon
<1> QED BY <1>1, <1>4, <1>5, Zenon DEF PeerMethod

\* PeerHeader keeps the history: an empty body ends the method, another waits.
LEMMA PeerHeaderDelivers ==
  ASSUME TypeInv, TypeInv', StreamInv, DeliveryInv, NEW c \in Channels, PeerHeader(c)
  PROVE  DeliveryInv'
<1>0. ReaderTypeOK /\ peer[c].next = 2 /\ peer[c] \in PeerType /\ peer[c].n \in Nat /\ c \in Nat
  BY TypeParts, PeerTypes DEF TypeInv, PeerHeader
<1>2. \A d \in Channels : PeerOK(peer[d])
  BY PeersOK DEF DeliveryInv
<1>3. 2 \in 0 .. 8 /\ 0 \in Nat /\ TRUE \in BOOLEAN
  OBVIOUS
<1>4. PICK size \in BodySizes :
        /\ Sends(2, c, 0, [NoArg EXCEPT !.body_size = size])
        /\ \/ size = 0 /\ Completes(c, peer[c].n, << >>)
           \/ /\ size > 0
              /\ peer' = [peer EXCEPT ![c].next = 3, ![c].left = size]
              /\ UNCHANGED sent
  BY Zenon DEF PeerHeader
<1>5. size \in Nat
  BY ReaderAssumption
<1>a. LET a == [NoArg EXCEPT !.body_size = size] IN a \in Arg /\ a.body_size = size
  BY <1>5 DEF NoArg, Arg
<1>6. PICK a \in Arg : a = [NoArg EXCEPT !.body_size = size] /\ a.body_size = size
  BY <1>a, Zenon
<1> DEFINE f0 == SoundFrame(2, c, 0, a)
<1>e. f0 \in Frame /\ f0.type = 2 /\ f0.channel = c /\ f0.arg = a /\ f0.end_ok
  BY <1>0, <1>3, Counts DEF SoundFrame, NewFrame, Frame
<1> HIDE DEF f0
<1>g. \E f \in Frame : f = f0 /\ f.type = 2 /\ f.channel = c /\ f.arg = a /\ f.end_ok
  BY <1>e, Zenon
<1>f. PICK f \in Frame : /\ f = SoundFrame(2, c, 0, a)
                         /\ f.type = 2 /\ f.channel = c /\ f.arg = a /\ f.end_ok
  BY <1>g, Zenon DEF f0
<1>7. f.type = 2 /\ f.channel = c /\ f.arg = a /\ f.end_ok
  BY <1>f, Zenon
<1>8. Fits(peer[c], f)
  BY <1>0, <1>7 DEF Fits
<1>9. /\ FrameStep(f, FALSE, peer, peer', sent, sent')
      /\ \A d \in Channels : PeerOK(peer'[d])
      /\ SentGrows
  <2>1. CASE size = 0 /\ Completes(c, peer[c].n, << >>)
    <3>1. PICK n \in Nat : n = peer[c].n
      BY <1>0
    <3>2. /\ Ends(peer[c], f) /\ n = NumberOf(peer[c], f) /\ << >> = BodyOf(peer[c], f)
          /\ << >> \in Bytes
      BY <1>0, <1>6, <1>7, <2>1, <3>1, NoArgType DEF Ends, NumberOf, BodyOf, Left
    <3> QED BY <1>0, <1>2, <1>7, <1>8, <2>1, <3>1, <3>2, CompletesStep
  <2>2. CASE size > 0 /\ peer' = [peer EXCEPT ![c].next = 3, ![c].left = size] /\ UNCHANGED sent
    <3>1. PICK q \in PeerType : /\ q = [peer[c] EXCEPT !.next = 3, !.left = size]
                                /\ q.next = 3 /\ q.n = peer[c].n /\ q.left = size
                                /\ q.body = peer[c].body
      <4>1. 3 \in 1 .. 3
        OBVIOUS
      <4>2. [peer[c] EXCEPT !.next = 3, !.left = size] \in PeerType
        BY <1>0, <1>5, <4>1, NoArgType, PeerUpdates, Zenon
      <4> QED BY <1>0, <4>2 DEF PeerType
    <3>2. peer' = [peer EXCEPT ![c] = q]
      BY <1>0, <2>2, <3>1 DEF ReaderTypeOK, PeerType
    <3>3. peer[c].body = << >> /\ peer[c].n # 0
      BY <1>0, <1>2 DEF PeerOK
    <3>4. ~Ends(peer[c], f) /\ PeerAfter(peer[c], f, q) /\ PeerOK(q)
      BY <1>0, <1>5, <1>6, <1>7, <2>2, <3>1, <3>3
         DEF Ends, PeerAfter, NumberOf, BodyOf, Left, PeerOK
    <3> QED BY <1>0, <1>2, <1>7, <1>8, <2>2, <3>1, <3>2, <3>4, ContinuesStep
  <2> QED BY <1>4, <2>1, <2>2
<1>10. Sends(2, c, 0, a) /\ FrameStep(SoundFrame(2, c, 0, a), FALSE, peer, peer', sent, sent')
  BY <1>4, <1>6, <1>f, <1>9, Zenon
<1> QED BY <1>0, <1>3, <1>9, <1>10, SendsDelivers, Zenon

\* PeerBody keeps the history: the last piece of the body ends the method.
LEMMA PeerBodyDelivers ==
  ASSUME TypeInv, TypeInv', StreamInv, DeliveryInv, NEW c \in Channels, PeerBody(c)
  PROVE  DeliveryInv'
<1>0. /\ ReaderTypeOK /\ peer[c].next = 3 /\ peer[c] \in PeerType /\ peer[c].n \in Nat
      /\ c \in Nat /\ peer[c].left \in Nat /\ peer[c].body \in Bytes
  BY TypeParts, PeerTypes DEF TypeInv, PeerBody
<1>1. total \in Nat /\ HeaderSize \in Nat /\ NoArg \in Arg
  BY Counts, NoArgType
<1>2. \A d \in Channels : PeerOK(peer[d])
  BY PeersOK DEF DeliveryInv
<1>3. 3 \in 0 .. 8 /\ TRUE \in BOOLEAN
  OBVIOUS
<1>a. \A k \in 1 .. peer[c].left : k \in Nat /\ k <= peer[c].left
  BY <1>0
<1>4. PICK k \in Nat :
        /\ k <= peer[c].left
        /\ Sends(3, c, k, NoArg)
        /\ LET body == peer[c].body \o Run(total + HeaderSize, total + HeaderSize + k) IN
           \/ k = peer[c].left /\ Completes(c, peer[c].n, body)
           \/ /\ k < peer[c].left
              /\ peer' = [peer EXCEPT ![c].left = @ - k, ![c].body = body]
              /\ UNCHANGED sent
  BY <1>a, Zenon DEF PeerBody
<1>5. k <= peer[c].left /\ peer[c].left - k \in Nat
  BY <1>0, <1>4
<1> DEFINE f0 == SoundFrame(3, c, k, NoArg)
<1>e. /\ f0 \in Frame /\ f0.type = 3 /\ f0.channel = c /\ f0.start = total /\ f0.size = k
      /\ f0.end_ok
  BY <1>0, <1>1, <1>3 DEF SoundFrame, NewFrame, Frame
<1> HIDE DEF f0
<1>f. PICK f \in Frame : /\ f = f0
                         /\ f.type = 3 /\ f.channel = c /\ f.start = total /\ f.size = k
                         /\ f.end_ok
  BY <1>e, Zenon
<1>6. f.type = 3 /\ f.channel = c /\ f.start = total /\ f.size = k /\ f.end_ok
  BY <1>f, Zenon
<1>7. Fits(peer[c], f)
  BY <1>0, <1>5, <1>6 DEF Fits
<1>8. PICK body \in Bytes :
        /\ body = peer[c].body \o Run(total + HeaderSize, total + HeaderSize + k)
        /\ body = BodyOf(peer[c], f)
  <2>1. total + HeaderSize \in Nat /\ total + HeaderSize + k \in Nat
        /\ total + HeaderSize <= total + HeaderSize + k
    BY <1>1, <1>5
  <2>2. Run(total + HeaderSize, total + HeaderSize + k) \in Seq(Nat)
    BY <2>1, RunProperties
  <2>3. peer[c].body \o Run(total + HeaderSize, total + HeaderSize + k) \in Bytes
    BY <1>0, <2>2, ConcatProperties DEF Bytes
  <2> QED BY <1>6, <2>3, Zenon DEF BodyOf, PayloadOf
<1>9. /\ FrameStep(f, FALSE, peer, peer', sent, sent')
      /\ \A d \in Channels : PeerOK(peer'[d])
      /\ SentGrows
  <2>1. CASE k = peer[c].left /\ Completes(c, peer[c].n, body)
    <3>1. PICK n \in Nat : n = peer[c].n
      BY <1>0
    <3>2. Ends(peer[c], f) /\ n = NumberOf(peer[c], f)
      BY <1>0, <1>6, <2>1, <3>1 DEF Ends, NumberOf, Left
    <3> QED BY <1>0, <1>2, <1>6, <1>7, <1>8, <2>1, <3>1, <3>2, CompletesStep
  <2>2. CASE /\ k < peer[c].left
             /\ peer' = [peer EXCEPT ![c].left = @ - k, ![c].body = body]
             /\ UNCHANGED sent
    <3>1. PICK q \in PeerType : /\ q = [peer[c] EXCEPT !.left = @ - k, !.body = body]
                                /\ q.next = 3 /\ q.n = peer[c].n /\ q.left = peer[c].left - k
                                /\ q.body = body
      <4>1. 3 \in 1 .. 3
        OBVIOUS
      <4>2. [peer[c] EXCEPT !.left = @ - k, !.body = body] \in PeerType
        BY <1>0, <1>5, <2>2, <4>1, PeerUpdates, Zenon
      <4> QED BY <1>0, <4>2 DEF PeerType
    <3>2. peer' = [peer EXCEPT ![c] = q]
      BY <1>0, <2>2, <3>1 DEF ReaderTypeOK, PeerType
    <3>3. peer[c].n # 0
      BY <1>0, <1>2 DEF PeerOK
    <3>4. ~Ends(peer[c], f)
      BY <1>0, <1>5, <1>6, <2>2 DEF Ends, Left
    <3>5. PeerAfter(peer[c], f, q)
      BY <1>6, <1>8, <3>1, <3>4 DEF PeerAfter, NumberOf, Left
    <3>6. PeerOK(q)
      BY <3>1, <3>3 DEF PeerOK
    <3> QED BY <1>0, <1>2, <1>6, <1>7, <2>2, <3>1, <3>2, <3>4, <3>5, <3>6, ContinuesStep
  <2> QED BY <1>4, <1>8, <2>1, <2>2, Zenon
<1>10. Sends(3, c, k, NoArg) /\ FrameStep(SoundFrame(3, c, k, NoArg), FALSE, peer, peer', sent, sent')
  BY <1>4, <1>f, <1>9, Zenon DEF f0
<1> QED BY <1>0, <1>1, <1>3, <1>5, <1>9, <1>10, SendsDelivers, Zenon

(* Heartbeats and wrong frames: the records stay as they are.              *)
LEMMA ExtraDelivers ==
  ASSUME TypeInv, TypeInv', StreamInv, DeliveryInv,
         NEW type \in 0 .. 8, NEW channel \in Nat, NEW size \in Nat, NEW arg \in Arg,
         NEW end_ok \in BOOLEAN, NEW bad \in BOOLEAN, PutFrame(type, channel, size, arg, end_ok),
         wrong' = IF bad THEN wrong \cup {Len(frames) + 1} ELSE wrong,
         UNCHANGED <<handlerVars, refused, peer, sent>>,
         \/ bad /\ WrongFrame(NewFrame(type, channel, size, arg, end_ok), peer)
         \/ ~bad /\ type = 8 /\ end_ok
  PROVE  DeliveryInv'
<1>1. /\ NewFrame(type, channel, size, arg, end_ok).type = type
      /\ NewFrame(type, channel, size, arg, end_ok).end_ok = end_ok
  BY DEF NewFrame
<1>2. FrameStep(NewFrame(type, channel, size, arg, end_ok), bad, peer, peer', sent, sent')
  BY <1>1, Zenon DEF FrameStep
<1>3. (\A c \in Channels : PeerOK(peer'[c])) /\ SentGrows
  BY PeersOK DEF DeliveryInv, SentGrows
<1> QED BY <1>2, <1>3, PutDelivers, Zenon

\* A step that neither sends nor handles a frame keeps the history.
LEMMA QuietDelivers ==
  ASSUME Delivers, UNCHANGED <<frames, wrong, peer, sent, handlerVars, refused>>
  PROVE  Delivers'
<1>1. PICK hp \in PeerHistory, hs \in SentHistory :
        History(hp, hs) /\ InStep(hp[Handled], hs[Handled])
  BY DEF Delivers
<1>2. Handled' = Handled
  BY DEF Handled, handlerVars
<1>3. History(hp, hs)'
  BY <1>1, Zenon DEF History
<1>4. InStep(hp[Handled], hs[Handled])'
  BY <1>1, <1>2 DEF InStep, handlerVars
<1> QED BY <1>3, <1>4 DEF Delivers

\* Every step of the broker keeps the history.
LEMMA PeerStepDelivers ==
  ASSUME TypeInv, TypeInv', StreamInv, DeliveryInv, PeerStep
  PROVE  DeliveryInv'
<1>0. 8 \in 0 .. 8 /\ 0 \in Nat /\ NoArg \in Arg /\ ReaderTypeOK
  BY NoArgType, TypeParts DEF TypeInv
<1>1. CASE PeerHeartbeat
  <2>1. /\ PutFrame(8, 0, 0, NoArg, TRUE) /\ UNCHANGED <<handlerVars, refused, peer, sent>>
        /\ wrong' = IF FALSE THEN wrong \cup {Len(frames) + 1} ELSE wrong
        /\ TRUE \in BOOLEAN /\ FALSE \in BOOLEAN
    BY <1>1, Zenon DEF PeerHeartbeat, Sends
  <2> QED BY <1>0, <2>1, ExtraDelivers, Zenon
<1>2. CASE PeerErrs
  <2>1. /\ UNCHANGED <<handlerVars, refused, peer, sent>>
        /\ wrong' = IF TRUE THEN wrong \cup {Len(frames) + 1} ELSE wrong
        /\ TRUE \in BOOLEAN /\ FALSE \in BOOLEAN
    BY <1>2, Zenon DEF PeerErrs
  <2>2. ASSUME NEW c \in Channels, PutFrame((peer[c].next % 3) + 1, c, 0, NoArg, TRUE)
        PROVE  DeliveryInv'
    <3>1. peer[c].next \in 1 .. 3 /\ c \in Nat
      BY <1>0, PeerTypes
    <3>2. PICK type \in 0 .. 8 : type = (peer[c].next % 3) + 1 /\ type \in 1 .. 3 /\ type # peer[c].next
      BY <3>1
    <3>3. /\ NewFrame(type, c, 0, NoArg, TRUE).type = type
          /\ NewFrame(type, c, 0, NoArg, TRUE).channel = c
      BY DEF NewFrame
    <3>4. WrongFrame(NewFrame(type, c, 0, NoArg, TRUE), peer)
      BY <3>2, <3>3, Zenon DEF WrongFrame
    <3>5. PutFrame(type, c, 0, NoArg, TRUE)
      BY <2>2, <3>2, Zenon
    <3> QED BY <1>0, <2>1, <3>1, <3>4, <3>5, ExtraDelivers, Zenon
  <2>3. CASE PutFrame(8, 0, 0, NoArg, FALSE)
    <3>1. /\ NewFrame(8, 0, 0, NoArg, FALSE).type = 8
          /\ NewFrame(8, 0, 0, NoArg, FALSE).end_ok = FALSE
      BY DEF NewFrame
    <3>2. WrongFrame(NewFrame(8, 0, 0, NoArg, FALSE), peer)
      BY <3>1, Zenon DEF WrongFrame
    <3> QED BY <1>0, <2>1, <2>3, <3>2, ExtraDelivers, Zenon
  <2> QED BY <1>2, <2>2, <2>3, Zenon DEF PeerErrs
<1>3. CASE PeerCloses
  <2>1. UNCHANGED <<frames, wrong, peer, sent, handlerVars, refused, inbound, raised>>
    BY <1>3 DEF PeerCloses, StreamEnds, readerVars, clientVars
  <2>2. Delivers' /\ Blames'
    BY <2>1, QuietDelivers DEF DeliveryInv, Blames, Taken, HasFrame, handlerVars
  <2> QED BY <2>2 DEF DeliveryInv
<1> QED BY <1>1, <1>2, <1>3, PeerMethodDelivers, PeerHeaderDelivers, PeerBodyDelivers, Zenon
        DEF PeerStep

-----------------------------------------------------------------------------
(* The handler takes a frame f: what on_frame finds and what it leaves.    *)
LEMMA HandledFrame ==
  ASSUME TypeInv, StreamInv, NEW hp \in PeerHistory, NEW hs \in SentHistory, History(hp, hs),
         Handled < Len(frames)
  PROVE  /\ Handled \in Nat /\ Handled + 1 \in 1 .. Len(frames)
         /\ frames[Handled + 1] \in Frame
         /\ FrameStep(frames[Handled + 1], Handled + 1 \in wrong,
                      hp[Handled], hp[Handled + 1], hs[Handled], hs[Handled + 1])
         /\ \A c \in Channels : PeerOK(hp[Handled][c])
<1>0. Handled \in Nat /\ Len(frames) \in Nat
  BY Counts DEF Handled
<1>1. PICK n \in Nat, L \in Nat : n = Handled /\ L = Len(frames) /\ n < L
  BY <1>0, Zenon
<1>2. n + 1 \in 1 .. L /\ (n + 1) - 1 = n /\ n \in 0 .. L
  BY <1>1
<1>3. FrameStep(frames[n + 1], n + 1 \in wrong, hp[(n + 1) - 1], hp[n + 1],
                hs[(n + 1) - 1], hs[n + 1])
  BY <1>1, <1>2, Zenon DEF History
<1>4. FrameStep(frames[n + 1], n + 1 \in wrong, hp[n], hp[n + 1], hs[n], hs[n + 1])
  BY <1>2, <1>3, Zenon
<1>5. \A c \in Channels : PeerOK(hp[n][c])
  BY <1>1, <1>2, Zenon DEF History
<1>6. frames[n + 1] \in Frame
  BY <1>1, <1>2, Counts
<1> QED BY <1>1, <1>2, <1>4, <1>5, <1>6, Zenon

\* What read_frame hands to on_frame is the frame with its payload.
LEMMA InboundFields ==
  ASSUME NEW F
  PROVE  /\ InboundOf(F).type = F.type /\ InboundOf(F).channel = F.channel
         /\ InboundOf(F).arg = F.arg /\ InboundOf(F).buf = PayloadOf(F)
BY DEF InboundOf

\* The fields of a frame have their types; its payload has its size.
LEMMA FrameFields ==
  ASSUME NEW F \in Frame
  PROVE  /\ F.start \in Nat /\ F.size \in Nat /\ F.arg.n \in Nat /\ F.arg.body_size \in Nat
         /\ F.arg.content \in BOOLEAN
         /\ PayloadOf(F) \in Seq(Nat) /\ Len(PayloadOf(F)) = F.size
<1>1. F.start \in Nat /\ F.size \in Nat /\ F.arg \in Arg
  BY DEF Frame
<1>2. F.arg.n \in Nat /\ F.arg.body_size \in Nat /\ F.arg.content \in BOOLEAN
  BY <1>1 DEF Arg
<1>3. PICK a \in Nat, b \in Nat : a = F.start + HeaderSize /\ b = F.start + HeaderSize + F.size
                                  /\ a <= b /\ b - a = F.size
  <2>1. F.start + HeaderSize \in Nat /\ F.start + HeaderSize + F.size \in Nat
    BY <1>1, TransportAssumption
  <2>2. PICK a \in Nat, b \in Nat : a = F.start + HeaderSize /\ b = F.start + HeaderSize + F.size
    BY <2>1, Zenon
  <2>3. a <= b /\ b - a = F.size
    BY <1>1, <2>2, TransportAssumption
  <2> QED BY <2>2, <2>3, Zenon
<1>4. Run(a, b) \in Seq(Nat) /\ Len(Run(a, b)) = F.size
  BY <1>3, RunProperties
<1>5. PayloadOf(F) = Run(a, b)
  BY <1>3, Zenon DEF PayloadOf
<1> QED BY <1>1, <1>2, <1>4, <1>5

(* A content frame leaves the message that the broker's record describes,  *)
(* and completes it exactly when the broker has sent all of it.            *)
LEMMA ReceivedIs ==
  ASSUME HandlerTypeOK, NEW F \in Frame, NEW c \in Channels, F.channel = c, NEW p \in PeerType,
         PeerOK(p), Fits(p, F), F.type \in {2, 3}, MessageIs(partial_messages[c], p)
  PROVE  /\ Ready(InboundOf(F)) <=> Ends(p, F)
         /\ Received(InboundOf(F)).n = NumberOf(p, F)
         /\ Received(InboundOf(F)).body = BodyOf(p, F)
         /\ Received(InboundOf(F)).body_size = Left(p, F) + Len(BodyOf(p, F))
<1> DEFINE msg == partial_messages[c]
           f == InboundOf(F)
<1>1. msg \in Message /\ msg.n = p.n /\ msg.body = p.body /\ msg.body_size = p.left + Len(p.body)
  BY DEF HandlerTypeOK, MessageIs
<1>2. /\ F.size \in Nat /\ F.arg.body_size \in Nat /\ PayloadOf(F) \in Seq(Nat)
      /\ Len(PayloadOf(F)) = F.size
  BY FrameFields
<1>3. f.type = F.type /\ f.channel = c /\ f.arg = F.arg /\ f.buf = PayloadOf(F)
  BY InboundFields
<1>4. p.left \in Nat /\ p.body \in Seq(Nat) /\ Len(p.body) \in Nat
  BY DEF PeerType, Bytes
<1> HIDE DEF f
<1>5. CASE F.type = 2
  <2>1. p.next = 2 /\ p.left = 0 /\ p.body = << >> /\ Len(p.body) = 0
    BY <1>5 DEF Fits, PeerOK
  <2>2. Received(f) = [msg EXCEPT !.body_size = F.arg.body_size]
    BY <1>3, <1>5 DEF Received
  <2>3. /\ Received(f).n = p.n /\ Received(f).body = << >>
        /\ Received(f).body_size = F.arg.body_size
    BY <1>1, <2>1, <2>2 DEF Message
  <2>4. Ready(f) <=> F.arg.body_size = 0
    BY <1>2, <2>1, <2>3 DEF Ready
  <2>5. /\ Left(p, F) = F.arg.body_size /\ BodyOf(p, F) = << >> /\ NumberOf(p, F) = p.n
        /\ Ends(p, F) <=> F.arg.body_size = 0
    BY <1>5 DEF Left, BodyOf, NumberOf, Ends
  <2>6. Left(p, F) + Len(BodyOf(p, F)) = F.arg.body_size
    BY <1>2, <2>1, <2>5
  <2> QED BY <2>3, <2>4, <2>5, <2>6 DEF f
<1>6. CASE F.type = 3
  <2>1. p.next = 3 /\ F.size <= p.left
    BY <1>6 DEF Fits
  <2>2. Received(f) = [msg EXCEPT !.body = @ \o f.buf]
    BY <1>3, <1>6 DEF Received
  <2> DEFINE body == p.body \o PayloadOf(F)
  <2>3. body \in Seq(Nat) /\ Len(body) = Len(p.body) + F.size
    <3>1. body \in Seq(Nat) /\ Len(body) = Len(p.body) + Len(PayloadOf(F))
      BY <1>2, <1>4, ConcatProperties, Zenon
    <3> QED BY <1>2, <3>1, Zenon
  <2>4. Received(f).n = p.n /\ Received(f).body = body /\ Received(f).body_size = p.left + Len(p.body)
    BY <1>1, <1>3, <2>2 DEF Message
  <2>5. /\ Left(p, F) = p.left - F.size /\ BodyOf(p, F) = body /\ NumberOf(p, F) = p.n
        /\ Ends(p, F) <=> p.left - F.size = 0
    BY <1>6 DEF Left, BodyOf, NumberOf, Ends
  <2> HIDE DEF body
  <2>6. Ready(f) <=> Len(body) >= p.left + Len(p.body)
    BY <2>4 DEF Ready
  <2>7. Ready(f) <=> p.left - F.size = 0
    BY <1>2, <1>4, <2>1, <2>3, <2>6
  <2>8. Left(p, F) + Len(BodyOf(p, F)) = p.left + Len(p.body)
    BY <1>2, <1>4, <2>3, <2>5
  <2> QED BY <2>4, <2>5, <2>7, <2>8 DEF f
<1> QED BY <1>5, <1>6

\* When on_frame keeps a partial message, it is in step with the frame handled.
LEMMA KeepInStep ==
  ASSUME HandlerTypeOK, NEW h \in [Channels -> PeerType], NEW g \in [Channels -> PeerType],
         NEW s, InStep(h, s), NEW c \in Channels, \A d \in Channels \ {c} : g[d] = h[d],
         NEW type, NEW msg, Keep(c, type, msg), type = g[c].next, MessageIs(msg, g[c])
  PROVE  InStep(g, s)'
<1>1. /\ expected_types'[c] = type /\ partial_messages'[c] = msg /\ delivered' = delivered
      /\ \A d \in Channels \ {c} : /\ expected_types'[d] = expected_types[d]
                                   /\ partial_messages'[d] = partial_messages[d]
  BY DEF HandlerTypeOK, Keep
<1>2. MessageIs(partial_messages'[c], g[c])
  BY <1>1
<1>3. \A d \in Channels \ {c} : MessageIs(partial_messages'[d], g[d])
  BY <1>1 DEF InStep
<1>4. \A d \in Channels : expected_types'[d] = g[d].next
  BY <1>1 DEF InStep
<1> QED BY <1>1, <1>2, <1>3, <1>4 DEF InStep

\* When on_frame delivers a method, it is the one the broker completed there.
LEMMA DoneInStep ==
  ASSUME HandlerTypeOK, NEW h \in [Channels -> PeerType], NEW g \in [Channels -> PeerType],
         NEW s \in [Channels -> Seq(SentType)], NEW t \in [Channels -> Seq(SentType)],
         InStep(h, s), NEW c \in Channels,
         \A d \in Channels \ {c} : g[d] = h[d] /\ t[d] = s[d], g[c] = Idle,
         NEW m, t[c] = Append(s[c], m), Done(c, m)
  PROVE  InStep(g, t)'
<1>1. /\ expected_types'[c] = 1 /\ partial_messages'[c] = NoMessage
      /\ \A d \in Channels \ {c} : /\ expected_types'[d] = expected_types[d]
                                   /\ partial_messages'[d] = partial_messages[d]
  BY DEF HandlerTypeOK, Done
<1>2. MessageIs(partial_messages'[c], g[c])
  BY <1>1, IdleFields DEF MessageIs, NoMessage
<1>3. \A d \in Channels \ {c} : MessageIs(partial_messages'[d], g[d])
  BY <1>1 DEF InStep
<1>4. \A d \in Channels : expected_types'[d] = g[d].next
  BY <1>1, IdleFields DEF InStep
<1>5. delivered' = t
  <2>1. delivered = s
    BY DEF InStep
  <2>2. delivered' = [s EXCEPT ![c] = Append(s[c], m)]
    BY <2>1 DEF Done
  <2> QED BY <2>2
<1> QED BY <1>2, <1>3, <1>4, <1>5 DEF InStep

OnFrame(f) == on_frame_raises(f) \/ on_frame_false(f) \/ on_frame_true(f)

\* on_frame follows the broker over one frame, and raises for a wrong one only.
LEMMA OnFrameInStep ==
  ASSUME HandlerTypeOK, NEW h \in [Channels -> PeerType], NEW g \in [Channels -> PeerType],
         NEW s \in [Channels -> Seq(SentType)], NEW t \in [Channels -> Seq(SentType)],
         NEW F \in Frame, F.end_ok, NEW bad \in BOOLEAN, FrameStep(F, bad, h, g, s, t),
         \A c \in Channels : PeerOK(h[c]), InStep(h, s), OnFrame(InboundOf(F))
  PROVE  InStep(g, t)' /\ (on_frame_raises(InboundOf(F)) => bad)
<1> DEFINE f == InboundOf(F)
<1>0. f.type = F.type /\ f.channel = F.channel /\ f.arg = F.arg /\ f.buf = PayloadOf(F)
  BY InboundFields
<1>o. OnFrame(f)
  OBVIOUS
<1> HIDE DEF f
<1>1. CASE g = h /\ t = s /\ bad /\ WrongFrame(F, h)
  <2>1. F.type \in 1 .. 3 /\ F.channel \in Channels /\ F.type # h[F.channel].next
    BY <1>1 DEF WrongFrame
  <2>2. ~Accepts(f)
    BY <1>0, <2>1 DEF Accepts, InStep
  <2>3. UNCHANGED <<expected_types, partial_messages, delivered>>
    BY <1>o, <2>2 DEF OnFrame, on_frame_raises, on_frame_false, on_frame_true
  <2>4. InStep(g, t)'
    BY <1>1, <2>3 DEF InStep
  <2> QED BY <1>1, <2>4, Zenon
<1>2. CASE g = h /\ t = s /\ F.type = 8
  <2>1. Accepts(f)
    BY <1>0, <1>2 DEF Accepts
  <2>2. UNCHANGED <<expected_types, partial_messages, delivered>> /\ ~on_frame_raises(f)
    BY <1>0, <1>2, <1>o, <2>1 DEF OnFrame, on_frame_raises, on_frame_false, on_frame_true
  <2>3. InStep(g, t)'
    BY <1>2, <2>2 DEF InStep
  <2> QED BY <2>2, <2>3, Zenon DEF f
<1>3. CASE GoodFrame(F, h, g, s, t)
  <2>1. PICK c \in Channels : c = F.channel
    BY <1>3 DEF GoodFrame
  <2>2. /\ Fits(h[c], F) /\ \A d \in Channels \ {c} : g[d] = h[d] /\ t[d] = s[d]
        /\ PeerAfter(h[c], F, g[c])
        /\ t[c] = IF Ends(h[c], F)
                  THEN Append(s[c], [n |-> NumberOf(h[c], F), body |-> BodyOf(h[c], F)]) ELSE s[c]
    BY <1>3, <2>1, Zenon DEF GoodFrame
  <2>3. /\ h[c] \in PeerType /\ PeerOK(h[c]) /\ MessageIs(partial_messages[c], h[c])
        /\ expected_types[c] = h[c].next /\ F.type \in 1 .. 3 /\ F.type = h[c].next
    BY <2>2 DEF InStep, Fits
  <2>4. Accepts(f) /\ ~on_frame_raises(f)
    BY <1>0, <2>1, <2>3 DEF Accepts, on_frame_raises
  <2>5. F.type # 1 => /\ Ready(f) <=> Ends(h[c], F)
                      /\ Received(f).n = NumberOf(h[c], F)
                      /\ Received(f).body = BodyOf(h[c], F)
                      /\ Received(f).body_size = Left(h[c], F) + Len(BodyOf(h[c], F))
    <3>1. F.type # 1 => F.type \in {2, 3}
      BY <2>3
    <3> QED BY <2>1, <2>2, <2>3, <3>1, ReceivedIs, Zenon DEF f
  <2>6. CASE Ends(h[c], F)
    <3> DEFINE m == [n |-> NumberOf(h[c], F), body |-> BodyOf(h[c], F)]
    <3>1. Done(c, m)
      <4>1. CASE F.type = 1
        <5>1. /\ ~F.arg.content /\ NumberOf(h[c], F) = F.arg.n /\ BodyOf(h[c], F) = << >>
          BY <2>6, <4>1 DEF Ends, NumberOf, BodyOf
        <5>2. on_frame_true(f) /\ f.type = 1 /\ f.arg.n = F.arg.n /\ f.channel = c
          BY <1>0, <1>o, <2>1, <2>4, <4>1, <5>1 DEF OnFrame, on_frame_false
        <5>3. Done(c, [n |-> F.arg.n, body |-> << >>])
          BY <5>2 DEF on_frame_true
        <5> QED BY <5>1, <5>3
      <4>2. CASE F.type # 1
        <5>1. Ready(f) /\ Received(f).n = NumberOf(h[c], F) /\ Received(f).body = BodyOf(h[c], F)
          BY <2>5, <2>6, <4>2
        <5>2. on_frame_true(f) /\ f.type \in {2, 3} /\ f.channel = c
          BY <1>0, <1>o, <2>1, <2>3, <2>4, <4>2, <5>1 DEF OnFrame, on_frame_false
        <5>3. Done(c, [n |-> Received(f).n, body |-> Received(f).body])
          BY <5>2 DEF on_frame_true
        <5> QED BY <5>1, <5>3
      <4> QED BY <4>1, <4>2
    <3>2. g[c] = Idle /\ t[c] = Append(s[c], m)
      BY <2>2, <2>6 DEF PeerAfter
    <3> HIDE DEF m
    <3>3. InStep(g, t)'
      BY <2>2, <3>1, <3>2, DoneInStep
    <3> QED BY <2>4, <3>3, Zenon DEF f
  <2>7. CASE ~Ends(h[c], F)
    <3>1. /\ g[c].n = NumberOf(h[c], F) /\ g[c].left = Left(h[c], F) /\ g[c].body = BodyOf(h[c], F)
          /\ g[c].next = IF F.type = 1 THEN 2 ELSE 3
      BY <2>2, <2>7 DEF PeerAfter
    <3>2. t = s
      BY <2>2, <2>7
    <3>3. \E type, msg : Keep(c, type, msg) /\ type = g[c].next /\ MessageIs(msg, g[c])
      <4>1. CASE F.type = 1
        <5>1. /\ F.arg.content /\ NumberOf(h[c], F) = F.arg.n /\ BodyOf(h[c], F) = << >>
              /\ Left(h[c], F) = 0
          BY <2>7, <4>1 DEF Ends, NumberOf, BodyOf, Left
        <5>2. on_frame_false(f) /\ f.type = 1 /\ f.arg.n = F.arg.n /\ f.channel = c
          BY <1>0, <1>o, <2>1, <2>4, <4>1, <5>1 DEF OnFrame, on_frame_true
        <5>3. Keep(c, 2, [NoMessage EXCEPT !.n = F.arg.n])
          BY <5>2 DEF on_frame_false
        <5>4. MessageIs([NoMessage EXCEPT !.n = F.arg.n], g[c])
          BY <3>1, <5>1 DEF MessageIs, NoMessage
        <5>5. g[c].next = 2
          BY <3>1, <4>1
        <5> QED BY <5>3, <5>4, <5>5, Zenon
      <4>2. CASE F.type # 1
        <5>1. ~Ready(f)
          BY <2>5, <2>7, <4>2
        <5>2. on_frame_false(f) /\ f.type \in {2, 3} /\ f.channel = c
          BY <1>0, <1>o, <2>1, <2>3, <2>4, <4>2, <5>1 DEF OnFrame, on_frame_true
        <5>3. Keep(c, 3, Received(f))
          BY <5>2 DEF on_frame_false
        <5>4. MessageIs(Received(f), g[c])
          BY <2>5, <3>1, <4>2 DEF MessageIs
        <5>5. g[c].next = 3
          BY <3>1, <4>2
        <5> QED BY <5>3, <5>4, <5>5, Zenon
      <4> QED BY <4>1, <4>2
    <3>4. InStep(g, s)'
      BY <2>2, <3>3, KeepInStep
    <3> QED BY <2>4, <3>2, <3>4, Zenon DEF f
  <2> QED BY <2>6, <2>7
<1> QED BY <1>1, <1>2, <1>3, Zenon DEF FrameStep

(* on_frame goes from place n of a history to the next.                    *)
Moves(hp, hs, n) ==
  /\ History(hp, hs) /\ n \in Nat /\ n + 1 \in 0 .. Len(frames)
  /\ InStep(hp[n], hs[n]) /\ InStep(hp[n + 1], hs[n + 1])'
  /\ FrameStep(frames[n + 1], n + 1 \in wrong, hp[n], hp[n + 1], hs[n], hs[n + 1])
  /\ on_frame_raises(inbound) => n + 1 \in wrong
  /\ Handled' = n + 1 /\ Taken' = n + 1

\* A step of on_frame moves the handler one frame along the history.
LEMMA OnFrameMoves ==
  ASSUME TypeInv, StreamInv, DeliveryInv, OnFrameRaises \/ OnFrameFalse \/ OnFrameTrue
  PROVE  \E hp \in PeerHistory, hs \in SentHistory, n \in Nat : Moves(hp, hs, n)
<1>1. /\ HasFrame /\ OnFrame(inbound) /\ inbound' = NoFrame /\ bytes_recv' = bytes_recv + 1
      /\ UNCHANGED <<frames, peer, sent, wrong, refused>>
  BY DEF OnFrameRaises, OnFrameFalse, OnFrameTrue, on_frame_raises, on_frame_false, on_frame_true,
         readerVars, OnFrame
<1>3. /\ HandlerTypeOK /\ Handled \in Nat /\ Len(frames) \in Nat /\ Taken = Handled + 1
      /\ Taken <= Len(frames) /\ frames[Taken].end_ok /\ inbound = InboundOf(frames[Taken])
  <2>1. HandlerTypeOK /\ bytes_recv \in Nat /\ refused \in Nat /\ Len(frames) \in Nat
    BY Counts DEF TypeInv, TypeOK
  <2>2. Handled \in Nat /\ Taken = Handled + 1
    BY <1>1, <2>1 DEF Taken, Handled
  <2>3. Taken <= Len(frames) /\ frames[Taken].end_ok /\ inbound = InboundOf(frames[Taken])
    BY <1>1, Zenon DEF StreamInv, Control
  <2> QED BY <2>1, <2>2, <2>3
<1>4. PICK hp \in PeerHistory, hs \in SentHistory :
        History(hp, hs) /\ InStep(hp[Handled], hs[Handled])
  BY DEF DeliveryInv, Delivers
<1>5. PICK n \in Nat : n = Handled
  BY <1>3
<1>6. n < Len(frames) /\ n + 1 \in Nat
  BY <1>3, <1>5
<1>7. /\ frames[n + 1] \in Frame
      /\ FrameStep(frames[n + 1], n + 1 \in wrong, hp[n], hp[n + 1], hs[n], hs[n + 1])
      /\ \A c \in Channels : PeerOK(hp[n][c])
  BY <1>4, <1>5, <1>6, HandledFrame, Zenon
<1>8. /\ hp[n] \in [Channels -> PeerType] /\ hp[n + 1] \in [Channels -> PeerType]
      /\ hs[n] \in [Channels -> Seq(SentType)] /\ hs[n + 1] \in [Channels -> Seq(SentType)]
  BY <1>6 DEF PeerHistory, SentHistory
<1>9. /\ frames[n + 1].end_ok /\ OnFrame(InboundOf(frames[n + 1])) /\ InStep(hp[n], hs[n])
      /\ (n + 1 \in wrong) \in BOOLEAN /\ inbound = InboundOf(frames[n + 1])
  <2>1. Taken = n + 1
    BY <1>3, <1>5
  <2>2. frames[n + 1].end_ok /\ inbound = InboundOf(frames[n + 1]) /\ InStep(hp[n], hs[n])
    BY <1>3, <1>4, <1>5, <2>1
  <2>3. (n + 1 \in wrong) \in BOOLEAN
    OBVIOUS
  <2>4. OnFrame(InboundOf(frames[n + 1]))
    BY <1>1, <2>2
  <2> QED BY <2>2, <2>3, <2>4, Zenon
<1>10. /\ InStep(hp[n + 1], hs[n + 1])'
       /\ on_frame_raises(inbound) => n + 1 \in wrong
  BY <1>3, <1>7, <1>8, <1>9, OnFrameInStep, Zenon
<1>11. Handled' = n + 1 /\ Taken' = n + 1
  BY <1>1, <1>5, Counts DEF Handled, Taken, HasFrame
<1>12. n \in Nat /\ n + 1 \in 0 .. Len(frames)
  BY <1>3, <1>6
<1>13. Moves(hp, hs, n)
  BY <1>4, <1>7, <1>9, <1>10, <1>11, <1>12, Zenon DEF Moves
<1> QED BY <1>13

\* A step of on_frame keeps the history.
LEMMA OnFrameDelivers ==
  ASSUME TypeInv, StreamInv, DeliveryInv, OnFrameRaises \/ OnFrameFalse \/ OnFrameTrue
  PROVE  DeliveryInv'
<1>1. /\ HasFrame /\ UNCHANGED <<frames, peer, sent, wrong>>
  BY DEF OnFrameRaises, OnFrameFalse, OnFrameTrue, readerVars
<1>2. raised = "none" /\ (raised' = raised \/ (raised' = "UnexpectedFrame" /\ on_frame_raises(inbound)))
  BY <1>1 DEF OnFrameRaises, OnFrameFalse, OnFrameTrue, StreamInv, Control
<1>3. PICK hp \in PeerHistory, hs \in SentHistory, n \in Nat : Moves(hp, hs, n)
  BY OnFrameMoves
<1>4. /\ InStep(hp[n + 1], hs[n + 1])' /\ Handled' = n + 1 /\ Taken' = n + 1
      /\ on_frame_raises(inbound) => n + 1 \in wrong
  BY <1>3, Zenon DEF Moves
<1>5. History(hp, hs)'
  BY <1>1, <1>3, Zenon DEF History, Moves
<1>6. Delivers'
  BY <1>4, <1>5 DEF Delivers, InStep
<1>7. Blames'
  BY <1>1, <1>2, <1>4 DEF Blames
<1> QED BY <1>6, <1>7 DEF DeliveryInv

(* read_frame raises UnexpectedFrame: a wrong frame is refused.            *)
LEMMA RefusedDelivers ==
  ASSUME TypeInv, StreamInv, Delivers, Handled < Len(frames), ~frames[Handled + 1].end_ok,
         UNCHANGED <<frames, wrong, peer, sent, handlerVars>>, Handled' = Handled + 1
  PROVE  Delivers' /\ Handled' \in wrong
<1>1. PICK hp \in PeerHistory, hs \in SentHistory :
        History(hp, hs) /\ InStep(hp[Handled], hs[Handled])
  BY DEF Delivers
<1>2. PICK n \in Nat : n = Handled
  BY Counts DEF Handled
<1>3. FrameStep(frames[n + 1], n + 1 \in wrong, hp[n], hp[n + 1], hs[n], hs[n + 1])
  BY <1>1, <1>2, HandledFrame, Zenon
<1>4. ~frames[n + 1].end_ok
  BY <1>2
<1>5. n + 1 \in wrong /\ hp[n + 1] = hp[n] /\ hs[n + 1] = hs[n]
  BY <1>3, <1>4, Zenon DEF FrameStep, GoodFrame
<1>6. Handled' = n + 1
  BY <1>2
<1>7. History(hp, hs)'
  BY <1>1, Zenon DEF History
<1>8. InStep(hp[n], hs[n])
  BY <1>1, <1>2
<1>9. InStep(hp[n + 1], hs[n + 1])'
  BY <1>5, <1>8 DEF InStep, handlerVars
<1>10. InStep(hp[Handled], hs[Handled])'
  BY <1>6, <1>9 DEF InStep
<1> QED BY <1>5, <1>6, <1>7, <1>10 DEF Delivers

\* A step of read_frame keeps the history: it handles no frame but a refused one.
LEMMA ReadingStepDelivers ==
  ASSUME TypeInv, StreamInv, DeliveryInv, ReadingStep
  PROVE  DeliveryInv'
<1>1. /\ UNCHANGED <<handlerVars, peer, sent, wrong>>
      /\ refused' = refused + (IF raised' = "UnexpectedFrame" THEN 1 ELSE 0)
      /\ bytes_recv \in Nat /\ refused \in Nat
  BY Counts DEF ReadingStep
<1>2. UNCHANGED frames /\ reading # "no"
  BY DEF ReadingStep, ReadStep, ReadHeader, ReadPart1, ReadPayload, ReadFrameEnd, ReadTimesOut,
         ReadFails, ReadEnds, Raises, Short
<1>3. raised = "none" /\ ~HasFrame /\ Taken = Handled /\ Handled \in Nat
  BY <1>1, <1>2, WhileReading DEF Handled
<1>4. CASE raised' # "UnexpectedFrame"
  <2>1. refused' = refused
    BY <1>1, <1>4
  <2>2. Delivers'
    BY <1>1, <1>2, <2>1, QuietDelivers DEF DeliveryInv
  <2> QED BY <1>4, <2>2 DEF DeliveryInv, Blames
<1>5. CASE raised' = "UnexpectedFrame"
  <2>1. ReadFrameEnd
    BY <1>3, <1>5 DEF ReadingStep, ReadStep, ReadHeader, ReadPart1, ReadPayload, ReadTimesOut,
                      ReadFails, Raises
  <2>2. reading = "end" /\ Len(rbuf) >= Wanted
    BY <2>1 DEF ReadFrameEnd, ReadEnds
  <2>3. PICK p, q1, q2, q, q3, w \in Nat : ReadAt(p, q1, q2, q, q3, w)
    BY <2>2, ReadSplits
  <2>4. Taken + 1 \in DOMAIN frames /\ header = frames[Taken + 1] /\ Result = <<EndOf(header)>>
    BY <2>2, <2>3, FrameEndFacts
  <2>5. ~header.end_ok /\ UNCHANGED inbound
    BY <1>3, <1>5, <2>1, <2>4 DEF ReadFrameEnd
  <2>6. refused' = refused + 1
    BY <1>1, <1>5
  <2>7. Handled' = Handled + 1 /\ ~HasFrame' /\ Taken' = Handled'
    BY <1>1, <1>3, <2>5, <2>6 DEF Handled, HasFrame, Taken, handlerVars
  <2>8. Handled < Len(frames) /\ ~frames[Handled + 1].end_ok
    BY <1>3, <2>4, <2>5, Counts
  <2>9. Delivers' /\ Handled' \in wrong
    BY <1>1, <1>2, <2>7, <2>8, RefusedDelivers DEF DeliveryInv
  <2> QED BY <1>1, <2>7, <2>9 DEF DeliveryInv, Blames
<1> QED BY <1>4, <1>5

\* Every step keeps the history.
LEMMA DeliveryNext ==
  ASSUME TypeInv, TypeInv', StreamInv, DeliveryInv, [Next]_vars
  PROVE  DeliveryInv'
<1>1. CASE drain_events
  <2>1. UNCHANGED <<frames, wrong, peer, sent, handlerVars, refused>> /\ raised' = "none"
    BY <1>1 DEF drain_events, read_frame
  <2> QED BY <2>1, QuietDelivers DEF DeliveryInv, Blames
<1>2. CASE Receives \/ UNCHANGED vars
  <2>1. UNCHANGED <<frames, wrong, peer, sent, handlerVars, refused, inbound, raised>>
    BY <1>2 DEF Receives, recv, readerVars, vars, transportVars
  <2>2. Delivers' /\ Blames'
    BY <2>1, QuietDelivers DEF DeliveryInv, Blames, Taken, HasFrame, handlerVars
  <2> QED BY <2>2 DEF DeliveryInv
<1> QED BY <1>1, <1>2, PeerStepDelivers, ReadingStepDelivers, OnFrameDelivers
        DEF Next, LibraryStep

-----------------------------------------------------------------------------
ReaderInv == TypeInv /\ StreamInv /\ DeliveryInv

(* The invariant of the reader: types, bytes and methods together.         *)
THEOREM ReaderInvariant == Spec => []ReaderInv
<1>1. Init => ReaderInv
  BY TypeInvInit, StreamInvInit, DeliveryInit DEF ReaderInv
<1>2. ReaderInv /\ [Next]_vars => ReaderInv'
  <2> SUFFICES ASSUME ReaderInv, [Next]_vars PROVE ReaderInv'
    OBVIOUS
  <2>1. TypeInv' /\ StreamInv'
    BY TypeInvNext, StreamInvNext DEF ReaderInv
  <2> QED BY <2>1, DeliveryNext DEF ReaderInv
<1> QED BY <1>1, <1>2, PTL DEF Spec

\* The history gives HandlerInStep.
LEMMA InStepHolds ==
  ASSUME ReaderInv
  PROVE  HandlerInStep
<1>1. PICK hp \in PeerHistory, hs \in SentHistory :
        History(hp, hs) /\ InStep(hp[Handled], hs[Handled])
  BY DEF ReaderInv, DeliveryInv, Delivers
<1>2. Handled \in Nat /\ Len(frames) \in Nat /\ Handled <= Len(frames) /\ Handled <= Taken
  <2>1. /\ bytes_recv \in Nat /\ refused \in Nat /\ Len(frames) \in Nat /\ Taken <= Len(frames)
    BY Counts DEF ReaderInv, StreamInv, Control
  <2> QED BY <2>1 DEF Handled, Taken
<1>3. ASSUME NEW c \in Channels
      PROVE  (expected_types[c] = 1) <=> (partial_messages[c] = NoMessage)
  <2>1. PICK p \in PeerType : p = hp[Handled][c]
    BY <1>2 DEF PeerHistory
  <2>2. Handled \in 0 .. Len(frames)
    BY <1>2
  <2>3. PeerOK(p) /\ expected_types[c] = p.next /\ MessageIs(partial_messages[c], p)
    BY <1>1, <2>1, <2>2 DEF History, InStep
  <2>4. partial_messages[c] \in Message
    BY DEF ReaderInv, TypeInv, TypeOK, HandlerTypeOK
  <2>5. ASSUME p.next = 1 PROVE partial_messages[c] = NoMessage
    <3>1. p = Idle
      BY <2>3, <2>5 DEF PeerOK
    <3>2. /\ partial_messages[c].n = 0 /\ partial_messages[c].body = << >>
          /\ partial_messages[c].body_size = 0
      BY <2>3, <3>1, IdleFields DEF MessageIs
    <3> QED BY <2>4, <3>2 DEF Message, NoMessage
  <2>6. ASSUME p.next # 1 PROVE partial_messages[c] # NoMessage
    <3>1. partial_messages[c].n # 0
      BY <2>3, <2>6 DEF PeerOK, MessageIs
    <3>2. NoMessage.n = 0
      BY DEF NoMessage
    <3> QED BY <3>1, <3>2
  <2> QED BY <2>3, <2>5, <2>6
<1>4. ASSUME Taken = Len(frames), ~HasFrame, NEW c \in Channels
      PROVE  expected_types[c] = peer[c].next
  <2>1. Handled = Len(frames)
    BY <1>2, <1>4, Counts DEF Handled, Taken, ReaderInv
  <2>2. hp[Handled] = peer
    BY <1>1, <2>1 DEF History
  <2> QED BY <1>1, <2>2 DEF InStep
<1> QED BY <1>3, <1>4 DEF HandlerInStep, ReaderInv, DeliveryInv, Blames

(* The frame handler stays in step with the broker: it expects on every    *)
(* channel what the broker sends next, has a message in hand exactly when  *)
(* it expects content, and refuses no frame but the wrong ones             *)
(* (method_framing.py frame_handler).                                      *)
THEOREM HandlerAlwaysInStep == Spec => []HandlerInStep
<1>1. ReaderInv => HandlerInStep
  BY InStepHolds
<1> QED BY <1>1, ReaderInvariant, PTL

-----------------------------------------------------------------------------
(* The refinement.                                                         *)
LEMMA CompletesSends ==
  ASSUME TypeInv, NEW c \in Channels, NEW n \in Nat, NEW body \in Bytes, Completes(c, n, body),
         UNCHANGED handlerVars
  PROVE  Delivery!Next
<1> DEFINE m == [n |-> n, body |-> body]
<1>1. m \in [n : Nat, body : Bytes]
  OBVIOUS
<1>2. sent \in [Channels -> Seq([n : Nat, body : Bytes])]
  BY DEF TypeInv, TypeOK
<1> HIDE DEF m
<1>3. sent' = [sent EXCEPT ![c] = Append(@, m)] /\ sent'[c] = Append(sent[c], m)
  BY <1>2 DEF Completes, m
<1>4. Len(sent'[c]) = Len(sent[c]) + 1 /\ sent'[c][Len(sent[c]) + 1] = m
  <2>1. sent[c] \in Seq([n : Nat, body : Bytes])
    BY <1>2
  <2> QED BY <1>1, <1>3, <2>1, AppendProperties
<1>5. sent'[c][Len(sent'[c])] = m
  BY <1>4
<1>6. UNCHANGED delivered
  BY DEF handlerVars
<1>7. Delivery!Send(c)
  BY <1>1, <1>3, <1>4, <1>5, <1>6 DEF Delivery!Send
<1> QED BY <1>7 DEF Delivery!Next

\* A step of the broker is a Send of MethodDelivery or no step of it.
LEMMA PeerRefines ==
  ASSUME TypeInv, PeerStep
  PROVE  Delivery!Next \/ UNCHANGED <<sent, delivered>>
<1>0. ReaderTypeOK /\ Len(frames) + 1 \in Nat /\ << >> \in Bytes /\ total \in Nat
      /\ HeaderSize \in Nat
  BY TypeParts, Counts, NoArgType DEF TypeInv
<1>1. UNCHANGED handlerVars /\ UNCHANGED delivered
  BY DEF PeerStep, PeerMethod, PeerHeader, PeerBody, PeerHeartbeat, PeerErrs, PeerCloses, Sends,
         handlerVars
<1>2. ASSUME NEW c \in Channels, PeerMethod(c)
      PROVE  Delivery!Next \/ UNCHANGED <<sent, delivered>>
  <2>1. UNCHANGED sent \/ Completes(c, Len(frames) + 1, << >>)
    BY <1>2, Zenon DEF PeerMethod
  <2> QED BY <1>0, <1>1, <2>1, CompletesSends
<1>3. ASSUME NEW c \in Channels, PeerHeader(c)
      PROVE  Delivery!Next \/ UNCHANGED <<sent, delivered>>
  <2>1. UNCHANGED sent \/ Completes(c, peer[c].n, << >>)
    BY <1>3, Zenon DEF PeerHeader
  <2>2. peer[c].n \in Nat
    BY <1>0, PeerTypes
  <2> QED BY <1>0, <1>1, <2>1, <2>2, CompletesSends
<1>4. ASSUME NEW c \in Channels, PeerBody(c)
      PROVE  Delivery!Next \/ UNCHANGED <<sent, delivered>>
  <2>1. peer[c].n \in Nat /\ peer[c].body \in Seq(Nat) /\ peer[c].left \in Nat
    BY <1>0, PeerTypes DEF Bytes
  <2>2. CASE UNCHANGED sent
    BY <1>1, <2>2
  <2>3. ASSUME NEW k \in 1 .. peer[c].left,
               Completes(c, peer[c].n,
                         peer[c].body \o Run(total + HeaderSize, total + HeaderSize + k))
        PROVE  Delivery!Next
    <3>1. PICK a \in Nat, b \in Nat : a = total + HeaderSize /\ b = total + HeaderSize + k
      BY <1>0, <2>1
    <3>2. a <= b
      BY <1>0, <2>1, <3>1
    <3>3. Run(a, b) \in Seq(Nat)
      BY <3>2, RunProperties
    <3>4. peer[c].body \o Run(a, b) \in Bytes
      BY <2>1, <3>3, ConcatProperties, Zenon DEF Bytes
    <3>5. Completes(c, peer[c].n, peer[c].body \o Run(a, b))
      BY <2>3, <3>1
    <3> QED BY <1>1, <2>1, <3>4, <3>5, CompletesSends
  <2> QED BY <1>4, <2>2, <2>3, Zenon DEF PeerBody
<1>5. CASE PeerHeartbeat \/ PeerErrs \/ PeerCloses
  BY <1>1, <1>5 DEF PeerHeartbeat, PeerErrs, PeerCloses, readerVars
<1> QED BY <1>2, <1>3, <1>4, <1>5, Zenon DEF PeerStep

\* A step of on_frame is a Deliver of MethodDelivery or no step of it.
LEMMA OnFrameRefines ==
  ASSUME ReaderInv, OnFrameRaises \/ OnFrameFalse \/ OnFrameTrue
  PROVE  Delivery!Next \/ UNCHANGED <<sent, delivered>>
<1>1. UNCHANGED sent
  BY DEF OnFrameRaises, OnFrameFalse, OnFrameTrue, readerVars
<1>2. PICK hp \in PeerHistory, hs \in SentHistory, n \in Nat : Moves(hp, hs, n)
  BY OnFrameMoves DEF ReaderInv
<1>3. delivered = hs[n] /\ delivered' = hs[n + 1]
  BY <1>2 DEF Moves, InStep
<1>4. PICK s \in [Channels -> Seq(SentType)], t \in [Channels -> Seq(SentType)] :
        s = hs[n] /\ t = hs[n + 1]
  BY DEF SentHistory
<1>5. \A c \in Channels : Begins(t[c], sent[c])
  BY <1>2, <1>4, Zenon DEF Moves, History
<1>6. \/ t = s
      \/ GoodFrame(frames[n + 1], hp[n], hp[n + 1], s, t)
  BY <1>2, <1>4, Zenon DEF Moves, FrameStep
<1>7. CASE t = s
  BY <1>1, <1>3, <1>4, <1>7
<1>8. CASE GoodFrame(frames[n + 1], hp[n], hp[n + 1], s, t)
  <2>1. PICK c \in Channels : /\ \A d \in Channels \ {c} : t[d] = s[d]
                              /\ t[c] = s[c] \/ \E m : t[c] = Append(s[c], m)
    BY <1>8, Zenon DEF GoodFrame
  <2>2. CASE t[c] = s[c]
    <3>1. t = s
      BY <2>1, <2>2
    <3> QED BY <1>7, <3>1
  <2>3. ASSUME NEW m, t[c] = Append(s[c], m)
        PROVE  Delivery!Next \/ UNCHANGED <<sent, delivered>>
    <3>1. s[c] \in Seq(SentType) /\ t[c] \in Seq(SentType) /\ Len(s[c]) \in Nat
          /\ sent[c] \in Seq(SentType)
      <4>1. s[c] \in Seq(SentType) /\ t[c] \in Seq(SentType)
        OBVIOUS
      <4>2. sent[c] \in Seq(SentType)
        BY DEF ReaderInv, TypeInv, TypeOK, SentType
      <4> QED BY <4>1, <4>2
    <3>2. Len(t[c]) = Len(s[c]) + 1 /\ t[c][Len(s[c]) + 1] = m
      BY <2>3, <3>1
    <3>3. Len(s[c]) + 1 \in DOMAIN sent[c] /\ sent[c][Len(s[c]) + 1] = m
      BY <1>5, <3>1, <3>2 DEF Begins
    <3>4. t = [s EXCEPT ![c] = Append(@, m)]
      BY <2>1, <2>3
    <3>5. Delivery!Deliver(c)
      BY <1>1, <1>3, <1>4, <3>3, <3>4 DEF Delivery!Deliver
    <3> QED BY <3>5 DEF Delivery!Next
  <2> QED BY <2>1, <2>2, <2>3
<1> QED BY <1>6, <1>7, <1>8

(* The reader implements MethodDelivery: on every channel whole methods,   *)
(* each once and in the order in which the broker has sent them (read_frame*)
(* of transport.py with frame_handler of method_framing.py).               *)
THEOREM ReaderImplements == Spec => Implements
<1>1. Init => Delivery!Init
  BY DEF Init, HandlerInit, Delivery!Init
<1>2. ReaderInv /\ [Next]_vars => [Delivery!Next]_<<sent, delivered>>
  <2> SUFFICES ASSUME ReaderInv, [Next]_vars
               PROVE  Delivery!Next \/ UNCHANGED <<sent, delivered>>
    OBVIOUS
  <2>1. CASE drain_events \/ Receives \/ ReadingStep \/ UNCHANGED vars
    BY <2>1 DEF drain_events, Receives, ReadingStep, vars, handlerVars, readerVars
  <2> QED BY <2>1, PeerRefines, OnFrameRefines DEF ReaderInv, Next, LibraryStep
<1> QED BY <1>1, <1>2, ReaderInvariant, PTL DEF Spec, Implements, Delivery!Spec
=============================================================================
