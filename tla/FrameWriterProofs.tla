-------------------------- MODULE FrameWriterProofs --------------------------
(***************************************************************************)
(* The frame writer keeps to the sizes it has negotiated, for every        *)
(* frame_max, every overhead of at least 40 bytes and every call.          *)
(***************************************************************************)
EXTENDS FrameWriter, SequenceTheorems, TLAPS

(* What the sizes of a call are, the heartbeat's included.                 *)
IsCall(call) ==
  /\ Len(call.args) \in Nat
  /\ call.content.has \in BOOLEAN
  /\ call.content.props_len \in Nat
  /\ call.content.body \in Seq(Nat)
  /\ ~call.content.has => call.content.body = <<>>

\* The calls of Calls, and NoCall, have the fields write_frame uses.
LEMMA CallsAreCalls == \A call \in Calls \cup {NoCall} : IsCall(call)
<1>1. IsCall(NoCall)
  <2>1. /\ NoCall.args = << >> /\ ~NoCall.content.has
        /\ NoCall.content.props_len = 0 /\ NoCall.content.body = << >>
    BY DEF NoCall, NoContent
  <2>2. Len(<< >>) \in Nat /\ << >> \in Seq(Nat) /\ 0 \in Nat
    OBVIOUS
  <2>3. /\ Len(NoCall.args) \in Nat /\ NoCall.content.props_len \in Nat
        /\ NoCall.content.body \in Seq(Nat)
    BY <2>1, <2>2, Zenon
  <2>4. NoCall.content.has \in BOOLEAN
    BY DEF NoCall, NoContent
  <2> QED BY <2>1, <2>3, <2>4, Zenon DEF IsCall
<1> QED BY <1>1, CallsAssumption DEF IsCall

\* The length of a body is a number, and that of an empty one is zero.
LEMMA BodyLength ==
  ASSUME NEW call, IsCall(call)
  PROVE  /\ Len(call.content.body) \in Nat
         /\ call.content.body = <<>> => Len(call.content.body) = 0
BY DEF IsCall

\* What pack_into writes for the method frame: 12 bytes and its arguments.
LEMMA MethodSizeBound ==
  ASSUME NEW call, IsCall(call)
  PROVE  MethodSize(call) \in Nat /\ MethodSize(call) <= 12 + Len(call.args)
<1>1. Len(call.args) \in Nat
  BY DEF IsCall
<1>2. CASE call.type = 1
  <2>1. MethodSize(call) = 8 + (4 + Len(call.args))
    BY <1>2, Zenon DEF MethodSize
  <2> QED BY <2>1, <1>1
<1>3. CASE call.type # 1
  <2>1. MethodSize(call) = 8 + 0
    BY <1>3, Zenon DEF MethodSize
  <2> QED BY <2>1, <1>1
<1> QED BY <1>2, <1>3

(* FRAME_OVERHEAD is enough: all that is packed of a message is counted in *)
(* the length by which write_frame chooses its path.                       *)
LEMMA PackedInFramelen ==
  ASSUME NEW call, IsCall(call), call.content.has
  PROVE  Packed(call) \in Nat /\ Packed(call) <= Framelen(call) /\ Framelen(call) \in Nat
<1> DEFINE a == Len(call.args)
           p == call.content.props_len
           b == Len(call.content.body)
           m == MethodSize(call)
           o == IF call.content.body # << >> THEN 8 + b ELSE 0
<1>1. a \in Nat /\ p \in Nat /\ b \in Nat /\ m \in Nat /\ m <= 12 + a
  BY BodyLength, MethodSizeBound DEF IsCall
<1>2. o \in Nat /\ o <= 8 + b
  BY <1>1
<1>3. Packed(call) = m + (8 + 12 + p) + o
  BY Zenon DEF Packed, HeaderSizeOf
<1>4. Framelen(call) = a + p + b + FRAME_OVERHEAD
  BY DEF Framelen
<1> HIDE DEF a, p, b, m, o
<1> QED BY <1>1, <1>2, <1>3, <1>4, FrameWriterAssumption

\* Without content, pack_into writes the method frame only.
LEMMA PackedWithoutContent ==
  ASSUME NEW call, IsCall(call), ~call.content.has
  PROVE  Packed(call) = MethodSize(call) /\ MethodSize(call) \in Nat
<1>1. call.content.body = << >>
  BY DEF IsCall
<1>2. Packed(call) = MethodSize(call) + 0 + 0
  BY <1>1, Zenon DEF Packed
<1> QED BY <1>2, MethodSizeBound

(* The sizes the writer works with.                                        *)
SizesOK == frame_max \in FrameMaxes /\ buffer_len \in Nat

\* chunk_size is frame_max less the 8 bytes of a frame, and the buffer holds it.
LEMMA Sizes ==
  ASSUME SizesOK
  PROVE  /\ frame_max \in Nat /\ frame_max > 8
         /\ chunk_size \in Nat /\ chunk_size > 0 /\ frame_max = chunk_size + 8
         /\ Grown \in Nat /\ chunk_size <= Grown
BY FrameWriterAssumption DEF SizesOK, chunk_size, Grown

-----------------------------------------------------------------------------
(* A frame of a call carries no data, or a part of the body of at most     *)
(* chunk_size bytes.                                                       *)
CallFrames(call) ==
  {MethodFrame(call), HeaderFrame(call)}
  \cup {Frame(call, 3, 0, data) : data \in {d \in Seq(Nat) : Len(d) <= chunk_size}}

\* Every frame of CallFrames is within frame_max.
LEMMA CallFrameFits ==
  ASSUME NEW call, SizesOK, NEW f \in CallFrames(call)
  PROVE  8 + Len(f.data) <= frame_max
<1>1. \A g : g.data = <<>> => Len(g.data) = 0
  OBVIOUS
<1> QED BY <1>1, Sizes DEF CallFrames, MethodFrame, HeaderFrame, Frame

\* The slices of the body are frames within frame_max.
LEMMA BodyFramesFit ==
  ASSUME NEW call, IsCall(call), SizesOK
  PROVE  BodyFrames(call) \in Seq(CallFrames(call))
<1> DEFINE body == call.content.body
           c == chunk_size
           n == (Len(body) + c - 1) \div c
           End(i) == IF i * c < Len(body) THEN i * c ELSE Len(body)
           data(i) == SubSeq(body, (i - 1) * c + 1, End(i))
<1>1. body \in Seq(Nat) /\ Len(body) \in Nat
  BY BodyLength DEF IsCall
<1>2. c \in Nat /\ c > 0
  BY Sizes
<1>3. n \in Nat
  <2>1. \A a \in Nat, d \in Nat : d > 0 => a \div d \in Nat
    OBVIOUS
  <2>2. Len(body) + c - 1 \in Nat
    BY <1>1, <1>2
  <2> HIDE DEF body, c
  <2> QED BY <2>1, <2>2, <1>2
<1>4. ASSUME NEW i \in 1 .. n
      PROVE  data(i) \in Seq(Nat) /\ Len(data(i)) <= c
  <2>1. i * c \in Nat /\ (i - 1) * c \in Nat /\ i * c = (i - 1) * c + c
    <3>1. \A a, b \in Nat : a * b \in Nat
      OBVIOUS
    <3>2. i - 1 \in Nat /\ i \in Nat
      BY <1>3
    <3>3. (i - 1) * c = i * c - c
      BY <3>2, <1>2
    <3> QED BY <3>1, <3>2, <3>3, <1>2
  <2> HIDE DEF c
  <2> DEFINE m == (i - 1) * c + 1
  <2>2. m \in Nat /\ m >= 1 /\ End(i) \in Nat /\ End(i) <= Len(body) /\ End(i) <= m + c - 1
    BY <2>1, <1>1, <1>2
  <2> HIDE DEF m, End, n, body
  <2>3. \A x \in 1 .. Len(body) : body[x] \in Nat
    BY <1>1
  <2>4. CASE m <= End(i)
    <3>1. /\ SubSeq(body, m, End(i)) \in Seq(Nat)
          /\ Len(SubSeq(body, m, End(i))) = End(i) - m + 1
      BY <2>2, <2>4, <1>1, SubSeqProperties
    <3> QED BY <3>1, <2>2, <1>2 DEF m
  <2>5. CASE m > End(i)
    <3>1. SubSeq(body, m, End(i)) = << >>
      BY <2>2, <2>5, <1>1, SubSeqProperties
    <3>2. Len(<< >>) = 0 /\ << >> \in Seq(Nat)
      OBVIOUS
    <3>3. 0 <= c
      BY <1>2
    <3> QED BY <3>1, <3>2, <3>3, Zenon DEF m
  <2> QED BY <2>4, <2>5, <2>2
<1>5. \A i \in 1 .. n : Frame(call, 3, 0, data(i)) \in CallFrames(call)
  BY <1>4 DEF CallFrames
<1>6. BodyFrames(call) = [i \in 1 .. n |-> Frame(call, 3, 0, data(i))]
  BY DEF BodyFrames
<1> HIDE DEF n, data
<1> QED BY <1>3, <1>5, <1>6

\* The frames of the slow path, sent one by one, are within frame_max.
LEMMA SlowFramesFit ==
  ASSUME NEW call, IsCall(call), SizesOK
  PROVE  SlowFrames(call) \in Seq(CallFrames(call))
<1>1. <<MethodFrame(call)>> \in Seq(CallFrames(call)) /\ <<HeaderFrame(call)>> \in Seq(CallFrames(call))
  BY DEF CallFrames
<1>2. <<HeaderFrame(call)>> \o BodyFrames(call) \in Seq(CallFrames(call))
  BY <1>1, BodyFramesFit, ConcatProperties
<1>3. << >> \in Seq(CallFrames(call))
  OBVIOUS
<1> QED BY <1>1, <1>2, <1>3, ConcatProperties DEF SlowFrames

\* The frames of the fast path, packed into one buffer, are within frame_max.
LEMMA FastFramesFit ==
  ASSUME NEW call, IsCall(call), SizesOK, ~bigbody(call)
  PROVE  FastFrames(call) \in Seq(CallFrames(call))
<1>1. <<MethodFrame(call)>> \in Seq(CallFrames(call)) /\ <<HeaderFrame(call)>> \in Seq(CallFrames(call))
  BY DEF CallFrames
<1>2. ASSUME call.content.body # << >>
      PROVE  <<Frame(call, 3, 0, call.content.body)>> \in Seq(CallFrames(call))
  <2>1. call.content.has
    BY <1>2 DEF IsCall
  <2>2. Len(call.content.body) <= chunk_size
    <3>1. ~(Framelen(call) > chunk_size)
      BY <2>1 DEF bigbody
    <3> DEFINE a == Len(call.args)
               p == call.content.props_len
               b == Len(call.content.body)
    <3>2. a \in Nat /\ p \in Nat /\ b \in Nat
      BY BodyLength DEF IsCall
    <3>3. ~(a + p + b + FRAME_OVERHEAD > chunk_size)
      BY <3>1 DEF Framelen
    <3> HIDE DEF a, p, b
    <3>4. b <= chunk_size
      BY <3>2, <3>3, Sizes, FrameWriterAssumption
    <3> QED BY <3>4 DEF b
  <2> QED BY <2>2 DEF CallFrames, IsCall
<1>3. << >> \in Seq(CallFrames(call))
  OBVIOUS
<1> DEFINE a == <<MethodFrame(call)>>
           b == IF call.content.has THEN <<HeaderFrame(call)>> ELSE << >>
           d == IF call.content.body # << >>
                THEN <<Frame(call, 3, 0, call.content.body)>> ELSE << >>
<1>4. a \in Seq(CallFrames(call)) /\ b \in Seq(CallFrames(call)) /\ d \in Seq(CallFrames(call))
  BY <1>1, <1>2, <1>3
<1>5. FastFrames(call) = a \o b \o d
  BY DEF FastFrames
<1> HIDE DEF a, b, d
<1> QED BY <1>4, <1>5, ConcatProperties

(* Whatever part of the frames reaches the stream, its frames fit.         *)
Fit(frames) == \A i \in DOMAIN frames : 8 + Len(frames[i].data) <= frame_max

\* What an interrupted write leaves of frames that fit, fits.
LEMMA CutFits ==
  ASSUME NEW call, SizesOK, NEW frames \in Seq(CallFrames(call)),
         NEW k \in 0 .. Len(frames) - 1, NEW part \in BOOLEAN
  PROVE  Fit(Cut(frames, k, part))
<1>1. Len(frames) \in Nat
  OBVIOUS
<1> DEFINE cut == {[f EXCEPT !.whole = FALSE] : f \in CallFrames(call)}
           all == CallFrames(call) \cup cut
           a == SubSeq(frames, 1, k)
           b == IF part THEN <<[frames[k + 1] EXCEPT !.whole = FALSE]>> ELSE << >>
<1>2. \A f \in all : 8 + Len(f.data) <= frame_max
  <2>1. ASSUME NEW f \in CallFrames(call)
        PROVE  [f EXCEPT !.whole = FALSE].data = f.data
    BY DEF CallFrames, MethodFrame, HeaderFrame, Frame
  <2> QED BY <2>1, CallFrameFits
<1>3. frames[k + 1] \in CallFrames(call)
  BY <1>1
<1>4. b \in Seq(all)
  <2>1. [frames[k + 1] EXCEPT !.whole = FALSE] \in all
    BY <1>3
  <2> HIDE DEF all
  <2>2. << >> \in Seq(all) /\ \A f \in all : <<f>> \in Seq(all)
    OBVIOUS
  <2> QED BY <2>1, <2>2
<1>5. a \in Seq(all)
  <2>1. CASE k = 0
    BY <2>1, <1>1
  <2>2. CASE k > 0
    <3>1. \A i \in 1 .. k : frames[i] \in all
      BY <1>1
    <3> HIDE DEF all
    <3> QED BY <3>1, <2>2, <1>1, SubSeqProperties
  <2> QED BY <2>1, <2>2
<1> HIDE DEF all, a, b
<1>6. a \o b \in Seq(all)
  BY <1>4, <1>5, ConcatProperties
<1>7. Cut(frames, k, part) = a \o b
  BY DEF Cut, a, b
<1> QED BY <1>2, <1>6, <1>7 DEF Fit

\* A write of frames that fit, whole or interrupted, fits.
LEMMA WriteFits ==
  ASSUME NEW call, SizesOK, NEW frames \in Seq(CallFrames(call)), write(call, frames)
  PROVE  Fit(written')
<1>1. CASE written' = frames
  <2>1. \A i \in DOMAIN frames : frames[i] \in CallFrames(call)
    OBVIOUS
  <2> QED BY <1>1, <2>1, CallFrameFits DEF Fit
<1>2. CASE \E k \in 0 .. Len(frames) - 1, part \in BOOLEAN : written' = Cut(frames, k, part)
  <2>1. PICK k \in 0 .. Len(frames) - 1, part \in BOOLEAN : written' = Cut(frames, k, part)
    BY <1>2
  <2> QED BY <2>1, CutFits
<1> QED BY <1>1, <1>2 DEF write

-----------------------------------------------------------------------------
(* The inductive invariant: with the sizes, that the last call was one     *)
(* that can be made, how its result came about, and that every frame it    *)
(* has written fits.  Tune forgets the last call together with frame_max.  *)
WriterInv ==
  /\ SizesOK
  /\ last \in Calls \cup {NoCall}
  /\ Fit(written)
  /\ result \in {"ok", "struct.error", "timeout", "OSError"}
  /\ result = "struct.error" => ~bigbody(last) /\ Packed(last) > chunk_size

\* WriterInv holds at the start.
LEMMA WriterInvInit == WriterInit => WriterInv
<1> SUFFICES ASSUME WriterInit PROVE WriterInv
  OBVIOUS
<1>1. frame_max \in FrameMaxes /\ buffer_len \in Nat
  BY FrameWriterAssumption DEF WriterInit
<1>2. Fit(written)
  BY DEF WriterInit, Fit
<1> QED BY <1>1, <1>2 DEF WriterInit, WriterInv, SizesOK

\* _on_tune keeps WriterInv: it changes frame_max and leaves the buffer.
LEMMA WriterInvTune == WriterInv /\ Tune => WriterInv'
<1> SUFFICES ASSUME WriterInv, Tune PROVE WriterInv'
  OBVIOUS
<1>1. Fit(written)'
  BY DEF Tune, Fit
<1> QED BY <1>1 DEF Tune, WriterInv, SizesOK

\* write_frame keeps WriterInv, on both paths and when the write fails.
LEMMA WriterInvWrite ==
  ASSUME WriterInv, NEW call \in Calls \cup {NoCall}, write_frame(call)
  PROVE  WriterInv'
<1>0. IsCall(call) /\ SizesOK /\ UNCHANGED frame_max
  BY CallsAreCalls DEF WriterInv, write_frame, WriteSlow, WriteFast, WriteOverflows, write
<1>1. CASE WriteSlow(call)
  <2>1. Fit(written')
    BY <1>0, <1>1, SlowFramesFit, WriteFits DEF WriteSlow
  <2>2. Fit(written)'
    BY <2>1, <1>0 DEF Fit
  <2> QED BY <2>2, <1>0, <1>1 DEF WriterInv, WriteSlow, write, SizesOK
<1>2. CASE WriteFast(call)
  <2>1. Fit(written')
    BY <1>0, <1>2, FastFramesFit, WriteFits DEF WriteFast
  <2>2. Fit(written)'
    BY <2>1, <1>0 DEF Fit
  <2> QED BY <2>2, <1>0, <1>2, Sizes DEF WriterInv, WriteFast, write, SizesOK
<1>3. CASE WriteOverflows(call)
  <2>1. Fit(written)'
    BY <1>3 DEF WriteOverflows, Fit
  <2>2. SizesOK'
    BY <1>0, <1>3, Sizes DEF SizesOK, WriteOverflows
  <2>3. Packed(call) > chunk_size
    <3>1. Packed(call) \in Nat
      BY <1>0, PackedInFramelen, PackedWithoutContent DEF IsCall
    <3> QED BY <3>1, <1>0, <1>3, Sizes DEF WriteOverflows
  <2>4. (~bigbody(last) /\ Packed(last) > chunk_size)'
    BY <2>3, <1>0, <1>3
       DEF WriteOverflows, bigbody, Framelen, chunk_size, Packed, MethodSize, HeaderSizeOf
  <2> QED BY <2>1, <2>2, <2>4, <1>3 DEF WriterInv, WriteOverflows
<1> QED BY <1>1, <1>2, <1>3 DEF write_frame

(* The inductive invariant: the sizes that write_frame and _on_tune work   *)
(* with, the frames written last and why the last call ended as it did.    *)
THEOREM WriterInvariant == FrameWriterSpec => []WriterInv
<1>1. ASSUME WriterInv, UNCHANGED writerVars
      PROVE  WriterInv'
  BY <1>1 DEF writerVars, WriterInv, SizesOK, Fit, bigbody, Framelen, chunk_size, Packed,
              MethodSize, HeaderSizeOf
<1>2. WriterInv /\ [Tune \/ \E call \in Calls \cup {NoCall} : write_frame(call)]_writerVars
        => WriterInv'
  BY <1>1, WriterInvTune, WriterInvWrite
<1> QED BY <1>2, WriterInvInit, PTL DEF FrameWriterSpec

(* "If it does not [exceed the max frame size] the message will fit into   *)
(* the preallocated buffer": pack_into overflows for no message with       *)
(* content, whatever frame_max is and however _on_tune has changed it.     *)
THEOREM ContentAlwaysFits == FrameWriterSpec => []ContentFits
<1>1. WriterInv => ContentFits
  <2> SUFFICES ASSUME WriterInv, result = "struct.error"
               PROVE  ~last.content.has /\ MethodSize(last) > chunk_size
    BY DEF ContentFits
  <2>1. IsCall(last) /\ ~bigbody(last) /\ Packed(last) > chunk_size /\ SizesOK
    BY CallsAreCalls DEF WriterInv
  <2>2. ~last.content.has
    BY <2>1, PackedInFramelen, Sizes DEF bigbody
  <2> QED BY <2>1, <2>2, PackedWithoutContent
<1> QED BY <1>1, WriterInvariant, PTL

(* No body frame is longer than frame_max, nor any message written at once *)
(* (write_frame, transport.write), for every size the broker may name.     *)
THEOREM FramesAlwaysFit == FrameWriterSpec => []FramesFit
<1>1. WriterInv => FramesFit
  <2> SUFFICES ASSUME WriterInv, last.content.has
               PROVE  /\ \A i \in DOMAIN written :
                           written[i].type = 3 => 8 + Len(written[i].data) <= frame_max
                      /\ ~bigbody(last) => Packed(last) <= frame_max
    BY DEF FramesFit
  <2>1. ~bigbody(last) => Packed(last) <= frame_max
    BY CallsAreCalls, PackedInFramelen, Sizes DEF WriterInv, bigbody
  <2> QED BY <2>1 DEF WriterInv, Fit
<1> QED BY <1>1, WriterInvariant, PTL
=============================================================================
