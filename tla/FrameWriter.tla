----------------------------- MODULE FrameWriter -----------------------------
(***************************************************************************)
(* frame_writer of amqp/method_framing.py and the transport's write: one   *)
(* method, with its content, is turned into frames that are written one by *)
(* one (a body that is too big) or all at once through a buffer that is    *)
(* kept between calls and grows when the frame size does.                  *)
(*                                                                         *)
(* Sizes are those of the protocol: 8 bytes around a payload, 4 for the    *)
(* method's signature, 12 before the properties of a content header.       *)
(***************************************************************************)
EXTENDS Integers, Sequences

CONSTANTS
  FRAME_OVERHEAD,  \* 40 in the code
  FrameMaxes,      \* the values frame_max may have
  Calls            \* the calls of write_frame

ASSUME FrameWriterAssumption ==
  /\ FRAME_OVERHEAD \in Nat /\ FRAME_OVERHEAD >= 40
  /\ FrameMaxes \subseteq {n \in Nat : n > 8}

(* Arguments are encoded, a body is a sequence of bytes, which are numbers *)
(* here, and a call without content has no body.                           *)
ASSUME CallsAssumption ==
  \A call \in Calls :
    /\ Len(call.args) \in Nat
    /\ call.content.has \in BOOLEAN
    /\ call.content.props_len \in Nat
    /\ call.content.body \in Seq(Nat)
    /\ ~call.content.has => call.content.body = <<>>

VARIABLES
  frame_max,   \* connection.frame_max
  tuned,       \* has _on_tune been run?
  buffer_len,  \* len(buffer_store.buf)
  connected,   \* transport.connected
  bytes_sent,  \* connection.bytes_sent, which counts writes
  wire,        \* the frames that were put on the stream
  last,        \* the last call of write_frame since frame_max was set
  written,     \* the frames it has written
  result       \* how it has ended

writerVars == <<frame_max, tuned, buffer_len, connected, bytes_sent, wire, last,
                written, result>>

(* A call: content is a record with the properties, the length of their    *)
(* encoding and the body, and has is FALSE when there is none.             *)
NoProps   == [flags |-> {}, bytes |-> <<>>]
NoContent == [has |-> FALSE, props |-> NoProps, props_len |-> 0, body |-> <<>>]
NoCall    == [type |-> 8, channel |-> 0, sig |-> "", args |-> <<>>, content |-> NoContent]

WriterTypeOK ==
  /\ frame_max \in FrameMaxes
  /\ tuned \in BOOLEAN
  /\ buffer_len \in Nat
  /\ connected \in BOOLEAN
  /\ bytes_sent \in Nat
  /\ last \in Calls \cup {NoCall}
  /\ result \in {"ok", "struct.error", "timeout", "OSError"}

WriterInit ==
  /\ frame_max \in FrameMaxes
  /\ tuned = FALSE
  /\ buffer_len = frame_max - 8
  /\ connected = TRUE /\ bytes_sent = 0 /\ wire = <<>>
  /\ last = NoCall /\ written = <<>> /\ result = "ok"

(* Mutant: a frame size of zero, which means no limit, is taken as it is.  *)
TuneZero ==
  /\ ~tuned
  /\ tuned' = TRUE
  /\ frame_max' \in FrameMaxes \cup {0}
  /\ last' = NoCall /\ written' = <<>> /\ result' = "ok"
  /\ UNCHANGED <<buffer_len, connected, bytes_sent, wire>>

(* _on_tune: the broker names a frame size; the buffer stays as it is.     *)
Tune ==
  /\ ~tuned
  /\ tuned' = TRUE
  /\ frame_max' \in FrameMaxes
  /\ last' = NoCall /\ written' = <<>> /\ result' = "ok"
  /\ UNCHANGED <<buffer_len, connected, bytes_sent, wire>>

-----------------------------------------------------------------------------
(* Mutant: the chunks are as large as a whole frame.                       *)
ChunkSizeWhole == frame_max

chunk_size == frame_max - 8

Framelen(call) == Len(call.args) + call.content.props_len + Len(call.content.body)
                  + FRAME_OVERHEAD

bigbody(call) == call.content.has /\ Framelen(call) > chunk_size

(* The frames: a record with every field a payload may have.               *)
Frame(call, type, size, data) ==
  [type |-> type, channel |-> call.channel, sig |-> call.sig,
   args |-> IF type = 1 THEN call.args ELSE <<>>,
   props |-> IF type = 2 THEN call.content.props ELSE NoProps,
   size |-> size, data |-> data, whole |-> TRUE]

MethodFrame(call) == Frame(call, call.type, 0, <<>>)
HeaderFrame(call) == Frame(call, 2, Len(call.content.body), <<>>)

(* Mutant: the last chunk is forgotten when it is not full.                *)
BodyFramesFull(call) ==
  LET body == call.content.body IN
  [i \in 1 .. (Len(body) \div chunk_size) |->
     Frame(call, 3, 0, SubSeq(body, (i - 1) * chunk_size + 1, i * chunk_size))]

(* for i in range(0, bodylen, chunk_size) *)
BodyFrames(call) ==
  LET body == call.content.body
      n    == (Len(body) + chunk_size - 1) \div chunk_size
      End(i) == IF i * chunk_size < Len(body) THEN i * chunk_size ELSE Len(body)
  IN  [i \in 1 .. n |->
         Frame(call, 3, 0, SubSeq(body, (i - 1) * chunk_size + 1, End(i)))]

(* Frame by frame: "if body" writes no header for an empty body.           *)
SlowFrames(call) ==
  <<MethodFrame(call)>> \o
  IF call.content.body # <<>> THEN <<HeaderFrame(call)>> \o BodyFrames(call) ELSE <<>>

(* Through the buffer: "if body is not None" writes one.                   *)
FastFrames(call) ==
  <<MethodFrame(call)>> \o
  (IF call.content.has THEN <<HeaderFrame(call)>> ELSE <<>>) \o
  (IF call.content.body # <<>> THEN <<Frame(call, 3, 0, call.content.body)>> ELSE <<>>)

(* What pack_into needs: 8 and the payload, for every frame.               *)
MethodSize(call) == 8 + (IF call.type = 1 THEN 4 + Len(call.args) ELSE 0)
HeaderSizeOf(call) == 8 + 12 + call.content.props_len
Packed(call) ==
  MethodSize(call)
  + (IF call.content.has THEN HeaderSizeOf(call) ELSE 0)
  + (IF call.content.body # <<>> THEN 8 + Len(call.content.body) ELSE 0)

(* Mutant: the buffer keeps the size it had at first.                      *)
GrownNever == buffer_len

Grown == IF chunk_size > buffer_len THEN chunk_size ELSE buffer_len

-----------------------------------------------------------------------------
(* transport.write, for each frame or for all of them: everything is       *)
(* written, or the socket's time is up, or it fails, after some frames and *)
(* perhaps a part of the next.  Only a failure clears connected, and a     *)
(* socket that has failed takes nothing more.                              *)
Cut(frames, k, part) ==
  SubSeq(frames, 1, k) \o
  (IF part THEN <<[frames[k + 1] EXCEPT !.whole = FALSE]>> ELSE <<>>)

write(call, frames) ==
  /\ last' = call
  /\ \/ /\ connected
        /\ written' = frames
        /\ result' = "ok"
        /\ bytes_sent' = bytes_sent + 1
        /\ UNCHANGED connected
     \/ /\ \E k \in 0 .. Len(frames) - 1, part \in BOOLEAN :
             /\ connected \/ (k = 0 /\ ~part)
             /\ written' = Cut(frames, k, part)
        /\ \/ connected /\ result' = "timeout" /\ UNCHANGED connected
           \/ result' = "OSError" /\ connected' = FALSE
        /\ UNCHANGED bytes_sent
  /\ wire' = wire \o written'
  /\ UNCHANGED <<frame_max, tuned>>

(* write_frame: the slow path, *)
WriteSlow(call) ==
  /\ bigbody(call)
  /\ write(call, SlowFrames(call))
  /\ UNCHANGED buffer_len

(* the fast path, *)
WriteFast(call) ==
  /\ ~bigbody(call)
  /\ buffer_len' = Grown
  /\ Packed(call) <= Grown
  /\ write(call, FastFrames(call))

(* and pack_into past the end of the buffer: nothing is written.           *)
WriteOverflows(call) ==
  /\ ~bigbody(call)
  /\ buffer_len' = Grown
  /\ Packed(call) > Grown
  /\ last' = call /\ written' = <<>> /\ result' = "struct.error"
  /\ UNCHANGED <<frame_max, tuned, connected, bytes_sent, wire>>

write_frame(call) == WriteSlow(call) \/ WriteFast(call) \/ WriteOverflows(call)

FrameWriterSpec ==
  /\ WriterInit
  /\ [][Tune \/ \E call \in Calls \cup {NoCall} : write_frame(call)]_writerVars
-----------------------------------------------------------------------------
(* "if it does not [exceed the max frame size] the message will fit into   *)
(* the preallocated buffer" (method_framing.py, FRAME_OVERHEAD): pack_into *)
(* overflows only for a method without content, and only when its frame is *)
(* longer than frame_max - 8.                                              *)
ContentFits ==
  result = "struct.error" => ~last.content.has /\ MethodSize(last) > chunk_size

(* No body frame, and no frame of a message that is written at once, is    *)
(* longer than frame_max, also after _on_tune has made frames smaller and  *)
(* left the buffer as it was.                                              *)
FramesFit ==
  last.content.has =>
    /\ \A i \in DOMAIN written : written[i].type = 3 => 8 + Len(written[i].data) <= frame_max
    /\ ~bigbody(last) => Packed(last) <= frame_max
=============================================================================
