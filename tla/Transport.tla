------------------------------ MODULE Transport ------------------------------
(***************************************************************************)
(* The reading side of amqp/transport.py: read_frame and the _read of TCP  *)
(* and SSL sockets, which differ only in which errors mean "try again".    *)
(*                                                                         *)
(* A byte of the inbound stream is its position in the stream, so that a   *)
(* byte that is lost, repeated or moved is seen.  What the bytes mean is   *)
(* kept beside the stream, in frames: where each frame begins and what it  *)
(* holds.  Unpacking seven bytes that are not exactly the header of a      *)
(* frame gives garbage.                                                    *)
(***************************************************************************)
EXTENDS Integers, Sequences

CONSTANTS
  HeaderSize,           \* bytes before the payload, 7 in the code
  SIGNED_INT_MAX,       \* the most that one recv can be asked for
  RaiseOnInitialEintr   \* raise_on_initial_eintr

ASSUME TransportAssumption ==
  /\ HeaderSize \in Nat \ {0}
  /\ SIGNED_INT_MAX \in Nat \ {0}
  /\ RaiseOnInitialEintr \in BOOLEAN

VARIABLES
  frames,             \* the frames the broker has put on the stream
  total,              \* length of the stream so far
  wire,               \* bytes sent and not yet received
  closed,             \* has the peer closed, or the network cut, the stream?
  connected,          \* connected
  read_buffer,        \* _read_buffer
  reading,            \* what read_frame is reading, "no" when not running
  mode,               \* how a recv without data ends, see Modes; "none"
                      \* when no drain_events is running
  rbuf,               \* local rbuf of _read
  read_frame_buffer,  \* locals of read_frame: read_frame_buffer,
  part1,              \* part1
  header,             \* and the unpacked header
  inbound,            \* the frame read_frame has returned, to be handled
  raised              \* what the last drain_events has raised

transportVars == <<frames, total, wire, closed, connected, read_buffer, reading,
                   mode, rbuf, read_frame_buffer, part1, header, inbound, raised>>

(* "block": the socket waits; "timed": having_timeout(t), recv raises      *)
(* socket.timeout; "eagain": having_timeout(0) or SO_RCVTIMEO              *)
(* (read_timeout), recv fails with EAGAIN.                                 *)
Modes  == {"block", "timed", "eagain"}
Stages == {"no", "header", "part1", "part2", "payload", "end"}

(* The bytes from position a (exclusive) to b (inclusive). *)
Run(a, b) == [k \in 1 .. b - a |-> a + k]

Bytes == Seq(Nat)
Arg   == [n : Nat, content : BOOLEAN, body_size : Nat]
NoArg == [n |-> 0, content |-> FALSE, body_size |-> 0]
Frame == [start : Nat, size : Nat, type : 0 .. 8, channel : Nat,
          arg : Arg, end_ok : BOOLEAN]

Garbage == [start |-> 0, size |-> 0, type |-> 0, channel |-> 0, arg |-> NoArg,
            end_ok |-> FALSE]
NoFrame == [type |-> 0, channel |-> 0, arg |-> NoArg, buf |-> <<>>]

TransportTypeOK ==
  /\ frames \in Seq(Frame)
  /\ total \in Nat
  /\ wire \in Bytes
  /\ closed \in BOOLEAN
  /\ connected \in BOOLEAN
  /\ read_buffer \in Bytes
  /\ reading \in Stages
  /\ mode \in Modes \cup {"none"}
  /\ rbuf \in Bytes
  /\ read_frame_buffer \in Bytes
  /\ part1 \in Bytes
  /\ header \in Frame
  /\ inbound \in [type : 0 .. 8, channel : Nat, arg : Arg, buf : Bytes]
  /\ raised \in {"none", "timeout", "OSError", "UnexpectedFrame"}

TransportInit ==
  /\ frames = <<>> /\ total = 0 /\ wire = <<>> /\ closed = FALSE
  /\ connected = TRUE
  /\ read_buffer = <<>> /\ reading = "no" /\ mode = "none"
  /\ rbuf = <<>> /\ read_frame_buffer = <<>> /\ part1 = <<>>
  /\ header = Garbage /\ inbound = NoFrame /\ raised = "none"

localVars == <<mode, rbuf, read_frame_buffer, part1, header>>
clientVars == <<connected, read_buffer, reading, localVars, inbound, raised>>

-----------------------------------------------------------------------------
(* The other end: a frame is put on the stream; the stream is cut.         *)
PutFrame(type, channel, size, arg, end_ok) ==
  LET end == total + HeaderSize + size + 1 IN
  /\ ~closed
  /\ frames' = Append(frames,
       [start |-> total, size |-> size, type |-> type, channel |-> channel,
        arg |-> arg, end_ok |-> end_ok])
  /\ wire' = wire \o Run(total, end)
  /\ total' = end
  /\ UNCHANGED <<closed, clientVars>>

StreamEnds ==
  /\ ~closed
  /\ closed' = TRUE
  /\ \E k \in 0 .. Len(wire) : wire' = SubSeq(wire, 1, k)
  /\ UNCHANGED <<frames, total, clientVars>>

(* Unpacking: the frame whose header these bytes are; its payload; its     *)
(* frame-end octet.                                                        *)
HeaderOf(f)  == Run(f.start, f.start + HeaderSize)
PayloadOf(f) == Run(f.start + HeaderSize, f.start + HeaderSize + f.size)
EndOf(f)     == f.start + HeaderSize + f.size + 1

unpack(bytes) ==
  LET S == {i \in DOMAIN frames : HeaderOf(frames[i]) = bytes} IN
  IF S = {} THEN Garbage ELSE frames[CHOOSE i \in S : TRUE]

-----------------------------------------------------------------------------
(* _read(n): the n bytes of the read that is under way. *)
Wanted ==
  CASE reading = "header"  -> HeaderSize
    [] reading = "part1"   -> SIGNED_INT_MAX
    [] reading = "part2"   -> header.size - SIGNED_INT_MAX
    [] reading = "payload" -> header.size
    [] OTHER               -> 1

Short == reading # "no" /\ Len(rbuf) < Wanted

(* read_frame is called by blocking_read under having_timeout. *)
read_frame(m) ==
  /\ reading = "no"
  /\ reading' = "header"
  /\ mode' = m
  /\ rbuf' = read_buffer
  /\ read_frame_buffer' = <<>> /\ part1' = <<>> /\ header' = Garbage
  /\ UNCHANGED <<frames, total, wire, closed, connected, read_buffer, inbound>>

(* recv(n - len(rbuf)) returns some bytes. *)
recv ==
  /\ Short
  /\ \E k \in 1 .. Len(wire) :
       /\ k <= Wanted - Len(rbuf)
       /\ rbuf' = rbuf \o SubSeq(wire, 1, k)
       /\ wire' = SubSeq(wire, k + 1, Len(wire))
  /\ UNCHANGED <<frames, total, closed, connected, read_buffer, reading, mode,
                 read_frame_buffer, part1, header, inbound, raised>>

(* Mutant: a timeout forgets the first part of a large payload.            *)
PutBackNoPart1 == read_frame_buffer \o rbuf

(* What a timeout leaves in _read_buffer: the bytes of the frame so far,   *)
(* with the first part of a large payload, and those _read has saved.      *)
PutBack == read_frame_buffer \o part1 \o rbuf

Raises(e) == /\ reading' = "no"
             /\ raised' = e
             /\ mode' = "none"
             /\ rbuf' = <<>> /\ read_frame_buffer' = <<>> /\ part1' = <<>>
             /\ header' = Garbage
             /\ UNCHANGED <<frames, total, wire, closed, inbound>>

(* Mutants: a timeout inside a frame is retried; EAGAIN always is.         *)
ReadTimesOutAtStart ==
  /\ Short /\ reading = "header"
  /\ mode = "timed" \/ (mode = "eagain" /\ RaiseOnInitialEintr)
  /\ read_buffer' = PutBack
  /\ UNCHANGED connected
  /\ Raises("timeout")

ReadTimesOutTimed ==
  /\ Short /\ mode = "timed"
  /\ read_buffer' = PutBack
  /\ UNCHANGED connected
  /\ Raises("timeout")

(* recv raises socket.timeout (or SSLError "timed out"), or fails with     *)
(* EAGAIN in the first read of a frame.  EAGAIN in a later read only makes *)
(* the loop of _read go round: no step of the model.                       *)
ReadTimesOut ==
  /\ Short
  /\ mode = "timed" \/ (mode = "eagain" /\ reading = "header" /\ RaiseOnInitialEintr)
  /\ read_buffer' = PutBack
  /\ UNCHANGED connected
  /\ Raises("timeout")

(* recv returns no bytes: "Server unexpectedly closed connection".         *)
ReadFails ==
  /\ Short /\ closed /\ wire = <<>>
  /\ read_buffer' = rbuf
  /\ connected' = FALSE
  /\ Raises("OSError")

(* _read has its bytes: result, and what it leaves in _read_buffer.        *)
Result == SubSeq(rbuf, 1, Wanted)
Rest   == SubSeq(rbuf, Wanted + 1, Len(rbuf))

ReadEnds(stage) ==
  /\ reading = stage /\ Len(rbuf) >= Wanted
  /\ read_buffer' = Rest
  /\ UNCHANGED <<frames, total, wire, closed, connected>>

ReadHeader ==
  /\ ReadEnds("header")
  /\ header' = unpack(Result)
  /\ read_frame_buffer' = Result
  /\ reading' = IF header'.size > SIGNED_INT_MAX THEN "part1" ELSE "payload"
  /\ rbuf' = Rest
  /\ UNCHANGED <<mode, part1, inbound, raised>>

ReadPart1 ==
  /\ ReadEnds("part1")
  /\ part1' = Result
  /\ reading' = "part2"
  /\ rbuf' = Rest
  /\ UNCHANGED <<mode, read_frame_buffer, header, inbound, raised>>

(* payload = part1 + part2, or the payload in one read (part1 is empty).   *)
ReadPayload ==
  /\ ReadEnds("part2") \/ ReadEnds("payload")
  /\ read_frame_buffer' = read_frame_buffer \o part1 \o Result
  /\ part1' = <<>>
  /\ reading' = "end"
  /\ rbuf' = Rest
  /\ UNCHANGED <<mode, header, inbound, raised>>

(* The frame-end octet: return the frame, or raise UnexpectedFrame.        *)
Payload == SubSeq(read_frame_buffer, HeaderSize + 1, Len(read_frame_buffer))

ReadFrameEnd ==
  /\ ReadEnds("end")
  /\ reading' = "no"
  /\ IF header.end_ok /\ Result = <<EndOf(header)>>
     THEN /\ inbound' =
               [type |-> header.type, channel |-> header.channel,
                arg |-> IF Payload = PayloadOf(header) THEN header.arg ELSE NoArg,
                buf |-> Payload]
          /\ UNCHANGED <<mode, raised>>
     ELSE /\ raised' = "UnexpectedFrame" /\ mode' = "none"
          /\ UNCHANGED inbound
  /\ rbuf' = <<>> /\ read_frame_buffer' = <<>> /\ part1' = <<>> /\ header' = Garbage

(* The steps read_frame takes by itself: all but recv, which needs bytes   *)
(* from the network.                                                       *)
ReadStep ==
  \/ ReadHeader \/ ReadPart1 \/ ReadPayload \/ ReadFrameEnd
  \/ ReadTimesOut \/ ReadFails
=============================================================================
