------------------------------- MODULE Reader -------------------------------
(***************************************************************************)
(* The inbound side of a connection: drain_events and blocking_read of     *)
(* amqp/connection.py, which call the transport (module Transport) and     *)
(* give each frame to the frame handler (module FrameHandler), and a       *)
(* broker that sends methods with and without content on several channels, *)
(* heartbeats in between, and now and then a frame that it should not      *)
(* send.  Shown to implement MethodDelivery.                               *)
(***************************************************************************)
EXTENDS Transport, FrameHandler, FiniteSets

CONSTANTS
  BodySizes,   \* sizes of the bodies the broker sends
  MaxMethods,  \* bound on the methods the broker sends
  MaxExtras,   \* bound on its heartbeats and wrong frames, and on
               \* these and the end of the stream together
  MaxInFlight  \* bound on the bytes on the wire when the broker sends

ASSUME ReaderAssumption ==
  /\ BodySizes \subseteq Nat
  /\ MaxMethods \in Nat /\ MaxExtras \in Nat /\ MaxInFlight \in Nat

VARIABLES
  peer,      \* per channel, the message the broker is sending
  sent,      \* per channel, the methods it has sent to the end
  wrong,     \* the frames on the stream that break the protocol
  refused    \* how many frames had no frame-end octet

readerVars == <<peer, sent, wrong, refused>>
vars == <<transportVars, handlerVars, readerVars>>

Idle == [next |-> 1, n |-> 0, left |-> 0, body |-> <<>>]

TypeOK ==
  /\ TransportTypeOK
  /\ HandlerTypeOK
  /\ peer \in [Channels -> [next : 1 .. 3, n : Nat, left : Nat, body : Bytes]]
  /\ sent \in [Channels -> Seq([n : Nat, body : Bytes])]
  /\ wrong \subseteq DOMAIN frames
  /\ refused \in Nat

Init ==
  /\ TransportInit
  /\ HandlerInit
  /\ peer = [c \in Channels |-> Idle]
  /\ sent = [c \in Channels |-> <<>>]
  /\ wrong = {} /\ refused = 0

-----------------------------------------------------------------------------
(* The broker. *)
MethodFrames == {i \in DOMAIN frames : frames[i].type = 1 /\ i \notin wrong}
Extras == {i \in DOMAIN frames : frames[i].type = 8 \/ i \in wrong}

Sends(type, c, size, arg) ==
  /\ Len(wire) <= MaxInFlight
  /\ PutFrame(type, c, size, arg, TRUE)
  /\ UNCHANGED <<handlerVars, wrong, refused>>

Completes(c, n, body) ==
  /\ sent' = [sent EXCEPT ![c] = Append(@, [n |-> n, body |-> body])]
  /\ peer' = [peer EXCEPT ![c] = Idle]

(* The channels are alike: the first method is sent on channel 0.          *)
PeerMethod(c) ==
  LET n == Len(frames) + 1 IN
  /\ peer[c].next = 1 /\ Cardinality(MethodFrames) < MaxMethods
  /\ MethodFrames = {} => c = 0
  /\ \/ /\ Sends(1, c, 1, [NoArg EXCEPT !.n = n])
        /\ Completes(c, n, <<>>)
     \/ /\ Sends(1, c, SIGNED_INT_MAX + 1, [NoArg EXCEPT !.n = n, !.content = TRUE])
        /\ peer' = [peer EXCEPT ![c] = [Idle EXCEPT !.next = 2, !.n = n]]
        /\ UNCHANGED sent

PeerHeader(c) ==
  /\ peer[c].next = 2
  /\ \E size \in BodySizes :
       /\ Sends(2, c, 0, [NoArg EXCEPT !.body_size = size])
       /\ \/ size = 0 /\ Completes(c, peer[c].n, <<>>)
          \/ /\ size > 0
             /\ peer' = [peer EXCEPT ![c].next = 3, ![c].left = size]
             /\ UNCHANGED sent

PeerBody(c) ==
  /\ peer[c].next = 3
  /\ \E k \in 1 .. peer[c].left :
       LET body == peer[c].body \o Run(total + HeaderSize, total + HeaderSize + k) IN
       /\ Sends(3, c, k, NoArg)
       /\ \/ k = peer[c].left /\ Completes(c, peer[c].n, body)
          \/ /\ k < peer[c].left
             /\ peer' = [peer EXCEPT ![c].left = @ - k, ![c].body = body]
             /\ UNCHANGED sent

PeerHeartbeat ==
  /\ Cardinality(Extras) < MaxExtras
  /\ Sends(8, 0, 0, NoArg)
  /\ UNCHANGED <<peer, sent>>

(* A frame of a type that is not the next of its channel (one that comes   *)
(* too soon or too late), or a heartbeat without the frame-end octet.      *)
PeerErrs ==
  /\ Cardinality(Extras) < MaxExtras
  /\ Len(wire) <= MaxInFlight
  /\ \/ \E c \in Channels : PutFrame((peer[c].next % 3) + 1, c, 0, NoArg, TRUE)
     \/ PutFrame(8, 0, 0, NoArg, FALSE)
  /\ wrong' = wrong \cup {Len(frames) + 1}
  /\ UNCHANGED <<handlerVars, peer, sent, refused>>

PeerCloses ==
  /\ Cardinality(Extras) < MaxExtras
  /\ StreamEnds
  /\ UNCHANGED <<handlerVars, readerVars>>

PeerStep ==
  \/ \E c \in Channels : PeerMethod(c) \/ PeerHeader(c) \/ PeerBody(c)
  \/ PeerHeartbeat \/ PeerErrs \/ PeerCloses

-----------------------------------------------------------------------------
(* drain_events(timeout): blocking_read until a method is complete.  An    *)
(* exception of read_frame or of on_frame ends it.                         *)
drain_events ==
  /\ mode = "none" /\ connected
  /\ raised' = "none"
  /\ \E m \in Modes : read_frame(m)
  /\ UNCHANGED <<handlerVars, peer, sent, wrong, refused>>

Receives == recv /\ UNCHANGED <<handlerVars, readerVars>>

ReadingStep ==
  /\ ReadStep
  /\ refused' = refused + (IF raised' = "UnexpectedFrame" THEN 1 ELSE 0)
  /\ UNCHANGED <<handlerVars, peer, sent, wrong>>

HasFrame == inbound # NoFrame

OnFrameRaises ==
  /\ HasFrame /\ on_frame_raises(inbound)
  /\ inbound' = NoFrame
  /\ raised' = "UnexpectedFrame"
  /\ mode' = "none"
  /\ UNCHANGED <<frames, total, wire, closed, connected, read_buffer, reading,
                 rbuf, read_frame_buffer, part1, header, peer, sent, wrong, refused>>

(* return False: blocking_read again, under the same timeout.              *)
OnFrameFalse ==
  /\ HasFrame /\ on_frame_false(inbound)
  /\ inbound' = NoFrame
  /\ reading' = "header" /\ rbuf' = read_buffer
  /\ UNCHANGED <<frames, total, wire, closed, connected, read_buffer, mode,
                 read_frame_buffer, part1, header, raised, readerVars>>

OnFrameTrue ==
  /\ HasFrame /\ on_frame_true(inbound)
  /\ inbound' = NoFrame
  /\ mode' = "none"
  /\ UNCHANGED <<frames, total, wire, closed, connected, read_buffer, reading,
                 rbuf, read_frame_buffer, part1, header, raised, peer, sent, wrong, refused>>

LibraryStep == ReadingStep \/ OnFrameRaises \/ OnFrameFalse \/ OnFrameTrue

Next == PeerStep \/ drain_events \/ Receives \/ LibraryStep

(* A thread that is inside the library goes on: under a timeout a recv     *)
(* that gets nothing raises.  Nothing is assumed of the broker, of the     *)
(* network (bytes may stay on the wire for ever, in the middle of a frame  *)
(* too), nor that the application reads.                                   *)
Spec == Init /\ [][Next]_vars /\ WF_vars(LibraryStep)
-----------------------------------------------------------------------------
(* The bytes that were received and belong to no frame that was handled,   *)
(* in the order in which the next reads find them.                         *)
Held == IF reading = "no" THEN read_buffer
        ELSE read_frame_buffer \o part1 \o rbuf

(* Frames taken off the stream, and where the next begins.                 *)
Taken == bytes_recv + refused + (IF HasFrame THEN 1 ELSE 0)
NextStart == IF Taken = Len(frames) THEN total ELSE frames[Taken + 1].start

(* Whatever timeouts cut short read_frame, in whatever part of a frame and *)
(* however often in the same frame, the bytes held and the bytes still to  *)
(* come are the stream from the first frame that was not handled on: no    *)
(* byte is lost, repeated or moved (transport.py read_frame, _read).  Only *)
(* the end of the stream loses bytes, and then connected is cleared before *)
(* anything is read again.                                                 *)
NothingLost ==
  connected => LET bytes == Held \o wire IN
               /\ bytes = Run(NextStart, NextStart + Len(bytes))
               /\ ~closed => NextStart + Len(bytes) = total

(* Between two frames of the stream, the handler expects on every channel  *)
(* what the broker sends next there, has a message in hand exactly when    *)
(* it expects content (the partial_messages[channel] of method_framing.py  *)
(* never fails), and has refused no frame but the wrong ones.              *)
HandlerInStep ==
  /\ \A c \in Channels :
       (expected_types[c] = 1) <=> (partial_messages[c] = NoMessage)
  /\ Taken = Len(frames) /\ ~HasFrame =>
       \A c \in Channels : expected_types[c] = peer[c].next
  /\ raised = "UnexpectedFrame" => Taken \in wrong

(* The reader implements MethodDelivery: per channel, whole methods, each  *)
(* once and in order, under every interleaving of the frames of channels,  *)
(* heartbeats, timeouts, wrong frames and the end of the stream.           *)
Delivery == INSTANCE MethodDelivery WITH
  Methods <- [n : Nat, body : Bytes]

Implements == Delivery!Spec

(* From some time on the broker sends nothing more.                        *)
BrokerFallsSilent == <>[][~PeerStep]_vars

(* drain_events(timeout) returns or raises, wherever in a frame or in a    *)
(* message the broker falls silent or the network holds bytes back for     *)
(* ever.  That the broker falls silent is an assumption: the timeout is    *)
(* that of each recv and blocking_read starts it again (connection.py      *)
(* drain_events), so that a broker whose heartbeats come faster than the   *)
(* timeout keeps the call for ever.                                        *)
TimedDrainReturns == BrokerFallsSilent => (mode = "timed" ~> mode = "none")

(* Under the same assumption, with a timeout of zero or with read_timeout  *)
(* (SO_RCVTIMEO), there is one way not to come back: to stay inside a      *)
(* frame of which the rest does not come, where _read goes round and round *)
(* (transport.py _read, "continue").  Between frames, and between the      *)
(* frames of a message, the call ends.                                     *)
EagainDrainReturns ==
  BrokerFallsSilent =>
    (mode = "eagain" ~>
       mode = "none" \/ [](reading \in Stages \ {"no", "header"}))
=============================================================================
