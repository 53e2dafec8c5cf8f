---------------------------- MODULE FrameHandler ----------------------------
(***************************************************************************)
(* frame_handler of amqp/method_framing.py, with the parts of              *)
(* GenericContent (amqp/serialization.py) it calls: frames of all channels *)
(* come in, whole methods go out.  A frame is a record with fields type,   *)
(* channel, arg (what its payload says) and buf (the bytes of a body).     *)
(*                                                                         *)
(* on_frame ends in one of three ways, an action each.  The callback runs  *)
(* after the state has been reset: a callback that reads more frames       *)
(* itself, or that raises, finds and leaves the handler between methods.   *)
(***************************************************************************)
EXTENDS Integers, Sequences

CONSTANT Channels  \* the channel ids

ASSUME ChannelsAssumption == Channels \subseteq Nat

VARIABLES
  expected_types,    \* per channel, the frame type that must come next
  partial_messages,  \* per channel, the Message being put together
  delivered,         \* per channel, what the callback has been given
  bytes_recv         \* connection.bytes_recv, which counts frames

handlerVars == <<expected_types, partial_messages, delivered, bytes_recv>>

Message == [n : Nat, body_size : Nat, body : Seq(Nat)]
NoMessage == [n |-> 0, body_size |-> 0, body |-> <<>>]

HandlerTypeOK ==
  /\ expected_types \in [Channels -> 1 .. 3]
  /\ partial_messages \in [Channels -> Message]
  /\ delivered \in [Channels -> Seq([n : Nat, body : Seq(Nat)])]
  /\ bytes_recv \in Nat

HandlerInit ==
  /\ expected_types = [c \in Channels |-> 1]
  /\ partial_messages = [c \in Channels |-> NoMessage]
  /\ delivered = [c \in Channels |-> <<>>]
  /\ bytes_recv = 0

Accepts(f) == f.type \in {expected_types[f.channel], 8}

(* Mutant: the last chunk comes first.                                     *)
ReceivedSwapped(f) ==
  LET msg == partial_messages[f.channel] IN
  IF f.type = 2 THEN [msg EXCEPT !.body_size = f.arg.body_size]
                ELSE [msg EXCEPT !.body = f.buf \o @]

(* The message a content frame leaves, inbound_header and inbound_body.    *)
Received(f) ==
  LET msg == partial_messages[f.channel] IN
  IF f.type = 2 THEN [msg EXCEPT !.body_size = f.arg.body_size]
                ELSE [msg EXCEPT !.body = @ \o f.buf]

Ready(f) == Len(Received(f).body) >= Received(f).body_size

(* UnexpectedFrame.                                                        *)
on_frame_raises(f) ==
  /\ ~Accepts(f)
  /\ bytes_recv' = bytes_recv + 1
  /\ UNCHANGED <<expected_types, partial_messages, delivered>>

(* Mutant: the expected type is counted up, whatever came.                 *)
KeepCounts(c, type, msg) ==
  /\ expected_types' = [expected_types EXCEPT ![c] = @ + 1]
  /\ partial_messages' = [partial_messages EXCEPT ![c] = msg]
  /\ UNCHANGED delivered

Keep(c, type, msg) ==
  /\ expected_types' = [expected_types EXCEPT ![c] = type]
  /\ partial_messages' = [partial_messages EXCEPT ![c] = msg]
  /\ UNCHANGED delivered

(* return False: more frames must come.                                    *)
on_frame_false(f) ==
  /\ Accepts(f)
  /\ bytes_recv' = bytes_recv + 1
  /\ \/ /\ f.type = 1 /\ f.arg.content
        /\ Keep(f.channel, 2, [NoMessage EXCEPT !.n = f.arg.n])
     \/ /\ f.type \in {2, 3} /\ ~Ready(f)
        /\ Keep(f.channel, 3, Received(f))
     \/ /\ f.type = 8
        /\ UNCHANGED <<expected_types, partial_messages, delivered>>

(* Mutant: the channel still waits for a body.                             *)
DoneStillExpects(c, method) ==
  /\ UNCHANGED expected_types
  /\ partial_messages' = [partial_messages EXCEPT ![c] = NoMessage]
  /\ delivered' = [delivered EXCEPT ![c] = Append(@, method)]

Done(c, method) ==
  /\ expected_types' = [expected_types EXCEPT ![c] = 1]
  /\ partial_messages' = [partial_messages EXCEPT ![c] = NoMessage]
  /\ delivered' = [delivered EXCEPT ![c] = Append(@, method)]

(* callback(...), return True: a method without content, or the last frame *)
(* of a message.                                                           *)
on_frame_true(f) ==
  /\ Accepts(f)
  /\ bytes_recv' = bytes_recv + 1
  /\ \/ /\ f.type = 1 /\ ~f.arg.content
        /\ Done(f.channel, [n |-> f.arg.n, body |-> <<>>])
     \/ /\ f.type \in {2, 3} /\ Ready(f)
        /\ Done(f.channel, [n |-> Received(f).n, body |-> Received(f).body])
=============================================================================
