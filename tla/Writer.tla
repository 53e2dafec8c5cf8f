------------------------------- MODULE Writer -------------------------------
(***************************************************************************)
(* The outbound side of a connection: send_method of amqp/abstract_channel *)
(* encodes the arguments (module Serialization) and calls the frame writer *)
(* (module FrameWriter), and send_heartbeat calls it too.  A reference     *)
(* reader says what a broker makes of the frames.                          *)
(***************************************************************************)
EXTENDS FrameWriter, Serialization

CONSTANTS
  Sends,      \* arguments of send_method: [sig, format, values, message]
  Probes,     \* pairs <<format, values>> given to dumps for their own sake
  MaxWrites   \* bound on the calls

VARIABLES
  calls,    \* how many calls were made
  coded,    \* the last arguments given to dumps, what it returned, and the
            \* message that was sent with them
  log,      \* the methods whose write has succeeded
  damaged   \* has a method been written in part only?

vars == <<writerVars, calls, coded, log, damaged>>

NoMessage == [has |-> FALSE, text |-> FALSE, props |-> [x \in {} |-> None], body |-> <<>>]
NoCoded   == [format |-> <<>>, values |-> <<>>, bytes |-> <<>>, message |-> NoMessage]

Init ==
  /\ WriterInit
  /\ calls = 0 /\ coded = NoCoded /\ log = <<>> /\ damaged = FALSE

-----------------------------------------------------------------------------
Coded(format, values, message) ==
  [format |-> format, values |-> values, bytes |-> dumps(format, values),
   message |-> message]

UTF8 == "content_encoding" :> <<"str", <<0>>>>

(* Mutant: the encoding the application has named is overwritten.          *)
EncodedAlways(message) == IF message.text THEN UTF8 @@ message.props ELSE message.props

(* setdefault: a body that is a str gets 'utf-8' unless it names another.  *)
Encoded(message) == IF message.text THEN message.props @@ UTF8 ELSE message.props

Content(message) ==
  IF ~message.has THEN NoContent
  ELSE LET s == serialize_properties(Encoded(message)) IN
       [has |-> TRUE, props |-> s, props_len |-> 2 + Len(s.bytes), body |-> message.body]

Call(send) ==
  [type |-> 1, channel |-> 1, sig |-> send.sig,
   args |-> dumps(send.format, send.values), content |-> Content(send.message)]

Method(call) ==
  [sig |-> call.sig, args |-> call.args, props |-> call.content.props,
   body |-> call.content.body]

Bounded == calls < MaxWrites /\ calls' = calls + 1

(* A write that was cut short, or the slow path for an empty body, which   *)
(* writes no header.                                                       *)
Damages(call) ==
  \/ result' \in {"timeout", "OSError"} /\ written' # <<>>
  \/ bigbody(call) /\ call.content.body = <<>>

send_method(send) ==
  LET call == Call(send) IN
  /\ Bounded
  /\ write_frame(call)
  /\ coded' = Coded(send.format, send.values, send.message)
  /\ log' = IF result' = "ok" THEN Append(log, Method(call)) ELSE log
  /\ damaged' = (damaged \/ Damages(call))

send_heartbeat ==
  /\ Bounded
  /\ write_frame(NoCall)
  /\ damaged' = (damaged \/ Damages(NoCall))
  /\ UNCHANGED <<coded, log>>

Tunes == Tune /\ UNCHANGED <<calls, coded, log, damaged>>

(* dumps on its own, instead of the calls.                                 *)
Dumps ==
  /\ calls = 0 /\ ~tuned
  /\ calls' = MaxWrites
  /\ \E p \in Probes : coded' = Coded(p[1], p[2], NoMessage)
  /\ UNCHANGED <<writerVars, log, damaged>>

Next == (\E send \in Sends : send_method(send)) \/ send_heartbeat \/ Tunes \/ Dumps

Spec == Init /\ [][Next]_vars
-----------------------------------------------------------------------------
TypeOK == WriterTypeOK /\ calls \in 0 .. MaxWrites /\ Len(log) <= calls

(* What a value is after dumps and loads.                                  *)
RECURSIVE Item(_)
Item(v) ==
  CASE v[1] = "bytes" -> IF Decodes(v[2]) THEN <<"str", v[2]>> ELSE v
    [] v[1] = "time"  -> <<"time", <<v[2][1], 0>>>>
    [] v[1] = "dict"  -> <<"dict", [i \in DOMAIN v[2] |-> <<v[2][i][1], Item(v[2][i][2])>>]>>
    [] v[1] = "list"  -> <<"list", [i \in DOMAIN v[2] |-> Item(v[2][i])]>>
    [] OTHER          -> v

Back(p, v) ==
  CASE p \in {"s", "S"} -> <<"str", Text(v)>>
    [] p = "x" -> <<"bytes", Text(v)>>
    [] p = "F" -> Item(<<"dict", Text(v)>>)
    [] p = "A" -> Item(<<"list", Text(v)>>)
    [] p = "f" -> <<"float", (v[2] \div Base ^ 4) * Base ^ 4>>
    [] OTHER   -> Item(v)

(* The formats on which dumps and loads agree: a "T" does not follow bits  *)
(* (dumps writes it before them), and an "x" does not stand between bits   *)
(* (loads takes the second run of bits for the rest of the first).         *)
Regular(format) ==
  \A i, j \in DOMAIN format :
    LET mid == {format[k] : k \in (i + 1) .. (j - 1)} IN
    i < j /\ format[i] = "b" =>
      /\ ~(format[j] = "T" /\ mid \subseteq {"b", "T"})
      /\ ~(format[j] = "b" /\ "x" \in mid /\ mid \subseteq {"b", "x"})

(* The values that a type of the protocol can hold.                        *)
Fits(p, v) ==
  CASE p \in DOMAIN Width -> v[2] < Base ^ Width[p]
    [] p = "s" -> Len(Text(v)) < Base
    [] OTHER   -> TRUE

(* dumps succeeds exactly when every value has room in its type, and what  *)
(* it writes for a regular format loads reads back: all of it, and every   *)
(* value as it was, but that absent strings and tables come back empty,    *)
(* bytes as str, times without microseconds and floats in single precision *)
(* (serialization.py dumps, loads, _write_item, _read_item).               *)
RoundTrip ==
  LET I == DOMAIN coded.values
      fit == \A i \in I : Fits(coded.format[i], coded.values[i])
      back == loads(coded.format, coded.bytes, 0)
  IN  /\ fit <=> ~Contains(coded.bytes, ERR)
      /\ fit /\ Regular(coded.format) =>
           /\ back[2] = Len(coded.bytes)
           /\ back[1] = [i \in I |-> Back(coded.format[i], coded.values[i])]

(* The properties decoded from a message are those it was sent with, and a *)
(* str body's encoding is the one the application gave, if it gave one     *)
(* (_serialize_properties, decode_properties_basic, write_frame).          *)
PropertiesKept ==
  LET message == coded.message
      back    == decode_properties_basic(last.content.props).props
  IN  message.has /\ last.content.has =>
        /\ \A x \in DOMAIN message.props :
             x \in DOMAIN back /\ back[x] = Item(message.props[x])
        /\ DOMAIN back = DOMAIN message.props
                         \cup (IF message.text THEN {"content_encoding"} ELSE {})

(* What a broker makes of the frames: the methods with their content, or   *)
(* that they break the protocol.                                           *)
Start == [ok |-> TRUE, methods |-> <<>>, open |-> FALSE, size |-> 0,
          method |-> [sig |-> "", args |-> <<>>, props |-> NoProps, body |-> <<>>]]

Finish(st) ==
  IF st.open /\ st.size = Len(st.method.body)
  THEN [st EXCEPT !.methods = Append(@, st.method), !.open = FALSE, !.size = 0] ELSE st

Takes(st, f) ==
  CASE ~f.whole -> [st EXCEPT !.ok = FALSE]
    [] f.type = 8 -> st
    [] f.type = 1 ->
         LET m == [sig |-> f.sig, args |-> f.args, props |-> NoProps, body |-> <<>>] IN
         IF st.open THEN [st EXCEPT !.ok = FALSE]
         ELSE IF f.sig = "BasicPublish"
              THEN [st EXCEPT !.open = TRUE, !.size = -1, !.method = m]
              ELSE [st EXCEPT !.methods = Append(@, m)]
    [] f.type = 2 ->
         IF ~(st.open /\ st.size = -1) THEN [st EXCEPT !.ok = FALSE]
         ELSE Finish([st EXCEPT !.size = f.size, !.method.props = f.props])
    [] f.type = 3 ->
         IF ~(st.open /\ st.size > 0) THEN [st EXCEPT !.ok = FALSE]
         ELSE Finish([st EXCEPT !.method.body = @ \o f.data])

Parsed == FoldLeft(Takes, Start, wire)

(* As long as no write was cut short, and no message without a body had so *)
(* large properties or arguments that it was written frame by frame (which *)
(* leaves out its header, method_framing.py "if body"), a broker reads     *)
(* exactly the methods that were written, with their whole content.  After *)
(* a write that timed out, connected is still TRUE and the next frame      *)
(* follows the part of the last one.                                       *)
BrokerReads ==
  ~damaged => Parsed.ok /\ ~Parsed.open /\ Parsed.methods = log
=============================================================================
