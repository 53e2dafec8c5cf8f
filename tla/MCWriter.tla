------------------------------ MODULE MCWriter ------------------------------
(***************************************************************************)
(* Small instance of Writer for TLC.  Numbers are chosen at the ends of    *)
(* their widths, bodies and tables around the sizes at which the writer    *)
(* changes its path.                                                       *)
(***************************************************************************)
EXTENDS Writer

Str(n)  == <<"str", [i \in 1 .. n |-> i % 2]>>
Num(v)  == <<"int", v>>
Bool(b) == <<"bool", b>>

\* Tables: empty, with every type of item, nested, and with a long string.
Long == Base ^ 4 \div 2
Items == << Num(Long - 1), Num(Long), Num(-Long), Num(1 - Long), Bool(TRUE), None,
            <<"bytes", <<0, Invalid>>>>, <<"bytes", <<1>>>>, <<"float", 257>>,
            <<"dec", <<-5, 2>>>>, <<"time", <<7, 3>>>>,
            <<"list", << Num(1), <<"list", <<>> >> >> >> >>
Mixed   == <<"dict", [i \in DOMAIN Items |-> << <<i % 2, i % 3>>, Items[i] >>] >>
Nested  == <<"dict", << << <<1>>, Mixed >>, << <<>>, Str(2) >> >> >>
Text0(n) == <<"dict", << << <<1>>, Str(n) >> >> >>

\* Values for each letter of a format.
Values(p) ==
  CASE p = "b" -> {Bool(TRUE), Bool(FALSE)}
    [] p = "o" -> {Num(0), Num(Base - 1), Num(Base)}
    [] p = "B" -> {Num(1), Num(Base ^ 2 - 1)}
    [] p = "l" -> {Num(Base ^ 4 - 2)}
    [] p = "L" -> {Num(Base ^ 8 - 1)}
    [] p = "f" -> {<<"float", Base ^ 5 + 1>>}
    [] p = "s" -> {None, Str(2), Str(Base)}
    [] p = "S" -> {Str(5)}
    [] p = "x" -> {None, <<"bytes", <<Invalid>>>>}
    [] p = "F" -> {None, Mixed}
    [] p = "A" -> {<<"list", Items>>}
    [] p = "T" -> {<<"time", <<9, 1>>>>}

AllValues(format) ==
  {v \in [DOMAIN format -> UNION {Values(format[i]) : i \in DOMAIN format}] :
     \A i \in DOMAIN format : v[i] \in Values(format[i])}

\* Every format of three letters of which some are bits, and the formats of
\* methods that mix bits with other types.
BitFormats == [1 .. 3 -> {"b", "o", "s", "x", "T"}]
OneLetter  == [1 .. 1 -> {"l", "L", "f", "S", "F", "A", "B"}]
MethodFormats == {
  <<"s", "b">>, <<"L", "b">>, <<"l", "B", "b">>, <<"B", "s", "b", "b", "b">>,
  <<"s", "L", "b", "s">> }
ManyBits == <<"b", "b", "b", "b", "b", "F">>
MCProbes ==
  UNION {{<<f, v>> : v \in AllValues(f)} : f \in BitFormats \cup OneLetter \cup MethodFormats}
  \cup {<<ManyBits, [i \in 1 .. 6 |-> IF i = 6 THEN Nested ELSE Bool(i \in S)]>> :
          S \in SUBSET (1 .. 5)}

\* Messages around the size at which the writer changes its path.
Message(text, props, n) ==
  [has |-> TRUE, text |-> text, props |-> props, body |-> [i \in 1 .. n |-> i]]
Prop(k, v) == k :> v
Plain == [x \in {} |-> None]

Messages ==
  {Message(FALSE, Plain, n) : n \in {0, 1, 2, 49, 97}}
  \cup {Message(TRUE, Prop("content_encoding", Str(2)), 3),
        Message(TRUE, Prop("content_type", Str(1)) @@ Prop("priority", Num(1)), 3),
        Message(FALSE, Prop("application_headers", Mixed), 1),
        Message(FALSE, Prop("application_headers", Text0(20)), 0),
        Message(FALSE, Prop("timestamp", Num(9)) @@ Prop("cluster_id", Str(2)), 20)}

PublishFormat == <<"B", "s", "s", "b", "b">>
DeclareFormat == <<"B", "s", "b", "b", "b", "b", "b", "F">>
Bits(n) == [i \in 1 .. n |-> Bool(i = 2)]

Publishes ==
  {[sig |-> "BasicPublish", format |-> PublishFormat,
    values |-> <<Num(0), Str(0), Str(0)>> \o Bits(2), message |-> m] : m \in Messages}

Declares ==
  {[sig |-> "QueueDeclare", format |-> DeclareFormat,
    values |-> <<Num(0), Str(1)>> \o Bits(5) \o <<Text0(n)>>, message |-> NoMessage] :
    n \in {0, 18, 19, 40}}

MCSends == Publishes \cup Declares
MCCalls == {Call(send) : send \in MCSends}
=============================================================================
