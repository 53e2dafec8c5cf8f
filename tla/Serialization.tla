---------------------------- MODULE Serialization ----------------------------
(***************************************************************************)
(* amqp/serialization.py: dumps and loads of method arguments, tables and  *)
(* arrays, and the properties of a message.                                *)
(*                                                                         *)
(* A byte has W bits instead of eight, so that every width of the protocol *)
(* (1, 2, 4 and 8 bytes) has its largest value within TLC's reach.  The    *)
(* letters that name a type inside a table are bytes of their own.  A      *)
(* Python value is a pair <<type, value>>; a str or bytes is given by its  *)
(* encoded bytes, and a str that contains Invalid does not decode.         *)
(* Whatever raises in dumps leaves ERR in what it returns.                 *)
(***************************************************************************)
EXTENDS Integers, Sequences, SequencesExt, TLC

CONSTANT W  \* bits in a byte

ASSUME SerializationAssumption == W \in Nat \ {0}

Base    == 2 ^ W
ERR     == -1
Invalid == Base - 1
None    == <<"none", 0>>

(* Letters of table items, as bytes that no number or string contains.     *)
Letters == <<"S", "s", "x", "b", "B", "U", "u", "I", "i", "L", "l", "f", "d",
             "D", "F", "A", "t", "T", "V">>
Code(letter) == 1000 + CHOOSE k \in DOMAIN Letters : Letters[k] = letter

(* struct.pack and unpack_from, big-endian.                                *)
Pack(v, n) ==
  IF v \in 0 .. Base ^ n - 1
  THEN [i \in 1 .. n |-> (v \div Base ^ (n - i)) % Base] ELSE <<ERR>>

PackSigned(v, n) ==
  LET half == Base ^ n \div 2 IN
  IF v \in -half .. half - 1 THEN Pack(v % (Base ^ n), n) ELSE <<ERR>>

At(buf, i) == IF i \in DOMAIN buf THEN buf[i] ELSE 0

Unpack(buf, offset, n) ==
  FoldLeft(LAMBDA acc, i : acc * Base + At(buf, offset + i), 0, [i \in 1 .. n |-> i])

TwosComplement(v, range) == IF v >= range \div 2 THEN v - range ELSE v

UnpackSigned(buf, offset, n) == TwosComplement(Unpack(buf, offset, n), Base ^ n)

Slice(buf, offset, n) == [i \in 1 .. n |-> At(buf, offset + i)]

Decodes(s) == ~Contains(s, Invalid)
pstr_t(s)  == IF Decodes(s) THEN <<"str", s>> ELSE <<"UnicodeDecodeError", s>>

-----------------------------------------------------------------------------
(* A string behind its length, a table, an array, an item.  A double has   *)
(* eight bytes, of which a float keeps the first four; a datetime is       *)
(* <<seconds, microseconds>>, a Decimal <<coefficient, decimals>>.         *)
WriteString(s, n) == Pack(Len(s), n) \o s

IntLetter(v) ==
  IF v > Base ^ 4 \div 2 - 1 \/ v < -(Base ^ 4 \div 2 - 1) THEN "L" ELSE "I"

RECURSIVE write_item(_)

write_table(d) ==
  WriteString(FlattenSeq([i \in DOMAIN d |->
    WriteString(d[i][1], 1) \o write_item(d[i][2])]), 4)

write_array(list) == WriteString(FlattenSeq([i \in DOMAIN list |-> write_item(list[i])]), 4)

write_item(item) ==
  LET v == item[2] IN
  CASE item[1] \in {"str", "bytes"} -> <<Code("S")>> \o WriteString(v, 4)
    [] item[1] = "bool"  -> <<Code("t"), IF v THEN 1 ELSE 0>>
    [] item[1] = "float" -> <<Code("d")>> \o Pack(v, 8)
    [] item[1] = "int"   -> LET p == IntLetter(v) IN
                            <<Code(p)>> \o PackSigned(v, IF p = "L" THEN 8 ELSE 4)
    [] item[1] = "dec"   -> <<Code("D")>> \o Pack(v[2], 1) \o PackSigned(v[1], 4)
    [] item[1] = "time"  -> <<Code("T")>> \o Pack(v[1], 8)
    [] item[1] = "dict"  -> <<Code("F")>> \o write_table(v)
    [] item[1] = "list"  -> <<Code("A")>> \o write_array(v)
    [] item[1] = "none"  -> <<Code("V")>>
    [] OTHER             -> <<ERR>>

-----------------------------------------------------------------------------
(* dumps: bits are collected, and written before the next value that is    *)
(* not a bit, except by "T", which writes at once.                         *)
Width == [o |-> 1, B |-> 2, l |-> 4, L |-> 8]

Text(val) == IF val = None THEN <<>> ELSE val[2]

Dump(p, val) ==
  CASE p \in DOMAIN Width  -> Pack(val[2], Width[p])
    [] p = "f"             -> Pack(val[2] \div Base ^ 4, 4)
    [] p = "s"             -> WriteString(Text(val), 1)
    [] p \in {"S", "x"}    -> WriteString(Text(val), 4)
    [] p = "F"             -> write_table(Text(val))
    [] p = "A"             -> write_array(Text(val))
    [] p = "T"             -> Pack(val[2][1], 8)
    [] OTHER               -> <<>>

DumpBit(st, set) ==
  LET shift == st.count % W
      bits  == IF shift = 0 THEN Append(st.bits, 0) ELSE st.bits
  IN  [st EXCEPT !.bits = [bits EXCEPT ![Len(bits)] = @ + (IF set THEN 2 ^ shift ELSE 0)],
                 !.count = @ + 1]

(* Mutant: a value that is not a bit does not restart the count.           *)
FlushBitsKeepsCount(st) == [st EXCEPT !.out = @ \o st.bits, !.bits = <<>>]

flushbits(st) == [out |-> st.out \o st.bits, bits |-> <<>>, count |-> 0]

DumpValue(st, p, val) ==
  CASE p = "b" -> DumpBit(st, val[2])
    [] p = "T" -> [st EXCEPT !.out = @ \o Dump(p, val)]
    [] OTHER   -> [flushbits(st) EXCEPT !.out = @ \o Dump(p, val)]

dumps(format, values) ==
  flushbits(FoldLeft(LAMBDA st, i : DumpValue(st, format[i], values[i]),
                     [out |-> <<>>, bits |-> <<>>, count |-> 0],
                     [i \in DOMAIN values |-> i])).out

-----------------------------------------------------------------------------
(* _read_item and loads: a value and the offset behind it.                 *)
RECURSIVE read_item(_, _), ReadTable(_, _, _, _), ReadArray(_, _, _, _)

Taken(buf, offset, len) == <<Slice(buf, offset, len), offset + len>>

ReadString(buf, offset, n) == Taken(buf, offset + n, Unpack(buf, offset, n))

AsStr(s)   == <<pstr_t(s[1]), s[2]>>
AsBytes(s) == <<<<"bytes", s[1]>>, s[2]>>
AsInt(v, end) == <<<<"int", v>>, end>>

WithItem(buf, limit, acc, key, item) ==
  ReadTable(buf, item[2], limit, Append(acc, <<key[1], item[1]>>))

ReadTable(buf, offset, limit, acc) ==
  IF offset >= limit THEN <<<<"dict", acc>>, offset>>
  ELSE LET key == ReadString(buf, offset, 1)
       IN  WithItem(buf, limit, acc, key, read_item(buf, key[2]))

WithElement(buf, limit, acc, item) == ReadArray(buf, item[2], limit, Append(acc, item[1]))

ReadArray(buf, offset, limit, acc) ==
  IF offset >= limit THEN <<<<"list", acc>>, offset>>
  ELSE WithElement(buf, limit, acc, read_item(buf, offset))

Table(buf, offset) == ReadTable(buf, offset + 4, offset + 4 + Unpack(buf, offset, 4), <<>>)
Array(buf, offset) == ReadArray(buf, offset + 4, offset + 4 + Unpack(buf, offset, 4), <<>>)

(* Widths of the integers, and which of them are read as signed: "b" is    *)
(* read as unsigned and "B" as signed, the reverse of what they name.      *)
IntWidth == [b |-> 1, B |-> 1, U |-> 2, u |-> 2, I |-> 4, i |-> 4, L |-> 8, l |-> 8]
ReadSigned == {"B", "U", "I", "L"}

ReadInt(p, buf, offset, n) ==
  AsInt(IF p \in ReadSigned THEN UnpackSigned(buf, offset, n) ELSE Unpack(buf, offset, n),
        offset + n)

(* An item of type p; a long string that is not UTF-8 stays bytes.         *)
ReadAs(p, buf, offset) ==
  CASE p = "S" -> LET s == ReadString(buf, offset, 4) IN
                  IF Decodes(s[1]) THEN AsStr(s) ELSE AsBytes(s)
    [] p = "s" -> AsStr(ReadString(buf, offset, 1))
    [] p = "x" -> AsBytes(ReadString(buf, offset, 4))
    [] p \in DOMAIN IntWidth -> ReadInt(p, buf, offset, IntWidth[p])
    [] p = "f" -> <<<<"float", Unpack(buf, offset, 4) * Base ^ 4>>, offset + 4>>
    [] p = "d" -> <<<<"float", Unpack(buf, offset, 8)>>, offset + 8>>
    [] p = "D" -> <<<<"dec", <<UnpackSigned(buf, offset + 1, 4), Unpack(buf, offset, 1)>>>>,
                    offset + 5>>
    [] p = "F" -> Table(buf, offset)
    [] p = "A" -> Array(buf, offset)
    [] p = "t" -> <<<<"bool", Unpack(buf, offset, 1) # 0>>, offset + 1>>
    [] p = "T" -> <<<<"time", <<Unpack(buf, offset, 8), 0>>>>, offset + 8>>
    [] p = "V" -> <<None, offset>>

read_item(buf, offset) == ReadAs(Letters[At(buf, offset + 1) - 1000], buf, offset + 1)

Load(p, buf, offset) ==
  CASE p \in DOMAIN Width -> AsInt(Unpack(buf, offset, Width[p]), offset + Width[p])
    [] p = "f" -> <<<<"float", Unpack(buf, offset, 4) * Base ^ 4>>, offset + 4>>
    [] p = "s" -> AsStr(ReadString(buf, offset, 1))
    [] p = "S" -> AsStr(ReadString(buf, offset, 4))
    [] p = "x" -> AsBytes(ReadString(buf, offset, 4))
    [] p = "F" -> Table(buf, offset)
    [] p = "A" -> Array(buf, offset)
    [] p = "T" -> <<<<"time", <<Unpack(buf, offset, 8), 0>>>>, offset + 8>>

LoadBit(st, buf) ==
  LET fresh == st.count = 0
      bits  == IF fresh THEN Unpack(buf, st.offset, 1) ELSE st.bits
  IN  [values |-> Append(st.values, <<"bool", bits % 2 = 1>>),
       offset |-> st.offset + (IF fresh THEN 1 ELSE 0),
       bits   |-> bits \div 2,
       count  |-> (IF fresh THEN W ELSE st.count) - 1]

(* A value and the offset behind it; "x" alone does not end a run of bits. *)
Loaded(st, p, r) ==
  [values |-> Append(st.values, r[1]),
   offset |-> r[2],
   bits   |-> IF p = "x" THEN st.bits ELSE 0,
   count  |-> IF p = "x" THEN st.count ELSE 0]

LoadValue(st, p, buf) ==
  IF p = "b" THEN LoadBit(st, buf) ELSE Loaded(st, p, Load(p, buf, st.offset))

loads(format, buf, start) ==
  LET end == FoldLeft(LAMBDA st, p : LoadValue(st, p, buf),
                      [values |-> <<>>, offset |-> start, bits |-> 0, count |-> 0], format)
  IN  <<end.values, end.offset>>

-----------------------------------------------------------------------------
(* Properties of a message: a function from names to values; a property    *)
(* that is absent is None.                                                 *)
Properties == <<
  <<"content_type", "s">>, <<"content_encoding", "s">>, <<"application_headers", "F">>,
  <<"delivery_mode", "o">>, <<"priority", "o">>, <<"correlation_id", "s">>,
  <<"reply_to", "s">>, <<"expiration", "s">>, <<"message_id", "s">>, <<"timestamp", "L">>,
  <<"type", "s">>, <<"user_id", "s">>, <<"app_id", "s">>, <<"cluster_id", "s">> >>

Get(props, key) == IF key \in DOMAIN props THEN props[key] ELSE None

(* The word of flags is the set of its bits; it takes two bytes.           *)
serialize_properties(props) ==
  LET present == SelectSeq(Properties, LAMBDA p : Get(props, p[1]) # None)
      flags == {16 - k : k \in {k \in DOMAIN Properties : Get(props, Properties[k][1]) # None}}
      bytes == dumps([i \in DOMAIN present |-> present[i][2]],
                     [i \in DOMAIN present |-> Get(props, present[i][1])])
  IN  [flags |-> flags, bytes |-> bytes]

(* Each property whose flag is set, at the offset the last one has left.   *)
AddProperty(st, name, r) == [props |-> (name :> r[1]) @@ st.props, offset |-> r[2]]

decode_properties_basic(s) ==
  LET Step(st, k) ==
        IF 16 - k \notin s.flags THEN st
        ELSE AddProperty(st, Properties[k][1], Load(Properties[k][2], s.bytes, st.offset))
  IN  FoldLeft(Step, [props |-> [x \in {} |-> None], offset |-> 0],
               [k \in DOMAIN Properties |-> k])
=============================================================================
