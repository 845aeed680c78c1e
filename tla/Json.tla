-------------------------------- MODULE Json --------------------------------
(***************************************************************************)
(* JSON: Serializer::serializeJSON, and the scanner, grammar and driver of *)
(* core/jsonparser.  A text is a sequence of tokens without the white      *)
(* space; the characters between the quotes of a string are kept, since    *)
(* they are scanned one by one.  A number is the text of an integer        *)
(* (its sign, and its magnitude as eight bytes of the value) or of a       *)
(* float (its kind, and the double it converts to).                        *)
(***************************************************************************)
EXTENDS Variant

Sign(s)    == [tk |-> s]
Quoted(b)  == [tk |-> "quoted", chars |-> b]
Whole(num) == [tk |-> "integer", value |-> num]
(* A qulonglong above 2^63 - 1. *)
WholeUnsigned(num) == [tk |-> IF num[8] < 128 THEN "integer" ELSE "overflow", value |-> num]

(* The characters that are escaped, and the letter after the backslash.    *)
Escapes == << <<92, 92>>, <<34, 34>>, <<8, 98>>, <<12, 102>>, <<10, 110>>, <<13, 114>>, <<9, 116>> >>

(* QString::replace of one character by a backslash and a letter.          *)
Replace(str, esc) == FoldLeft(LAMBDA s, c : s \o (IF c = esc[1] THEN <<92, esc[2]>> ELSE <<c>>), <<>>, str)

SanitizeString(str) == FoldLeft(Replace, str, Escapes)

JsonString(str) == Put(<<Quoted(Local8Bit(SanitizeString(str)))>>)

(* QString::number(double): six significant digits.  How the doubles of a  *)
(* model print: as an integer, with an exponent only, rounded, exactly...  *)
CONSTANT Printed
PrintedDouble(num) == IF num \in DOMAIN Printed THEN Printed[num] ELSE [form |-> "float", to |-> num]

JsonDouble(num) == Put(<<[tk |-> PrintedDouble(num).form, value |-> PrintedDouble(num).to]>>)

RECURSIVE SerializeJSON(_)

(* The parts with a separator between them. *)
Separated(parts) ==
    FlattenSeq([i \in DOMAIN parts |-> IF i = 1 THEN <<parts[i]>> ELSE <<Put(<<Sign(",")>>), parts[i]>>])

SerializeObject(members) ==
    LET keys == Keys(members)
    IN  InTurn(<<Put(<<Sign("{")>>)>>
               \o Separated([i \in DOMAIN keys |->
                     InTurn(<<JsonString(keys[i]), Put(<<Sign(":")>>), SerializeJSON(members[keys[i]])>>)])
               \o <<Put(<<Sign("}")>>)>>)

SerializeArray(elts) ==
    InTurn(<<Put(<<Sign("[")>>)>> \o Separated([i \in DOMAIN elts |-> SerializeJSON(elts[i])]) \o <<Put(<<Sign("]")>>)>>)

SerializeJSON(v) ==
    CASE v.t \in {"null", "true", "false"} -> Put(<<Sign(v.t)>>)
      [] v.t = "map" -> SerializeObject(v.members)
      [] v.t = "list" -> SerializeArray(v.elts)
      [] v.t = "string" -> JsonString(v.str)
      [] v.t = "data" -> JsonString(TextOfBytes(v.bytes).str)
      [] v.t \in {"int", "llong"} -> Put(<<Whole(Widen(v.num, 8))>>)
      [] v.t \in {"char", "uint", "ullong"} -> Put(<<WholeUnsigned(ZeroExtend(v.num, 8))>>)
      [] v.t = "double" -> JsonDouble(v.num)
      [] OTHER -> Refused

-----------------------------------------------------------------------------
(* The scanner. *)

(* One character in the start conditions STRING and STRING_ESCAPE; a line  *)
(* feed matches no rule of STRING and is echoed.                           *)
(* An escaped character stands for itself, a letter too. *)
MutantUnescaped(c) == <<c>>

Unescaped(c) ==
    LET hits == SelectSeq(Escapes \o << <<47, 47>> >>, LAMBDA e : e[2] = c)
    IN  IF hits = <<>> THEN <<>> ELSE <<hits[1][1]>>

ScanChar(s, c) ==
    CASE s.start = "STRING" /\ c = 34 -> [s EXCEPT !.start = "INITIAL"]
      [] s.start = "STRING" /\ c = 92 -> [s EXCEPT !.start = "STRING_ESCAPE"]
      [] s.start = "STRING" /\ c \notin {34, 92} -> [s EXCEPT !.str = IF c = 10 THEN @ ELSE Append(@, c)]
      [] s.start = "STRING_ESCAPE" -> [start |-> IF Unescaped(c) = <<>> THEN "INITIAL" ELSE "STRING",
                                       str |-> s.str \o Unescaped(c)]
      [] OTHER -> s

ScanString(chars) == FoldLeft(ScanChar, [start |-> "STRING", str |-> <<>>], chars)

(* VARIANT_NUMBER: an int when it fits, 0 when it does not fit a qlonglong.*)
ScanInteger(num) ==
    IF \A i \in 5 .. 8 : num[i] = 0 /\ num[4] < 128 THEN Number("int", SubSeq(num, 1, 4)) ELSE Number("llong", num)

(* The number rule also takes "1e+06", which no integer conversion reads.  *)
ScanNumber(tok) ==
    CASE tok.tk = "integer" -> ScanInteger(tok.value)
      [] tok.tk \in {"exponent", "overflow"} -> Number("int", <<0, 0, 0, 0>>)
      [] OTHER -> Number("double", tok.value)

-----------------------------------------------------------------------------
(* The grammar and the actions of its rules. *)

At(text, p, s) == p \in DOMAIN text /\ text[p].tk = s

RECURSIVE ParseVariant(_, _), ParseArray(_, _, _), ParseObject(_, _, _)

ParseText(text, p) ==
    LET s == ScanString(text[p].chars)
    IN  IF s.start = "STRING" THEN Got(Text(s.str), p + 1) ELSE Failed

ParseArray(text, p, sofar) ==
    LET r == ParseVariant(text, p)
    IN  IF r.st # "value" THEN r
        ELSE IF At(text, r.pos, ",") THEN ParseArray(text, r.pos + 1, Append(sofar, r.v))
        ELSE IF At(text, r.pos, "]") THEN Got(List(Append(sofar, r.v)), r.pos + 1)
        ELSE Failed

ParseObject(text, p, sofar) ==
    LET key == IF At(text, p, "quoted") THEN ParseText(text, p) ELSE Failed
        r == IF key.st = "value" /\ At(text, p + 1, ":") THEN ParseVariant(text, p + 2) ELSE Failed
        members == Insert(sofar, key.v.str, r.v)
    IN  IF r.st # "value" THEN Failed
        ELSE IF At(text, r.pos, ",") THEN ParseObject(text, r.pos + 1, members)
        ELSE IF At(text, r.pos, "}") THEN Got(Map(members), r.pos + 1)
        ELSE Failed

ParseVariant(text, p) ==
    IF p \notin DOMAIN text THEN Failed
    ELSE CASE At(text, p, "{") -> IF At(text, p + 1, "}") THEN Got(Map(<<>>), p + 2) ELSE ParseObject(text, p + 1, <<>>)
      [] At(text, p, "[") -> IF At(text, p + 1, "]") THEN Got(List(<<>>), p + 2) ELSE ParseArray(text, p + 1, <<>>)
      [] At(text, p, "quoted") -> ParseText(text, p)
      [] At(text, p, "null") -> Got(Null, p + 1)
      [] At(text, p, "true") \/ At(text, p, "false") -> Got(Bool(text[p].tk = "true"), p + 1)
      [] "value" \in DOMAIN text[p] -> Got(ScanNumber(text[p]), p + 1)
      [] OTHER -> Failed

(* What follows the first value is never looked at. *)
ParseJSON(text) == ParseVariant(text, 1)
=============================================================================
