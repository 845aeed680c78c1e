-------------------------------- MODULE Bson --------------------------------
(***************************************************************************)
(* BSON: Serializer::serializeBSONDocument and serializeBSONElt,           *)
(* Parser::parseBSONDocument and parseBSONElt.                             *)
(***************************************************************************)
EXTENDS Variant

BsonToken == [null |-> 10, bool |-> 8, int32 |-> 16, int64 |-> 18, double |-> 1, datetime |-> 9,
              string |-> 2, data |-> 5, map |-> 3, list |-> 4, undef |-> 6, oid |-> 7, jscode |-> 13]
BsonTrue  == 0
BsonFalse == 1

(* QString::number of an index. *)
RECURSIVE Digits(_)
Digits(n) == IF n < 10 THEN <<48 + n>> ELSE Append(Digits(n \div 10), 48 + (n % 10))

RECURSIVE SerializeDocument(_)

(* Both 32 and 64-bit integers are written as toUInt(): four bytes.        *)
ToUInt(num) == SubSeq(Widen(num, 8), 1, 4)

BsonPayload(v) ==
    CASE v.t = "null" -> Put(<<>>)
      [] v.t \in {"true", "false"} -> Put(<<IF v.t = "true" THEN BsonTrue ELSE BsonFalse>>)
      [] v.t \in {"uint", "int", "llong", "ullong"} -> Put(ToUInt(v.num))
      [] v.t = "char" -> Put(ZeroExtend(v.num, 4))
      [] v.t \in {"double", "datetime"} -> Put(v.num)
      [] v.t \in {"map", "list"} -> SerializeDocument(v)
      [] v.t = "string" ->
             LET b == Local8Bit(v.str) IN Put(Int32Bytes(Len(b) + 1) \o b \o <<0>>)
      [] v.t = "data" -> Put(Int32Bytes(Len(v.bytes)) \o <<0>> \o v.bytes)
      [] OTHER -> Refused

(* The case of a list falls through to that of a map. *)
MutantBsonTokenOf(t) ==
    CASE t \in {"true", "false"} -> BsonToken.bool
      [] t \in {"uint", "int", "char"} -> BsonToken.int32
      [] t \in {"llong", "ullong"} -> BsonToken.int64
      [] t = "list" -> BsonToken.map
      [] OTHER -> BsonToken[t]

BsonTokenOf(t) ==
    CASE t \in {"true", "false"} -> BsonToken.bool
      [] t \in {"uint", "int", "char"} -> BsonToken.int32
      [] t \in {"llong", "ullong"} -> BsonToken.int64
      [] OTHER -> BsonToken[t]

SerializeElt(v, key) ==
    IF v.t = "foreign" THEN Refused
    ELSE InTurn(<<Put(<<BsonTokenOf(v.t)>> \o Local8Bit(key) \o <<0>>), BsonPayload(v)>>)

(* A document is built in a buffer of its own: an exception leaves nothing.*)
SerializeDocument(v) ==
    LET keys == IF v.t = "map" THEN Keys(v.members) ELSE <<>>
        body == CASE v.t = "map" -> InTurn([i \in DOMAIN keys |-> SerializeElt(v.members[keys[i]], keys[i])])
                  [] v.t = "list" -> InTurn([i \in DOMAIN v.elts |-> SerializeElt(v.elts[i], Digits(i - 1))])
                  [] OTHER -> Refused
    IN  IF body.done THEN Put(Int32Bytes(Len(body.out) + 5) \o body.out \o <<0>>) ELSE Refused

-----------------------------------------------------------------------------
(* The reader: p is the position after the key.                            *)

(* The value v made of len bytes at p, if they and skip more are there. *)
BsonBytes(f, p, len, skip, v) ==
    IF AllThere(f, p, len + skip) THEN Got(v, p + len + skip) ELSE Anything

(* The length of a string counts its NUL; a length of 0 wraps around.      *)
BsonString(f, p) ==
    LET len == Unsigned(Bytes(f, p, 3)) - 1
    IN  IF len < 0 \/ Bytes(f, p, 4)[4] # 0 THEN Anything
        ELSE BsonBytes(f, p + 4, len, 1, Text(FromUtf8(SubSeq(f, p + 4, p + 3 + len))))

(* The subtype is read before the length; a UUID becomes a QUuid.          *)
BsonData(f, p) ==
    LET len == Unsigned(Bytes(f, p + 1, 3))
    IN  IF Byte(f, p) = Undefined \/ Bytes(f, p + 1, 4)[4] # 0 THEN Anything
        ELSE BsonBytes(f, p + 5, len, 0, IF f[p] \in {3, 4} THEN Foreign ELSE Data(SubSeq(f, p + 5, p + 4 + len)))

(* QString::toInt of a key of digits, and QList::insert at that index.     *)
ToInt(key) ==
    IF key # <<>> /\ \A i \in DOMAIN key : key[i] \in 48 .. 57
    THEN FoldLeft(LAMBDA n, d : 10 * n + d - 48, 0, key) ELSE 0

InsertedList(pairs) ==
    List(FoldLeft(LAMBDA l, e : InsertAt(l, IF ToInt(e.key) < Len(l) THEN ToInt(e.key) + 1 ELSE Len(l) + 1, e.val),
                  <<>>, pairs))

RECURSIVE ParseElts(_, _, _, _)

ParseDocument(f, p, isList) == ParseElts(f, p + 4, isList, <<>>)

BsonValue(f, p, t) ==
    CASE t \in {BsonToken.undef, BsonToken.null} -> Got(Null, p)
      [] t = BsonToken.bool -> IF AllThere(f, p, 1) THEN Got(Bool(f[p] = BsonTrue), p + 1) ELSE Anything
      [] t = BsonToken.int32 -> Got(Number("int", Bytes(f, p, 4)), p + 4)
      [] t = BsonToken.int64 -> Got(Number("llong", Bytes(f, p, 8)), p + 8)
      [] t = BsonToken.double -> Got(Number("double", Bytes(f, p, 8)), p + 8)
      [] t = BsonToken.datetime -> Got(Number("datetime", Bytes(f, p, 8)), p + 8)
      [] t \in {BsonToken.string, BsonToken.jscode} -> BsonString(f, p)
      [] t = BsonToken.oid -> BsonBytes(f, p, 12, 0, Data(SubSeq(f, p, p + 11)))
      [] t = BsonToken.data -> BsonData(f, p)
      [] t \in {BsonToken.map, BsonToken.list} -> ParseDocument(f, p, t = BsonToken.list)
      [] OTHER -> Failed

ParseElts(f, p, isList, sofar) ==
    LET t == Byte(f, p)
        r == BsonValue(f, NulFrom(f, p + 1) + 1, t)
    IN  IF t = 0 THEN Got(IF isList THEN InsertedList(sofar) ELSE MapOf(sofar), p + 1)
        ELSE IF t = Undefined \/ NulFrom(f, p + 1) = 0 THEN Anything
        ELSE IF r.st = "value"
             THEN ParseElts(f, r.pos, isList, Append(sofar, [key |-> KeyAt(f, p + 1), val |-> r.v]))
             ELSE r

ParseBSONDocument(f) == ParseDocument(f, 1, FALSE)
=============================================================================
