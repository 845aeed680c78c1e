-------------------------------- MODULE Bcon --------------------------------
(***************************************************************************)
(* BCON, the binary format of NodeBus: Serializer::serializeBCON and       *)
(* Parser::parseBCON, byte by byte.                                        *)
(***************************************************************************)
EXTENDS Variant

ByteToken  == 4
Int16Token == 5
Token == [null |-> 1, true |-> 2, false |-> 3, uint16 |-> 6, int |-> 7, uint |-> 8,
          llong |-> 9, ullong |-> 10, double |-> 11, datetime |-> 12, list |-> 14, map |-> 15]
(* BCON_TOKEN_STRING6, 12, 20, 36 and BCON_TOKEN_DATA6, 12, 20, 36.        *)
StringTokens == <<192, 80, 96, 112>>
DataTokens   == <<160, 16, 32, 48>>

NoSign(b) == b % 128 = 0

(* A bound of the narrow class that forgets the sign of the reader. *)
MutantSerializeInt(num) ==
    IF num[1] < 128 /\ num[2] = 0 /\ num[3] = 0 /\ NoSign(num[4]) THEN <<ByteToken, num[1]>>
    ELSE IF num[3] = 0 /\ NoSign(num[4]) THEN <<Int16Token, num[1], num[2]>>
    ELSE <<Token.int>> \o num

SerializeInt(num) ==
    IF num[1] < 128 /\ num[2] = 0 /\ num[3] = 0 /\ NoSign(num[4]) THEN <<ByteToken, num[1]>>
    ELSE IF num[2] < 128 /\ num[3] = 0 /\ NoSign(num[4]) THEN <<Int16Token, num[1], num[2]>>
    ELSE <<Token.int>> \o num

SerializeUInt(num) ==
    IF num[3] = 0 /\ num[4] = 0 THEN <<Token.uint16, num[1], num[2]>> ELSE <<Token.uint>> \o num

(* toAscii() of a QChar beyond Latin-1 is 0. *)
SerializeChar(num) == <<ByteToken, IF num[2] = 0 THEN num[1] ELSE 0>>

(* Each part of a longer length is an int, and is written with four bytes. *)
LengthPart(len, shift) == Int32Bytes((len \div 2 ^ shift) % 256)

SerializeBytes(tokens, b) ==
    LET len == Len(b)
    IN  (IF len < 64 THEN <<IF tokens = DataTokens /\ (len \div 32) % 2 = 1 THEN tokens[1] + len - 32 ELSE tokens[1] + len>>
         ELSE IF len < 4096 THEN <<tokens[2] + (len % 16)>> \o LengthPart(len, 4)
         ELSE IF len < 1048576 THEN <<tokens[3] + (len % 16)>> \o LengthPart(len, 4) \o LengthPart(len, 12)
         ELSE <<tokens[4] + (len % 16)>> \o LengthPart(len, 4) \o LengthPart(len, 12) \o Int32Bytes(len \div 1048576))
        \o b

RECURSIVE SerializeBCON(_)

SerializeList(elts) ==
    InTurn(<<Put(<<Token.list>>)>> \o [i \in DOMAIN elts |-> SerializeBCON(elts[i])] \o <<Put(<<0>>)>>)

SerializeMap(members) ==
    LET keys == Keys(members)
    IN  InTurn(<<Put(<<Token.map>>)>>
               \o [i \in DOMAIN keys |->
                      InTurn(<<SerializeBCON(members[keys[i]]), Put(Local8Bit(keys[i]) \o <<0>>)>>)]
               \o <<Put(<<0>>)>>)

SerializeBCON(v) ==
    CASE v.t \in {"null", "true", "false"} -> Put(<<Token[v.t]>>)
      [] v.t = "char" -> Put(SerializeChar(v.num))
      [] v.t = "int"  -> Put(SerializeInt(v.num))
      [] v.t = "uint" -> Put(SerializeUInt(v.num))
      [] v.t \in {"llong", "ullong", "double", "datetime"} -> Put(<<Token[v.t]>> \o v.num)
      [] v.t = "list" -> SerializeList(v.elts)
      [] v.t = "map"  -> SerializeMap(v.members)
      [] v.t = "string" -> Put(SerializeBytes(StringTokens, Local8Bit(v.str)))
      [] v.t = "data" -> Put(SerializeBytes(DataTokens, v.bytes))
      [] OTHER -> Refused

-----------------------------------------------------------------------------
(* The reader: c is the token, p the position after it.                    *)

(* Both arms of the ?: are QStrings: data becomes a text as well.          *)
Payload(f, p, len, isText) ==
    LET b == SubSeq(f, p, p + len - 1)
    IN  IF AllThere(f, p, len) THEN Got(IF isText THEN Text(FromUtf8(b)) ELSE TextOfBytes(b), p + len) ELSE Anything

IsText(c) == (c \div 64) % 2 = 1

ParseShort(f, p, c) == Payload(f, p, c % 64, IsText(c))

(* 12, 20 and 36 are followed by one, two and three more bytes of length.  *)
ParseLong(f, p, c) ==
    LET n == (c \div 16) % 4
    IN  CASE n = 0 -> Failed
          [] n > 0 /\ ~AllThere(f, p, n) -> Anything
          [] OTHER -> Payload(f, p + n, (c % 16) + 16 * Unsigned(Bytes(f, p, n)), IsText(c))

(* Numbers narrower than an int become QVariant's int.                     *)
ParseNumber(f, p, c) ==
    CASE c = ByteToken -> IF AllThere(f, p, 1) THEN Got(Number("int", ZeroExtend(Bytes(f, p, 1), 4)), p + 1) ELSE Anything
      [] c = Int16Token -> Got(Number("int", Widen(Bytes(f, p, 2), 4)), p + 2)
      [] c = Token.uint16 -> Got(Number("int", ZeroExtend(Bytes(f, p, 2), 4)), p + 2)
      [] c \in {Token.int, Token.uint} ->
             Got(Number(IF c = Token.int THEN "int" ELSE "uint", Bytes(f, p, 4)), p + 4)
      [] OTHER ->
             Got(Number(CHOOSE t \in {"llong", "ullong", "double", "datetime"} : Token[t] = c, Bytes(f, p, 8)), p + 8)

RECURSIVE ParseBCON(_, _, _), ParseBconElements(_, _, _, _)

(* The values up to the end mark, each followed by its key in a map.       *)
ParseBconElements(f, p, keyed, sofar) ==
    LET r == ParseBCON(f, p, keyed)
    IN  CASE r.st = "end" -> Got(IF keyed THEN MapOf(sofar) ELSE ListOf(sofar), r.pos)
          [] r.st = "value" -> ParseBconElements(f, r.pos, keyed, Append(sofar, [key |-> r.key, val |-> r.v]))
          [] OTHER -> r

ParseValue(f, p, c) ==
    CASE c = Undefined -> Anything
      [] c \in 128 .. 255 -> ParseShort(f, p, c)
      [] c \in 16 .. 127 -> ParseLong(f, p, c)
      [] c = 0 -> End(p)
      [] c = Token.null -> Got(Null, p)
      [] c \in {Token.true, Token.false} -> Got(Bool(c = Token.true), p)
      [] c = Token.list -> ParseBconElements(f, p, FALSE, <<>>)
      [] c = Token.map -> ParseBconElements(f, p, TRUE, <<>>)
      [] c \in 4 .. 12 -> ParseNumber(f, p, c)
      [] OTHER -> Failed

ParseBCON(f, p, keyed) ==
    LET r == ParseValue(f, p + 1, Byte(f, p))
    IN  IF r.st # "value" THEN r
        ELSE IF ~keyed THEN [key |-> <<>>] @@ r
        ELSE IF NulFrom(f, r.pos) = 0 THEN Anything
        ELSE [key |-> KeyAt(f, r.pos)] @@ Got(r.v, NulFrom(f, r.pos) + 1)
=============================================================================
