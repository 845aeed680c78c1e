------------------------------ MODULE Variant ------------------------------
(***************************************************************************)
(* The values (QVariant) that the serializer and the parser of             *)
(* nodebus/core exchange, and the stream of bytes between them.            *)
(*                                                                         *)
(* A number is the little-endian sequence of its bytes, so that its width  *)
(* is part of the value; a QString is the sequence of its code units, all  *)
(* below 2048; a QVariantMap is a function on such sequences.              *)
(***************************************************************************)
EXTENDS Integers, SequencesExt

Null            == [t |-> "null"]
Bool(b)         == [t |-> IF b THEN "true" ELSE "false"]
Number(t, num)  == [t |-> t, num |-> num]
Text(str)       == [t |-> "string", str |-> str]
Data(bytes)     == [t |-> "data", bytes |-> bytes]
List(elts)      == [t |-> "list", elts |-> elts]
Map(members)    == [t |-> "map", members |-> members]
(* A QVariant of a type that no serializer handles (a QUrl, a QRegExp...). *)
Foreign         == [t |-> "foreign"]

(* QMap iterates in the order of its keys. *)
RECURSIVE Precedes(_, _)
Precedes(a, b) ==
    \/ a = <<>> /\ b # <<>>
    \/ /\ a # <<>> /\ b # <<>>
       /\ Head(a) < Head(b) \/ (Head(a) = Head(b) /\ Precedes(Tail(a), Tail(b)))

Keys(members) == SetToSortSeq(DOMAIN members, Precedes)

(* QMap::insert, QMap::operator[]: the last value given to a key stays.    *)
Insert(members, key, val) == [k \in DOMAIN members \cup {key} |-> IF k = key THEN val ELSE members[k]]

MapOf(pairs) == Map(FoldLeft(LAMBDA m, p : Insert(m, p.key, p.val), <<>>, pairs))
ListOf(pairs) == List([i \in DOMAIN pairs |-> pairs[i].val])

-----------------------------------------------------------------------------
(* DataStream: what operator<< appends and what operator>> takes.          *)

(* QString::toLocal8Bit() under a UTF-8 locale.                            *)
IsAscii(s) == \A i \in DOMAIN s : s[i] < 128

Local8Bit(str) ==
    IF IsAscii(str) THEN str
    ELSE FoldLeft(LAMBDA b, c : b \o (IF c < 128 THEN <<c>> ELSE <<192 + (c \div 64), 128 + (c % 64)>>), <<>>, str)

(* QString::fromUtf8: a byte that fits nowhere becomes U+FFFD.             *)
RECURSIVE FromUtf8(_)
FromUtf8(b) ==
    IF IsAscii(b) THEN b
    ELSE IF Head(b) < 128 THEN <<Head(b)>> \o FromUtf8(Tail(b))
    ELSE IF Len(b) > 1 /\ b[1] \in 194 .. 223 /\ b[2] \in 128 .. 191
         THEN <<(b[1] - 192) * 64 + b[2] - 128>> \o FromUtf8(SubSeq(b, 3, Len(b)))
    ELSE <<65533>> \o FromUtf8(Tail(b))

(* QString from a QByteArray: Latin-1, up to the first NUL.                *)
TextOfBytes(b) ==
    LET nul == SelectInSeq(b, LAMBDA c : c = 0)
    IN  Text(IF nul = 0 THEN b ELSE SubSeq(b, 1, nul - 1))

(* An int or a uint is written as its four bytes, on either byte order.    *)
Int32Bytes(n) == [i \in 1 .. 4 |-> (n \div 256 ^ (i - 1)) % 256]

(* operator>> of n bytes: the variable is zeroed first and keeps what the  *)
(* device had no byte for.                                                 *)
Bytes(f, p, n) == [i \in 1 .. n |-> IF p + i - 1 \in DOMAIN f THEN f[p + i - 1] ELSE 0]

(* operator>> of one byte: past the end it yields an uninitialised char,   *)
(* and what follows may be anything.                                       *)
Undefined == 256
Byte(f, p) == IF p \in DOMAIN f THEN f[p] ELSE Undefined
AllThere(f, p, n) == p + n - 1 <= Len(f)

(* The value of a number read as unsigned, for lengths.                    *)
Unsigned(b) == FoldRight(LAMBDA d, acc : d + 256 * acc, b, 0)

(* A number widened to n bytes: with its sign, or with zeros.              *)
Widen(b, n) == b \o [i \in 1 .. n - Len(b) |-> IF b[Len(b)] < 128 THEN 0 ELSE 255]
ZeroExtend(b, n) == b \o [i \in 1 .. n - Len(b) |-> 0]

(* The characters up to the next NUL, each byte taken for one character.   *)
NulFrom(f, p) == SelectInSubSeq(f, p, Len(f), LAMBDA c : c = 0)
KeyAt(f, p) == SubSeq(f, p, NulFrom(f, p) - 1)

-----------------------------------------------------------------------------
(* The outcome of reading: a value and the position after it, the end mark *)
(* of a list or a map, an exception, or whatever undefined behaviour gives.*)
Got(v, pos) == [st |-> "value", v |-> v, pos |-> pos]
End(pos)    == [st |-> "end", pos |-> pos]
Failed      == [st |-> "thrown"]
Anything    == [st |-> "undefined"]

(* The outcome of writing: the bytes, and whether it got to the end.       *)
Put(bytes) == [done |-> TRUE, out |-> bytes]
Refused    == [done |-> FALSE, out |-> <<>>]

(* Writes one after the other: the first exception ends it, and what was   *)
(* written before stays written.                                           *)
InTurn(parts) ==
    FoldLeft(LAMBDA a, b : IF a.done THEN [done |-> b.done, out |-> a.out \o b.out] ELSE a, Put(<<>>), parts)
=============================================================================
