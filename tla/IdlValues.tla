----------------------------- MODULE IdlValues -----------------------------
(***************************************************************************)
(* The values of IDL constants: QVariants of the types the driver asks for *)
(* (core/idlparser/driver.cpp), with the conversions of Qt and the         *)
(* arithmetic of the machine.                                              *)
(*                                                                         *)
(* An integer is as wide as Span says.  What Qt and the floating-point     *)
(* unit make of doubles and of texts is given by the constants.            *)
(***************************************************************************)
EXTENDS Integers

CONSTANTS
    Span,         \* kind of integer -> the number of its values: 2^16, 2^32 or 2^64
    Doubles,      \* the doubles, infinities and NaN among them
    FloatOp,      \* <<operator, double, double>> -> double
    Rounded,      \* qRound64: double -> long long
    AsDouble,     \* integer -> double
    Spellings,    \* the texts
    Dates,        \* those that QDateTime::fromString takes for a date
    FalseTexts,   \* those that toBool() takes for false: "", "0", "false"
    Concat,       \* <<text, text>> -> text
    Spelled,      \* toString(): value -> text
    ReadsInt,     \* text -> the integer it spells, in a set that is empty if it spells none
    ReadsDouble   \* the same for doubles

Signed == {"int", "llong"}
Unsigned64 == {"uint", "ullong"}
IntegerKinds == Signed \cup Unsigned64 \cup {"char"}
ValueKinds == IntegerKinds \cup {"null", "unread", "bool", "double", "string", "datetime"}

InRange(k) ==
    IF k \in Signed THEN -(Span[k] \div 2) .. Span[k] - (Span[k] \div 2) - 1 ELSE 0 .. Span[k] - 1

(* What a value of a kind holds.  "unread" is the null int that is left of *)
(* a literal no long long can hold; the text stands for a date.            *)
NumsOf(k) ==
    CASE k \in IntegerKinds -> InRange(k)
      [] k = "bool" -> {0, 1}
      [] k = "double" -> Doubles
      [] k = "string" -> Spellings
      [] k = "datetime" -> Dates
      [] OTHER -> {0}

Val(k, n) == [kind |-> k, num |-> n]
ValueT == UNION {[kind : {k}, num : NumsOf(k)] : k \in ValueKinds}

None   == Val("null", 0)
Unread == Val("unread", 0)

FloatOps == {"+", "-", "*", "/"}
Widest == -Span["ullong"] .. Span["ullong"]

ASSUME ValuesAssumption ==
    /\ Span \in [IntegerKinds -> Nat \ {0}]
    /\ \A k \in IntegerKinds : Span[k] <= Span["ullong"]
    /\ FloatOp \in [FloatOps \X Doubles \X Doubles -> Doubles]
    /\ Rounded \in [Doubles -> InRange("llong")]
    /\ AsDouble \in [Widest -> Doubles]
    /\ Dates \subseteq Spellings
    /\ Concat \in [Spellings \X Spellings -> Spellings]
    /\ Spelled \in [{v \in ValueT : v.kind # "string"} -> Spellings]
    /\ ReadsInt \in [Spellings -> SUBSET Int]
    /\ ReadsDouble \in [Spellings -> SUBSET Doubles]

-----------------------------------------------------------------------------
(* An integer cut to the width of its kind: what overflow leaves.          *)
Wrapped(n, k) ==
    IF k \in Signed THEN ((n + (Span[k] \div 2)) % Span[k]) - (Span[k] \div 2) ELSE n % Span[k]

(* The literal of an IDL file: an int if its upper half is zero.           *)
Scanned(n) ==
    IF n \notin InRange("llong") THEN Unread
    ELSE IF n \in 0 .. Span["uint"] - 1 THEN Val("int", Wrapped(n, "int"))
    ELSE Val("llong", n)

(* toLongLong() and toDouble() of what is no text and no date: there is no *)
(* conversion from a character to a double, and 0 comes of it.             *)
AsLong(v) == IF v.kind = "double" THEN Rounded[v.num] ELSE Wrapped(v.num, "llong")
ToDouble(v) == IF v.kind = "double" THEN v.num ELSE AsDouble[IF v.kind = "char" THEN 0 ELSE v.num]
TextOf(v) == IF v.kind = "string" THEN v.num ELSE Spelled[v]

(* The integers an integer kind takes from a value: texts go through       *)
(* toLongLong or toULongLong, the rest through 64 bits.                    *)
IntegersIn(v, k) ==
    CASE v.kind = "string" -> ReadsInt[v.num] \cap InRange(IF k \in Signed THEN "llong" ELSE "ullong")
      [] v.kind = "datetime" -> {}
      [] OTHER -> {AsLong(v)}

(* QVariant::convert(): the value of the new kind, in a set that is empty  *)
(* if there is no conversion.  Nothing comes of what is null.              *)
Converted(v, k) ==
    IF v.kind = k \/ (v.kind = "unread" /\ k = "int") THEN {v}
    ELSE IF v.kind \in {"null", "unread"} THEN {}
    ELSE CASE k \in {"int", "uint", "llong", "ullong"} -> {Val(k, Wrapped(n, k)) : n \in IntegersIn(v, k)}
           [] k = "char" -> IF v.kind \in IntegerKinds THEN {Val(k, Wrapped(v.num, k))} ELSE {}
           [] k = "double" ->
                  IF v.kind = "string" THEN {Val(k, d) : d \in ReadsDouble[v.num]}
                  ELSE IF v.kind \in {"char", "datetime"} THEN {} ELSE {Val(k, ToDouble(v))}
           [] k = "bool" ->
                  IF v.kind = "string" THEN {Val(k, IF v.num \in FalseTexts THEN 0 ELSE 1)}
                  ELSE IF v.kind = "datetime" THEN {} ELSE {Val(k, IF AsLong(v) = 0 THEN 0 ELSE 1)}
           [] k = "string" -> {Val(k, Spelled[v])}
           [] k = "datetime" -> {Val(k, d) : d \in {v.num} \cap (IF v.kind = "string" THEN Dates ELSE {})}
           [] OTHER -> {}

-----------------------------------------------------------------------------
(* C++ division and remainder of long longs, towards zero. *)
Quotient(a, b) == IF (a < 0) = (b < 0) THEN (IF a < 0 THEN -a ELSE a) \div (IF b < 0 THEN -b ELSE b)
                  ELSE -((IF a < 0 THEN -a ELSE a) \div (IF b < 0 THEN -b ELSE b))

Compute(op, a, b) ==
    CASE op = "+" -> a + b [] op = "-" -> a - b [] op = "*" -> a * b
      [] op = "/" -> Quotient(a, b) [] OTHER -> a - b * Quotient(a, b)

(* The processor traps a division by zero, and one whose quotient is the   *)
(* long long after the largest: SIGFPE.                                    *)
Lowest == -(Span["llong"] \div 2)
DivisionTraps(x, y) == y = 0 \/ (x = Lowest /\ y = -1)
=============================================================================
