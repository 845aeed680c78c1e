----------------------------- MODULE IdlcProofs -----------------------------
(***************************************************************************)
(* Proofs about the IDL compiler, for any files and command lines.         *)
(***************************************************************************)
EXTENDS CommandsProofs, FiniteSetTheorems, SequenceTheorems, TLAPS

-----------------------------------------------------------------------------
(* Operators. *)

(* What a function takes on a finite set is finite.                        *)
LEMMA ImageFinite ==
    ASSUME NEW f, IsFiniteSet(DOMAIN f)
    PROVE  /\ IsFiniteSet({f[x] : x \in DOMAIN f})
           /\ Cardinality({f[x] : x \in DOMAIN f}) <= Cardinality(DOMAIN f)
<1> DEFINE D == DOMAIN f
           T == {f[x] : x \in DOMAIN f}
           g == [x \in D |-> f[x]]
<1>1. g \in Surjection(D, T)
    BY DEF Surjection
<1> HIDE DEF D, T, g
<1>2. IsFiniteSet(T) /\ Cardinality(T) <= Cardinality(D)
    BY <1>1, FS_Surjection DEF D
<1>. QED BY <1>2 DEF D, T

(* The number of conflicts, and that there is none exactly if all members  *)
(* differ (NodeIntf::map, IDLc::processIntf).                              *)
LEMMA ConflictsCount ==
    ASSUME NEW own, NEW theirs, IsFiniteSet(DOMAIN theirs),
           \A a \in DOMAIN theirs : IsFiniteSet(theirs[a])
    PROVE  /\ Conflicts(own, theirs) \in Nat
           /\ Conflicts(own, theirs) = 0 <=>
                 /\ \A a \in DOMAIN theirs : own \cap theirs[a] = {}
                 /\ \A a, b \in DOMAIN theirs : a # b => theirs[a] \cap theirs[b] = {}
<1> DEFINE Pairs(a) == {<<a, k>> : k \in theirs[a]}
           listed == UNION {Pairs(a) : a \in DOMAIN theirs}
           names == {l[2] : l \in listed}
           second == [l \in listed |-> l[2]]
<1>1. \A a \in DOMAIN theirs : IsFiniteSet(Pairs(a))
  <2> TAKE a \in DOMAIN theirs
  <2> DEFINE f == [k \in theirs[a] |-> <<a, k>>]
  <2>1. IsFiniteSet({f[k] : k \in DOMAIN f})
    <3>1. IsFiniteSet(DOMAIN f)
        OBVIOUS
    <3> HIDE DEF f
    <3>. QED BY <3>1, ImageFinite
  <2>2. {f[k] : k \in DOMAIN f} = Pairs(a)
      OBVIOUS
  <2>. QED BY <2>1, <2>2
<1>2. IsFiniteSet({Pairs(a) : a \in DOMAIN theirs})
  <2> DEFINE f == [a \in DOMAIN theirs |-> Pairs(a)]
  <2>1. IsFiniteSet({f[a] : a \in DOMAIN f})
    <3>1. IsFiniteSet(DOMAIN f)
        OBVIOUS
    <3> HIDE DEF f
    <3>. QED BY <3>1, ImageFinite
  <2>2. {f[a] : a \in DOMAIN f} = {Pairs(a) : a \in DOMAIN theirs}
      OBVIOUS
  <2>. QED BY <2>1, <2>2
<1>3. IsFiniteSet(listed)
    BY <1>1, <1>2, FS_UNION
<1>4. second \in Surjection(listed, names)
    BY DEF Surjection
<1>5. /\ IsFiniteSet(names) /\ Cardinality(names) <= Cardinality(listed)
      /\ Cardinality(names) = Cardinality(listed) <=> second \in Injection(listed, names)
  <2> HIDE DEF listed, names, second
  <2>. QED BY <1>3, <1>4, FS_Surjection
<1>6. /\ IsFiniteSet(names \ own) /\ Cardinality(names \ own) <= Cardinality(names)
      /\ Cardinality(names) = Cardinality(names \ own) => names = names \ own
  <2> HIDE DEF names
  <2>. QED BY <1>5, FS_Subset
<1>7. /\ Cardinality(listed) \in Nat /\ Cardinality(names) \in Nat /\ Cardinality(names \ own) \in Nat
  <2> HIDE DEF names, listed
  <2>. QED BY <1>3, <1>5, <1>6, FS_CardinalityType
<1>8. Conflicts(own, theirs) = Cardinality(listed) - Cardinality(names \ own)
    BY DEF Conflicts
<1>9. second \in Injection(listed, names) <=> \A a, b \in DOMAIN theirs : a # b => theirs[a] \cap theirs[b] = {}
  <2>1. second \in [listed -> names]
      BY DEF second
  <2>2. second \in Injection(listed, names) <=> \A l, m \in listed : l[2] = m[2] => l = m
      BY <2>1 DEF Injection, IsInjective, second
  <2>3. \A l \in listed : l[1] \in DOMAIN theirs /\ l[2] \in theirs[l[1]] /\ l = <<l[1], l[2]>>
      OBVIOUS
  <2>4. \A a \in DOMAIN theirs : \A k \in theirs[a] : <<a, k>> \in listed
      OBVIOUS
  <2> HIDE DEF listed
  <2>5. ASSUME \A l, m \in listed : l[2] = m[2] => l = m, NEW a \in DOMAIN theirs, NEW b \in DOMAIN theirs, a # b,
               NEW k \in theirs[a] \cap theirs[b]
        PROVE  FALSE
    <3>1. <<a, k>> \in listed /\ <<b, k>> \in listed
        BY <2>4
    <3>2. <<a, k>>[2] = <<b, k>>[2] /\ <<a, k>> # <<b, k>>
        BY <2>5
    <3>. QED BY <2>5, <3>1, <3>2
  <2>6. ASSUME \A a, b \in DOMAIN theirs : a # b => theirs[a] \cap theirs[b] = {},
               NEW l \in listed, NEW m \in listed, l[2] = m[2]
        PROVE  l = m
    <3>1. l[2] \in theirs[l[1]] \cap theirs[m[1]] /\ l[1] \in DOMAIN theirs /\ m[1] \in DOMAIN theirs
        BY <2>3, <2>6
    <3>2. l[1] = m[1]
        BY <2>6, <3>1
    <3>. QED BY <2>3, <2>6, <3>2
  <2>. QED BY <2>2, <2>5, <2>6
<1>10. names = names \ own <=> \A a \in DOMAIN theirs : own \cap theirs[a] = {}
  <2>1. \A a \in DOMAIN theirs : \A k \in theirs[a] : k \in names
    <3>1. \A a \in DOMAIN theirs : \A k \in theirs[a] : <<a, k>> \in listed /\ <<a, k>>[2] = k
        OBVIOUS
    <3>2. \A l \in listed : l[2] \in names
        OBVIOUS
    <3> HIDE DEF listed, names
    <3>. QED BY <3>1, <3>2
  <2>2. \A k \in names : \E a \in DOMAIN theirs : k \in theirs[a]
    <3>1. \A k \in names : \E l \in listed : k = l[2]
        OBVIOUS
    <3>2. \A l \in listed : \E a \in DOMAIN theirs : l[2] \in theirs[a]
        OBVIOUS
    <3> HIDE DEF listed, names
    <3>. QED BY <3>1, <3>2
  <2> HIDE DEF names
  <2>. QED BY <2>1, <2>2
<1>. QED
  <2> HIDE DEF listed, names, second
  <2>. QED BY <1>5, <1>6, <1>7, <1>8, <1>9, <1>10

-----------------------------------------------------------------------------
(* Values.  A value holds what its kind may hold, and the arithmetic and   *)
(* the conversions stay in the kinds.                                      *)
LEMMA ValueIs ==
    ASSUME NEW k \in ValueKinds, NEW n \in NumsOf(k)
    PROVE  Val(k, n) \in ValueT
<1>1. Val(k, n) \in [kind : {k}, num : NumsOf(k)]
    BY DEF Val
<1>. QED BY <1>1 DEF ValueT

LEMMA ValueHas ==
    ASSUME NEW v \in ValueT
    PROVE  v.kind \in ValueKinds /\ v.num \in NumsOf(v.kind) /\ v = Val(v.kind, v.num)
<1>1. PICK k \in ValueKinds : v \in [kind : {k}, num : NumsOf(k)]
    BY DEF ValueT
<1>2. v.kind = k /\ v.num \in NumsOf(k) /\ v = [kind |-> v.kind, num |-> v.num]
    BY <1>1
<1>. QED BY <1>2 DEF Val

LEMMA KindsHold ==
    /\ \A k \in IntegerKinds : NumsOf(k) = InRange(k)
    /\ NumsOf("bool") = {0, 1} /\ NumsOf("double") = Doubles
    /\ NumsOf("string") = Spellings /\ NumsOf("datetime") = Dates
    /\ NumsOf("null") = {0} /\ NumsOf("unread") = {0}
<1>1. {"bool", "double", "string", "datetime", "null", "unread"} \cap IntegerKinds = {}
    BY DEF IntegerKinds, Signed, Unsigned64
<1>. QED BY <1>1 DEF NumsOf

LEMMA SpanIs ==
    ASSUME NEW k \in IntegerKinds
    PROVE  /\ Span[k] \in Nat \ {0} /\ Span[k] <= Span["ullong"] /\ Span["ullong"] \in Nat \ {0}
           /\ Span[k] \div 2 \in Nat /\ 2 * (Span[k] \div 2) <= Span[k]
           /\ InRange(k) \subseteq Widest /\ 0 \in InRange(k)
<1>1. Span[k] \in Nat \ {0} /\ Span[k] <= Span["ullong"] /\ Span["ullong"] \in Nat \ {0}
  <2>1. "ullong" \in IntegerKinds
      BY DEF IntegerKinds, Unsigned64
  <2>. QED BY <2>1, ValuesAssumption
<1>2. Span[k] \div 2 \in Nat /\ 2 * (Span[k] \div 2) <= Span[k]
    BY <1>1
<1>3. Span[k] - (Span[k] \div 2) >= 1
    BY <1>1, <1>2
<1> DEFINE s == Span[k]
           h == Span[k] \div 2
           u == Span["ullong"]
<1>4. InRange(k) = IF k \in Signed THEN -h .. s - h - 1 ELSE 0 .. s - 1
    BY DEF InRange
<1>5. s \in Nat \ {0} /\ h \in Nat /\ 2 * h <= s /\ s <= u /\ u \in Nat /\ s - h >= 1
    BY <1>1, <1>2, <1>3
<1> HIDE DEF s, h, u
<1>6. -h .. s - h - 1 \subseteq -u .. u /\ 0 .. s - 1 \subseteq -u .. u /\ 0 \in -h .. s - h - 1 /\ 0 \in 0 .. s - 1
    BY <1>5
<1>7. InRange(k) \subseteq Widest /\ 0 \in InRange(k)
    BY <1>4, <1>6 DEF Widest, u
<1>. QED BY <1>1, <1>2, <1>7

LEMMA WrappedTyped ==
    ASSUME NEW k \in IntegerKinds, NEW n \in Int
    PROVE  Wrapped(n, k) \in InRange(k)
<1> DEFINE s == Span[k]
           h == Span[k] \div 2
           a == (n + h) % s
           b == n % s
<1>1. s \in Nat \ {0} /\ h \in Nat
    BY SpanIs
<1>2. Wrapped(n, k) = (IF k \in Signed THEN a - h ELSE b) /\ InRange(k) = (IF k \in Signed THEN -h .. s - h - 1 ELSE 0 .. s - 1)
    BY DEF Wrapped, InRange
<1> HIDE DEF s, h
<1>3. a \in 0 .. s - 1 /\ b \in 0 .. s - 1
    BY <1>1
<1> HIDE DEF a, b
<1>4. a - h \in -h .. s - h - 1
    BY <1>1, <1>3
<1>. QED BY <1>2, <1>3, <1>4

(* What is neither a text nor a date is a number. *)
LEMMA NumberTyped ==
    ASSUME NEW v \in ValueT, v.kind \notin {"string", "datetime"}
    PROVE  /\ AsLong(v) \in InRange("llong") /\ AsLong(v) \in Int /\ ToDouble(v) \in Doubles
           /\ v.kind # "double" => v.num \in Widest
<1>1. v.kind \in ValueKinds /\ v.num \in NumsOf(v.kind)
    BY ValueHas
<1>2. "llong" \in IntegerKinds /\ Span["ullong"] \in Nat \ {0} /\ InRange("llong") \subseteq Widest
  <2>1. "llong" \in IntegerKinds
      BY DEF IntegerKinds, Signed
  <2>. QED BY <2>1, SpanIs
<1>3. 0 \in Widest /\ {0, 1} \subseteq Widest /\ Widest \subseteq Int
    BY <1>2 DEF Widest
<1>4. v.kind # "double" => v.num \in Widest
  <2>1. CASE v.kind \in IntegerKinds
      BY <1>1, <2>1, KindsHold, SpanIs
  <2>2. CASE v.kind \in {"bool", "null", "unread"}
      BY <1>1, <1>3, <2>2, KindsHold
  <2>. QED BY <1>1, <2>1, <2>2 DEF ValueKinds
<1>5. v.kind = "double" => v.num \in Doubles
    BY <1>1, KindsHold
<1>6. AsLong(v) \in InRange("llong")
  <2>1. CASE v.kind = "double"
      BY <1>5, <2>1, ValuesAssumption DEF AsLong
  <2>2. CASE v.kind # "double"
      BY <1>2, <1>3, <1>4, <2>2, WrappedTyped DEF AsLong
  <2>. QED BY <2>1, <2>2
<1>7. ToDouble(v) \in Doubles
  <2>1. CASE v.kind = "double"
      BY <1>5, <2>1 DEF ToDouble
  <2>2. CASE v.kind # "double"
    <3>1. (IF v.kind = "char" THEN 0 ELSE v.num) \in Widest
        BY <1>3, <1>4, <2>2
    <3>2. ToDouble(v) = AsDouble[IF v.kind = "char" THEN 0 ELSE v.num]
        BY <2>2 DEF ToDouble
    <3>. QED BY <3>1, <3>2, ValuesAssumption
  <2>. QED BY <2>1, <2>2
<1>8. AsLong(v) \in Int
    BY <1>2, <1>3, <1>6
<1>. QED BY <1>4, <1>6, <1>7, <1>8

LEMMA ScannedTyped ==
    ASSUME NEW n \in Int
    PROVE  Scanned(n) \in ValueT
<1>1. {"int", "llong"} \subseteq IntegerKinds /\ IntegerKinds \subseteq ValueKinds /\ "unread" \in ValueKinds
    BY DEF IntegerKinds, Signed, ValueKinds
<1>2. Wrapped(n, "int") \in NumsOf("int")
    BY <1>1, WrappedTyped, KindsHold
<1>3. n \in InRange("llong") => n \in NumsOf("llong")
    BY <1>1, KindsHold
<1>4. 0 \in NumsOf("unread")
    BY KindsHold
<1>. QED BY <1>1, <1>2, <1>3, <1>4, ValueIs DEF Scanned, Unread

LEMMA TextTyped ==
    ASSUME NEW v \in ValueT
    PROVE  /\ TextOf(v) \in Spellings
           /\ v.kind # "string" => Spelled[v] \in Spellings
<1>1. v.kind = "string" => v.num \in Spellings
    BY ValueHas, KindsHold
<1>2. v.kind # "string" => Spelled[v] \in Spellings
    BY ValuesAssumption
<1>. QED BY <1>1, <1>2 DEF TextOf

LEMMA ConvertedTyped ==
    ASSUME NEW v \in ValueT, NEW k \in ValueKinds
    PROVE  Converted(v, k) \subseteq ValueT
<1> DEFINE number == v.kind \notin {"string", "datetime"}
<1>1. v.kind \in ValueKinds /\ v.num \in NumsOf(v.kind)
    BY ValueHas
<1>2. v.kind = "string" => v.num \in Spellings /\ ReadsInt[v.num] \subseteq Int /\ ReadsDouble[v.num] \subseteq Doubles
    BY <1>1, KindsHold, ValuesAssumption
<1>3. CASE v.kind = k \/ (v.kind = "unread" /\ k = "int")
    BY <1>3 DEF Converted
<1>4. CASE ~ (v.kind = k \/ (v.kind = "unread" /\ k = "int")) /\ v.kind \in {"null", "unread"}
    BY <1>4 DEF Converted
<1> DEFINE other == ~ (v.kind = k \/ (v.kind = "unread" /\ k = "int")) /\ v.kind \notin {"null", "unread"}
<1>5. ASSUME other, k \in {"int", "uint", "llong", "ullong"} PROVE Converted(v, k) \subseteq ValueT
  <2>1. k \in IntegerKinds
      BY <1>5 DEF IntegerKinds, Signed, Unsigned64
  <2>2. IntegersIn(v, k) \subseteq Int
    <3>1. CASE v.kind = "string"
        BY <1>2, <3>1 DEF IntegersIn
    <3>2. CASE v.kind = "datetime"
        BY <3>2 DEF IntegersIn
    <3>3. CASE number
        BY <3>3, NumberTyped DEF IntegersIn
    <3>. QED BY <3>1, <3>2, <3>3
  <2>3. Converted(v, k) = {Val(k, Wrapped(n, k)) : n \in IntegersIn(v, k)}
      BY <1>5 DEF Converted
  <2>4. \A n \in Int : Val(k, Wrapped(n, k)) \in ValueT
      BY <2>1, WrappedTyped, KindsHold, ValueIs
  <2>. QED BY <2>2, <2>3, <2>4
<1>6. ASSUME other, k = "char" PROVE Converted(v, k) \subseteq ValueT
  <2>1. Converted(v, k) = IF v.kind \in IntegerKinds THEN {Val(k, Wrapped(v.num, k))} ELSE {}
      BY <1>6 DEF Converted
  <2>2. CASE v.kind \in IntegerKinds
    <3>1. v.num \in Int
        BY <1>1, <2>2, KindsHold, SpanIs DEF Widest
    <3>2. k \in IntegerKinds
        BY <1>6 DEF IntegerKinds
    <3>3. Val(k, Wrapped(v.num, k)) \in ValueT
        BY <3>1, <3>2, WrappedTyped, KindsHold, ValueIs
    <3>. QED BY <2>1, <3>3
  <2>. QED BY <2>1, <2>2
<1>7. ASSUME other, k = "double" PROVE Converted(v, k) \subseteq ValueT
  <2>1. Converted(v, k) = IF v.kind = "string" THEN {Val(k, d) : d \in ReadsDouble[v.num]}
                          ELSE IF v.kind \in {"char", "datetime"} THEN {} ELSE {Val(k, ToDouble(v))}
      BY <1>7 DEF Converted
  <2>2. \A d \in Doubles : Val(k, d) \in ValueT
      BY <1>7, KindsHold, ValueIs
  <2>3. number => ToDouble(v) \in Doubles
      BY NumberTyped
  <2>. QED BY <1>2, <2>1, <2>2, <2>3
<1>8. ASSUME other, k = "bool" PROVE Converted(v, k) \subseteq ValueT
  <2>1. \A n \in {0, 1} : Val(k, n) \in ValueT
      BY <1>8, KindsHold, ValueIs
  <2>2. \/ Converted(v, k) = {Val(k, 0)} \/ Converted(v, k) = {Val(k, 1)} \/ Converted(v, k) = {}
      BY <1>8 DEF Converted
  <2>. QED BY <2>1, <2>2
<1>9. ASSUME other, k = "string" PROVE Converted(v, k) \subseteq ValueT
  <2>1. Converted(v, k) = {Val(k, Spelled[v])} /\ v.kind # "string"
      BY <1>9 DEF Converted
  <2>2. Val(k, Spelled[v]) \in ValueT
      BY <1>9, <2>1, TextTyped, KindsHold, ValueIs
  <2>. QED BY <2>1, <2>2
<1>10. ASSUME other, k = "datetime" PROVE Converted(v, k) \subseteq ValueT
  <2>1. Converted(v, k) \subseteq {Val(k, d) : d \in Dates}
      BY <1>10 DEF Converted
  <2>2. \A d \in Dates : Val(k, d) \in ValueT
      BY <1>10, KindsHold, ValueIs
  <2>. QED BY <2>1, <2>2
<1>11. ASSUME other, k \notin {"int", "uint", "llong", "ullong", "char", "double", "bool", "string", "datetime"}
       PROVE  Converted(v, k) \subseteq ValueT
    BY <1>11 DEF Converted
<1>. QED BY <1>3, <1>4, <1>5, <1>6, <1>7, <1>8, <1>9, <1>10, <1>11

LEMMA QuotientTyped ==
    ASSUME NEW a \in Int, NEW b \in Int, b # 0
    PROVE  Quotient(a, b) \in Int
<1> DEFINE c == IF b < 0 THEN -b ELSE b
           d == IF a < 0 THEN -a ELSE a
<1>1. c \in Int /\ c > 0 /\ d \in Int
    OBVIOUS
<1>2. Quotient(a, b) = IF (a < 0) = (b < 0) THEN d \div c ELSE -(d \div c)
    BY DEF Quotient
<1> HIDE DEF c, d
<1>3. d \div c \in Int
    BY <1>1
<1>. QED BY <1>2, <1>3

LEMMA ComputeTyped ==
    ASSUME NEW op \in {"+", "-", "*", "/", "%"}, NEW a \in Int, NEW b \in Int, op \in {"/", "%"} => b # 0
    PROVE  Compute(op, a, b) \in Int
<1>1. CASE op = "+"
    BY <1>1 DEF Compute
<1>2. CASE op = "-"
    BY <1>2 DEF Compute
<1>3. CASE op = "*"
    BY <1>3 DEF Compute
<1>4. CASE op = "/"
    BY <1>4, QuotientTyped DEF Compute
<1>5. CASE op = "%"
  <2> DEFINE q == Quotient(a, b)
  <2>1. q \in Int
      BY <1>5, QuotientTyped
  <2>2. Compute(op, a, b) = a - b * q
      BY <1>5 DEF Compute
  <2> HIDE DEF q
  <2>. QED BY <2>1, <2>2
<1>. QED BY <1>1, <1>2, <1>3, <1>4, <1>5

(* An operation on numbers that is not trapped. *)
LEMMA NumberOpTyped ==
    ASSUME NEW op \in {"+", "-", "*", "/", "%"}, NEW a \in ValueT, NEW b \in ValueT,
           {a.kind, b.kind} \cap {"string", "datetime"} = {}, ~ Traps(op, a, b)
    PROVE  NumberOp(op, a, b) \in ValueT
<1>1. /\ AsLong(a) \in Int /\ AsLong(b) \in Int /\ ToDouble(a) \in Doubles /\ ToDouble(b) \in Doubles
    BY NumberTyped
<1>2. CASE "double" \in {a.kind, b.kind} /\ op # "%"
  <2>1. NumberOp(op, a, b) = Val("double", FloatOp[<<op, ToDouble(a), ToDouble(b)>>])
      BY <1>2 DEF NumberOp
  <2>2. <<op, ToDouble(a), ToDouble(b)>> \in FloatOps \X Doubles \X Doubles
      BY <1>1, <1>2 DEF FloatOps
  <2>3. FloatOp[<<op, ToDouble(a), ToDouble(b)>>] \in Doubles
      BY <2>2, ValuesAssumption
  <2>4. "double" \in ValueKinds
      BY DEF ValueKinds
  <2>. QED BY <2>1, <2>3, <2>4, KindsHold, ValueIs
<1>3. CASE ~ ("double" \in {a.kind, b.kind} /\ op # "%")
  <2>1. NumberOp(op, a, b) = Val("llong", Wrapped(Compute(op, AsLong(a), AsLong(b)), "llong"))
      BY <1>3 DEF NumberOp
  <2>2. op \in {"/", "%"} => AsLong(b) # 0
      BY <1>3 DEF Traps, DivisionTraps
  <2>3. Compute(op, AsLong(a), AsLong(b)) \in Int
      BY <1>1, <2>2, ComputeTyped
  <2>4. "llong" \in IntegerKinds /\ "llong" \in ValueKinds
      BY DEF IntegerKinds, Signed, ValueKinds
  <2>. QED BY <2>1, <2>3, <2>4, WrappedTyped, KindsHold, ValueIs
<1>. QED BY <1>2, <1>3

-----------------------------------------------------------------------------
(* The machine of the parser. *)

NodeT    == [type : {"none", "I", "A", "M", "C"}, parents : Seq(Name), ancestors : SUBSET Name, members : Seq(STRING),
             value : ValueT]
ContextT == [kind : {"root", "module", "interface"}, prefix : Name, node : NodeT]
FrameT   == [file : DOMAIN Files, pos : Nat \ {0}, ctx : Seq(ContextT), elts : Seq(Element), operands : Seq(ValueT)]
TableT   == UNION {[S -> NodeT] : S \in SUBSET Name}
MachineT == [stack : Seq(FrameT), opened : Seq(DOMAIN Files), symTbl : TableT, errors : Nat, crashed : BOOLEAN]

(* A frame has the root of its file under all its contexts.                *)
Rooted(f) == f \in FrameT /\ f.ctx # <<>> /\ f.ctx[1].kind = "root"
Machine(m) == m \in MachineT /\ \A s \in DOMAIN m.stack : Rooted(m.stack[s])
Busy(m) == Machine(m) /\ m.stack # <<>>

SetTop(m, f) == [m EXCEPT !.stack[Len(m.stack)] = f]

LEMMA FrontIs ==
    ASSUME NEW S, NEW s \in Seq(S), s # <<>>
    PROVE  /\ Front(s) \in Seq(S) /\ Len(Front(s)) = Len(s) - 1 /\ DOMAIN Front(s) = 1 .. Len(s) - 1
           /\ \A i \in 1 .. Len(s) - 1 : Front(s)[i] = s[i] /\ i \in DOMAIN s
           /\ Len(s) \in Nat \ {0} /\ DOMAIN s = 1 .. Len(s)
<1>1. Len(s) \in Nat \ {0} /\ DOMAIN s = 1 .. Len(s)
    OBVIOUS
<1>2. Front(s) = SubSeq(s, 1, Len(s) - 1)
    BY DEF Front
<1>. QED BY <1>1, <1>2

LEMMA TopSet ==
    ASSUME NEW m, Busy(m), NEW f, Rooted(f)
    PROVE  /\ Busy(SetTop(m, f)) /\ Top(SetTop(m, f)) = f
           /\ Len(SetTop(m, f).stack) = Len(m.stack) /\ DOMAIN SetTop(m, f).stack = DOMAIN m.stack
           /\ \A s \in DOMAIN m.stack : SetTop(m, f).stack[s] = IF s = Len(m.stack) THEN f ELSE m.stack[s]
           /\ SetTop(m, f).opened = m.opened /\ SetTop(m, f).symTbl = m.symTbl
           /\ SetTop(m, f).errors = m.errors /\ SetTop(m, f).crashed = m.crashed
<1>1. /\ m \in MachineT /\ m.stack \in Seq(FrameT) /\ Len(m.stack) \in Nat \ {0} /\ DOMAIN m.stack = 1 .. Len(m.stack)
      /\ f \in FrameT
    BY DEF Busy, Machine, MachineT, Rooted
<1> DEFINE w == SetTop(m, f)
           stack == [m.stack EXCEPT ![Len(m.stack)] = f]
<1>2. stack \in Seq(FrameT) /\ Len(stack) = Len(m.stack) /\ DOMAIN stack = DOMAIN m.stack
      /\ \A s \in DOMAIN m.stack : stack[s] = IF s = Len(m.stack) THEN f ELSE m.stack[s]
    BY <1>1
<1>3. w = [m EXCEPT !.stack = stack]
    BY DEF SetTop
<1> HIDE DEF w, stack
<1>4. /\ w \in MachineT /\ w.stack = stack
      /\ w.opened = m.opened /\ w.symTbl = m.symTbl /\ w.errors = m.errors /\ w.crashed = m.crashed
    BY <1>1, <1>2, <1>3 DEF MachineT
<1>5. \A s \in DOMAIN w.stack : Rooted(w.stack[s])
    BY <1>1, <1>2, <1>4 DEF Busy, Machine
<1>6. w.stack # <<>> /\ Top(w) = f
    BY <1>1, <1>2, <1>4 DEF Top, Last
<1>. QED BY <1>2, <1>4, <1>5, <1>6 DEF Busy, Machine, w

LEMMA TopIs ==
    ASSUME NEW m, Busy(m)
    PROVE  /\ Len(m.stack) \in Nat \ {0} /\ DOMAIN m.stack = 1 .. Len(m.stack)
           /\ Top(m) = m.stack[Len(m.stack)] /\ Rooted(Top(m))
           /\ Top(m).ctx \in Seq(ContextT) /\ Len(Top(m).ctx) \in Nat \ {0} /\ DOMAIN Top(m).ctx = 1 .. Len(Top(m).ctx)
           /\ Ctx(m) = Top(m).ctx[Len(Top(m).ctx)] /\ Ctx(m) \in ContextT
           /\ Top(m).pos \in Nat \ {0} /\ Top(m).file \in DOMAIN Files
           /\ Operands(m) \in Seq(ValueT) /\ m.errors \in Nat /\ m.symTbl \in TableT
<1>1. m.stack \in Seq(FrameT) /\ m.stack # <<>> /\ m.errors \in Nat /\ m.symTbl \in TableT
    BY DEF Busy, Machine, MachineT
<1>2. Len(m.stack) \in Nat \ {0} /\ DOMAIN m.stack = 1 .. Len(m.stack)
    BY <1>1
<1>3. Top(m) = m.stack[Len(m.stack)]
    BY DEF Top, Last
<1>4. Rooted(Top(m))
    BY <1>2, <1>3 DEF Busy, Machine
<1> HIDE DEF Busy
<1>5. Top(m) \in FrameT /\ Top(m).ctx # <<>>
    BY <1>4 DEF Rooted
<1>6. Top(m).ctx \in Seq(ContextT) /\ Top(m).pos \in Nat \ {0} /\ Top(m).file \in DOMAIN Files
      /\ Top(m).operands \in Seq(ValueT)
    BY <1>5 DEF FrameT
<1>7. Len(Top(m).ctx) \in Nat \ {0} /\ DOMAIN Top(m).ctx = 1 .. Len(Top(m).ctx)
    BY <1>5, <1>6
<1>8. Ctx(m) = Top(m).ctx[Len(Top(m).ctx)]
    BY DEF Ctx, Last
<1>9. Ctx(m) \in ContextT
    BY <1>6, <1>7, <1>8
<1>. QED BY <1>1, <1>2, <1>3, <1>4, <1>6, <1>7, <1>8, <1>9 DEF Operands

-----------------------------------------------------------------------------
(* What holds of a machine. *)

Ifs(t) == {s \in DOMAIN t : t[s].type = "I"}

(* An interface from the reduction of its head on: its parents are         *)
(* interfaces, it inherits what they do, and its members have symbols.     *)
Begun(t, name, node) ==
    /\ node.type = "I" /\ Range(node.parents) \subseteq Ifs(t)
    /\ node.ancestors = UNION {{p} \cup t[p].ancestors : p \in Range(node.parents)}
    /\ node.ancestors \subseteq Ifs(t) /\ IsFiniteSet(node.ancestors)
    /\ \A k \in Range(node.members) : Append(name, k) \in DOMAIN t /\ t[Append(name, k)].type # "I"

Apart(t, i) ==
    \A a, b \in t[i].ancestors \cup {i} : a # b => Range(t[a].members) \cap Range(t[b].members) = {}

Whole(t, i, errors) ==
    /\ Begun(t, i, t[i])
    /\ i \notin t[i].ancestors /\ i \notin Range(t[i].parents)
    /\ errors = 0 => Apart(t, i)

ContextsBegun(t, f) == \A c \in DOMAIN f.ctx : f.ctx[c].kind = "interface" => Begun(t, f.ctx[c].prefix, f.ctx[c].node)

Formed(m) ==
    /\ \A i \in Ifs(m.symTbl) : Whole(m.symTbl, i, m.errors)
    /\ \A s \in DOMAIN m.stack : ContextsBegun(m.symTbl, m.stack[s])

(* No file is opened twice, each is included by one before it.             *)
Tracked(m) ==
    /\ IsInjective(m.opened)
    /\ \A i \in DOMAIN m.opened \ {1} : \E j \in 1 .. i - 1 : m.opened[i] \in Includes(m.opened[j])
    /\ \A s \in DOMAIN m.stack : m.stack[s].file \in Range(m.opened)

(* Each include that a file has come past is open or has been, but for G.  *)
SeenBut(m, G) ==
    \A f \in Range(m.opened) : \A k \in DOMAIN Files[f].text :
        Files[f].text[k].decl = "include" =>
            \/ Files[f].text[k].file \in Range(m.opened) \cup G
            \/ \E s \in DOMAIN m.stack : m.stack[s].file = f /\ m.stack[s].pos <= k

Parsed(m) == Tracked(m) /\ (m.errors = 0 => SeenBut(m, {}))

(* What one reduction may do to the frames and the counter of errors.      *)
Moved(m, w) ==
    /\ Busy(w) /\ Len(w.stack) = Len(m.stack) /\ w.opened = m.opened
    /\ \A s \in 1 .. Len(m.stack) - 1 : w.stack[s] = m.stack[s]
    /\ Top(w).file = Top(m).file
    /\ w.errors = 0 => m.errors = 0 /\ Top(w).pos = Top(m).pos

Follows(m, w) == Moved(m, w) /\ Formed(w)

(* The same symbols and contexts. *)
Keeps(m, w) == w.symTbl = m.symTbl /\ Top(w).ctx = Top(m).ctx

LEMMA FollowsOn ==
    ASSUME NEW m, NEW w, NEW x, Follows(m, w), Follows(w, x)
    PROVE  Follows(m, x)
BY DEF Follows, Moved

LEMMA MovedParsed ==
    ASSUME NEW m, NEW w, Busy(m), Moved(m, w)
    PROVE  (Parsed(m) => Parsed(w)) /\ (Tracked(m) => Tracked(w))
<1>0. /\ Len(m.stack) \in Nat \ {0} /\ Len(w.stack) = Len(m.stack)
      /\ DOMAIN m.stack = 1 .. Len(m.stack) /\ DOMAIN w.stack = 1 .. Len(m.stack)
      /\ Top(m) = m.stack[Len(m.stack)] /\ Top(w) = w.stack[Len(m.stack)]
      /\ \A s \in 1 .. Len(m.stack) - 1 : w.stack[s] = m.stack[s]
  <2>1. Busy(w) /\ Len(w.stack) = Len(m.stack) /\ \A s \in 1 .. Len(m.stack) - 1 : w.stack[s] = m.stack[s]
      BY DEF Moved
  <2>2. Len(m.stack) \in Nat \ {0} /\ DOMAIN m.stack = 1 .. Len(m.stack) /\ Top(m) = m.stack[Len(m.stack)]
      BY TopIs
  <2>3. DOMAIN w.stack = 1 .. Len(w.stack) /\ Top(w) = w.stack[Len(w.stack)]
      BY <2>1, TopIs
  <2>. QED BY <2>1, <2>2, <2>3
<1>4. \A s \in 1 .. Len(m.stack) : s \in 1 .. Len(m.stack) - 1 \/ s = Len(m.stack)
    BY <1>0
<1>1. DOMAIN w.stack = DOMAIN m.stack /\ \A s \in DOMAIN m.stack : w.stack[s].file = m.stack[s].file
    BY <1>0, <1>4 DEF Moved
<1>2. w.errors = 0 => m.errors = 0 /\ \A s \in DOMAIN m.stack : w.stack[s].pos = m.stack[s].pos
    BY <1>0, <1>4 DEF Moved
<1>3. w.opened = m.opened
    BY DEF Moved
<1>. QED BY <1>1, <1>2, <1>3 DEF Parsed, Tracked, SeenBut

(* More symbols change nothing of what is there. *)
Grows(t, u) == DOMAIN t \subseteq DOMAIN u /\ \A s \in DOMAIN t : u[s] = t[s]

LEMMA GrownBegun ==
    ASSUME NEW t, NEW u, Grows(t, u), NEW name, NEW node, Begun(t, name, node)
    PROVE  Begun(u, name, node)
<1>1. Ifs(t) \subseteq Ifs(u) /\ \A p \in Ifs(t) : u[p] = t[p]
    BY DEF Grows, Ifs
<1>2. UNION {{p} \cup u[p].ancestors : p \in Range(node.parents)} = UNION {{p} \cup t[p].ancestors : p \in Range(node.parents)}
    BY <1>1 DEF Begun
<1>. QED BY <1>1, <1>2 DEF Begun, Grows

LEMMA GrownWhole ==
    ASSUME NEW t, NEW u, Grows(t, u), NEW i \in Ifs(t), NEW e, NEW d, d = 0 => e = 0, Whole(t, i, e)
    PROVE  Whole(u, i, d)
<1>1. u[i] = t[i] /\ \A a \in t[i].ancestors : u[a] = t[a]
    BY DEF Grows, Ifs, Whole, Begun
<1>2. Begun(u, i, u[i])
    BY <1>1, GrownBegun DEF Whole
<1>3. Apart(t, i) => Apart(u, i)
    BY <1>1 DEF Apart
<1>. QED BY <1>1, <1>2, <1>3 DEF Whole

(* A step is right if what it adds is. *)
LEMMA StepFormed ==
    ASSUME NEW m, NEW w, Busy(m), Formed(m), Moved(m, w), Grows(m.symTbl, w.symTbl),
           ContextsBegun(w.symTbl, Top(w)),
           \A i \in Ifs(w.symTbl) \ DOMAIN m.symTbl : Whole(w.symTbl, i, w.errors)
    PROVE  Follows(m, w)
<1>1. \A i \in Ifs(w.symTbl) : Whole(w.symTbl, i, w.errors)
  <2> TAKE i \in Ifs(w.symTbl)
  <2>1. CASE i \in DOMAIN m.symTbl
    <3>1. i \in Ifs(m.symTbl)
        BY <2>1 DEF Ifs, Grows
    <3>2. Whole(m.symTbl, i, m.errors) /\ (w.errors = 0 => m.errors = 0)
        BY <3>1 DEF Formed, Moved
    <3>. QED BY <3>1, <3>2, GrownWhole
  <2>. QED BY <2>1
<1>2. \A s \in DOMAIN w.stack : ContextsBegun(w.symTbl, w.stack[s])
  <2> TAKE s \in DOMAIN w.stack
  <2>1. s \in DOMAIN m.stack /\ s \in 1 .. Len(m.stack) /\ Len(m.stack) = Len(w.stack) /\ Len(m.stack) \in Nat
        /\ Top(w) = w.stack[Len(w.stack)]
      BY TopIs DEF Moved
  <2>2. CASE s = Len(m.stack)
      BY <2>1, <2>2
  <2>3. CASE s # Len(m.stack)
    <3>1. w.stack[s] = m.stack[s]
        BY <2>1, <2>3 DEF Moved
    <3>2. ContextsBegun(m.symTbl, m.stack[s])
        BY <2>1 DEF Formed
    <3>. QED BY <3>1, <3>2, GrownBegun DEF ContextsBegun
  <2>. QED BY <2>2, <2>3
<1>. QED BY <1>1, <1>2 DEF Follows, Formed

LEMMA SameFormed ==
    ASSUME NEW m, NEW w, Busy(m), Formed(m), Moved(m, w), Keeps(m, w)
    PROVE  Follows(m, w)
<1>1. Grows(m.symTbl, w.symTbl)
    BY DEF Grows, Keeps
<1>2. ContextsBegun(m.symTbl, Top(m))
    BY TopIs DEF Formed
<1>3. ContextsBegun(w.symTbl, Top(w))
    BY <1>2 DEF ContextsBegun, Keeps
<1>4. Ifs(w.symTbl) \ DOMAIN m.symTbl = {}
    BY DEF Keeps, Ifs
<1>. QED BY <1>1, <1>3, <1>4, StepFormed

-----------------------------------------------------------------------------
(* Each thing that a reduction does. *)

LEMMA TopMoves ==
    ASSUME NEW m, Busy(m), NEW f, Rooted(f), f.file = Top(m).file, f.pos = Top(m).pos \/ m.errors # 0
    PROVE  /\ Moved(m, SetTop(m, f)) /\ SetTop(m, f).symTbl = m.symTbl /\ SetTop(m, f).errors = m.errors
           /\ Top(SetTop(m, f)) = f
<1>1. \A s \in 1 .. Len(m.stack) - 1 : s \in DOMAIN m.stack /\ s # Len(m.stack)
    BY TopIs
<1>. QED BY <1>1, TopSet DEF Moved

LEMMA ContextsSet ==
    ASSUME NEW f, Rooted(f), NEW ctx, ctx \in Seq(ContextT), ctx # <<>>, ctx[1].kind = "root"
    PROVE  LET g == [f EXCEPT !.ctx = ctx]
           IN  Rooted(g) /\ g.ctx = ctx /\ g.file = f.file /\ g.pos = f.pos /\ g.elts = f.elts /\ g.operands = f.operands
<1> DEFINE g == [f EXCEPT !.ctx = ctx]
<1>1. g \in FrameT /\ g.ctx = ctx /\ g.file = f.file /\ g.pos = f.pos /\ g.elts = f.elts /\ g.operands = f.operands
    BY DEF Rooted, FrameT
<1> HIDE DEF g
<1>2. Rooted(g)
    BY <1>1 DEF Rooted
<1>. QED BY <1>1, <1>2 DEF g

(* An error more, or none: n. *)
LEMMA ErrorFollows ==
    ASSUME NEW m, Busy(m), Formed(m), NEW n \in Nat
    PROVE  /\ Follows(m, AppendError(m, n)) /\ Keeps(m, AppendError(m, n)) /\ Busy(AppendError(m, n))
           /\ AppendError(m, n).errors = m.errors + n /\ Top(AppendError(m, n)) = Top(m)
           /\ AppendError(m, n).stack = m.stack
<1> DEFINE w == AppendError(m, n)
<1>1. w.stack = m.stack /\ w.opened = m.opened /\ w.symTbl = m.symTbl /\ w.errors = m.errors + n /\ w \in MachineT
    BY DEF AppendError, Busy, Machine, MachineT
<1> HIDE DEF w
<1>2. Busy(w) /\ Top(w) = Top(m)
    BY <1>1 DEF Busy, Machine, Top
<1>3. Moved(m, w)
    BY <1>1, <1>2, TopIs DEF Moved
<1>4. Keeps(m, w)
    BY <1>1, <1>2 DEF Keeps
<1>5. Follows(m, w)
    BY <1>3, <1>4, SameFormed
<1>. QED BY <1>1, <1>2, <1>4, <1>5 DEF w

LEMMA CrashFollows ==
    ASSUME NEW m, Busy(m), Formed(m)
    PROVE  Follows(m, [m EXCEPT !.crashed = TRUE])
<1> DEFINE w == [m EXCEPT !.crashed = TRUE]
<1>1. w.stack = m.stack /\ w.opened = m.opened /\ w.symTbl = m.symTbl /\ w.errors = m.errors /\ w \in MachineT
    BY DEF Busy, Machine, MachineT
<1> HIDE DEF w
<1>2. Busy(w) /\ Top(w) = Top(m)
    BY <1>1 DEF Busy, Machine, Top
<1>3. Moved(m, w) /\ Keeps(m, w)
    BY <1>1, <1>2 DEF Moved, Keeps
<1>. QED BY <1>3, SameFormed DEF w

LEMMA RootIs == RootContext \in ContextT /\ RootContext.kind = "root" /\ None \in ValueT
<1>1. None \in ValueT
  <2>1. "null" \in ValueKinds
      BY DEF ValueKinds
  <2>. QED BY <2>1, KindsHold, ValueIs DEF None
<1>2. Node("none", None) \in NodeT
    BY <1>1 DEF Node, NodeT, Name
<1>3. <<>> \in Name
    BY DEF Name
<1> DEFINE n == Node("none", None)
<1>4. RootContext = [kind |-> "root", prefix |-> <<>>, node |-> n]
    BY DEF RootContext
<1> HIDE DEF n
<1>5. n \in NodeT
    BY <1>2 DEF n
<1>. QED BY <1>1, <1>3, <1>4, <1>5 DEF ContextT

LEMMA AbortFollows ==
    ASSUME NEW m, Busy(m), Formed(m), m.errors # 0
    PROVE  Follows(m, Abort(m))
<1> DEFINE end == Len(Files[Top(m).file].text) + 1
           f == [[Top(m) EXCEPT !.pos = end] EXCEPT !.ctx = <<RootContext>>]
<1>1. Rooted(Top(m)) /\ Top(m) \in FrameT /\ end \in Nat \ {0}
    BY TopIs, FilesAssumption DEF Rooted
<1>2. Abort(m) = SetTop(m, f)
    BY DEF Abort, SetTop, Top, Last
<1> HIDE DEF end
<1>8. <<RootContext>> \in Seq(ContextT)
    BY RootIs
<1>3. f \in FrameT /\ f.file = Top(m).file /\ f.ctx = <<RootContext>>
    BY <1>1, <1>8 DEF FrameT
<1> HIDE DEF f
<1>4. Rooted(f)
    BY <1>3, RootIs DEF Rooted
<1> DEFINE w == SetTop(m, f)
<1>5. Moved(m, w) /\ w.symTbl = m.symTbl /\ w.errors = m.errors /\ Top(w) = f
    BY <1>3, <1>4, TopMoves
<1> HIDE DEF w
<1>6. Grows(m.symTbl, w.symTbl) /\ Ifs(w.symTbl) \ DOMAIN m.symTbl = {}
    BY <1>5 DEF Grows, Ifs
<1>7. ContextsBegun(w.symTbl, Top(w))
    BY <1>3, <1>5, RootIs DEF ContextsBegun
<1>. QED BY <1>2, <1>5, <1>6, <1>7, StepFormed DEF w

(* One error, and the parse goes on or ends. *)
LEMMA RefusedFollows ==
    ASSUME NEW m, Busy(m), Formed(m), NEW tolerant \in BOOLEAN
    PROVE  /\ Follows(m, AbortUnless(tolerant, AppendError(m, 1)))
           /\ Follows(m, Abort(AppendError(m, 1)))
<1> DEFINE w == AppendError(m, 1)
<1>1. Follows(m, w) /\ Busy(w) /\ w.errors = m.errors + 1 /\ m.errors \in Nat
    BY ErrorFollows, TopIs
<1> HIDE DEF w
<1>2. Formed(w) /\ w.errors # 0
    BY <1>1 DEF Follows
<1>3. Follows(w, Abort(w))
    BY <1>1, <1>2, AbortFollows
<1>4. Follows(m, Abort(w))
    BY <1>1, <1>3, FollowsOn
<1>. QED BY <1>1, <1>4 DEF AbortUnless, w

LEMMA PushFollows ==
    ASSUME NEW m, Busy(m), Formed(m), NEW c \in ContextT,
           c.kind = "interface" => Begun(m.symTbl, c.prefix, c.node)
    PROVE  Follows(m, Push(m, c))
<1> DEFINE ctx == Append(Top(m).ctx, c)
           f == [Top(m) EXCEPT !.ctx = ctx]
<1>1. Push(m, c) = SetTop(m, f)
    BY DEF Push, SetTop, Top, Last
<1>2. /\ Top(m).ctx \in Seq(ContextT) /\ Len(Top(m).ctx) \in Nat \ {0} /\ DOMAIN Top(m).ctx = 1 .. Len(Top(m).ctx)
      /\ Rooted(Top(m))
    BY TopIs
<1>3. /\ ctx \in Seq(ContextT) /\ ctx # <<>> /\ ctx[1] = Top(m).ctx[1] /\ DOMAIN ctx = 1 .. Len(Top(m).ctx) + 1
      /\ \A i \in DOMAIN Top(m).ctx : ctx[i] = Top(m).ctx[i]
      /\ ctx[Len(Top(m).ctx) + 1] = c
    BY <1>2
<1> HIDE DEF ctx
<1>4. ctx[1].kind = "root"
    BY <1>2, <1>3 DEF Rooted
<1>5. Rooted(f) /\ f.ctx = ctx /\ f.file = Top(m).file /\ f.pos = Top(m).pos
    BY <1>2, <1>3, <1>4, ContextsSet
<1> HIDE DEF f
<1> DEFINE w == SetTop(m, f)
<1>6. Moved(m, w) /\ w.symTbl = m.symTbl /\ Top(w) = f
    BY <1>5, TopMoves
<1> HIDE DEF w
<1>7. ContextsBegun(m.symTbl, Top(m))
    BY TopIs DEF Formed
<1>8. ContextsBegun(w.symTbl, Top(w))
  <2>1. \A i \in DOMAIN ctx : i \in DOMAIN Top(m).ctx \/ i = Len(Top(m).ctx) + 1
      BY <1>2, <1>3
  <2>. QED BY <1>3, <1>5, <1>6, <1>7, <2>1 DEF ContextsBegun
<1>9. Grows(m.symTbl, w.symTbl) /\ Ifs(w.symTbl) \ DOMAIN m.symTbl = {}
    BY <1>6 DEF Grows, Ifs
<1>. QED BY <1>1, <1>6, <1>8, <1>9, StepFormed DEF w

LEMMA PopFollows ==
    ASSUME NEW m, Busy(m), Formed(m), Ctx(m).kind # "root"
    PROVE  Follows(m, Pop(m)) /\ Pop(m).symTbl = m.symTbl /\ Pop(m).errors = m.errors
<1> DEFINE ctx == Front(Top(m).ctx)
           f == [Top(m) EXCEPT !.ctx = ctx]
<1>1. Pop(m) = SetTop(m, f)
    BY DEF Pop, SetTop, Top, Last
<1>2. /\ Top(m).ctx \in Seq(ContextT) /\ Len(Top(m).ctx) \in Nat \ {0} /\ DOMAIN Top(m).ctx = 1 .. Len(Top(m).ctx)
      /\ Rooted(Top(m)) /\ Ctx(m) = Top(m).ctx[Len(Top(m).ctx)]
    BY TopIs
<1>3. Len(Top(m).ctx) > 1
    BY <1>2 DEF Rooted
<1>4. /\ ctx \in Seq(ContextT) /\ ctx # <<>> /\ Len(ctx) = Len(Top(m).ctx) - 1 /\ DOMAIN ctx = 1 .. Len(Top(m).ctx) - 1
      /\ \A i \in DOMAIN ctx : ctx[i] = Top(m).ctx[i] /\ i \in DOMAIN Top(m).ctx
  <2>1. Top(m).ctx # <<>>
      BY <1>2, <1>3
  <2> HIDE DEF f
  <2>2. /\ ctx \in Seq(ContextT) /\ Len(ctx) = Len(Top(m).ctx) - 1 /\ DOMAIN ctx = 1 .. Len(Top(m).ctx) - 1
        /\ \A i \in 1 .. Len(Top(m).ctx) - 1 : ctx[i] = Top(m).ctx[i] /\ i \in DOMAIN Top(m).ctx
      BY <1>2, <2>1, FrontIs
  <2> HIDE DEF ctx
  <2>. QED BY <1>2, <1>3, <2>2
<1> HIDE DEF ctx
<1>5. ctx[1].kind = "root"
    BY <1>2, <1>3, <1>4 DEF Rooted
<1>6. Rooted(f) /\ f.ctx = ctx /\ f.file = Top(m).file /\ f.pos = Top(m).pos
    BY <1>2, <1>4, <1>5, ContextsSet
<1> HIDE DEF f
<1> DEFINE w == SetTop(m, f)
<1>7. Moved(m, w) /\ w.symTbl = m.symTbl /\ Top(w) = f /\ w.errors = m.errors
    BY <1>6, TopMoves
<1> HIDE DEF w
<1>8. ContextsBegun(m.symTbl, Top(m))
    BY TopIs DEF Formed
<1>9. ContextsBegun(w.symTbl, Top(w))
    BY <1>4, <1>6, <1>7, <1>8 DEF ContextsBegun
<1>10. Grows(m.symTbl, w.symTbl) /\ Ifs(w.symTbl) \ DOMAIN m.symTbl = {}
    BY <1>7 DEF Grows, Ifs
<1>. QED BY <1>1, <1>7, <1>9, <1>10, StepFormed DEF w

-----------------------------------------------------------------------------
(* The parents that resolve: each is an interface, and there are no more   *)
(* of them than parents were named.                                        *)
LEMMA KnownAre ==
    ASSUME NEW m, Busy(m), NEW parents \in Seq(Name)
    PROVE  /\ KnownParents(m, parents) \in Seq(Name) /\ Range(KnownParents(m, parents)) \subseteq Ifs(m.symTbl)
           /\ Len(parents) - Len(KnownParents(m, parents)) \in Nat
<1> DEFINE n == Len(parents)
           Good(i) == {j \in 1 .. i : Resolves(m, parents[j], "I")}
           R(i) == Resolving(m, parents, i)
<1>1. n \in Nat
    BY LenProperties
<1>2. \A i \in 0 .. n : IsFiniteSet(Good(i)) /\ R(i) \in Nat /\ R(i) <= i /\ R(i) = Cardinality(Good(i))
  <2> TAKE i \in 0 .. n
  <2>1. IsFiniteSet(1 .. i) /\ Cardinality(1 .. i) = i
      BY <1>1, FS_Interval
  <2>2. Good(i) \subseteq 1 .. i
      OBVIOUS
  <2>3. R(i) = Cardinality(Good(i))
      BY DEF Resolving
  <2> HIDE DEF Good, R
  <2>. QED BY <2>1, <2>2, <2>3, FS_Subset, FS_CardinalityType
<1>3. R(0) = 0
  <2>1. 0 \in 0 .. n
      BY <1>1
  <2> HIDE DEF R, Good
  <2>2. R(0) \in Nat /\ R(0) <= 0
      BY <1>2, <2>1
  <2>. QED BY <2>2
<1>4. \A i \in 1 .. n : R(i) = R(i - 1) \/ (R(i) = R(i - 1) + 1 /\ Resolves(m, parents[i], "I"))
  <2> TAKE i \in 1 .. n
  <2>1. i - 1 \in 0 .. n /\ i \in 0 .. n
      BY <1>1
  <2>2. R(i) = Cardinality(Good(i)) /\ R(i - 1) = Cardinality(Good(i - 1)) /\ IsFiniteSet(Good(i - 1))
      BY <1>2, <2>1
  <2>3. CASE Resolves(m, parents[i], "I")
    <3>1. Good(i) = Good(i - 1) \cup {i} /\ i \notin Good(i - 1)
        BY <1>1, <2>3
    <3> HIDE DEF Good, R
    <3>. QED BY <2>2, <2>3, <3>1, FS_AddElement
  <2>4. CASE ~ Resolves(m, parents[i], "I")
    <3>1. Good(i) = Good(i - 1)
        BY <1>1, <2>4
    <3> HIDE DEF Good, R
    <3>. QED BY <2>2, <3>1
  <2>. QED BY <2>3, <2>4
<1> DEFINE At(k) == {i \in 1 .. n : R(i) = k}
           known == KnownParents(m, parents)
<1>5. known = [k \in 1 .. R(n) |-> Resolved(m, parents[Min(At(k))])]
    BY DEF KnownParents
<1> HIDE DEF R, Good
<1>6. ASSUME NEW k \in 1 .. R(n)
      PROVE  Min(At(k)) \in 1 .. n /\ Resolves(m, parents[Min(At(k))], "I")
  <2> DEFINE S == {i \in 1 .. n : k <= R(i)}
             q == Min(S)
             p == Min(At(k))
  <2>1. R(n) \in Nat /\ k \in Nat /\ k >= 1
      BY <1>1, <1>2
  <2>2. n \in S
      BY <1>1, <1>3, <2>1
  <2>3. S \in SUBSET Nat
      OBVIOUS
  <2>4. q \in S /\ \A i \in S : q <= i
    <3> HIDE DEF S
    <3>. QED BY <2>2, <2>3, LeastNumber
  <2> HIDE DEF q
  <2>5. R(q) = k
    <3>1. q - 1 \in 0 .. n /\ q - 1 \notin S
        BY <1>1, <2>4
    <3>2. R(q - 1) \in Nat /\ R(q) \in Nat
        BY <1>1, <1>2, <2>4, <3>1
    <3>3. R(q - 1) < k
        BY <1>3, <2>1, <3>1, <3>2
    <3>. QED BY <1>4, <2>1, <2>4, <3>2, <3>3
  <2>6. q \in At(k) /\ At(k) \in SUBSET Nat
      BY <2>4, <2>5
  <2>7. p \in At(k) /\ \A i \in At(k) : p <= i
    <3> HIDE DEF At
    <3>. QED BY <2>6, LeastNumber
  <2> HIDE DEF p
  <2>8. R(p - 1) # k
    <3>1. p - 1 \notin At(k)
        BY <1>1, <2>7
    <3>2. p - 1 \in 1 .. n \/ p - 1 = 0
        BY <1>1, <2>7
    <3>. QED BY <1>3, <2>1, <3>1, <3>2
  <2>9. p \in 1 .. n /\ R(p) = k
      BY <2>7
  <2>10. Resolves(m, parents[p], "I")
      BY <1>4, <2>8, <2>9
  <2>. QED BY <2>9, <2>10 DEF p
<1> HIDE DEF At, known
<1>7. \A j \in 1 .. n : Resolves(m, parents[j], "I") => Resolved(m, parents[j]) \in Ifs(m.symTbl) /\ Resolved(m, parents[j]) \in Name
  <2>1. \A p : Resolves(m, p, "I") => Resolved(m, p) \in Ifs(m.symTbl)
      BY DEF Resolves, Resolved, Candidates, Ifs
  <2>2. m.symTbl \in TableT
      BY TopIs
  <2>3. Ifs(m.symTbl) \subseteq Name
      BY <2>2 DEF Ifs, TableT
  <2>. QED BY <2>1, <2>3
<1>8. R(n) \in Nat /\ R(n) <= n
    BY <1>1, <1>2
<1>9. \A k \in 1 .. R(n) : known[k] \in Ifs(m.symTbl) /\ known[k] \in Name
    BY <1>5, <1>6, <1>7
<1>10. known \in Seq(Name) /\ Len(known) = R(n) /\ DOMAIN known = 1 .. R(n)
  <2>1. known \in [1 .. R(n) -> Name]
      BY <1>5, <1>9
  <2>. QED BY <1>8, <2>1
<1>11. Range(known) \subseteq Ifs(m.symTbl)
    BY <1>9, <1>10 DEF Range
<1>. QED BY <1>1, <1>8, <1>10, <1>11 DEF known

LEMMA NodeTyped ==
    ASSUME NEW type \in {"none", "I", "A", "M", "C"}, NEW v \in ValueT
    PROVE  Node(type, v) \in NodeT /\ Node(type, v).type = type
BY DEF Node, NodeT, Name

(* The values of an expression. *)
LEMMA OperandsFollow ==
    ASSUME NEW m, Busy(m), Formed(m), NEW ops \in Seq(ValueT)
    PROVE  LET w == SetTop(m, [Top(m) EXCEPT !.operands = ops])
           IN  Follows(m, w) /\ Keeps(m, w) /\ Operands(w) = ops /\ w.errors = m.errors
<1> DEFINE f == [Top(m) EXCEPT !.operands = ops]
           w == SetTop(m, f)
<1>1. Rooted(Top(m))
    BY TopIs
<1>2. f \in FrameT /\ f.ctx = Top(m).ctx /\ f.file = Top(m).file /\ f.pos = Top(m).pos /\ f.operands = ops
    BY <1>1 DEF Rooted, FrameT
<1> HIDE DEF f
<1>3. Rooted(f)
    BY <1>1, <1>2 DEF Rooted
<1>4. Moved(m, w) /\ w.symTbl = m.symTbl /\ w.errors = m.errors /\ Top(w) = f
    BY <1>2, <1>3, TopMoves
<1> HIDE DEF w
<1>5. Keeps(m, w)
    BY <1>2, <1>4 DEF Keeps
<1>6. Follows(m, w)
    BY <1>4, <1>5, SameFormed
<1>. QED BY <1>2, <1>4, <1>5, <1>6 DEF w, f, Operands

LEMMA PushValueFollows ==
    ASSUME NEW m, Busy(m), Formed(m), NEW v \in ValueT
    PROVE  Follows(m, PushValue(m, v))
<1>1. PushValue(m, v) = SetTop(m, [Top(m) EXCEPT !.operands = Append(Operands(m), v)])
    BY DEF PushValue, SetTop, Top, Last, Operands
<1>2. Append(Operands(m), v) \in Seq(ValueT)
    BY TopIs
<1>. QED BY <1>1, <1>2, OperandsFollow

LEMMA PopValuesFollows ==
    ASSUME NEW m, Busy(m), Formed(m), NEW n \in Nat, n <= Len(Operands(m))
    PROVE  Follows(m, PopValues(m, n)) /\ Keeps(m, PopValues(m, n)) /\ PopValues(m, n).errors = m.errors
<1> DEFINE ops == SubSeq(Operands(m), 1, Len(Operands(m)) - n)
<1>1. PopValues(m, n) = SetTop(m, [Top(m) EXCEPT !.operands = ops])
    BY DEF PopValues, SetTop, Top, Last, Operands
<1>2. ops \in Seq(ValueT)
    BY TopIs
<1> HIDE DEF ops
<1>. QED BY <1>1, <1>2, OperandsFollow

(* A new symbol.  An interface must be new to all that it inherits, and    *)
(* without errors apart from it.                                           *)
Separate(t, node) ==
    /\ \A a \in node.ancestors : Range(node.members) \cap Range(t[a].members) = {}
    /\ \A a, b \in node.ancestors : a # b => Range(t[a].members) \cap Range(t[b].members) = {}

LEMMA AddSymbolFollows ==
    ASSUME NEW m, Busy(m), Formed(m), NEW name \in Name, NEW node \in NodeT,
           node.type = "I" => Begun(m.symTbl, name, node) /\ (m.errors = 0 => Separate(m.symTbl, node))
    PROVE  /\ Follows(m, AddSymbol(m, name, node)) /\ AddSymbol(m, name, node).stack = m.stack
           /\ name \notin DOMAIN m.symTbl =>
                 /\ name \in DOMAIN AddSymbol(m, name, node).symTbl
                 /\ AddSymbol(m, name, node).symTbl[name] = node
<1> DEFINE t == m.symTbl
           u == [s \in DOMAIN t \cup {name} |-> IF s = name THEN node ELSE t[s]]
           w == [m EXCEPT !.symTbl = u]
<1>1. CASE name \in DOMAIN m.symTbl
    BY <1>1, ErrorFollows DEF AddSymbol
<1>2. CASE name \notin DOMAIN m.symTbl
  <2>1. AddSymbol(m, name, node) = w
      BY <1>2 DEF AddSymbol
  <2>2. t \in TableT /\ m.errors \in Nat /\ m \in MachineT
      BY TopIs DEF Busy, Machine
  <2>3. u \in TableT
    <3>1. PICK S \in SUBSET Name : t \in [S -> NodeT]
        BY <2>2 DEF TableT
    <3>2. u \in [S \cup {name} -> NodeT]
        BY <3>1
    <3> HIDE DEF u
    <3>. QED BY <3>2 DEF TableT
  <2>4. Grows(t, u) /\ u[name] = node /\ DOMAIN u = DOMAIN t \cup {name}
      BY <1>2 DEF Grows
  <2> HIDE DEF u
  <2>5. w \in MachineT /\ w.stack = m.stack /\ w.opened = m.opened /\ w.symTbl = u /\ w.errors = m.errors
      BY <2>2, <2>3 DEF MachineT
  <2> HIDE DEF w
  <2>6. Busy(w) /\ Top(w) = Top(m)
      BY <2>5 DEF Busy, Machine, Top
  <2>7. Moved(m, w)
      BY <2>5, <2>6, TopIs DEF Moved
  <2>8. ContextsBegun(w.symTbl, Top(w))
    <3>1. ContextsBegun(m.symTbl, Top(m))
        BY TopIs DEF Formed
    <3>. QED BY <2>4, <2>5, <2>6, <3>1, GrownBegun DEF ContextsBegun
  <2>9. ASSUME NEW i \in Ifs(u) \ DOMAIN t
        PROVE  Whole(u, i, w.errors)
    <3>1. i = name /\ node.type = "I" /\ u[i] = node
        BY <2>4, <2>9 DEF Ifs
    <3>2. Begun(t, name, node)
        BY <3>1
    <3>3. Begun(u, name, node)
        BY <2>4, <3>2, GrownBegun
    <3>4. name \notin node.ancestors /\ name \notin Range(node.parents)
        BY <1>2, <3>2 DEF Begun, Ifs
    <3>5. ASSUME w.errors = 0 PROVE Apart(u, i)
      <4>1. Separate(t, node)
          BY <2>5, <3>1, <3>5
      <4>2. \A a \in node.ancestors : u[a] = t[a]
          BY <2>4, <3>2 DEF Begun, Ifs, Grows
      <4>. QED BY <3>1, <3>4, <4>1, <4>2 DEF Apart, Separate
    <3>. QED BY <3>1, <3>3, <3>4, <3>5 DEF Whole
  <2>10. Follows(m, w)
      BY <2>4, <2>5, <2>7, <2>8, <2>9, StepFormed
  <2>. QED BY <2>1, <2>4, <2>5, <2>10
<1>. QED BY <1>1, <1>2

(* A member more in the context, once its symbol is there. *)
LEMMA MemberFollows ==
    ASSUME NEW m, Busy(m), Formed(m), NEW name \in STRING,
           Append(Ctx(m).prefix, name) \in DOMAIN m.symTbl, m.symTbl[Append(Ctx(m).prefix, name)].type # "I"
    PROVE  Follows(m, [m EXCEPT !.stack[Len(m.stack)].ctx[Len(Top(m).ctx)].node.members = Append(@, name)])
<1> DEFINE c == Ctx(m)
           node == [c.node EXCEPT !.members = Append(c.node.members, name)]
           d == [c EXCEPT !.node = node]
           ctx == [Top(m).ctx EXCEPT ![Len(Top(m).ctx)] = d]
           f == [Top(m) EXCEPT !.ctx = ctx]
           w == SetTop(m, f)
<1>1. /\ Top(m).ctx \in Seq(ContextT) /\ Len(Top(m).ctx) \in Nat \ {0} /\ DOMAIN Top(m).ctx = 1 .. Len(Top(m).ctx)
      /\ Rooted(Top(m)) /\ c = Top(m).ctx[Len(Top(m).ctx)] /\ c \in ContextT /\ Top(m) = m.stack[Len(m.stack)]
    BY TopIs
<1>2. [m EXCEPT !.stack[Len(m.stack)].ctx[Len(Top(m).ctx)].node.members = Append(@, name)] = w
    BY <1>1 DEF SetTop, Top, Last, Ctx
<1>3. c.node \in NodeT
    BY <1>1 DEF ContextT
<1>4. /\ node \in NodeT /\ node.type = c.node.type /\ node.parents = c.node.parents
      /\ node.ancestors = c.node.ancestors /\ node.members = Append(c.node.members, name)
  <2> DEFINE members == Append(c.node.members, name)
  <2>1. c.node.members \in Seq(STRING)
      BY <1>3 DEF NodeT
  <2>2. members \in Seq(STRING)
      BY <2>1
  <2> HIDE DEF members, c
  <2>3. /\ node \in NodeT /\ node.type = c.node.type /\ node.parents = c.node.parents
        /\ node.ancestors = c.node.ancestors /\ node.members = members
      BY <1>3, <2>2 DEF NodeT, members
  <2>. QED BY <2>3 DEF members
<1> HIDE DEF node
<1>5. d \in ContextT /\ d.kind = c.kind /\ d.prefix = c.prefix /\ d.node = node
    BY <1>1, <1>4 DEF ContextT
<1> HIDE DEF d, c
<1>6. ctx \in Seq(ContextT) /\ ctx # <<>> /\ DOMAIN ctx = 1 .. Len(Top(m).ctx)
      /\ \A i \in DOMAIN ctx : ctx[i] = IF i = Len(Top(m).ctx) THEN d ELSE Top(m).ctx[i]
    BY <1>1, <1>5
<1> HIDE DEF ctx
<1>7. ctx[1].kind = "root"
    BY <1>1, <1>5, <1>6 DEF Rooted
<1>8. Rooted(f) /\ f.ctx = ctx /\ f.file = Top(m).file /\ f.pos = Top(m).pos
    BY <1>1, <1>6, <1>7, ContextsSet
<1> HIDE DEF f
<1>9. Moved(m, w) /\ w.symTbl = m.symTbl /\ Top(w) = f
    BY <1>8, TopMoves
<1> HIDE DEF w
<1>10. ContextsBegun(m.symTbl, Top(m))
  <2>1. Len(m.stack) \in DOMAIN m.stack /\ Top(m) = m.stack[Len(m.stack)]
      BY TopIs
  <2>. QED BY <2>1 DEF Formed
<1>11. ASSUME c.kind = "interface" PROVE Begun(m.symTbl, c.prefix, node)
  <2>1. Begun(m.symTbl, c.prefix, c.node)
      BY <1>1, <1>10, <1>11 DEF ContextsBegun
  <2>2. c.node.members \in Seq(STRING)
      BY <1>3 DEF NodeT
  <2>3. Range(node.members) \subseteq Range(c.node.members) \cup {name}
      BY <1>4, <2>2 DEF Range
  <2>. QED BY <1>4, <2>1, <2>3 DEF Begun, c
<1>12. ContextsBegun(w.symTbl, Top(w))
    BY <1>1, <1>5, <1>6, <1>8, <1>9, <1>10, <1>11 DEF ContextsBegun
<1>13. Grows(m.symTbl, w.symTbl) /\ Ifs(w.symTbl) \ DOMAIN m.symTbl = {}
    BY <1>9 DEF Grows, Ifs
<1>. QED BY <1>2, <1>9, <1>12, <1>13, StepFormed

LEMMA AddMemberFollows ==
    ASSUME NEW m, Busy(m), Formed(m), NEW name \in STRING, NEW node \in NodeT, node.type # "I"
    PROVE  Follows(m, AddMember(m, name, node))
<1> DEFINE full == Ctx(m).prefix \o <<name>>
           added == AddSymbol(m, full, node)
<1>1. Ctx(m).prefix \in Name
    BY TopIs DEF ContextT
<1>2. full \in Name /\ full = Append(Ctx(m).prefix, name)
    BY <1>1 DEF Name
<1> HIDE DEF full
<1>3. /\ Follows(m, added) /\ added.stack = m.stack
      /\ full \notin DOMAIN m.symTbl => full \in DOMAIN added.symTbl /\ added.symTbl[full] = node
    BY <1>2, AddSymbolFollows
<1>4. AddMember(m, name, node) =
        IF full \in DOMAIN m.symTbl THEN added
        ELSE [added EXCEPT !.stack[Len(m.stack)].ctx[Len(Top(m).ctx)].node.members = Append(@, name)]
    BY DEF AddMember, full
<1> HIDE DEF added
<1>5. Busy(added) /\ Formed(added) /\ Top(added) = Top(m) /\ Ctx(added) = Ctx(m)
    BY <1>3 DEF Follows, Moved, Top, Ctx
<1>6. CASE full \in DOMAIN m.symTbl
    BY <1>3, <1>4, <1>6
<1>7. CASE full \notin DOMAIN m.symTbl
  <2>1. Follows(added, [added EXCEPT !.stack[Len(added.stack)].ctx[Len(Top(added).ctx)].node.members = Append(@, name)])
      BY <1>2, <1>3, <1>5, <1>7, MemberFollows
  <2>2. Follows(added, AddMember(m, name, node))
      BY <1>3, <1>4, <1>5, <1>7, <2>1
  <2>. QED BY <1>3, <2>2, FollowsOn
<1>. QED BY <1>6, <1>7

(* A constant, a method, a member with a flaw. *)
LEMMA AddConstantFollows ==
    ASSUME NEW m, Busy(m), Formed(m), NEW name \in STRING, NEW type, Len(Operands(m)) >= 1
    PROVE  Follows(m, AddConstant(m, name, type))
<1> DEFINE last == Last(Operands(m))
           results == IF type \in DOMAIN KindOf THEN Converted(last, KindOf[type]) ELSE {}
           v == CHOOSE v \in results : TRUE
           done == PopValues(m, 1)
           wrong == AppendError(done, 1)
<1>1. results \subseteq ValueT
  <2>1. last \in ValueT
      BY TopIs DEF Last
  <2> HIDE DEF last
  <2>2. ASSUME type \in DOMAIN KindOf PROVE Converted(last, KindOf[type]) \subseteq ValueT
    <3>1. KindOf[type] \in ValueKinds
        BY <2>2 DEF KindOf, ValueKinds, IntegerKinds, Signed, Unsigned64
    <3>. QED BY <2>1, <3>1, ConvertedTyped
  <2>. QED BY <2>2
<1>2. Follows(m, done) /\ Busy(done) /\ Formed(done)
    BY PopValuesFollows DEF Follows, Moved
<1>3. Follows(done, wrong) /\ Busy(wrong) /\ Formed(wrong)
  <2> HIDE DEF done
  <2>. QED BY <1>2, ErrorFollows DEF Follows
<1>4. ASSUME results # {} PROVE Follows(m, AddMember(done, name, Node("C", v)))
  <2>1. v \in ValueT
      BY <1>1, <1>4
  <2> HIDE DEF done, v
  <2>2. Follows(done, AddMember(done, name, Node("C", v)))
      BY <1>2, <2>1, NodeTyped, AddMemberFollows
  <2>. QED BY <1>2, <2>2, FollowsOn
<1>5. Follows(m, wrong)
  <2> HIDE DEF wrong, done
  <2>. QED BY <1>2, <1>3, FollowsOn
<1>8. wrong.errors # 0
  <2> HIDE DEF done
  <2>1. done.errors \in Nat /\ wrong.errors = done.errors + 1
      BY <1>2, ErrorFollows, TopIs
  <2>. QED BY <2>1
<1>6. Follows(m, AddMember(wrong, name, Node("C", None))) /\ Follows(m, Abort(wrong))
  <2> HIDE DEF wrong
  <2>1. Follows(wrong, AddMember(wrong, name, Node("C", None)))
      BY <1>3, RootIs, NodeTyped, AddMemberFollows
  <2>2. Follows(wrong, Abort(wrong))
      BY <1>3, <1>8, AbortFollows
  <2>. QED BY <1>5, <2>1, <2>2, FollowsOn
<1>7. \/ results # {} /\ AddConstant(m, name, type) = AddMember(done, name, Node("C", v))
      \/ AddConstant(m, name, type) = AddMember(wrong, name, Node("C", None))
      \/ AddConstant(m, name, type) = Abort(wrong)
    BY DEF AddConstant
<1> HIDE DEF results, v, done, wrong
<1>. QED BY <1>4, <1>6, <1>7

LEMMA AddMethodFollows ==
    ASSUME NEW m, Busy(m), Formed(m), NEW name \in STRING, NEW params
    PROVE  Follows(m, AddMethod(m, name, params))
<1>1. Follows(m, AddMember(m, name, Node("M", None)))
    BY RootIs, NodeTyped, AddMemberFollows
<1>2. Follows(m, Abort(AppendError(m, 1)))
    BY RefusedFollows
<1>. QED BY <1>1, <1>2 DEF AddMethod

LEMMA FlawsFollow ==
    ASSUME NEW m, Busy(m), Formed(m)
    PROVE  /\ Follows(m, Unsupported(m)) /\ Follows(m, ArrayField(m))
           /\ \A name \in STRING : Follows(m, FlawedMember(m, name))
<1> DEFINE wrong == AppendError(m, 1)
<1>1. Follows(m, wrong) /\ Busy(wrong) /\ Formed(wrong)
    BY ErrorFollows DEF Follows
<1>2. Tolerant(wrong) \in BOOLEAN
    BY DEF Tolerant
<1>3. Follows(m, AbortUnless(Tolerant(wrong), wrong)) /\ Follows(m, Abort(wrong))
    BY <1>2, RefusedFollows
<1>4. ArrayField(m) = IF Tolerant(wrong) THEN [wrong EXCEPT !.crashed = TRUE] ELSE Abort(wrong)
    BY DEF ArrayField
<1>5. Unsupported(m) = AbortUnless(Tolerant(wrong), wrong)
    BY DEF Unsupported
<1>6. \A name \in STRING : FlawedMember(m, name) = IF Tolerant(wrong) THEN AddMember(wrong, name, Node("A", None)) ELSE Abort(wrong)
    BY DEF FlawedMember
<1> HIDE DEF wrong
<1>7. Follows(m, [wrong EXCEPT !.crashed = TRUE])
  <2>1. Follows(wrong, [wrong EXCEPT !.crashed = TRUE])
      BY <1>1, CrashFollows
  <2>. QED BY <1>1, <2>1, FollowsOn
<1>8. \A name \in STRING : Follows(m, AddMember(wrong, name, Node("A", None)))
  <2> TAKE name \in STRING
  <2>1. Follows(wrong, AddMember(wrong, name, Node("A", None)))
      BY <1>1, RootIs, NodeTyped, AddMemberFollows
  <2>. QED BY <1>1, <2>1, FollowsOn
<1>. QED BY <1>3, <1>4, <1>5, <1>6, <1>7, <1>8

-----------------------------------------------------------------------------
(* Expressions. *)

LEMMA ReadConstantFollows ==
    ASSUME NEW m, Busy(m), Formed(m), NEW symbol
    PROVE  Follows(m, ReadConstant(m, symbol))
<1> DEFINE wrong == AppendError(m, 1)
<1>1. CASE Resolves(m, symbol, "C")
  <2>1. Resolved(m, symbol) \in DOMAIN m.symTbl /\ m.symTbl \in TableT
      BY <1>1, TopIs DEF Resolves, Resolved, Candidates
  <2>2. m.symTbl[Resolved(m, symbol)] \in NodeT
      BY <2>1 DEF TableT
  <2>3. m.symTbl[Resolved(m, symbol)].value \in ValueT
      BY <2>2 DEF NodeT
  <2>. QED BY <1>1, <2>3, PushValueFollows DEF ReadConstant
<1>2. CASE ~ Resolves(m, symbol, "C")
  <2> DEFINE zero == Val("int", 0)
  <2>1. zero \in ValueT
    <3>1. "int" \in IntegerKinds /\ "int" \in ValueKinds
        BY DEF ValueKinds, IntegerKinds, Signed
    <3>. QED BY <3>1, SpanIs, KindsHold, ValueIs
  <2>2. ReadConstant(m, symbol) = PushValue(wrong, zero)
      BY <1>2 DEF ReadConstant
  <2>3. Follows(m, wrong) /\ Busy(wrong) /\ Formed(wrong)
      BY ErrorFollows DEF Follows
  <2> HIDE DEF wrong, zero
  <2>4. Follows(wrong, PushValue(wrong, zero))
      BY <2>1, <2>3, PushValueFollows
  <2>. QED BY <2>2, <2>3, <2>4, FollowsOn
<1>. QED BY <1>1, <1>2

LEMMA OpexecFollows ==
    ASSUME NEW m, Busy(m), Formed(m), NEW op \in {"+", "-", "*", "/", "%"}, Len(Operands(m)) >= 2
    PROVE  Follows(m, Opexec(m, op))
<1> DEFINE a == Operands(m)[Len(Operands(m)) - 1]
           b == Last(Operands(m))
           popped == PopValues(m, 2)
           Result(v) == PushValue(popped, v)
           refused == AppendError(Result(a), 1)
           text == Val("string", Concat[<<TextOf(a), TextOf(b)>>])
           number == NumberOp(op, a, b)
           plain == "string" \notin {a.kind, b.kind} /\ IsOperand(a) /\ IsOperand(b) /\ ~ Traps(op, a, b)
<1>1. \/ Opexec(m, op) = AbortUnless(Tolerant(refused), refused)
      \/ Opexec(m, op) = [m EXCEPT !.crashed = TRUE]
      \/ Opexec(m, op) = Result(text)
      \/ Opexec(m, op) = Result(number) /\ plain
    BY DEF Opexec
<1>2. a \in ValueT /\ b \in ValueT
    BY TopIs DEF Last
<1>3. text \in ValueT
  <2> HIDE DEF a, b
  <2>1. Concat[<<TextOf(a), TextOf(b)>>] \in Spellings
      BY <1>2, TextTyped, ValuesAssumption
  <2>2. "string" \in ValueKinds
      BY DEF ValueKinds
  <2>. QED BY <2>1, <2>2, KindsHold, ValueIs
<1>4. ASSUME plain PROVE number \in ValueT
  <2> HIDE DEF a, b
  <2>1. {a.kind, b.kind} \cap {"string", "datetime"} = {} /\ ~ Traps(op, a, b)
      BY <1>4 DEF IsOperand
  <2>. QED BY <1>2, <2>1, NumberOpTyped
<1>5. Follows(m, popped) /\ Busy(popped) /\ Formed(popped)
    BY PopValuesFollows DEF Follows, Moved
<1> HIDE DEF a, b, text, number, plain, popped
<1>6. \A v \in ValueT : Follows(popped, PushValue(popped, v))
    BY <1>5, PushValueFollows
<1>7. \A v \in ValueT : Follows(m, Result(v)) /\ Busy(Result(v)) /\ Formed(Result(v))
    BY <1>5, <1>6, FollowsOn DEF Follows, Moved
<1>8. Follows(m, AbortUnless(Tolerant(refused), refused))
  <2> DEFINE x == Result(a)
             t == Tolerant(refused)
  <2>1. Follows(m, x) /\ Busy(x) /\ Formed(x)
      BY <1>2, <1>7
  <2>2. t \in BOOLEAN
      BY DEF Tolerant
  <2>3. refused = AppendError(x, 1)
      OBVIOUS
  <2> HIDE DEF x, t, refused
  <2>4. Follows(x, AbortUnless(t, AppendError(x, 1)))
      BY <2>1, <2>2, RefusedFollows
  <2>5. Follows(m, AbortUnless(t, refused))
      BY <2>1, <2>3, <2>4, FollowsOn
  <2>. QED BY <2>5 DEF t
<1>9. Follows(m, [m EXCEPT !.crashed = TRUE])
    BY CrashFollows
<1>. QED BY <1>1, <1>3, <1>4, <1>7, <1>8, <1>9

-----------------------------------------------------------------------------
(* Modules and interfaces. *)

LEMMA RangeFinite ==
    ASSUME NEW S, NEW s \in Seq(S)
    PROVE  IsFiniteSet(Range(s)) /\ Range(s) \subseteq S
<1>1. DOMAIN s = 1 .. Len(s) /\ Len(s) \in Nat
    OBVIOUS
<1>2. IsFiniteSet(DOMAIN s)
    BY <1>1, FS_Interval
<1>3. IsFiniteSet({s[i] : i \in DOMAIN s})
    BY <1>2, ImageFinite
<1>. QED BY <1>1, <1>3 DEF Range

LEMMA BeginModuleFollows ==
    ASSUME NEW m, Busy(m), Formed(m), NEW name \in Name
    PROVE  Follows(m, BeginModule(m, name))
<1> DEFINE prefix == Ctx(m).prefix \o name
           node == Node("none", None)
           c == [kind |-> "module", prefix |-> prefix, node |-> node]
<1>1. prefix \in Name
    BY TopIs DEF ContextT, Name
<1>2. node \in NodeT
    BY RootIs, NodeTyped
<1>3. BeginModule(m, name) = Push(m, c)
    BY DEF BeginModule
<1> HIDE DEF prefix, node
<1>4. c \in ContextT /\ c.kind = "module"
    BY <1>1, <1>2 DEF ContextT
<1> HIDE DEF c
<1>. QED BY <1>3, <1>4, PushFollows

LEMMA BeginInterfaceFollows ==
    ASSUME NEW m, Busy(m), Formed(m), NEW name \in Name, NEW parents \in Seq(Name)
    PROVE  Follows(m, BeginInterface(m, name, parents))
<1> DEFINE full == Ctx(m).prefix \o name
           known == KnownParents(m, parents)
           anc == AncestorsOf(m, Range(known))
           plain == Node("I", None)
           node == [plain EXCEPT !.parents = known, !.ancestors = anc]
           errors == Len(parents) - Len(known) + (IF full \in DOMAIN m.symTbl THEN 1 ELSE 0)
           c == [kind |-> "interface", prefix |-> full, node |-> node]
           x == AppendError(m, errors)
<1>1. BeginInterface(m, name, parents) = Push(x, c)
    BY DEF BeginInterface
<1>2. known \in Seq(Name) /\ Range(known) \subseteq Ifs(m.symTbl) /\ Len(parents) - Len(known) \in Nat
    BY KnownAre
<1>3. full \in Name
    BY TopIs DEF ContextT, Name
<1>4. plain \in NodeT /\ plain.type = "I" /\ plain.members = <<>>
  <2>1. plain.members = <<>>
      BY DEF Node
  <2>. QED BY <2>1, RootIs, NodeTyped
<1> HIDE DEF known, full, plain
<1>5. errors \in Nat
    BY <1>2
<1>6. anc = UNION {{p} \cup m.symTbl[p].ancestors : p \in Range(known)}
    BY DEF AncestorsOf
<1>7. \A p \in Range(known) : m.symTbl[p].ancestors \subseteq Ifs(m.symTbl) /\ IsFiniteSet(m.symTbl[p].ancestors)
    BY <1>2 DEF Formed, Whole, Begun
<1>8. anc \subseteq Ifs(m.symTbl)
    BY <1>2, <1>6, <1>7
<1>9. IsFiniteSet(anc)
  <2> DEFINE f == [p \in Range(known) |-> {p} \cup m.symTbl[p].ancestors]
             U == {f[p] : p \in DOMAIN f}
  <2>1. IsFiniteSet(Range(known))
      BY <1>2, RangeFinite
  <2>2. IsFiniteSet(U)
    <3>1. IsFiniteSet(DOMAIN f)
        BY <2>1
    <3> HIDE DEF f
    <3>. QED BY <3>1, ImageFinite
  <2>3. \A V \in U : IsFiniteSet(V)
    <3>1. \A p \in Range(known) : IsFiniteSet({p} \cup m.symTbl[p].ancestors)
      <4> TAKE p \in Range(known)
      <4>1. IsFiniteSet(m.symTbl[p].ancestors \cup {p})
          BY <1>7, FS_AddElement
      <4>2. m.symTbl[p].ancestors \cup {p} = {p} \cup m.symTbl[p].ancestors
          OBVIOUS
      <4>. QED BY <4>1, <4>2
    <3>. QED BY <3>1
  <2>4. anc = UNION U
      BY <1>6
  <2> HIDE DEF U
  <2>. QED BY <2>2, <2>3, <2>4, FS_UNION
<1>10. Ifs(m.symTbl) \subseteq Name
    BY TopIs DEF Ifs, TableT
<1> HIDE DEF anc
<1>11. node \in NodeT /\ node.type = "I" /\ node.parents = known /\ node.ancestors = anc /\ node.members = <<>>
    BY <1>2, <1>4, <1>8, <1>10 DEF NodeT
<1> HIDE DEF node
<1>12. c \in ContextT /\ c.kind = "interface" /\ c.prefix = full /\ c.node = node
    BY <1>3, <1>11 DEF ContextT
<1> HIDE DEF c, errors
<1>13. Follows(m, x) /\ Busy(x) /\ Formed(x) /\ x.symTbl = m.symTbl
    BY <1>5, ErrorFollows DEF Follows, Keeps
<1> HIDE DEF x
<1>14. Begun(x.symTbl, c.prefix, c.node)
  <2>1. Range(node.members) = {}
      BY <1>11 DEF Range
  <2>. QED BY <1>2, <1>6, <1>8, <1>9, <1>11, <1>12, <1>13, <2>1 DEF Begun
<1>15. Follows(x, Push(x, c))
    BY <1>12, <1>13, <1>14, PushFollows
<1>. QED BY <1>1, <1>13, <1>15, FollowsOn

(* An interface more in the list of the file. *)
LEMMA ElementFollows ==
    ASSUME NEW m, Busy(m), Formed(m), NEW e \in Element
    PROVE  LET w == [m EXCEPT !.stack[Len(m.stack)].elts = Append(@, e)]
           IN  Follows(m, w) /\ Keeps(m, w) /\ w.errors = m.errors
<1> DEFINE elts == Append(Top(m).elts, e)
           f == [Top(m) EXCEPT !.elts = elts]
           w == SetTop(m, f)
<1>1. [m EXCEPT !.stack[Len(m.stack)].elts = Append(@, e)] = w
    BY DEF SetTop, Top, Last
<1>2. Rooted(Top(m)) /\ Top(m) \in FrameT
    BY TopIs DEF Rooted
<1>3. Top(m).elts \in Seq(Element)
    BY <1>2 DEF FrameT
<1>4. elts \in Seq(Element)
    BY <1>3
<1> HIDE DEF elts
<1>5. f \in FrameT /\ f.ctx = Top(m).ctx /\ f.file = Top(m).file /\ f.pos = Top(m).pos
    BY <1>2, <1>4 DEF FrameT
<1> HIDE DEF f
<1>6. Rooted(f)
    BY <1>2, <1>5 DEF Rooted
<1>7. Moved(m, w) /\ w.symTbl = m.symTbl /\ w.errors = m.errors /\ Top(w) = f
    BY <1>5, <1>6, TopMoves
<1> HIDE DEF w
<1>8. Keeps(m, w)
    BY <1>5, <1>7 DEF Keeps
<1>9. Follows(m, w)
    BY <1>7, <1>8, SameFormed
<1>. QED BY <1>1, <1>7, <1>8, <1>9

LEMMA EndInterfaceFollows ==
    ASSUME NEW m, Busy(m), Formed(m), Ctx(m).kind = "interface"
    PROVE  Follows(m, EndInterface(m))
<1> DEFINE c == Ctx(m)
           theirs == [a \in c.node.ancestors |-> Range(m.symTbl[a].members)]
           clashes == Conflicts(Range(c.node.members), theirs)
           element == [name |-> c.prefix, parents |-> c.node.parents, members |-> c.node.members]
           x == AppendError(m, clashes)
           listed == [x EXCEPT !.stack[Len(x.stack)].elts = Append(@, element)]
           out == Pop(listed)
<1>1. c \in ContextT /\ ContextsBegun(m.symTbl, Top(m)) /\ c = Top(m).ctx[Len(Top(m).ctx)] /\ Len(Top(m).ctx) \in DOMAIN Top(m).ctx
    BY TopIs DEF Formed
<1>2. c.prefix \in Name /\ c.node \in NodeT /\ Begun(m.symTbl, c.prefix, c.node)
    BY <1>1 DEF ContextT, ContextsBegun
<1>3. element \in Element
  <2> DEFINE node == c.node
  <2>1. node.parents \in Seq(Name) /\ node.members \in Seq(STRING)
      BY <1>2 DEF NodeT
  <2>. QED BY <1>2, <2>1 DEF Element
<1>4. /\ IsFiniteSet(DOMAIN theirs)
      /\ \A a \in DOMAIN theirs : IsFiniteSet(theirs[a]) /\ theirs[a] = Range(m.symTbl[a].members)
      /\ DOMAIN theirs = c.node.ancestors
  <2>1. c.node.ancestors \subseteq DOMAIN m.symTbl /\ IsFiniteSet(c.node.ancestors)
      BY <1>2 DEF Begun, Ifs
  <2>2. \A a \in DOMAIN m.symTbl : m.symTbl[a] \in NodeT
      BY TopIs DEF TableT
  <2>3. \A a \in DOMAIN m.symTbl : m.symTbl[a].members \in Seq(STRING)
      BY <2>2 DEF NodeT
  <2>4. \A a \in DOMAIN m.symTbl : IsFiniteSet(Range(m.symTbl[a].members))
      BY <2>3, RangeFinite
  <2>. QED BY <2>1, <2>4
<1>5. EndInterface(m) = AddSymbol(out, c.prefix, c.node)
    BY DEF EndInterface, AppendError
<1> HIDE DEF theirs, element
<1>6. clashes \in Nat /\ (clashes = 0 => Separate(m.symTbl, c.node))
  <2>1. /\ clashes \in Nat
        /\ clashes = 0 => /\ \A a \in DOMAIN theirs : Range(c.node.members) \cap theirs[a] = {}
                          /\ \A a, b \in DOMAIN theirs : a # b => theirs[a] \cap theirs[b] = {}
      BY <1>4, ConflictsCount
  <2>. QED BY <1>4, <2>1 DEF Separate
<1> HIDE DEF clashes
<1>7. Follows(m, x) /\ Busy(x) /\ Formed(x) /\ Keeps(m, x) /\ x.errors = m.errors + clashes /\ Top(x) = Top(m)
    BY <1>6, ErrorFollows DEF Follows
<1> HIDE DEF x
<1>8. Follows(x, listed) /\ Keeps(x, listed) /\ Busy(listed) /\ Formed(listed) /\ listed.errors = x.errors
    BY <1>3, <1>7, ElementFollows DEF Follows, Moved
<1> HIDE DEF listed
<1>9. Ctx(listed) = Ctx(m)
    BY <1>7, <1>8 DEF Ctx, Keeps
<1>10. Follows(listed, out) /\ Busy(out) /\ Formed(out) /\ out.symTbl = m.symTbl /\ out.errors = m.errors + clashes
  <2>1. Follows(listed, Pop(listed)) /\ Pop(listed).symTbl = listed.symTbl /\ Pop(listed).errors = listed.errors
      BY <1>8, <1>9, PopFollows
  <2>. QED BY <1>7, <1>8, <2>1 DEF Follows, Moved, Keeps
<1> HIDE DEF out
<1>11. Follows(m, out)
  <2>1. Follows(m, listed)
      BY <1>7, <1>8, FollowsOn
  <2>. QED BY <1>10, <2>1, FollowsOn
<1>12. out.errors = 0 => clashes = 0
    BY <1>6, <1>10, TopIs
<1>13. Follows(out, AddSymbol(out, c.prefix, c.node))
    BY <1>2, <1>6, <1>10, <1>12, AddSymbolFollows
<1>. QED BY <1>5, <1>11, <1>13, FollowsOn

LEMMA EndContextFollows ==
    ASSUME NEW m, Busy(m), Formed(m), Ctx(m).kind # "root"
    PROVE  Follows(m, EndContext(m))
BY EndInterfaceFollows, PopFollows DEF EndContext

-----------------------------------------------------------------------------
(* One declaration. *)

Advance(m) == [m EXCEPT !.stack[Len(m.stack)].pos = @ + 1]
Text(f) == Files[f].text
Next1(m) == Text(Top(m).file)[Top(m).pos]

LEMMA Advanced ==
    ASSUME NEW m, Busy(m), Formed(m), Parsed(m), Top(m).pos <= Len(Text(Top(m).file))
    PROVE  /\ Busy(Advance(m)) /\ Formed(Advance(m)) /\ Tracked(Advance(m))
           /\ Advance(m).opened = m.opened /\ Advance(m).errors = m.errors /\ Top(Advance(m)).file = Top(m).file
           /\ Next1(m).decl # "include" => Parsed(Advance(m))
           /\ Next1(m).decl = "include" /\ m.errors = 0 => SeenBut(Advance(m), {Next1(m).file})
<1> DEFINE f == [Top(m) EXCEPT !.pos = Top(m).pos + 1]
           w == SetTop(m, f)
<1>1. Advance(m) = w
    BY DEF Advance, SetTop, Top, Last
<1>2. Rooted(Top(m)) /\ Top(m).pos \in Nat \ {0} /\ Top(m) = m.stack[Len(m.stack)] /\ DOMAIN m.stack = 1 .. Len(m.stack)
      /\ Len(m.stack) \in Nat \ {0} /\ Top(m).file \in DOMAIN Files
    BY TopIs
<1>3. f \in FrameT /\ f.ctx = Top(m).ctx /\ f.file = Top(m).file /\ f.pos = Top(m).pos + 1
  <2> DEFINE pos == Top(m).pos + 1
             old == Top(m)
  <2>1. pos \in Nat \ {0} /\ old \in FrameT
      BY <1>2 DEF Rooted
  <2>2. f = [old EXCEPT !.pos = pos]
      OBVIOUS
  <2> HIDE DEF pos, old, f
  <2>3. f \in FrameT /\ f.ctx = old.ctx /\ f.file = old.file /\ f.pos = pos
      BY <2>1, <2>2 DEF FrameT
  <2>. QED BY <2>3 DEF pos, old
<1> HIDE DEF f
<1>4. Rooted(f)
    BY <1>2, <1>3 DEF Rooted
<1>5. /\ Busy(w) /\ Top(w) = f /\ Len(w.stack) = Len(m.stack) /\ DOMAIN w.stack = DOMAIN m.stack
      /\ \A s \in DOMAIN m.stack : w.stack[s] = IF s = Len(m.stack) THEN f ELSE m.stack[s]
      /\ w.opened = m.opened /\ w.symTbl = m.symTbl /\ w.errors = m.errors
    BY <1>4, TopSet
<1> HIDE DEF w
<1>6. Formed(w)
  <2>1. \A s \in DOMAIN m.stack : w.stack[s].ctx = m.stack[s].ctx
      BY <1>2, <1>3, <1>5
  <2>2. \A s \in DOMAIN w.stack : ContextsBegun(w.symTbl, w.stack[s])
      BY <1>5, <2>1 DEF Formed, ContextsBegun
  <2>. QED BY <1>5, <2>2 DEF Formed
<1>7. Tracked(w)
  <2>1. \A s \in DOMAIN m.stack : w.stack[s].file = m.stack[s].file
      BY <1>2, <1>3, <1>5
  <2>. QED BY <1>5, <2>1 DEF Parsed, Tracked
<1>8. Top(m).pos \in DOMAIN Text(Top(m).file)
    BY <1>2, FilesAssumption DEF Text
<1>9. ASSUME NEW h \in Range(m.opened), NEW k \in DOMAIN Files[h].text, Files[h].text[k].decl = "include", m.errors = 0
      PROVE  \/ Files[h].text[k].file \in Range(m.opened)
             \/ h = Top(m).file /\ k = Top(m).pos
             \/ \E s \in DOMAIN w.stack : w.stack[s].file = h /\ w.stack[s].pos <= k
  <2>1. CASE Files[h].text[k].file \in Range(m.opened)
      BY <2>1
  <2>2. CASE \E s \in DOMAIN m.stack : m.stack[s].file = h /\ m.stack[s].pos <= k
    <3>1. PICK s \in DOMAIN m.stack : m.stack[s].file = h /\ m.stack[s].pos <= k
        BY <2>2
    <3>2. CASE s # Len(m.stack)
        BY <1>5, <3>1, <3>2
    <3>3. CASE s = Len(m.stack) /\ k # Top(m).pos
      <4>1. h \in DOMAIN Files /\ k \in Nat
        <5>1. h \in DOMAIN Files
            BY <1>2, <3>1, <3>3
        <5>. QED BY <5>1, FilesAssumption
      <4>2. Top(m).pos + 1 <= k
          BY <1>2, <3>1, <3>3, <4>1
      <4>. QED BY <1>2, <1>3, <1>5, <3>1, <3>3, <4>2
    <3>4. CASE s = Len(m.stack) /\ k = Top(m).pos
        BY <1>2, <3>1, <3>4
    <3>. QED BY <3>2, <3>3, <3>4
  <2>3. SeenBut(m, {})
      BY <1>9 DEF Parsed
  <2>. QED BY <1>9, <2>1, <2>2, <2>3 DEF SeenBut
<1>10. Next1(m).decl = "include" /\ m.errors = 0 => SeenBut(w, {Next1(m).file})
    BY <1>5, <1>9 DEF SeenBut, Next1, Text
<1>11. Next1(m).decl # "include" /\ m.errors = 0 => SeenBut(w, {})
    BY <1>5, <1>9 DEF SeenBut, Next1, Text
<1>. QED BY <1>1, <1>3, <1>5, <1>6, <1>7, <1>10, <1>11 DEF Parsed

(* A file more is open. *)
LEMMA OpenKeeps ==
    ASSUME NEW m, Machine(m), Formed(m), Tracked(m), NEW file \in DOMAIN Files, file \notin Range(m.opened),
           m.errors = 0 => SeenBut(m, {file}),
           m.opened = <<>> \/ \E f \in Range(m.opened) : file \in Includes(f)
    PROVE  Busy(Open(m, file)) /\ Formed(Open(m, file)) /\ Parsed(Open(m, file))
<1> DEFINE fr == Frame(file)
           stack == Append(m.stack, fr)
           opened == Append(m.opened, file)
           w == Open(m, file)
<1>1. m \in MachineT /\ m.stack \in Seq(FrameT) /\ m.opened \in Seq(DOMAIN Files)
    BY DEF Machine, MachineT
<1>2. /\ fr \in FrameT /\ fr.ctx # <<>> /\ fr.ctx[1].kind = "root" /\ fr.file = file /\ fr.pos = 1
      /\ DOMAIN fr.ctx = {1}
  <2>1. fr = [file |-> file, pos |-> 1, ctx |-> <<RootContext>>, elts |-> <<>>, operands |-> <<>>]
      BY DEF Frame
  <2>2. <<RootContext>> \in Seq(ContextT) /\ <<RootContext>>[1].kind = "root" /\ DOMAIN <<RootContext>> = {1} /\ <<RootContext>> # <<>>
      BY RootIs
  <2> DEFINE r == <<RootContext>>
  <2>3. fr = [file |-> file, pos |-> 1, ctx |-> r, elts |-> <<>>, operands |-> <<>>]
      BY <2>1
  <2>4. r \in Seq(ContextT) /\ r[1].kind = "root" /\ DOMAIN r = {1} /\ r # <<>>
      BY <2>2
  <2> HIDE DEF r, fr
  <2>. QED BY <2>3, <2>4 DEF FrameT
<1> HIDE DEF fr
<1>3. w = [m EXCEPT !.stack = stack, !.opened = opened]
    BY DEF Open, fr
<1>4. /\ stack \in Seq(FrameT) /\ Len(stack) = Len(m.stack) + 1 /\ DOMAIN stack = 1 .. Len(m.stack) + 1
      /\ DOMAIN m.stack = 1 .. Len(m.stack) /\ Len(m.stack) \in Nat /\ stack # <<>>
      /\ \A s \in DOMAIN m.stack : stack[s] = m.stack[s] /\ s \in DOMAIN stack
      /\ stack[Len(m.stack) + 1] = fr /\ Len(m.stack) + 1 \in DOMAIN stack
    BY <1>1, <1>2
<1>5. /\ opened \in Seq(DOMAIN Files) /\ DOMAIN opened = 1 .. Len(m.opened) + 1
      /\ DOMAIN m.opened = 1 .. Len(m.opened) /\ Len(m.opened) \in Nat
      /\ \A s \in DOMAIN m.opened : opened[s] = m.opened[s]
      /\ opened[Len(m.opened) + 1] = file
    BY <1>1
<1> HIDE DEF stack, opened, w
<1>6. w \in MachineT /\ w.stack = stack /\ w.opened = opened /\ w.symTbl = m.symTbl /\ w.errors = m.errors
    BY <1>1, <1>3, <1>4, <1>5 DEF MachineT
<1>7. \A s \in DOMAIN stack : s \in DOMAIN m.stack \/ s = Len(m.stack) + 1
    BY <1>4
<1>8. Busy(w)
  <2>1. \A s \in DOMAIN w.stack : Rooted(w.stack[s])
      BY <1>2, <1>4, <1>6, <1>7 DEF Machine, Rooted
  <2>. QED BY <1>4, <1>6, <2>1 DEF Busy, Machine
<1>9. Formed(w)
  <2>1. ContextsBegun(w.symTbl, fr)
      BY <1>2 DEF ContextsBegun
  <2>2. \A s \in DOMAIN w.stack : ContextsBegun(w.symTbl, w.stack[s])
      BY <1>4, <1>6, <1>7, <2>1 DEF Formed
  <2>. QED BY <1>6, <2>2 DEF Formed
<1>10. \A i \in DOMAIN opened : i \in DOMAIN m.opened \/ i = Len(m.opened) + 1
    BY <1>5
<1>11. Range(opened) = Range(m.opened) \cup {file}
    BY <1>5, <1>10 DEF Range
<1>12. Tracked(w)
  <2>1. IsInjective(opened)
    <3>1. \A i \in DOMAIN m.opened : opened[i] # file
        BY <1>5 DEF Range
    <3>. QED BY <1>5, <1>10, <3>1 DEF Tracked, IsInjective
  <2>2. \A i \in DOMAIN opened \ {1} : \E j \in 1 .. i - 1 : opened[i] \in Includes(opened[j])
    <3> TAKE i \in DOMAIN opened \ {1}
    <3>1. CASE i \in DOMAIN m.opened
      <4>1. PICK j \in 1 .. i - 1 : m.opened[i] \in Includes(m.opened[j])
          BY <3>1 DEF Tracked
      <4>2. j \in DOMAIN m.opened
          BY <1>5, <3>1
      <4>. QED BY <1>5, <3>1, <4>1, <4>2
    <3>2. CASE i = Len(m.opened) + 1
      <4>1. m.opened # <<>>
          BY <1>5, <3>2
      <4>2. PICK f \in Range(m.opened) : file \in Includes(f)
          BY <4>1
      <4>3. PICK j \in DOMAIN m.opened : m.opened[j] = f
          BY DEF Range
      <4>. QED BY <1>5, <3>2, <4>2, <4>3
    <3>. QED BY <1>10, <3>1, <3>2
  <2>3. \A s \in DOMAIN stack : stack[s].file \in Range(opened)
      BY <1>2, <1>4, <1>7, <1>11 DEF Tracked
  <2>. QED BY <1>6, <2>1, <2>2, <2>3 DEF Tracked
<1>13. ASSUME m.errors = 0 PROVE SeenBut(w, {})
  <2> SUFFICES ASSUME NEW f \in Range(opened), NEW k \in DOMAIN Files[f].text, Files[f].text[k].decl = "include"
               PROVE  \/ Files[f].text[k].file \in Range(opened)
                      \/ \E s \in DOMAIN stack : stack[s].file = f /\ stack[s].pos <= k
      BY <1>6 DEF SeenBut
  <2>1. CASE f = file
    <3>1. k >= 1
        BY <2>1, FilesAssumption
    <3>. QED BY <1>2, <1>4, <2>1, <3>1
  <2>2. CASE f \in Range(m.opened)
    <3>1. \/ Files[f].text[k].file \in Range(m.opened) \cup {file}
          \/ \E s \in DOMAIN m.stack : m.stack[s].file = f /\ m.stack[s].pos <= k
        BY <1>13, <2>2 DEF SeenBut
    <3>. QED BY <1>4, <1>11, <3>1
  <2>. QED BY <1>11, <2>1, <2>2
<1>. QED BY <1>6, <1>8, <1>9, <1>12, <1>13 DEF Parsed, w

LEMMA IncludeKeeps ==
    ASSUME NEW m, Busy(m), Formed(m), Tracked(m), NEW file,
           m.errors = 0 => SeenBut(m, {file}), \E f \in Range(m.opened) : file \in Includes(f)
    PROVE  Busy(Include(m, file)) /\ Formed(Include(m, file)) /\ Parsed(Include(m, file))
<1>1. CASE file \in Range(m.opened)
  <2>1. Include(m, file) = m
      BY <1>1 DEF Include
  <2>2. m.errors = 0 => SeenBut(m, {})
      BY <1>1 DEF SeenBut
  <2>. QED BY <2>1, <2>2 DEF Parsed
<1>2. CASE file \notin Range(m.opened) /\ file \notin DOMAIN Files
  <2> DEFINE w == AppendError(m, 1)
  <2>1. Follows(m, w) /\ w.errors = m.errors + 1 /\ m.errors \in Nat
      BY ErrorFollows, TopIs
  <2>2. Include(m, file) = w
      BY <1>2 DEF Include
  <2> HIDE DEF w
  <2>3. Tracked(w)
      BY <2>1, MovedParsed DEF Follows
  <2>. QED BY <2>1, <2>2, <2>3 DEF Follows, Moved, Parsed
<1>3. CASE file \notin Range(m.opened) /\ file \in DOMAIN Files
  <2>1. Include(m, file) = Open(m, file)
      BY <1>3 DEF Include
  <2>. QED BY <1>3, <2>1, OpenKeeps DEF Busy
<1>. QED BY <1>1, <1>2, <1>3

LEMMA ExecuteKeeps ==
    ASSUME NEW m, Busy(m), Formed(m), Parsed(m), Top(m).pos <= Len(Text(Top(m).file))
    PROVE  LET w == Execute(m, Next1(m)) IN Busy(w) /\ Formed(w) /\ Parsed(w)
<1> DEFINE d == Next1(m)
           w == Advance(m)
           x == Execute(m, d)
<1> SUFFICES Busy(x) /\ Formed(x) /\ Parsed(x)
    OBVIOUS
<1>1. Top(m).file \in DOMAIN Files /\ Top(m).pos \in Nat \ {0} /\ Top(m) = m.stack[Len(m.stack)] /\ Len(m.stack) \in DOMAIN m.stack
    BY TopIs
<1>2. Top(m).pos \in DOMAIN Text(Top(m).file) /\ d = Text(Top(m).file)[Top(m).pos] /\ IsDeclaration(d)
    BY <1>1, FilesAssumption DEF Text, Next1
<1>3. /\ Busy(w) /\ Formed(w) /\ Tracked(w) /\ w.opened = m.opened /\ w.errors = m.errors
      /\ d.decl # "include" => Parsed(w)
      /\ d.decl = "include" /\ m.errors = 0 => SeenBut(w, {d.file})
    BY Advanced
<1>4. ASSUME Grammatical(w, d), d.decl = "include"
      PROVE  Busy(x) /\ Formed(x) /\ Parsed(x)
  <2>1. x = Include(w, d.file)
      BY <1>4 DEF Execute, Advance
  <2>2. Top(m).file \in Range(w.opened)
      BY <1>1, <1>3 DEF Parsed, Tracked
  <2>3. d.file \in Includes(Top(m).file)
      BY <1>2, <1>4 DEF Includes, Text
  <2> HIDE DEF x, d, w
  <2>. QED BY <1>3, <1>4, <2>1, <2>2, <2>3, IncludeKeeps
<1>5. ASSUME Follows(w, x), d.decl # "include" PROVE Busy(x) /\ Formed(x) /\ Parsed(x)
  <2> HIDE DEF x, d, w
  <2>. QED BY <1>3, <1>5, MovedParsed DEF Follows, Moved
<1>6. CASE ~ Grammatical(w, d)
  <2>1. x = Abort(AppendError(w, 1))
      BY <1>6 DEF Execute, Advance
  <2>2. Follows(w, Abort(AppendError(w, 1)))
      BY <1>3, RefusedFollows
  <2>3. Abort(AppendError(w, 1)).errors = w.errors + 1 /\ w.errors \in Nat
      BY <1>3, TopIs DEF Abort, AppendError
  <2> HIDE DEF x, w, d
  <2>4. Tracked(x)
      BY <1>3, <2>1, <2>2, MovedParsed DEF Follows
  <2>. QED BY <2>1, <2>2, <2>3, <2>4 DEF Follows, Moved, Parsed
<1>7. CASE Grammatical(w, d) /\ d.decl # "include"
  <2>1. d.decl \in Accepted[Ctx(w).kind] /\ Ctx(w).kind \in {"root", "module", "interface"}
    <3>1. Ctx(w).kind \in {"root", "module", "interface"}
        BY <1>3, TopIs DEF ContextT
    <3>. QED BY <1>7, <3>1 DEF Grammatical
  <2>2. d.decl \in {"module", "interface", "unsupported", "array", "end", "attribute", "method", "number", "value", "symbol",
                    "op", "const", "flawed"}
      BY <1>7, <2>1 DEF Accepted
  <2>3. d.decl = "end" => Ctx(w).kind # "root"
      BY <2>1 DEF Accepted
  <2>4. (d.decl = "op" => Len(Operands(w)) >= 2) /\ (d.decl = "const" => Len(Operands(w)) >= 1)
      BY <1>7 DEF Grammatical
  <2>5. CASE d.decl = "module"
    <3>1. x = BeginModule(w, d.name) /\ d.name \in Name
        BY <1>2, <1>7, <2>5 DEF Execute, Advance, IsDeclaration
    <3> HIDE DEF x, w, d
    <3>. QED BY <1>3, <1>5, <2>5, <3>1, BeginModuleFollows
  <2>6. CASE d.decl = "interface"
    <3>1. x = BeginInterface(w, d.name, d.parents) /\ d.name \in Name /\ d.parents \in Seq(Name)
        BY <1>2, <1>7, <2>6 DEF Execute, Advance, IsDeclaration
    <3> HIDE DEF x, w, d
    <3>. QED BY <1>3, <1>5, <2>6, <3>1, BeginInterfaceFollows
  <2>7. CASE d.decl = "end"
    <3>1. x = EndContext(w)
        BY <1>7, <2>7 DEF Execute, Advance
    <3> HIDE DEF x, w, d
    <3>. QED BY <1>3, <1>5, <2>3, <2>7, <3>1, EndContextFollows
  <2>8. CASE d.decl = "attribute"
    <3>1. x = AddMember(w, d.name, Node("A", None)) /\ d.name \in STRING
        BY <1>2, <1>7, <2>8 DEF Execute, Advance, IsDeclaration
    <3> HIDE DEF x, w, d
    <3>. QED BY <1>3, <1>5, <2>8, <3>1, RootIs, NodeTyped, AddMemberFollows
  <2>9. CASE d.decl = "method"
    <3>1. x = AddMethod(w, d.name, d.params) /\ d.name \in STRING
        BY <1>2, <1>7, <2>9 DEF Execute, Advance, IsDeclaration
    <3> HIDE DEF x, w, d
    <3>. QED BY <1>3, <1>5, <2>9, <3>1, AddMethodFollows
  <2>10. CASE d.decl = "number"
    <3>1. x = PushValue(w, Scanned(d.num)) /\ d.num \in Int
        BY <1>2, <1>7, <2>10 DEF Execute, Advance, IsDeclaration
    <3> HIDE DEF x, w, d
    <3>2. Scanned(d.num) \in ValueT
        BY <3>1, ScannedTyped
    <3>. QED BY <1>3, <1>5, <2>10, <3>1, <3>2, PushValueFollows
  <2>16. CASE d.decl = "value"
    <3>1. x = PushValue(w, d.val) /\ d.val \in ValueT
        BY <1>2, <1>7, <2>16 DEF Execute, Advance, IsDeclaration
    <3> HIDE DEF x, w, d
    <3>. QED BY <1>3, <1>5, <2>16, <3>1, PushValueFollows
  <2>11. CASE d.decl = "symbol"
    <3>1. x = ReadConstant(w, <<d.name>>)
        BY <1>7, <2>11 DEF Execute, Advance
    <3> HIDE DEF x, w, d
    <3>. QED BY <1>3, <1>5, <2>11, <3>1, ReadConstantFollows
  <2>12. CASE d.decl = "op"
    <3>1. x = Opexec(w, d.op) /\ d.op \in {"+", "-", "*", "/", "%"}
        BY <1>2, <1>7, <2>12 DEF Execute, Advance, IsDeclaration
    <3> HIDE DEF x, w, d
    <3>. QED BY <1>3, <1>5, <2>4, <2>12, <3>1, OpexecFollows
  <2>13. CASE d.decl = "const"
    <3>1. x = AddConstant(w, d.name, d.type) /\ d.name \in STRING
        BY <1>2, <1>7, <2>13 DEF Execute, Advance, IsDeclaration
    <3> HIDE DEF x, w, d
    <3>. QED BY <1>3, <1>5, <2>4, <2>13, <3>1, AddConstantFollows
  <2>14. CASE d.decl = "flawed"
    <3>1. x = FlawedMember(w, d.name) /\ d.name \in STRING
        BY <1>2, <1>7, <2>14 DEF Execute, Advance, IsDeclaration
    <3> HIDE DEF x, w, d
    <3>. QED BY <1>3, <1>5, <2>14, <3>1, FlawsFollow
  <2>15. CASE d.decl = "unsupported" \/ d.decl = "array"
    <3>1. x = Unsupported(w) \/ x = ArrayField(w)
        BY <1>7, <2>15 DEF Execute, Advance
    <3> HIDE DEF x, w, d
    <3>. QED BY <1>3, <1>5, <2>15, <3>1, FlawsFollow
  <2>. QED BY <2>2, <2>5, <2>6, <2>7, <2>8, <2>9, <2>10, <2>11, <2>12, <2>13, <2>14, <2>15, <2>16
<1>. QED BY <1>4, <1>6, <1>7

(* The end of a file: its frame goes. *)
LEMMA ClosedKeeps ==
    ASSUME NEW m, Busy(m), Formed(m), Parsed(m), Top(m).pos > Len(Text(Top(m).file)), NEW rest \in Seq(FrameT),
           Len(rest) = Len(m.stack) - 1, \A s \in 1 .. Len(rest) : rest[s] = m.stack[s]
    PROVE  LET w == [AtEnd(m) EXCEPT !.stack = rest]
           IN  /\ Machine(w) /\ Formed(w) /\ Parsed(w) /\ w.stack = rest
               /\ w.errors = AtEnd(m).errors /\ (w.errors = 0 => m.errors = 0)
<1> DEFINE x == AtEnd(m)
           w == [x EXCEPT !.stack = rest]
<1>1. /\ Len(m.stack) \in Nat \ {0} /\ DOMAIN m.stack = 1 .. Len(m.stack) /\ Top(m) = m.stack[Len(m.stack)]
      /\ Top(m).file \in DOMAIN Files /\ Top(m).pos \in Nat
    BY TopIs
<1>2. Busy(x) /\ Formed(x) /\ x.stack = m.stack /\ x.symTbl = m.symTbl /\ x.opened = m.opened /\ (x.errors = 0 => m.errors = 0)
  <2>1. Follows(m, AppendError(m, 1)) /\ AppendError(m, 1).stack = m.stack /\ Keeps(m, AppendError(m, 1))
      BY ErrorFollows
  <2>. QED BY <2>1 DEF AtEnd, Follows, Moved, Keeps
<1> HIDE DEF x
<1>3. w \in MachineT /\ w.stack = rest /\ w.symTbl = m.symTbl /\ w.opened = m.opened /\ w.errors = x.errors
    BY <1>2 DEF Busy, Machine, MachineT
<1> HIDE DEF w
<1>4. DOMAIN rest = 1 .. Len(m.stack) - 1 /\ \A s \in DOMAIN rest : s \in DOMAIN m.stack /\ rest[s] = m.stack[s]
  <2>1. DOMAIN rest = 1 .. Len(rest)
      OBVIOUS
  <2>2. DOMAIN rest = 1 .. Len(m.stack) - 1
      BY <2>1
  <2>3. 1 .. Len(m.stack) - 1 \subseteq 1 .. Len(m.stack)
      BY <1>1
  <2>. QED BY <1>1, <2>1, <2>2, <2>3
<1>5. Machine(w) /\ Formed(w)
  <2>1. \A s \in DOMAIN w.stack : Rooted(w.stack[s])
      BY <1>3, <1>4 DEF Busy, Machine
  <2>2. \A s \in DOMAIN w.stack : ContextsBegun(w.symTbl, w.stack[s])
      BY <1>3, <1>4 DEF Formed
  <2>3. \A i \in Ifs(w.symTbl) : Whole(w.symTbl, i, w.errors)
      BY <1>2, <1>3 DEF Formed
  <2>. QED BY <1>3, <2>1, <2>2, <2>3 DEF Machine, Formed
<1>6. Tracked(w)
    BY <1>3, <1>4 DEF Parsed, Tracked
<1>7. ASSUME w.errors = 0 PROVE SeenBut(w, {})
  <2> SUFFICES ASSUME NEW f \in Range(m.opened), NEW k \in DOMAIN Files[f].text, Files[f].text[k].decl = "include"
               PROVE  \/ Files[f].text[k].file \in Range(m.opened)
                      \/ \E s \in DOMAIN rest : rest[s].file = f /\ rest[s].pos <= k
      BY <1>3 DEF SeenBut
  <2>1. \/ Files[f].text[k].file \in Range(m.opened)
        \/ \E s \in DOMAIN m.stack : m.stack[s].file = f /\ m.stack[s].pos <= k
      BY <1>2, <1>3, <1>7 DEF Parsed, SeenBut
  <2>2. ASSUME NEW s \in DOMAIN m.stack, m.stack[s].file = f, m.stack[s].pos <= k
        PROVE  s \in DOMAIN rest
    <3>1. CASE s = Len(m.stack)
      <4>1. k <= Len(Text(Top(m).file)) /\ k \in Nat /\ Len(Text(Top(m).file)) \in Nat
          BY <1>1, <2>2, <3>1, FilesAssumption DEF Text
      <4>2. Top(m).pos <= k
          BY <1>1, <2>2, <3>1
      <4>. QED BY <1>1, <4>1, <4>2
    <3>2. CASE s # Len(m.stack)
        BY <1>1, <1>4, <3>2
    <3>. QED BY <3>1, <3>2
  <2>. QED BY <1>4, <2>1, <2>2
<1>. QED BY <1>2, <1>3, <1>5, <1>6, <1>7 DEF Parsed, w, x

-----------------------------------------------------------------------------
(* What the parser accepts. *)

IdlcKept ==
    /\ elements \in Seq(Element)
    /\ Machine(machine) /\ Parsed(machine) /\ Formed(machine)
    /\ phase \in {"idle", "compile"} /\ machine.stack = <<>> => machine.errors = 0

LEMMA NoMachineIs == Machine(NoMachine) /\ Parsed(NoMachine) /\ Formed(NoMachine) /\ NoMachine.stack = <<>> /\ NoMachine.errors = 0
                     /\ NoMachine.opened = <<>> /\ Tracked(NoMachine)
<1> DEFINE t == [s \in {} |-> None]
<1>1. NoMachine = [stack |-> <<>>, opened |-> <<>>, symTbl |-> t, errors |-> 0, crashed |-> FALSE]
    BY DEF NoMachine
<1>2. t \in TableT /\ DOMAIN t = {}
  <2>1. t \in [{} -> NodeT] /\ {} \in SUBSET Name
      OBVIOUS
  <2> HIDE DEF t
  <2>. QED BY <2>1 DEF TableT
<1> HIDE DEF t
<1>3. NoMachine \in MachineT /\ NoMachine.stack = <<>> /\ NoMachine.opened = <<>> /\ NoMachine.errors = 0 /\ NoMachine.symTbl = t
    BY <1>1, <1>2 DEF MachineT
<1>4. Machine(NoMachine) /\ Formed(NoMachine)
    BY <1>2, <1>3 DEF Machine, Formed, Ifs
<1>5. Tracked(NoMachine) /\ SeenBut(NoMachine, {})
    BY <1>3 DEF Tracked, SeenBut, IsInjective, Range
<1>. QED BY <1>3, <1>4, <1>5 DEF Parsed

LEMMA IdlcKeptInit == CommandsInit => IdlcKept
BY NoMachineIs DEF CommandsInit, IdlcIdle, IdlcKept

LEMMA OpenInputKept == IdlcKept /\ OpenInput => IdlcKept'
<1> SUFFICES ASSUME IdlcKept, OpenInput PROVE IdlcKept'
    OBVIOUS
<1> DEFINE file == Head(todo)
<1>1. CASE UNCHANGED <<machine, elements>> /\ phase = "compile"
    BY <1>1 DEF IdlcKept
<1>2. CASE file \in DOMAIN Files /\ machine' = Open(NoMachine, file) /\ elements' = elements
  <2>1. Busy(machine') /\ Parsed(machine') /\ Formed(machine')
    <3>1. /\ Machine(NoMachine) /\ Formed(NoMachine) /\ Tracked(NoMachine) /\ file \notin Range(NoMachine.opened)
          /\ NoMachine.opened = <<>> /\ (NoMachine.errors = 0 => SeenBut(NoMachine, {file}))
      <4>1. Range(NoMachine.opened) = {}
          BY NoMachineIs DEF Range
      <4>. QED BY <4>1, NoMachineIs DEF SeenBut
    <3> HIDE DEF file
    <3>2. /\ Busy(Open(NoMachine, file)) /\ Formed(Open(NoMachine, file)) /\ Parsed(Open(NoMachine, file))
        BY <1>2, <3>1, OpenKeeps
    <3>. QED BY <1>2, <3>2
  <2>. QED BY <1>2, <2>1 DEF IdlcKept, Busy
<1>3. CASE file \in DOMAIN Files /\ machine' = machine /\ elements' = elements \o Files[file].members /\ phase' = phase
  <2> DEFINE more == Files[file].members
  <2>1. more \in Seq(Element)
      BY <1>3, FilesAssumption
  <2> HIDE DEF more
  <2>2. elements' \in Seq(Element)
      BY <1>3, <2>1 DEF IdlcKept, more
  <2>. QED BY <1>3, <2>2 DEF IdlcKept
<1>. QED BY <1>1, <1>2, <1>3 DEF OpenInput

LEMMA DeclareKept == IdlcKept /\ Declare => IdlcKept'
<1> SUFFICES ASSUME IdlcKept, Declare PROVE IdlcKept'
    OBVIOUS
<1>1. Busy(machine) /\ Formed(machine) /\ Parsed(machine)
    BY DEF IdlcKept, Declare, Busy
<1>2. Top(machine).pos <= Len(Text(Top(machine).file)) /\ machine' = Execute(machine, Next1(machine)) /\ elements' = elements
    BY DEF Declare, Text, Next1
<1>3. Busy(machine') /\ Formed(machine') /\ Parsed(machine')
    BY <1>1, <1>2, ExecuteKeeps
<1>. QED BY <1>2, <1>3 DEF IdlcKept, Busy

LEMMA EndsKept == IdlcKept /\ (EndInclude \/ EndInput) => IdlcKept'
<1> SUFFICES ASSUME IdlcKept, EndInclude \/ EndInput PROVE IdlcKept'
    OBVIOUS
<1>1. machine.stack \in Seq(FrameT) /\ Len(machine.stack) >= 1 /\ machine.stack # <<>>
  <2>1. machine.stack \in Seq(FrameT)
      BY DEF IdlcKept, Machine, MachineT
  <2>2. Len(machine.stack) > 1 \/ Len(machine.stack) = 1
      BY DEF EndInclude, EndInput
  <2> DEFINE stack == machine.stack
  <2> HIDE DEF stack
  <2>3. stack \in Seq(FrameT) /\ (Len(stack) > 1 \/ Len(stack) = 1)
      BY <2>1, <2>2 DEF stack
  <2>4. Len(stack) >= 1
    <3>1. Len(stack) \in Nat
        BY <2>3
    <3>. QED BY <2>3, <3>1
  <2>5. stack # <<>>
    <3>1. Len(<<>>) = 0
        OBVIOUS
    <3>. QED BY <2>4, <3>1
  <2>. QED BY <2>1, <2>4, <2>5 DEF stack
<1>2. Busy(machine) /\ Formed(machine) /\ Parsed(machine) /\ Top(machine).pos > Len(Text(Top(machine).file))
    BY <1>1 DEF IdlcKept, Busy, EndInclude, EndInput, Text
<1>3. CASE EndInclude
  <2> DEFINE rest == Front(machine.stack)
  <2>1. rest \in Seq(FrameT) /\ Len(rest) = Len(machine.stack) - 1 /\ \A s \in 1 .. Len(rest) : rest[s] = machine.stack[s]
      BY <1>1, FrontIs
  <2>2. Len(machine.stack) > 1 /\ elements' = elements /\ phase' = phase
      BY <1>3 DEF EndInclude
  <2>3. machine' = [AtEnd(machine) EXCEPT !.stack = rest]
    <3>1. AtEnd(machine).stack = machine.stack
        BY DEF AtEnd, AppendError
    <3>. QED BY <1>3, <3>1 DEF EndInclude
  <2>4. rest # <<>>
      BY <1>1, <2>1, <2>2
  <2> HIDE DEF rest
  <2>5. Machine(machine') /\ Formed(machine') /\ Parsed(machine') /\ machine'.stack = rest
      BY <1>2, <2>1, <2>3, ClosedKeeps
  <2>. QED BY <2>2, <2>4, <2>5 DEF IdlcKept
<1>4. CASE EndInput
  <2>1. Machine(machine') /\ Formed(machine') /\ Parsed(machine')
    <3>1. <<>> \in Seq(FrameT) /\ Len(<<>>) = Len(machine.stack) - 1 /\ \A s \in 1 .. Len(<<>>) : <<>>[s] = machine.stack[s]
        BY <1>4 DEF EndInput
    <3>2. machine' = [AtEnd(machine) EXCEPT !.stack = <<>>]
        BY <1>4 DEF EndInput
    <3>. QED BY <1>2, <3>1, <3>2, ClosedKeeps
  <2>2. machine'.errors \in Nat
      BY <2>1 DEF Machine, MachineT
  <2>3. CASE machine'.errors > 0
      BY <1>4, <2>1, <2>3 DEF EndInput, Exits, Finish, IdlcKept
  <2>4. CASE ~ machine'.errors > 0
    <3>1. Top(machine).elts \in Seq(Element)
        BY <1>2, TopIs DEF Rooted, FrameT
    <3>2. elements' = elements \o Top(machine).elts
        BY <1>4, <2>4 DEF EndInput
    <3>3. elements' \in Seq(Element)
        BY <3>1, <3>2 DEF IdlcKept
    <3>. QED BY <2>1, <2>2, <2>4, <3>3 DEF IdlcKept
  <2>. QED BY <2>3, <2>4
<1>. QED BY <1>3, <1>4

LEMMA IdlcKeptStep == IdlcKept /\ [CommandsNext]_commandVars => IdlcKept'
<1> SUFFICES ASSUME IdlcKept, [CommandsNext]_commandVars PROVE IdlcKept'
    OBVIOUS
<1>1. CASE UNCHANGED <<machine, elements, phase>>
    BY <1>1 DEF IdlcKept
<1>2. CASE UNCHANGED <<machine, elements>> /\ phase' \in {"write", "collect", "link", "done"}
    BY <1>2 DEF IdlcKept
<1>3. CASE Begin
  <2>1. UNCHANGED <<machine, elements>> /\ phase = "idle" /\ phase' \in {"compile", "done"}
      BY <1>3 DEF Begin, Exits, Finish
  <2>. QED BY <2>1 DEF IdlcKept
<1>4. CASE OpenInput
    BY <1>4, OpenInputKept
<1>5. CASE Declare
    BY <1>5, DeclareKept
<1>6. CASE EndInclude \/ EndInput
    BY <1>6, EndsKept
<1>7. CASE ChooseTarget \/ Collect \/ EndLink \/ WriteResult
  <2>1. ChooseTarget => UNCHANGED <<machine, elements>> /\ phase' \in {"write", "collect", "link", "done"}
      BY DEF ChooseTarget, Exits, Finish
  <2>2. Collect => UNCHANGED <<machine, elements>> /\ phase' \in {"write", "collect", "link", "done"}
      BY DEF Collect
  <2>3. EndLink => UNCHANGED <<machine, elements>> /\ phase' \in {"write", "collect", "link", "done"}
      BY DEF EndLink, Exits, Finish
  <2>4. WriteResult => UNCHANGED <<machine, elements>> /\ phase' \in {"write", "collect", "link", "done"}
      BY DEF WriteResult, Exits, Finish
  <2>. QED BY <1>2, <1>7, <2>1, <2>2, <2>3, <2>4
<1>8. CASE ProcessNext \/ ProcessParent \/ UndefinedParent \/ MergeParent \/ Complete
  <2>1. UNCHANGED <<machine, elements, phase>>
      BY <1>8 DEF ProcessNext, ProcessParent, UndefinedParent, MergeParent, Complete, Enter, LinkFrame
  <2>. QED BY <1>1, <2>1
<1>9. CASE UNCHANGED idlcVars
    BY <1>1, <1>9 DEF idlcVars
<1>10. IdlcNext \/ UNCHANGED idlcVars
    BY DEF CommandsNext, AppStep, IdlcStep, SettingsStep, BundlesStep, ProxyStep, StreamStep, commandVars
<1>. QED BY <1>3, <1>4, <1>5, <1>6, <1>7, <1>8, <1>9, <1>10 DEF IdlcNext

LEMMA AlwaysIdlcKept == CommandsSpec => []IdlcKept
BY IdlcKeptInit, IdlcKeptStep, PTL DEF CommandsSpec

(* Within an input no file is opened twice or without an include, and all  *)
(* its includes were; what it defines is well formed (Driver::include,     *)
(* NodeIntf, the contexts of the parser).                                  *)
LEMMA AcceptedHolds == IdlcKept => IdlAccepted
<1> SUFFICES ASSUME IdlcKept PROVE IdlAccepted
    OBVIOUS
<1>1. ParsedOnce
  <2>1. ASSUME phase = "compile" /\ machine.stack = <<>>, NEW i \in DOMAIN machine.opened
        PROVE  Includes(machine.opened[i]) \subseteq Range(machine.opened)
    <3>1. SeenBut(machine, {}) /\ DOMAIN machine.stack = {}
        BY <2>1 DEF IdlcKept, Parsed
    <3>2. machine.opened[i] \in Range(machine.opened)
        BY DEF Range
    <3>. QED BY <3>1, <3>2 DEF SeenBut, Includes
  <2>. QED BY <2>1 DEF ParsedOnce, IdlcKept, Parsed, Tracked
<1>2. IdlWellFormed
  <2> SUFFICES ASSUME machine.errors = 0, NEW i \in Ifs(machine.symTbl)
               PROVE  LET t == machine.symTbl
                      IN  /\ Range(t[i].parents) \subseteq Ifs(t) \ {i}
                          /\ t[i].ancestors = UNION {{p} \cup t[p].ancestors : p \in Range(t[i].parents)}
                          /\ i \notin t[i].ancestors
                          /\ \A a, b \in t[i].ancestors \cup {i} : a # b => MembersIn(t, a) \cap MembersIn(t, b) = {}
                          /\ \A k \in MembersIn(t, i) : Append(i, k) \in DOMAIN t /\ t[Append(i, k)].type # "I"
      BY DEF IdlWellFormed, Ifs
  <2>1. Whole(machine.symTbl, i, 0)
      BY DEF IdlcKept, Formed
  <2>. QED BY <2>1 DEF Whole, Begun, Apart, MembersIn
<1>. QED BY <1>1, <1>2 DEF IdlAccepted

THEOREM WellFormedAccepted == CommandsSpec => []IdlAccepted
BY AlwaysIdlcKept, AcceptedHolds, PTL

-----------------------------------------------------------------------------
(* What makes the compiler crash. *)

TrappedIn(m) ==
    LET d == Files[Top(m).file].text[Top(m).pos - 1]
        a == Operands(m)[Len(Operands(m)) - 1]
        b == Last(Operands(m))
    IN  \/ d.decl = "array"
        \/ /\ d.decl = "op"
           /\ d.op = "%" \/ (d.op = "/" /\ "double" \notin {a.kind, b.kind})
           /\ AsLong(b) = 0 \/ (AsLong(a) = Lowest /\ AsLong(b) = -1)

Calm(m) == "crashed" \in DOMAIN m /\ m.crashed = FALSE

(* Most of what a reduction is made of crashes nothing. *)
LEMMA CalmParts ==
    ASSUME NEW m, Calm(m)
    PROVE  /\ \A n : Calm(AppendError(m, n)) /\ Calm(PopValues(m, n))
           /\ Calm(Abort(m)) /\ Calm(Pop(m))
           /\ \A c : Calm(Push(m, c)) /\ Calm(PushValue(m, c))
           /\ \A name, node : Calm(AddSymbol(m, name, node)) /\ Calm(AddMember(m, name, node))
<1>1. \A n : Calm(AppendError(m, n)) /\ Calm(PopValues(m, n))
    BY DEF Calm, AppendError, PopValues
<1>2. Calm(Abort(m)) /\ Calm(Pop(m))
    BY DEF Calm, Abort, Pop
<1>3. \A c : Calm(Push(m, c)) /\ Calm(PushValue(m, c))
    BY DEF Calm, Push, PushValue
<1>4. \A name, node : Calm(AddSymbol(m, name, node))
    BY <1>1 DEF Calm, AddSymbol
<1>5. ASSUME NEW name, NEW node PROVE Calm(AddMember(m, name, node))
  <2> DEFINE full == Ctx(m).prefix \o <<name>>
             added == AddSymbol(m, full, node)
  <2>1. Calm(added)
      BY <1>4
  <2>2. AddMember(m, name, node) =
          IF full \in DOMAIN m.symTbl THEN added
          ELSE [added EXCEPT !.stack[Len(m.stack)].ctx[Len(Top(m).ctx)].node.members = Append(@, name)]
      BY DEF AddMember
  <2> HIDE DEF added, full
  <2>. QED BY <2>1, <2>2 DEF Calm
<1>. QED BY <1>1, <1>2, <1>3, <1>4, <1>5

LEMMA CalmReductions ==
    ASSUME NEW m, Calm(m)
    PROVE  /\ \A file : Calm(Include(m, file))
           /\ \A name : Calm(BeginModule(m, name))
           /\ \A name, parents : Calm(BeginInterface(m, name, parents)) /\ Calm(AddMethod(m, name, parents))
           /\ Calm(EndContext(m)) /\ Calm(Unsupported(m))
           /\ \A symbol : Calm(ReadConstant(m, symbol)) /\ Calm(FlawedMember(m, symbol))
           /\ \A name, type : Calm(AddConstant(m, name, type))
<1>1. ASSUME NEW file PROVE Calm(Include(m, file))
  <2>1. Calm(Open(m, file))
      BY DEF Calm, Open
  <2>. QED BY <2>1, CalmParts DEF Include
<1>2. \A name : Calm(BeginModule(m, name))
    BY CalmParts DEF BeginModule
<1>3. ASSUME NEW name, NEW parents
      PROVE  Calm(BeginInterface(m, name, parents)) /\ Calm(AddMethod(m, name, parents))
  <2>1. \A n, c : Calm(Push(AppendError(m, n), c))
      BY CalmParts
  <2>2. Calm(BeginInterface(m, name, parents))
      BY <2>1 DEF BeginInterface
  <2>3. Calm(AppendError(m, 1)) /\ Calm(Abort(AppendError(m, 1))) /\ Calm(AddMember(m, name, Node("M", None)))
      BY CalmParts
  <2>. QED BY <2>2, <2>3 DEF AddMethod
<1>4. Calm(EndContext(m))
  <2>1. \A n, e, name, node : Calm(AddSymbol(Pop([AppendError(m, n) EXCEPT !.stack[Len(m.stack)].elts = Append(@, e)]), name, node))
    <3> TAKE n, e, name, node
    <3> DEFINE listed == [AppendError(m, n) EXCEPT !.stack[Len(m.stack)].elts = Append(@, e)]
    <3>1. Calm(AppendError(m, n))
        BY CalmParts
    <3>2. Calm(listed)
        BY <3>1 DEF Calm
    <3> HIDE DEF listed
    <3>3. Calm(Pop(listed))
        BY <3>2, CalmParts
    <3>4. Calm(AddSymbol(Pop(listed), name, node))
        BY <3>3, CalmParts
    <3>. QED BY <3>4 DEF listed
  <2>2. Calm(EndInterface(m))
      BY <2>1 DEF EndInterface
  <2>. QED BY <2>2, CalmParts DEF EndContext
<1> DEFINE wrong == AppendError(m, 1)
<1>5. Calm(wrong)
    BY CalmParts
<1>6. Calm(Abort(wrong)) /\ (\A v : Calm(PushValue(wrong, v))) /\ \A name, node : Calm(AddMember(wrong, name, node))
  <2> HIDE DEF wrong
  <2>. QED BY <1>5, CalmParts
<1>7. Calm(Unsupported(m))
    BY <1>5, <1>6 DEF Unsupported, AbortUnless
<1>8. \A symbol : Calm(ReadConstant(m, symbol)) /\ Calm(FlawedMember(m, symbol))
    BY <1>6, CalmParts DEF ReadConstant, FlawedMember
<1>9. ASSUME NEW name, NEW type PROVE Calm(AddConstant(m, name, type))
  <2> DEFINE done == PopValues(m, 1)
             refused == AppendError(done, 1)
             v == CHOOSE v \in (IF type \in DOMAIN KindOf THEN Converted(Last(Operands(m)), KindOf[type]) ELSE {}) : TRUE
  <2>1. \/ AddConstant(m, name, type) = AddMember(done, name, Node("C", v))
        \/ AddConstant(m, name, type) = AddMember(refused, name, Node("C", None))
        \/ AddConstant(m, name, type) = Abort(refused)
      BY DEF AddConstant
  <2>2. Calm(done)
      BY CalmParts
  <2> HIDE DEF done, v
  <2>3. Calm(refused) /\ \A node : Calm(AddMember(done, name, node))
      BY <2>2, CalmParts
  <2> HIDE DEF refused
  <2>4. Calm(Abort(refused)) /\ \A node : Calm(AddMember(refused, name, node))
      BY <2>3, CalmParts
  <2>. QED BY <2>1, <2>3, <2>4
<1>. QED BY <1>1, <1>2, <1>3, <1>4, <1>7, <1>8, <1>9

(* An operation crashes if it is a trapped division, and leaves its operands. *)
LEMMA OpexecCrash ==
    ASSUME NEW m, Calm(m), NEW op
    PROVE  \/ Calm(Opexec(m, op))
           \/ /\ Opexec(m, op) = [m EXCEPT !.crashed = TRUE]
              /\ Traps(op, Operands(m)[Len(Operands(m)) - 1], Last(Operands(m)))
<1> DEFINE a == Operands(m)[Len(Operands(m)) - 1]
           b == Last(Operands(m))
           popped == PopValues(m, 2)
           Result(v) == PushValue(popped, v)
           refused == AppendError(Result(a), 1)
<1>1. \/ Opexec(m, op) = AbortUnless(Tolerant(refused), refused)
      \/ Opexec(m, op) = [m EXCEPT !.crashed = TRUE] /\ Traps(op, a, b)
      \/ \E v : Opexec(m, op) = Result(v)
    BY DEF Opexec
<1>2. Calm(popped)
    BY CalmParts
<1> HIDE DEF popped, a, b
<1>3. \A v : Calm(Result(v))
    BY <1>2, CalmParts
<1>4. Calm(refused)
  <2> DEFINE x == Result(a)
  <2>1. Calm(x)
      BY <1>3
  <2> HIDE DEF x
  <2>2. Calm(AppendError(x, 1))
      BY <2>1, CalmParts
  <2>. QED BY <2>2 DEF x
<1> HIDE DEF refused
<1>5. Calm(AbortUnless(Tolerant(refused), refused))
    BY <1>4, CalmParts DEF AbortUnless
<1>. QED BY <1>1, <1>3, <1>5 DEF a, b

LEMMA ExecuteCrash ==
    ASSUME NEW m, Busy(m), Formed(m), Parsed(m), m.crashed = FALSE, Top(m).pos <= Len(Text(Top(m).file)),
           Execute(m, Next1(m)).crashed
    PROVE  TrappedIn(Execute(m, Next1(m)))
<1> DEFINE d == Next1(m)
           w == Advance(m)
           x == Execute(m, d)
<1>1. Busy(w) /\ Top(w).file = Top(m).file /\ Top(w).pos - 1 = Top(m).pos /\ w.crashed = FALSE
  <2>1. Busy(w)
      BY Advanced
  <2>2. Len(m.stack) \in DOMAIN m.stack /\ m.stack[Len(m.stack)] = Top(m) /\ Rooted(Top(m)) /\ Top(m).pos \in Nat
        /\ m \in MachineT /\ Len(m.stack) \in Nat \ {0}
      BY TopIs DEF Busy, Machine
  <2> DEFINE f == [Top(m) EXCEPT !.pos = @ + 1]
             stack == [m.stack EXCEPT ![Len(m.stack)] = f]
  <2>3. w = [m EXCEPT !.stack = stack]
      BY <2>2 DEF Advance
  <2>4. f.file = Top(m).file /\ f.pos = Top(m).pos + 1
    <3>1. Top(m) \in FrameT
        BY <2>2 DEF Rooted
    <3>. QED BY <3>1 DEF FrameT
  <2>5. Len(stack) = Len(m.stack) /\ stack[Len(m.stack)] = f
      BY <2>2 DEF MachineT
  <2> HIDE DEF f, stack
  <2>6. w.stack = stack /\ w.crashed = m.crashed
      BY <2>2, <2>3 DEF MachineT
  <2>7. Top(w) = f
      BY <2>5, <2>6 DEF Top, Last
  <2>. QED BY <2>1, <2>2, <2>4, <2>6, <2>7
<1>2. Calm(w) /\ DOMAIN w = {"stack", "opened", "symTbl", "errors", "crashed"}
  <2>1. w \in MachineT
      BY <1>1 DEF Busy, Machine
  <2> HIDE DEF w
  <2>. QED BY <1>1, <2>1 DEF MachineT, Calm
<1>3. Files[Top(w).file].text[Top(w).pos - 1] = d
    BY <1>1 DEF Next1, Text
<1> DEFINE wrong == AppendError(w, 1)
<1>4. Calm(wrong) /\ wrong.stack = w.stack /\ "crashed" \in DOMAIN wrong /\ "stack" \in DOMAIN wrong
  <2>1. Calm(wrong)
      BY <1>2, CalmParts
  <2> HIDE DEF w
  <2>2. wrong.stack = w.stack /\ DOMAIN wrong = DOMAIN w
      BY DEF AppendError
  <2>. QED BY <1>2, <2>1, <2>2
<1>5. Calm(Abort(wrong))
  <2> HIDE DEF wrong
  <2>. QED BY <1>4, CalmParts
<1>6. ~ Calm(x)
    BY DEF Calm
<1>7. \/ x = Abort(wrong)
      \/ x = Include(w, d.file) \/ x = BeginModule(w, d.name) \/ x = BeginInterface(w, d.name, d.parents)
      \/ x = EndContext(w) \/ x = AddMember(w, d.name, Node("A", None)) \/ x = AddMethod(w, d.name, d.params)
      \/ x = PushValue(w, Scanned(d.num)) \/ x = PushValue(w, d.val) \/ x = ReadConstant(w, <<d.name>>)
      \/ x = AddConstant(w, d.name, d.type) \/ x = Unsupported(w) \/ x = FlawedMember(w, d.name)
      \/ d.decl = "op" /\ x = Opexec(w, d.op)
      \/ d.decl = "array" /\ x = ArrayField(w)
  <2>1. CASE ~ Grammatical(w, d)
      BY <2>1 DEF Execute, Advance
  <2>2. CASE Grammatical(w, d)
    <3>1. d.decl \in {"include", "module", "interface", "unsupported", "array", "end", "attribute", "method", "number", "value",
                      "symbol", "op", "const", "flawed"}
      <4>1. Ctx(w).kind \in {"root", "module", "interface"}
          BY <1>1, TopIs DEF ContextT
      <4>2. d.decl \in Accepted[Ctx(w).kind]
          BY <2>2 DEF Grammatical
      <4> HIDE DEF d, w
      <4>. QED BY <4>1, <4>2 DEF Accepted
    <3>2. x = CASE d.decl = "include"     -> Include(w, d.file)
                [] d.decl = "module"      -> BeginModule(w, d.name)
                [] d.decl = "interface"   -> BeginInterface(w, d.name, d.parents)
                [] d.decl = "end"         -> EndContext(w)
                [] d.decl = "attribute"   -> AddMember(w, d.name, Node("A", None))
                [] d.decl = "method"      -> AddMethod(w, d.name, d.params)
                [] d.decl = "number"      -> PushValue(w, Scanned(d.num))
                [] d.decl = "value"       -> PushValue(w, d.val)
                [] d.decl = "symbol"      -> ReadConstant(w, <<d.name>>)
                [] d.decl = "op"          -> Opexec(w, d.op)
                [] d.decl = "const"       -> AddConstant(w, d.name, d.type)
                [] d.decl = "unsupported" -> Unsupported(w)
                [] d.decl = "flawed"      -> FlawedMember(w, d.name)
                [] OTHER                  -> ArrayField(w)
        BY <2>2 DEF Execute, Advance
    <3> HIDE DEF x, w, d, wrong
    <3>. QED BY <3>1, <3>2
  <2>. QED BY <2>1, <2>2
<1> HIDE DEF x, w, d
<1>8. \/ d.decl = "op" /\ x = [w EXCEPT !.crashed = TRUE]
             /\ Traps(d.op, Operands(w)[Len(Operands(w)) - 1], Last(Operands(w)))
      \/ d.decl = "array" /\ x = [wrong EXCEPT !.crashed = TRUE]
  <2>1. x = ArrayField(w) => x = [wrong EXCEPT !.crashed = TRUE] \/ x = Abort(wrong)
      BY DEF ArrayField
  <2> HIDE DEF wrong
  <2>2. \A n, v, c : Calm(PushValue(w, v)) /\ Calm(AddMember(w, n, c))
      BY <1>2, CalmParts
  <2>. QED BY <1>2, <1>5, <1>6, <1>7, <2>1, <2>2, CalmReductions, OpexecCrash
<1>9. CASE d.decl = "array" /\ x = [wrong EXCEPT !.crashed = TRUE]
  <2>1. x.stack = w.stack
      BY <1>4, <1>9
  <2>2. Top(x) = Top(w)
      BY <2>1 DEF Top
  <2>. QED BY <1>3, <1>9, <2>2 DEF TrappedIn, x, d
<1>10. CASE /\ d.decl = "op" /\ x = [w EXCEPT !.crashed = TRUE]
            /\ Traps(d.op, Operands(w)[Len(Operands(w)) - 1], Last(Operands(w)))
  <2>1. x.stack = w.stack
      BY <1>2, <1>10
  <2>2. Top(x) = Top(w) /\ Operands(x) = Operands(w)
      BY <2>1 DEF Top, Operands
  <2>. QED BY <1>3, <1>10, <2>2 DEF TrappedIn, Traps, DivisionTraps, x, d
<1>. QED BY <1>8, <1>9, <1>10

(* The compiler reads on only as long as it has not crashed. *)
Explained == machine.crashed => phase = "done" /\ TrappedIn(machine)

LEMMA ExplainedStep == IdlcKept /\ Explained /\ [CommandsNext]_commandVars => Explained'
<1> SUFFICES ASSUME IdlcKept, Explained, [CommandsNext]_commandVars PROVE Explained'
    OBVIOUS
<1>0. machine \in MachineT
    BY DEF IdlcKept, Machine
<1>1. CASE UNCHANGED <<machine, phase>>
    BY <1>1 DEF Explained, TrappedIn
<1>2. CASE machine' = machine /\ phase # "done"
    BY <1>2 DEF Explained
<1>3. CASE OpenInput
  <2>1. phase = "compile" /\ (machine' = machine \/ machine' = Open(NoMachine, Head(todo)))
      BY <1>3 DEF OpenInput
  <2>2. Calm(NoMachine)
      BY DEF NoMachine, Calm
  <2>3. Calm(Open(NoMachine, Head(todo)))
      BY <2>2 DEF Calm, Open
  <2>. QED BY <1>2, <2>1, <2>3 DEF Calm, Explained
<1>4. CASE Declare
  <2>1. /\ phase = "compile" /\ machine.stack # <<>> /\ Top(machine).pos <= Len(Text(Top(machine).file))
        /\ machine' = Execute(machine, Next1(machine)) /\ (machine'.crashed => phase' = "done")
      BY <1>4 DEF Declare, Text, Next1
  <2>2. Busy(machine) /\ Formed(machine) /\ Parsed(machine) /\ machine.crashed = FALSE
      BY <1>0, <2>1 DEF IdlcKept, Busy, Explained, MachineT
  <2>3. ASSUME machine'.crashed PROVE TrappedIn(machine')
      BY <2>1, <2>2, <2>3, ExecuteCrash
  <2>. QED BY <2>1, <2>3 DEF Explained, TrappedIn
<1>5. CASE EndInclude \/ EndInput
  <2>1. phase = "compile" /\ \E rest : machine' = [AtEnd(machine) EXCEPT !.stack = rest]
      BY <1>5 DEF EndInclude, EndInput
  <2>2. Calm(machine)
      BY <1>0, <2>1 DEF Explained, MachineT, Calm
  <2>3. Calm(AtEnd(machine))
      BY <2>2, CalmParts DEF AtEnd
  <2>. QED BY <2>1, <2>3 DEF Calm, Explained
<1>6. CASE \/ Begin \/ ChooseTarget \/ Collect \/ EndLink \/ WriteResult
           \/ ProcessNext \/ ProcessParent \/ UndefinedParent \/ MergeParent \/ Complete
  <2>1. machine' = machine /\ phase # "done"
      BY <1>6 DEF Begin, ChooseTarget, Collect, EndLink, WriteResult, ProcessNext, ProcessParent, UndefinedParent,
         MergeParent, Complete, Enter, LinkFrame
  <2>. QED BY <1>2, <2>1
<1>7. IdlcNext \/ UNCHANGED idlcVars
    BY DEF CommandsNext, AppStep, IdlcStep, SettingsStep, BundlesStep, ProxyStep, StreamStep, commandVars
<1>. QED BY <1>1, <1>3, <1>4, <1>5, <1>6, <1>7 DEF IdlcNext, idlcVars

(* Whatever the command line, the files and the libraries: a program that  *)
(* ends with 0 did what it was asked for or was stopped at it, and only    *)
(* the named cases terminate or crash one, the compiler only an array or a *)
(* division that the processor traps (Application::run, Driver::opexec).   *)
THEOREM ExitCodesTrue == CommandsSpec => []ExitTrue
<1>1. CommandsInit => Explained
    BY DEF CommandsInit, IdlcIdle, NoMachine, Explained
<1>2. ExitKept /\ Explained => ExitTrue
  <2>1. Explained /\ machine.crashed => Trapped
      BY DEF Explained, TrappedIn, Trapped
  <2>. QED BY <2>1 DEF ExitKept, ExitTrue, Deserved, Aborted, Crashed
<1>. QED BY <1>1, <1>2, ExplainedStep, AlwaysIdlcKept, AlwaysExits, PTL DEF CommandsSpec

-----------------------------------------------------------------------------
(* The linker.  A table of interfaces is a graph: what a name reaches.     *)

Up(t, n) == Range(t[n].parents)
NamesOf(t) == UNION {{n} \cup Up(t, n) : n \in DOMAIN t}
ClosedUnder(t, n, S) == Up(t, n) \subseteq S /\ \A b \in S \cap DOMAIN t : Up(t, b) \subseteq S
Above(t, n) == {a \in NamesOf(t) : \A S \in SUBSET NamesOf(t) : ClosedUnder(t, n, S) => a \in S}

AllDiffer(t, n, A) == \A a, b \in A \cup {n} : a # b => t[a].members \cap t[b].members = {}

Joined(t) ==
    \A n \in DOMAIN t : Above(t, n) \subseteq DOMAIN t /\ n \notin Above(t, n) /\ AllDiffer(t, n, Above(t, n))

LEMMA AboveHas ==
    ASSUME NEW t, NEW n \in DOMAIN t
    PROVE  /\ Up(t, n) \subseteq Above(t, n)
           /\ \A b \in Above(t, n) \cap DOMAIN t : Up(t, b) \subseteq Above(t, n)
<1>1. \A b \in DOMAIN t : Up(t, b) \subseteq NamesOf(t)
    BY DEF NamesOf
<1>. QED BY <1>1 DEF Above, ClosedUnder

LEMMA AboveLeast ==
    ASSUME NEW t, NEW n \in DOMAIN t, NEW S, S \subseteq NamesOf(t), ClosedUnder(t, n, S)
    PROVE  Above(t, n) \subseteq S
BY DEF Above

LEMMA AboveAbove ==
    ASSUME NEW t, NEW n \in DOMAIN t, NEW b \in Above(t, n), b \in DOMAIN t
    PROVE  Above(t, b) \subseteq Above(t, n)
<1>1. ClosedUnder(t, b, Above(t, n))
    BY AboveHas DEF ClosedUnder
<1>2. Above(t, n) \subseteq NamesOf(t)
    BY DEF Above
<1>. QED BY <1>1, <1>2, AboveLeast

(* The same graph. *)
Alike(t, u) ==
    /\ DOMAIN u = DOMAIN t
    /\ \A n \in DOMAIN t : u[n].parents = t[n].parents /\ u[n].members = t[n].members

LEMMA AlikeAbove ==
    ASSUME NEW t, NEW u, Alike(t, u)
    PROVE  /\ \A n \in DOMAIN t : Up(u, n) = Up(t, n) /\ Above(u, n) = Above(t, n)
           /\ Joined(u) <=> Joined(t)
<1>1. DOMAIN u = DOMAIN t /\ \A n \in DOMAIN t : Up(u, n) = Up(t, n)
    BY DEF Alike, Up
<1>2. NamesOf(u) = NamesOf(t)
    BY <1>1 DEF NamesOf
<1>3. \A n \in DOMAIN t : \A S : ClosedUnder(u, n, S) <=> ClosedUnder(t, n, S)
    BY <1>1 DEF ClosedUnder
<1>4. \A n \in DOMAIN t : Above(u, n) = Above(t, n)
    BY <1>2, <1>3 DEF Above
<1>5. ASSUME NEW n \in DOMAIN t, Above(t, n) \subseteq DOMAIN t
      PROVE  AllDiffer(u, n, Above(t, n)) <=> AllDiffer(t, n, Above(t, n))
    BY <1>5 DEF AllDiffer, Alike
<1>. QED BY <1>1, <1>4, <1>5 DEF Joined

-----------------------------------------------------------------------------
(* The state of the linker: the table t, the names un it has not come to,  *)
(* the calls cs under way, its errors e; and whether all names differ.     *)

IntfT == [parents : Seq(Name), members : SUBSET STRING, ancestors : SUBSET Name, mark : BOOLEAN, completed : BOOLEAN]
CallT == [intf : Name, next : Nat \ {0}]

Tabled(t) ==
    /\ IsFiniteSet(DOMAIN t)
    /\ \A n \in DOMAIN t :
          /\ n \in Name /\ t[n] \in IntfT /\ IsFiniteSet(t[n].members) /\ t[n].ancestors \subseteq DOMAIN t
          /\ t[n].mark => ~ t[n].completed

(* The marked interfaces are those that are being processed. *)
UnderWay(t, un, cs) ==
    /\ un \subseteq DOMAIN t /\ cs \in Seq(CallT)
    /\ \A i \in DOMAIN cs : cs[i].intf \in DOMAIN t /\ t[cs[i].intf].mark
    /\ \A n \in DOMAIN t : t[n].mark => \E i \in DOMAIN cs : cs[i].intf = n
    /\ \A i, j \in DOMAIN cs : cs[i].intf = cs[j].intf => i = j
    /\ \A n \in DOMAIN t \ un : t[n].mark \/ t[n].completed

(* What has been merged is above, and so is each call above its callers.   *)
Sound(t, cs) ==
    /\ \A n \in DOMAIN t : t[n].ancestors \subseteq Above(t, n)
    /\ \A i, j \in DOMAIN cs : i < j => cs[j].intf \in Above(t, cs[i].intf)

(* As long as there are no errors: what is merged is complete, with all    *)
(* that it inherits, and is apart from the interface.                      *)
Merging(t, cs) ==
    /\ \A n \in DOMAIN t :
          /\ n \notin t[n].ancestors
          /\ \A a \in t[n].ancestors : t[a].completed /\ t[a].ancestors \subseteq t[n].ancestors
          /\ t[n].completed => Up(t, n) \subseteq t[n].ancestors /\ AllDiffer(t, n, t[n].ancestors)
    /\ \A i \in DOMAIN cs : \A k \in DOMAIN t[cs[i].intf].parents :
          k < cs[i].next => t[cs[i].intf].parents[k] \in t[cs[i].intf].ancestors

Exact(t, cs, e, unique) ==
    /\ e \in Nat
    /\ e = 0 => unique /\ Merging(t, cs)
    /\ unique /\ Joined(t) => e = 0

Linking(t, un, cs, e, unique) == Tabled(t) /\ UnderWay(t, un, cs) /\ Sound(t, cs) /\ Exact(t, cs, e, unique)

(* All processed. *)
LEMMA LinkedExact ==
    ASSUME NEW t, NEW e, NEW unique \in BOOLEAN, Linking(t, {}, <<>>, e, unique)
    PROVE  e = 0 <=> unique /\ Joined(t)
<1> SUFFICES ASSUME e = 0 PROVE Joined(t)
    BY DEF Linking, Exact
<1>1. Merging(t, <<>>)
    BY DEF Linking, Exact
<1>2. \A n \in DOMAIN t : t[n].completed
    BY DEF Linking, UnderWay
<1>3. ASSUME NEW n \in DOMAIN t PROVE Above(t, n) \subseteq t[n].ancestors
  <2>1. t[n].ancestors \subseteq DOMAIN t
      BY DEF Linking, Tabled
  <2>2. DOMAIN t \subseteq NamesOf(t)
      BY DEF NamesOf
  <2>3. ClosedUnder(t, n, t[n].ancestors)
      BY <1>1, <1>2, <2>1 DEF ClosedUnder, Merging
  <2>. QED BY <2>1, <2>2, <2>3, AboveLeast
<1>4. \A n \in DOMAIN t : t[n].ancestors \subseteq DOMAIN t
    BY DEF Linking, Tabled
<1>5. ASSUME NEW n \in DOMAIN t
      PROVE  Above(t, n) \subseteq DOMAIN t /\ n \notin Above(t, n) /\ AllDiffer(t, n, Above(t, n))
  <2>1. Above(t, n) \subseteq t[n].ancestors /\ n \notin t[n].ancestors /\ AllDiffer(t, n, t[n].ancestors)
      BY <1>1, <1>2, <1>3 DEF Merging
  <2>. QED BY <1>4, <2>1 DEF AllDiffer
<1>. QED BY <1>5 DEF Joined

LEMMA TableSet ==
    ASSUME NEW t, Tabled(t), NEW n \in DOMAIN t, NEW r \in IntfT, r.parents = t[n].parents, r.members = t[n].members,
           r.ancestors \subseteq DOMAIN t, r.mark => ~ r.completed
    PROVE  LET u == [t EXCEPT ![n] = r]
           IN  /\ Tabled(u) /\ Alike(t, u) /\ DOMAIN u = DOMAIN t /\ u[n] = r
               /\ \A k \in DOMAIN t : k # n => u[k] = t[k]
<1> DEFINE u == [t EXCEPT ![n] = r]
<1>1. DOMAIN u = DOMAIN t /\ u[n] = r /\ \A k \in DOMAIN t : k # n => u[k] = t[k]
    OBVIOUS
<1> HIDE DEF u
<1>2. Alike(t, u)
    BY <1>1 DEF Alike
<1>3. Tabled(u)
    BY <1>1 DEF Tabled
<1>. QED BY <1>1, <1>2, <1>3 DEF u

(* processIntf() of a name that is neither marked nor completed. *)
Marked(t, name) == [t EXCEPT ![name].mark = TRUE]
Entered(cs, name) == Append(cs, [intf |-> name, next |-> 1])

Entering(t, un, cs, name, rest) ==
    /\ name \in DOMAIN t /\ ~ t[name].mark /\ ~ t[name].completed
    /\ rest \in {un, un \ {name}}
    /\ cs = <<>> \/ name \in Up(t, Last(cs).intf)

LEMMA EnterLinks ==
    ASSUME NEW t, NEW un, NEW cs, NEW e, NEW unique, Linking(t, un, cs, e, unique),
           NEW name, NEW rest, Entering(t, un, cs, name, rest)
    PROVE  Linking(Marked(t, name), rest, Entered(cs, name), e, unique)
<1>0. /\ name \in DOMAIN t /\ ~ t[name].mark /\ ~ t[name].completed
      /\ rest \in {un, un \ {name}} /\ (cs = <<>> \/ name \in Up(t, Last(cs).intf))
    BY DEF Entering
<1> DEFINE r == [t[name] EXCEPT !.mark = TRUE]
           u == [t EXCEPT ![name] = r]
           c == [intf |-> name, next |-> 1]
           ds == Append(cs, c)
<1>1. /\ Tabled(t) /\ UnderWay(t, un, cs) /\ Sound(t, cs) /\ Exact(t, cs, e, unique)
      /\ cs \in Seq(CallT) /\ un \subseteq DOMAIN t
    BY DEF Linking, UnderWay
<1>2. [t EXCEPT ![name].mark = TRUE] = u
    BY <1>0
<1>3. /\ r \in IntfT /\ r.parents = t[name].parents /\ r.members = t[name].members /\ r.ancestors = t[name].ancestors
      /\ r.mark /\ r.completed = t[name].completed
  <2>1. t[name] \in IntfT
      BY <1>0, <1>1 DEF Tabled
  <2>. QED BY <2>1 DEF IntfT
<1> HIDE DEF r
<1>4. Tabled(u) /\ Alike(t, u) /\ DOMAIN u = DOMAIN t /\ u[name] = r /\ \A k \in DOMAIN t : k # name => u[k] = t[k]
    BY <1>0, <1>1, <1>3, TableSet DEF Tabled
<1> HIDE DEF u
<1>5. c \in CallT /\ c.intf = name /\ c.next = 1
    BY <1>0, <1>1 DEF CallT, Tabled
<1> HIDE DEF c
<1>6. /\ ds \in Seq(CallT) /\ DOMAIN ds = 1 .. Len(cs) + 1 /\ DOMAIN cs = 1 .. Len(cs) /\ Len(cs) \in Nat
      /\ \A i \in DOMAIN cs : ds[i] = cs[i] /\ i \in DOMAIN ds
      /\ ds[Len(cs) + 1] = c /\ Len(cs) + 1 \in DOMAIN ds
    BY <1>1, <1>5
<1> HIDE DEF ds
<1>7. \A i \in DOMAIN ds : i \in DOMAIN cs \/ i = Len(cs) + 1
    BY <1>6
<1>8. \A i \in DOMAIN cs : cs[i].intf # name /\ cs[i].intf \in DOMAIN t
    BY <1>0, <1>1 DEF UnderWay
<1>9. UnderWay(u, rest, ds)
  <2>1. rest \subseteq DOMAIN u
      BY <1>0, <1>1, <1>4
  <2>2. \A i \in DOMAIN ds : ds[i].intf \in DOMAIN u /\ u[ds[i].intf].mark
      BY <1>0, <1>1, <1>3, <1>4, <1>5, <1>6, <1>7, <1>8 DEF UnderWay
  <2>3. \A n \in DOMAIN u : u[n].mark => \E i \in DOMAIN ds : ds[i].intf = n
      BY <1>0, <1>1, <1>4, <1>5, <1>6 DEF UnderWay
  <2>4. \A i, j \in DOMAIN ds : ds[i].intf = ds[j].intf => i = j
      BY <1>0, <1>1, <1>5, <1>6, <1>7, <1>8 DEF UnderWay
  <2>5. \A n \in DOMAIN u \ rest : u[n].mark \/ u[n].completed
      BY <1>0, <1>1, <1>3, <1>4 DEF UnderWay
  <2>. QED BY <1>6, <2>1, <2>2, <2>3, <2>4, <2>5 DEF UnderWay
<1>10. /\ \A n \in DOMAIN t : Up(u, n) = Up(t, n) /\ Above(u, n) = Above(t, n)
       /\ Joined(u) <=> Joined(t)
    BY <1>4, AlikeAbove
<1>11. \A n \in DOMAIN t : u[n].ancestors = t[n].ancestors /\ u[n].completed = t[n].completed
    BY <1>0, <1>3, <1>4
<1>12. Sound(u, ds)
  <2>1. \A n \in DOMAIN u : u[n].ancestors \subseteq Above(u, n)
      BY <1>1, <1>4, <1>10, <1>11 DEF Sound
  <2>2. ASSUME NEW i \in DOMAIN cs PROVE name \in Above(t, cs[i].intf)
    <3> DEFINE last == cs[Len(cs)].intf
    <3>1. Len(cs) \in DOMAIN cs /\ Last(cs).intf = last
        BY <1>6 DEF Last
    <3>2. name \in Up(t, last) /\ last \in DOMAIN t
        BY <1>0, <1>8, <3>1
    <3> HIDE DEF last
    <3>3. CASE i = Len(cs)
      <4>1. last = cs[i].intf
          BY <3>3 DEF last
      <4>. QED BY <3>2, <4>1, AboveHas
    <3>4. CASE i # Len(cs)
      <4>1. last \in Above(t, cs[i].intf)
          BY <1>1, <1>6, <3>4 DEF Sound, last
      <4>. QED BY <1>8, <3>2, <4>1, AboveHas
    <3>. QED BY <3>3, <3>4
  <2>3. \A i, j \in DOMAIN ds : i < j => ds[j].intf \in Above(u, ds[i].intf)
    <3> SUFFICES ASSUME NEW i \in DOMAIN ds, NEW j \in DOMAIN ds, i < j PROVE ds[j].intf \in Above(u, ds[i].intf)
        OBVIOUS
    <3>1. i \in DOMAIN cs
        BY <1>6
    <3>2. Above(u, ds[i].intf) = Above(t, cs[i].intf) /\ i \in DOMAIN cs
        BY <1>6, <1>8, <1>10, <3>1
    <3>3. CASE j \in DOMAIN cs
        BY <1>1, <1>6, <3>2, <3>3 DEF Sound
    <3>4. CASE j = Len(cs) + 1
        BY <1>5, <1>6, <2>2, <3>2, <3>4
    <3>. QED BY <1>7, <3>3, <3>4
  <2>. QED BY <2>1, <2>3 DEF Sound
<1>13. ASSUME Merging(t, cs) PROVE Merging(u, ds)
  <2>1. ASSUME NEW n \in DOMAIN t
        PROVE  /\ n \notin u[n].ancestors
               /\ \A a \in u[n].ancestors : u[a].completed /\ u[a].ancestors \subseteq u[n].ancestors
               /\ u[n].completed => Up(u, n) \subseteq u[n].ancestors /\ AllDiffer(u, n, u[n].ancestors)
    <3>1. /\ u[n].ancestors = t[n].ancestors /\ u[n].completed = t[n].completed /\ Up(u, n) = Up(t, n)
          /\ t[n].ancestors \subseteq DOMAIN t
        BY <1>1, <1>10, <1>11 DEF Tabled
    <3>2. AllDiffer(t, n, t[n].ancestors) => AllDiffer(u, n, t[n].ancestors)
        BY <1>4, <3>1 DEF AllDiffer, Alike
    <3>. QED BY <1>11, <1>13, <3>1, <3>2 DEF Merging
  <2>2. ASSUME NEW i \in DOMAIN ds, NEW k \in DOMAIN u[ds[i].intf].parents, k < ds[i].next
        PROVE  u[ds[i].intf].parents[k] \in u[ds[i].intf].ancestors
    <3>1. CASE i \in DOMAIN cs
        BY <1>4, <1>6, <1>8, <1>13, <2>2, <3>1 DEF Merging
    <3>2. CASE i = Len(cs) + 1
      <4>1. u[ds[i].intf].parents \in Seq(Name) /\ k < 1
          BY <1>3, <1>4, <1>5, <1>6, <2>2, <3>2 DEF IntfT
      <4>. QED BY <4>1
    <3>. QED BY <1>7, <3>1, <3>2
  <2>. QED BY <1>4, <2>1, <2>2 DEF Merging
<1>14. Exact(u, ds, e, unique)
    BY <1>1, <1>10, <1>13 DEF Exact
<1>15. Linking(u, rest, ds, e, unique)
    BY <1>4, <1>9, <1>12, <1>14 DEF Linking
<1>. QED BY <1>2, <1>15 DEF ds, c, Marked, Entered

(* A name that is complete already. *)
LEMMA SkipLinks ==
    ASSUME NEW t, NEW un, NEW e, NEW unique, Linking(t, un, <<>>, e, unique), NEW name \in un, t[name].completed
    PROVE  Linking(t, un \ {name}, <<>>, e, unique)
BY DEF Linking, UnderWay

Onward(cs) == [cs EXCEPT ![Len(cs)].next = @ + 1]

LEMMA GoesOnward ==
    ASSUME NEW cs \in Seq(CallT), cs # <<>>
    PROVE  /\ Onward(cs) \in Seq(CallT) /\ DOMAIN Onward(cs) = DOMAIN cs /\ DOMAIN cs = 1 .. Len(cs) /\ Len(cs) \in Nat \ {0}
           /\ \A i \in DOMAIN cs : Onward(cs)[i].intf = cs[i].intf
           /\ \A i \in DOMAIN cs : Onward(cs)[i].next = IF i = Len(cs) THEN cs[i].next + 1 ELSE cs[i].next
           /\ Last(cs) = cs[Len(cs)] /\ \A i \in DOMAIN cs : cs[i].next \in Nat \ {0}
<1> DEFINE last == cs[Len(cs)]
           c == [last EXCEPT !.next = last.next + 1]
<1>1. Len(cs) \in Nat \ {0} /\ DOMAIN cs = 1 .. Len(cs) /\ last \in CallT
    OBVIOUS
<1>2. Onward(cs) = [cs EXCEPT ![Len(cs)] = c]
    BY DEF Onward
<1>3. c \in CallT /\ c.intf = last.intf /\ c.next = last.next + 1
  <2> DEFINE next == last.next + 1
  <2>1. next \in Nat \ {0}
      BY <1>1 DEF CallT
  <2>2. c = [last EXCEPT !.next = next]
      OBVIOUS
  <2> HIDE DEF next, last, c
  <2>3. c \in CallT /\ c.intf = last.intf /\ c.next = next
      BY <1>1, <2>1, <2>2 DEF CallT
  <2>. QED BY <2>3 DEF next
<1> HIDE DEF c
<1>4. Onward(cs) \in Seq(CallT) /\ DOMAIN Onward(cs) = DOMAIN cs
      /\ \A i \in DOMAIN cs : Onward(cs)[i] = IF i = Len(cs) THEN c ELSE cs[i]
    BY <1>1, <1>2, <1>3
<1>5. \A i \in DOMAIN cs : cs[i].next \in Nat \ {0}
  <2>1. \A i \in DOMAIN cs : cs[i] \in CallT
      OBVIOUS
  <2>. QED BY <2>1 DEF CallT
<1>. QED BY <1>1, <1>3, <1>4, <1>5 DEF Last

(* The parent that a call is about to look at. *)
Looking(t, cs) == cs # <<>> /\ Last(cs).next <= Len(t[Last(cs).intf].parents)
Looked(t, cs) == t[Last(cs).intf].parents[Last(cs).next]

LEMMA LookedAt ==
    ASSUME NEW t, NEW un, NEW cs, Tabled(t), UnderWay(t, un, cs), Looking(t, cs)
    PROVE  /\ Last(cs).next \in DOMAIN t[Last(cs).intf].parents /\ Looked(t, cs) \in Up(t, Last(cs).intf)
           /\ Looked(t, cs) \in Above(t, Last(cs).intf) /\ Last(cs).intf \in DOMAIN t
<1> DEFINE n == Last(cs).intf
           k == Last(cs).next
           parents == t[n].parents
<1>1. cs \in Seq(CallT) /\ cs # <<>>
    BY DEF UnderWay, Looking
<1>2. Last(cs) = cs[Len(cs)] /\ Len(cs) \in DOMAIN cs /\ k \in Nat \ {0}
    BY <1>1, GoesOnward
<1>3. n \in DOMAIN t
    BY <1>2 DEF UnderWay
<1>4. parents \in Seq(Name)
    BY <1>3 DEF Tabled, IntfT
<1>5. k <= Len(parents)
    BY DEF Looking
<1> HIDE DEF n, k, parents
<1>6. k \in DOMAIN parents
    BY <1>2, <1>4, <1>5
<1>7. parents[k] \in Range(parents)
    BY <1>6 DEF Range
<1>. QED BY <1>3, <1>6, <1>7, AboveHas DEF n, k, parents, Looked, Up

LEMMA OnwardUnderWay ==
    ASSUME NEW t, NEW un, NEW cs, UnderWay(t, un, cs), cs # <<>>
    PROVE  UnderWay(t, un, Onward(cs))
<1>1. cs \in Seq(CallT)
    BY DEF UnderWay
<1>2. Onward(cs) \in Seq(CallT) /\ DOMAIN Onward(cs) = DOMAIN cs /\ \A i \in DOMAIN cs : Onward(cs)[i].intf = cs[i].intf
    BY <1>1, GoesOnward
<1>. QED BY <1>2 DEF UnderWay

LEMMA UndefinedLinks ==
    ASSUME NEW t, NEW un, NEW cs, NEW e, NEW unique, Linking(t, un, cs, e, unique), Looking(t, cs),
           Looked(t, cs) \notin DOMAIN t
    PROVE  Linking(t, un, Onward(cs), e + 1, unique)
<1>1. Tabled(t) /\ UnderWay(t, un, cs) /\ Sound(t, cs) /\ Exact(t, cs, e, unique) /\ cs \in Seq(CallT) /\ cs # <<>>
    BY DEF Linking, UnderWay, Looking
<1>2. DOMAIN Onward(cs) = DOMAIN cs /\ \A i \in DOMAIN cs : Onward(cs)[i].intf = cs[i].intf
    BY <1>1, GoesOnward
<1>3. UnderWay(t, un, Onward(cs))
    BY <1>1, OnwardUnderWay
<1>4. Sound(t, Onward(cs))
    BY <1>1, <1>2 DEF Sound
<1>5. ~ Joined(t)
    BY <1>1, LookedAt DEF Joined
<1>6. Exact(t, Onward(cs), e + 1, unique)
    BY <1>1, <1>5 DEF Exact
<1>. QED BY <1>1, <1>3, <1>4, <1>6 DEF Linking

(* processIntf() of a parent has returned. *)
LEMMA MergeLinks ==
    ASSUME NEW t, NEW un, NEW cs, NEW e, NEW unique, Linking(t, un, cs, e, unique), Looking(t, cs),
           NEW parent \in DOMAIN t, parent = Looked(t, cs), t[parent].mark \/ t[parent].completed
    PROVE  Linking([t EXCEPT ![Last(cs).intf].ancestors = t[Last(cs).intf].ancestors \cup t[parent].ancestors \cup {parent}],
                   un, Onward(cs), e + (IF t[parent].mark THEN 1 ELSE 0), unique)
<1> DEFINE n == Last(cs).intf
           anc == t[n].ancestors \cup t[parent].ancestors \cup {parent}
           r == [t[n] EXCEPT !.ancestors = anc]
           u == [t EXCEPT ![n] = r]
           ds == Onward(cs)
           errors == e + (IF t[parent].mark THEN 1 ELSE 0)
<1>1. Tabled(t) /\ UnderWay(t, un, cs) /\ Sound(t, cs) /\ Exact(t, cs, e, unique) /\ cs \in Seq(CallT) /\ cs # <<>>
    BY DEF Linking, UnderWay, Looking
<1>2. /\ DOMAIN ds = DOMAIN cs /\ \A i \in DOMAIN cs : ds[i].intf = cs[i].intf
      /\ \A i \in DOMAIN cs : ds[i].next = IF i = Len(cs) THEN cs[i].next + 1 ELSE cs[i].next
      /\ Last(cs) = cs[Len(cs)] /\ Len(cs) \in DOMAIN cs /\ DOMAIN cs = 1 .. Len(cs) /\ Len(cs) \in Nat
      /\ \A i \in DOMAIN cs : cs[i].next \in Nat \ {0}
    BY <1>1, GoesOnward
<1>3. /\ parent \in Up(t, n) /\ parent \in Above(t, n) /\ n \in DOMAIN t /\ parent = t[n].parents[Last(cs).next]
      /\ Last(cs).next \in DOMAIN t[n].parents
    BY <1>1, LookedAt DEF Looked
<1>4. [t EXCEPT ![n].ancestors = anc] = u
    OBVIOUS
<1>5. anc \subseteq DOMAIN t /\ DOMAIN t \subseteq Name
    BY <1>1, <1>3 DEF Tabled
<1>6. n = cs[Len(cs)].intf /\ t[n].mark /\ ~ t[n].completed /\ (t[parent].mark => ~ t[parent].completed)
    BY <1>1, <1>2 DEF UnderWay, Tabled
<1>15. \A i \in DOMAIN cs : cs[i].intf = n => i = Len(cs)
    BY <1>1, <1>2, <1>6 DEF UnderWay
<1>16. anc = t[n].ancestors \cup t[parent].ancestors \cup {parent}
    OBVIOUS
<1> HIDE DEF n, anc, ds
<1>7. /\ r \in IntfT /\ r.parents = t[n].parents /\ r.members = t[n].members /\ r.ancestors = anc
      /\ r.mark = t[n].mark /\ r.completed = t[n].completed
    BY <1>1, <1>3, <1>5 DEF Tabled, IntfT
<1> HIDE DEF r
<1>8. Tabled(u) /\ Alike(t, u) /\ DOMAIN u = DOMAIN t /\ u[n] = r /\ \A k \in DOMAIN t : k # n => u[k] = t[k]
    BY <1>1, <1>3, <1>5, <1>7, TableSet DEF Tabled
<1> HIDE DEF u
<1>9. \A k \in DOMAIN t : u[k].mark = t[k].mark /\ u[k].completed = t[k].completed
    BY <1>7, <1>8
<1>10. UnderWay(u, un, ds)
  <2>1. UnderWay(t, un, ds)
      BY <1>1, OnwardUnderWay DEF ds
  <2>. QED BY <1>8, <1>9, <2>1 DEF UnderWay
<1>11. /\ \A k \in DOMAIN t : Up(u, k) = Up(t, k) /\ Above(u, k) = Above(t, k)
       /\ Joined(u) <=> Joined(t)
    BY <1>8, AlikeAbove
<1>12. Sound(u, ds)
  <2>1. t[parent].ancestors \subseteq Above(t, n)
      BY <1>1, <1>3, AboveAbove DEF Sound
  <2>2. anc \subseteq Above(t, n)
      BY <1>1, <1>3, <1>16, <2>1 DEF Sound
  <2>3. \A k \in DOMAIN t : u[k].ancestors \subseteq Above(t, k)
      BY <1>1, <1>7, <1>8, <2>2 DEF Sound
  <2>4. \A i, j \in DOMAIN cs : i < j => ds[j].intf \in Above(u, ds[i].intf)
    <3>1. \A i \in DOMAIN cs : cs[i].intf \in DOMAIN t
        BY <1>1 DEF UnderWay
    <3>. QED BY <1>1, <1>2, <1>11, <3>1 DEF Sound
  <2>. QED BY <1>2, <1>8, <1>11, <2>3, <2>4 DEF Sound
<1>13. ASSUME Merging(t, cs), ~ t[parent].mark PROVE Merging(u, ds)
  <2>1. t[parent].completed /\ parent # n
      BY <1>6, <1>13
  <2>2. \A k \in DOMAIN t : n \notin t[k].ancestors
      BY <1>6, <1>13 DEF Merging
  <2>3. \A k \in DOMAIN t : t[k].ancestors \subseteq u[k].ancestors
      BY <1>7, <1>8, <1>16
  <2>4. n \notin anc
      BY <1>3, <1>16, <2>1, <2>2
  <2>5. ASSUME NEW k \in DOMAIN t
        PROVE  /\ k \notin u[k].ancestors
               /\ \A a \in u[k].ancestors : u[a].completed /\ u[a].ancestors \subseteq u[k].ancestors
               /\ u[k].completed => Up(u, k) \subseteq u[k].ancestors /\ AllDiffer(u, k, u[k].ancestors)
    <3>1. t[k].ancestors \subseteq DOMAIN t
        BY <1>1 DEF Tabled
    <3>2. CASE k # n
      <4>1. u[k] = t[k] /\ \A a \in t[k].ancestors : u[a] = t[a]
          BY <1>8, <2>2, <3>1, <3>2
      <4>2. AllDiffer(t, k, t[k].ancestors) => AllDiffer(u, k, t[k].ancestors)
          BY <1>8, <3>1 DEF AllDiffer, Alike
      <4>. QED BY <1>11, <1>13, <4>1, <4>2 DEF Merging
    <3>3. CASE k = n
      <4>1. u[k].ancestors = anc /\ ~ u[k].completed /\ \A a \in anc : u[a] = t[a]
          BY <1>5, <1>6, <1>7, <1>8, <2>4, <3>3
      <4>2. ASSUME NEW a \in anc PROVE t[a].completed /\ t[a].ancestors \subseteq anc
        <5>1. CASE a \in t[n].ancestors
            BY <1>3, <1>13, <1>16, <5>1 DEF Merging
        <5>2. CASE a \in t[parent].ancestors
            BY <1>13, <1>16, <5>2 DEF Merging
        <5>3. CASE a = parent
            BY <1>16, <2>1, <5>3
        <5>. QED BY <1>16, <5>1, <5>2, <5>3
      <4>. QED BY <2>4, <3>3, <4>1, <4>2
    <3>. QED BY <3>2, <3>3
  <2>6. ASSUME NEW i \in DOMAIN cs, NEW k \in DOMAIN u[cs[i].intf].parents, k < ds[i].next
        PROVE  u[cs[i].intf].parents[k] \in u[cs[i].intf].ancestors
    <3>1. cs[i].intf \in DOMAIN t /\ u[cs[i].intf].parents = t[cs[i].intf].parents
        BY <1>1, <1>8 DEF UnderWay, Alike
    <3>2. CASE k < cs[i].next
        BY <1>13, <2>3, <2>6, <3>1, <3>2 DEF Merging
    <3>3. CASE ~ k < cs[i].next
      <4>1. t[cs[i].intf].parents \in Seq(Name)
          BY <1>1, <3>1 DEF Tabled, IntfT
      <4>2. k \in Nat
          BY <2>6, <3>1, <4>1
      <4>3. i = Len(cs) /\ k = cs[i].next
          BY <1>2, <2>6, <3>3, <4>2
      <4>4. cs[i].intf = n /\ parent = t[n].parents[k] /\ u[n].ancestors = anc
          BY <1>2, <1>3, <1>6, <1>7, <1>8, <4>3
      <4>. QED BY <1>16, <3>1, <4>4
    <3>. QED BY <3>2, <3>3
  <2>. QED BY <1>2, <1>8, <2>5, <2>6 DEF Merging
<1>14. Exact(u, ds, errors, unique)
  <2>1. ASSUME t[parent].mark PROVE ~ Joined(t)
    <3>1. PICK i \in DOMAIN cs : cs[i].intf = parent
        BY <1>1, <2>1 DEF UnderWay
    <3>2. CASE i = Len(cs)
        BY <1>3, <1>6, <3>1, <3>2 DEF Joined
    <3>3. CASE i # Len(cs)
      <4>1. n \in Above(t, parent)
          BY <1>1, <1>2, <1>6, <3>1, <3>3 DEF Sound
      <4>2. parent \in Above(t, parent)
          BY <1>3, <4>1, AboveHas
      <4>. QED BY <4>2 DEF Joined
    <3>. QED BY <3>2, <3>3
  <2>2. errors \in Nat /\ (errors = 0 <=> e = 0 /\ ~ t[parent].mark)
      BY <1>1 DEF Exact
  <2> HIDE DEF errors
  <2>. QED BY <1>1, <1>11, <1>13, <2>1, <2>2 DEF Exact
<1>. QED BY <1>4, <1>8, <1>10, <1>12, <1>14 DEF Linking, n, ds, anc

(* processIntf() has seen all parents and compares the members. *)
LEMMA CompleteLinks ==
    ASSUME NEW t, NEW un, NEW cs, NEW e, NEW unique, Linking(t, un, cs, e, unique), cs # <<>>, ~ Looking(t, cs)
    PROVE  LET n == Last(cs).intf
           IN  Linking([t EXCEPT ![n].mark = FALSE, ![n].completed = TRUE], un, Front(cs),
                       e + Conflicts(t[n].members, [a \in t[n].ancestors |-> t[a].members]), unique)
<1> DEFINE n == Last(cs).intf
           r == [t[n] EXCEPT !.mark = FALSE, !.completed = TRUE]
           u == [t EXCEPT ![n] = r]
           ds == Front(cs)
           theirs == [a \in t[n].ancestors |-> t[a].members]
           clashes == Conflicts(t[n].members, theirs)
<1>1. Tabled(t) /\ UnderWay(t, un, cs) /\ Sound(t, cs) /\ Exact(t, cs, e, unique) /\ cs \in Seq(CallT)
    BY DEF Linking, UnderWay
<1>2. /\ DOMAIN ds = 1 .. Len(cs) - 1 /\ \A i \in DOMAIN ds : ds[i] = cs[i] /\ i \in DOMAIN cs
      /\ ds \in Seq(CallT) /\ Len(cs) \in Nat \ {0} /\ DOMAIN cs = 1 .. Len(cs)
    BY <1>1, FrontIs
<1>3. n = cs[Len(cs)].intf /\ Last(cs) = cs[Len(cs)] /\ Len(cs) \in DOMAIN cs /\ cs[Len(cs)].next \in Nat
    BY <1>1, GoesOnward
<1>4. n \in DOMAIN t /\ t[n].mark
    BY <1>1, <1>3 DEF UnderWay
<1>5. t[n].ancestors \subseteq DOMAIN t /\ t[n].parents \in Seq(Name)
    BY <1>1, <1>4 DEF Tabled, IntfT
<1>6. [t EXCEPT ![n].mark = FALSE, ![n].completed = TRUE] = u
  <2> DEFINE v == [[t EXCEPT ![n] = [t[n] EXCEPT !.mark = FALSE]] EXCEPT ![n] = [[t[n] EXCEPT !.mark = FALSE] EXCEPT !.completed = TRUE]]
  <2>1. [t EXCEPT ![n].mark = FALSE, ![n].completed = TRUE] = v
      BY <1>4
  <2>2. v = u
      BY <1>4
  <2>. QED BY <2>1, <2>2
<1>18. \A k \in DOMAIN t[n].parents : k < cs[Len(cs)].next
  <2>1. Len(t[n].parents) < cs[Len(cs)].next
      BY <1>3, <1>5 DEF Looking
  <2>. QED BY <1>3, <1>5, <2>1
<1> HIDE DEF n, ds
<1>7. /\ r \in IntfT /\ r.parents = t[n].parents /\ r.members = t[n].members /\ r.ancestors = t[n].ancestors
      /\ ~ r.mark /\ r.completed
  <2>1. t[n] \in IntfT
      BY <1>1, <1>4 DEF Tabled
  <2>. QED BY <2>1 DEF IntfT
<1> HIDE DEF r
<1>8. Tabled(u) /\ Alike(t, u) /\ DOMAIN u = DOMAIN t /\ u[n] = r /\ \A k \in DOMAIN t : k # n => u[k] = t[k]
    BY <1>1, <1>4, <1>5, <1>7, TableSet
<1> HIDE DEF u
<1>9. \A k \in DOMAIN t : u[k].ancestors = t[k].ancestors /\ (t[k].completed => u[k].completed)
    BY <1>7, <1>8
<1>10. \A i \in DOMAIN cs : cs[i].intf \in DOMAIN t /\ (cs[i].intf = n <=> i = Len(cs))
    BY <1>1, <1>3 DEF UnderWay
<1>11. \A i \in DOMAIN ds : i # Len(cs) /\ ds[i].intf # n /\ ds[i].intf \in DOMAIN t
    BY <1>2, <1>10
<1>12. UnderWay(u, un, ds)
  <2>1. un \subseteq DOMAIN u
      BY <1>1, <1>8 DEF UnderWay
  <2>2. \A i \in DOMAIN ds : ds[i].intf \in DOMAIN u /\ u[ds[i].intf].mark
      BY <1>1, <1>2, <1>8, <1>11 DEF UnderWay
  <2>3. ASSUME NEW k \in DOMAIN u, u[k].mark PROVE \E i \in DOMAIN ds : ds[i].intf = k
    <3>1. k # n /\ t[k].mark
        BY <1>7, <1>8, <2>3
    <3>2. PICK i \in DOMAIN cs : cs[i].intf = k
        BY <1>1, <1>8, <3>1 DEF UnderWay
    <3>3. i # Len(cs)
        BY <1>3, <3>1, <3>2
    <3>4. i \in DOMAIN ds
        BY <1>2, <3>3
    <3>. QED BY <1>2, <3>2, <3>4
  <2>4. \A i, j \in DOMAIN ds : ds[i].intf = ds[j].intf => i = j
      BY <1>1, <1>2 DEF UnderWay
  <2>5. \A k \in DOMAIN u \ un : u[k].mark \/ u[k].completed
      BY <1>1, <1>7, <1>8 DEF UnderWay
  <2>. QED BY <1>2, <2>1, <2>2, <2>3, <2>4, <2>5 DEF UnderWay
<1>13. /\ \A k \in DOMAIN t : Up(u, k) = Up(t, k) /\ Above(u, k) = Above(t, k)
       /\ Joined(u) <=> Joined(t)
    BY <1>8, AlikeAbove
<1>14. Sound(u, ds)
  <2>1. \A k \in DOMAIN u : u[k].ancestors \subseteq Above(u, k)
      BY <1>1, <1>8, <1>9, <1>13 DEF Sound
  <2>2. \A i, j \in DOMAIN ds : i < j => ds[j].intf \in Above(u, ds[i].intf)
      BY <1>1, <1>2, <1>11, <1>13 DEF Sound
  <2>. QED BY <2>1, <2>2 DEF Sound
<1>15. clashes \in Nat /\ (n \notin t[n].ancestors => (clashes = 0 <=> AllDiffer(t, n, t[n].ancestors)))
  <2>1. /\ IsFiniteSet(DOMAIN theirs) /\ DOMAIN theirs = t[n].ancestors
        /\ \A a \in DOMAIN theirs : IsFiniteSet(theirs[a]) /\ theirs[a] = t[a].members
    <3>1. IsFiniteSet(t[n].ancestors)
        BY <1>1, <1>5, FS_Subset DEF Tabled
    <3>. QED BY <1>1, <1>5, <3>1 DEF Tabled
  <2> HIDE DEF theirs
  <2>2. /\ clashes \in Nat
        /\ clashes = 0 <=> /\ \A a \in DOMAIN theirs : t[n].members \cap theirs[a] = {}
                           /\ \A a, b \in DOMAIN theirs : a # b => theirs[a] \cap theirs[b] = {}
      BY <2>1, ConflictsCount
  <2> HIDE DEF clashes
  <2>3. ASSUME n \notin t[n].ancestors
        PROVE  clashes = 0 <=> AllDiffer(t, n, t[n].ancestors)
    <3>1. clashes = 0 <=> /\ \A a \in t[n].ancestors : t[n].members \cap t[a].members = {}
                          /\ \A a, b \in t[n].ancestors : a # b => t[a].members \cap t[b].members = {}
        BY <2>1, <2>2
    <3>2. AllDiffer(t, n, t[n].ancestors) => clashes = 0
        BY <2>3, <3>1 DEF AllDiffer
    <3>3. clashes = 0 => AllDiffer(t, n, t[n].ancestors)
        BY <2>3, <3>1 DEF AllDiffer
    <3>. QED BY <3>2, <3>3
  <2>. QED BY <2>2, <2>3
<1> HIDE DEF theirs, clashes
<1>16. ASSUME Merging(t, cs), clashes = 0 PROVE Merging(u, ds)
  <2>1. ASSUME NEW k \in DOMAIN t
        PROVE  /\ k \notin u[k].ancestors
               /\ \A a \in u[k].ancestors : u[a].completed /\ u[a].ancestors \subseteq u[k].ancestors
               /\ u[k].completed => Up(u, k) \subseteq u[k].ancestors /\ AllDiffer(u, k, u[k].ancestors)
    <3>1. /\ u[k].ancestors = t[k].ancestors /\ Up(u, k) = Up(t, k) /\ t[k].ancestors \subseteq DOMAIN t
          /\ k \notin t[k].ancestors
        BY <1>1, <1>9, <1>13, <1>16 DEF Tabled, Merging
    <3>2. AllDiffer(t, k, t[k].ancestors) => AllDiffer(u, k, t[k].ancestors)
        BY <1>8, <3>1 DEF AllDiffer, Alike
    <3>3. \A a \in t[k].ancestors : u[a].completed /\ u[a].ancestors \subseteq t[k].ancestors
        BY <1>9, <1>16, <3>1 DEF Merging
    <3>4. CASE k # n
        BY <1>8, <1>16, <3>1, <3>2, <3>3, <3>4 DEF Merging
    <3>5. CASE k = n
      <4>1. Up(t, n) \subseteq t[n].ancestors
        <5>1. \A j \in DOMAIN t[n].parents : t[n].parents[j] \in t[n].ancestors
            BY <1>3, <1>16, <1>18 DEF Merging
        <5>. QED BY <5>1 DEF Up, Range
      <4>2. AllDiffer(t, n, t[n].ancestors)
          BY <1>15, <1>16, <3>1, <3>5
      <4>. QED BY <3>1, <3>2, <3>3, <3>5, <4>1, <4>2
    <3>. QED BY <3>4, <3>5
  <2>2. \A i \in DOMAIN ds : \A k \in DOMAIN u[ds[i].intf].parents :
            k < ds[i].next => u[ds[i].intf].parents[k] \in u[ds[i].intf].ancestors
    <3> TAKE i \in DOMAIN ds
    <3>1. u[ds[i].intf] = t[ds[i].intf] /\ ds[i] = cs[i] /\ i \in DOMAIN cs
        BY <1>2, <1>8, <1>11
    <3>. QED BY <1>16, <3>1 DEF Merging
  <2>. QED BY <1>8, <2>1, <2>2 DEF Merging
<1>17. Exact(u, ds, e + clashes, unique)
  <2>1. e \in Nat /\ e + clashes \in Nat /\ (e + clashes = 0 <=> e = 0 /\ clashes = 0)
      BY <1>1, <1>15 DEF Exact
  <2>2. ASSUME Joined(t) PROVE clashes = 0
    <3>1. t[n].ancestors \subseteq Above(t, n) /\ n \notin Above(t, n) /\ AllDiffer(t, n, Above(t, n))
        BY <1>1, <1>4, <2>2 DEF Sound, Joined
    <3>. QED BY <1>15, <3>1 DEF AllDiffer
  <2>. QED BY <1>1, <1>13, <1>16, <2>1, <2>2 DEF Exact
<1>. QED BY <1>6, <1>8, <1>12, <1>14, <1>17 DEF Linking, n, ds, clashes, theirs

-----------------------------------------------------------------------------
(* The linker at work on the elements. *)

LEMMA FirstIs ==
    ASSUME elements \in Seq(Element), NEW n \in ElementNames
    PROVE  FirstOf(n) \in Element /\ FirstOf(n).name = n
<1> DEFINE I == {i \in 1 .. Len(elements) : elements[i].name = n}
<1>1. Len(elements) \in Nat /\ DOMAIN elements = 1 .. Len(elements) /\ \A i \in DOMAIN elements : elements[i] \in Element
    OBVIOUS
<1>2. I # {} /\ I \in SUBSET Nat
    BY <1>1 DEF ElementNames
<1>3. SelectInSeq(elements, LAMBDA e : e.name = n) = Min(I)
    BY <1>2 DEF SelectInSeq
<1>4. FirstOf(n) = elements[Min(I)]
    BY <1>3 DEF FirstOf
<1> HIDE DEF I
<1>5. Min(I) \in I
    BY <1>2, LeastNumber
<1>6. Min(I) \in 1 .. Len(elements) /\ elements[Min(I)].name = n
    BY <1>5 DEF I
<1>. QED BY <1>1, <1>4, <1>6

LEMMA SameFirst ==
    ASSUME elements' = elements
    PROVE  ElementNames' = ElementNames /\ \A n : FirstOf(n)' = FirstOf(n)
BY DEF ElementNames, FirstOf, SelectInSeq

(* The table holds the elements as they were collected. *)
Matches ==
    /\ DOMAIN symTbl = ElementNames
    /\ \A n \in ElementNames : symTbl[n].parents = FirstOf(n).parents /\ symTbl[n].members = Range(FirstOf(n).members)

Unique == Cardinality(ElementNames) = Len(elements)

LinkKept ==
    /\ phase \in {"idle", "compile", "collect"} => calls = <<>>
    /\ phase = "link" => Matches /\ Linking(symTbl, unlinked, calls, linkErrors, Unique)

LEMMA CollectKept == IdlcKept /\ LinkKept /\ Collect => LinkKept'
<1> SUFFICES ASSUME IdlcKept, LinkKept, Collect PROVE LinkKept'
    OBVIOUS
<1> DEFINE E == ElementNames
           t == [n \in E |-> Intf(FirstOf(n))]
           e == Len(elements) - Cardinality(E)
<1>1. /\ symTbl' = t /\ unlinked' = E /\ linkErrors' = e /\ calls' = <<>> /\ elements' = elements /\ phase' = "link"
    BY DEF Collect, LinkKept, ElementNames
<1>2. elements \in Seq(Element) /\ Len(elements) \in Nat /\ DOMAIN elements = 1 .. Len(elements)
    BY DEF IdlcKept
<1>3. IsFiniteSet(E) /\ e \in Nat /\ Cardinality(E) \in Nat
  <2> DEFINE f == [i \in DOMAIN elements |-> elements[i].name]
  <2>1. IsFiniteSet(DOMAIN f) /\ Cardinality(DOMAIN f) = Len(elements)
    <3>1. IsFiniteSet(1 .. Len(elements)) /\ Cardinality(1 .. Len(elements)) = Len(elements)
      <4>1. CASE Len(elements) = 0
          BY <4>1, FS_EmptySet
      <4>2. CASE Len(elements) # 0
        <5>1. 1 \in Int /\ Len(elements) \in Int /\ ~ (1 > Len(elements)) /\ Len(elements) - 1 + 1 = Len(elements)
            BY <1>2, <4>2
        <5>. QED BY <5>1, FS_Interval
      <4>. QED BY <4>1, <4>2
    <3>. QED BY <1>2, <3>1
  <2>2. {f[i] : i \in DOMAIN f} = E
      BY DEF ElementNames
  <2> HIDE DEF f, E
  <2>3. IsFiniteSet(E) /\ Cardinality(E) <= Len(elements)
      BY <2>1, <2>2, ImageFinite
  <2>. QED BY <1>2, <2>3, FS_CardinalityType
<1>4. \A n \in E : n \in Name /\ FirstOf(n) \in Element
  <2> TAKE n \in E
  <2>1. FirstOf(n) \in Element /\ FirstOf(n).name = n
      BY <1>2, FirstIs
  <2>. QED BY <2>1 DEF Element
<1>5. \A n \in E : /\ Intf(FirstOf(n)) \in IntfT /\ IsFiniteSet(Intf(FirstOf(n)).members)
                   /\ Intf(FirstOf(n)).parents = FirstOf(n).parents
                   /\ Intf(FirstOf(n)).members = Range(FirstOf(n).members)
                   /\ Intf(FirstOf(n)).ancestors = {} /\ ~ Intf(FirstOf(n)).mark /\ ~ Intf(FirstOf(n)).completed
  <2> TAKE n \in E
  <2> DEFINE x == FirstOf(n)
             r == Range(x.members)
  <2>1. x.parents \in Seq(Name) /\ x.members \in Seq(STRING)
      BY <1>4 DEF Element
  <2>2. r \in SUBSET STRING /\ IsFiniteSet(r)
      BY <2>1, RangeFinite
  <2>3. Intf(x) = [parents |-> x.parents, members |-> r, ancestors |-> {}, mark |-> FALSE, completed |-> FALSE]
      BY DEF Intf
  <2> HIDE DEF r, x
  <2>4. Intf(x) \in IntfT
      BY <2>1, <2>2, <2>3 DEF IntfT
  <2>. QED BY <2>2, <2>3, <2>4 DEF r, x
<1>6. DOMAIN t = E /\ \A n \in E : t[n] = Intf(FirstOf(n))
    OBVIOUS
<1> HIDE DEF E, t, e
<1>7. Tabled(t)
    BY <1>3, <1>4, <1>5, <1>6 DEF Tabled
<1>8. UnderWay(t, E, <<>>)
    BY <1>5, <1>6 DEF UnderWay
<1>9. Sound(t, <<>>)
    BY <1>5, <1>6 DEF Sound
<1>10. Merging(t, <<>>)
    BY <1>5, <1>6 DEF Merging
<1>11. Exact(t, <<>>, e, Unique)
  <2>1. e = 0 <=> Unique
      BY <1>2, <1>3 DEF Unique, e, E
  <2>. QED BY <1>3, <1>10, <2>1 DEF Exact
<1>12. Linking(t, E, <<>>, e, Unique)
    BY <1>7, <1>8, <1>9, <1>11 DEF Linking
<1>13. ElementNames' = ElementNames /\ \A n : FirstOf(n)' = FirstOf(n)
    BY <1>1, SameFirst
<1>14. Unique' = Unique
    BY <1>1, <1>13 DEF Unique
<1>15. Matches'
    BY <1>1, <1>5, <1>6, <1>13 DEF Matches, E
<1>16. Linking(symTbl', unlinked', calls', linkErrors', Unique')
    BY <1>1, <1>12, <1>14
<1>. QED BY <1>1, <1>15, <1>16 DEF LinkKept

(* A step of the linker keeps the graph. *)
LEMMA LinkStepKept ==
    ASSUME LinkKept, phase = "link", elements' = elements, phase' = "link", Alike(symTbl, symTbl'),
           Linking(symTbl', unlinked', calls', linkErrors', Unique)
    PROVE  LinkKept'
<1>1. ElementNames' = ElementNames /\ \A n : FirstOf(n)' = FirstOf(n)
    BY SameFirst
<1>2. Unique' = Unique
    BY <1>1 DEF Unique
<1>3. Matches'
    BY <1>1 DEF LinkKept, Matches, Alike
<1>4. Linking(symTbl', unlinked', calls', linkErrors', Unique')
    BY <1>2
<1>. QED BY <1>3, <1>4 DEF LinkKept

LEMMA EnterKept ==
    ASSUME LinkKept, phase = "link", NEW name \in DOMAIN symTbl, ~ symTbl[name].mark, ~ symTbl[name].completed,
           Enter(name), unlinked' \in {unlinked, unlinked \ {name}},
           calls = <<>> \/ name \in Up(symTbl, Last(calls).intf)
    PROVE  LinkKept'
<1>1. Linking(symTbl, unlinked, calls, linkErrors, Unique)
    BY DEF LinkKept
<1>2. /\ symTbl' = [symTbl EXCEPT ![name].mark = TRUE] /\ calls' = Append(calls, [intf |-> name, next |-> 1])
      /\ linkErrors' = linkErrors /\ elements' = elements /\ phase' = "link"
    BY DEF Enter, LinkFrame
<1>3. Linking(symTbl', unlinked', calls', linkErrors', Unique)
  <2> DEFINE t == symTbl
             cs == calls
             un == unlinked
             u == symTbl'
             ds == calls'
             rest == unlinked'
             unique == Unique
  <2>1. Linking(t, un, cs, linkErrors, unique) /\ Entering(t, un, cs, name, rest)
      BY <1>1 DEF Entering
  <2>2. u = Marked(t, name) /\ ds = Entered(cs, name)
      BY <1>2 DEF Marked, Entered
  <2> HIDE DEF t, cs, un, u, ds, rest, unique
  <2>3. Linking(Marked(t, name), rest, Entered(cs, name), linkErrors, unique)
      BY <2>1, EnterLinks
  <2>. QED BY <1>2, <2>2, <2>3 DEF u, ds, rest, unique
<1>4. Alike(symTbl, symTbl')
    BY <1>2 DEF Alike
<1>. QED BY <1>2, <1>3, <1>4, LinkStepKept

LEMMA ProcessKept == LinkKept /\ (ProcessNext \/ ProcessParent) => LinkKept'
<1> SUFFICES ASSUME LinkKept, ProcessNext \/ ProcessParent PROVE LinkKept'
    OBVIOUS
<1>1. phase = "link" /\ Linking(symTbl, unlinked, calls, linkErrors, Unique)
    BY DEF ProcessNext, ProcessParent, LinkKept
<1>2. Tabled(symTbl) /\ UnderWay(symTbl, unlinked, calls)
    BY <1>1 DEF Linking
<1>3. CASE ProcessNext
  <2>1. PICK name \in unlinked :
            /\ unlinked' = unlinked \ {name}
            /\ IF symTbl[name].completed THEN UNCHANGED <<symTbl, calls, linkErrors>> /\ LinkFrame ELSE Enter(name)
      BY <1>3 DEF ProcessNext
  <2>2. calls = <<>> /\ name \in DOMAIN symTbl
      BY <1>2, <1>3 DEF ProcessNext, UnderWay
  <2>3. CASE symTbl[name].completed
    <3>1. Linking(symTbl, unlinked \ {name}, <<>>, linkErrors, Unique)
        BY <1>1, <2>1, <2>2, <2>3, SkipLinks
    <3>2. UNCHANGED <<symTbl, calls, linkErrors>> /\ elements' = elements /\ phase' = "link"
        BY <1>1, <2>1, <2>3 DEF LinkFrame
    <3>3. Alike(symTbl, symTbl')
        BY <3>2 DEF Alike
    <3>4. Linking(symTbl', unlinked', calls', linkErrors', Unique)
        BY <2>1, <2>2, <3>1, <3>2
    <3>. QED BY <1>1, <3>2, <3>3, <3>4, LinkStepKept
  <2>4. CASE ~ symTbl[name].completed
    <3>1. ~ symTbl[name].mark
        BY <1>2, <2>2 DEF UnderWay
    <3>. QED BY <1>1, <2>1, <2>2, <2>4, <3>1, EnterKept
  <2>. QED BY <2>3, <2>4
<1>4. CASE ProcessParent
  <2>1. Looking(symTbl, calls) /\ Parent = Looked(symTbl, calls) /\ unlinked' = unlinked /\ Enter(Parent)
        /\ Parent \in DOMAIN symTbl /\ ~ symTbl[Parent].mark /\ ~ symTbl[Parent].completed
      BY <1>4 DEF ProcessParent, Looking, Looked, Parent, Parents, Caller
  <2>2. Parent \in Up(symTbl, Last(calls).intf)
      BY <1>2, <2>1, LookedAt
  <2> DEFINE p == Parent
  <2>3. /\ p \in DOMAIN symTbl /\ ~ symTbl[p].mark /\ ~ symTbl[p].completed /\ Enter(p)
        /\ p \in Up(symTbl, Last(calls).intf)
      BY <2>1, <2>2
  <2> HIDE DEF p
  <2>. QED BY <1>1, <2>1, <2>3, EnterKept
<1>. QED BY <1>3, <1>4

LEMMA ParentsKept == LinkKept /\ (UndefinedParent \/ MergeParent \/ Complete) => LinkKept'
<1> SUFFICES ASSUME LinkKept, UndefinedParent \/ MergeParent \/ Complete PROVE LinkKept'
    OBVIOUS
<1>1. phase = "link" /\ Linking(symTbl, unlinked, calls, linkErrors, Unique)
    BY DEF UndefinedParent, MergeParent, Complete, LinkKept
<1>2. elements' = elements /\ phase' = "link" /\ unlinked' = unlinked /\ calls # <<>>
    BY <1>1 DEF UndefinedParent, MergeParent, Complete, LinkFrame
<1>3. CASE UndefinedParent
  <2>1. Looking(symTbl, calls) /\ Looked(symTbl, calls) \notin DOMAIN symTbl
      BY <1>3 DEF UndefinedParent, Looking, Looked, Parent, Parents, Caller
  <2>2. linkErrors' = linkErrors + 1 /\ calls' = Onward(calls) /\ symTbl' = symTbl
      BY <1>3 DEF UndefinedParent, Continue, Onward
  <2>3. Linking(symTbl, unlinked, Onward(calls), linkErrors + 1, Unique)
      BY <1>1, <2>1, UndefinedLinks
  <2>4. Linking(symTbl', unlinked', calls', linkErrors', Unique)
      BY <1>2, <2>2, <2>3
  <2>5. Alike(symTbl, symTbl')
      BY <2>2 DEF Alike
  <2>. QED BY <1>1, <1>2, <2>4, <2>5, LinkStepKept
<1>4. CASE MergeParent
  <2> DEFINE p == Parent
             n == Last(calls).intf
             t == [symTbl EXCEPT ![n].ancestors = symTbl[n].ancestors \cup symTbl[p].ancestors \cup {p}]
             e == linkErrors + (IF symTbl[p].mark THEN 1 ELSE 0)
  <2>1. Looking(symTbl, calls) /\ p = Looked(symTbl, calls) /\ p \in DOMAIN symTbl /\ (symTbl[p].mark \/ symTbl[p].completed)
      BY <1>4 DEF MergeParent, Looking, Looked, Parent, Parents, Caller
  <2>2. linkErrors' = e /\ calls' = Onward(calls) /\ symTbl' = t
      BY <1>4 DEF MergeParent, Continue, Onward, Merged, Caller
  <2> HIDE DEF p
  <2>3. Linking(t, unlinked, Onward(calls), e, Unique)
      BY <1>1, <2>1, MergeLinks
  <2>4. Alike(symTbl, t)
      BY DEF Alike
  <2> HIDE DEF t, e
  <2>5. Linking(symTbl', unlinked', calls', linkErrors', Unique)
      BY <1>2, <2>2, <2>3
  <2>6. Alike(symTbl, symTbl')
      BY <2>2, <2>4
  <2>. QED BY <1>1, <1>2, <2>5, <2>6, LinkStepKept
<1>5. CASE Complete
  <2> DEFINE n == Last(calls).intf
             t == [symTbl EXCEPT ![n].mark = FALSE, ![n].completed = TRUE]
             e == linkErrors + Conflicts(symTbl[n].members, [a \in symTbl[n].ancestors |-> symTbl[a].members])
  <2>1. ~ Looking(symTbl, calls)
    <3> DEFINE k == Last(calls).next
               l == Len(symTbl[n].parents)
    <3>1. k > l
        BY <1>5 DEF Complete, Parents, Caller
    <3>2. k \in Nat /\ l \in Nat
      <4>1. calls \in Seq(CallT) /\ UnderWay(symTbl, unlinked, calls) /\ Tabled(symTbl)
          BY <1>1 DEF Linking, UnderWay
      <4>2. Last(calls) = calls[Len(calls)] /\ Len(calls) \in DOMAIN calls /\ k \in Nat
          BY <1>2, <4>1, GoesOnward
      <4>3. n \in DOMAIN symTbl
          BY <4>1, <4>2 DEF UnderWay
      <4>4. symTbl[n].parents \in Seq(Name)
          BY <4>1, <4>3 DEF Tabled, IntfT
      <4>. QED BY <4>2, <4>4
    <3> HIDE DEF k, l
    <3>3. ~ k <= l
        BY <3>1, <3>2
    <3>. QED BY <3>3 DEF k, l, Looking
  <2>2. linkErrors' = e /\ calls' = Front(calls) /\ symTbl' = t
      BY <1>5 DEF Complete, Caller
  <2>3. Linking(t, unlinked, Front(calls), e, Unique)
      BY <1>1, <1>2, <2>1, CompleteLinks
  <2>4. Alike(symTbl, t)
      BY DEF Alike
  <2> HIDE DEF t, e
  <2>5. Linking(symTbl', unlinked', calls', linkErrors', Unique)
      BY <1>2, <2>2, <2>3
  <2>6. Alike(symTbl, symTbl')
      BY <2>2, <2>4
  <2>. QED BY <1>1, <1>2, <2>5, <2>6, LinkStepKept
<1>. QED BY <1>3, <1>4, <1>5

LEMMA LinkKeptStep == IdlcKept /\ LinkKept /\ [CommandsNext]_commandVars => LinkKept'
<1> SUFFICES ASSUME IdlcKept, LinkKept, [CommandsNext]_commandVars PROVE LinkKept'
    OBVIOUS
<1>1. CASE UNCHANGED idlcVars
  <2>1. UNCHANGED <<symTbl, unlinked, calls, linkErrors, phase>> /\ elements' = elements
      BY <1>1 DEF idlcVars
  <2>2. ElementNames' = ElementNames /\ \A n : FirstOf(n)' = FirstOf(n)
      BY <2>1, SameFirst
  <2>3. Unique' = Unique /\ Matches' = Matches
      BY <2>1, <2>2 DEF Unique, Matches
  <2>. QED BY <2>1, <2>3 DEF LinkKept
<1>2. CASE Begin \/ OpenInput \/ Declare \/ EndInclude \/ EndInput \/ ChooseTarget
  <2>1. calls = <<>> /\ calls' = calls /\ phase' \in {"idle", "compile", "collect", "write", "done"}
    <3>1. Begin => phase = "idle" /\ calls' = calls /\ phase' \in {"compile", "done"}
        BY DEF Begin, Exits, Finish
    <3>2. OpenInput => phase = "compile" /\ calls' = calls /\ phase' \in {"compile", "done"}
        BY DEF OpenInput, Exits, Finish
    <3>3. Declare => phase = "compile" /\ calls' = calls /\ phase' \in {"compile", "done"}
        BY DEF Declare
    <3>4. EndInclude => phase = "compile" /\ calls' = calls /\ phase' = "compile"
        BY DEF EndInclude
    <3>5. EndInput => phase = "compile" /\ calls' = calls /\ phase' \in {"compile", "done"}
        BY DEF EndInput, Exits, Finish
    <3>6. ChooseTarget => phase = "compile" /\ calls' = calls /\ phase' \in {"collect", "write", "done"}
        BY DEF ChooseTarget, Exits, Finish
    <3>. QED BY <1>2, <3>1, <3>2, <3>3, <3>4, <3>5, <3>6 DEF LinkKept
  <2>. QED BY <2>1 DEF LinkKept
<1>3. CASE Collect
    BY <1>3, CollectKept
<1>4. CASE ProcessNext \/ ProcessParent
    BY <1>4, ProcessKept
<1>5. CASE UndefinedParent \/ MergeParent \/ Complete
    BY <1>5, ParentsKept
<1>6. CASE EndLink \/ WriteResult
  <2>1. phase' \in {"write", "done"}
      BY <1>6 DEF EndLink, WriteResult, Exits, Finish
  <2>. QED BY <2>1 DEF LinkKept
<1>7. IdlcNext \/ UNCHANGED idlcVars
    BY DEF CommandsNext, AppStep, IdlcStep, SettingsStep, BundlesStep, ProxyStep, StreamStep, commandVars
<1>. QED BY <1>1, <1>2, <1>3, <1>4, <1>5, <1>6, <1>7 DEF IdlcNext

LEMMA AlwaysLinkKept == CommandsSpec => [](IdlcKept /\ LinkKept)
<1>1. CommandsInit => LinkKept
    BY DEF CommandsInit, IdlcIdle, LinkKept
<1>2. (IdlcKept /\ LinkKept) /\ [CommandsNext]_commandVars => (IdlcKept /\ LinkKept)'
    BY IdlcKeptStep, LinkKeptStep
<1>. QED BY <1>1, <1>2, IdlcKeptInit, PTL DEF CommandsSpec

(* The table says of the elements what the specification says of them.     *)
LEMMA TableSays ==
    ASSUME elements \in Seq(Element), Matches
    PROVE  WellLinked <=> Unique /\ Joined(symTbl)
<1>1. DOMAIN symTbl = ElementNames /\ \A n \in ElementNames : ParentsOf(n) = Up(symTbl, n)
    BY DEF Matches, ParentsOf, Up
<1>2. AllNames = NamesOf(symTbl)
    BY <1>1 DEF AllNames, NamesOf
<1>3. \A n \in ElementNames : \A S : Inherited(n, S) <=> ClosedUnder(symTbl, n, S)
    BY <1>1 DEF Inherited, ClosedUnder
<1>4. \A n \in ElementNames : Ancestors(n) = Above(symTbl, n)
    BY <1>2, <1>3 DEF Ancestors, Above
<1>5. ASSUME NEW n \in ElementNames, Above(symTbl, n) \subseteq ElementNames
      PROVE  AllDiffer(symTbl, n, Above(symTbl, n))
             <=> \A a, b \in Ancestors(n) \cup {n} :
                    a # b => Range(FirstOf(a).members) \cap Range(FirstOf(b).members) = {}
  <2> DEFINE A == Ancestors(n) \cup {n}
  <2>1. \A a \in A : symTbl[a].members = Range(FirstOf(a).members)
      BY <1>4, <1>5 DEF Matches
  <2>2. A = Above(symTbl, n) \cup {n}
      BY <1>4
  <2> HIDE DEF A
  <2>3. AllDiffer(symTbl, n, Above(symTbl, n)) <=> \A a, b \in A : a # b => symTbl[a].members \cap symTbl[b].members = {}
      BY <2>2 DEF AllDiffer
  <2>4. AllDiffer(symTbl, n, Above(symTbl, n))
        <=> \A a, b \in A : a # b => Range(FirstOf(a).members) \cap Range(FirstOf(b).members) = {}
      BY <2>1, <2>3
  <2>. QED BY <2>4 DEF A
<1>. QED BY <1>1, <1>4, <1>5 DEF WellLinked, Joined, Unique

LEMMA LinkExactHolds == IdlcKept /\ LinkKept => LinkExact
<1> SUFFICES ASSUME IdlcKept, LinkKept, phase = "link", calls = <<>>, unlinked = {}
             PROVE  linkErrors = 0 <=> WellLinked
    BY DEF LinkExact
<1>1. elements \in Seq(Element) /\ Matches /\ Linking(symTbl, {}, <<>>, linkErrors, Unique)
    BY DEF IdlcKept, LinkKept
<1>2. Unique \in BOOLEAN
    BY DEF Unique
<1>3. linkErrors = 0 <=> Unique /\ Joined(symTbl)
    BY <1>1, <1>2, LinkedExact
<1>. QED BY <1>1, <1>3, TableSays

(* The linker ends without an error exactly if the elements are closed,    *)
(* acyclic, of different names and without conflict (link, processIntf).   *)
THEOREM LinkingExact == CommandsSpec => []LinkExact
BY AlwaysLinkKept, LinkExactHolds, PTL

-----------------------------------------------------------------------------
(* What idlc leaves behind. *)

Wanted == Target(GetValue("outputFile"), GetValue("outputFormat"))
Nothing == [f \in {} |-> NoTarget]

ResultKept ==
    /\ ResultOrNothing
    /\ prog = "idlc" /\ stage = "exec" => ~IsEnabled("help")
    /\ phase \in {"collect", "link", "write"} => target = Wanted
    /\ phase \in {"collect", "link"} => ~IsEnabled("compile")
    /\ phase = "write" => WellLinked \/ IsEnabled("compile")

LEMMA SameElements ==
    ASSUME elements' = elements
    PROVE  WellLinked' = WellLinked
<1>1. ElementNames' = ElementNames /\ \A n : FirstOf(n)' = FirstOf(n)
    BY SameFirst
<1>2. \A n : ParentsOf(n)' = ParentsOf(n)
    BY <1>1 DEF ParentsOf
<1>3. AllNames' = AllNames
    BY <1>1, <1>2 DEF AllNames
<1>4. \A n, S : Inherited(n, S)' <=> Inherited(n, S)
    BY <1>1, <1>2 DEF Inherited
<1>5. \A n : Ancestors(n)' = Ancestors(n)
    BY <1>3, <1>4 DEF Ancestors
<1>. QED BY <1>1, <1>5 DEF WellLinked

(* idlc is not moved by the modules of the others, but for its arguments   *)
(* and its end.                                                            *)
LEMMA OnlyIdlc ==
    ASSUME Stages, Compiles, BundlesKept, prog = "idlc", CommandsNext, ~ IdlcStep
    PROVE  ParseArguments \/ (UNCHANGED <<cli, exit>> /\ (stage' = "exec" => stage = "exec"))
<1>1. stage \in {"init", "exec", "returned", "exited"} /\ bundle = NoBundle
    BY DEF Stages, BundlesKept, Underway, Serving
<1>2. ASSUME AppStep PROVE ParseArguments
    BY <1>1, <1>2 DEF AppStep, AppNext, RunNext, InstallHandlers, EnterLoop, Terminate, EventThrows, LeaveLoop, Killed
<1>3. ~ SettingsStep
    BY <1>1 DEF SettingsStep, SettingsNext, OpenSettings, Answer, EndSetup, Parameters
<1>4. ASSUME BundlesStep PROVE UNCHANGED <<cli, exit>> /\ stage' = "exited"
  <2>1. DestroyApplication
      BY <1>1, <1>4 DEF BundlesStep, BundlesNext, OutputIsFile, StartContainer, StartMaster, TryBundle, EndSearch, ClientMakes,
                        ClientCalls, ClientDrops
  <2>2. exit' = exit
      BY <1>1, <2>1 DEF DestroyApplication, Unwound, NoBundle
  <2>. QED BY <2>1, <2>2 DEF DestroyApplication
<1>5. ~ ProxyStep
    BY <1>1 DEF ProxyStep, ProxyNext, StartProxy, OpenListener, NextInterface
<1>6. ASSUME StreamStep PROVE UNCHANGED <<cli, exit, stage>>
    BY <1>6 DEF StreamStep, StreamNext, ReaderNext, OpenChannel, SetDeadline, Call, Poll, Count, Decide, Wait, Take, PeerWrites,
                PartArrives, PeerCloses, CloseElsewhere, DeadlinePasses, AppFrame, appVars
<1>. QED BY <1>2, <1>3, <1>4, <1>5, <1>6 DEF CommandsNext

LEMMA ResultKeptByOthers ==
    ASSUME Stages, Compiles, BundlesKept, ResultKept, CommandsNext, ~ IdlcStep
    PROVE  ResultKept'
<1>1. UNCHANGED idlcVars
    BY DEF CommandsNext, AppStep, SettingsStep, BundlesStep, ProxyStep, StreamStep
<1>2. prog' = prog
    BY CommonMoves
<1>3. UNCHANGED <<phase, target, elements, written>> /\ WellLinked' = WellLinked
    BY <1>1, SameElements DEF idlcVars
<1>4. CASE prog # "idlc"
  <2>1. written = Nothing /\ phase = "idle"
      BY <1>4 DEF ResultKept, ResultOrNothing, Compiles, Nothing
  <2>. QED BY <1>2, <1>3, <1>4, <2>1 DEF ResultKept, ResultOrNothing, Nothing
<1>5. CASE prog = "idlc" /\ ParseArguments
  <2>1. stage = "init" /\ phase = "idle" /\ exit = "none"
      BY <1>5 DEF ParseArguments, Compiles, Stages, Underway
  <2>2. written' = Nothing
      BY <1>3, <2>1 DEF ResultKept, ResultOrNothing, Nothing
  <2>3. /\ exit' = "0" => IsEnabled("help")'
        /\ stage' = "exec" => ~ IsEnabled("help")'
    <3>1. \/ ~ cli'.ok /\ stage' = "returned" /\ exit' = "1"
          \/ cli'.ok /\ cli'.values.help.on /\ stage' = "returned" /\ exit' = "0"
          \/ cli'.ok /\ ~ cli'.values.help.on /\ stage' = "exec" /\ exit' = "none"
        BY <1>5, <2>1 DEF ParseArguments, Return
    <3>. QED BY <3>1 DEF IsEnabled
  <2>. QED BY <1>3, <2>1, <2>2, <2>3 DEF ResultKept, ResultOrNothing, Nothing
<1>6. CASE prog = "idlc" /\ UNCHANGED <<cli, exit>> /\ (stage' = "exec" => stage = "exec")
  <2>1. \A n : IsEnabled(n)' = IsEnabled(n) /\ GetValue(n)' = GetValue(n)
      BY <1>6 DEF IsEnabled, GetValue
  <2>2. Wanted' = Wanted
      BY <2>1 DEF Wanted
  <2>3. ResultOrNothing'
      BY <1>2, <1>3, <1>6, <2>1, <2>2 DEF ResultKept, ResultOrNothing, Wanted
  <2>. QED BY <1>2, <1>3, <1>6, <2>1, <2>2, <2>3 DEF ResultKept
<1>. QED BY <1>4, <1>5, <1>6, OnlyIdlc

LEMMA ResultKeptByIdlc ==
    ASSUME Stages, Compiles, IdlcKept, LinkKept, ResultKept, IdlcStep
    PROVE  ResultKept'
<1>1. UNCHANGED <<prog, cli>>
    BY DEF IdlcStep, IdlcNext, Begin, OpenInput, Declare, EndInclude, EndInput, ChooseTarget, Collect, ProcessNext, ProcessParent,
           UndefinedParent, MergeParent, Complete, EndLink, WriteResult, Exits, Finish, GoOn, Return, LinkFrame, Enter
<1>2. prog = "idlc" /\ stage = "exec" /\ exit = "none"
  <2>1. (phase = "idle" /\ prog = "idlc" /\ stage = "exec") \/ phase \notin {"idle", "done"}
      BY DEF IdlcStep, IdlcNext, Begin, OpenInput, Declare, EndInclude, EndInput, ChooseTarget, Collect, ProcessNext, ProcessParent,
             UndefinedParent, MergeParent, Complete, EndLink, WriteResult
  <2>. QED BY <2>1 DEF Stages, Compiles
<1>3. written = Nothing /\ ~ IsEnabled("help")
    BY <1>2 DEF ResultKept, ResultOrNothing, Nothing
<1>4. (\A n : IsEnabled(n)' = IsEnabled(n) /\ GetValue(n)' = GetValue(n)) /\ Wanted' = Wanted
  <2>1. \A n : IsEnabled(n)' = IsEnabled(n) /\ GetValue(n)' = GetValue(n)
      BY <1>1 DEF IsEnabled, GetValue
  <2>. QED BY <2>1 DEF Wanted
<1>5. ASSUME exit' # "0", written' = written PROVE ResultOrNothing'
    BY <1>3, <1>5 DEF ResultOrNothing, Nothing
<1>6. ~ IsEnabled("help")'
    BY <1>3, <1>4
<1>7. CASE Begin \/ OpenInput \/ Declare \/ EndInclude \/ EndInput
  <2>1. exit' # "0" /\ written' = written /\ phase' \in {"compile", "done"}
    <3>1. Begin => exit' # "0" /\ written' = written /\ phase' \in {"compile", "done"}
        BY <1>2 DEF Begin, Exits, Finish, GoOn, Return
    <3>2. OpenInput => exit' # "0" /\ written' = written /\ phase' \in {"compile", "done"}
        BY <1>2 DEF OpenInput, Exits, Finish, GoOn, Return
    <3>3. Declare => exit' # "0" /\ written' = written /\ phase' \in {"compile", "done"}
        BY <1>2 DEF Declare, GoOn
    <3>4. EndInclude => exit' # "0" /\ written' = written /\ phase' \in {"compile", "done"}
        BY <1>2 DEF EndInclude, GoOn
    <3>5. EndInput => exit' # "0" /\ written' = written /\ phase' \in {"compile", "done"}
        BY <1>2 DEF EndInput, Exits, Finish, GoOn, Return
    <3>. QED BY <1>7, <3>1, <3>2, <3>3, <3>4, <3>5
  <2>. QED BY <1>5, <1>6, <2>1 DEF ResultKept
<1>8. CASE ChooseTarget
  <2>1. /\ exit' # "0" /\ written' = written /\ target' = Wanted
        /\ phase' = "done" \/ phase' = IF IsEnabled("compile") THEN "write" ELSE "collect"
      BY <1>2, <1>8 DEF ChooseTarget, Exits, Finish, GoOn, Return, Wanted
  <2>. QED BY <1>4, <1>5, <1>6, <2>1 DEF ResultKept
<1>9. CASE Collect
  <2>1. exit' # "0" /\ written' = written /\ target' = target /\ phase = "collect" /\ phase' = "link"
      BY <1>2, <1>9 DEF Collect, GoOn
  <2>. QED BY <1>4, <1>5, <1>6, <2>1 DEF ResultKept
<1>10. CASE ProcessNext \/ ProcessParent \/ UndefinedParent \/ MergeParent \/ Complete
  <2>1. exit' # "0" /\ written' = written /\ target' = target /\ phase = "link" /\ phase' = "link"
      BY <1>2, <1>10 DEF ProcessNext, ProcessParent, UndefinedParent, MergeParent, Complete, Enter, LinkFrame, GoOn
  <2>. QED BY <1>4, <1>5, <1>6, <2>1 DEF ResultKept
<1>11. CASE EndLink
  <2>1. /\ exit' # "0" /\ written' = written /\ target' = target /\ phase = "link" /\ elements' = elements
        /\ phase' = "done" \/ (~ linkErrors > 0 /\ phase' = "write")
      BY <1>2, <1>11 DEF EndLink, Exits, Finish, GoOn, Return
  <2>2. linkErrors \in Nat /\ (linkErrors = 0 <=> WellLinked)
    <3>1. linkErrors \in Nat
        BY <2>1 DEF LinkKept, Linking, Exact
    <3>. QED BY <1>11, <3>1, LinkExactHolds DEF EndLink, LinkExact
  <2>3. phase' = "done" \/ (phase' = "write" /\ WellLinked')
      BY <2>1, <2>2, SameElements
  <2>. QED BY <1>4, <1>5, <1>6, <2>1, <2>3 DEF ResultKept
<1>12. CASE WriteResult
  <2>1. phase = "write" /\ phase' = "done" /\ elements' = elements /\ target = Wanted
      BY <1>12 DEF WriteResult, Exits, Finish, ResultKept
  <2>2. (WellLinked \/ IsEnabled("compile"))'
      BY <1>4, <2>1, SameElements DEF ResultKept
  <2>3. CASE IsEnabled("dryRun")
    <3>1. written' = Nothing /\ IsEnabled("dryRun")'
        BY <1>3, <1>4, <1>12, <2>3 DEF WriteResult
    <3>2. ResultOrNothing'
        BY <3>1 DEF ResultOrNothing, Nothing
    <3>. QED BY <1>6, <2>1, <3>2 DEF ResultKept
  <2>4. CASE ~ IsEnabled("dryRun") /\ (target.format = "IDL" \/ target.file \in Unwritable)
    <3>1. exit' # "0" /\ written' = written
        BY <1>12, <2>4 DEF WriteResult, Exits, Finish, Return
    <3>. QED BY <1>5, <1>6, <2>1, <3>1 DEF ResultKept
  <2>5. CASE ~ IsEnabled("dryRun") /\ ~ (target.format = "IDL" \/ target.file \in Unwritable)
    <3> DEFINE r == [format |-> target.format, linked |-> ~ IsEnabled("compile"), members |-> elements]
    <3>1. exit' = "0" /\ written' = [f \in DOMAIN written \cup {target.file} |-> IF f = target.file THEN r ELSE written[f]]
        BY <1>12, <2>5 DEF WriteResult, Exits, Finish, Return
    <3>2. DOMAIN written = {}
        BY <1>3 DEF Nothing
    <3>3. written' = [f \in {target.file} |-> r]
        BY <3>1, <3>2
    <3>4. written' = [f \in {Wanted.file} |-> [format |-> Wanted.format, linked |-> ~ IsEnabled("compile"), members |-> elements]]'
        BY <1>4, <2>1, <3>3
    <3>5. ResultOrNothing'
        BY <1>1, <1>2, <1>4, <1>6, <2>2, <2>5, <3>1, <3>4 DEF ResultOrNothing, Wanted
    <3>. QED BY <1>6, <2>1, <3>5 DEF ResultKept
  <2>. QED BY <2>3, <2>4, <2>5
<1>. QED BY <1>7, <1>8, <1>9, <1>10, <1>11, <1>12 DEF IdlcStep, IdlcNext

LEMMA ResultKeptStep ==
    ASSUME Stages, Compiles, BundlesKept, IdlcKept, LinkKept, ResultKept, [CommandsNext]_commandVars
    PROVE  ResultKept'
<1>1. CASE UNCHANGED commandVars
  <2>1. UNCHANGED <<prog, stage, cli, exit, phase, target, elements, written>>
      BY <1>1 DEF commandVars, appVars, idlcVars
  <2>2. WellLinked' = WellLinked
      BY <2>1, SameElements
  <2>3. (\A n : IsEnabled(n)' = IsEnabled(n) /\ GetValue(n)' = GetValue(n)) /\ Wanted' = Wanted
    <3>1. \A n : IsEnabled(n)' = IsEnabled(n) /\ GetValue(n)' = GetValue(n)
        BY <2>1 DEF IsEnabled, GetValue
    <3>. QED BY <3>1 DEF Wanted
  <2>4. ResultOrNothing'
      BY <2>1, <2>2, <2>3 DEF ResultKept, ResultOrNothing, Wanted
  <2>. QED BY <2>1, <2>2, <2>3, <2>4 DEF ResultKept
<1>. QED BY <1>1, ResultKeptByOthers, ResultKeptByIdlc

LEMMA ResultKeptInit == CommandsInit => ResultKept
<1> SUFFICES ASSUME CommandsInit PROVE ResultKept
    OBVIOUS
<1>1. phase = "idle" /\ written = Nothing /\ stage = "init" /\ exit = "none"
    BY DEF CommandsInit, IdlcIdle, AppInit, Nothing
<1>. QED BY <1>1 DEF ResultKept, ResultOrNothing, Nothing

(* On success idlc has written the elements of all inputs, linked unless   *)
(* told to compile only, to the file it was told, and nothing otherwise    *)
(* (IDLc::onExec).                                                         *)
THEOREM WritesResultOrNothing == CommandsSpec => []ResultOrNothing
<1> DEFINE Kept == Stages /\ Compiles /\ BundlesKept /\ IdlcKept /\ LinkKept
<1>1. CommandsSpec => []Kept
    BY AlwaysKept, AlwaysLinkKept, PTL
<1>2. Kept /\ ResultKept /\ [CommandsNext]_commandVars => ResultKept'
    BY ResultKeptStep
<1>3. ResultKept => ResultOrNothing
    BY DEF ResultKept
<1> HIDE DEF Kept
<1>. QED BY <1>1, <1>2, <1>3, ResultKeptInit, PTL DEF CommandsSpec

-----------------------------------------------------------------------------
(* Types and bounds. *)

ExitCodes == {"none", "0", "1", "killed", "terminated", "crashed"}

(* The table is made of the elements and of no others.                     *)
TableTyped ==
    /\ DOMAIN symTbl \subseteq ElementNames /\ unlinked \subseteq DOMAIN symTbl /\ linkErrors \in Nat
    /\ phase \in {"idle", "compile", "collect"} => DOMAIN symTbl = {}

Typed == exit \in ExitCodes /\ face \in {"none", "main", "console"} /\ TableTyped

LEMMA ExitTyped ==
    ASSUME exit \in ExitCodes, CommandsNext
    PROVE  exit' \in ExitCodes
<1>1. AppStep => exit' \in ExitCodes
    BY DEF AppStep, AppNext, RunNext, ParseArguments, InstallHandlers, EnterLoop, Terminate, EventThrows, LeaveLoop, Killed, Return,
           ExitCodes
<1>2. SettingsStep => exit' \in ExitCodes
    BY DEF SettingsStep, SettingsNext, OpenSettings, Answer, EndSetup, Return, ExitCodes
<1>3. BundlesStep => exit' \in ExitCodes
    BY DEF BundlesStep, BundlesNext, OutputIsFile, StartContainer, DestroyApplication, StartMaster, TryBundle, EndSearch, ClientMakes,
           ClientCalls, ClientDrops, Return, Unwound, ExitCodes
<1>4. ProxyStep => exit' \in ExitCodes
    BY DEF ProxyStep, ProxyNext, StartProxy, OpenListener, NextInterface, Listen, Fails, Return, ExitCodes
<1>5. StreamStep => exit' \in ExitCodes
    BY DEF StreamStep, StreamNext, ReaderNext, OpenChannel, SetDeadline, Call, Poll, Count, Decide, Wait, Take, PeerWrites, PartArrives,
           PeerCloses, CloseElsewhere, DeadlinePasses, AppFrame, appVars, ExitCodes
<1>6. IdlcStep => exit' \in ExitCodes
    BY DEF IdlcStep, IdlcNext, Begin, OpenInput, Declare, EndInclude, EndInput, ChooseTarget, Collect, ProcessNext, ProcessParent,
           UndefinedParent, MergeParent, Complete, EndLink, WriteResult, Exits, Finish, GoOn, Return, LinkFrame, Enter, ExitCodes
<1>. QED BY <1>1, <1>2, <1>3, <1>4, <1>5, <1>6 DEF CommandsNext

LEMMA TableTypedStep ==
    ASSUME TableTyped, LinkKept, LinkKept', [CommandsNext]_commandVars
    PROVE  TableTyped'
<1>1. IdlcNext \/ UNCHANGED idlcVars
    BY DEF CommandsNext, AppStep, IdlcStep, SettingsStep, BundlesStep, ProxyStep, StreamStep, commandVars
<1>2. ASSUME UNCHANGED <<elements, symTbl, unlinked, linkErrors>>,
             phase' \in {"idle", "compile", "collect"} => phase \in {"idle", "compile", "collect"}
      PROVE  TableTyped'
    BY <1>2, SameFirst DEF TableTyped
<1>3. CASE UNCHANGED idlcVars
    BY <1>2, <1>3 DEF idlcVars
<1>4. CASE Begin \/ Declare \/ EndInclude \/ ChooseTarget
  <2>1. UNCHANGED <<elements, symTbl, unlinked, linkErrors>> /\ phase \in {"idle", "compile", "collect"}
      BY <1>4 DEF Begin, Declare, EndInclude, ChooseTarget
  <2>. QED BY <1>2, <2>1
<1>5. CASE OpenInput \/ EndInput
  <2>1. UNCHANGED <<symTbl, unlinked, linkErrors>> /\ phase = "compile"
      BY <1>5 DEF OpenInput, EndInput
  <2>. QED BY <2>1 DEF TableTyped
<1>6. CASE Collect
  <2>1. elements' = elements /\ phase' = "link"
      BY <1>6 DEF Collect
  <2>2. DOMAIN symTbl' = ElementNames' /\ unlinked' = DOMAIN symTbl'
      BY <1>6, <2>1, SameFirst DEF Collect, ElementNames
  <2>3. linkErrors' \in Nat
      BY <2>1 DEF LinkKept, Linking, Exact
  <2>. QED BY <2>1, <2>2, <2>3 DEF TableTyped
<1>7. CASE ProcessNext \/ ProcessParent \/ UndefinedParent \/ MergeParent \/ Complete
  <2>1. /\ elements' = elements /\ phase' = "link" /\ DOMAIN symTbl' = DOMAIN symTbl
        /\ unlinked' \subseteq unlinked
      BY <1>7 DEF ProcessNext, ProcessParent, UndefinedParent, MergeParent, Complete, Enter, LinkFrame
  <2>2. linkErrors' \in Nat
      BY <2>1 DEF LinkKept, Linking, Exact
  <2>. QED BY <2>1, <2>2, SameFirst DEF TableTyped
<1>8. CASE EndLink \/ WriteResult
  <2>1. UNCHANGED <<elements, symTbl, unlinked, linkErrors>> /\ phase' \in {"write", "done"}
      BY <1>8 DEF EndLink, WriteResult, Exits, Finish
  <2>. QED BY <1>2, <2>1
<1>. QED BY <1>1, <1>3, <1>4, <1>5, <1>6, <1>7, <1>8 DEF IdlcNext

LEMMA TypedStep ==
    ASSUME Typed, LinkKept, LinkKept', [CommandsNext]_commandVars
    PROVE  Typed'
<1>1. exit' \in ExitCodes
    BY ExitTyped DEF Typed, commandVars, appVars
<1>2. face' \in {"none", "main", "console"}
  <2>1. ProxyNext \/ UNCHANGED proxyVars
      BY DEF CommandsNext, AppStep, IdlcStep, SettingsStep, BundlesStep, ProxyStep, StreamStep, commandVars
  <2>. QED BY <2>1 DEF Typed, ProxyNext, StartProxy, OpenListener, NextInterface, proxyVars
<1>3. TableTyped'
    BY TableTypedStep DEF Typed
<1>. QED BY <1>1, <1>2, <1>3 DEF Typed

(* The types of the programs with a command line; the bounds of a channel: *)
(* its buffer never holds more than its size, however calls, writes and    *)
(* records are mixed (StreamChannel::m_readBuff).                          *)
THEOREM CommandsTyped == CommandsSpec => []CommandsTypeOK
<1>1. CommandsInit => Typed
  <2> SUFFICES ASSUME CommandsInit PROVE Typed
      OBVIOUS
  <2>. QED BY DEF CommandsInit, AppInit, IdlcIdle, ProxyIdle, Typed, TableTyped, ExitCodes
<1>2. Typed /\ (IdlcKept /\ LinkKept) /\ (IdlcKept /\ LinkKept)' /\ [CommandsNext]_commandVars => Typed'
    BY TypedStep
<1>3. CommandsSpec => []Typed
    BY <1>1, <1>2, AlwaysLinkKept, PTL DEF CommandsSpec
<1>4. Typed /\ (Stages /\ Compiles /\ BundlesKept) /\ (StreamInv /\ Within) /\ LibraryClosed => CommandsTypeOK
  <2> SUFFICES ASSUME Typed, Stages, Compiles, StreamInv, Within, LibraryClosed PROVE CommandsTypeOK
      OBVIOUS
  <2>1. stage \in BeforeHandlers \cup {"client", "open", "ready", "loop", "stopping", "returned", "exited"}
        /\ (exit = "none" <=> stage \notin {"returned", "exited"})
      BY DEF Stages, Underway, BeforeHandlers
  <2>2. task.n \in 0 .. 2 * Len(Message) + 2
    <3>1. Len(Message) \in Nat
        BY StreamAssumption
    <3>2. task.n \in Nat
        BY DEF StreamInv, Unopened, NoTask, Reading, StreamTyped, TaskT
    <3>. QED BY <3>1, <3>2 DEF Within
  <2>3. bundle.open \in {0, 1}
      BY DEF LibraryClosed
  <2>. QED BY <2>1, <2>2, <2>3 DEF Typed, TableTyped, ExitCodes, Compiles, Within, CommandsTypeOK
<1>. QED BY <1>3, <1>4, AlwaysKept, AlwaysWithin, LibraryIsClosed, PTL
=============================================================================
