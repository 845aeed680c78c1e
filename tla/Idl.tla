-------------------------------- MODULE Idl --------------------------------
(***************************************************************************)
(* The IDL parser (core/idlparser): what the driver and the tree of nodes  *)
(* do as the grammar reduces one declaration after the other.              *)
(*                                                                         *)
(* A file is a sequence of declarations; a name is the sequence of its     *)
(* parts; machine m is the state that the drivers of a file and of the     *)
(* files it includes share (NodeRoot) with the stack of those drivers.     *)
(***************************************************************************)
EXTENDS IdlValues, SequencesExt, FiniteSetsExt

CONSTANTS
    Files,        \* file name -> [suffix, text (declarations), members (of a compiled document)]
    ErrorLimit    \* appendError() returns false from this many errors on: 20

(* What a parser hands on: an interface with what it names.                *)
Name == Seq(STRING)
Element == [name : Name, parents : Seq(Name), members : Seq(STRING)]

(* What the scanner makes of a file, and what a compiled document holds.   *)
IsDeclaration(d) ==
    /\ d.decl \in {"module", "interface"} => d.name \in Name
    /\ d.decl = "interface" => d.parents \in Seq(Name)
    /\ d.decl \in {"attribute", "method", "const", "flawed"} => d.name \in STRING
    /\ d.decl = "number" => d.num \in Int
    /\ d.decl = "value" => d.val \in ValueT
    /\ d.decl = "symbol" => d.name \in STRING
    /\ d.decl = "op" => d.op \in {"+", "-", "*", "/", "%"}

ASSUME FilesAssumption ==
    \A f \in DOMAIN Files :
        /\ Files[f].members \in Seq(Element)
        /\ DOMAIN Files[f].text = 1 .. Len(Files[f].text) /\ Len(Files[f].text) \in Nat
        /\ \A i \in DOMAIN Files[f].text : IsDeclaration(Files[f].text[i])

Node(type, value) == [type |-> type, parents |-> <<>>, ancestors |-> {}, members |-> <<>>, value |-> value]

RootContext == [kind |-> "root", prefix |-> <<>>, node |-> Node("none", None)]

Frame(file) == [file |-> file, pos |-> 1, ctx |-> <<RootContext>>, elts |-> <<>>, operands |-> <<>>]

NoMachine == [stack |-> <<>>, opened |-> <<>>, symTbl |-> [s \in {} |-> None], errors |-> 0, crashed |-> FALSE]

Top(m) == Last(m.stack)
Ctx(m) == Last(Top(m).ctx)

AppendError(m, n) == [m EXCEPT !.errors = @ + n]
Tolerant(m) == m.errors < ErrorLimit

(* YYABORT and a syntax error: the parser of this file returns.            *)
Abort(m) == [m EXCEPT !.stack[Len(m.stack)].pos = Len(Files[Top(m).file].text) + 1,
                      !.stack[Len(m.stack)].ctx = <<RootContext>>]
AbortUnless(tolerant, m) == IF tolerant THEN m ELSE Abort(m)

Push(m, context) == [m EXCEPT !.stack[Len(m.stack)].ctx = Append(@, context)]
Pop(m) == [m EXCEPT !.stack[Len(m.stack)].ctx = Front(@)]

(* The constructor of Driver registers the file that Scanner has opened.   *)
Open(m, file) ==
    [m EXCEPT !.stack = Append(@, Frame(file)), !.opened = Append(@, file)]

(* Driver::include.  A file that cannot be opened is one error more.       *)
Include(m, file) ==
    IF file \in Range(m.opened) THEN m
    ELSE IF file \notin DOMAIN Files THEN AppendError(m, 1)
    ELSE Open(m, file)

(* append() of a root, module or interface to the one symbol table.        *)
AddSymbol(m, name, node) ==
    IF name \in DOMAIN m.symTbl THEN AppendError(m, 1)
    ELSE [m EXCEPT !.symTbl = [s \in DOMAIN @ \cup {name} |-> IF s = name THEN node ELSE @[s]]]

(* resolve(): first under the prefix of the context, then as it stands.    *)
Candidates(m, symbol) ==
    {Ctx(m).prefix \o symbol, symbol} \cap DOMAIN m.symTbl
Resolved(m, symbol) ==
    IF Ctx(m).prefix \o symbol \in DOMAIN m.symTbl THEN Ctx(m).prefix \o symbol ELSE symbol
Resolves(m, symbol, type) ==
    Candidates(m, symbol) # {} /\ m.symTbl[Resolved(m, symbol)].type = type

-----------------------------------------------------------------------------
(* Modules and interfaces. *)

BeginModule(m, name) ==
    Push(m, [kind |-> "module", prefix |-> Ctx(m).prefix \o name, node |-> Node("none", None)])

(* All that an interface inherits from, through its parents.  (Mutant-     *)
(* AncestorsOf: the parents alone.)                                        *)
MutantAncestorsOf(m, known) == known
AncestorsOf(m, known) == UNION {{p} \cup m.symTbl[p].ancestors : p \in known}

(* The parents that resolve, in their order. *)
Resolving(m, parents, i) == Cardinality({j \in 1 .. i : Resolves(m, parents[j], "I")})
KnownParents(m, parents) ==
    [k \in 1 .. Resolving(m, parents, Len(parents)) |->
        Resolved(m, parents[Min({i \in 1 .. Len(parents) : Resolving(m, parents, i) = k})])]

(* NodeIntf(): what does not resolve is left out of the parents.           *)
BeginInterface(m, name, parents) ==
    LET full == Ctx(m).prefix \o name
        known == KnownParents(m, parents)
        node == [Node("I", None) EXCEPT
                    !.parents = known,
                    !.ancestors = AncestorsOf(m, Range(known))]
        errors == Len(parents) - Len(known) + (IF full \in DOMAIN m.symTbl THEN 1 ELSE 0)
    IN  Push(AppendError(m, errors), [kind |-> "interface", prefix |-> full, node |-> node])

(* NodeIntf::map(): each member an ancestor has in common with the         *)
(* interface or with an ancestor before it.                                *)
Conflicts(own, theirs) ==
    LET listed == UNION {{<<a, k>> : k \in theirs[a]} : a \in DOMAIN theirs}
    IN  Cardinality(listed) - Cardinality({l[2] : l \in listed} \ own)

EndInterface(m) ==
    LET c == Ctx(m)
        clashes == Conflicts(Range(c.node.members), [a \in c.node.ancestors |-> Range(m.symTbl[a].members)])
        element == [name |-> c.prefix, parents |-> c.node.parents, members |-> c.node.members]
        listed == [AppendError(m, clashes) EXCEPT !.stack[Len(m.stack)].elts = Append(@, element)]
    IN  AddSymbol(Pop(listed), c.prefix, c.node)

EndContext(m) == IF Ctx(m).kind = "interface" THEN EndInterface(m) ELSE Pop(m)

(* NodeIntf::append. *)
AddMember(m, name, node) ==
    LET full == Ctx(m).prefix \o <<name>>
        added == AddSymbol(m, full, node)
    IN  IF full \in DOMAIN m.symTbl THEN added
        ELSE [added EXCEPT !.stack[Len(m.stack)].ctx[Len(Top(m).ctx)].node.members = Append(@, name)]

(* NodeParams::append: the first parameter that comes twice ends the parse.*)
AddMethod(m, name, params) ==
    IF IsInjective(params) THEN AddMember(m, name, Node("M", None)) ELSE Abort(AppendError(m, 1))

-----------------------------------------------------------------------------
(* Constants.  An expression stands before its constant in the order of    *)
(* the reductions, and the parser keeps the values of what it has reduced  *)
(* on its stack.                                                           *)

Operands(m) == Top(m).operands
PushValue(m, v) == [m EXCEPT !.stack[Len(m.stack)].operands = Append(@, v)]
PopValues(m, n) == [m EXCEPT !.stack[Len(m.stack)].operands = SubSeq(@, 1, Len(@) - n)]

(* canConvert() to a number: what is neither invalid nor a date.           *)
IsOperand(v) == v.kind \notin {"null", "datetime"}

(* Doubles are divided by the floating-point unit, which traps nothing;    *)
(* their remainder is that of long longs.  (MutantTraps: so is a quotient.)*)
MutantTraps(op, a, b) == op \in {"/", "%"} /\ DivisionTraps(AsLong(a), AsLong(b))
Traps(op, a, b) ==
    /\ op = "%" \/ (op = "/" /\ "double" \notin {a.kind, b.kind})
    /\ DivisionTraps(AsLong(a), AsLong(b))

(* A double makes the operation one of doubles, but for the remainder; the *)
(* rest are long longs, whose overflow wraps.                              *)
NumberOp(op, a, b) ==
    IF "double" \in {a.kind, b.kind} /\ op # "%"
    THEN Val("double", FloatOp[<<op, ToDouble(a), ToDouble(b)>>])
    ELSE Val("llong", Wrapped(Compute(op, AsLong(a), AsLong(b)), "llong"))

(* opexec(): $$ keeps the first operand when the operation is refused.  A  *)
(* string on the left excuses any operand on the right.                    *)
Opexec(m, op) ==
    LET a == Operands(m)[Len(Operands(m)) - 1]
        b == Last(Operands(m))
        Result(v) == PushValue(PopValues(m, 2), v)
        refused == AppendError(Result(a), 1)
        Refuse == AbortUnless(Tolerant(refused), refused)
    IN  IF ~IsOperand(a) \/ (~IsOperand(b) /\ a.kind # "string") THEN Refuse
        ELSE IF "string" \in {a.kind, b.kind}
             THEN IF op = "+" THEN Result(Val("string", Concat[<<TextOf(a), TextOf(b)>>])) ELSE Refuse
        ELSE IF Traps(op, a, b) THEN [m EXCEPT !.crashed = TRUE] ELSE Result(NumberOp(op, a, b))

(* relolveConsVal(): 0 for a symbol that names no constant. *)
ReadConstant(m, symbol) ==
    IF Resolves(m, symbol, "C") THEN PushValue(m, m.symTbl[Resolved(m, symbol)].value)
    ELSE PushValue(AppendError(m, 1), Val("int", 0))

(* setOpResult(): the value is converted to the type of the constant, and  *)
(* kept as that.  There is nothing for octet[], short and sequences.       *)
KindOf == [a |-> "null", b |-> "bool", o |-> "char", I |-> "uint", i |-> "int", L |-> "ullong",
           l |-> "llong", d |-> "double", c |-> "string", t |-> "datetime"]

AddConstant(m, name, type) ==
    LET results == IF type \in DOMAIN KindOf THEN Converted(Last(Operands(m)), KindOf[type]) ELSE {}
        done == PopValues(m, 1)
        wrong == AppendError(done, 1)
    IN  CASE results # {} -> AddMember(done, name, Node("C", CHOOSE v \in results : TRUE))
          [] results = {} /\ Tolerant(wrong) -> AddMember(wrong, name, Node("C", None))
          [] OTHER -> Abort(wrong)

-----------------------------------------------------------------------------
(* Declarations the compiler does not support: one error each, until there *)
(* are too many.  A field that is an array leaves no map to insert into:   *)
(* Node::insert asserts.                                                   *)
Unsupported(m) == AbortUnless(Tolerant(AppendError(m, 1)), AppendError(m, 1))

ArrayField(m) ==
    IF Tolerant(AppendError(m, 1)) THEN [AppendError(m, 1) EXCEPT !.crashed = TRUE] ELSE Abort(AppendError(m, 1))

(* A member whose type or qualifier is not supported is added all the same.*)
FlawedMember(m, name) ==
    IF Tolerant(AppendError(m, 1)) THEN AddMember(AppendError(m, 1), name, Node("A", None)) ELSE Abort(AppendError(m, 1))

(* What the grammar accepts where the parser is.                           *)
Accepted ==
    [root      |-> {"include", "module", "interface", "unsupported", "array"},
     module    |-> {"module", "interface", "unsupported", "array", "end"},
     interface |-> {"attribute", "method", "number", "value", "symbol", "op", "const", "flawed", "array", "end"}]
Grammatical(m, d) ==
    /\ d.decl \in Accepted[Ctx(m).kind]
    /\ Len(Operands(m)) >= (CASE d.decl = "op" -> 2 [] d.decl = "const" -> 1 [] OTHER -> 0)

(* One declaration, or one reduction of an expression.  The scanner has    *)
(* moved past it.                                                          *)
Execute(before, d) ==
    LET m == [before EXCEPT !.stack[Len(before.stack)].pos = @ + 1]
    IN  IF ~Grammatical(m, d) THEN Abort(AppendError(m, 1)) ELSE
        CASE d.decl = "include"     -> Include(m, d.file)
          [] d.decl = "module"      -> BeginModule(m, d.name)
          [] d.decl = "interface"   -> BeginInterface(m, d.name, d.parents)
          [] d.decl = "end"         -> EndContext(m)
          [] d.decl = "attribute"   -> AddMember(m, d.name, Node("A", None))
          [] d.decl = "method"      -> AddMethod(m, d.name, d.params)
          [] d.decl = "number"      -> PushValue(m, Scanned(d.num))
          [] d.decl = "value"       -> PushValue(m, d.val)
          [] d.decl = "symbol"      -> ReadConstant(m, <<d.name>>)
          [] d.decl = "op"          -> Opexec(m, d.op)
          [] d.decl = "const"       -> AddConstant(m, d.name, d.type)
          [] d.decl = "unsupported" -> Unsupported(m)
          [] d.decl = "flawed"      -> FlawedMember(m, d.name)
          [] OTHER                  -> ArrayField(m)

(* The end of a file inside a declaration is a syntax error.               *)
AtEnd(m) == IF Ctx(m).kind = "root" THEN m ELSE AppendError(m, 1)
=============================================================================
