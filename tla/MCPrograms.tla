----------------------------- MODULE MCPrograms -----------------------------
(***************************************************************************)
(* The instance of Programs that TLC checks.                               *)
(***************************************************************************)
EXTENDS Programs

(* Values at the limits of the width classes and of the length forms, each *)
(* alone, in a list and in a map.                                          *)
Num4(n) == [i \in 1 .. 4 |-> IF n >= 0 THEN Int32Bytes(n)[i] ELSE 255 - Int32Bytes(-1 - n)[i]]
Times(s, n) == [i \in 1 .. n |-> s]
Ints == <<0, 127, 128, 255, 32767, 32768, 65535, 65536, -1, -128, -32768>>
Half == <<0, 0, 0, 0, 0, 0, 248, 63>>
Million == <<0, 0, 0, 0, 128, 132, 46, 65>>
One == <<0, 0, 0, 0, 0, 0, 240, 63>>

Plain ==
    <<Null, Bool(TRUE), Bool(FALSE), Foreign>>
    \o [i \in DOMAIN Ints |-> Number("int", Num4(Ints[i]))]
    \o <<Number("int", <<0, 0, 0, 128>>), Number("int", <<5, 0, 0, 128>>), Number("int", <<5, 200, 0, 128>>),
         Number("int", <<0, 128, 0, 0>>), Number("uint", <<255, 255, 0, 0>>), Number("uint", <<0, 0, 1, 0>>),
         Number("char", <<65, 0>>), Number("char", <<65, 2>>),
         Number("llong", <<1, 0, 0, 0, 0, 0, 0, 0>>), Number("llong", <<0, 0, 0, 128, 0, 0, 0, 0>>),
         Number("llong", <<255, 255, 255, 255, 255, 255, 255, 255>>),
         Number("ullong", <<0, 0, 0, 0, 0, 0, 0, 128>>), Number("ullong", <<3, 0, 0, 0, 0, 0, 0, 0>>),
         Number("double", Half), Number("double", Million), Number("double", One), Number("datetime", One)>>
    \o [i \in 1 .. 5 |-> Text(Times(97, <<0, 1, 63, 64, 65>>[i]))]
    \o <<Text(<<92, 110, 10, 34, 9>>), Text(<<233, 47>>), Text(Times(233, 32)), Text(<<97, 0, 98>>)>>
    \o [i \in 1 .. 6 |-> Data(Times(98, <<0, 1, 31, 32, 63, 64>>[i]))]
    \o <<Data(<<0, 1>>), Data(Times(3, 3))>>

MCValues ==
    Plain
    \o [i \in DOMAIN Plain |-> List(<<Null, Plain[i], Bool(TRUE)>>)]
    \o [i \in DOMAIN Plain |-> Map(Insert(Insert(<<>>, <<98>>, Plain[i]), <<97>>, List(<<>>)))]
    \o <<List(<<>>), Map(<<>>), Map(Insert(<<>>, <<233>>, Null)), Map(Insert(<<>>, <<97, 0, 98>>, Null)),
         Map(Insert(<<>>, <<98>>, List(<<Map(<<>>)>>)))>>

Lengths == [i \in 1 .. 64 |-> Data(Times(98, i - 1))] \o [i \in 1 .. 3 |-> Text(Times(97, 62 + i))]

MCTexts ==
    <<SerializeJSON(Map(Insert(<<>>, <<97>>, List(<<Null, Number("int", <<200, 0, 0, 0>>)>>)))).out,
      <<Sign("["), Sign("null")>>, <<Sign("null")>>, <<Quoted(<<97, 92, 34>>)>>, <<Quoted(<<97, 92, 120>>)>>>>
NoTexts == <<>>

MCPrinted ==
    (Half :> [form |-> "float", to |-> Half]) @@ (Million :> [form |-> "exponent", to |-> Million])
    @@ (One :> [form |-> "integer", to |-> <<1, 0, 0, 0, 0, 0, 0, 0>>])

(* Characters of two bits, integers of four and of five, doubles in        *)
(* quarters up to 16 with the infinities and NaN, texts that spell them.   *)
MCSpan == [k \in IntegerKinds |-> CASE k = "char" -> 4 [] k \in {"int", "uint"} -> 16 [] OTHER -> 32]
Inf == 1000
NaN == 2000
Finite == -64 .. 64
MCDoubles == Finite \cup {Inf, -Inf, NaN}
Fit(q) == IF q > 64 THEN Inf ELSE IF q < -64 THEN -Inf ELSE q
SignOf(x) == IF x > 0 THEN 1 ELSE IF x < 0 THEN -1 ELSE 0
Near(p, r) == Fit((2 * p + r) \div (2 * r))
Sum2(x, y) == CASE {x, y} \subseteq Finite -> Fit(x + y) [] x = -y -> NaN [] x \in Finite -> y [] OTHER -> x
Product2(x, y) == IF {x, y} \subseteq Finite THEN Near(x * y, 4) ELSE IF 0 \in {x, y} THEN NaN ELSE SignOf(x) * SignOf(y) * Inf
Ratio(x, y) ==
    CASE y = 0 -> (IF x = 0 THEN NaN ELSE SignOf(x) * Inf)
      [] y \in Finite \ {0} -> (IF x \in Finite THEN Near(4 * x * SignOf(y), SignOf(y) * y) ELSE SignOf(y) * x)
      [] OTHER -> (IF x \in Finite THEN 0 ELSE NaN)
MCFloatOp ==
    [o \in FloatOps \X MCDoubles \X MCDoubles |->
        LET x == o[2]
            y == o[3]
        IN  CASE NaN \in {x, y} -> NaN
              [] o[1] = "+" -> Sum2(x, y) [] o[1] = "-" -> Sum2(x, -y)
              [] o[1] = "*" -> Product2(x, y) [] OTHER -> Ratio(x, y)]
(* What is too large gives the lowest integer, NaN and -infinity give 0.   *)
MCRounded ==
    [q \in MCDoubles |-> CASE q \in -64 .. 61 -> (q + 2) \div 4 [] q \in {NaN, -Inf} -> 0 [] OTHER -> -16]
MCAsDouble == [n \in -32 .. 32 |-> Fit(4 * n)]

SpelledDouble(q) == IF q % 4 = 0 THEN ToString(q \div 4) ELSE ToString(q) \o "/4"
Numerals == {ToString(n) : n \in -32 .. 32}
MCSpellings == Numerals \cup {SpelledDouble(q) : q \in MCDoubles} \cup {"", "true", "false", "date", "word"}
MCConcat == [s \in MCSpellings \X MCSpellings |-> IF s[1] \o s[2] \in MCSpellings THEN s[1] \o s[2] ELSE "word"]
MCSpelled ==
    [v \in {w \in ValueT : w.kind # "string"} |->
        CASE v.kind = "null" -> "" [] v.kind = "unread" -> "0" [] v.kind = "char" -> "word"
          [] v.kind = "bool" -> (IF v.num = 0 THEN "false" ELSE "true")
          [] v.kind = "double" -> SpelledDouble(v.num) [] v.kind = "datetime" -> v.num
          [] OTHER -> ToString(v.num)]
MCReadsInt == [s \in MCSpellings |-> {n \in -32 .. 32 : ToString(n) = s}]
MCReadsDouble == [s \in MCSpellings |-> {q \in MCDoubles : SpelledDouble(q) = s}]

(* IDL files: includes that meet and that go round, every kind of          *)
(* declaration, errors up to the limit, and what ends a compiler.          *)
IncludeOf(f)  == [decl |-> "include", file |-> f]
ModuleOf(n)   == [decl |-> "module", name |-> <<n>>]
Closing       == [decl |-> "end"]
Attr(n)       == [decl |-> "attribute", name |-> n]
Method(n, ps) == [decl |-> "method", name |-> n, params |-> ps]
Num(n)         == <<[decl |-> "number", num |-> n]>>
Literal(k, n)  == <<[decl |-> "value", val |-> Val(k, n)]>>
Symbol(n)      == <<[decl |-> "symbol", name |-> n]>>
Op(op, a, b)   == a \o b \o <<[decl |-> "op", op |-> op]>>
Const(n, t, e) == e \o <<[decl |-> "const", name |-> n, type |-> t]>>
InterfaceOf(n, ps, body) == <<[decl |-> "interface", name |-> <<n>>, parents |-> ps]>> \o body \o <<Closing>>
Syntax        == [decl |-> "syntax"]
Bad           == [decl |-> "unsupported"]

IdlText(text) == [text |-> text, members |-> <<>>]
Compiled(ms)  == [text |-> <<>>, members |-> ms]

IdlFiles ==
    [f \in {"base.idl", "left.idl", "right.idl", "round.idl", "main.idl", "self.idl", "const.idl", "wrong.idl",
            "many.idl", "clash.idl", "scope.idl", "array.idl", "zero.idl", "low.idl", "rest.idl", "sums.idl", "lost.idl", "cut.idl", "top.idl"} |->
       IdlText(
        CASE f = "base.idl" -> InterfaceOf("B", <<>>, <<Attr("b")>>)
          [] f = "left.idl" -> <<IncludeOf("base.idl")>> \o InterfaceOf("L", <<<<"B">>>>, <<Method("l", <<"x", "y">>)>>)
          [] f = "right.idl" -> <<IncludeOf("base.idl"), IncludeOf("round.idl")>> \o InterfaceOf("R", <<<<"B">>>>, <<Attr("r")>>)
          [] f = "round.idl" -> <<IncludeOf("main.idl")>> \o InterfaceOf("O", <<>>, <<>>)
          [] f = "main.idl" -> <<IncludeOf("left.idl"), IncludeOf("right.idl")>>
                               \o InterfaceOf("M", <<<<"L">>, <<"R">>>>, <<Attr("m")>>)
          [] f = "self.idl" -> <<IncludeOf("self.idl")>> \o InterfaceOf("S", <<>>, <<Attr("s")>>)
          [] f = "const.idl" ->
                <<ModuleOf("m")>>
                \o InterfaceOf("K", <<>>,
                     Const("one", "i", Num(1))
                     \o Const("two", "d", Op("/", Symbol("one"), Literal("double", 2)))
                     \o Const("real", "d", Num(3)) \o Const("exact", "d", Op("/", Num(5), Symbol("real")))
                     \o Const("no", "b", Literal("double", 1)) \o Const("yes", "b", Literal("string", "word"))
                     \o Const("inf", "d", Op("/", Num(1), Op("*", Symbol("real"), Literal("double", 0))))
                     \o Const("txt", "c", Op("+", Literal("string", "1"), Symbol("one")))
                     \o Const("big", "L", Symbol("txt")) \o Const("void", "a", Literal("null", 0))
                     \o Const("day", "t", Literal("string", "date"))
                     \o Const("low", "i", Op("%", Num(-9), Op("-", Symbol("big"), Symbol("one"))))
                     \o Const("byte", "o", Num(7)) \o Const("wide", "I", Op("*", Symbol("byte"), Num(-2)))
                     \o Const("cut", "d", Op("+", Symbol("byte"), Literal("double", 1)))
                     \o <<Attr("k")>>)
                \o <<Closing>>
          [] f = "wrong.idl" ->
                InterfaceOf("W", <<<<"Nobody">>>>,
                  <<Attr("w"), Attr("w")>> \o Const("c", "o", Op("%", Symbol("w"), Num(2)))
                  \o Const("d", "i", Literal("string", "word"))
                  \o <<[decl |-> "flawed", name |-> "v"], Method("p", <<"x", "x">>)>>)
          [] f = "many.idl" -> <<Bad, Bad, Bad, Bad, Bad>>
          [] f = "clash.idl" -> InterfaceOf("C", <<>>, <<Attr("a")>>) \o InterfaceOf("D", <<<<"C">>>>, <<Attr("a")>>)
                                \o InterfaceOf("C", <<>>, <<>>)
          [] f = "scope.idl" -> <<ModuleOf("n")>> \o InterfaceOf("P", <<>>, <<Attr("p")>>)
                                \o InterfaceOf("Q", <<<<"P">>>>, <<Attr("q")>>) \o <<Closing>>
                                \o InterfaceOf("P", <<<<"n", "Q">>>>, <<Attr("t")>>)
          [] f = "array.idl" -> <<[decl |-> "array"]>>
          [] f = "zero.idl" -> InterfaceOf("Z", <<>>, Const("z", "i", Literal("double", 1)) \o Const("y", "d", Op("/", Num(3), Symbol("z"))))
          [] f = "low.idl" -> InterfaceOf("Y", <<>>, Const("l", "l", Num(-16)) \o Const("n", "l", Op("/", Symbol("l"), Num(-1))))
          [] f = "rest.idl" -> InterfaceOf("X", <<>>, Const("x", "d", Op("%", Literal("double", Inf), Num(-1))))
          [] f = "sums.idl" ->
                InterfaceOf("V", <<>>, Const("t", "t", Literal("string", "date"))
                  \o Const("u", "c", Op("+", Literal("string", ""), Symbol("t"))) \o Const("v", "s", Op("+", Symbol("t"), Num(1)))
                  \o Const("u", "d", Num(99)) \o <<Attr("v")>>)
          [] f = "top.idl" -> <<IncludeOf("left.idl")>> \o InterfaceOf("T", <<<<"L">>, <<"B">>>>, <<Attr("t")>>)
          [] f = "lost.idl" -> <<IncludeOf("nowhere.idl")>>
          [] OTHER -> <<[decl |-> "interface", name |-> <<"H">>, parents |-> <<>>], Attr("h"), Syntax>>)]

(* Compiled documents: inheritance of all forms among three interfaces; the*)
(* first and the last have a member in common, unless the first is a root. *)
Names == <<<<"A">>, <<"B">>, <<"C">>>>
ParentLists == <<<<>>, <<Names[1]>>, <<Names[2]>>, <<Names[1], Names[2]>>, <<Names[3]>>, <<<<"X">>>>>>
GraphIds == 1 .. 216
ParentsIn(i, k) == ParentLists[(((i - 1) \div <<1, 6, 36>>[k]) % 6) + 1]
GraphName(i) == "g" \o ToString(i)
Elt(n, ps, ms) == [name |-> n, parents |-> ps, members |-> ms]
GraphFile(i) ==
    Compiled(<<Elt(Names[1], ParentsIn(i, 1), <<"m">>), Elt(Names[2], ParentsIn(i, 2), <<"n">>),
               Elt(Names[3], ParentsIn(i, 3), IF ParentsIn(i, 1) = <<>> THEN <<"o">> ELSE <<"m", "o">>)>>)

RECURSIVE GraphFiles(_, _)
GraphFiles(i, j) ==
    IF i = j THEN GraphName(i) :> GraphFile(i)
    ELSE GraphFiles(i, (i + j) \div 2) @@ GraphFiles((i + j) \div 2 + 1, j)

CompiledFiles ==
    ("twice.bson" :> Compiled(<<Elt(Names[1], <<>>, <<"m">>), Elt(Names[1], <<Names[2]>>, <<>>)>>))
    @@ ("b.bcon" :> Compiled(<<Elt(Names[2], <<<<"B">>>>, <<>>)>>))
    @@ ("free.json" :> Compiled(<<Elt(<<"F">>, <<>>, <<"m">>)>>))
    @@ ("odd.txt" :> Compiled(<<>>))

MCFiles ==
    IdlFiles @@ CompiledFiles
    @@ GraphFiles(1, Cardinality(GraphIds))

MCSuffixOf ==
    [f \in DOMAIN MCFiles \cup {"out.bson", "out.idl", "out.x", "locked.json", "none.json", "metadb.bcon"} |->
        CASE f \in DOMAIN IdlFiles \cup {"out.idl"} -> "IDL"
          [] f \in {"twice.bson", "out.bson"} -> "BSON"
          [] f \in {"b.bcon", "metadb.bcon"} -> "BCON"
          [] f \in {"odd.txt", "out.x"} -> "X"
          [] OTHER -> "JSON"]

(* Command lines. *)
Run(p, items) == [prog |-> p, argv |-> items]
Idlc(items) == Run("idlc", items)

IdlcLines ==
    {Idlc(<<Word(f)>>) : f \in DOMAIN MCFiles}
    \cup {Idlc(<<Word("free.json"), Word("const.idl")>>), Idlc(<<Word("base.idl"), Word("left.idl"), Word("top.idl")>>),
          Idlc(<<Word("free.json"), Word("main.idl"), Short(<<"c", "o">>), Word("out.bson")>>),
          Idlc(<<LongWith("outputFormat", "JSON"), Word("main.idl")>>),
          Idlc(<<ShortWith(<<"f">>, "JSON"), Word("free.json"), Long("outputFile"), Word("locked.json")>>),
          Idlc(<<Short(<<"o">>), Word("out.idl"), Word("free.json")>>), Idlc(<<Short(<<"n", "d">>), Word("base.idl")>>),
          Idlc(<<Short(<<"o">>), Word("out.x"), Word("free.json")>>), Idlc(<<>>), Idlc(<<Word("free.json"), Short(<<"o">>)>>),
          Idlc(<<Short(<<"o", "c">>), Word("free.json")>>), Idlc(<<Long("nothing")>>), Idlc(<<Word("gone.idl")>>),
          Idlc(<<Short(<<"z">>)>>), Idlc(<<Long("help"), Word("main.idl")>>), Idlc(<<Long("outputFormat"), Word("YAML"), Word("free.json")>>)}

BundleFile(f) == LongWith("bundleFile", f)
OtherLines ==
    {Run(p, <<>>) : p \in {"test", "client", "reader", "server", "threads"}}
    \cup {Run("container", <<>>), Run("container", <<Long("help")>>), Run("container", <<Long("bundleFile")>>)}
    \cup {Run("container", <<BundleFile(f)>> \o rest) :
            f \in {"good.so", "poor.so", "no.so"}, rest \in {<<>>, <<Short(<<"i">>)>>, <<Short(<<"s">>)>>, <<Short(<<"i", "s">>)>>}}
    \cup {Run(p, items) : p \in {"master", "proxy"}, items \in {<<>>, <<Short(<<"s">>)>>, <<Short(<<"h">>)>>, <<Word("x"), Long("c")>>}}

MCCommandLines == IdlcLines \cup OtherLines
TestOnly == {Run("test", <<>>)}

(* Bundles. *)
MCLibraries ==
    ("good.so" :> {"BundleName", "BundleSymbolicName", "BundleVersion", "BundleActivator"})
    @@ ("fine.so" :> {"BundleName", "BundleSymbolicName", "BundleVersion"})
    @@ ("poor.so" :> {"BundleName"})
MCBundleFiles ==
    ("good.so" :> "plugins") @@ ("fine.so" :> "plugins") @@ ("poor.so" :> "plugins") @@ ("text.so" :> "plugins") @@ ("bare.so" :> "other")

(* Settings and hosts. *)
Uris(us) == "intf-main/listen-uri" :> us
MCConfigFiles ==
    [master |-> {NoSettings, "master/bundle-rootpath" :> "other"},
     proxy |-> {NoSettings,
                Uris(<<Url("socket", "two", 0), Url("ssl", "[::]", 7)>>) @@ ("intf-main/format" :> "BCON"),
                Uris(<<Url("ssl", "two", 1), Url("ssl", "two", 1), Url("ssl", "two", 1)>>),
                Uris(<<Url("socket", "nowhere", 0)>>), Uris(<<Url("http", "two", 0)>>),
                ("intf-main/keystore-path" :> "broken.p12") @@ ("intf-console/listen-uri" :> <<Url("https", "two", 0)>>),
                Uris(<<Url("socket", "localhost", 3695), Url("ssl", "two", 0)>>)
                    @@ ("intf-console/keystore-path" :> "console.p12")
                    @@ ("intf-console/listen-uri" :> <<Url("http", "localhost", 1), Url("https", "two", 0), Url("https", "[::]", 9)>>),
                "intf-main/format" :> "XML"}]
MCAnswers ==
    [n \in DOMAIN Defaults |-> IF n = "intf-main/format" THEN {"BSON"} ELSE IF n = "master/pidfile" THEN {"/run/x"} ELSE {}]
MCAddresses == ("[::]" :> <<"any">>) @@ ("localhost" :> <<"::1", "127.0.0.1">>) @@ ("two" :> <<"a1", "a2">>) @@ ("nowhere" :> <<>>)
MCKeystores == ("keystore.p12" :> "done") @@ ("console.p12" :> "done") @@ ("broken.p12" :> "Missing private key")

MCMessage == <<1, 2, 3>>

(* Two clients of an SSL listener, one of a plain one, and what is logged. *)
MCListenerOf == [c \in {"c1", "c2", "c3"} |-> IF c = "c2" THEN "socket" ELSE "ssl"]
MCParts == ({"append", "char"} \X {0, 1}) \cup ({"exception", "map"} \X {1}) \cup {<<"endl", 1>>, <<"raw", 0>>}
=============================================================================
