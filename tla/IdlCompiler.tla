---------------------------- MODULE IdlCompiler ----------------------------
(***************************************************************************)
(* The IDL compiler (idlc/idlc.cpp): IDLc::onExec reads every input file,  *)
(* links the interfaces they define and writes the result.                 *)
(***************************************************************************)
EXTENDS Idl, Application

CONSTANTS
    SuffixOf,      \* file name -> its suffix in upper case, "" for none
    Unwritable     \* the files that cannot be opened for writing

VARIABLES
    phase,         \* "idle", "compile", "collect", "link", "write" or "done"
    todo,          \* the input files that are left
    machine,       \* the IDL parser, when it runs
    elements,      \* resList: [name, parents, members]
    target,        \* outFile and format
    symTbl,        \* IDLc::m_symTbl: name -> Intf
    unlinked,      \* the symbols the loop of link() has not come to
    calls,         \* the calls of processIntf() under way: [intf, next]
    linkErrors,    \* the length of m_errors
    written        \* file name -> [format, linked, members], what idlc wrote

idlcVars == <<phase, todo, machine, elements, target, symTbl, unlinked, calls, linkErrors, written>>

FormatNames == {"IDL", "BCON", "BSON", "JSON"}

NoTarget == [file |-> "", format |-> ""]

IdlcIdle ==
    /\ phase = "idle" /\ todo = <<>> /\ machine = NoMachine /\ elements = <<>>
    /\ target = NoTarget /\ symTbl = [s \in {} |-> NoTarget] /\ unlinked = {} /\ calls = <<>>
    /\ linkErrors = 0 /\ written = [f \in {} |-> NoTarget]

Finish(code) == phase' = "done" /\ Return(code)
GoOn == UNCHANGED <<prog, argv, stage, cli, exit>>
Exits(code) == Finish(code) /\ UNCHANGED <<prog, argv, cli>>

(* IDLc::onExec up to its try block. *)
Begin ==
    /\ prog = "idlc" /\ stage = "exec" /\ phase = "idle"
    /\ todo' = cli.extra
    /\ IF cli.extra = <<>> THEN Exits("1") ELSE phase' = "compile" /\ GoOn
    /\ UNCHANGED <<machine, elements, target, symTbl, unlinked, calls, linkErrors, written>>

(* The next input: formatFromName() of its suffix, Parser::fromFile().  An *)
(* IDL file starts the driver; a compiled document gives its members.      *)
OpenInput ==
    /\ phase = "compile" /\ machine.stack = <<>> /\ todo # <<>>
    /\ LET file == Head(todo)
       IN  CASE file \notin DOMAIN Files \/ SuffixOf[file] \notin FormatNames ->
                    Exits("1") /\ UNCHANGED <<machine, elements, todo>>
             [] file \in DOMAIN Files /\ SuffixOf[file] = "IDL" ->
                    /\ machine' = Open(NoMachine, file)
                    /\ UNCHANGED <<elements, todo, phase>> /\ GoOn
             [] OTHER ->
                    /\ elements' = elements \o Files[file].members /\ todo' = Tail(todo)
                    /\ UNCHANGED <<machine, phase>> /\ GoOn
    /\ UNCHANGED <<target, symTbl, unlinked, calls, linkErrors, written>>

(* The parser of the file on top of the stack reduces one declaration.     *)
Declare ==
    /\ phase = "compile" /\ machine.stack # <<>>
    /\ LET text == Files[Top(machine).file].text
           after == Execute(machine, text[Top(machine).pos])
       IN  /\ Top(machine).pos <= Len(text)
           /\ machine' = after
           /\ IF after.crashed THEN phase' = "done" /\ stage' = "exited" /\ exit' = "crashed" /\ UNCHANGED <<prog, argv, cli>>
              ELSE UNCHANGED phase /\ GoOn
    /\ UNCHANGED <<todo, elements, target, symTbl, unlinked, calls, linkErrors, written>>

(* Back from an included file: its driver goes, with its m_localElts.      *)
EndInclude ==
    /\ phase = "compile" /\ Len(machine.stack) > 1
    /\ Top(machine).pos > Len(Files[Top(machine).file].text)
    /\ machine' = [AtEnd(machine) EXCEPT !.stack = Front(@)]
    /\ GoOn
    /\ UNCHANGED <<phase, todo, elements, target, symTbl, unlinked, calls, linkErrors, written>>

(* Driver::parse returns the interfaces of the file, or throws its errors. *)
EndInput ==
    /\ phase = "compile" /\ Len(machine.stack) = 1
    /\ Top(machine).pos > Len(Files[Top(machine).file].text)
    /\ machine' = [AtEnd(machine) EXCEPT !.stack = <<>>]
    /\ IF machine'.errors > 0 THEN Exits("1") /\ UNCHANGED <<elements, todo>>
       ELSE elements' = elements \o Top(machine).elts /\ todo' = Tail(todo) /\ UNCHANGED phase /\ GoOn
    /\ UNCHANGED <<target, symTbl, unlinked, calls, linkErrors, written>>

(* The output file and its format. *)
DefaultName == [BCON |-> "metadb.bcon", BSON |-> "metadb.bson", JSON |-> "metadb.json", IDL |-> "metadb.idl"]

Target(file, fmt) ==
    IF fmt # "AUTO" THEN [file |-> IF file = "" /\ fmt \in FormatNames THEN DefaultName[fmt] ELSE file, format |-> fmt]
    ELSE IF file = "" THEN [file |-> "metadb.bcon", format |-> "BCON"]
    ELSE [file |-> file, format |-> SuffixOf[file]]

ChooseTarget ==
    /\ phase = "compile" /\ machine.stack = <<>> /\ todo = <<>>
    /\ target' = Target(GetValue("outputFile"), GetValue("outputFormat"))
    /\ IF target'.format \notin FormatNames THEN Exits("1")
       ELSE phase' = (IF IsEnabled("compile") THEN "write" ELSE "collect") /\ GoOn
    /\ UNCHANGED <<todo, machine, elements, symTbl, unlinked, calls, linkErrors, written>>

-----------------------------------------------------------------------------
(* IDLc::link. *)

Intf(elt) == [parents |-> elt.parents, members |-> Range(elt.members), ancestors |-> {}, mark |-> FALSE, completed |-> FALSE]

(* The first of the elements with a name is the one that counts.           *)
FirstOf(name) == elements[SelectInSeq(elements, LAMBDA e : e.name = name)]

Collect ==
    /\ phase = "collect"
    /\ LET names == {elements[i].name : i \in DOMAIN elements}
       IN  /\ symTbl' = [n \in names |-> Intf(FirstOf(n))]
           /\ unlinked' = names
           /\ linkErrors' = Len(elements) - Cardinality(names)
    /\ phase' = "link" /\ GoOn
    /\ UNCHANGED <<todo, machine, elements, target, calls, written>>

Caller == Last(calls)
Parents == symTbl[Caller.intf].parents
Parent == Parents[Caller.next]
Continue == [calls EXCEPT ![Len(calls)].next = @ + 1]
LinkFrame == GoOn /\ UNCHANGED <<phase, todo, machine, elements, target, written>>

Enter(name) ==
    /\ symTbl' = [symTbl EXCEPT ![name].mark = TRUE]
    /\ calls' = Append(calls, [intf |-> name, next |-> 1])
    /\ UNCHANGED linkErrors /\ LinkFrame

(* processIntf() from the loop of link(), in whatever order the names have.*)
ProcessNext ==
    /\ phase = "link" /\ calls = <<>>
    /\ \E name \in unlinked :
          /\ unlinked' = unlinked \ {name}
          /\ IF symTbl[name].completed THEN UNCHANGED <<symTbl, calls, linkErrors>> /\ LinkFrame ELSE Enter(name)

(* processIntf() of a parent that is neither marked nor completed.         *)
ProcessParent ==
    /\ phase = "link" /\ calls # <<>> /\ Caller.next <= Len(Parents)
    /\ Parent \in DOMAIN symTbl
    /\ ~symTbl[Parent].mark /\ ~symTbl[Parent].completed
    /\ Enter(Parent) /\ UNCHANGED unlinked

UndefinedParent ==
    /\ phase = "link" /\ calls # <<>> /\ Caller.next <= Len(Parents)
    /\ Parent \notin DOMAIN symTbl
    /\ linkErrors' = linkErrors + 1 /\ calls' = Continue
    /\ UNCHANGED <<symTbl, unlinked>> /\ LinkFrame

(* What a name inherits once a parent is done.  (MutantMerged: the parent, *)
(* without what it inherits.)                                              *)
MutantMerged(name, parent) == symTbl[name].ancestors \cup {parent}
Merged(name, parent) == symTbl[name].ancestors \cup symTbl[parent].ancestors \cup {parent}

(* processIntf() of the parent returned: at once with an error if it is on *)
(* the way to itself.                                                      *)
MergeParent ==
    /\ phase = "link" /\ calls # <<>> /\ Caller.next <= Len(Parents)
    /\ Parent \in DOMAIN symTbl
    /\ symTbl[Parent].mark \/ symTbl[Parent].completed
    /\ linkErrors' = linkErrors + (IF symTbl[Parent].mark THEN 1 ELSE 0)
    /\ symTbl' = [symTbl EXCEPT ![Caller.intf].ancestors = Merged(Caller.intf, Parent)]
    /\ calls' = Continue
    /\ UNCHANGED unlinked /\ LinkFrame

(* All parents seen: the members against those of the ancestors.           *)
Complete ==
    /\ phase = "link" /\ calls # <<>> /\ Caller.next > Len(Parents)
    /\ symTbl' = [symTbl EXCEPT ![Caller.intf].mark = FALSE, ![Caller.intf].completed = TRUE]
    /\ linkErrors' = linkErrors + Conflicts(symTbl[Caller.intf].members,
                                            [a \in symTbl[Caller.intf].ancestors |-> symTbl[a].members])
    /\ calls' = Front(calls)
    /\ UNCHANGED unlinked /\ LinkFrame

(* The errors of link() are printed and forgotten. *)
MutantEndLink ==
    /\ phase = "link" /\ calls = <<>> /\ unlinked = {}
    /\ phase' = "write" /\ GoOn
    /\ UNCHANGED <<todo, machine, elements, target, symTbl, unlinked, calls, linkErrors, written>>

EndLink ==
    /\ phase = "link" /\ calls = <<>> /\ unlinked = {}
    /\ IF linkErrors > 0 THEN Exits("1") ELSE phase' = "write" /\ GoOn
    /\ UNCHANGED <<todo, machine, elements, target, symTbl, unlinked, calls, linkErrors, written>>

(* Serializer::toFile, unless dry-run: what it throws ends run().          *)
WriteResult ==
    /\ phase = "write"
    /\ IF IsEnabled("dryRun") THEN Exits("0") /\ UNCHANGED written
       ELSE IF target.format = "IDL" \/ target.file \in Unwritable THEN Exits("1") /\ UNCHANGED written
       ELSE /\ written' = [f \in DOMAIN written \cup {target.file} |->
                              IF f = target.file
                              THEN [format |-> target.format, linked |-> ~IsEnabled("compile"), members |-> elements]
                              ELSE written[f]]
            /\ Exits("0")
    /\ UNCHANGED <<todo, machine, elements, target, symTbl, unlinked, calls, linkErrors>>

IdlcNext ==
    \/ Begin \/ OpenInput \/ Declare \/ EndInclude \/ EndInput \/ ChooseTarget
    \/ Collect \/ ProcessNext \/ ProcessParent \/ UndefinedParent \/ MergeParent \/ Complete \/ EndLink
    \/ WriteResult

-----------------------------------------------------------------------------
(* What a correct program comes to, said of the files as they stand.       *)

Includes(f) == {Files[f].text[i].file : i \in {j \in DOMAIN Files[f].text : Files[f].text[j].decl = "include"}}

(* Within one input no file is parsed twice, whatever includes what, and   *)
(* none that nobody included; an input is accepted only after all it       *)
(* reaches has been parsed (Driver::include, m_fileList).                  *)
ParsedOnce ==
    LET opened == machine.opened
    IN  /\ IsInjective(opened)
        /\ \A i \in DOMAIN opened \ {1} : \E j \in 1 .. i - 1 : opened[i] \in Includes(opened[j])
        /\ phase = "compile" /\ machine.stack = <<>> =>
               \A i \in DOMAIN opened : Includes(opened[i]) \subseteq Range(opened)

(* The names of an accepted input are unique, every parent stands before   *)
(* its interface and is one, and no member is inherited twice (NodeIntf,   *)
(* the resolve() and append() of the contexts).                            *)
MembersIn(t, i) == Range(t[i].members)
IdlWellFormed ==
    phase = "compile" /\ Len(machine.stack) = 1 /\ machine.errors = 0 =>
        LET t == machine.symTbl
            interfaces == {s \in DOMAIN t : t[s].type = "I"}
        IN  \A i \in interfaces :
               /\ Range(t[i].parents) \subseteq interfaces \ {i}
               /\ t[i].ancestors = UNION {{p} \cup t[p].ancestors : p \in Range(t[i].parents)}
               /\ i \notin t[i].ancestors
               /\ \A a, b \in t[i].ancestors \cup {i} : a # b => MembersIn(t, a) \cap MembersIn(t, b) = {}
               /\ \A k \in MembersIn(t, i) : Append(i, k) \in DOMAIN t /\ t[Append(i, k)].type # "I"

(* What IDLc::onExec takes from the parser can be relied on.               *)
IdlAccepted == ParsedOnce /\ IdlWellFormed

(* Linking accepts the elements exactly if they are closed, acyclic, of    *)
(* different names and without conflict (link, processIntf).               *)
ParentsOf(name) == Range(FirstOf(name).parents)
ElementNames == {elements[i].name : i \in DOMAIN elements}
AllNames == UNION {{n} \cup ParentsOf(n) : n \in ElementNames}
Inherited(name, S) == ParentsOf(name) \subseteq S /\ \A n \in S \cap ElementNames : ParentsOf(n) \subseteq S
Ancestors(name) == {a \in AllNames : \A S \in SUBSET AllNames : Inherited(name, S) => a \in S}
WellLinked ==
    /\ Cardinality(ElementNames) = Len(elements)
    /\ \A n \in ElementNames :
          /\ Ancestors(n) \subseteq ElementNames
          /\ n \notin Ancestors(n)
          /\ \A a, b \in Ancestors(n) \cup {n} :
                a # b => Range(FirstOf(a).members) \cap Range(FirstOf(b).members) = {}
LinkExact == phase = "link" /\ calls = <<>> /\ unlinked = {} => (linkErrors = 0 <=> WellLinked)

(* What idlc leaves behind: on success the elements of all inputs, linked  *)
(* unless told to compile only, in the file it was told; else no file.     *)
ResultOrNothing ==
    IF prog = "idlc" /\ exit = "0" /\ ~IsEnabled("help") /\ ~IsEnabled("dryRun")
    THEN LET t == Target(GetValue("outputFile"), GetValue("outputFormat"))
         IN  /\ WellLinked \/ IsEnabled("compile")
             /\ written = [f \in {t.file} |->
                              [format |-> t.format, linked |-> ~IsEnabled("compile"), members |-> elements]]
    ELSE written = [f \in {} |-> NoTarget]
=============================================================================
