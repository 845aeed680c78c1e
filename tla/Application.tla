---------------------------- MODULE Application ----------------------------
(***************************************************************************)
(* What every program of NodeBus does around its own work: the command     *)
(* line (core/cliarguments), and Application::run, onExec and the signals  *)
(* (core/application).                                                     *)
(***************************************************************************)
EXTENDS Integers, SequencesExt

CONSTANTS
    CommandLines    \* the runs to check: a set of [prog, argv], argv a sequence of items

VARIABLES
    prog,           \* the program that runs
    argv,           \* its command line
    stage,          \* how far run() has got
    cli,            \* CliArguments: [ok, values, extra]
    exit            \* "none", "0", "1", "killed", "terminated" or "crashed"

appVars == <<prog, argv, stage, cli, exit>>

-----------------------------------------------------------------------------
(* CliArguments.  An option is a flag, or takes a text.                    *)

Flag(tag)           == [tag |-> tag, kind |-> "flag", on |-> FALSE, text |-> ""]
TextOption(tag, v)  == [tag |-> tag, kind |-> "text", on |-> FALSE, text |-> v]

(* The items of a command line: --name[=value], -letters[rest], the others.*)
Long(name)        == [text |-> name, kind |-> "long", name |-> name, given |-> FALSE, letters |-> <<>>]
LongWith(name, v) == [text |-> v, kind |-> "long", name |-> name, given |-> TRUE, letters |-> <<>>]
Short(letters)    == [text |-> "", kind |-> "short", name |-> "", given |-> FALSE, letters |-> letters]
ShortWith(letters, rest) == [Short(letters) EXCEPT !.text = rest, !.given = TRUE]
Word(w)           == [text |-> w, kind |-> "word", name |-> "", given |-> FALSE, letters |-> <<>>]

(* define() of run(), and of the onInit() of each program.                 *)
Options ==
    [idlc |-> [help |-> Flag("h"), display |-> Flag("d"), dryRun |-> Flag("n"), compile |-> Flag("c"),
               outputFile |-> TextOption("o", ""), outputFormat |-> TextOption("f", "AUTO")],
     master |-> [help |-> Flag("h"), daemonize |-> Flag("d"), editSettings |-> Flag("s"),
                 config |-> TextOption("c", "nodebus.conf")],
     container |-> [help |-> Flag("h"), bundleInfo |-> Flag("i"), bundleStart |-> Flag("s"),
                    bundleFile |-> TextOption("f", "")],
     proxy |-> [help |-> Flag("h"), editSettings |-> Flag("s"), config |-> TextOption("c", "nodebus.conf")]]

Rejected(st) == [st EXCEPT !.ok = FALSE]

(* One option: a flag is set; a text comes from the item itself or, for    *)
(* the last option of it, from the item that follows.                      *)
SetOption(st, name, it, following, isLast) ==
    IF st.values[name].kind = "flag" THEN [st EXCEPT !.values[name].on = TRUE]
    ELSE IF ~isLast THEN Rejected(st)
    ELSE IF it.given THEN [st EXCEPT !.values[name].text = it.text]
    ELSE IF following # <<>> THEN [st EXCEPT !.values[name].text = Head(following).text]
    ELSE Rejected(st)

Tagged(values, letter) == {name \in DOMAIN values : values[name].tag = letter}

LongArgument(st, it, following) ==
    IF it.name \in DOMAIN st.values THEN SetOption(st, it.name, it, following, TRUE) ELSE Rejected(st)

ShortArgument(st, it, following) ==
    FoldLeft(LAMBDA s, i :
                IF ~s.ok THEN s
                ELSE IF Tagged(s.values, it.letters[i]) = {} THEN Rejected(s)
                ELSE SetOption(s, CHOOSE n \in Tagged(s.values, it.letters[i]) : TRUE, it, following,
                               i = Len(it.letters)),
             st, [i \in DOMAIN it.letters |-> i])

(* Whether the value of the item is the item that follows it.              *)
TakesNext(values, it) ==
    LET names == IF it.kind = "long" THEN {it.name} \cap DOMAIN values ELSE Tagged(values, Last(it.letters))
    IN  ~it.given /\ \E n \in names : values[n].kind = "text"

(* One item after the other, but for one that was taken for a value.       *)
ParseItems(st, items) ==
    LET Item(w, i) ==
            LET it == items[i]
                following == SubSeq(items, i + 1, Len(items))
            IN  CASE ~w.st.ok -> w
                  [] w.st.ok /\ w.skip -> [w EXCEPT !.skip = FALSE]
                  [] w.st.ok /\ ~w.skip /\ it.kind = "word" -> [w EXCEPT !.st.extra = Append(@, it.text)]
                  [] OTHER -> [st |-> IF it.kind = "long" THEN LongArgument(w.st, it, following)
                                      ELSE ShortArgument(w.st, it, following),
                               skip |-> TakesNext(w.st.values, it)]
    IN  FoldLeft(Item, [st |-> st, skip |-> FALSE], [i \in DOMAIN items |-> i]).st

IsEnabled(name) == cli.values[name].on
GetValue(name)  == cli.values[name].text

-----------------------------------------------------------------------------
(* Application::run. *)

AppInit ==
    /\ \E line \in CommandLines : prog = line.prog /\ argv = line.argv
    /\ stage = "init"
    /\ cli = [ok |-> TRUE, values |-> <<>>, extra |-> <<>>]
    /\ exit = "none"

(* run() returns: main() destroys the application, then the process ends.  *)
Return(code) == stage' = "returned" /\ exit' = code

(* A wrong argument and --help end run() by an exception.                  *)
ParseArguments ==
    /\ stage = "init" /\ prog \in DOMAIN Options
    /\ cli' = ParseItems([ok |-> TRUE, values |-> Options[prog], extra |-> <<>>], argv)
    /\ CASE ~cli'.ok -> Return("1")
         [] cli'.ok /\ cli'.values.help.on -> Return("0")
         [] OTHER -> stage' = "exec" /\ UNCHANGED exit
    /\ UNCHANGED <<prog, argv>>

(* Application::onExec after onStart(): a program that has started.        *)
InstallHandlers ==
    /\ stage = "started" /\ stage' = "ready"
    /\ UNCHANGED <<prog, argv, cli, exit>>

(* exec() forgets a quit() that came before it. *)
EnterLoop ==
    /\ stage = "ready" /\ stage' = "loop"
    /\ UNCHANGED <<prog, argv, cli, exit>>

(* SIGTERM: the default action before signal() was called, quit() after it.*)
(* A service never goes on from the loop by itself.                        *)
BeforeHandlers == {"init", "exec", "configured", "setup", "search", "started"}

Killed ==
    /\ prog \in DOMAIN Options \ {"idlc"}
    /\ stage \in BeforeHandlers /\ stage' = "exited" /\ exit' = "killed"
    /\ UNCHANGED <<prog, argv, cli>>

Terminate ==
    /\ stage = "loop" /\ stage' = "stopping"
    /\ UNCHANGED <<prog, argv, cli, exit>>

(* notify(): an exception in a slot or an event handler ends the loop; so  *)
(* does terminated() of the proxy's PeerAdmin.                             *)
EventThrows ==
    /\ stage = "loop" /\ stage' = "stopping"
    /\ UNCHANGED <<prog, argv, cli, exit>>

(* exec() returns after onAboutToQuit; onStop() does nothing.              *)
LeaveLoop ==
    /\ stage = "stopping" /\ Return("0")
    /\ UNCHANGED <<prog, argv, cli>>

RunNext == ParseArguments \/ InstallHandlers \/ EnterLoop \/ Terminate \/ EventThrows \/ LeaveLoop
AppNext == RunNext \/ Killed
=============================================================================
