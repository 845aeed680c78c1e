------------------------------ MODULE Commands ------------------------------
(***************************************************************************)
(* The programs that have a command line, side by side: idlc, container,   *)
(* master and proxy (up to its event loop), and two clients of the library,*)
(* of Bundle and of StreamChannel.  A behaviour runs one of them; the      *)
(* modules of the others rest.                                             *)
(***************************************************************************)
EXTENDS IdlCompiler, Bundles, ProxyStart, Stream

commandVars == <<appVars, idlcVars, settingsVars, bundleVars, proxyVars, streamVars>>

CommandsInit == AppInit /\ IdlcIdle /\ SettingsIdle /\ BundlesIdle /\ ProxyIdle /\ StreamIdle

AppStep      == AppNext      /\ UNCHANGED <<idlcVars, settingsVars, bundleVars, proxyVars, streamVars>>
IdlcStep     == IdlcNext     /\ UNCHANGED <<settingsVars, bundleVars, proxyVars, streamVars>>
SettingsStep == SettingsNext /\ UNCHANGED <<idlcVars, bundleVars, proxyVars, streamVars>>
BundlesStep  == BundlesNext  /\ UNCHANGED <<idlcVars, settingsVars, proxyVars, streamVars>>
ProxyStep    == ProxyNext    /\ UNCHANGED <<idlcVars, settingsVars, bundleVars, streamVars>>
StreamStep   == StreamNext   /\ UNCHANGED <<idlcVars, settingsVars, bundleVars, proxyVars>>

CommandsNext == AppStep \/ IdlcStep \/ SettingsStep \/ BundlesStep \/ ProxyStep \/ StreamStep

CommandsSpec == CommandsInit /\ [][CommandsNext]_commandVars

-----------------------------------------------------------------------------
(* Types and bounds.  The buffer of a channel holds no more than its size  *)
(* (m_readBuff), and no more is said to be available than the bytes of the *)
(* message and the framing of their records.                               *)
CommandsTypeOK ==
    /\ exit \in {"none", "0", "1", "killed", "terminated", "crashed"}
    /\ stage \in BeforeHandlers \cup {"client", "open", "ready", "loop", "stopping", "returned", "exited"}
    /\ exit = "none" <=> stage \notin {"returned", "exited"}
    /\ phase \in {"idle", "compile", "collect", "link", "write", "done"}
    /\ DOMAIN symTbl \subseteq ElementNames /\ unlinked \subseteq DOMAIN symTbl
    /\ linkErrors \in Nat
    /\ face \in {"none", "main", "console"}
    /\ bundle.open \in {0, 1}
    /\ task.n \in 0 .. 2 * Len(Message) + 2
    /\ Len(chan.buffer) <= BufSize

-----------------------------------------------------------------------------
(* What an exit code says is so.  0: the service was stopped in its loop,  *)
(* with all it needs, or was asked for help, for its settings or for the   *)
(* manifest of a bundle.  No exception and no null pointer ends a program  *)
(* but those named here: an output that is a file, a bundle that was       *)
(* started (start() throws, and so does the stop() of ~Bundle), a host that*)
(* does not resolve, an IDL file with an array, or a division in one that  *)
(* the processor traps (Application::run, onExec, the onStart of each      *)
(* program).                                                               *)
Asked == cli.ok /\ cli.values.help.on
Valid(file) == file \in DOMAIN Libraries /\ Mandatory \subseteq Libraries[file]
Started(file) == cli.ok /\ IsEnabled("bundleStart") /\ ~IsEnabled("bundleInfo") /\ Valid(file)
AllListen == Len(listeners) = Len(Configured("intf-main/listen-uri")) + Len(Configured("intf-console/listen-uri"))

(* What the IDL parser has just reduced: an array, or a division (doubles  *)
(* have only the remainder there) by what is zero as a long long, or of    *)
(* the lowest long long by -1.                                             *)
Trapped ==
    LET d == Files[Top(machine).file].text[Top(machine).pos - 1]
        a == Operands(machine)[Len(Operands(machine)) - 1]
        b == Last(Operands(machine))
    IN  \/ d.decl = "array"
        \/ /\ d.decl = "op"
           /\ d.op = "%" \/ (d.op = "/" /\ "double" \notin {a.kind, b.kind})
           /\ AsLong(b) = 0 \/ (AsLong(a) = Lowest /\ AsLong(b) = -1)

ExitTrue ==
    stage = "exited" =>
        CASE exit = "0" /\ prog \in DOMAIN Options ->
                \/ Asked
                \/ prog = "master" /\ cli.ok /\ (IsEnabled("editSettings") \/ \E i \in DOMAIN bundles : Valid(bundles[i].file))
                \/ prog = "container" /\ cli.ok /\ Valid(GetValue("bundleFile")) /\ ~Started(GetValue("bundleFile"))
                \/ prog = "proxy" /\ cli.ok /\ (IsEnabled("editSettings") \/ AllListen)
                \/ prog = "idlc" /\ cli.extra # <<>>
          [] exit = "terminated" ->
                \/ prog = "container" /\ (cli.values = <<>> \/ Started(GetValue("bundleFile")))
                \/ prog = "client"
          [] exit = "crashed" ->
                \/ prog = "proxy" /\ Addresses[Head(urls).host] = <<>>
                \/ prog = "idlc" /\ machine.crashed /\ Trapped
                \/ prog = "reader" /\ task.pc = "none"
          [] OTHER -> TRUE
=============================================================================
