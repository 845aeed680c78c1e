------------------------------ MODULE Programs ------------------------------
(***************************************************************************)
(* The programs of the repository side by side: test (test/main.cpp),      *)
(* those of Commands, and two parts of every service in its loop: "server",*)
(* its sockets, and "threads", its log.  A behaviour runs one of them; the *)
(* modules of the others rest.                                             *)
(***************************************************************************)
EXTENDS Documents, Commands, Sockets, Log

serviceVars == <<socketVars, logVars>>
vars == <<docVars, commandVars, serviceVars>>

Init ==
    /\ CommandsInit /\ SocketsInit /\ LogInit
    /\ IF prog = "test" THEN DocumentsInit ELSE NoDocuments

DocumentsStep == DocumentsNext /\ UNCHANGED <<commandVars, serviceVars>>
CommandsStep  == CommandsNext /\ UNCHANGED <<docVars, serviceVars>>
SocketsStep   == prog = "server" /\ SocketsNext /\ UNCHANGED <<docVars, commandVars, logVars>>
LogStep       == prog = "threads" /\ LogNext /\ UNCHANGED <<docVars, commandVars, socketVars>>

(* The program is over, or waits for what need not come.                   *)
Over == IF prog = "test" THEN script = <<>> ELSE stage \in {"exited", "open"} \/ prog \in {"server", "threads"}
StandStill == Over /\ UNCHANGED vars

Next == DocumentsStep \/ CommandsStep \/ SocketsStep \/ LogStep \/ StandStill

Spec == Init /\ [][Next]_vars

(* The programs are sequential: one that is not over goes on, which means  *)
(* for a service in its event loop that somebody asks it to end; nobody    *)
(* has to kill it before.  For the reader time passes and the thread goes  *)
(* on; nothing is assumed of the other end.  The fairness of idlc is       *)
(* WF_vars(IdlcStep), with Compiling for its ENABLED: to find that out TLC *)
(* would run the compiler again.                                           *)
Compiling == prog = "idlc" /\ stage = "exec"
Alone(A) == A /\ UNCHANGED <<docVars, serviceVars>>
Runs(A)  == Alone(A /\ UNCHANGED <<idlcVars, settingsVars, bundleVars, proxyVars, streamVars>>)
Reads(A) == Alone(A /\ UNCHANGED <<idlcVars, settingsVars, bundleVars, proxyVars>>)

FairSpec ==
    /\ Spec
    /\ WF_vars(Runs(RunNext))
    /\ WF_vars(Alone(SettingsStep)) /\ WF_vars(Alone(BundlesStep)) /\ WF_vars(Alone(ProxyStep))
    /\ []<>~Compiling \/ []<><<Alone(IdlcStep)>>_vars
    /\ WF_vars(Reads(OpenChannel \/ ReaderNext)) /\ WF_vars(Reads(DeadlinePasses))
    /\ SocketsFairness

-----------------------------------------------------------------------------
TypeOK ==
    /\ prog \in {"test", "idlc", "master", "container", "proxy", "client", "reader", "server", "threads"}
    /\ held.st \in {"value", "thrown", "undefined"}
    /\ CommandsTypeOK
    /\ SocketsTypeOK

(* Every program comes to its end, a reader to its open channel: no input  *)
(* makes idlc or the search for bundles go on for ever, and a service in   *)
(* its loop hears the signal (IDLc::onExec, link, Master::onStart, run).   *)
ProgramsEnd == prog # "test" => <>Over
=============================================================================
