------------------------------ MODULE Bundles ------------------------------
(***************************************************************************)
(* Bundles (bundle/bundle.cpp, core/sharedlib.cpp), the container that     *)
(* runs one (container/container.cpp) and the master that looks for them   *)
(* (master/master.cpp).                                                    *)
(***************************************************************************)
EXTENDS Settings

CONSTANTS
    Libraries,     \* file name -> the symbols it exports, of the files that dlopen() accepts
    BundleFiles,   \* the *.so files on disk -> the directory they are under
    MaxCalls       \* bound on the calls of a client of Bundle

VARIABLES
    bundle,        \* m_bundle: [file, state, open (dlopen minus dlclose), activator], or NoBundle
    bundles,       \* Master::m_bundles: symbolic name -> file
    search,        \* the files the QDirIterator has not come to
    calls_made,    \* the calls of the client
    outcome        \* how the last call of the client ended

bundleVars == <<bundle, bundles, search, calls_made, outcome>>

NoBundle == [file |-> "", state |-> "none", open |-> 0, activator |-> FALSE]

BundlesIdle ==
    /\ bundle = NoBundle /\ bundles = <<>> /\ search = {}
    /\ calls_made = 0 /\ outcome = "none"

(* A call on the bundle: the bundle after it, and how it ended.            *)
Ends(b, how) == [b |-> b, how |-> how]

(* SharedLib::load, getSymbol, unload. *)
LoadLib(b) ==
    IF b.open > 0 THEN Ends(b, "InvalidSharedLib")
    ELSE IF b.file \notin DOMAIN Libraries THEN Ends(b, "LoadSharedLib")
    ELSE Ends([b EXCEPT !.open = 1], "done")
HasSymbol(b, symbol) == b.open > 0 /\ symbol \in Libraries[b.file]
UnloadLib(b) ==
    IF b.open = 0 THEN Ends(b, "InvalidSharedLib") ELSE Ends([b EXCEPT !.open = 0], "done")

(* Bundle::Bundle: three properties must be there.  When it throws,        *)
(* ~SharedLib closes what was opened and there is no bundle.               *)
Mandatory == {"BundleName", "BundleSymbolicName", "BundleVersion"}

(* The library stays open after its properties have been read. *)
MutantConstruct(file) ==
    LET b == LoadLib([NoBundle EXCEPT !.file = file, !.state = "RESOLVED"])
    IN  IF b.how # "done" \/ \E s \in Mandatory : ~HasSymbol(b.b, s) THEN Ends(NoBundle, "BundleException") ELSE b

Construct(file) ==
    LET b == LoadLib([NoBundle EXCEPT !.file = file, !.state = "RESOLVED"])
    IN  IF b.how # "done" \/ \E s \in Mandatory : ~HasSymbol(b.b, s) THEN Ends(NoBundle, "BundleException")
        ELSE UnloadLib(b.b)

(* Bundle::install. *)
Install(b) ==
    IF b.state # "UNINSTALLED" THEN Ends(b, "IllegalOperation")
    ELSE LET l == LoadLib(b)
         IN  CASE l.how = "LoadSharedLib" -> Ends(b, "BundleException")
               [] l.how = "InvalidSharedLib" -> l
               [] OTHER -> Ends([l.b EXCEPT !.activator = @ \/ HasSymbol(l.b, "BundleActivator")], "done")

(* Bundle::start and stop get to their throw in every state.               *)
Start(b) ==
    LET i == IF b.state = "UNINSTALLED" THEN Install(b) ELSE Ends(b, "done")
    IN  IF i.how # "done" THEN i
        ELSE Ends(IF i.b.state = "RESOLVED" THEN [i.b EXCEPT !.state = "ACTIVE"] ELSE i.b, "IllegalOperation")

Stop(b) == Ends(IF b.state = "ACTIVE" THEN [b EXCEPT !.state = "RESOLVED"] ELSE b, "IllegalOperation")

(* Bundle::uninstall: what stop() throws leaves it as well.                *)
Uninstall(b) ==
    CASE b.state = "ACTIVE" -> Stop(b)
      [] b.state = "RESOLVED" ->
             LET u == UnloadLib([b EXCEPT !.activator = FALSE])
             IN  IF u.how = "done" THEN Ends([u.b EXCEPT !.state = "UNINSTALLED"], "done") ELSE u
      [] OTHER -> Ends(b, "IllegalOperation")

(* A call from any other thread than the one that made the bundle.         *)
FromElsewhere(b) == Ends(b, "UnsupportedOperation")

-----------------------------------------------------------------------------
(* Container::Container watches its standard output, which epoll refuses   *)
(* for a regular file: nothing in main() catches that.                     *)
OutputIsFile ==
    /\ prog = "container" /\ stage = "init"
    /\ stage' = "exited" /\ exit' = "terminated"
    /\ UNCHANGED <<prog, argv, cli>> /\ UNCHANGED bundleVars

(* Container::onStart. *)
StartContainer ==
    /\ prog = "container" /\ stage = "exec"
    /\ LET made == Construct(GetValue("bundleFile"))
           started == Start(made.b)
           fails == GetValue("bundleFile") = "" \/ made.how # "done"
       IN  CASE fails -> bundle' = NoBundle /\ Return("1")
             [] ~fails /\ IsEnabled("bundleInfo") -> bundle' = made.b /\ Return("0")
             [] ~fails /\ ~IsEnabled("bundleInfo") /\ IsEnabled("bundleStart") ->
                    bundle' = started.b /\ IF started.how = "done" THEN stage' = "started" /\ UNCHANGED exit ELSE Return("1")
             [] OTHER -> bundle' = made.b /\ stage' = "started" /\ UNCHANGED exit
    /\ UNCHANGED <<prog, argv, cli, bundles, search, calls_made, outcome>>

(* ~Container, ~Bundle: an active bundle is stopped, and the exception of  *)
(* stop() does not get out of a destructor.                                *)
Unwound(b, code) == IF b.state = "ACTIVE" /\ Stop(b).how # "done" THEN "terminated" ELSE code

DestroyApplication ==
    /\ stage = "returned"
    /\ stage' = "exited" /\ exit' = Unwound(bundle, exit)
    /\ bundle' = NoBundle
    /\ UNCHANGED <<prog, argv, cli, bundles, search, calls_made, outcome>>

-----------------------------------------------------------------------------
(* Master::onStart, the settings read: every library under the root.       *)
StartMaster ==
    /\ prog = "master" /\ stage = "configured"
    /\ stage' = "search"
    /\ search' = {file \in DOMAIN BundleFiles : BundleFiles[file] = settings["master/bundle-rootpath"]}
    /\ UNCHANGED <<prog, argv, cli, exit, bundle, bundles, calls_made, outcome>>

(* What is no bundle is looked at again. *)
MutantTryBundle ==
    /\ stage = "search"
    /\ \E file \in search :
          IF Construct(file).how = "done"
          THEN search' = search \ {file} /\ bundles' = Append(bundles, Construct(file).b)
          ELSE UNCHANGED <<search, bundles>>
    /\ UNCHANGED <<prog, argv, stage, cli, exit, bundle, calls_made, outcome>>

(* A bundle replaces one of the same symbolic name, which is its file here.*)
TryBundle ==
    /\ stage = "search"
    /\ \E file \in search :
          /\ search' = search \ {file}
          /\ bundles' = IF Construct(file).how = "done" THEN Append(bundles, Construct(file).b) ELSE bundles
    /\ UNCHANGED <<prog, argv, stage, cli, exit, bundle, calls_made, outcome>>

(* A master without a bundle goes on. *)
MutantEndSearch ==
    /\ stage = "search" /\ search = {}
    /\ stage' = "started"
    /\ UNCHANGED <<prog, argv, cli, exit, bundle, bundles, search, calls_made, outcome>>

EndSearch ==
    /\ stage = "search" /\ search = {}
    /\ IF bundles = <<>> THEN Return("1") ELSE stage' = "started" /\ UNCHANGED exit
    /\ UNCHANGED <<prog, argv, cli, bundle, bundles, search, calls_made, outcome>>

-----------------------------------------------------------------------------
(* A client of the class Bundle: it makes one, calls it in any order, from *)
(* its own thread or another, and drops it.                                *)
ClientMakes ==
    /\ prog = "client" /\ stage = "init"
    /\ \E file \in DOMAIN BundleFiles : bundle' = Construct(file).b /\ outcome' = Construct(file).how
    /\ IF bundle' = NoBundle THEN Return("1") ELSE stage' = "client" /\ UNCHANGED exit
    /\ UNCHANGED <<prog, argv, cli, bundles, search, calls_made>>

ClientCalls ==
    /\ stage = "client" /\ calls_made < MaxCalls
    /\ \E r \in {Install(bundle), Start(bundle), Stop(bundle), Uninstall(bundle), FromElsewhere(bundle)} :
          bundle' = r.b /\ outcome' = r.how
    /\ calls_made' = calls_made + 1
    /\ UNCHANGED <<prog, argv, stage, cli, exit, bundles, search>>

ClientDrops ==
    /\ stage = "client" /\ Return("0")
    /\ UNCHANGED <<prog, argv, cli>> /\ UNCHANGED bundleVars

BundlesNext ==
    \/ OutputIsFile \/ StartContainer \/ DestroyApplication
    \/ StartMaster \/ TryBundle \/ EndSearch
    \/ ClientMakes \/ ClientCalls \/ ClientDrops

-----------------------------------------------------------------------------
(* A bundle keeps no library open between two calls, and none outlives a   *)
(* bundle that could not be made: its constructor gives back what it opened*)
(* and no order of calls opens it again, since uninstall() cannot succeed  *)
(* (Bundle, SharedLib).                                                    *)
LibraryClosed ==
    /\ bundle.open = 0 /\ ~bundle.activator /\ bundle.state \in {"none", "RESOLVED", "ACTIVE"}
    /\ \A i \in DOMAIN bundles : bundles[i].open = 0 /\ bundles[i].state = "RESOLVED"
=============================================================================
