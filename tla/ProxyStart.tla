----------------------------- MODULE ProxyStart -----------------------------
(***************************************************************************)
(* The start of the proxy (proxy/proxy.cpp): one listener for each URL of  *)
(* its settings, with the sockets and SSL contexts they take               *)
(* (nio/serversocketchannel.cpp, nio/sslserversocketchannel.cpp).          *)
(***************************************************************************)
EXTENDS Settings

CONSTANTS
    Addresses,   \* host -> what getaddrinfo() finds for it: a sequence, <<>> for an unknown host
    Keystores    \* path -> what reading the keystore comes to: "done", or what it throws

(* getaddrinfo() has an answer for each host that a file may name.         *)
ValueIn(s, name) == IF name \in DOMAIN s THEN s[name] ELSE Defaults[name]

ASSUME HostsAssumption ==
    /\ \A h \in DOMAIN Addresses : Addresses[h] \in Seq(Range(Addresses[h]))
    /\ \A s \in ConfigFiles.proxy, name \in {"intf-main/listen-uri", "intf-console/listen-uri"} :
          /\ ValueIn(s, name) \in Seq(Range(ValueIn(s, name)))
          /\ \A url \in Range(ValueIn(s, name)) : url.host \in DOMAIN Addresses

VARIABLES
    urls,        \* the URLs that the loop has not come to
    face,        \* "main" or "console", whose URLs they are, or "none"
    context,     \* sslCtx: the keystore it was made of, or "none"
    listeners,   \* attached: [address, port, ssl, factory, keepAlive], in order
    openFds      \* the bound or unbound sockets that no close() was called for

proxyVars == <<urls, face, context, listeners, openFds>>

ProxyIdle ==
    /\ urls = <<>> /\ face = "none" /\ context = "none"
    /\ listeners = <<>> /\ openFds = {}

Interface ==
    [main    |-> [schemes |-> {"ssl", "socket"}, port |-> 3693, uris |-> "intf-main/listen-uri",
                  keystore |-> "intf-main/keystore-path"],
     console |-> [schemes |-> {"https", "http"}, port |-> 3695, uris |-> "intf-console/listen-uri",
                  keystore |-> "intf-console/keystore-path"]]

IsSsl(url) == url.scheme \in {"ssl", "https"}
PortOf(f, url) == IF url.port = 0 THEN Interface[f].port ELSE url.port
FactoryOf(f) == IF f = "main" THEN settings["intf-main/format"] ELSE "HTTP"

(* PKCS12SSLCtx: whatever fails, the context and the file are given back.  *)
MakesContext(path) == path \in DOMAIN Keystores /\ Keystores[path] = "done"

-----------------------------------------------------------------------------
(* __bind: what becomes of each address of the host, one after the other.  *)

AttemptOutcomes == {"no socket", "no option", "refused", "bound", "no listen"}

(* Where the loop over the addresses ends: at the first socket that is     *)
(* bound or cannot be made or set up; 0 when every one was refused.        *)
LastAttempt(outcomes) == SelectInSeq(outcomes, LAMBDA o : o # "refused")

(* An address in use is refused, SO_REUSEADDR or not. *)
InUse(address, port) == \E i \in DOMAIN listeners : listeners[i].address = address /\ listeners[i].port = port

Possible(outcomes, addresses, port) ==
    \A i \in DOMAIN addresses : InUse(addresses[i], port) => outcomes[i] \notin {"bound", "no listen"}

Sock(address, port) == [address |-> address, port |-> port]

(* The sockets left open: the bound one, and the one that could not be set *)
(* up or be listened on; what was refused has been closed.                 *)
LeftOpen(outcomes, addresses, port) ==
    {Sock(addresses[i], port) : i \in {j \in {LastAttempt(outcomes)} \ {0} : outcomes[j] # "no socket"}}

-----------------------------------------------------------------------------
(* Proxy::onStart. *)

StartProxy ==
    /\ prog = "proxy" /\ stage = "configured" /\ face = "none"
    /\ IF settings["intf-main/format"] \in {"JSON", "BSON", "BCON"}
       THEN face' = "main" /\ urls' = settings["intf-main/listen-uri"] /\ UNCHANGED <<stage, exit>>
       ELSE Return("1") /\ UNCHANGED <<face, urls>>
    /\ UNCHANGED <<prog, argv, cli, context, listeners, openFds>>

Fails == Return("1") /\ UNCHANGED <<urls, listeners>>

(* The constructor of a server socket and PeerAdmin::attach; keep-alive is *)
(* set on the main interface.                                              *)
Listen(url, path) ==
    \E outcomes \in [1 .. Len(Addresses[url.host]) -> AttemptOutcomes] :
       LET addresses == Addresses[url.host]
           port == PortOf(face, url)
           last == LastAttempt(outcomes)
       IN  /\ Possible(outcomes, addresses, port)
           /\ openFds' = openFds \cup LeftOpen(outcomes, addresses, port)
           /\ IF last # 0 /\ outcomes[last] = "bound"
              THEN /\ listeners' = Append(listeners, [address |-> addresses[last], port |-> port,
                                                      ssl |-> IF IsSsl(url) THEN path ELSE "none",
                                                      factory |-> FactoryOf(face), keepAlive |-> face = "main"])
                   /\ urls' = Tail(urls) /\ UNCHANGED <<stage, exit>>
              ELSE Fails

(* getaddrinfo() reports an unknown host by a positive or another negative *)
(* number than -1: the list it did not make is read.                       *)
OpenListener ==
    /\ prog = "proxy" /\ stage = "configured" /\ urls # <<>>
    /\ LET url == Head(urls)
           path == IF context = "none" THEN settings[Interface[face].keystore] ELSE context
       IN  CASE url.scheme \notin Interface[face].schemes
                    \/ (IsSsl(url) /\ context = "none" /\ ~MakesContext(path)) ->
                    Fails /\ UNCHANGED <<context, openFds>>
             [] OTHER ->
                    /\ context' = IF IsSsl(url) THEN path ELSE context
                    /\ IF Addresses[url.host] = <<>>
                       THEN stage' = "exited" /\ exit' = "crashed" /\ UNCHANGED <<urls, listeners, openFds>>
                       ELSE Listen(url, path)
    /\ UNCHANGED <<prog, argv, cli, face>>

(* The console goes on with the context of the main interface. *)
MutantNextInterface ==
    /\ prog = "proxy" /\ stage = "configured" /\ urls = <<>> /\ face # "none"
    /\ IF face = "main"
       THEN face' = "console" /\ urls' = settings["intf-console/listen-uri"] /\ UNCHANGED <<stage, context>>
       ELSE stage' = "started" /\ UNCHANGED <<face, urls, context>>
    /\ UNCHANGED <<prog, argv, cli, exit, listeners, openFds>>

(* After the main interface the console, with an SSL context of its own;   *)
(* then the Admin thread is started.                                       *)
NextInterface ==
    /\ prog = "proxy" /\ stage = "configured" /\ urls = <<>> /\ face # "none"
    /\ IF face = "main"
       THEN face' = "console" /\ urls' = settings["intf-console/listen-uri"] /\ context' = "none" /\ UNCHANGED stage
       ELSE stage' = "started" /\ UNCHANGED <<face, urls, context>>
    /\ UNCHANGED <<prog, argv, cli, exit, listeners, openFds>>

ProxyNext == StartProxy \/ OpenListener \/ NextInterface

-----------------------------------------------------------------------------
(* A proxy that runs listens on what its file says and on nothing else:    *)
(* each URL of both interfaces, in order, has a listener on an address of  *)
(* its host, with the peers of its interface and, for ssl and https, the   *)
(* keystore of its interface; and no other socket is left open             *)
(* (Proxy::onStart, __bind, Settings::define).                             *)
Configured(name) == ValueIn(stored, name)

Serves(l, f, url) ==
    /\ l.address \in Range(Addresses[url.host])
    /\ l.port = PortOf(f, url)
    /\ l.ssl = IF IsSsl(url) THEN Configured(Interface[f].keystore) ELSE "none"
    /\ l.factory = IF f = "main" THEN Configured("intf-main/format") ELSE "HTTP"
    /\ l.keepAlive = (f = "main")

ListenersComplete ==
    prog = "proxy" /\ stage \in {"started", "ready", "loop"} =>
        LET main == Configured("intf-main/listen-uri")
            console == Configured("intf-console/listen-uri")
        IN  /\ Len(listeners) = Len(main) + Len(console)
            /\ \A i \in DOMAIN main : Serves(listeners[i], "main", main[i])
            /\ \A i \in DOMAIN console : Serves(listeners[Len(main) + i], "console", console[i])
            /\ openFds = {Sock(listeners[i].address, listeners[i].port) : i \in DOMAIN listeners}
            /\ Cardinality(openFds) = Len(listeners)
=============================================================================
