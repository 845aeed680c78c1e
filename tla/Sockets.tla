------------------------------ MODULE Sockets ------------------------------
(***************************************************************************)
(* What a connection costs, from PeerAdmin::processServer to the last      *)
(* destructor: two descriptors (the socket, and the epoll set that every   *)
(* IOChannel has of its own) and, behind an SSL listener, an SSL session.  *)
(*                                                                         *)
(* Accepting is done by the Admin thread, one connection at a time, and    *)
(* any step of it may throw: accept and the options in s_accept, the       *)
(* constructors of IOChannel, SocketChannel and SSLSocketChannel, the last *)
(* of which waits in SSL_accept for the client.  Tasks of the pool read    *)
(* and close meanwhile.  What the selector does inside is in Selector;     *)
(* here is what comes of it: the thread may end, or drop every event.      *)
(***************************************************************************)
EXTENDS Naturals, Sequences, FiniteSets

CONSTANTS
    Listeners,       \* the server sockets of the proxy
    Secure,          \* those that are an SSLServerSocketChannel
    Tuned,           \* those with keep-alive options
    Conns,           \* connections that clients make, one after the other
    ListenerOf,      \* [Conns -> Listeners]
    Slots,            \* descriptors that are left for connections
    OptionsFail      \* may setsockopt fail?

ASSUME SocketsAssumption ==
    /\ Secure \subseteq Listeners /\ Tuned \subseteq Listeners
    /\ ListenerOf \in [Conns -> Listeners]
    /\ Slots \in Nat /\ OptionsFail \in BOOLEAN

VARIABLES
    client,      \* what the other end is at: see ClientStates
    backlog,     \* [Listeners -> Seq(Conns)]: the kernel's queues
    watched,     \* listeners in the selector's epoll set
    connStage,       \* where a connection is in this process: see ConnStages
    active,      \* Channel::m_active of the connections that have a channel
    files,       \* <<"socket" or "epoll", connection>>: open descriptors
    sessions,    \* connections with an SSL session
    admin,       \* [pc, listener, conn]: the Admin thread
    intact       \* no SSL session was used or freed after it was freed

socketVars == <<client, backlog, watched, connStage, active, files, sessions, admin, intact>>

ClientStates == {"away", "here", "agreed", "sent", "refused", "left"}
ConnStages == {"none", "waiting", "opening", "lost", "armed", "task", "closed", "gone"}

IsSecure(c) == ListenerOf[c] \in Secure
FilesOf(c) == {f \in files : f[2] = c}
SlotLeft == Cardinality(files) < Slots
AdminIdle == [pc |-> "select", listener |-> "none", conn |-> "none"]
AdminAt(pc) == admin' = [admin EXCEPT !.pc = pc]

SocketsInit ==
    /\ client = [c \in Conns |-> "away"]
    /\ backlog = [l \in Listeners |-> <<>>]
    /\ watched = Listeners
    /\ connStage = [c \in Conns |-> "none"]
    /\ active = {} /\ files = {} /\ sessions = {}
    /\ admin = AdminIdle
    /\ intact = TRUE

-----------------------------------------------------------------------------
(* The other ends.  A client of an SSL listener has to do its part of the  *)
(* handshake before it can send, does it wrong, or stays silent.           *)
ClientConnects(c) ==
    /\ client[c] = "away"
    /\ client' = [client EXCEPT ![c] = IF IsSecure(c) THEN "here" ELSE "agreed"]
    /\ backlog' = [backlog EXCEPT ![ListenerOf[c]] = Append(@, c)]
    /\ connStage' = [connStage EXCEPT ![c] = "waiting"]
    /\ UNCHANGED <<watched, active, files, sessions, admin, intact>>

ClientMoves(c) ==
    /\ \/ client[c] = "here" /\ client' = [client EXCEPT ![c] = "agreed"]
       \/ client[c] = "here" /\ client' = [client EXCEPT ![c] = "refused"]
       \/ client[c] = "agreed" /\ client' = [client EXCEPT ![c] = "sent"]
       \/ client[c] \notin {"away", "left"} /\ client' = [client EXCEPT ![c] = "left"]
    /\ UNCHANGED <<backlog, watched, connStage, active, files, sessions, admin, intact>>

-----------------------------------------------------------------------------
(* The Admin thread: processServer, step by step. *)

(* select() reports a listener with a connection in its queue, and takes   *)
(* it out of the epoll set.                                                *)
ServerReady(l) ==
    /\ admin.pc = "select" /\ l \in watched /\ backlog[l] # <<>>
    /\ watched' = watched \ {l}
    /\ admin' = [AdminIdle EXCEPT !.pc = "accept", !.listener = l]
    /\ UNCHANGED <<client, backlog, connStage, active, files, sessions, intact>>

(* s_accept(): the descriptor, which has no object yet.                    *)
SAccept ==
    /\ admin.pc = "accept"
    /\ IF SlotLeft
       THEN LET c == Head(backlog[admin.listener])
            IN  /\ backlog' = [backlog EXCEPT ![admin.listener] = Tail(@)]
                /\ connStage' = [connStage EXCEPT ![c] = "opening"]
                /\ files' = files \cup {<<"socket", c>>}
                /\ admin' = [admin EXCEPT !.pc = "options", !.conn = c]
       ELSE AdminAt("caught") /\ UNCHANGED <<backlog, connStage, files>>
    /\ UNCHANGED <<client, watched, active, sessions, intact>>

(* An exception leaves accept() while the descriptor is still in one of    *)
(* its variables: there is no object whose destructor could close it.      *)
Lose(c) == connStage' = [connStage EXCEPT ![c] = "lost"] /\ AdminAt("caught")

(* The four options of s_accept().                                         *)
SetOptions ==
    /\ admin.pc = "options"
    /\ \/ AdminAt("channel") /\ UNCHANGED connStage
       \/ OptionsFail /\ admin.listener \in Tuned /\ Lose(admin.conn)
    /\ UNCHANGED <<client, backlog, watched, active, files, sessions, intact>>

(* IOChannel::IOChannel: the base of the new channel, unless epoll_create1 *)
(* finds no descriptor.                                                    *)
NewIOChannel ==
    /\ admin.pc = "channel"
    /\ IF SlotLeft
       THEN /\ files' = files \cup {<<"epoll", admin.conn>>}
            /\ active' = active \cup {admin.conn}
            /\ AdminAt(IF IsSecure(admin.conn) THEN "session" ELSE "register")
            /\ UNCHANGED connStage
       ELSE Lose(admin.conn) /\ UNCHANGED <<files, active>>
    /\ UNCHANGED <<client, backlog, watched, sessions, intact>>

(* SSLSocketChannel::SSLSocketChannel: SSL_new, which may have no memory.  *)
NewSession ==
    /\ admin.pc = "session"
    /\ \/ sessions' = sessions \cup {admin.conn} /\ AdminAt("handshake")
       \/ AdminAt("unwind") /\ UNCHANGED sessions
    /\ UNCHANGED <<client, backlog, watched, connStage, active, files, intact>>

(* SSL_accept waits for the client; when it fails the session is freed and *)
(* the exception goes on.  Mutant: it is left to the destructor, which is  *)
(* not called for an object whose constructor throws.                      *)
MutantHandshakeFails(c) == AdminAt("unwind") /\ UNCHANGED <<sessions, intact>>
FreeSession(c) == sessions' = sessions \ {c} /\ intact' = (intact /\ c \in sessions)
HandshakeFails(c) == AdminAt("unwind") /\ FreeSession(c)

Handshake ==
    /\ admin.pc = "handshake"
    /\ \/ /\ client[admin.conn] \in {"agreed", "sent"}
          /\ AdminAt("register") /\ UNCHANGED <<sessions, intact>>
       \/ client[admin.conn] \in {"refused", "left"} /\ HandshakeFails(admin.conn)
    /\ UNCHANGED <<client, backlog, watched, connStage, active, files>>

(* The destructors of the bases: ~IOChannel closes what was handed to it   *)
(* with CLOSE_ON_DELETE, and its epoll set.                                *)
ClosedByBase(c) == {<<"socket", c>>, <<"epoll", c>>}

Unwind ==
    /\ admin.pc = "unwind"
    /\ files' = files \ ClosedByBase(admin.conn)
    /\ active' = active \ {admin.conn}
    /\ AdminAt("caught")
    /\ UNCHANGED <<client, backlog, watched, connStage, sessions, intact>>

(* The peer is built and the socket registered with it.                    *)
RegisterPeer ==
    /\ admin.pc = "register"
    /\ connStage' = [connStage EXCEPT ![admin.conn] = "armed"]
    /\ AdminAt("listen")
    /\ UNCHANGED <<client, backlog, watched, active, files, sessions, intact>>

(* The handler of processServer: nothing refers to the connection now.     *)
Caught ==
    /\ admin.pc = "caught"
    /\ connStage' = [c \in Conns |-> IF c = admin.conn /\ connStage[c] = "opening" THEN "gone" ELSE connStage[c]]
    /\ AdminAt("listen")
    /\ UNCHANGED <<client, backlog, watched, active, files, sessions, intact>>

(* The last line of processServer, after success and failure alike.        *)
(* Mutant: only a success gets there.                                      *)
MutantListenAgain == watched' = IF admin.conn \in active THEN watched \cup {admin.listener} ELSE watched
ListenAgain == watched' = watched \cup {admin.listener}

ServerDone ==
    /\ admin.pc = "listen"
    /\ ListenAgain
    /\ admin' = AdminIdle
    /\ UNCHANGED <<client, backlog, connStage, active, files, sessions, intact>>

-----------------------------------------------------------------------------
(* A connection that is there: tasks, the end, the destructor.             *)

PeerReady(c) ==
    /\ admin.pc = "select" /\ connStage[c] = "armed" /\ client[c] \in {"sent", "left"}
    /\ connStage' = [connStage EXCEPT ![c] = "task"]
    /\ UNCHANGED <<client, backlog, watched, active, files, sessions, admin, intact>>

(* SSLSocketChannel::close: SSL_shutdown, then the descriptor.            *)
CloseSocket(c) ==
    /\ active' = active \ {c}
    /\ files' = files \ {<<"socket", c>>}
    /\ intact' = (intact /\ (IsSecure(c) => c \in sessions))
    /\ connStage' = [connStage EXCEPT ![c] = "closed"]

(* A task of another connection closes the socket, as that of a box does   *)
(* with the client it answers.  If Admin has an event of it, the           *)
(* descriptor cannot be taken out of the epoll set, and the exception      *)
(* leaves PeerAdmin::run: the thread ends.                                 *)
ClosedByOther(c) ==
    /\ connStage[c] = "armed" /\ \E d \in Conns \ {c} : connStage[d] = "task"
    /\ CloseSocket(c)
    /\ \/ UNCHANGED admin
       \/ admin.pc = "select" /\ client[c] \in {"sent", "left"} /\ AdminAt("ended")
    /\ UNCHANGED <<client, backlog, watched, sessions>>

(* A signal interrupts epoll_wait.  errno stays EINTR, and select() takes  *)
(* every later epoll_wait for an interrupted one.                          *)
Interrupted ==
    /\ admin.pc = "select"
    /\ AdminAt("deaf")
    /\ UNCHANGED <<client, backlog, watched, connStage, active, files, sessions, intact>>

(* updateStatus() of a connection that has ended, by the Admin thread.     *)
SelectorCloses(c) ==
    /\ admin.pc = "select" /\ connStage[c] = "armed" /\ client[c] = "left"
    /\ CloseSocket(c)
    /\ UNCHANGED <<client, backlog, watched, sessions, admin>>

(* A task reads and attaches the socket again, or the socket is closed     *)
(* meanwhile.                                                              *)
TaskReads(c) ==
    /\ connStage[c] = "task"
    /\ \/ /\ client[c] = "sent"
          /\ client' = [client EXCEPT ![c] = "agreed"]
          /\ connStage' = [connStage EXCEPT ![c] = "armed"]
          /\ UNCHANGED <<active, files, intact>>
       \/ CloseSocket(c) /\ UNCHANGED client
    /\ UNCHANGED <<backlog, watched, sessions, admin>>

(* The last pointer goes: ~SSLSocketChannel frees the session, ~IOChannel  *)
(* closes the epoll set.                                                   *)
DeleteChannel(c) ==
    /\ connStage[c] = "closed"
    /\ IF IsSecure(c) THEN FreeSession(c) ELSE UNCHANGED <<sessions, intact>>
    /\ files' = files \ {<<"epoll", c>>}
    /\ connStage' = [connStage EXCEPT ![c] = "gone"]
    /\ UNCHANGED <<client, backlog, watched, active, admin>>

-----------------------------------------------------------------------------
ProcessServer ==
    \/ SAccept \/ SetOptions \/ NewIOChannel \/ NewSession \/ Handshake
    \/ Unwind \/ RegisterPeer \/ Caught \/ ServerDone

Serve(c) == PeerReady(c) \/ SelectorCloses(c)
OwnSteps(c) == TaskReads(c) \/ ClosedByOther(c) \/ DeleteChannel(c)

SocketsNext ==
    \/ \E l \in Listeners : ServerReady(l)
    \/ ProcessServer
    \/ Interrupted
    \/ \E c \in Conns : Serve(c) \/ OwnSteps(c) \/ ClientConnects(c) \/ ClientMoves(c)

(* The Admin thread goes on unless it has ended, and select() reports a    *)
(* listener that stays ready unless it drops the events.  Nothing is       *)
(* assumed of clients, tasks and signals.                                  *)
SocketsFairness ==
    /\ WF_socketVars(ProcessServer)
    /\ \A l \in Listeners : WF_socketVars(ServerReady(l))

-----------------------------------------------------------------------------
(* Types, and that a channel's socket is open as long as it is active.     *)
SocketsTypeOK ==
    /\ client \in [Conns -> ClientStates]
    /\ backlog \in [Listeners -> Seq(Conns)]
    /\ watched \subseteq Listeners
    /\ connStage \in [Conns -> ConnStages]
    /\ active \subseteq Conns /\ sessions \subseteq Conns
    /\ files \subseteq {"socket", "epoll"} \X Conns
    /\ \A c \in active : <<"socket", c>> \in files

(* A connection that is done with has no open descriptor, and an SSL       *)
(* session lives exactly as long as its connection, whichever step of      *)
(* accepting it failed: processServer says that it closes the connection   *)
(* (nio/peeradmin.cpp:91), and leaves that to the destructors.  Neither    *)
(* SSL_shutdown nor SSL_free meets a session that was freed.  The one      *)
(* exception is a connection lost inside accept(): its socket, and nothing *)
(* else, stays open for ever.                                              *)
GoneIsClosed ==
    /\ intact
    /\ \A c \in Conns :
          /\ connStage[c] = "gone" => FilesOf(c) = {}
          /\ connStage[c] = "lost" => FilesOf(c) = {<<"socket", c>>}
          /\ c \in sessions => connStage[c] \notin {"gone", "lost"}
          /\ IsSecure(c) /\ connStage[c] \in {"armed", "task", "closed"} => c \in sessions

(* Clients that fail or leave delay nobody for ever.  A connection waits   *)
(* in the backlog without end for one of four reasons: a client never does *)
(* its part of the handshake, for SSL_accept is called by the thread that  *)
(* serves every connection (processServer); descriptors stay scarce, and   *)
(* accept() fails again and again; the Admin thread has ended; or it drops *)
(* every event since a signal came.                                        *)
Stalled == admin.pc = "handshake" /\ client[admin.conn] = "here"
Halted == admin.pc \in {"ended", "deaf"}
WaitersServed ==
    []<>~Stalled /\ <>[]SlotLeft =>
        \A c \in Conns : (connStage[c] = "waiting") ~> (connStage[c] # "waiting" \/ Halted)
=============================================================================
