----------------------------- MODULE PeerAdmin -----------------------------
(***************************************************************************)
(* PeerAdmin and Peer (nodebus/nio) over the Selector: the Admin thread    *)
(* selects, accepts connections and queues a Peer::Task for every ready    *)
(* peer; the threads of the QThreadPool run the tasks, which read, attach  *)
(* the socket again or close it.                                           *)
(*                                                                         *)
(* A channel outside Shared is used the way a StdPeer uses its socket: by  *)
(* nobody but the task that was queued for it, which may also leave it     *)
(* mute: open, referred to by the registry m_stdPeers and watched by       *)
(* nobody.  A channel in Shared is used the way an HttpPeer uses its own:  *)
(* the task hands the peer over (StdPeer::send) before it attaches the     *)
(* socket, and from then on another task may answer on it and close it     *)
(* (HttpPeer::sendResult).                                                 *)
(***************************************************************************)
EXTENDS Selector, Sequences

CONSTANTS Shared,   \* channels that get closed by another task than their own
          Quit      \* may the application quit?

ASSUME PeerAdminAssumption ==
    /\ Shared \subseteq Channels \ {Listener}
    /\ Quit \in BOOLEAN

VARIABLES
    selected,   \* what is left of the list run() got from selectedKeys()
    tasks,      \* QThreadPool: the queue of Peer::Task, each named by its peer's channel
    published   \* peers kept elsewhere, whose socket another task may close

adminVars == <<selected, tasks, published>>
vars == <<vars0, adminVars>>

Clients == Channels \ {Listener}
ListenFd == CHOOSE f \in Fds : TRUE

Queued(c) == \E i \in DOMAIN tasks : tasks[i] = c

(* A channel object is destroyed when nothing refers to it; accept() makes *)
(* a new one.                                                              *)
FreeChannels ==
    {c \in Clients : /\ ~active[c] /\ chanKey[c] = NoKey
                     /\ ~Queued(c) /\ c \notin published
                     /\ \A k \in Keys \ FreshKeys : keyChan[k] # c
                     /\ \A t \in Threads : chan[t] # c
                     /\ \A f \in Fds : fdChan[f] # c}

FreeFds == {f \in Fds : fdChan[f] = NoChannel}    \* accept() takes the lowest

(* onStart has bound the listener and attached it; then the thread starts. *)
Init ==
    LET k == CHOOSE free \in Keys : TRUE
    IN /\ lock = NoThread
       /\ enabled = TRUE
       /\ mKeys = [f \in Fds |-> IF f = ListenFd THEN k ELSE NoKey]
       /\ pendingKeys = {}
       /\ events = {}
       /\ errno = "0"
       /\ active = [c \in Channels |-> c = Listener]
       /\ chanFd = [c \in Channels |-> ListenFd]
       /\ chanKey = [c \in Channels |-> IF c = Listener THEN k ELSE NoKey]
       /\ keyChan = [x \in Keys |-> IF x = k THEN Listener ELSE NoChannel]
       /\ epollSet = {ListenFd}
       /\ edges = {}
       /\ fdChan = [f \in Fds |-> IF f = ListenFd THEN Listener ELSE NoChannel]
       /\ data = [c \in Channels |-> FALSE]
       /\ eof = [c \in Channels |-> FALSE]
       /\ pc = [t \in Threads |-> IF t = Admin THEN "run" ELSE "idle"]
       /\ chan = [t \in Threads |-> NoChannel]
       /\ key = [t \in Threads |-> NoKey]
       /\ after = [t \in Threads |-> "newKey"]
       /\ intact = TRUE
       /\ selected = {}
       /\ tasks = <<>>
       /\ published = {}

-----------------------------------------------------------------------------
(* PeerAdmin::run *)

RunLoop ==
    /\ pc[Admin] = "run"
    /\ Goto(Admin, IF enabled THEN "select" ELSE "left")
    /\ UNCHANGED <<lock, selectorVars, channelVars, kernelVars, chan, key, after, intact, adminVars>>

(* select() returns true, and run() takes selectedKeys() unless the        *)
(* application is quitting.                                                *)
RunSelected ==
    /\ pc[Admin] = "events"
    /\ events = {}
    /\ lock' = NoThread
    /\ Goto(Admin, IF enabled THEN "dispatch" ELSE "run")
    /\ selected' = IF enabled THEN pendingKeys ELSE {}
    /\ UNCHANGED <<selectorVars, channelVars, kernelVars, chan, key, after, intact, tasks, published>>

(* processPeer queues a task if the peer is active.  Mutants: isActive()   *)
(* is not asked; the listener is taken for a peer.                         *)
MutantAnyPeer(c) == c \in Clients
MutantAnyChannel(c) == c \in Channels
IsActivePeer(c) == c \in Clients /\ active[c]

(* One selected key: nothing if it was cancelled, accept() for the         *)
(* listener, a task for a peer whose socket is still open.                 *)
Dispatch(k) ==
    /\ pc[Admin] = "dispatch"
    /\ k \in selected
    /\ selected' = selected \ {k}
    /\ LET c == keyChan[k]
       IN /\ Goto(Admin, IF c = Listener THEN "accept" ELSE "dispatch")
          /\ tasks' = IF IsActivePeer(c) THEN Append(tasks, c) ELSE tasks
    /\ UNCHANGED <<lock, selectorVars, channelVars, kernelVars, chan, key, after, intact, published>>

DispatchEnd ==
    /\ pc[Admin] = "dispatch"
    /\ selected = {}
    /\ Goto(Admin, "run")
    /\ UNCHANGED <<lock, selectorVars, channelVars, kernelVars, chan, key, after, intact, adminVars>>

(* processServer: accept() and a channel for the new descriptor, which is  *)
(* registered before the listener is.                                      *)
Accept ==
    /\ pc[Admin] = "accept"
    /\ FreeChannels # {}
    /\ \E f \in FreeFds, more \in BOOLEAN :
          /\ \A g \in FreeFds : f <= g
          /\ LET c == CHOOSE free \in FreeChannels : TRUE
             IN /\ fdChan' = [fdChan EXCEPT ![f] = c]
                /\ chanFd' = [chanFd EXCEPT ![c] = f]
                /\ active' = [active EXCEPT ![c] = TRUE]
                /\ chan' = [chan EXCEPT ![Admin] = c]
          /\ data' = [data EXCEPT ![Listener] = more]
    /\ Goto(Admin, "registerTo")
    /\ UNCHANGED <<lock, selectorVars, chanKey, keyChan, epollSet, edges, eof, key, after, intact, adminVars>>

(* accept() fails; processServer logs it and registers the listener again. *)
AcceptFail ==
    /\ pc[Admin] = "accept"
    /\ errno' \in {"0"} \cup {e \in {"EINTR"} : Interrupts}
    /\ chan' = [chan EXCEPT ![Admin] = Listener]
    /\ Goto(Admin, "registerTo")
    /\ UNCHANGED <<lock, enabled, mKeys, pendingKeys, events, channelVars, kernelVars, key, after, intact,
                   adminVars>>

(* What Admin does when registerTo or close returns: back to the event     *)
(* loop of select(), to the listener after the client, to the next key     *)
(* after the listener.                                                     *)
AdminDone ==
    /\ pc[Admin] = "done"
    /\ key' = [key EXCEPT ![Admin] = NoKey]
    /\ after' = [after EXCEPT ![Admin] = "newKey"]
    /\ \/ /\ lock = Admin
          /\ Goto(Admin, "events")
          /\ chan' = [chan EXCEPT ![Admin] = NoChannel]
       \/ /\ lock # Admin /\ chan[Admin] # Listener
          /\ Goto(Admin, "registerTo")
          /\ chan' = [chan EXCEPT ![Admin] = Listener]
       \/ /\ lock # Admin /\ chan[Admin] = Listener
          /\ Goto(Admin, "dispatch")
          /\ chan' = [chan EXCEPT ![Admin] = NoChannel]
    /\ UNCHANGED <<lock, selectorVars, channelVars, kernelVars, intact, adminVars>>

(* An exception: processServer catches it and drops the new client, whose  *)
(* destructor closes it; any other ends run(), which calls cancel().       *)
Caught == chan[Admin] \in Clients /\ lock # Admin

AdminThrow ==
    /\ pc[Admin] = "throw"
    /\ IF Caught
       THEN /\ Goto(Admin, "close")
            /\ UNCHANGED <<lock, enabled>>
       ELSE /\ Goto(Admin, "failed")
            /\ lock' = NoThread
            /\ enabled' = FALSE
    /\ UNCHANGED <<mKeys, pendingKeys, events, errno, channelVars, kernelVars, chan, key, after, intact,
                   adminVars>>

(* PeerAdmin::cancel, connected to aboutToQuit. *)
Cancel ==
    /\ Quit /\ enabled
    /\ enabled' = FALSE
    /\ UNCHANGED <<lock, mKeys, pendingKeys, events, errno, channelVars, kernelVars, threadVars,
                   intact, adminVars>>

-----------------------------------------------------------------------------
(* Peer::Task::run on a thread of the pool *)

StartTask(w) ==
    /\ pc[w] = "idle"
    /\ tasks # <<>>
    /\ tasks' = Tail(tasks)
    /\ chan' = [chan EXCEPT ![w] = Head(tasks)]
    /\ Goto(w, "process")
    /\ UNCHANGED <<lock, selectorVars, channelVars, kernelVars, key, after, intact, selected, published>>

(* process() reads all there is under the number m_fd; on a closed one     *)
(* ioctl and read fail and the task throws.                                *)
Read(w) ==
    /\ pc[w] = "process"
    /\ LET d == fdChan[FdOf(w)]
       IN /\ data' = [c \in Channels |-> data[c] /\ c # d]
          /\ Goto(w, IF d = NoChannel THEN "throw" ELSE "processed")
    /\ UNCHANGED <<lock, selectorVars, channelVars, epollSet, edges, fdChan, eof, chan, key, after, intact,
                   adminVars>>

(* process() ends: it attaches the socket again, after handing the peer    *)
(* over if that is what it does, or closes it (an error or an end of file  *)
(* that Peer::Task::run answers with cancel(), a direct HTTP reply, the    *)
(* destructor of a peer nobody kept), or does neither.                     *)
Attach(w) ==
    /\ pc[w] = "processed"
    /\ published' = published \cup ({chan[w]} \cap Shared)
    /\ Goto(w, "registerTo")
    /\ UNCHANGED <<lock, selectorVars, channelVars, kernelVars, chan, key, after, intact, selected, tasks>>

Finish(w) ==
    /\ pc[w] = "processed"
    /\ Goto(w, "close")
    /\ UNCHANGED <<lock, selectorVars, channelVars, kernelVars, chan, key, after, intact, adminVars>>

(* The ways a StdPeer's loop is left by a break: a message without object  *)
(* or type, one of type message, an unknown service, a second or an empty  *)
(* registration.  The registry keeps a registered peer; one that is not    *)
(* registered goes with its task, which is Finish.                         *)
Break(w) ==
    /\ pc[w] = "processed"
    /\ chan[w] \notin Shared
    /\ published' = published \cup {chan[w]}
    /\ Goto(w, "done")
    /\ UNCHANGED <<lock, selectorVars, channelVars, kernelVars, chan, key, after, intact, selected, tasks>>

Mute == published \ Shared

(* Another task answers a published peer, which closes its socket, or lets *)
(* go of the last reference to a mute one, whose destructor does: another  *)
(* box registers under its uid, or one with that uid is cancelled.         *)
Respond(w, c) ==
    /\ pc[w] = "idle"
    /\ c \in published
    /\ published' = published \ {c}
    /\ chan' = [chan EXCEPT ![w] = c]
    /\ Goto(w, "close")
    /\ UNCHANGED <<lock, selectorVars, channelVars, kernelVars, key, after, intact, selected, tasks>>

TaskDone(w) ==
    /\ pc[w] = "done"
    /\ Goto(w, "idle")
    /\ chan' = [chan EXCEPT ![w] = NoChannel]
    /\ key' = [key EXCEPT ![w] = NoKey]
    /\ after' = [after EXCEPT ![w] = "newKey"]
    /\ UNCHANGED <<lock, selectorVars, channelVars, kernelVars, intact, adminVars>>

(* Peer::Task::run catches it and calls cancel(), which closes the socket. *)
TaskThrow(w) ==
    /\ pc[w] = "throw"
    /\ Goto(w, "close")
    /\ UNCHANGED <<lock, selectorVars, channelVars, kernelVars, chan, key, after, intact, adminVars>>

-----------------------------------------------------------------------------
(* The other ends: input or a close arrives on an open connection.  An     *)
(* event is reported if the descriptor is in the epoll set.                *)
Arrive(c) ==
    /\ \E f \in Fds : fdChan[f] = c
    /\ ~eof[c]
    /\ \/ ~data[c] /\ data' = [data EXCEPT ![c] = TRUE] /\ UNCHANGED eof
       \/ c # Listener /\ eof' = [eof EXCEPT ![c] = TRUE] /\ UNCHANGED data
    /\ edges' = edges \cup {f \in epollSet : fdChan[f] = c}
    /\ UNCHANGED <<lock, selectorVars, channelVars, epollSet, fdChan, threadVars, intact, adminVars>>

-----------------------------------------------------------------------------
Operation(t) ==
    \/ CancelKey(t)  /\ UNCHANGED adminVars
    \/ RemoveKey(t)  /\ UNCHANGED adminVars
    \/ RegisterTo(t) /\ UNCHANGED adminVars
    \/ NewKey(t)     /\ UNCHANGED adminVars
    \/ Close(t)      /\ UNCHANGED adminVars
    \/ CloseSet(t)   /\ UNCHANGED adminVars
    \/ CloseFd(t)    /\ UNCHANGED adminVars

Select ==
    \/ SelectBegin /\ UNCHANGED adminVars
    \/ SelectPoll  /\ UNCHANGED adminVars
    \/ SelectWait  /\ UNCHANGED adminVars
    \/ \E f \in Fds : SelectEvent(f) /\ UNCHANGED adminVars
    \/ \E f \in Fds : SelectThrow(f) /\ UNCHANGED adminVars

AdminStep ==
    \/ Select
    \/ Operation(Admin)
    \/ RunLoop \/ RunSelected
    \/ \E k \in Keys : Dispatch(k)
    \/ DispatchEnd
    \/ Accept \/ AcceptFail \/ AdminDone \/ AdminThrow

WorkerStep(w) ==
    \/ Operation(w)
    \/ StartTask(w) \/ Read(w) \/ Attach(w) \/ Finish(w) \/ Break(w)
    \/ TaskDone(w) \/ TaskThrow(w)

Next ==
    \/ AdminStep
    \/ \E w \in Workers : WorkerStep(w)
    \/ \E w \in Workers, c \in Clients : Respond(w, c)
    \/ \E c \in Channels : Arrive(c)
    \/ Cancel
    \/ pc[Admin] \in {"left", "failed"} /\ UNCHANGED vars    \* run() is over

Spec == Init /\ [][Next]_vars

(* Each thread keeps running; a thread waiting for the mutex gets it in    *)
(* the end, although select() takes it again at every turn of its loop     *)
(* (the operating system's mutex is assumed not to starve a waiter).       *)
(* Nothing obliges another task to answer a peer or to let go of one.      *)
Fairness ==
    /\ WF_vars(AdminStep)
    /\ \A w \in Workers : SF_vars(Operation(w)) /\ WF_vars(WorkerStep(w))

FairSpec == Spec /\ Fairness

-----------------------------------------------------------------------------
Labels == {"idle", "run", "select", "poll", "wait", "events", "dispatch", "accept", "left",
           "failed", "registerTo", "newKey", "cancel", "remove", "close", "closeSet", "closeFd",
           "done", "throw", "process", "processed"}

OnChannel == {"registerTo", "newKey", "cancel", "remove", "close", "closeSet", "closeFd",
              "process", "processed"}

(* Types, and what the labels imply: a thread inside an operation has its  *)
(* channel (and its key), and the mutex is held across steps by Admin      *)
(* alone.                                                                  *)
TypeOK ==
    /\ lock \in {NoThread, Admin}
    /\ enabled \in BOOLEAN /\ intact \in BOOLEAN
    /\ mKeys \in [Fds -> Keys \cup {NoKey, Dead}]
    /\ pendingKeys \subseteq Keys /\ selected \subseteq Keys
    /\ errno \in {"0", "EINTR"}
    /\ active \in [Channels -> BOOLEAN]
    /\ chanFd \in [Channels -> Fds]
    /\ chanKey \in [Channels -> Keys \cup {NoKey}]
    /\ keyChan \in [Keys -> Channels \cup {NoChannel}]
    /\ events \subseteq Fds /\ epollSet \subseteq Fds /\ edges \subseteq Fds
    /\ fdChan \in [Fds -> Channels \cup {NoChannel}]
    /\ data \in [Channels -> BOOLEAN] /\ eof \in [Channels -> BOOLEAN]
    /\ pc \in [Threads -> Labels]
    /\ chan \in [Threads -> Channels \cup {NoChannel}]
    /\ key \in [Threads -> Keys \cup {NoKey}]
    /\ after \in [Threads -> {"newKey", "closeFd"}]
    /\ tasks \in Seq(Clients)
    /\ published \subseteq Channels
    /\ \A t \in Threads :
          /\ pc[t] \in OnChannel => chan[t] \in Channels
          /\ pc[t] = "throw" /\ t # Admin => chan[t] \in Channels
          /\ pc[t] \in {"cancel", "remove"} => key[t] \in Keys

(* The mutex is held inside select() only: every way out of it, the        *)
(* exceptions of epoll_ctl included, unlocks.                              *)
MutexInsideSelect ==
    lock = Admin => pc[Admin] \in {"poll", "wait", "events", "close", "closeSet", "cancel",
                                   "remove", "closeFd", "done", "throw"}

(* A registration is the same thing seen from all sides: an m_keys entry,  *)
(* the channel's own entry, the key's channel and the kernel's epoll set   *)
(* agree, and the descriptor is the one the channel has open.  A stale     *)
(* entry would hand one connection's input to another's peer.              *)
RegistrationsAgree ==
    /\ \A f \in Fds :
          /\ f \in epollSet <=> mKeys[f] # NoKey
          /\ mKeys[f] # NoKey =>
                /\ mKeys[f] \in Keys
                /\ keyChan[mKeys[f]] = fdChan[f]
                /\ fdChan[f] \in Channels
                /\ chanFd[fdChan[f]] = f /\ chanKey[fdChan[f]] = mKeys[f]
    /\ \A c \in Channels : chanKey[c] # NoKey => mKeys[chanFd[c]] = chanKey[c]

(* A channel that is open owns its descriptor: nobody closed the number    *)
(* behind its back (a second close of a reused number would), and an open  *)
(* descriptor has an active channel or is just being closed.               *)
DescriptorsOwned ==
    /\ \A c \in Channels : active[c] => fdChan[chanFd[c]] = c
    /\ \A f \in Fds : fdChan[f] # NoChannel =>
          \/ active[fdChan[f]]
          \/ \E t \in Threads : pc[t] = "closeFd" /\ chan[t] = fdChan[f]

(* The Admin thread never ends by an exception, and nothing touches a      *)
(* destroyed key: no failing epoll_ctl can come out of select() or of the  *)
(* registration of the listener.                                           *)
AdminSurvives == intact /\ pc[Admin] # "failed"

(* Where a connection is: being opened or closed by Admin, being handled   *)
(* by a worker, queued, selected, watched, mute, or none of these.         *)
PendingNow == IF lock = Admin THEN pendingKeys ELSE selected
HandledBy(t, c) == chan[t] = c /\ pc[t] # "done" /\ lock # t
Stage(c) ==
    IF \E w \in Workers : HandledBy(w, c) THEN "running"
    ELSE IF HandledBy(Admin, c) THEN "opening"
    ELSE IF Queued(c) THEN "queued"
    ELSE IF \E k \in PendingNow : keyChan[k] = c /\ active[c] THEN "selected"
    ELSE IF chanKey[c] # NoKey THEN "armed"
    ELSE IF c \in Mute THEN "mute"
    ELSE "none"

(* One party at a time handles a connection: OneShot.                      *)
Abstract == INSTANCE OneShot WITH stage <- [c \in Clients |-> Stage(c)],
                                  ready <- {c \in Clients : Readable(c)}
OneShotDispatch == Abstract!Spec

(* No connection is forgotten but those that a StdPeer's break leaves      *)
(* mute: until the application quits, or an exception ends run(), any      *)
(* other that is open is watched, selected, queued or in somebody's hands. *)
NoStrandedClient ==
    enabled /\ (pc[Admin] = "throw" => Caught) =>
        \A c \in Clients : active[c] /\ c \notin Mute => Stage(c) # "none"

(* The selector closes a connection only when its other end has closed it. *)
SelectorClosesAtEof ==
    [][pc[Admin] = "closeSet" /\ lock = Admin /\ pc'[Admin] # "closeSet" => eof[chan[Admin]]]_vars

(* Input is read in the end, or the connection is closed; an end of file   *)
(* closes it.  The event of input that arrives just before the socket is   *)
(* attached again must not be lost.  Only a connection left mute is        *)
(* neither read nor closed.                                                *)
InputServed == \A c \in Clients : data[c] ~> (~data[c] \/ ~enabled \/ c \in Mute)

EofNoticed == \A c \in Clients : eof[c] ~> (~eof[c] \/ ~enabled \/ c \in Mute)
=============================================================================
