------------------------------- MODULE Proxy -------------------------------
(***************************************************************************)
(* The proxy's peers (nodebus/proxy): StdPeer, the connection of a box     *)
(* that registers under a uid and answers requests, and HttpPeer, the      *)
(* connection of a client whose POST is forwarded to a box.  Tasks of the  *)
(* thread pool run their process(): a StdPeer's holds the peer's mutex, an *)
(* HttpPeer's none, and it is the box's task that writes the answer to the *)
(* client's socket and closes it.                                          *)
(*                                                                         *)
(* Of the selector and PeerAdmin, which PeerAdmin.tla has in full, this    *)
(* module keeps what closing a client's socket from another task can meet: *)
(* the Admin thread takes an event from epoll_wait, then the descriptor    *)
(* out of the epoll set, then queues a task, and close() goes by steps in  *)
(* between.  One event stands for all that epoll_wait returned; no signal  *)
(* interrupts it.  Channel has no signal closed(), so the connection Peer  *)
(* makes to it never calls cancel().                                       *)
(***************************************************************************)
EXTENDS Naturals, Sequences

CONSTANTS Boxes, Clients,   \* StdPeer and HttpPeer objects, one connection each
          Uids,             \* what boxes register under
          Reqs, ReqUid,     \* request uids, and that of each client's request
          Workers,
          Nobody, NoUid,
          Unruly            \* what the other ends do besides behaving well

Peers == Boxes \cup Clients
Deeds == {"client leaves", "client goes on", "client pipelines", "box leaves", "box errs"}

ASSUME ProxyAssumption ==
    /\ Boxes \cap Clients = {}
    /\ Nobody \notin Peers \cup Workers /\ NoUid \notin Uids \cup Reqs
    /\ ReqUid \in [Clients -> Reqs]
    /\ Unruly \subseteq Deeds

VARIABLES
    armed, queued,  \* peers registered with the selector; peers with a task to run
    open,           \* Channel::m_active of a peer's socket
    fd,             \* the descriptor of a peer's socket is open
    admin, event,   \* the Admin thread: next step, peer of the event it handles
    socket,         \* m_socket is not null
    stdPeers,       \* StdPeer::m_stdPeers
    uid,            \* StdPeer::m_uid
    httpPeers,      \* StdPeer::m_httpPeers
    lock,           \* StdPeer::m_synchronize: who holds it across steps
    stdPeer, reqUid, processDone,    \* of each HttpPeer
    sent,           \* the requests a box was sent: <<request uid, client>>
    answers,        \* what a client got: whose request each answers, Nobody's if the proxy's own
    pc, self, to,   \* each worker: next step, peer of its task, peer it writes to
    whose           \* each worker: the client whose request it writes the answer of

selectorVars == <<armed, queued, open, fd, admin, event>>
boxVars    == <<stdPeers, uid, httpPeers, sent>>
clientVars == <<stdPeer, reqUid, processDone>>
workerVars == <<pc, self, to, whose>>
vars == <<selectorVars, socket, boxVars, lock, clientVars, answers, workerVars>>

May(deed) == deed \in Unruly
Leaves(p) == May(IF p \in Boxes THEN "box leaves" ELSE "client leaves")
Goto(w, label) == pc' = [pc EXCEPT ![w] = label]
Free(b, w) == lock[b] \in {Nobody, w}
Unlock(w) == lock' = [b \in Boxes |-> IF lock[b] = w THEN Nobody ELSE lock[b]]

(* Channel::closeChannel where nobody else can have the socket: the peer   *)
(* is not registered, unless its client pipelines.                         *)
CloseSocket(p) ==
    IF open[p]
    THEN /\ open' = [open EXCEPT ![p] = FALSE]
         /\ fd' = [fd EXCEPT ![p] = FALSE]
         /\ armed' = armed \ {p}
    ELSE UNCHANGED <<open, fd, armed>>

(* Reading, writing and registering ask for the descriptor only. *)
Usable(p) == socket[p] /\ fd[p]

(* Selector::m_synchronize, held by Admin from epoll_wait to the end of    *)
(* the events.                                                             *)
SelectorFree == admin # "select"

(* The end of a turn of process(), which lets go of the mutex and of the   *)
(* client it wrote to; that of the task; an exception, on which            *)
(* Peer::Task::run calls cancel().                                         *)
Leave(w, label) ==
    /\ Unlock(w)
    /\ Goto(w, label)
    /\ to' = [to EXCEPT ![w] = Nobody]
    /\ whose' = [whose EXCEPT ![w] = Nobody]

Return(w) == Leave(w, "idle") /\ self' = [self EXCEPT ![w] = Nobody]
Throw(w) == Leave(w, "cancel") /\ UNCHANGED self
NextTurn(w) == Leave(w, "lock") /\ UNCHANGED self

Init ==
    /\ armed = Peers /\ queued = {}
    /\ open = [p \in Peers |-> TRUE]
    /\ fd = [p \in Peers |-> TRUE]
    /\ admin = "wait" /\ event = Nobody
    /\ socket = [p \in Peers |-> TRUE]
    /\ stdPeers = [u \in Uids |-> Nobody]
    /\ uid = [b \in Boxes |-> NoUid]
    /\ httpPeers = [b \in Boxes |-> [r \in Reqs |-> Nobody]]
    /\ lock = [b \in Boxes |-> Nobody]
    /\ stdPeer = [c \in Clients |-> Nobody]
    /\ reqUid = [c \in Clients |-> NoUid]
    /\ processDone = [c \in Clients |-> FALSE]
    /\ sent = [b \in Boxes |-> {}]
    /\ answers = [c \in Clients |-> <<>>]
    /\ pc = [w \in Workers |-> "idle"]
    /\ self = [w \in Workers |-> Nobody]
    /\ to = [w \in Workers |-> Nobody]
    /\ whose = [w \in Workers |-> Nobody]

-----------------------------------------------------------------------------
(* Selector and thread pool *)

(* A client talks once, unless it goes on, or does not even wait until its *)
(* request has been forwarded.                                             *)
TalksAgain(c) == May(IF processDone[c] THEN "client goes on" ELSE "client pipelines")

Talks(p) == p \in Clients /\ stdPeer[p] # Nobody => TalksAgain(p)

(* epoll_wait returns an event.                                            *)
Notice(p) ==
    /\ admin = "wait"
    /\ p \in armed /\ fd[p]
    /\ Talks(p) \/ Leaves(p)
    /\ admin' = "select"
    /\ event' = p
    /\ UNCHANGED <<armed, queued, open, fd, socket, boxVars, lock, clientVars, answers, workerVars>>

(* The rest of Selector::select: the descriptor and the key are taken out; *)
(* a peer with nothing to read is closed.                                  *)
Fire ==
    /\ admin = "select"
    /\ event \in armed /\ fd[event]
    /\ admin' = "dispatch"
    /\ armed' = armed \ {event}
    /\ \/ Talks(event) /\ UNCHANGED <<open, fd>>
       \/ /\ Leaves(event)
          /\ open' = [open EXCEPT ![event] = FALSE]
          /\ fd' = [fd EXCEPT ![event] = fd[event] /\ ~open[event]]
    /\ UNCHANGED <<queued, event, socket, boxVars, lock, clientVars, answers, workerVars>>

(* The descriptor has left the epoll set: EPOLL_CTL_DEL fails, and the     *)
(* exception ends PeerAdmin::run.                                          *)
SelectThrow ==
    /\ admin = "select"
    /\ event \notin armed \/ ~fd[event]
    /\ admin' = "ended"
    /\ event' = Nobody
    /\ UNCHANGED <<armed, queued, open, fd, socket, boxVars, lock, clientVars, answers, workerVars>>

(* PeerAdmin::processPeer: a task, if the peer is still active.            *)
Dispatch ==
    /\ admin = "dispatch"
    /\ queued' = IF socket[event] /\ open[event] THEN queued \cup {event} ELSE queued
    /\ admin' = "wait"
    /\ event' = Nobody
    /\ UNCHANGED <<armed, open, fd, socket, boxVars, lock, clientVars, answers, workerVars>>

AdminStep == Fire \/ SelectThrow \/ Dispatch

(* What process() does first: a client that is done is attached again.     *)
(* Mutant: m_processDone is not asked.                                     *)
MutantNeverDone(c) == "read"
FirstStep(c) == IF processDone[c] THEN "attach" ELSE "read"

StartTask(w, p) ==
    /\ pc[w] = "idle"
    /\ p \in queued
    /\ queued' = queued \ {p}
    /\ self' = [self EXCEPT ![w] = p]
    /\ Goto(w, IF p \in Boxes THEN "lock" ELSE FirstStep(p))
    /\ UNCHANGED <<armed, open, fd, admin, event, socket, boxVars, lock, clientVars, answers, to, whose>>

-----------------------------------------------------------------------------
(* HttpPeer::process *)

(* The POST names a box, or none, or is refused before that is looked at   *)
(* (400, 405, 408, 415); then it is sent to the box, or the proxy answers  *)
(* it: 404, 400, or what was asked of the proxy itself.                    *)
ReadRequest(w) ==
    /\ pc[w] = "read"
    /\ Usable(self[w])
    /\ \/ UNCHANGED stdPeer
       \/ \E u \in Uids : stdPeer' = [stdPeer EXCEPT ![self[w]] = stdPeers[u]]
    /\ LET b == stdPeer'[self[w]]
       IN \/ Goto(w, "write") /\ to' = [to EXCEPT ![w] = self[w]]
          \/ b # Nobody /\ Goto(w, "send") /\ to' = [to EXCEPT ![w] = b]
    /\ UNCHANGED <<selectorVars, socket, boxVars, lock, reqUid, processDone, answers, self, whose>>

(* m_socket is null, the socket was closed, or the client left.            *)
ReadThrow(w) ==
    /\ pc[w] = "read"
    /\ ~Usable(self[w]) \/ Leaves(self[w])
    /\ Throw(w)
    /\ UNCHANGED <<selectorVars, socket, boxVars, clientVars, answers>>

(* m_httpPeers[uid] = peer.  Mutant: the client is not remembered.         *)
MutantNotWaiting(b, r, c) == httpPeers
Waiting(b, r, c) == [httpPeers EXCEPT ![b][r] = c]

(* StdPeer::send, a critical section: the client waits under its uid, then *)
(* the request is written.  If writing fails, the client still waits.      *)
Send(w) ==
    /\ pc[w] = "send"
    /\ LET b == to[w]
           c == self[w]
           r == ReqUid[c]
       IN /\ Free(b, w)
          /\ httpPeers' = Waiting(b, r, c)
          /\ \/ /\ Usable(b)
                /\ sent' = [sent EXCEPT ![b] = @ \cup {<<r, c>>}]
                /\ Goto(w, "sent")
             \/ /\ ~Usable(b) \/ Leaves(b)
                /\ Goto(w, "cancel")
                /\ UNCHANGED sent
    /\ UNCHANGED <<selectorVars, socket, stdPeers, uid, lock, clientVars, answers, self, to, whose>>

Sent(w) ==
    /\ pc[w] = "sent"
    /\ reqUid' = [reqUid EXCEPT ![self[w]] = ReqUid[self[w]]]
    /\ Goto(w, "attach")
    /\ UNCHANGED <<selectorVars, socket, boxVars, lock, stdPeer, processDone, answers, self, to, whose>>

(* PeerAdmin::attach: a closed channel cannot be registered, a null        *)
(* m_socket throws as well.                                                *)
Attach(w) ==
    /\ pc[w] = "attach"
    /\ SelectorFree
    /\ \/ /\ Usable(self[w])
          /\ armed' = armed \cup {self[w]}
          /\ Goto(w, "attached")
       \/ /\ ~Usable(self[w])
          /\ Goto(w, "cancel")
          /\ UNCHANGED armed
    /\ UNCHANGED <<queued, open, fd, admin, event, socket, boxVars, lock, clientVars, answers, self, to, whose>>

(* m_processDone is set after attach(), when another task may have been    *)
(* queued for the client already.                                          *)
Attached(w) ==
    /\ pc[w] = "attached"
    /\ processDone' = [processDone EXCEPT ![self[w]] = TRUE]
    /\ Return(w)
    /\ UNCHANGED <<selectorVars, socket, boxVars, stdPeer, reqUid, answers>>

-----------------------------------------------------------------------------
(* HttpPeer::sendResult: two writes and a close, run by the box's task     *)
(* under the box's mutex, or by the client's own task; the latter may do   *)
(* so before m_format has a value, and whatever it holds may be a format   *)
(* that cannot be written.                                                 *)

WriteResult(w) ==
    /\ pc[w] = "write"
    /\ LET c == to[w]
       IN \/ /\ Usable(c)
             /\ answers' = [answers EXCEPT ![c] = Append(@, whose[w])]
             /\ Goto(w, "close")
             /\ UNCHANGED <<lock, self, to, whose>>
          \/ /\ ~Usable(c) \/ Leaves(c) \/ self[w] = c
             /\ Throw(w)
             /\ UNCHANGED answers
    /\ UNCHANGED <<selectorVars, socket, boxVars, clientVars>>

(* A box's task goes on with its loop, a client's returns.                 *)
Resulted(w) ==
    \/ self[w] = to[w] /\ Return(w)
    \/ self[w] # to[w] /\ NextTurn(w)

(* m_socket->close(), first step: m_active is tested and cleared, and the  *)
(* keys are listed, without a lock.                                        *)
CloseResult(w) ==
    /\ pc[w] = "close"
    /\ LET c == to[w]
       IN \/ /\ ~socket[c]
             /\ Throw(w)
             /\ UNCHANGED open
          \/ /\ socket[c] /\ ~open[c]
             /\ Resulted(w)
             /\ UNCHANGED open
          \/ /\ socket[c] /\ open[c]
             /\ open' = [open EXCEPT ![c] = FALSE]
             /\ Goto(w, IF c \in armed THEN "unkey" ELSE "closeFd")
             /\ UNCHANGED <<lock, self, to, whose>>
    /\ UNCHANGED <<armed, queued, fd, admin, event, socket, boxVars, clientVars, answers>>

(* SelectionKey::cancel, of a key that was listed: when select() has taken *)
(* the descriptor out in the meantime, EPOLL_CTL_DEL fails.                *)
CancelKey(w) ==
    /\ pc[w] = "unkey"
    /\ SelectorFree
    /\ \/ /\ to[w] \in armed
          /\ armed' = armed \ {to[w]}
          /\ Goto(w, "closeFd")
          /\ UNCHANGED <<lock, self, to, whose>>
       \/ /\ to[w] \notin armed
          /\ Throw(w)
          /\ UNCHANGED armed
    /\ UNCHANGED <<queued, open, fd, admin, event, socket, boxVars, clientVars, answers>>

(* ::close, which needs no lock.                                           *)
CloseFd(w) ==
    /\ pc[w] = "closeFd"
    /\ fd' = [fd EXCEPT ![to[w]] = FALSE]
    /\ Resulted(w)
    /\ UNCHANGED <<armed, queued, open, admin, event, socket, boxVars, clientVars, answers>>

-----------------------------------------------------------------------------
(* StdPeer::process.  Each turn of its loop holds the mutex; what the box  *)
(* has sent is one message, or nothing more.                               *)

Lock(w) ==
    /\ pc[w] = "lock"
    /\ Free(self[w], w)
    /\ lock' = [lock EXCEPT ![self[w]] = w]
    /\ Goto(w, "loop")
    /\ UNCHANGED <<selectorVars, socket, boxVars, clientVars, answers, self, to, whose>>

(* Nothing to read.  Mutant: the box is not attached again. *)
MutantNotRearmed(b) == armed
Rearmed(b) == armed \cup {b}

BoxIdle(w) ==
    /\ pc[w] = "loop"
    /\ Usable(self[w])
    /\ SelectorFree
    /\ armed' = Rearmed(self[w])
    /\ Return(w)
    /\ UNCHANGED <<queued, open, fd, admin, event, socket, boxVars, clientVars, answers>>

(* m_socket is null or closed, the box left, or sent what cannot be parsed *)
(* (or not in 30 seconds).                                                 *)
BoxThrow(w) ==
    /\ pc[w] = "loop"
    /\ ~Usable(self[w]) \/ Leaves(self[w]) \/ May("box errs")
    /\ Throw(w)
    /\ UNCHANGED <<selectorVars, socket, boxVars, clientVars, answers>>

(* A message that ends process() without attaching the box again: no       *)
(* object, a plain `message', an unknown service, a second registration,   *)
(* one without uid.                                                        *)
BoxBreak(w) ==
    /\ pc[w] = "loop"
    /\ Usable(self[w]) /\ May("box errs")
    /\ Return(w)
    /\ UNCHANGED <<selectorVars, socket, boxVars, clientVars, answers>>

(* register: the uid is taken from whoever has it.  The response may fail. *)
Register(w, u) ==
    /\ pc[w] = "loop"
    /\ Usable(self[w])
    /\ uid[self[w]] = NoUid
    /\ uid' = [uid EXCEPT ![self[w]] = u]
    /\ stdPeers' = [stdPeers EXCEPT ![u] = self[w]]
    /\ \/ NextTurn(w)
       \/ Leaves(self[w]) /\ Throw(w)
    /\ UNCHANGED <<selectorVars, socket, httpPeers, sent, clientVars, answers>>

(* m_httpPeers.remove.  Mutant: the client stays. *)
MutantNotForgotten(b, r) == httpPeers
Forgotten(b, r) == [httpPeers EXCEPT ![b][r] = Nobody]

(* The client a response is for.  Mutant: whoever waits. *)
MutantAnyWaiting(b, r) ==
    IF \E s \in Reqs : httpPeers[b][s] # Nobody
    THEN CHOOSE c \in Clients : \E s \in Reqs : httpPeers[b][s] = c
    ELSE Nobody
WaitingFor(b, r) == httpPeers[b][r]

(* client != nullptr.  Mutant: not asked. *)
MutantNoTest(client) == TRUE
Found(client) == client # Nobody

(* A response to the request r of client c, perhaps not the first one: the *)
(* client that waits under r gets it, if one does.                         *)
Respond(w, r, c) ==
    /\ pc[w] = "loop"
    /\ Usable(self[w])
    /\ <<r, c>> \in sent[self[w]]
    /\ LET client == WaitingFor(self[w], r)
       IN \/ /\ ~Found(client)
             /\ NextTurn(w)
             /\ UNCHANGED httpPeers
          \/ /\ Found(client)
             /\ httpPeers' = Forgotten(self[w], r)
             /\ to' = [to EXCEPT ![w] = client]
             /\ whose' = [whose EXCEPT ![w] = c]
             /\ Goto(w, "write")
             /\ UNCHANGED <<lock, self>>
    /\ UNCHANGED <<selectorVars, socket, stdPeers, uid, sent, clientVars, answers>>

-----------------------------------------------------------------------------
(* StdPeer::cancel and HttpPeer::cancel, called after an exception, or by  *)
(* the destructor of a peer that nothing refers to.                        *)

(* m_stdPeers.remove(m_uid), whichever box that is.  Mutant: no box goes.  *)
MutantStaysRegistered(b) == stdPeers
Unregistered(b) == [u \in Uids |-> IF u = uid[b] THEN Nobody ELSE stdPeers[u]]

CancelBox(b) ==
    IF socket[b]
    THEN /\ stdPeers' = Unregistered(b)
         /\ uid' = [uid EXCEPT ![b] = NoUid]
         /\ socket' = [socket EXCEPT ![b] = FALSE]
         /\ CloseSocket(b)
    ELSE UNCHANGED <<stdPeers, uid, socket, open, fd, armed>>

CancelClient(c) ==
    IF socket[c]
    THEN /\ httpPeers' = [b \in Boxes |-> [r \in Reqs |->
                 IF b = stdPeer[c] /\ r = reqUid[c] THEN Nobody ELSE httpPeers[b][r]]]
         /\ socket' = [socket EXCEPT ![c] = FALSE]
         /\ CloseSocket(c)
    ELSE UNCHANGED <<httpPeers, socket, open, fd, armed>>

TaskCancel(w) ==
    /\ pc[w] = "cancel"
    /\ SelectorFree
    /\ \/ /\ self[w] \in Boxes
          /\ Free(self[w], w)
          /\ CancelBox(self[w])
          /\ UNCHANGED httpPeers
       \/ /\ self[w] \in Clients
          /\ CancelClient(self[w])
          /\ UNCHANGED <<stdPeers, uid>>
    /\ Return(w)
    /\ UNCHANGED <<queued, admin, event, sent, clientVars, answers>>

(* What keeps a peer: its selection key, a task, the registry, a client    *)
(* that asked it, a box whose answer it waits for.  The last to let go is  *)
(* often the list of selected keys, which the next select() clears.        *)
InHand(p) == p \in armed \cup queued \cup {event} \/ \E w \in Workers : p \in {self[w], to[w]}
ClientKept(c) == InHand(c) \/ \E b \in Boxes, r \in Reqs : httpPeers[b][r] = c
BoxKept(b) ==
    \/ InHand(b)
    \/ \E u \in Uids : stdPeers[u] = b
    \/ \E c \in Clients : stdPeer[c] = b /\ (socket[c] \/ ClientKept(c))

DestroyBox(b) ==
    /\ socket[b] \/ \E r \in Reqs : httpPeers[b][r] # Nobody
    /\ ~BoxKept(b)
    /\ CancelBox(b)
    /\ httpPeers' = [httpPeers EXCEPT ![b] = [r \in Reqs |-> Nobody]]
    /\ UNCHANGED <<queued, admin, event, lock, sent, clientVars, answers, workerVars>>

DestroyClient(c) ==
    /\ socket[c]
    /\ ~ClientKept(c)
    /\ CancelClient(c)
    /\ UNCHANGED <<queued, admin, event, lock, stdPeers, uid, sent, clientVars, answers, workerVars>>

-----------------------------------------------------------------------------
Process(w) ==
    \/ ReadRequest(w) \/ ReadThrow(w) \/ Send(w) \/ Sent(w) \/ Attach(w) \/ Attached(w)
    \/ WriteResult(w) \/ CloseResult(w) \/ CancelKey(w) \/ CloseFd(w)
    \/ Lock(w) \/ BoxIdle(w) \/ BoxThrow(w) \/ BoxBreak(w)
    \/ \E u \in Uids : Register(w, u)
    \/ \E r \in Reqs, c \in Clients : Respond(w, r, c)
    \/ TaskCancel(w)

Next ==
    \/ \E w \in Workers : Process(w)
    \/ \E w \in Workers, p \in Peers : StartTask(w, p)
    \/ \E p \in Peers : Notice(p)
    \/ AdminStep
    \/ \E b \in Boxes : DestroyBox(b)
    \/ \E c \in Clients : DestroyClient(c)

Spec == Init /\ [][Next]_vars

(* The threads run and get the mutexes they wait for, the pool's queue is  *)
(* first in, first out; a peer that is dropped is destroyed; a box that    *)
(* has been sent a request sends a response to it in the end, which        *)
(* epoll_wait returns in the end.                                          *)
Fairness ==
    /\ WF_vars(AdminStep)
    /\ \A w \in Workers : SF_vars(Process(w))
    /\ \A p \in Peers : SF_vars(\E w \in Workers : StartTask(w, p))
    /\ \A c \in Clients : WF_vars(DestroyClient(c))
    /\ \A b \in Boxes : /\ WF_vars(DestroyBox(b))
                        /\ SF_vars(sent[b] # {} /\ Notice(b))
                        /\ \A c \in Clients :
                              SF_vars(\E w \in Workers : self[w] = b /\ Respond(w, ReqUid[c], c))

FairSpec == Spec /\ Fairness
-----------------------------------------------------------------------------
PeersOK ==
    /\ armed \subseteq Peers /\ queued \subseteq Peers
    /\ open \in [Peers -> BOOLEAN] /\ socket \in [Peers -> BOOLEAN]
    /\ fd \in [Peers -> BOOLEAN]
    /\ stdPeers \in [Uids -> Boxes \cup {Nobody}]
    /\ uid \in [Boxes -> Uids \cup {NoUid}]
    /\ httpPeers \in [Boxes -> [Reqs -> Clients \cup {Nobody}]]
    /\ stdPeer \in [Clients -> Boxes \cup {Nobody}]
    /\ reqUid \in [Clients -> Reqs \cup {NoUid}]
    /\ processDone \in [Clients -> BOOLEAN]
    /\ sent \in [Boxes -> SUBSET (Reqs \X Clients)]
    /\ answers \in [Clients -> Seq(Clients \cup {Nobody})]

WorkersOK ==
    /\ lock \in [Boxes -> Workers \cup {Nobody}]
    /\ pc \in [Workers -> {"idle", "read", "send", "sent", "attach", "attached", "write",
                           "close", "unkey", "closeFd", "lock", "loop", "cancel"}]
    /\ self \in [Workers -> Peers \cup {Nobody}]
    /\ to \in [Workers -> Peers \cup {Nobody}]
    /\ whose \in [Workers -> Clients \cup {Nobody}]

Resulting == {"write", "close", "unkey", "closeFd"}    \* inside sendResult

TasksOK ==
    \A w \in Workers :
        /\ pc[w] \in {"read", "send", "sent", "attach", "attached"} => self[w] \in Clients
        /\ pc[w] \in {"lock", "loop"} => self[w] \in Boxes
        /\ pc[w] \in Resulting => to[w] \in Clients /\ self[w] \in Boxes \cup {to[w]}
        /\ pc[w] = "send" => to[w] \in Boxes
        /\ pc[w] = "cancel" => self[w] \in Peers

LocksOK ==
    \A w \in Workers, b \in Boxes :
        lock[b] = w <=> self[w] = b /\ pc[w] \in Resulting \cup {"loop"}

AdminOK ==
    /\ admin \in {"wait", "select", "dispatch", "ended"}
    /\ IF admin \in {"select", "dispatch"} THEN event \in Peers ELSE event = Nobody

(* Types, and what the labels imply: whose task a worker runs, whom it     *)
(* writes to (a client's task to nobody but that client), and that a box's *)
(* task holds the mutex of its box from where it locks it to the end of    *)
(* the turn.                                                               *)
TypeOK == PeersOK /\ WorkersOK /\ TasksOK /\ LocksOK /\ AdminOK

(* A uid leads to the box that registered under it and has not been        *)
(* cancelled: StdPeer::get never returns a box without a socket.           *)
RegistryAgrees ==
    \A u \in Uids : stdPeers[u] # Nobody => uid[stdPeers[u]] = u /\ socket[stdPeers[u]]

(* A client gets the answer to its own request.                            *)
AnswerOwn ==
    \A c \in Clients : \A i \in DOMAIN answers[c] : answers[c][i] \in {c, Nobody}

(* A client gets one answer: nothing is written after the first one.       *)
AnsweredOnce == \A c \in Clients : Len(answers[c]) <= 1

(* As long as the other ends stay, no box is cut off: no task of a box     *)
(* fails because of what has become of a client.                           *)
BoxOutlivesClients == \A b \in Boxes : socket[b]

(* A client whose request was sent to a box, and that has got nothing yet, *)
(* is still known to that box.                                             *)
NoRequestForgotten ==
    \A c \in Clients, b \in Boxes :
        /\ <<ReqUid[c], c>> \in sent[b]
        /\ answers[c] = <<>> /\ open[c]
        => \/ httpPeers[b][ReqUid[c]] = c
           \/ \E w \in Workers : to[w] = c

(* No exception leaves the task of a box but one: closing the socket of    *)
(* the client it has answered, it cancels a key that was listed before     *)
(* select() took it out.  (Writing to a client that was answered before,   *)
(* or closed, or destroyed, would be another.)                             *)
BoxFailsAtKeyOnly ==
    [][\A w \in Workers :
          self[w] \in Boxes /\ pc[w] # "cancel" /\ pc'[w] = "cancel" => pc[w] = "unkey"]_vars

Asked(c) == \E b \in Boxes : <<ReqUid[c], c>> \in sent[b]

(* Nothing but two things keeps a forwarded request from being answered    *)
(* while a client goes on sending after its own: closing its socket meets  *)
(* an event of it, and ends the Admin thread (the descriptor is closed     *)
(* between epoll_wait and EPOLL_CTL_DEL) or the box's connection (the      *)
(* event is first, and the exception of cancelling the key leaves the      *)
(* box's task).                                                            *)
AnsweredUnlessCut ==
    \A c \in Clients :
        Asked(c) ~> answers[c] # <<>> \/ admin = "ended" \/ \E b \in Boxes : ~socket[b]

(* Peer connects closed() to cancel(): a peer whose socket has been closed *)
(* is cancelled, which takes a box out of the registry and a client out of *)
(* the list of its box.                                                    *)
ClosedIsCancelled == \A p \in Peers : ~open[p] ~> ~socket[p]
=============================================================================
