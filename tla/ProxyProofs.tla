---------------------------- MODULE ProxyProofs ----------------------------
(***************************************************************************)
(* Proofs about Proxy, for any number of boxes, clients, uids, requests    *)
(* and threads of the pool.                                                *)
(***************************************************************************)
EXTENDS Proxy, TLAPS

Labels == {"idle", "read", "send", "sent", "attach", "attached", "write", "close",
           "unkey", "closeFd", "lock", "loop", "cancel"}

Typed == PeersOK /\ WorkersOK /\ TasksOK /\ LocksOK

-----------------------------------------------------------------------------
(* The initial state is well typed. *)
LEMMA TypeInit == Init => TypeOK
<1> SUFFICES ASSUME Init PROVE TypeOK
  OBVIOUS
<1> USE ProxyAssumption DEF Init, Peers
<1>1. PeersOK /\ WorkersOK
  BY DEF PeersOK, WorkersOK
<1>2. TasksOK /\ LocksOK /\ AdminOK
  BY DEF TasksOK, LocksOK, AdminOK, Resulting
<1>. QED
  BY <1>1, <1>2 DEF TypeOK

(* What the end of a turn, of a task or an exception leaves behind: the    *)
(* worker holds no mutex and writes to nobody.                             *)
LEMMA LeaveOK ==
  ASSUME TypeOK, NEW w \in Workers, NEW label \in {"idle", "cancel", "lock"}, Leave(w, label),
         \/ UNCHANGED self /\ self[w] \in Peers /\ (label = "lock" => self[w] \in Boxes)
         \/ self' = [self EXCEPT ![w] = Nobody] /\ label = "idle"
  PROVE  WorkersOK' /\ TasksOK' /\ LocksOK'
<1> USE ProxyAssumption DEF TypeOK, WorkersOK, Peers, Leave, Goto, Unlock, Labels, Resulting
<1>1. WorkersOK'
  OBVIOUS
<1>2. ASSUME NEW v \in Workers, NEW b \in Boxes
      PROVE  lock'[b] = v <=> self'[v] = b /\ pc'[v] \in Resulting \cup {"loop"}
  <2>1. CASE v = w
    <3>1. lock'[b] # w /\ pc'[w] = label
      OBVIOUS
    <3>. QED
      BY <2>1, <3>1
  <2>2. CASE v # w
    <3>1. pc'[v] = pc[v] /\ self'[v] = self[v]
      BY <2>2
    <3>2. lock'[b] = v <=> lock[b] = v
      BY <2>2
    <3>. QED
      BY <3>1, <3>2 DEF LocksOK
  <2>. QED
    BY <2>1, <2>2
<1>3. TasksOK'
  BY DEF TasksOK
<1>. QED
  BY <1>1, <1>2, <1>3 DEF LocksOK

LEMMA ReturnOK ==
  ASSUME TypeOK, NEW w \in Workers, Return(w)
  PROVE  WorkersOK' /\ TasksOK' /\ LocksOK'
BY LeaveOK DEF Return

LEMMA ThrowOK ==
  ASSUME TypeOK, NEW w \in Workers, Throw(w), self[w] \in Peers
  PROVE  WorkersOK' /\ TasksOK' /\ LocksOK'
BY LeaveOK DEF Throw

LEMMA NextTurnOK ==
  ASSUME TypeOK, NEW w \in Workers, NextTurn(w), self[w] \in Boxes
  PROVE  WorkersOK' /\ TasksOK' /\ LocksOK'
BY LeaveOK DEF NextTurn, Peers

(* HttpPeer::process keeps the types.                                      *)
LEMMA ClientType ==
  ASSUME TypeOK, NEW w \in Workers,
         \/ ReadRequest(w) \/ ReadThrow(w) \/ Send(w) \/ Sent(w) \/ Attach(w) \/ Attached(w)
  PROVE  Typed'
<1> USE ProxyAssumption DEF TypeOK, Typed, Resulting, Peers, Labels, selectorVars, boxVars, clientVars,
        workerVars, Goto
<1>1. CASE ReadRequest(w)
  <2>1. stdPeer' \in [Clients -> Boxes \cup {Nobody}]
    <3>1. UNCHANGED stdPeer \/ \E u \in Uids : stdPeer' = [stdPeer EXCEPT ![self[w]] = stdPeers[u]]
      BY <1>1 DEF ReadRequest
    <3>. QED
      BY <3>1 DEF PeersOK
  <2>2. PICK label \in {"write", "send"} : pc' = [pc EXCEPT ![w] = label]
    BY <1>1 DEF ReadRequest
  <2>3. PICK p \in Peers : /\ to' = [to EXCEPT ![w] = p]
                           /\ label = "write" => p = self[w] /\ p \in Clients
                           /\ label = "send" => p \in Boxes
    BY <1>1, <2>1, <2>2 DEF ReadRequest, PeersOK, WorkersOK, TasksOK
  <2>4. pc[w] = "read" /\ self[w] \in Clients /\ UNCHANGED <<lock, self>>
    BY <1>1 DEF ReadRequest, TasksOK
  <2>5. PeersOK' /\ WorkersOK'
    BY <1>1, <2>1, <2>2, <2>3 DEF ReadRequest, PeersOK, WorkersOK
  <2>6. TasksOK'
    BY <2>2, <2>3, <2>4 DEF TasksOK, PeersOK, WorkersOK
  <2>7. LocksOK'
    BY <2>2, <2>4 DEF LocksOK, PeersOK, WorkersOK
  <2>. QED
    BY <2>5, <2>6, <2>7
<1>2. CASE ReadThrow(w)
  <2>1. Throw(w) /\ self[w] \in Peers
    BY <1>2 DEF ReadThrow, TasksOK
  <2>2. WorkersOK' /\ TasksOK' /\ LocksOK'
    BY <2>1, ThrowOK
  <2>3. PeersOK'
    BY <1>2 DEF ReadThrow, PeersOK
  <2>. QED
    BY <2>2, <2>3
<1>3. CASE Send(w)
  <2> DEFINE b == to[w]
             c == self[w]
             r == ReqUid[c]
  <2>1. b \in Boxes /\ c \in Clients /\ r \in Reqs
    BY <1>3 DEF Send, TasksOK
  <2>2. httpPeers' \in [Boxes -> [Reqs -> Clients \cup {Nobody}]]
    BY <1>3, <2>1 DEF Send, Waiting, PeersOK, WorkersOK
  <2>3. sent' \in [Boxes -> SUBSET (Reqs \X Clients)]
    <3>1. <<r, c>> \in Reqs \X Clients
      BY <2>1
    <3>2. sent \in [Boxes -> SUBSET (Reqs \X Clients)]
      BY DEF PeersOK
    <3> DEFINE more == sent[b] \cup {<<r, c>>}
    <3>3. more \in SUBSET (Reqs \X Clients)
      BY <2>1, <3>1, <3>2
    <3>4. sent' = sent \/ sent' = [sent EXCEPT ![b] = more]
      BY <1>3 DEF Send
    <3> HIDE DEF more, b
    <3>. QED
      BY <2>1, <3>2, <3>3, <3>4
  <2>4. pc' \in [Workers -> Labels]
    BY <1>3 DEF Send, PeersOK, WorkersOK
  <2>5. PeersOK' /\ WorkersOK'
    BY <1>3, <2>2, <2>3, <2>4 DEF Send, PeersOK, WorkersOK
  <2>6. TasksOK'
    BY <1>3 DEF Send, PeersOK, WorkersOK, TasksOK
  <2>7. LocksOK'
    BY <1>3 DEF Send, PeersOK, WorkersOK, LocksOK
  <2>. QED
    BY <2>5, <2>6, <2>7
<1>4. CASE Sent(w)
  <2>1. PeersOK' /\ WorkersOK'
    BY <1>4 DEF Sent, TasksOK, PeersOK, WorkersOK
  <2>2. TasksOK'
    BY <1>4 DEF Sent, PeersOK, WorkersOK, TasksOK
  <2>3. LocksOK'
    BY <1>4 DEF Sent, PeersOK, WorkersOK, LocksOK
  <2>. QED
    BY <2>1, <2>2, <2>3
<1>5. CASE Attach(w)
  <2>1. PeersOK' /\ WorkersOK'
    BY <1>5 DEF Attach, TasksOK, PeersOK, WorkersOK
  <2>2. TasksOK'
    BY <1>5 DEF Attach, PeersOK, WorkersOK, TasksOK
  <2>3. LocksOK'
    BY <1>5 DEF Attach, PeersOK, WorkersOK, LocksOK
  <2>. QED
    BY <2>1, <2>2, <2>3
<1>6. CASE Attached(w)
  <2>1. Return(w) /\ self[w] \in Peers
    BY <1>6 DEF Attached, TasksOK
  <2>2. WorkersOK' /\ TasksOK' /\ LocksOK'
    BY <2>1, ReturnOK
  <2>3. PeersOK'
    BY <1>6 DEF Attached, PeersOK
  <2>. QED
    BY <2>2, <2>3
<1>. QED
  BY <1>1, <1>2, <1>3, <1>4, <1>5, <1>6

(* So does HttpPeer::sendResult, whoever runs it.                          *)
LEMMA ResultType ==
  ASSUME TypeOK, NEW w \in Workers, WriteResult(w) \/ CloseResult(w) \/ CancelKey(w) \/ CloseFd(w)
  PROVE  Typed'
<1> USE ProxyAssumption DEF TypeOK, Typed, Resulting, Peers, Labels, selectorVars, boxVars, clientVars,
        workerVars, Goto
<1>1. CASE WriteResult(w)
  <2>1. self[w] \in Peers /\ to[w] \in Clients /\ pc[w] = "write"
    BY <1>1 DEF WriteResult, TasksOK
  <2>2. CASE Throw(w) /\ UNCHANGED answers
    <3>1. WorkersOK' /\ TasksOK' /\ LocksOK'
      BY <2>1, <2>2, ThrowOK
    <3>2. PeersOK'
      BY <1>1, <2>2 DEF WriteResult, PeersOK
    <3>. QED
      BY <3>1, <3>2
  <2>3. CASE /\ answers' = [answers EXCEPT ![to[w]] = Append(@, whose[w])]
             /\ pc' = [pc EXCEPT ![w] = "close"]
             /\ UNCHANGED <<lock, self, to, whose>>
    <3>1. answers' \in [Clients -> Seq(Clients \cup {Nobody})]
      BY <2>1, <2>3 DEF PeersOK, WorkersOK
    <3>2. PeersOK' /\ WorkersOK'
      BY <1>1, <2>3, <3>1 DEF WriteResult, PeersOK, WorkersOK
    <3>3. TasksOK' /\ LocksOK'
      BY <2>1, <2>3 DEF PeersOK, WorkersOK, TasksOK, LocksOK
    <3>. QED
      BY <3>2, <3>3
  <2>. QED
    BY <1>1, <2>2, <2>3 DEF WriteResult
<1>2. CASE CloseResult(w) \/ CancelKey(w) \/ CloseFd(w)
  <2>1. self[w] \in Boxes \cup {to[w]} /\ to[w] \in Clients /\ pc[w] \in Resulting
    BY <1>2 DEF CloseResult, CancelKey, CloseFd, TasksOK
  <2>2. PeersOK'
    BY <1>2, <2>1 DEF CloseResult, CancelKey, CloseFd, PeersOK
  <2>3. CASE Return(w)
    BY <2>2, <2>3, ReturnOK
  <2>4. CASE Throw(w)
    BY <2>1, <2>2, <2>4, ThrowOK
  <2>5. CASE self[w] # to[w] /\ NextTurn(w)
    BY <2>1, <2>2, <2>5, NextTurnOK
  <2>6. ASSUME NEW label \in {"unkey", "closeFd"}, Goto(w, label), UNCHANGED <<lock, self, to, whose>>
        PROVE  WorkersOK' /\ TasksOK' /\ LocksOK'
    <3>1. WorkersOK'
      BY <2>1, <2>6 DEF WorkersOK
    <3>2. TasksOK' /\ LocksOK'
      BY <2>1, <2>6 DEF WorkersOK, TasksOK, LocksOK
    <3>. QED
      BY <3>1, <3>2
  <2>. QED
    BY <1>2, <2>2, <2>3, <2>4, <2>5, <2>6 DEF CloseResult, CancelKey, CloseFd, Resulted
<1>. QED
  BY <1>1, <1>2

(* So does StdPeer::process.                                               *)
LEMMA BoxType ==
  ASSUME TypeOK, NEW w \in Workers,
         \/ Lock(w) \/ BoxIdle(w) \/ BoxThrow(w) \/ BoxBreak(w)
         \/ \E u \in Uids : Register(w, u)
         \/ \E r \in Reqs, c \in Clients : Respond(w, r, c)
  PROVE  Typed'
<1> USE ProxyAssumption DEF TypeOK, Typed, Resulting, Peers, Labels, selectorVars, boxVars, clientVars,
        workerVars, Goto
<1>1. CASE Lock(w)
  <2>1. PeersOK' /\ WorkersOK'
    BY <1>1 DEF Lock, Free, TasksOK, PeersOK, WorkersOK
  <2>2. TasksOK'
    BY <1>1 DEF Lock, Free, PeersOK, WorkersOK, TasksOK
  <2>3. LocksOK'
    BY <1>1 DEF Lock, Free, PeersOK, WorkersOK, LocksOK
  <2>. QED
    BY <2>1, <2>2, <2>3
<1>2. CASE BoxIdle(w)
  <2>1. Return(w) /\ self[w] \in Peers
    BY <1>2 DEF BoxIdle, TasksOK
  <2>2. WorkersOK' /\ TasksOK' /\ LocksOK'
    BY <2>1, ReturnOK
  <2>3. PeersOK'
    BY <1>2, <2>1 DEF BoxIdle, Rearmed, PeersOK
  <2>. QED
    BY <2>2, <2>3
<1>3. CASE BoxThrow(w)
  <2>1. Throw(w) /\ self[w] \in Peers
    BY <1>3 DEF BoxThrow, TasksOK
  <2>2. WorkersOK' /\ TasksOK' /\ LocksOK'
    BY <2>1, ThrowOK
  <2>3. PeersOK'
    BY <1>3 DEF BoxThrow, PeersOK
  <2>. QED
    BY <2>2, <2>3
<1>4. CASE BoxBreak(w)
  <2>1. Return(w) /\ self[w] \in Peers
    BY <1>4 DEF BoxBreak, TasksOK
  <2>2. WorkersOK' /\ TasksOK' /\ LocksOK'
    BY <2>1, ReturnOK
  <2>3. PeersOK'
    BY <1>4 DEF BoxBreak, PeersOK
  <2>. QED
    BY <2>2, <2>3
<1>5. CASE \E u \in Uids : Register(w, u)
  <2>1. PICK u \in Uids : Register(w, u)
    BY <1>5
  <2>2. self[w] \in Boxes /\ (Throw(w) \/ NextTurn(w))
    BY <2>1 DEF Register, TasksOK
  <2>. QED
    <3>1. WorkersOK' /\ TasksOK' /\ LocksOK'
      BY <2>2, ThrowOK, NextTurnOK
    <3>2. PeersOK'
      BY <2>1, <2>2 DEF Register, PeersOK
    <3>. QED
      BY <3>1, <3>2
<1>6. CASE \E r \in Reqs, c \in Clients : Respond(w, r, c)
  <2>1. PICK r \in Reqs, c \in Clients : Respond(w, r, c)
    BY <1>6
  <2>2. self[w] \in Boxes /\ pc[w] = "loop"
    BY <2>1 DEF Respond, TasksOK
  <2> DEFINE client == WaitingFor(self[w], r)
  <2>3. client \in Clients \cup {Nobody}
    BY <2>2 DEF WaitingFor, PeersOK, WorkersOK
  <2>4. CASE ~Found(client)
    <3>1. NextTurn(w) /\ UNCHANGED httpPeers
      BY <2>1, <2>4 DEF Respond
    <3>. QED
      BY <2>1, <2>2, <3>1, NextTurnOK DEF Respond, PeersOK
  <2>5. CASE Found(client)
    <3>1. /\ httpPeers' = Forgotten(self[w], r)
          /\ to' = [to EXCEPT ![w] = client]
          /\ whose' = [whose EXCEPT ![w] = c]
          /\ pc' = [pc EXCEPT ![w] = "write"]
          /\ UNCHANGED <<lock, self>>
      BY <2>1, <2>5 DEF Respond
    <3>2. client \in Clients
      BY <2>3, <2>5 DEF Found
    <3>3. httpPeers' \in [Boxes -> [Reqs -> Clients \cup {Nobody}]]
      BY <2>2, <3>1 DEF Forgotten, PeersOK, WorkersOK
    <3>4. PeersOK' /\ WorkersOK'
      BY <2>1, <3>1, <3>2, <3>3 DEF Respond, PeersOK, WorkersOK
    <3>5. TasksOK' /\ LocksOK'
      BY <2>2, <3>1, <3>2 DEF PeersOK, WorkersOK, TasksOK, LocksOK
    <3>. QED
      BY <3>4, <3>5
  <2>. QED
    BY <2>4, <2>5
<1>. QED
  BY <1>1, <1>2, <1>3, <1>4, <1>5, <1>6

(* cancel() itself, whoever calls it.                                      *)
LEMMA CancelBoxType ==
  ASSUME TypeOK, NEW b \in Boxes, CancelBox(b)
  PROVE  /\ armed' \subseteq Peers
         /\ open' \in [Peers -> BOOLEAN] /\ socket' \in [Peers -> BOOLEAN]
         /\ fd' \in [Peers -> BOOLEAN]
         /\ stdPeers' \in [Uids -> Boxes \cup {Nobody}]
         /\ uid' \in [Boxes -> Uids \cup {NoUid}]
<1>1. CASE socket[b]
  <2>1. /\ stdPeers' = Unregistered(b)
        /\ uid' = [uid EXCEPT ![b] = NoUid]
        /\ socket' = [socket EXCEPT ![b] = FALSE]
        /\ CloseSocket(b)
    BY <1>1 DEF CancelBox
  <2>. QED
    BY <2>1 DEF CloseSocket, TypeOK, PeersOK, Unregistered, Peers
<1>2. CASE ~socket[b]
  BY <1>2 DEF CancelBox, TypeOK, PeersOK
<1>. QED
  BY <1>1, <1>2

LEMMA CancelClientType ==
  ASSUME TypeOK, NEW c \in Clients, CancelClient(c)
  PROVE  /\ armed' \subseteq Peers
         /\ open' \in [Peers -> BOOLEAN] /\ socket' \in [Peers -> BOOLEAN]
         /\ fd' \in [Peers -> BOOLEAN]
         /\ httpPeers' \in [Boxes -> [Reqs -> Clients \cup {Nobody}]]
<1>1. CASE socket[c]
  <2>1. /\ httpPeers' = [b \in Boxes |-> [r \in Reqs |->
               IF b = stdPeer[c] /\ r = reqUid[c] THEN Nobody ELSE httpPeers[b][r]]]
        /\ socket' = [socket EXCEPT ![c] = FALSE]
        /\ CloseSocket(c)
    BY <1>1 DEF CancelClient
  <2>. QED
    BY <2>1 DEF CloseSocket, TypeOK, PeersOK, Peers
<1>2. CASE ~socket[c]
  BY <1>2 DEF CancelClient, TypeOK, PeersOK
<1>. QED
  BY <1>1, <1>2

(* So do cancel(), by a task or a destructor, and the pool and selector.   *)
LEMMA CancelType ==
  ASSUME TypeOK,
         \/ \E w \in Workers : TaskCancel(w)
         \/ \E b \in Boxes : DestroyBox(b)
         \/ \E c \in Clients : DestroyClient(c)
  PROVE  Typed'
<1> USE ProxyAssumption DEF TypeOK, Typed, Resulting, Peers, Labels, selectorVars, boxVars, clientVars,
        workerVars, Goto
<1>1. CASE \E w \in Workers : TaskCancel(w)
  <2>1. PICK w \in Workers : TaskCancel(w)
    BY <1>1
  <2>2. self[w] \in Peers /\ Return(w)
    BY <2>1 DEF TaskCancel, TasksOK
  <2>3. CASE self[w] \in Boxes /\ CancelBox(self[w]) /\ UNCHANGED httpPeers
    <3>1. PeersOK'
      BY <2>1, <2>3, CancelBoxType DEF TaskCancel, PeersOK
    <3>. QED
      BY <2>2, <3>1, ReturnOK
  <2>4. CASE self[w] \in Clients /\ CancelClient(self[w]) /\ UNCHANGED <<stdPeers, uid>>
    <3>1. PeersOK'
      BY <2>1, <2>4, CancelClientType DEF TaskCancel, PeersOK
    <3>. QED
      BY <2>2, <3>1, ReturnOK
  <2>. QED
    BY <2>1, <2>3, <2>4 DEF TaskCancel
<1>2. CASE \E b \in Boxes : DestroyBox(b)
  <2>1. PICK b \in Boxes : DestroyBox(b)
    BY <1>2
  <2>2. httpPeers' \in [Boxes -> [Reqs -> Clients \cup {Nobody}]]
    BY <2>1 DEF DestroyBox, PeersOK, WorkersOK
  <2>3. PeersOK' /\ WorkersOK'
    BY <2>1, <2>2, CancelBoxType DEF DestroyBox, PeersOK, WorkersOK
  <2>. QED
    BY <2>1, <2>3 DEF DestroyBox, TasksOK, LocksOK
<1>3. CASE \E c \in Clients : DestroyClient(c)
  <2>1. PICK c \in Clients : DestroyClient(c)
    BY <1>3
  <2>2. PeersOK' /\ WorkersOK'
    BY <2>1, CancelClientType DEF DestroyClient, PeersOK, WorkersOK
  <2>. QED
    BY <2>1, <2>2 DEF DestroyClient, TasksOK, LocksOK
<1>. QED
  BY <1>1, <1>2, <1>3

LEMMA PoolType ==
  ASSUME TypeOK,
         \/ \E w \in Workers, p \in Peers : StartTask(w, p)
         \/ \E p \in Peers : Notice(p)
         \/ AdminStep
  PROVE  Typed'
<1> USE ProxyAssumption DEF TypeOK, Typed, Resulting, Peers, Labels, selectorVars, boxVars, clientVars,
        workerVars, Goto
<1>1. CASE \E w \in Workers, p \in Peers : StartTask(w, p)
  <2>1. PeersOK' /\ WorkersOK'
    BY <1>1 DEF StartTask, FirstStep, PeersOK, WorkersOK
  <2>2. TasksOK'
    BY <1>1 DEF StartTask, FirstStep, PeersOK, WorkersOK, TasksOK
  <2>3. LocksOK'
    BY <1>1 DEF StartTask, FirstStep, PeersOK, WorkersOK, LocksOK
  <2>. QED
    BY <2>1, <2>2, <2>3
<1>2. CASE (\E p \in Peers : Notice(p)) \/ AdminStep
  <2>1. UNCHANGED <<socket, boxVars, lock, clientVars, answers, workerVars>>
    BY <1>2 DEF Notice, AdminStep, Fire, SelectThrow, Dispatch
  <2>2. /\ armed' \subseteq Peers /\ queued' \subseteq Peers
        /\ open' \in [Peers -> BOOLEAN]
    <3>1. armed' \subseteq armed /\ (UNCHANGED open \/ open' = [open EXCEPT ![event] = FALSE])
      BY <1>2 DEF Notice, AdminStep, Fire, SelectThrow, Dispatch
    <3>2. queued' \subseteq queued \cup Peers
      BY <1>2 DEF Notice, AdminStep, Fire, SelectThrow, Dispatch, AdminOK
    <3>. QED
      BY <3>1, <3>2 DEF PeersOK
  <2>3. fd' \in [Peers -> BOOLEAN]
    <3>1. UNCHANGED fd \/ fd' = [fd EXCEPT ![event] = fd[event] /\ ~open[event]]
      BY <1>2 DEF Notice, AdminStep, Fire, SelectThrow, Dispatch
    <3>2. (fd[event] /\ ~open[event]) \in BOOLEAN
      OBVIOUS
    <3>3. PICK still \in BOOLEAN : UNCHANGED fd \/ fd' = [fd EXCEPT ![event] = still]
      BY <3>1, <3>2
    <3>. QED
      BY <3>3 DEF PeersOK
  <2>. QED
    BY <2>1, <2>2, <2>3 DEF PeersOK, WorkersOK, TasksOK, LocksOK
<1>. QED
  BY <1>1, <1>2

(* Admin's variables are its own.                                          *)
LEMMA AdminType ==
  ASSUME TypeOK, Next
  PROVE  AdminOK'
<1> USE DEF selectorVars, TypeOK, AdminOK
<1>1. ASSUME NEW w \in Workers, Process(w) PROVE UNCHANGED <<admin, event>>
  BY <1>1 DEF Process, ReadRequest, ReadThrow, Send, Sent, Attach, Attached, WriteResult, CloseResult, CancelKey, CloseFd,
              CancelKey, CloseFd, Lock, BoxIdle, BoxThrow, BoxBreak, Register, Respond, TaskCancel
<1>2. ASSUME \/ \E w \in Workers, p \in Peers : StartTask(w, p)
             \/ \E b \in Boxes : DestroyBox(b)
             \/ \E c \in Clients : DestroyClient(c)
      PROVE  UNCHANGED <<admin, event>>
  BY <1>2 DEF StartTask, DestroyBox, DestroyClient
<1>3. ASSUME (\E p \in Peers : Notice(p)) \/ AdminStep PROVE AdminOK'
  BY <1>3 DEF Notice, AdminStep, Fire, SelectThrow, Dispatch
<1>. QED
  BY <1>1, <1>2, <1>3 DEF Next

(* Every step keeps the types.                                             *)
LEMMA TypeStep == TypeOK /\ [Next]_vars => TypeOK'
<1>1. ASSUME TypeOK, Next PROVE TypeOK'
  <2>1. Typed'
    BY <1>1, ClientType, ResultType, BoxType, CancelType, PoolType DEF Next, Process
  <2>. QED
    BY <1>1, <2>1, AdminType DEF Typed, TypeOK
<1>2. ASSUME TypeOK, UNCHANGED vars PROVE TypeOK'
  BY <1>2 DEF TypeOK, PeersOK, WorkersOK, TasksOK, LocksOK, AdminOK, vars, selectorVars, boxVars, clientVars,
              workerVars
<1>. QED
  BY <1>1, <1>2

(* Types, and what the labels imply: a task that throws leaves no mutex    *)
(* locked, a box's task holds its own box's mutex and no other while it    *)
(* reads, registers and answers, and a client's task writes to nobody but  *)
(* its own client (StdPeer::process, HttpPeer::process).                   *)
THEOREM TypeCorrect == Spec => []TypeOK
BY TypeInit, TypeStep, PTL DEF Spec

-----------------------------------------------------------------------------
(* The registry *)

(* Only a registration and the cancel() of a box touch what the registry   *)
(* agrees about.                                                           *)
LEMMA RegistryKept ==
  ASSUME TypeOK, Next
  PROVE  \/ \E w \in Workers, u \in Uids : Register(w, u)
         \/ \E b \in Boxes : CancelBox(b)
         \/ UNCHANGED <<stdPeers, uid>> /\ \A b \in Boxes : socket'[b] = socket[b]
<1> USE DEF selectorVars, boxVars, clientVars, workerVars
<1>1. ASSUME NEW w \in Workers,
             \/ ReadRequest(w) \/ ReadThrow(w) \/ Send(w) \/ Sent(w) \/ Attach(w) \/ Attached(w)
             \/ WriteResult(w) \/ CloseResult(w) \/ CancelKey(w) \/ CloseFd(w)
             \/ Lock(w) \/ BoxIdle(w) \/ BoxThrow(w) \/ BoxBreak(w)
             \/ \E r \in Reqs, c \in Clients : Respond(w, r, c)
      PROVE  UNCHANGED <<stdPeers, uid, socket>>
  BY <1>1 DEF ReadRequest, ReadThrow, Send, Sent, Attach, Attached, WriteResult, CloseResult, CancelKey, CloseFd,
              Lock, BoxIdle, BoxThrow, BoxBreak, Respond
<1>2. ASSUME NEW c \in Clients, CancelClient(c)
      PROVE  \A b \in Boxes : socket'[b] = socket[b]
  BY <1>2, ProxyAssumption DEF CancelClient, TypeOK, PeersOK, Peers
<1>3. ASSUME NEW w \in Workers, TaskCancel(w)
      PROVE  \/ \E b \in Boxes : CancelBox(b)
             \/ UNCHANGED <<stdPeers, uid>> /\ \A b \in Boxes : socket'[b] = socket[b]
  BY <1>2, <1>3 DEF TaskCancel
<1>4. ASSUME NEW w \in Workers, Process(w)
      PROVE  \/ \E u \in Uids : Register(w, u)
             \/ \E b \in Boxes : CancelBox(b)
             \/ UNCHANGED <<stdPeers, uid>> /\ \A b \in Boxes : socket'[b] = socket[b]
  BY <1>1, <1>3, <1>4 DEF Process
<1>5. ASSUME \/ \E w \in Workers, p \in Peers : StartTask(w, p)
             \/ \E p \in Peers : Notice(p)
             \/ AdminStep
      PROVE  UNCHANGED <<stdPeers, uid, socket>>
  BY <1>5 DEF StartTask, Notice, AdminStep, Fire, SelectThrow, Dispatch
<1>6. ASSUME NEW b \in Boxes, DestroyBox(b) PROVE CancelBox(b)
  BY <1>6 DEF DestroyBox
<1>7. ASSUME NEW c \in Clients, DestroyClient(c)
      PROVE  UNCHANGED <<stdPeers, uid>> /\ \A b \in Boxes : socket'[b] = socket[b]
  BY <1>2, <1>7 DEF DestroyClient
<1>. QED
  BY <1>4, <1>5, <1>6, <1>7 DEF Next

LEMMA RegistryStep == TypeOK /\ RegistryAgrees /\ [Next]_vars => RegistryAgrees'
<1> SUFFICES ASSUME TypeOK, RegistryAgrees, [Next]_vars,
                    NEW u \in Uids, stdPeers'[u] # Nobody
             PROVE  uid'[stdPeers'[u]] = u /\ socket'[stdPeers'[u]]
  BY DEF RegistryAgrees
<1>1. /\ stdPeers \in [Uids -> Boxes \cup {Nobody}] /\ uid \in [Boxes -> Uids \cup {NoUid}]
      /\ socket \in [Peers -> BOOLEAN] /\ Boxes \subseteq Peers
  BY DEF TypeOK, PeersOK, Peers
<1>2. CASE \E w \in Workers, v \in Uids : Register(w, v)
  <2>1. PICK w \in Workers, v \in Uids : Register(w, v)
    BY <1>2
  <2> DEFINE b == self[w]
  <2>2. /\ b \in Boxes /\ Usable(b) /\ uid[b] = NoUid
        /\ uid' = [uid EXCEPT ![b] = v] /\ stdPeers' = [stdPeers EXCEPT ![v] = b]
        /\ UNCHANGED socket
    BY <2>1 DEF Register, TypeOK, TasksOK
  <2>3. CASE u = v
    BY <1>1, <2>2, <2>3 DEF Usable
  <2>4. CASE u # v
    <3>1. stdPeers'[u] = stdPeers[u] /\ stdPeers[u] \in Boxes
      BY <1>1, <2>2, <2>4
    <3>2. uid[stdPeers[u]] = u /\ socket[stdPeers[u]]
      BY <3>1, ProxyAssumption DEF RegistryAgrees, Peers
    <3>3. stdPeers[u] # b
      BY <2>2, <3>2, ProxyAssumption
    <3>. QED
      BY <1>1, <2>2, <3>1, <3>2, <3>3
  <2>. QED
    BY <2>3, <2>4
<1>3. CASE \E b \in Boxes : CancelBox(b)
  <2>1. PICK b \in Boxes : CancelBox(b)
    BY <1>3
  <2>2. CASE socket[b]
    <3>1. /\ stdPeers' = [v \in Uids |-> IF v = uid[b] THEN Nobody ELSE stdPeers[v]]
          /\ uid' = [uid EXCEPT ![b] = NoUid]
          /\ socket' = [socket EXCEPT ![b] = FALSE]
      BY <2>1, <2>2 DEF CancelBox, Unregistered
    <3>2. u # uid[b] /\ stdPeers'[u] = stdPeers[u] /\ stdPeers[u] \in Boxes
      BY <1>1, <3>1
    <3>3. uid[stdPeers[u]] = u /\ socket[stdPeers[u]]
      BY <3>2, ProxyAssumption DEF RegistryAgrees, Peers
    <3>. QED
      BY <1>1, <3>1, <3>2, <3>3
  <2>3. CASE ~socket[b]
    BY <2>1, <2>3 DEF CancelBox, RegistryAgrees
  <2>. QED
    BY <2>2, <2>3
<1>4. CASE UNCHANGED <<stdPeers, uid>> /\ \A b \in Boxes : socket'[b] = socket[b]
  BY <1>1, <1>4 DEF RegistryAgrees
<1>5. CASE UNCHANGED vars
  BY <1>4, <1>5 DEF vars, boxVars
<1>. QED
  BY <1>2, <1>3, <1>4, <1>5, RegistryKept

(* What StdPeer::get returns is the box that registered under the uid last *)
(* and has not been cancelled since, though cancel() removes the entry of  *)
(* its uid whichever box that is: a box is asked only while it has a       *)
(* socket, however boxes and clients leave, fail and register again.       *)
THEOREM RegistryTrue == Spec => []RegistryAgrees
<1>1. Init => RegistryAgrees
  BY DEF Init, RegistryAgrees
<1>. QED
  BY <1>1, TypeInit, TypeStep, RegistryStep, PTL DEF Spec

-----------------------------------------------------------------------------
(* Whose answer a client gets *)

(* No two clients send requests with the same uid.                         *)
OwnUids == \A c, d \in Clients : ReqUid[c] = ReqUid[d] => c = d

(* Who waits under a uid has a request of that uid, and so has who is      *)
(* written to a box under it; what a task writes is its client's; and a    *)
(* client's own task writes only what the proxy says itself.               *)
WaitOwn == \A b \in Boxes, r \in Reqs : httpPeers[b][r] # Nobody => ReqUid[httpPeers[b][r]] = r
SentOwn == \A b \in Boxes, r \in Reqs, c \in Clients : <<r, c>> \in sent[b] => ReqUid[c] = r
WriteOwn ==
    \A w \in Workers :
        /\ pc[w] \in Resulting => whose[w] \in {to[w], Nobody}
        /\ pc[w] = "idle" \/ self[w] \in Clients => whose[w] = Nobody

(* Only Send changes what a box was sent.                                  *)
LEMMA SentKept ==
  ASSUME [Next]_vars
  PROVE  UNCHANGED sent \/ \E w \in Workers : Send(w)
<1> USE DEF selectorVars, boxVars, clientVars, workerVars
<1>1. ASSUME NEW w \in Workers,
             \/ ReadRequest(w) \/ ReadThrow(w) \/ Sent(w) \/ Attach(w) \/ Attached(w)
             \/ WriteResult(w) \/ CloseResult(w) \/ CancelKey(w) \/ CloseFd(w)
             \/ Lock(w) \/ BoxIdle(w) \/ BoxThrow(w) \/ BoxBreak(w)
             \/ \E u \in Uids : Register(w, u)
             \/ \E r \in Reqs, c \in Clients : Respond(w, r, c)
             \/ TaskCancel(w)
      PROVE  UNCHANGED sent
  BY <1>1 DEF ReadRequest, ReadThrow, Sent, Attach, Attached, WriteResult, CloseResult, CancelKey, CloseFd,
              Lock, BoxIdle, BoxThrow, BoxBreak, Register, Respond, TaskCancel
<1>2. ASSUME \/ \E w \in Workers, p \in Peers : StartTask(w, p)
             \/ \E p \in Peers : Notice(p)
             \/ AdminStep
             \/ \E b \in Boxes : DestroyBox(b)
             \/ \E c \in Clients : DestroyClient(c)
      PROVE  UNCHANGED sent
  BY <1>2 DEF StartTask, Notice, AdminStep, Fire, SelectThrow, Dispatch, DestroyBox, DestroyClient
<1>3. CASE UNCHANGED vars
  BY <1>3 DEF vars
<1>. QED
  BY <1>1, <1>2, <1>3 DEF Next, Process

(* Only Send, Respond and the cancel() of a client or of a box touch who   *)
(* waits, and the last three only remove.                                  *)
LEMMA WaitOwnStep == TypeOK /\ WaitOwn /\ [Next]_vars => WaitOwn'
<1> SUFFICES ASSUME TypeOK, WaitOwn, [Next]_vars PROVE WaitOwn'
  OBVIOUS
<1> USE ProxyAssumption DEF TypeOK, PeersOK, WorkersOK, Peers, selectorVars, boxVars, clientVars, workerVars
<1>1. CASE \E w \in Workers : Send(w)
  <2>1. PICK w \in Workers : Send(w)
    BY <1>1
  <2> DEFINE b == to[w]
             c == self[w]
             r == ReqUid[c]
  <2>2. b \in Boxes /\ c \in Clients /\ r \in Reqs /\ httpPeers' = [httpPeers EXCEPT ![b][r] = c]
    BY <2>1 DEF Send, Waiting, TasksOK
  <2>3. ASSUME NEW d \in Boxes, NEW q \in Reqs, httpPeers'[d][q] # Nobody
        PROVE  ReqUid[httpPeers'[d][q]] = q
    <3>1. CASE d = b /\ q = r
      BY <2>2, <3>1
    <3>2. CASE ~(d = b /\ q = r)
      <4>1. httpPeers'[d][q] = httpPeers[d][q]
        BY <2>2, <3>2
      <4>. QED
        BY <2>3, <4>1 DEF WaitOwn
    <3>. QED
      BY <3>1, <3>2
  <2>. QED
    BY <2>3 DEF WaitOwn
<1>2. CASE \/ UNCHANGED httpPeers
           \/ \A b \in Boxes, r \in Reqs : httpPeers'[b][r] \in {httpPeers[b][r], Nobody}
  BY <1>2 DEF WaitOwn
<1>3. ASSUME NEW c \in Clients, CancelClient(c)
      PROVE  \A b \in Boxes, r \in Reqs : httpPeers'[b][r] \in {httpPeers[b][r], Nobody}
  BY <1>3 DEF CancelClient
<1>4. ASSUME NEW b \in Boxes, DestroyBox(b)
      PROVE  \A d \in Boxes, r \in Reqs : httpPeers'[d][r] \in {httpPeers[d][r], Nobody}
  BY <1>4 DEF DestroyBox
<1>5. ASSUME NEW w \in Workers, NEW r \in Reqs, NEW c \in Clients, Respond(w, r, c)
      PROVE  \A d \in Boxes, q \in Reqs : httpPeers'[d][q] \in {httpPeers[d][q], Nobody}
  <2>1. self[w] \in Boxes
    BY <1>5 DEF Respond, TasksOK
  <2>2. PICK b \in Boxes : UNCHANGED httpPeers \/ httpPeers' = [httpPeers EXCEPT ![b][r] = Nobody]
    BY <1>5, <2>1 DEF Respond, Forgotten
  <2>3. ASSUME NEW d \in Boxes, NEW q \in Reqs
        PROVE  httpPeers'[d][q] \in {httpPeers[d][q], Nobody}
    <3>1. CASE UNCHANGED httpPeers
      BY <3>1
    <3>2. CASE httpPeers' = [httpPeers EXCEPT ![b][r] = Nobody]
      <4>1. httpPeers \in [Boxes -> [Reqs -> Clients \cup {Nobody}]]
        OBVIOUS
      <4> HIDE DEF PeersOK, WorkersOK
      <4>. QED
        BY <3>2, <4>1
    <3>. QED
      BY <2>2, <3>1, <3>2
  <2>. QED
    BY <2>3
<1>6. ASSUME NEW w \in Workers, TaskCancel(w)
      PROVE  \/ UNCHANGED httpPeers
             \/ \A b \in Boxes, r \in Reqs : httpPeers'[b][r] \in {httpPeers[b][r], Nobody}
  BY <1>3, <1>6 DEF TaskCancel
<1>7. ASSUME NEW w \in Workers,
             \/ ReadRequest(w) \/ ReadThrow(w) \/ Sent(w) \/ Attach(w) \/ Attached(w)
             \/ WriteResult(w) \/ CloseResult(w) \/ CancelKey(w) \/ CloseFd(w)
             \/ Lock(w) \/ BoxIdle(w) \/ BoxThrow(w) \/ BoxBreak(w)
             \/ \E u \in Uids : Register(w, u)
      PROVE  UNCHANGED httpPeers
  BY <1>7 DEF ReadRequest, ReadThrow, Sent, Attach, Attached, WriteResult, CloseResult, CancelKey, CloseFd,
              Lock, BoxIdle, BoxThrow, BoxBreak, Register
<1>8. ASSUME \/ \E w \in Workers, p \in Peers : StartTask(w, p)
             \/ \E p \in Peers : Notice(p)
             \/ AdminStep
      PROVE  UNCHANGED httpPeers
  BY <1>8 DEF StartTask, Notice, AdminStep, Fire, SelectThrow, Dispatch
<1>9. ASSUME NEW c \in Clients, DestroyClient(c)
      PROVE  \A b \in Boxes, r \in Reqs : httpPeers'[b][r] \in {httpPeers[b][r], Nobody}
  BY <1>3, <1>9 DEF DestroyClient
<1>10. ASSUME NEW w \in Workers, Process(w) PROVE WaitOwn'
  BY <1>1, <1>2, <1>5, <1>6, <1>7, <1>10 DEF Process
<1>11. CASE UNCHANGED vars
  BY <1>2, <1>11 DEF vars
<1>. QED
  BY <1>2, <1>4, <1>8, <1>9, <1>10, <1>11 DEF Next

(* Only Send adds to what a box was sent, and that with its own uid.       *)
LEMMA SentOwnStep == TypeOK /\ SentOwn /\ [Next]_vars => SentOwn'
<1> SUFFICES ASSUME TypeOK, SentOwn, [Next]_vars PROVE SentOwn'
  OBVIOUS
<1>1. CASE \E w \in Workers : Send(w)
  <2>1. PICK w \in Workers : Send(w)
    BY <1>1
  <2> DEFINE c == self[w]
             more == sent[to[w]] \cup {<<ReqUid[c], c>>}
  <2>2. UNCHANGED sent \/ sent' = [sent EXCEPT ![to[w]] = more]
    BY <2>1 DEF Send
  <2>3. ASSUME NEW b \in Boxes, NEW r \in Reqs, NEW d \in Clients, <<r, d>> \in sent'[b]
        PROVE  ReqUid[d] = r
    <3>1. <<r, d>> \in sent[b] \/ <<r, d>> = <<ReqUid[c], c>>
      <4>1. sent \in [Boxes -> SUBSET (Reqs \X Clients)]
        BY DEF TypeOK, PeersOK
      <4>2. sent'[b] = sent[b] \/ (b = to[w] /\ sent'[b] = more)
        <5> HIDE DEF more
        <5>. QED
          BY <2>2, <4>1
      <4>. QED
        BY <2>3, <4>2
    <3>. QED
      BY <3>1 DEF SentOwn
  <2>. QED
    BY <2>3 DEF SentOwn
<1>2. CASE UNCHANGED sent
  BY <1>2 DEF SentOwn
<1>. QED
  BY <1>1, <1>2, SentKept

(* A task keeps to its client's answer from Respond to the end of its      *)
(* write, and forgets it when it ends.                                     *)
LEMMA WriteOwnStep == TypeOK /\ WaitOwn /\ SentOwn /\ WriteOwn /\ [Next]_vars /\ OwnUids => WriteOwn'
<1> SUFFICES ASSUME TypeOK, WaitOwn, SentOwn, WriteOwn, [Next]_vars, OwnUids PROVE WriteOwn'
  OBVIOUS
<1> USE ProxyAssumption DEF TypeOK, WorkersOK, Peers, selectorVars, boxVars, clientVars, workerVars,
        WriteOwn, Resulting, Goto
<1>1. ASSUME NEW w \in Workers, Return(w) PROVE WriteOwn'
  BY <1>1 DEF Return, Leave
<1>2. ASSUME NEW w \in Workers, NEW label \in Labels \ ({"idle"} \cup Resulting),
             Goto(w, label), UNCHANGED <<self, whose>>,
             pc[w] # "idle", \A v \in Workers : v # w => to'[v] = to[v]
      PROVE  WriteOwn'
  BY <1>2 DEF Labels
<1>3. ASSUME NEW w \in Workers, Throw(w) PROVE WriteOwn'
  BY <1>3 DEF Throw, Leave
<1>4. ASSUME NEW w \in Workers, NextTurn(w) PROVE WriteOwn'
  BY <1>4 DEF NextTurn, Leave
<1>5. ASSUME NEW w \in Workers, ReadRequest(w) PROVE WriteOwn'
  <2>1. PICK label \in {"write", "send"} : pc' = [pc EXCEPT ![w] = label]
    BY <1>5 DEF ReadRequest
  <2>2. PICK p \in {to'[w]} : to' = [to EXCEPT ![w] = p]
    BY <1>5 DEF ReadRequest
  <2>3. self[w] \in Clients /\ pc[w] = "read" /\ UNCHANGED <<self, whose>>
    BY <1>5 DEF ReadRequest, TasksOK
  <2>. QED
    BY <2>1, <2>2, <2>3
<1>6. ASSUME NEW w \in Workers, WriteResult(w) PROVE WriteOwn'
  <2>1. CASE Throw(w)
    BY <1>3, <1>6, <2>1 DEF WriteResult
  <2>2. CASE Goto(w, "close") /\ UNCHANGED <<lock, self, to, whose>>
    BY <1>6, <2>2 DEF WriteResult
  <2>. QED
    BY <1>6, <2>1, <2>2 DEF WriteResult
<1>7. ASSUME NEW w \in Workers, CloseResult(w) \/ CancelKey(w) \/ CloseFd(w) PROVE WriteOwn'
  <2>1. ASSUME NEW label \in {"unkey", "closeFd"}, Goto(w, label), UNCHANGED <<self, to, whose>>
        PROVE  WriteOwn'
    BY <1>7, <2>1 DEF CloseResult, CancelKey, CloseFd
  <2>. QED
    BY <1>1, <1>3, <1>4, <1>7, <2>1 DEF CloseResult, CancelKey, CloseFd, Resulted
<1>8. ASSUME NEW w \in Workers, NEW r \in Reqs, NEW c \in Clients, Respond(w, r, c) PROVE WriteOwn'
  <2> DEFINE client == WaitingFor(self[w], r)
  <2>1. self[w] \in Boxes /\ pc[w] = "loop" /\ <<r, c>> \in sent[self[w]]
    BY <1>8 DEF Respond, TasksOK
  <2>2. CASE ~Found(client)
    BY <1>4, <1>8, <2>1, <2>2 DEF Respond
  <2>3. CASE Found(client)
    <3>1. /\ to' = [to EXCEPT ![w] = client]
          /\ whose' = [whose EXCEPT ![w] = c]
          /\ pc' = [pc EXCEPT ![w] = "write"]
          /\ UNCHANGED self
      BY <1>8, <2>3 DEF Respond
    <3>2. client \in Clients /\ ReqUid[client] = r /\ ReqUid[c] = r
      BY <2>1, <2>3 DEF Found, WaitingFor, WaitOwn, SentOwn, PeersOK
    <3>3. client = c
      BY <3>2 DEF OwnUids
    <3>. QED
      BY <2>1, <3>1, <3>3
  <2>. QED
    BY <2>2, <2>3
<1>9. ASSUME NEW w \in Workers, Send(w) \/ Sent(w) \/ Attach(w) \/ Lock(w) PROVE WriteOwn'
  <2>1. PICK label \in Labels \ ({"idle"} \cup Resulting) : Goto(w, label)
    BY <1>9 DEF Send, Sent, Attach, Lock, Labels
  <2>2. pc[w] # "idle" /\ UNCHANGED <<self, to, whose>>
    BY <1>9 DEF Send, Sent, Attach, Lock
  <2>. QED
    BY <1>2, <2>1, <2>2
<1>10. ASSUME NEW w \in Workers, \/ ReadThrow(w) \/ Attached(w) \/ BoxIdle(w) \/ BoxThrow(w)
                                 \/ BoxBreak(w) \/ TaskCancel(w)
       PROVE  WriteOwn'
  BY <1>1, <1>3, <1>10 DEF ReadThrow, Attached, BoxIdle, BoxThrow, BoxBreak, TaskCancel
<1>11. ASSUME NEW w \in Workers, NEW u \in Uids, Register(w, u) PROVE WriteOwn'
  BY <1>3, <1>4, <1>11 DEF Register
<1>12. ASSUME NEW w \in Workers, NEW p \in Peers, StartTask(w, p) PROVE WriteOwn'
  BY <1>12 DEF StartTask, FirstStep
<1>13. ASSUME UNCHANGED workerVars PROVE WriteOwn'
  BY <1>13
<1>14. ASSUME \/ \E p \in Peers : Notice(p)
              \/ AdminStep
              \/ \E b \in Boxes : DestroyBox(b)
              \/ \E c \in Clients : DestroyClient(c)
              \/ UNCHANGED vars
       PROVE  UNCHANGED workerVars
  BY <1>14 DEF Notice, AdminStep, Fire, SelectThrow, Dispatch, DestroyBox, DestroyClient, vars
<1>15. ASSUME NEW w \in Workers, Process(w) PROVE WriteOwn'
  BY <1>5, <1>6, <1>7, <1>8, <1>9, <1>10, <1>11, <1>15 DEF Process
<1> HIDE DEF WriteOwn, TypeOK
<1>. QED
  BY <1>12, <1>13, <1>14, <1>15 DEF Next

(* What is written to a client is what the task that writes it carries.    *)
LEMMA AnswerOwnStep == TypeOK /\ WriteOwn /\ AnswerOwn /\ [Next]_vars => AnswerOwn'
<1> SUFFICES ASSUME TypeOK, WriteOwn, AnswerOwn, [Next]_vars PROVE AnswerOwn'
  OBVIOUS
<1>1. CASE UNCHANGED answers
  BY <1>1 DEF AnswerOwn
<1>2. CASE \E w \in Workers : WriteResult(w)
  <2>1. PICK w \in Workers : WriteResult(w)
    BY <1>2
  <2> DEFINE c == to[w]
             more == Append(answers[c], whose[w])
  <2>2. c \in Clients /\ whose[w] \in {c, Nobody}
    BY <2>1 DEF WriteResult, WriteOwn, TypeOK, TasksOK, Resulting
  <2>3. answers \in [Clients -> Seq(Clients \cup {Nobody})]
    BY DEF TypeOK, PeersOK
  <2>4. \A i \in DOMAIN more : more[i] \in {c, Nobody}
    BY <2>2, <2>3 DEF AnswerOwn
  <2>5. CASE answers' = [answers EXCEPT ![c] = more]
    <3> HIDE DEF more, c
    <3>. QED
      BY <2>2, <2>3, <2>4, <2>5 DEF AnswerOwn
  <2>. QED
    BY <1>1, <2>1, <2>5 DEF WriteResult
<1>3. ASSUME NEW w \in Workers,
             \/ ReadRequest(w) \/ ReadThrow(w) \/ Send(w) \/ Sent(w) \/ Attach(w) \/ Attached(w)
             \/ CloseResult(w) \/ CancelKey(w) \/ CloseFd(w)
             \/ Lock(w) \/ BoxIdle(w) \/ BoxThrow(w) \/ BoxBreak(w)
             \/ \E u \in Uids : Register(w, u)
             \/ \E r \in Reqs, c \in Clients : Respond(w, r, c)
             \/ TaskCancel(w)
      PROVE  UNCHANGED answers
  BY <1>3 DEF ReadRequest, ReadThrow, Send, Sent, Attach, Attached, CloseResult, CancelKey, CloseFd,
              Lock, BoxIdle, BoxThrow, BoxBreak, Register, Respond, TaskCancel
<1>4. ASSUME \/ \E w \in Workers, p \in Peers : StartTask(w, p)
             \/ \E p \in Peers : Notice(p)
             \/ AdminStep
             \/ \E b \in Boxes : DestroyBox(b)
             \/ \E c \in Clients : DestroyClient(c)
             \/ UNCHANGED vars
      PROVE  UNCHANGED answers
  BY <1>4 DEF StartTask, Notice, AdminStep, Fire, SelectThrow, Dispatch, DestroyBox, DestroyClient, vars
<1>. QED
  BY <1>1, <1>2, <1>3, <1>4 DEF Next, Process

(* Whatever the other ends do, a client gets the answer to its own         *)
(* request, or the proxy's own: the client a box answers is found under    *)
(* the uid of the request, which only this client waits under, whichever   *)
(* task writes the answer and however often the box answers.               *)
THEOREM OwnAnswers == ASSUME OwnUids PROVE Spec => []AnswerOwn
<1> DEFINE IInv == TypeOK /\ WaitOwn /\ SentOwn /\ WriteOwn /\ AnswerOwn
<1>1. Init => IInv
  <2> SUFFICES ASSUME Init PROVE IInv
    OBVIOUS
  <2>1. WaitOwn /\ SentOwn /\ WriteOwn /\ AnswerOwn
    BY DEF Init, WaitOwn, SentOwn, WriteOwn, AnswerOwn
  <2>. QED
    BY <2>1, TypeInit
<1>2. IInv /\ [Next]_vars => IInv'
  BY TypeStep, WaitOwnStep, SentOwnStep, WriteOwnStep, AnswerOwnStep
<1>. QED
  BY <1>1, <1>2, PTL DEF Spec

-----------------------------------------------------------------------------

(* The other ends behave: boxes stay and send what is expected, clients    *)
(* stay, send one request each, with a uid of its own, and say nothing     *)
(* more before it has been forwarded; what they say afterwards is free.    *)
(* Then every client is answered at most once and not forgotten before,    *)
(* whatever closing the clients' sockets does to Admin and to the boxes.   *)

Polite == Unruly \subseteq {"client goes on"}

Waits(c) == \E b \in Boxes : httpPeers[b][ReqUid[c]] = c
Writes(w, c) == pc[w] \in Resulting /\ to[w] = c
BoxWrites(w, c) == Writes(w, c) /\ self[w] \in Boxes

(* A client is attached again only when its request has been sent to its   *)
(* box.                                                                    *)
TasksRun ==
    \A w \in Workers :
        /\ pc[w] = "idle" <=> self[w] = Nobody
        /\ pc[w] = "send" => to[w] = stdPeer[self[w]]
        /\ pc[w] \in {"sent", "attach", "attached"} => Asked(self[w])

(* A client waits in, and was sent to, the one box it refers to.           *)
Linked ==
    \A b \in Boxes, c \in Clients :
        <<ReqUid[c], c>> \in sent[b] \/ httpPeers[b][ReqUid[c]] = c => stdPeer[c] = b

(* Before its request is sent a client has one registration, one event or  *)
(* one task, has been written nothing, and nobody else is about to; it may *)
(* wait already, if its box could not be written to.                       *)
Fresh(c) ==
    ~Asked(c) =>
        /\ ~processDone[c] /\ reqUid[c] = NoUid
        /\ ~(c \in armed /\ c \in queued)
        /\ event = c => c \notin queued /\ (admin = "dispatch" => c \notin armed)
        /\ \A w \in Workers : self[w] = c =>
              /\ c \notin armed \cup queued /\ event # c
              /\ \A v \in Workers : self[v] = c => v = w
        /\ c \in armed \cup queued \/ event = c => answers[c] = <<>> /\ Usable(c) /\ ~Waits(c)
        /\ \A w \in Workers : self[w] = c /\ pc[w] \in {"read", "send"} =>
              answers[c] = <<>> /\ Usable(c) /\ ~Waits(c)
        /\ \A w \in Workers : ~BoxWrites(w, c)

(* Afterwards its own tasks do nothing but attach it again, and it waits   *)
(* in its box until a task of that box takes it out to answer it.          *)
Past(c) ==
    Asked(c) =>
        /\ stdPeer[c] # Nobody
        /\ c \in queued \/ event = c => processDone[c]
        /\ \A w \in Workers : self[w] = c => pc[w] \in {"sent", "attach", "attached", "cancel"}
        /\ \A w \in Workers : self[w] = c /\ pc[w] = "cancel" => ~Usable(c)
        /\ answers[c] = <<>> =>
              Usable(c) /\ (Waits(c) \/ \E w \in Workers : BoxWrites(w, c) /\ pc[w] = "write")

(* One task answers a client, of those that could, and while it does the   *)
(* client's descriptor stays open.                                         *)
Answering(c) ==
    /\ reqUid[c] \in {NoUid, ReqUid[c]}
    /\ Waits(c) => answers[c] = <<>> /\ \A w \in Workers : ~Writes(w, c)
    /\ \A w \in Workers : Writes(w, c) =>
          /\ Usable(c)
          /\ answers[c] = <<>> <=> pc[w] = "write"
          /\ \A v \in Workers : Writes(v, c) => v = w
    /\ Len(answers[c]) <= 1

ClientRuns(c) == Fresh(c) /\ Past(c) /\ Answering(c)

Runs == TasksRun /\ Linked /\ \A c \in Clients : ClientRuns(c)

PoliteInv == TypeOK /\ WaitOwn /\ SentOwn /\ Runs

(* What is ruled out when the other ends behave.                           *)
LEMMA Politeness ==
  ASSUME Polite
  PROVE  /\ \A p \in Peers : ~Leaves(p)
         /\ ~May("box errs") /\ ~May("client pipelines")
BY DEF Polite, Leaves, May

(* Who was asked for and who waits is read off sent and httpPeers alone.   *)
LEMMA SameAsked ==
  ASSUME UNCHANGED sent PROVE \A c : Asked(c)' <=> Asked(c)
BY DEF Asked

LEMMA SameWaits ==
  ASSUME UNCHANGED httpPeers PROVE \A c : Waits(c)' <=> Waits(c)
BY DEF Waits

-----------------------------------------------------------------------------
(* The steps of a client's task *)

LEMMA ReadRequestRuns ==
  ASSUME PoliteInv, NEW w \in Workers, ReadRequest(w)
  PROVE  Runs'
<1> DEFINE me == self[w]
<1> USE ProxyAssumption DEF Resulting, PoliteInv, Runs, TypeOK, PeersOK, WorkersOK, Peers, selectorVars, boxVars, Goto
<1>1. me \in Clients /\ pc[w] = "read"
  BY DEF ReadRequest, TasksOK
<1>2. /\ UNCHANGED <<armed, queued, fd, socket, admin, event, sent, httpPeers, reqUid, processDone, answers, self>>
      /\ \A c \in Clients \ {me} : stdPeer'[c] = stdPeer[c]
  BY DEF ReadRequest
<1>3. PICK label \in {"write", "send"}, p \in Peers :
         /\ pc' = [pc EXCEPT ![w] = label] /\ to' = [to EXCEPT ![w] = p]
         /\ label = "write" => p = me
         /\ label = "send" => p = stdPeer'[me]
  BY <1>1 DEF ReadRequest
<1>4. /\ \A c : Asked(c)' <=> Asked(c)
      /\ \A c : Waits(c)' <=> Waits(c)
  BY <1>2, SameAsked, SameWaits
<1>5. /\ ~Asked(me) /\ ~Waits(me) /\ Usable(me) /\ answers[me] = <<>>
      /\ \A v \in Workers : self[v] = me => v = w
  <2>1. ~Asked(me)
    BY <1>1 DEF ClientRuns, Past
  <2>2. Fresh(me)
    BY <1>1 DEF ClientRuns
  <2>. QED
    BY <1>1, <2>1, <2>2 DEF Fresh
<1>7. TasksRun'
  BY <1>1, <1>2, <1>3, <1>4, <1>5 DEF TasksRun, TasksOK
<1>8. Linked'
  <2>1. ASSUME NEW b \in Boxes, NEW c \in Clients,
               <<ReqUid[c], c>> \in sent[b] \/ httpPeers[b][ReqUid[c]] = c
        PROVE  stdPeer'[c] = b
    <3>1. c # me
      BY <1>5, <2>1 DEF Asked, Waits
    <3>. QED
      BY <1>2, <2>1, <3>1 DEF Linked
  <2>. QED
    BY <1>2, <2>1 DEF Linked
<1>9. ASSUME NEW c \in Clients PROVE ClientRuns(c)'
  <2>1. Fresh(c)'
    BY <1>1, <1>2, <1>3, <1>4, <1>5 DEF ClientRuns, Fresh, BoxWrites, Writes, Usable
  <2>2. Past(c)'
    BY <1>1, <1>2, <1>3, <1>4, <1>5 DEF ClientRuns, Past, BoxWrites, Writes, Usable
  <2>3. Answering(c)'
    BY <1>1, <1>2, <1>3, <1>4, <1>5 DEF ClientRuns, Fresh, Answering, BoxWrites, Writes, Usable, TasksOK
  <2>. QED
    BY <2>1, <2>2, <2>3 DEF ClientRuns
<1>. QED
  BY <1>7, <1>8, <1>9

LEMMA SendRuns ==
  ASSUME Polite, OwnUids, PoliteInv, NEW w \in Workers, Send(w)
  PROVE  Runs'
<1> DEFINE me == self[w]
           b == to[w]
           r == ReqUid[me]
<1> USE ProxyAssumption DEF Resulting, PoliteInv, Runs, TypeOK, PeersOK, WorkersOK, Peers, selectorVars, clientVars, Goto
<1>1. me \in Clients /\ b \in Boxes /\ r \in Reqs /\ pc[w] = "send" /\ b = stdPeer[me]
  BY DEF Send, TasksOK, TasksRun
<1>2. /\ UNCHANGED <<armed, queued, fd, socket, admin, event, stdPeer, reqUid, processDone, answers, self, to>>
      /\ httpPeers' = [httpPeers EXCEPT ![b][r] = me]
      /\ \/ sent' = [sent EXCEPT ![b] = @ \cup {<<r, me>>}] /\ pc' = [pc EXCEPT ![w] = "sent"]
         \/ UNCHANGED sent /\ pc' = [pc EXCEPT ![w] = "cancel"]
  BY <1>1 DEF Send, Waiting
<1>3. /\ ~Asked(me) /\ ~Waits(me) /\ Usable(me) /\ answers[me] = <<>> /\ me \notin armed \cup queued /\ event # me
      /\ \A v \in Workers : self[v] = me => v = w
      /\ \A v \in Workers : ~Writes(v, me)
  <2>1. ~Asked(me) /\ Fresh(me)
    BY <1>1 DEF ClientRuns, Past
  <2>2. /\ ~Waits(me) /\ Usable(me) /\ answers[me] = <<>> /\ me \notin armed \cup queued /\ event # me
        /\ \A v \in Workers : self[v] = me => v = w
        /\ \A v \in Workers : ~BoxWrites(v, me)
    BY <1>1, <2>1 DEF Fresh
  <2>3. \A v \in Workers : ~Writes(v, me)
    BY <1>1, <2>2 DEF BoxWrites, Writes, TasksOK
  <2>. QED
    BY <2>1, <2>2, <2>3
<1>4. httpPeers[b][r] = Nobody
  <2>1. CASE httpPeers[b][r] \in Clients
    <3>1. ReqUid[httpPeers[b][r]] = r
      BY <1>1, <2>1 DEF WaitOwn
    <3>2. httpPeers[b][r] = me
      BY <1>1, <2>1, <3>1 DEF OwnUids
    <3>. QED
      BY <1>1, <1>3, <3>2 DEF Waits
  <2>. QED
    BY <1>1, <2>1
<1>5. \A d \in Boxes, q \in Reqs, c \in Clients : httpPeers'[d][q] = c <=>
         httpPeers[d][q] = c \/ (d = b /\ q = r /\ c = me)
  BY <1>1, <1>2, <1>4
<1>6. \A c \in Clients : ReqUid[c] \in Reqs /\ (Waits(c)' <=> Waits(c) \/ c = me)
  BY <1>1, <1>5 DEF Waits
<1>7. CASE sent' = [sent EXCEPT ![b] = @ \cup {<<r, me>>}] /\ pc' = [pc EXCEPT ![w] = "sent"]
  <2>1. \A d \in Boxes, q \in Reqs, c \in Clients : <<q, c>> \in sent'[d] <=>
           <<q, c>> \in sent[d] \/ (d = b /\ q = r /\ c = me)
    BY <1>1, <1>7
  <2>2. \A c \in Clients : Asked(c)' <=> Asked(c) \/ c = me
    BY <1>1, <1>6, <2>1 DEF Asked
  <2>3. TasksRun'
    BY <1>1, <1>2, <1>7, <2>2 DEF TasksRun, TasksOK
  <2>4. Linked'
    BY <1>1, <1>2, <1>5, <1>6, <2>1 DEF Linked
  <2>5. ASSUME NEW c \in Clients PROVE ClientRuns(c)'
    <3>1. Fresh(c)'
      BY <1>1, <1>2, <1>6, <1>7, <2>2 DEF ClientRuns, Fresh, BoxWrites, Writes, Usable
    <3>2. Past(c)'
      BY <1>1, <1>2, <1>3, <1>6, <1>7, <2>2 DEF ClientRuns, Past, BoxWrites, Writes, Usable
    <3>3. Answering(c)'
      BY <1>1, <1>2, <1>3, <1>6, <1>7, <2>2 DEF ClientRuns, Answering, BoxWrites, Writes, Usable
    <3>. QED
      BY <3>1, <3>2, <3>3 DEF ClientRuns
  <2>. QED
    BY <2>3, <2>4, <2>5
<1>8. CASE UNCHANGED sent /\ pc' = [pc EXCEPT ![w] = "cancel"]
  <2>1. \A c : Asked(c)' <=> Asked(c)
    BY <1>8, SameAsked
  <2>2. TasksRun'
    BY <1>1, <1>2, <1>8, <2>1 DEF TasksRun, TasksOK
  <2>3. Linked'
    BY <1>1, <1>2, <1>5, <1>6, <1>8 DEF Linked
  <2>4. ASSUME NEW c \in Clients PROVE ClientRuns(c)'
    <3>1. Fresh(c)'
      BY <1>1, <1>2, <1>3, <1>6, <1>8, <2>1 DEF ClientRuns, Fresh, BoxWrites, Writes, Usable
    <3>2. Past(c)'
      BY <1>1, <1>2, <1>3, <1>6, <1>8, <2>1 DEF ClientRuns, Past, BoxWrites, Writes, Usable
    <3>3. Answering(c)'
      BY <1>1, <1>2, <1>3, <1>6, <1>8, <2>1 DEF ClientRuns, Answering, BoxWrites, Writes, Usable
    <3>. QED
      BY <3>1, <3>2, <3>3 DEF ClientRuns
  <2>. QED
    BY <2>2, <2>3, <2>4
<1>. QED
  BY <1>2, <1>7, <1>8

LEMMA SentRuns ==
  ASSUME PoliteInv, NEW w \in Workers, Sent(w)
  PROVE  Runs'
<1> USE ProxyAssumption DEF Resulting, PoliteInv, Runs, TypeOK, PeersOK, WorkersOK, Peers, selectorVars, boxVars, Goto
<1>1. self[w] \in Clients /\ pc[w] = "sent"
  BY DEF Sent, TasksOK
<1>2. /\ UNCHANGED <<armed, queued, fd, socket, admin, event, sent, httpPeers, stdPeer, processDone, answers, self, to>>
      /\ reqUid' = [reqUid EXCEPT ![self[w]] = ReqUid[self[w]]]
      /\ pc' = [pc EXCEPT ![w] = "attach"]
  BY DEF Sent
<1>3. /\ \A c : Asked(c)' <=> Asked(c)
      /\ \A c : Waits(c)' <=> Waits(c)
  BY <1>2, SameAsked, SameWaits
<1>4. Linked'
  BY <1>2 DEF Linked
<1>5. TasksRun'
  BY <1>1, <1>2, <1>3 DEF TasksRun
<1>6. ASSUME NEW c \in Clients PROVE ClientRuns(c)'
  <2>1. Fresh(c)'
    <3>1. ASSUME ~Asked(c)
          PROVE  c # self[w] /\ reqUid'[c] = reqUid[c] /\ \A v \in Workers : self[v] = c => pc'[v] = pc[v]
      BY <1>1, <1>2, <3>1 DEF TasksRun
    <3>2. \A v \in Workers : BoxWrites(v, c)' => BoxWrites(v, c)
      BY <1>1, <1>2 DEF BoxWrites, Writes
    <3>. QED
      BY <1>2, <1>3, <3>1, <3>2 DEF ClientRuns, Fresh, Usable
  <2>2. Past(c)'
    BY <1>1, <1>2, <1>3 DEF ClientRuns, Past, BoxWrites, Writes, Usable
  <2>3. Answering(c)'
    BY <1>1, <1>2, <1>3 DEF ClientRuns, Answering, BoxWrites, Writes, Usable
  <2>. QED
    BY <2>1, <2>2, <2>3 DEF ClientRuns
<1>. QED
  BY <1>4, <1>5, <1>6

(* A client that cannot be attached again has been answered and closed.    *)
LEMMA AttachRuns ==
  ASSUME PoliteInv, NEW w \in Workers, Attach(w)
  PROVE  Runs'
<1> USE ProxyAssumption DEF Resulting, PoliteInv, Runs, TypeOK, PeersOK, WorkersOK, Peers, boxVars, clientVars, Goto
<1>1. self[w] \in Clients /\ pc[w] = "attach" /\ Asked(self[w])
  BY DEF Attach, TasksOK, TasksRun
<1>2. /\ UNCHANGED <<queued, fd, socket, admin, event, sent, httpPeers, clientVars, answers, self, to>>
      /\ \/ Usable(self[w]) /\ armed' = armed \cup {self[w]} /\ pc' = [pc EXCEPT ![w] = "attached"]
         \/ ~Usable(self[w]) /\ armed' = armed /\ pc' = [pc EXCEPT ![w] = "cancel"]
  BY DEF Attach
<1>3. /\ \A c : Asked(c)' <=> Asked(c)
      /\ \A c : Waits(c)' <=> Waits(c)
  BY <1>2, SameAsked, SameWaits
<1>4. Linked'
  BY <1>2 DEF Linked
<1>5. TasksRun'
  BY <1>1, <1>2, <1>3 DEF TasksRun
<1>6. ASSUME NEW c \in Clients PROVE ClientRuns(c)'
  <2>1. Fresh(c)'
    <3>1. ASSUME ~Asked(c)
          PROVE  /\ c # self[w] /\ (c \in armed' <=> c \in armed)
                 /\ \A v \in Workers : self[v] = c => pc'[v] = pc[v]
      BY <1>1, <1>2, <3>1
    <3>2. \A v \in Workers : BoxWrites(v, c)' => BoxWrites(v, c)
      BY <1>1, <1>2 DEF BoxWrites, Writes
    <3>. QED
      BY <1>2, <1>3, <3>1, <3>2 DEF ClientRuns, Fresh, Usable
  <2>2. Past(c)'
    <3>1. ASSUME NEW v \in Workers, BoxWrites(v, c), pc[v] = "write"
          PROVE  BoxWrites(v, c)' /\ pc'[v] = "write"
      BY <1>1, <1>2, <3>1 DEF BoxWrites, Writes
    <3>2. ASSUME NEW v \in Workers, Past(c), Asked(c), self[v] = c
          PROVE  /\ pc'[v] \in {"sent", "attach", "attached", "cancel"}
                 /\ pc'[v] = "cancel" => ~Usable(c)
      BY <1>1, <1>2, <3>2 DEF Past
    <3>3. Past(c) /\ (Usable(c)' <=> Usable(c))
      BY <1>2 DEF ClientRuns, Usable
    <3>. QED
      BY <1>2, <1>3, <3>1, <3>2, <3>3 DEF Past
  <2>3. Answering(c)'
    BY <1>1, <1>2, <1>3 DEF ClientRuns, Answering, BoxWrites, Writes, Usable
  <2>. QED
    BY <2>1, <2>2, <2>3 DEF ClientRuns
<1>. QED
  BY <1>4, <1>5, <1>6

LEMMA AttachedRuns ==
  ASSUME PoliteInv, NEW w \in Workers, Attached(w)
  PROVE  Runs'
<1> USE ProxyAssumption DEF Resulting, PoliteInv, Runs, TypeOK, PeersOK, WorkersOK, Peers, selectorVars, boxVars, Goto
<1>1. self[w] \in Clients /\ pc[w] = "attached" /\ Asked(self[w])
  BY DEF Attached, TasksOK, TasksRun
<1>2. /\ UNCHANGED <<armed, queued, fd, socket, admin, event, sent, httpPeers, stdPeer, reqUid, answers>>
      /\ processDone' = [processDone EXCEPT ![self[w]] = TRUE]
      /\ pc' = [pc EXCEPT ![w] = "idle"]
      /\ self' = [self EXCEPT ![w] = Nobody] /\ to' = [to EXCEPT ![w] = Nobody]
  BY DEF Attached, Return, Leave
<1>3. /\ \A c : Asked(c)' <=> Asked(c)
      /\ \A c : Waits(c)' <=> Waits(c)
  BY <1>2, SameAsked, SameWaits
<1>4. Linked'
  BY <1>1, <1>2 DEF Linked
<1>5. TasksRun'
  BY <1>1, <1>2, <1>3 DEF TasksRun
<1>6. ASSUME NEW c \in Clients PROVE ClientRuns(c)'
  <2>1. Fresh(c)'
    BY <1>1, <1>2, <1>3 DEF ClientRuns, Fresh, BoxWrites, Writes, Usable
  <2>2. Past(c)'
    BY <1>1, <1>2, <1>3 DEF ClientRuns, Past, BoxWrites, Writes, Usable
  <2>3. Answering(c)'
    BY <1>1, <1>2, <1>3 DEF ClientRuns, Answering, BoxWrites, Writes, Usable
  <2>. QED
    BY <2>1, <2>2, <2>3 DEF ClientRuns
<1>. QED
  BY <1>4, <1>5, <1>6

-----------------------------------------------------------------------------
(* The steps of a box's task *)

(* A step that concerns no client: a box's task locks its mutex, ends a    *)
(* turn, fails, is cancelled or attaches the box again.                    *)
LEMMA AsideRuns ==
  ASSUME PoliteInv, WorkersOK',
         UNCHANGED <<queued, admin, event, sent, httpPeers, clientVars, answers>>,
         \A c \in Clients : /\ socket'[c] = socket[c] /\ fd'[c] = fd[c]
                            /\ c \in armed' <=> c \in armed,
         \A v \in Workers :
            \/ pc'[v] = pc[v] /\ self'[v] = self[v] /\ to'[v] = to[v]
            \/ /\ self[v] \in Boxes /\ pc[v] \in {"lock", "loop", "cancel"}
               /\ \/ pc'[v] \in {"lock", "loop", "cancel"} /\ self'[v] = self[v]
                  \/ pc'[v] = "idle" /\ self'[v] = Nobody
  PROVE  Runs'
<1> USE ProxyAssumption DEF Resulting, PoliteInv, Runs, TypeOK, PeersOK, WorkersOK, Peers, clientVars
<1>1. /\ \A c : Asked(c)' <=> Asked(c)
      /\ \A c : Waits(c)' <=> Waits(c)
  BY SameAsked, SameWaits
<1>2. ASSUME NEW c \in Clients, NEW v \in Workers
      PROVE  /\ Writes(v, c)' <=> Writes(v, c)
             /\ BoxWrites(v, c)' <=> BoxWrites(v, c)
             /\ Writes(v, c) => pc'[v] = pc[v]
             /\ self'[v] = c <=> self[v] = c
             /\ self[v] = c => pc'[v] = pc[v]
  <2>1. CASE pc'[v] = pc[v] /\ self'[v] = self[v] /\ to'[v] = to[v]
    BY <2>1 DEF Writes, BoxWrites
  <2>2. CASE /\ self[v] \in Boxes /\ pc[v] \in {"lock", "loop", "cancel"}
             /\ pc'[v] \in {"lock", "loop", "cancel", "idle"} /\ self'[v] \in {self[v], Nobody}
    BY <2>2 DEF Writes, BoxWrites
  <2>. QED
    BY <2>1, <2>2
<1>3. \A c \in Clients : Usable(c)' <=> Usable(c)
  BY DEF Usable
<1>4. Linked'
  BY DEF Linked
<1>5. TasksRun'
  BY <1>1 DEF TasksRun, TasksOK
<1>6. ASSUME NEW c \in Clients PROVE ClientRuns(c)'
  <2>1. Fresh(c)'
    BY <1>1, <1>2, <1>3 DEF ClientRuns, Fresh
  <2>2. Past(c)'
    BY <1>1, <1>2, <1>3 DEF ClientRuns, Past, BoxWrites
  <2>3. Answering(c)'
    BY <1>1, <1>2, <1>3 DEF ClientRuns, Answering
  <2>. QED
    BY <2>1, <2>2, <2>3 DEF ClientRuns
<1>. QED
  BY <1>4, <1>5, <1>6

(* Who waits under the uid of the response is taken out of the list and    *)
(* from then on is this task's to answer.                                  *)
LEMMA RespondRuns ==
  ASSUME OwnUids, PoliteInv, WorkersOK', NEW w \in Workers, NEW r \in Reqs, NEW d \in Clients, Respond(w, r, d)
  PROVE  Runs'
<1>. PICK b, client : b = self[w] /\ client = httpPeers[b][r]
  OBVIOUS
<1> USE ProxyAssumption DEF Resulting, PoliteInv, Runs, TypeOK, PeersOK, WorkersOK, Peers, selectorVars, clientVars, Goto
<1>a. b \in Boxes /\ pc[w] = "loop"
  BY DEF Respond, TasksOK
<1>b. CASE client = Nobody
  <2>1. NextTurn(w) /\ UNCHANGED httpPeers
    BY <1>b DEF Respond, WaitingFor, Found
  <2>2. UNCHANGED <<armed, queued, fd, admin, event, socket, sent, clientVars, answers>>
    BY DEF Respond
  <2>3. \A v \in Workers :
            \/ pc'[v] = pc[v] /\ self'[v] = self[v] /\ to'[v] = to[v]
            \/ v = w /\ pc'[v] = "lock" /\ self'[v] = self[v]
    BY <2>1 DEF NextTurn, Leave
  <2> HIDE DEF PoliteInv, Runs, WorkersOK
  <2>. QED
    BY <1>a, <2>1, <2>2, <2>3, AsideRuns
<1>c. CASE client # Nobody
  <2>1. client \in Clients /\ ReqUid[client] = r
    BY <1>a, <1>c DEF WaitOwn
  <2>2. /\ UNCHANGED <<armed, queued, fd, socket, admin, event, sent, stdPeer, reqUid, processDone, answers, self>>
        /\ httpPeers' = [httpPeers EXCEPT ![b][r] = Nobody]
        /\ to' = [to EXCEPT ![w] = client]
        /\ pc' = [pc EXCEPT ![w] = "write"]
    BY <1>c DEF Respond, WaitingFor, Found, Forgotten
  <2>3. Waits(client) /\ stdPeer[client] = b
    BY <1>a, <2>1 DEF Waits, Linked
  <2>4. /\ Asked(client) /\ Usable(client) /\ answers[client] = <<>>
        /\ \A v \in Workers : ~Writes(v, client)
    <3>1. <<r, d>> \in sent[b] /\ ReqUid[d] = r
      BY <1>a DEF Respond, SentOwn
    <3>2. d = client
      BY <2>1, <3>1 DEF OwnUids
    <3>. QED
      BY <1>a, <2>1, <2>3, <3>1, <3>2 DEF ClientRuns, Past, Answering, Asked
  <2>5. \A e \in Boxes, q \in Reqs, c \in Clients :
           httpPeers'[e][q] = c <=> httpPeers[e][q] = c /\ ~(e = b /\ q = r)
    BY <1>a, <2>2
  <2>6. \A c : Asked(c)' <=> Asked(c)
    BY <2>2, SameAsked
  <2>7. \A c \in Clients : Waits(c)' <=> Waits(c) /\ c # client
    <3>1. ASSUME NEW c \in Clients, c # client PROVE Waits(c)' <=> Waits(c)
      <4>1. ReqUid[c] \in Reqs /\ \A e \in Boxes : httpPeers'[e][ReqUid[c]] = c <=> httpPeers[e][ReqUid[c]] = c
        BY <1>a, <2>5, <3>1
      <4>. QED
        BY <4>1 DEF Waits
    <3>2. ~Waits(client)'
      <4>1. ASSUME NEW e \in Boxes, httpPeers'[e][r] = client PROVE FALSE
        <5>1. httpPeers[e][ReqUid[client]] = client /\ e # b
          BY <2>1, <2>5, <4>1
        <5>2. stdPeer[client] = e
          BY <2>1, <5>1 DEF Linked
        <5>. QED
          BY <2>3, <5>1, <5>2
      <4>. QED
        BY <2>1, <4>1 DEF Waits
    <3>. QED
      BY <3>1, <3>2
  <2>9. TasksRun'
    BY <1>a, <2>2, <2>6 DEF TasksRun
  <2>10. Linked'
    BY <2>2, <2>5 DEF Linked
  <2>11. ASSUME NEW c \in Clients PROVE ClientRuns(c)'
    <3>1. Fresh(c)'
      BY <1>a, <2>2, <2>4, <2>6, <2>7 DEF ClientRuns, Fresh, BoxWrites, Writes, Usable
    <3>2. \A v \in Workers : Writes(v, c)' <=> Writes(v, c) \/ (v = w /\ c = client)
      BY <1>a, <2>1, <2>2 DEF Writes
    <3>3. /\ \A v \in Workers : BoxWrites(v, c) => v # w /\ BoxWrites(v, c)'
          /\ BoxWrites(w, client)'
      <4>1. ASSUME NEW v \in Workers, BoxWrites(v, c) PROVE v # w /\ BoxWrites(v, c)'
        BY <1>a, <2>2, <4>1 DEF Writes, BoxWrites
      <4>2. BoxWrites(w, client)'
        BY <1>a, <2>1, <2>2 DEF Writes, BoxWrites
      <4>. QED
        BY <4>1, <4>2
    <3>4. Past(c) /\ Answering(c) /\ (Usable(c)' <=> Usable(c))
      BY <2>2 DEF ClientRuns, Usable
    <3>5. Past(c)'
      BY <1>a, <2>2, <2>3, <2>4, <2>6, <2>7, <3>3, <3>4 DEF Past
    <3>6. Answering(c)'
      <4>1. CASE c = client
        BY <1>a, <2>2, <2>4, <2>7, <3>2, <3>4, <4>1 DEF Answering
      <4>2. CASE c # client
        <5>1. \A v \in Workers : Writes(v, c) => v # w /\ pc'[v] = pc[v]
          BY <1>a, <2>2 DEF Writes
        <5>. QED
          BY <2>2, <2>7, <3>2, <3>4, <4>2, <5>1 DEF Answering
      <4>. QED
        BY <4>1, <4>2
    <3>. QED
      BY <3>1, <3>5, <3>6 DEF ClientRuns
  <2>. QED
    BY <2>9, <2>10, <2>11
<1>. QED
  BY <1>b, <1>c

-----------------------------------------------------------------------------
(* HttpPeer::sendResult *)

LEMMA WriteResultRuns ==
  ASSUME Polite, PoliteInv, NEW w \in Workers, WriteResult(w)
  PROVE  Runs'
<1>. PICK d : d = to[w]
  OBVIOUS
<1> USE ProxyAssumption DEF Resulting, PoliteInv, Runs, TypeOK, PeersOK, WorkersOK, Peers, selectorVars, boxVars,
        clientVars, Goto
<1>1. /\ d \in Clients /\ pc[w] = "write" /\ self[w] \in Boxes \cup {d}
      /\ Writes(w, d) /\ Usable(d) /\ answers[d] = <<>>
  <2>1. d \in Clients /\ pc[w] = "write" /\ self[w] \in Boxes \cup {d}
    BY DEF WriteResult, TasksOK
  <2>. QED
    BY <2>1 DEF Writes, ClientRuns, Answering
<1>2. UNCHANGED <<armed, queued, fd, socket, admin, event, sent, httpPeers, stdPeer, reqUid, processDone, self>>
  BY DEF WriteResult, Throw, Leave
<1>3. /\ \A c : Asked(c)' <=> Asked(c)
      /\ \A c : Waits(c)' <=> Waits(c)
  BY <1>2, SameAsked, SameWaits
<1>4. Linked'
  BY <1>2 DEF Linked
<1>5. /\ ~Waits(d)
      /\ \A v \in Workers : Writes(v, d) => v = w
  BY <1>1 DEF ClientRuns, Answering
<1>6. CASE /\ pc' = [pc EXCEPT ![w] = "close"] /\ UNCHANGED to
           /\ answers' = [answers EXCEPT ![d] = Append(@, whose[w])]
  <2>1. /\ answers'[d] # <<>> /\ Len(answers'[d]) <= 1
        /\ \A c \in Clients \ {d} : answers'[c] = answers[c]
    BY <1>1, <1>6
  <2>2. TasksRun'
    BY <1>1, <1>2, <1>3, <1>6 DEF TasksRun
  <2>3. ASSUME NEW c \in Clients PROVE ClientRuns(c)'
    <3>1. \A v \in Workers : (Writes(v, c)' <=> Writes(v, c)) /\ (BoxWrites(v, c)' <=> BoxWrites(v, c))
      BY <1>1, <1>2, <1>6 DEF Writes, BoxWrites
    <3>2. Usable(c)' <=> Usable(c)
      BY <1>2 DEF Usable
    <3>3. CASE c = d
      <4>1. Fresh(c)'
        BY <1>1, <1>2, <1>3, <1>6, <3>1, <3>2, <3>3 DEF ClientRuns, Fresh, BoxWrites
      <4>2. Past(c)'
        <5>1. Asked(d) => self[w] # d
          BY <1>1 DEF ClientRuns, Past
        <5>2. Asked(d) => \A v \in Workers : self[v] = d => pc'[v] = pc[v]
          BY <1>6, <5>1
        <5>3. Past(d) /\ d # Nobody
          BY <1>1 DEF ClientRuns
        <5>. QED
          BY <1>2, <1>3, <2>1, <3>2, <3>3, <5>2, <5>3 DEF Past
      <4>3. Answering(c)'
        BY <1>1, <1>2, <1>3, <1>5, <1>6, <2>1, <3>1, <3>2, <3>3 DEF ClientRuns, Answering
      <4>. QED
        BY <4>1, <4>2, <4>3 DEF ClientRuns
    <3>4. CASE c # d
      <4>1. \A v \in Workers : Writes(v, c) => v # w
        BY <1>1, <3>4 DEF Writes
      <4>2. Fresh(c)'
        BY <1>1, <1>2, <1>3, <1>6, <2>1, <3>1, <3>2, <3>4 DEF ClientRuns, Fresh
      <4>3. Past(c)'
        BY <1>1, <1>2, <1>3, <1>6, <2>1, <3>1, <3>2, <3>4, <4>1 DEF ClientRuns, Past, BoxWrites
      <4>4. Answering(c)'
        BY <1>1, <1>2, <1>3, <1>6, <2>1, <3>1, <3>2, <3>4, <4>1 DEF ClientRuns, Answering
      <4>. QED
        BY <4>2, <4>3, <4>4 DEF ClientRuns
    <3>. QED
      BY <3>3, <3>4
  <2>. QED
    BY <1>4, <2>2, <2>3
<1>7. CASE /\ self[w] = d /\ UNCHANGED answers
           /\ pc' = [pc EXCEPT ![w] = "cancel"] /\ to' = [to EXCEPT ![w] = Nobody]
  <2>1. ~Asked(d)
    BY <1>1, <1>7 DEF ClientRuns, Past
  <2>2. TasksRun'
    BY <1>1, <1>2, <1>3, <1>7 DEF TasksRun
  <2>3. ASSUME NEW c \in Clients PROVE ClientRuns(c)'
    <3>1. \A v \in Workers : Writes(v, c)' <=> Writes(v, c) /\ v # w
      BY <1>1, <1>2, <1>7 DEF Writes
    <3>2. \A v \in Workers : BoxWrites(v, c)' <=> BoxWrites(v, c)
      BY <1>1, <1>2, <1>7 DEF Writes, BoxWrites
    <3>3. Usable(c)' <=> Usable(c)
      BY <1>2 DEF Usable
    <3>4. Fresh(c)'
      BY <1>1, <1>2, <1>3, <1>7, <3>2, <3>3 DEF ClientRuns, Fresh
    <3>5. Past(c)'
      <4>1. \A v \in Workers : BoxWrites(v, c) => v # w
        BY <1>1, <1>7 DEF BoxWrites
      <4>. QED
        BY <1>1, <1>2, <1>3, <1>7, <2>1, <3>2, <3>3, <4>1 DEF ClientRuns, Past
    <3>6. Answering(c)'
      BY <1>1, <1>2, <1>3, <1>7, <3>1, <3>3 DEF ClientRuns, Answering
    <3>. QED
      BY <3>4, <3>5, <3>6 DEF ClientRuns
  <2>. QED
    BY <1>4, <2>2, <2>3
<1>8. ~Leaves(d)
  BY <1>1, Politeness
<1>. QED
  BY <1>1, <1>6, <1>7, <1>8 DEF WriteResult, Throw, Leave

(* Whoever closes the client's socket was the only one to write to it.     *)
LEMMA ClosingRuns ==
  ASSUME PoliteInv, NEW w \in Workers, pc[w] \in {"close", "unkey", "closeFd"},
         NEW label \in {"unkey", "closeFd", "idle", "lock", "cancel"}, Goto(w, label),
         UNCHANGED <<queued, socket, admin, event, sent, httpPeers, clientVars, answers>>,
         armed' \in {armed, armed \ {to[w]}},
         \/ /\ UNCHANGED <<fd, self, to>> /\ label \in {"unkey", "closeFd"}
         \/ /\ to' = [to EXCEPT ![w] = Nobody] /\ label \in {"idle", "lock", "cancel"}
            /\ UNCHANGED fd \/ fd' = [fd EXCEPT ![to[w]] = FALSE]
            /\ \/ label = "idle" /\ self[w] = to[w] /\ self' = [self EXCEPT ![w] = Nobody]
               \/ label = "lock" /\ self[w] # to[w] /\ UNCHANGED self
               \/ label = "cancel" /\ UNCHANGED self
  PROVE  Runs'
<1>. PICK d : d = to[w]
  OBVIOUS
<1> USE ProxyAssumption DEF Resulting, PoliteInv, Runs, TypeOK, PeersOK, WorkersOK, Peers, clientVars, Goto
<1>1. /\ d \in Clients /\ self[w] \in Boxes \cup {d}
      /\ Writes(w, d) /\ Usable(d) /\ answers[d] # <<>>
  <2>1. d \in Clients /\ self[w] \in Boxes \cup {d}
    BY DEF TasksOK
  <2>. QED
    BY <2>1 DEF Writes, ClientRuns, Answering
<1>2. /\ \A c : Asked(c)' <=> Asked(c)
      /\ \A c : Waits(c)' <=> Waits(c)
  BY SameAsked, SameWaits
<1>3. /\ ~Waits(d)
      /\ \A v \in Workers : Writes(v, d) => v = w
  BY <1>1 DEF ClientRuns, Answering
<1>4. /\ \A v \in Workers \ {w} : pc'[v] = pc[v] /\ self'[v] = self[v] /\ to'[v] = to[v]
      /\ pc'[w] = label /\ self'[w] \in {self[w], Nobody} /\ to'[w] \in {d, Nobody}
      /\ self'[w] = Nobody <=> label = "idle"
  BY <1>1
<1>5. \A c \in Clients \ {d} : (Usable(c)' <=> Usable(c)) /\ (c \in armed' <=> c \in armed)
  BY <1>1 DEF Usable
<1>6. Linked'
  BY DEF Linked
<1>7. TasksRun'
  BY <1>1, <1>2, <1>4 DEF TasksRun
<1>8. ~Asked(d) => /\ self[w] = d /\ d \notin armed \cup queued /\ event # d
                   /\ \A v \in Workers : self[v] = d => v = w
  BY <1>1, <1>3 DEF ClientRuns, Fresh, BoxWrites
<1>9. Fresh(d)'
  <2>1. ~Asked(d) => d \notin armed' \cup queued' /\ \A v \in Workers : self'[v] = d => v = w
    BY <1>4, <1>8
  <2>2. ~Asked(d) => \A v \in Workers : ~BoxWrites(v, d)'
    BY <1>1, <1>3, <1>4, <1>8 DEF BoxWrites, Writes
  <2>3. ~Asked(d) => ~processDone[d] /\ reqUid[d] = NoUid
    BY <1>1 DEF ClientRuns, Fresh
  <2>. QED
    BY <1>1, <1>2, <1>4, <1>8, <2>1, <2>2, <2>3 DEF Fresh
<1>10. Past(d)'
  <2>1. Asked(d) => self[w] # d
    BY <1>1 DEF ClientRuns, Past
  <2>2. Usable(d)' => Usable(d)
    BY <1>1
  <2>. QED
    BY <1>1, <1>2, <1>4, <2>1, <2>2 DEF ClientRuns, Past
<1>11. Answering(d)'
  <2>1. \A v \in Workers : Writes(v, d)' => v = w /\ label \in {"unkey", "closeFd"}
    BY <1>1, <1>3, <1>4 DEF Writes
  <2>2. label \in {"unkey", "closeFd"} => Usable(d)'
    BY <1>1 DEF Usable
  <2>. QED
    BY <1>1, <1>2, <1>3, <1>4, <2>1, <2>2 DEF ClientRuns, Answering
<1>12. ASSUME NEW c \in Clients, c # d PROVE ClientRuns(c)'
  <2>1. \A v \in Workers : /\ Writes(v, c)' <=> Writes(v, c)
                           /\ BoxWrites(v, c)' <=> BoxWrites(v, c)
                           /\ Writes(v, c) => v # w /\ pc'[v] = pc[v]
    BY <1>1, <1>4, <1>12 DEF Writes, BoxWrites
  <2>2. \A v \in Workers : self'[v] = c => v # w /\ self[v] = c /\ pc'[v] = pc[v]
    BY <1>1, <1>4, <1>12
  <2>3. (Usable(c)' <=> Usable(c)) /\ (c \in armed' <=> c \in armed)
    BY <1>5, <1>12
  <2>4. Fresh(c)'
    BY <1>2, <2>1, <2>2, <2>3 DEF ClientRuns, Fresh
  <2>5. Past(c)'
    <3>1. Past(c)
      BY DEF ClientRuns
    <3> HIDE DEF PoliteInv, Runs, TypeOK, PeersOK, WorkersOK
    <3>2. Asked(c) => \A v \in Workers : self'[v] = c =>
            /\ pc'[v] \in {"sent", "attach", "attached", "cancel"}
            /\ pc'[v] = "cancel" => ~Usable(c)'
      BY <2>2, <2>3, <3>1 DEF Past
    <3>3. answers[c] = <<>> /\ Asked(c) =>
            Usable(c)' /\ (Waits(c)' \/ \E v \in Workers : BoxWrites(v, c)' /\ pc'[v] = "write")
      BY <1>2, <2>1, <2>3, <3>1 DEF Past, BoxWrites
    <3>. QED
      BY <1>2, <3>1, <3>2, <3>3 DEF Past
  <2>6. Answering(c)'
    BY <1>2, <2>1, <2>3 DEF ClientRuns, Answering
  <2>. QED
    BY <2>4, <2>5, <2>6 DEF ClientRuns
<1>. QED
  BY <1>6, <1>7, <1>9, <1>10, <1>11, <1>12 DEF ClientRuns

LEMMA CloseResultRuns ==
  ASSUME PoliteInv, NEW w \in Workers, CloseResult(w) \/ CancelKey(w) \/ CloseFd(w)
  PROVE  Runs'
<1>1. pc[w] \in {"close", "unkey", "closeFd"}
  BY DEF CloseResult, CancelKey, CloseFd
<1>2. /\ UNCHANGED <<queued, socket, admin, event, sent, httpPeers, clientVars, answers>>
      /\ armed' \in {armed, armed \ {to[w]}}
  BY DEF CloseResult, CancelKey, CloseFd, boxVars
<1>3. PICK label \in {"unkey", "closeFd", "idle", "lock", "cancel"} :
         /\ Goto(w, label)
         /\ \/ UNCHANGED <<fd, self, to>> /\ label \in {"unkey", "closeFd"}
            \/ /\ to' = [to EXCEPT ![w] = Nobody] /\ label \in {"idle", "lock", "cancel"}
               /\ UNCHANGED fd \/ fd' = [fd EXCEPT ![to[w]] = FALSE]
               /\ \/ label = "idle" /\ self[w] = to[w] /\ self' = [self EXCEPT ![w] = Nobody]
                  \/ label = "lock" /\ self[w] # to[w] /\ UNCHANGED self
                  \/ label = "cancel" /\ UNCHANGED self
  BY DEF CloseResult, CancelKey, CloseFd, Resulted, Return, Throw, NextTurn, Leave
<1>. QED
  BY <1>1, <1>2, <1>3, ClosingRuns


-----------------------------------------------------------------------------
(* HttpPeer::cancel, by a task or the destructor, comes after the answer,  *)
(* or before the request was forwarded: no list of waiting clients changes.*)

LEMMA CancelClientWaits ==
  ASSUME OwnUids, PoliteInv, NEW d \in Clients, ~Waits(d) \/ reqUid[d] = NoUid, CancelClient(d)
  PROVE  UNCHANGED httpPeers
<1> USE ProxyAssumption DEF PoliteInv, Runs, TypeOK, PeersOK, Peers
<1>1. CASE socket[d]
  <2>1. httpPeers' = [b \in Boxes |-> [r \in Reqs |->
            IF b = stdPeer[d] /\ r = reqUid[d] THEN Nobody ELSE httpPeers[b][r]]]
    BY <1>1 DEF CancelClient
  <2>2. ASSUME NEW b \in Boxes, NEW r \in Reqs, r = reqUid[d] PROVE httpPeers[b][r] = Nobody
    <3>1. r = ReqUid[d] /\ ~Waits(d)
      BY <2>2 DEF ClientRuns, Answering
    <3>2. ASSUME httpPeers[b][r] \in Clients PROVE FALSE
      <4>1. ReqUid[httpPeers[b][r]] = r
        BY <3>2 DEF WaitOwn
      <4>2. httpPeers[b][r] = d
        BY <3>1, <3>2, <4>1 DEF OwnUids
      <4>. QED
        BY <3>1, <4>2 DEF Waits
    <3>. QED
      BY <3>2
  <2>3. \A b \in Boxes, r \in Reqs : httpPeers'[b][r] = httpPeers[b][r]
    BY <2>1, <2>2
  <2>4. httpPeers' \in [Boxes -> [Reqs -> Clients \cup {Nobody}]]
    BY <2>1
  <2>. QED
    BY <2>3, <2>4
<1>2. CASE ~socket[d]
  BY <1>2 DEF CancelClient
<1>. QED
  BY <1>1, <1>2

(* A client that is cancelled is not to be answered any more: its request  *)
(* was not forwarded and it has no other task or registration, or it has   *)
(* got its answer.  The task that cancels it ends.                         *)
LEMMA CancelClientRuns ==
  ASSUME OwnUids, PoliteInv, NEW d \in Clients, CancelClient(d),
         \A v \in Workers : ~Writes(v, d),
         Asked(d) => answers[d] # <<>>, ~Asked(d) => d \notin armed \cup queued /\ event # d,
         UNCHANGED <<queued, admin, event, sent, clientVars, answers>>,
         WorkersOK',
         \A v \in Workers :
            \/ pc'[v] = pc[v] /\ self'[v] = self[v] /\ to'[v] = to[v] /\ (self[v] = d => Asked(d))
            \/ pc[v] = "cancel" /\ self[v] = d /\ pc'[v] = "idle" /\ self'[v] = Nobody
  PROVE  Runs'
<1> USE ProxyAssumption DEF Resulting, PoliteInv, Runs, TypeOK, PeersOK, WorkersOK, Peers, clientVars
<1>1. /\ UNCHANGED httpPeers
      /\ \A p \in Peers \ {d} : (Usable(p)' <=> Usable(p)) /\ (p \in armed' <=> p \in armed)
      /\ armed' \subseteq armed /\ (Usable(d)' => Usable(d))
  <2>1. UNCHANGED httpPeers
    BY CancelClientWaits DEF ClientRuns, Fresh, Answering
  <2>2. CASE socket[d]
    <3>1. /\ socket' = [socket EXCEPT ![d] = FALSE]
          /\ \/ UNCHANGED <<fd, armed>>
             \/ fd' = [fd EXCEPT ![d] = FALSE] /\ armed' = armed \ {d}
      BY <2>2 DEF CancelClient, CloseSocket
    <3>. QED
      BY <2>1, <3>1 DEF Usable
  <2>3. CASE ~socket[d]
    <3>1. UNCHANGED <<socket, fd, armed>>
      BY <2>3 DEF CancelClient
    <3>. QED
      BY <2>1, <3>1 DEF Usable
  <2>. QED
    BY <2>2, <2>3
<1>2. /\ \A c : Asked(c)' <=> Asked(c)
      /\ \A c : Waits(c)' <=> Waits(c)
  BY <1>1, SameAsked, SameWaits
<1>3. ASSUME NEW v \in Workers, NEW c \in Clients
      PROVE  /\ Writes(v, c)' <=> Writes(v, c)
             /\ BoxWrites(v, c)' <=> BoxWrites(v, c)
             /\ Writes(v, c) => pc'[v] = pc[v]
  BY DEF Writes, BoxWrites
<1>4. /\ \A v \in Workers, c \in Clients : self'[v] = c => self[v] = c /\ pc'[v] = pc[v]
      /\ ~Asked(d) => \A v \in Workers : self'[v] # d
  OBVIOUS
<1>5. Linked'
  BY <1>1 DEF Linked
<1>6. TasksRun'
  BY <1>1, <1>2 DEF TasksRun
<1>7. ASSUME NEW c \in Clients PROVE ClientRuns(c)'
  <2>1. CASE c = d
    <3>1. Past(c)' /\ Answering(c)'
      BY <1>1, <1>2, <1>3, <1>4, <2>1 DEF ClientRuns, Past, Answering
    <3>2. Fresh(c)'
      BY <1>1, <1>2, <1>3, <1>4, <2>1 DEF ClientRuns, Fresh
    <3>. QED
      BY <3>1, <3>2 DEF ClientRuns
  <2>2. CASE c # d
    <3>1. (Usable(c)' <=> Usable(c)) /\ (c \in armed' <=> c \in armed)
      BY <1>1, <2>2
    <3>2. Fresh(c)'
      BY <1>1, <1>2, <1>3, <1>4, <3>1 DEF ClientRuns, Fresh
    <3>3. Past(c)'
      <4>1. \A v \in Workers : BoxWrites(v, c) => pc'[v] = pc[v]
        BY <1>3 DEF BoxWrites
      <4>. QED
        BY <1>1, <1>2, <1>3, <1>4, <3>1, <4>1 DEF ClientRuns, Past
    <3>4. Answering(c)'
      BY <1>1, <1>2, <1>3, <1>4, <3>1 DEF ClientRuns, Answering
    <3>. QED
      BY <3>2, <3>3, <3>4 DEF ClientRuns
  <2>. QED
    BY <2>1, <2>2
<1>. QED
  BY <1>5, <1>6, <1>7

(* The cancel() of a box, by a task of it or its destructor, concerns no   *)
(* client: nobody waits in the box that is destroyed.                      *)
LEMMA CancelBoxRuns ==
  ASSUME PoliteInv, NEW b \in Boxes, CancelBox(b), WorkersOK',
         UNCHANGED <<queued, admin, event, sent, httpPeers, clientVars, answers>>,
         \A v \in Workers :
            \/ pc'[v] = pc[v] /\ self'[v] = self[v] /\ to'[v] = to[v]
            \/ pc[v] = "cancel" /\ self[v] = b /\ pc'[v] = "idle" /\ self'[v] = Nobody
  PROVE  Runs'
<1>1. \A c \in Clients : socket'[c] = socket[c] /\ fd'[c] = fd[c] /\ (c \in armed' <=> c \in armed)
  BY ProxyAssumption DEF CancelBox, CloseSocket, PoliteInv, TypeOK, PeersOK, Peers
<1>. QED
  BY <1>1, AsideRuns

LEMMA TaskCancelRuns ==
  ASSUME OwnUids, PoliteInv, NEW w \in Workers, TaskCancel(w), WorkersOK'
  PROVE  Runs'
<1>. PICK d : d = self[w]
  OBVIOUS
<1>1. /\ pc[w] = "cancel" /\ Return(w) /\ UNCHANGED <<queued, admin, event, sent, clientVars, answers>>
      /\ \/ d \in Boxes /\ CancelBox(d) /\ UNCHANGED httpPeers
         \/ d \in Clients /\ CancelClient(d)
  BY DEF TaskCancel
<1>2. /\ pc' = [pc EXCEPT ![w] = "idle"]
      /\ self' = [self EXCEPT ![w] = Nobody] /\ to' = [to EXCEPT ![w] = Nobody]
  BY <1>1 DEF Return, Leave, Goto
<1>3. CASE d \in Boxes /\ CancelBox(d) /\ UNCHANGED httpPeers
  <2>1. \A v \in Workers :
           \/ pc'[v] = pc[v] /\ self'[v] = self[v] /\ to'[v] = to[v]
           \/ pc[v] = "cancel" /\ self[v] = d /\ pc'[v] = "idle" /\ self'[v] = Nobody
    BY <1>1, <1>2 DEF PoliteInv, TypeOK, WorkersOK
  <2>. QED
    BY <1>1, <1>3, <2>1, CancelBoxRuns
<1>4. CASE d \in Clients /\ CancelClient(d)
  <2>1. Fresh(d) /\ Past(d) /\ Answering(d)
    BY <1>4 DEF PoliteInv, Runs, ClientRuns
  <2>2. Asked(d) => ~Usable(d) /\ answers[d] # <<>>
    BY <1>1, <2>1 DEF Past
  <2>3. ~Asked(d) => /\ d \notin armed \cup queued /\ event # d
                     /\ \A v \in Workers : self[v] = d => v = w
                     /\ \A v \in Workers : ~BoxWrites(v, d)
    BY <1>1, <2>1 DEF Fresh
  <2>4. ASSUME NEW v \in Workers, Writes(v, d) PROVE FALSE
    <3>1. Usable(d)
      BY <2>1, <2>4 DEF Answering
    <3>2. self[v] = d /\ v # w
      BY <1>1, <2>2, <2>3, <2>4, <3>1 DEF Writes, BoxWrites, Resulting, PoliteInv, TypeOK, TasksOK
    <3>. QED
      BY <2>2, <2>3, <3>1, <3>2
  <2>5. ASSUME NEW v \in Workers
        PROVE  \/ pc'[v] = pc[v] /\ self'[v] = self[v] /\ to'[v] = to[v] /\ (self[v] = d => Asked(d))
               \/ pc[v] = "cancel" /\ self[v] = d /\ pc'[v] = "idle" /\ self'[v] = Nobody
    <3>1. v # w => (self[v] = d => Asked(d))
      BY <2>3
    <3>. QED
      BY <1>1, <1>2, <3>1 DEF PoliteInv, TypeOK, WorkersOK
  <2>. QED
    BY <1>1, <1>4, <2>2, <2>3, <2>4, <2>5, CancelClientRuns
<1>. QED
  BY <1>1, <1>3, <1>4

(* A destructor runs when the client neither waits nor is written to.      *)
LEMMA DestroyClientRuns ==
  ASSUME OwnUids, PoliteInv, NEW d \in Clients, DestroyClient(d), WorkersOK'
  PROVE  Runs'
<1>1. CancelClient(d) /\ ~ClientKept(d)
  BY DEF DestroyClient
<1>2. /\ d \notin armed \cup queued /\ event # d
      /\ \A v \in Workers : self[v] # d /\ to[v] # d
      /\ ~Waits(d)
  BY <1>1, ProxyAssumption DEF ClientKept, InHand, Waits
<1>3. Asked(d) => answers[d] # <<>>
  BY <1>2 DEF PoliteInv, Runs, ClientRuns, Past, BoxWrites, Writes
<1>4. UNCHANGED <<queued, admin, event, sent, clientVars, answers, pc, self, to>>
  BY DEF DestroyClient, workerVars
<1>5. \A v \in Workers : ~Writes(v, d)
  BY <1>2 DEF Writes
<1>. QED
  BY <1>1, <1>2, <1>3, <1>4, <1>5, CancelClientRuns

(* A client that waits in a box keeps it.                                  *)
LEMMA DestroyBoxRuns ==
  ASSUME PoliteInv, NEW b \in Boxes, DestroyBox(b), WorkersOK'
  PROVE  Runs'
<1> USE ProxyAssumption DEF PoliteInv, Runs, TypeOK, PeersOK, Peers
<1>1. ~BoxKept(b) /\ CancelBox(b) /\ httpPeers' = [httpPeers EXCEPT ![b] = [r \in Reqs |-> Nobody]]
  BY DEF DestroyBox
<1>2. ASSUME NEW r \in Reqs, httpPeers[b][r] # Nobody PROVE FALSE
  <2>1. PICK c \in Clients : c = httpPeers[b][r]
    BY <1>2
  <2>2. ReqUid[c] = r
    BY <1>2, <2>1 DEF WaitOwn
  <2>3. stdPeer[c] = b /\ ClientKept(c)
    BY <2>1, <2>2 DEF Linked, ClientKept
  <2>. QED
    BY <1>1, <2>3 DEF BoxKept
<1>3. UNCHANGED httpPeers
  <2>1. httpPeers[b] = [r \in Reqs |-> Nobody]
    BY <1>2
  <2>. QED
    BY <1>1, <2>1
<1>4. UNCHANGED <<queued, admin, event, sent, clientVars, answers, pc, self, to>>
  BY DEF DestroyBox, workerVars
<1> HIDE DEF PoliteInv
<1>. QED
  BY <1>1, <1>3, <1>4, CancelBoxRuns

-----------------------------------------------------------------------------
(* The selector and the pool *)

(* What moves clients between the selector, the event and the pool: a      *)
(* client whose request was not sent is in one place, one whose request    *)
(* was sent moves on only when it is done.                                 *)
LEMMA SelectorRuns ==
  ASSUME PoliteInv, UNCHANGED <<socket, fd, sent, httpPeers, clientVars, answers, pc, self, to>>,
         \A c \in Clients :
            /\ c \in armed' \cup queued' \/ event' = c => c \in armed \cup queued \/ event = c
            /\ ~Asked(c) => /\ ~(c \in armed' /\ c \in queued')
                            /\ event' = c => c \notin queued' /\ (admin' = "dispatch" => c \notin armed')
            /\ Asked(c) /\ (c \in queued' \/ event' = c) => processDone[c]
  PROVE  Runs'
<1> USE DEF PoliteInv, Runs, clientVars
<1>1. /\ \A c : Asked(c)' <=> Asked(c)
      /\ \A c : Waits(c)' <=> Waits(c)
  BY SameAsked, SameWaits
<1>2. TasksRun' /\ Linked'
  BY <1>1 DEF TasksRun, Linked
<1>3. ASSUME NEW c \in Clients PROVE ClientRuns(c)'
  <2>1. Fresh(c)'
    BY <1>1 DEF ClientRuns, Fresh, BoxWrites, Writes, Usable
  <2>2. Past(c)'
    BY <1>1 DEF ClientRuns, Past, BoxWrites, Writes, Usable
  <2>3. Answering(c)'
    BY <1>1 DEF ClientRuns, Answering, Writes, Usable
  <2>. QED
    BY <2>1, <2>2, <2>3 DEF ClientRuns
<1>. QED
  BY <1>2, <1>3

(* Input on a client whose request is being forwarded is not expected, and *)
(* on one that waits it leads to another attach() only.                    *)
LEMMA NoticeRuns ==
  ASSUME Polite, PoliteInv, NEW p \in Peers, Notice(p)
  PROVE  Runs'
<1>1. /\ p \in armed /\ event = Nobody /\ event' = p /\ admin' = "select"
      /\ UNCHANGED <<armed, queued, socket, fd, sent, httpPeers, clientVars, answers, pc, self, to>>
  BY DEF Notice, PoliteInv, TypeOK, AdminOK, boxVars, workerVars
<1>2. p \in Clients /\ Asked(p) => processDone[p]
  BY Politeness DEF Notice, Talks, TalksAgain, PoliteInv, Runs, ClientRuns, Past
<1>3. \A c \in Clients : ~Asked(c) => ~(c \in armed /\ c \in queued)
  BY DEF PoliteInv, Runs, ClientRuns, Fresh
<1>4. \A c \in Clients : Asked(c) /\ c \in queued => processDone[c]
  BY DEF PoliteInv, Runs, ClientRuns, Past
<1>. QED
  BY <1>1, <1>2, <1>3, <1>4, SelectorRuns

LEMMA AdminStepRuns ==
  ASSUME Polite, PoliteInv, AdminStep
  PROVE  Runs'
<1>1. /\ UNCHANGED <<socket, sent, httpPeers, clientVars, answers, pc, self, to>>
  BY DEF AdminStep, Fire, SelectThrow, Dispatch, boxVars, workerVars
<1>2. /\ \A c \in Clients : ~Asked(c) =>
            /\ ~(c \in armed /\ c \in queued)
            /\ event = c => c \notin queued /\ (admin = "dispatch" => c \notin armed)
      /\ \A c \in Clients : Asked(c) /\ (c \in queued \/ event = c) => processDone[c]
  BY DEF PoliteInv, Runs, ClientRuns, Fresh, Past
<1>3. CASE Fire
  <2>1. event \in Peers /\ UNCHANGED <<queued, fd, event>> /\ armed' = armed \ {event}
    BY <1>3, Politeness DEF Fire, PoliteInv, TypeOK, PeersOK
  <2>. QED
    BY <1>1, <1>2, <2>1, SelectorRuns
<1>4. CASE SelectThrow
  <2>1. UNCHANGED <<armed, queued, fd>> /\ event' = Nobody /\ Nobody \notin Clients
    BY <1>4, ProxyAssumption DEF SelectThrow, Peers
  <2>. QED
    BY <1>1, <1>2, <2>1, SelectorRuns
<1>5. CASE Dispatch
  <2>1. /\ admin = "dispatch" /\ UNCHANGED <<armed, fd>> /\ queued' \in {queued, queued \cup {event}}
        /\ event' = Nobody /\ Nobody \notin Clients
    BY <1>5, ProxyAssumption DEF Dispatch, Peers
  <2>. QED
    BY <1>1, <1>2, <2>1, SelectorRuns
<1>. QED
  BY <1>3, <1>4, <1>5 DEF AdminStep

LEMMA StartTaskRuns ==
  ASSUME PoliteInv, NEW w \in Workers, NEW p \in Peers, StartTask(w, p)
  PROVE  Runs'
<1> USE ProxyAssumption DEF Resulting, PoliteInv, Runs, TypeOK, PeersOK, WorkersOK, Peers, boxVars, clientVars, Goto
<1>1. pc[w] = "idle" /\ self[w] = Nobody /\ p \in queued
  BY DEF StartTask, TasksRun
<1>2. /\ UNCHANGED <<armed, fd, socket, admin, event, sent, httpPeers, stdPeer, reqUid, processDone, answers, to>>
      /\ queued' = queued \ {p} /\ self' = [self EXCEPT ![w] = p]
  BY DEF StartTask
<1>3. /\ \A c : Asked(c)' <=> Asked(c)
      /\ \A c : Waits(c)' <=> Waits(c)
  BY <1>2, SameAsked, SameWaits
<1>4. PICK label \in {"lock", "attach", "read"} :
         /\ pc' = [pc EXCEPT ![w] = label]
         /\ p \in Boxes => label = "lock"
         /\ p \in Clients => label = IF Asked(p) THEN "attach" ELSE "read"
  <2>1. p \in Clients => (processDone[p] <=> Asked(p))
    BY <1>1 DEF ClientRuns, Fresh, Past
  <2>. QED
    BY <2>1 DEF StartTask, FirstStep
<1>5. ASSUME NEW v \in Workers, NEW c \in Clients
      PROVE  /\ Writes(v, c)' <=> Writes(v, c)
             /\ BoxWrites(v, c)' <=> BoxWrites(v, c)
             /\ Writes(v, c) => v # w /\ pc'[v] = pc[v]
  BY <1>1, <1>2, <1>4 DEF Writes, BoxWrites
<1>6. Linked'
  BY <1>1, <1>2 DEF Linked
<1>7. TasksRun'
  BY <1>1, <1>2, <1>3, <1>4 DEF TasksRun
<1>8. ASSUME NEW c \in Clients PROVE ClientRuns(c)'
  <2>1. Usable(c)' <=> Usable(c)
    BY <1>2 DEF Usable
  <2>2. Fresh(c)'
    <3>1. CASE c = p
      BY <1>1, <1>2, <1>3, <1>4, <1>5, <2>1, <3>1 DEF ClientRuns, Fresh
    <3>2. CASE c # p
      BY <1>1, <1>2, <1>3, <1>4, <1>5, <2>1, <3>2 DEF ClientRuns, Fresh
    <3>. QED
      BY <3>1, <3>2
  <2>3. Past(c)'
    <3>1. Asked(c) => \A v \in Workers : self'[v] = c => pc'[v] = "attach" \/ (self[v] = c /\ pc'[v] = pc[v])
      BY <1>1, <1>2, <1>4
    <3>2. \A v \in Workers : BoxWrites(v, c) => pc'[v] = pc[v]
      BY <1>5 DEF BoxWrites
    <3>3. c \in queued' => c \in queued
      BY <1>2
    <3>4. Past(c)
      BY DEF ClientRuns
    <3>5. ASSUME Asked(c), NEW v \in Workers, self'[v] = c
          PROVE  /\ pc'[v] \in {"sent", "attach", "attached", "cancel"}
                 /\ pc'[v] = "cancel" => ~Usable(c)
      BY <3>1, <3>4, <3>5 DEF Past
    <3>6. ASSUME Asked(c), answers[c] = <<>>, ~Waits(c)
          PROVE  \E v \in Workers : BoxWrites(v, c)' /\ pc'[v] = "write"
      BY <1>5, <3>2, <3>4, <3>6 DEF Past
    <3>. QED
      BY <1>2, <1>3, <2>1, <3>3, <3>4, <3>5, <3>6 DEF Past
  <2>4. Answering(c)'
    BY <1>2, <1>3, <1>5, <2>1 DEF ClientRuns, Answering
  <2>. QED
    BY <2>2, <2>3, <2>4 DEF ClientRuns
<1>. QED
  BY <1>6, <1>7, <1>8

-----------------------------------------------------------------------------
(* A client's task finds its socket usable until its request is sent.      *)
LEMMA NoReadThrow ==
  ASSUME Polite, PoliteInv, NEW w \in Workers
  PROVE  ~ReadThrow(w)
<1> USE ProxyAssumption DEF PoliteInv, Runs, TypeOK
<1> SUFFICES ASSUME ReadThrow(w) PROVE FALSE
  OBVIOUS
<1>1. self[w] \in Clients /\ pc[w] = "read"
  BY DEF ReadThrow, TasksOK
<1>2. Usable(self[w])
  <2>1. ~Asked(self[w])
    BY <1>1 DEF ClientRuns, Past
  <2>. QED
    BY <1>1, <2>1 DEF ClientRuns, Fresh
<1>. QED
  BY <1>1, <1>2, Politeness DEF ReadThrow, Peers

(* What a box's task does besides answering concerns no client.            *)
LEMMA BoxTaskRuns ==
  ASSUME PoliteInv, WorkersOK', NEW w \in Workers,
         \/ Lock(w) \/ BoxIdle(w) \/ BoxThrow(w) \/ BoxBreak(w)
         \/ \E u \in Uids : Register(w, u)
  PROVE  Runs'
<1> USE ProxyAssumption DEF PoliteInv, TypeOK, PeersOK, Peers, selectorVars, boxVars
<1>1. self[w] \in Boxes /\ pc[w] \in {"lock", "loop"}
  BY DEF Lock, BoxIdle, BoxThrow, BoxBreak, Register, TasksOK
<1>2. /\ UNCHANGED <<queued, admin, event, socket, fd, sent, httpPeers, clientVars, answers>>
      /\ armed' \in {armed, armed \cup {self[w]}}
  BY DEF Lock, BoxIdle, BoxThrow, BoxBreak, Register, Rearmed
<1>3. \/ pc' = [pc EXCEPT ![w] = "loop"] /\ UNCHANGED <<self, to>>
      \/ Return(w) \/ Throw(w) \/ NextTurn(w)
  BY DEF Lock, BoxIdle, BoxThrow, BoxBreak, Register, Goto
<1>4. ASSUME NEW v \in Workers
      PROVE  \/ pc'[v] = pc[v] /\ self'[v] = self[v] /\ to'[v] = to[v]
             \/ /\ v = w
                /\ \/ pc'[v] \in {"lock", "loop", "cancel"} /\ self'[v] = self[v]
                   \/ pc'[v] = "idle" /\ self'[v] = Nobody
  BY <1>3 DEF Return, Throw, NextTurn, Leave, Goto, WorkersOK
<1>5. \A c \in Clients : c \in armed' <=> c \in armed
  BY <1>1, <1>2
<1> HIDE DEF PoliteInv
<1>. QED
  BY <1>1, <1>2, <1>4, <1>5, AsideRuns

LEMMA PoliteStep == Polite /\ OwnUids /\ PoliteInv /\ [Next]_vars => PoliteInv'
<1> SUFFICES ASSUME Polite, OwnUids, PoliteInv, [Next]_vars PROVE PoliteInv'
  OBVIOUS
<1>1. TypeOK' /\ WaitOwn' /\ SentOwn'
  BY TypeStep, WaitOwnStep, SentOwnStep DEF PoliteInv
<1> SUFFICES Runs'
  BY <1>1 DEF PoliteInv
<1>2. WorkersOK'
  BY <1>1 DEF TypeOK
<1>3. ASSUME NEW w \in Workers, Process(w) PROVE Runs'
  BY <1>2, <1>3, NoReadThrow, ReadRequestRuns, SendRuns, SentRuns, AttachRuns, AttachedRuns,
     WriteResultRuns, CloseResultRuns, BoxTaskRuns, RespondRuns, TaskCancelRuns DEF Process
<1>4. CASE UNCHANGED vars
  <2>1. UNCHANGED <<selectorVars, socket, sent, httpPeers, clientVars, answers, pc, self, to>>
    BY <1>4 DEF vars, boxVars, workerVars
  <2>2. \A v \in Workers : pc'[v] = pc[v] /\ self'[v] = self[v] /\ to'[v] = to[v]
    BY <2>1
  <2>. QED
    BY <1>2, <2>1, <2>2, AsideRuns DEF selectorVars
<1>5. CASE Next
  <2>1. CASE \E w \in Workers : Process(w)
    BY <1>3, <2>1
  <2>2. CASE \E w \in Workers, p \in Peers : StartTask(w, p)
    BY <2>2, StartTaskRuns
  <2>3. CASE \E p \in Peers : Notice(p)
    BY <2>3, NoticeRuns
  <2>4. CASE AdminStep
    BY <2>4, AdminStepRuns
  <2>5. CASE \E b \in Boxes : DestroyBox(b)
    BY <1>2, <2>5, DestroyBoxRuns
  <2>6. CASE \E c \in Clients : DestroyClient(c)
    BY <1>2, <2>6, DestroyClientRuns
  <2>. QED
    BY <1>5, <2>1, <2>2, <2>3, <2>4, <2>5, <2>6 DEF Next
<1>. QED
  BY <1>4, <1>5

LEMMA PoliteInit == Init => PoliteInv
<1> SUFFICES ASSUME Init PROVE PoliteInv
  OBVIOUS
<1> USE ProxyAssumption DEF Init, Peers
<1>1. TypeOK /\ WaitOwn /\ SentOwn
  BY TypeInit DEF WaitOwn, SentOwn
<1>2. TasksRun /\ Linked
  BY DEF TasksRun, Linked
<1>3. ASSUME NEW c \in Clients PROVE ~Asked(c) /\ ~Waits(c) /\ \A w \in Workers : ~Writes(w, c)
  BY DEF Asked, Waits, Writes, Resulting
<1>4. ASSUME NEW c \in Clients PROVE ClientRuns(c)
  BY <1>3 DEF ClientRuns, Fresh, Past, Answering, BoxWrites, Usable
<1>. QED
  BY <1>1, <1>2, <1>4 DEF PoliteInv, Runs

LEMMA PoliteInvariant == ASSUME Polite, OwnUids PROVE Spec => []PoliteInv
<1>1. PoliteInv /\ [Next]_vars => PoliteInv'
  BY PoliteStep
<1>. QED
  BY <1>1, PoliteInit, PTL DEF Spec

-----------------------------------------------------------------------------
(* A client gets one answer: HttpPeer::sendResult is called once for it,   *)
(* by its own task or by the one task of its box that took it out of the   *)
(* list, however often the box answers its request, and though the client  *)
(* goes on sending until its socket is closed.                             *)
THEOREM OneAnswer == ASSUME Polite, OwnUids PROVE Spec => []AnsweredOnce
<1>1. PoliteInv => AnsweredOnce
  BY DEF PoliteInv, Runs, ClientRuns, Answering, AnsweredOnce
<1>. QED
  BY <1>1, PoliteInvariant, PTL

(* A client whose request its box was sent stays in that box's list until  *)
(* a task takes it out to answer it, whatever other clients do there       *)
(* meanwhile: HttpPeer::cancel of one never removes the entry of another.  *)
THEOREM NoneForgotten == ASSUME Polite, OwnUids PROVE Spec => []NoRequestForgotten
<1>1. PoliteInv => NoRequestForgotten
  <2> SUFFICES ASSUME PoliteInv, NEW c \in Clients, NEW b \in Boxes,
                      <<ReqUid[c], c>> \in sent[b], answers[c] = <<>>
               PROVE  httpPeers[b][ReqUid[c]] = c \/ \E w \in Workers : to[w] = c
    BY DEF NoRequestForgotten
  <2>1. Asked(c) /\ stdPeer[c] = b
    BY DEF Asked, PoliteInv, Runs, Linked
  <2>2. CASE Waits(c)
    <3>1. PICK e \in Boxes : httpPeers[e][ReqUid[c]] = c
      BY <2>2 DEF Waits
    <3>2. e = b
      BY <2>1, <3>1 DEF PoliteInv, Runs, Linked
    <3>. QED
      BY <3>1, <3>2
  <2>3. CASE ~Waits(c)
    BY <2>1, <2>3 DEF PoliteInv, Runs, ClientRuns, Past, BoxWrites, Writes
  <2>. QED
    BY <2>2, <2>3
<1>. QED
  BY <1>1, PoliteInvariant, PTL

-----------------------------------------------------------------------------
(* The same other ends: where the task of a box can fail.  A box is in one *)
(* hand at most, registered, in an event, queued or with a task, and there *)
(* its socket is open, unless its task has failed.                         *)

BoxHeld(b) ==
    /\ b \in armed \cup queued \/ event = b => Usable(b)
    /\ ~(b \in armed /\ b \in queued)
    /\ event = b => b \notin queued /\ (admin = "dispatch" => b \notin armed)
    /\ \A w \in Workers : self[w] = b =>
          /\ b \notin armed \cup queued /\ event # b
          /\ pc[w] # "cancel" => Usable(b)
          /\ \A v \in Workers : self[v] = b => v = w

HeldInv == PoliteInv /\ \A b \in Boxes : BoxHeld(b)

(* Steps that put a box in nobody's hands and close no box's socket.       *)
LEMMA HeldAside ==
  ASSUME NEW b \in Boxes, BoxHeld(b), UNCHANGED <<queued, admin, event>>,
         b \in armed' => b \in armed,
         socket'[b] = socket[b] /\ fd'[b] = fd[b],
         \A v \in Workers : self'[v] = b => self[v] = b /\ (pc[v] = "cancel" => pc'[v] = "cancel")
  PROVE  BoxHeld(b)'
BY DEF BoxHeld, Usable

(* Who writes to a client finds its socket open, and what a task leaves    *)
(* alone.                                                                  *)
LEMMA WriterFinds ==
  ASSUME PoliteInv, NEW w \in Workers, pc[w] \in Resulting
  PROVE  to[w] \in Clients /\ Usable(to[w])
<1>1. to[w] \in Clients /\ Writes(w, to[w])
  BY DEF PoliteInv, TypeOK, TasksOK, Writes
<1>. QED
  BY <1>1 DEF PoliteInv, Runs, ClientRuns, Answering

LEMMA ProcessKeeps ==
  ASSUME PoliteInv, NEW w \in Workers, Process(w), ~BoxIdle(w), ~TaskCancel(w), NEW b \in Boxes
  PROVE  /\ UNCHANGED <<queued, admin, event>>
         /\ b \in armed' => b \in armed
         /\ socket'[b] = socket[b] /\ fd'[b] = fd[b]
         /\ \A v \in Workers : self'[v] = b => self[v] = b /\ (pc[v] = "cancel" => pc'[v] = "cancel")
<1> USE ProxyAssumption DEF PoliteInv, TypeOK, PeersOK, WorkersOK, Peers, selectorVars, Goto
<1>1. CASE ReadRequest(w) \/ ReadThrow(w) \/ Send(w) \/ Sent(w) \/ Attach(w) \/ Attached(w)
  <2>1. self[w] \in Clients
    BY <1>1 DEF ReadRequest, ReadThrow, Send, Sent, Attach, Attached, TasksOK
  <2>2. UNCHANGED <<queued, admin, event, socket, fd>> /\ armed' \in {armed, armed \cup {self[w]}}
    BY <1>1 DEF ReadRequest, ReadThrow, Send, Sent, Attach, Attached
  <2>3. \A v \in Workers \ {w} : pc'[v] = pc[v] /\ self'[v] = self[v]
    BY <1>1 DEF ReadRequest, ReadThrow, Send, Sent, Attach, Attached, Throw, Return, Leave
  <2>4. self'[w] \in {self[w], Nobody}
    BY <1>1 DEF ReadRequest, ReadThrow, Send, Sent, Attach, Attached, Throw, Return, Leave
  <2>. QED
    BY <2>1, <2>2, <2>3, <2>4
<1>2. CASE WriteResult(w) \/ CloseResult(w) \/ CancelKey(w) \/ CloseFd(w)
  <2>1. pc[w] \in Resulting /\ to[w] \in Clients
    BY <1>2, WriterFinds DEF WriteResult, CloseResult, CancelKey, CloseFd, Resulting
  <2>2. /\ UNCHANGED <<queued, admin, event, socket>> /\ armed' \in {armed, armed \ {to[w]}}
        /\ fd' \in {fd, [fd EXCEPT ![to[w]] = FALSE]}
    BY <1>2 DEF WriteResult, CloseResult, CancelKey, CloseFd
  <2>3. \A v \in Workers \ {w} : pc'[v] = pc[v] /\ self'[v] = self[v]
    BY <1>2 DEF WriteResult, CloseResult, CancelKey, CloseFd, Resulted, NextTurn, Throw, Return, Leave
  <2>4. self'[w] \in {self[w], Nobody}
    BY <1>2 DEF WriteResult, CloseResult, CancelKey, CloseFd, Resulted, NextTurn, Throw, Return, Leave
  <2>. QED
    BY <2>1, <2>2, <2>3, <2>4 DEF Resulting
<1>3. CASE \/ Lock(w) \/ BoxThrow(w) \/ BoxBreak(w)
           \/ \E u \in Uids : Register(w, u)
           \/ \E r \in Reqs, c \in Clients : Respond(w, r, c)
  <2>1. pc[w] # "cancel" /\ UNCHANGED <<armed, queued, admin, event, socket, fd>>
    BY <1>3 DEF Lock, BoxThrow, BoxBreak, Register, Respond
  <2>2. /\ \E label \in Labels : pc' = [pc EXCEPT ![w] = label]
        /\ self' \in {self, [self EXCEPT ![w] = Nobody]}
    <3>1. CASE Lock(w) \/ BoxThrow(w) \/ BoxBreak(w) \/ \E u \in Uids : Register(w, u)
      BY <3>1 DEF Lock, BoxThrow, BoxBreak, Register, NextTurn, Throw, Return, Leave, Labels
    <3>2. CASE \E r \in Reqs, c \in Clients : Respond(w, r, c)
      BY <3>2 DEF Respond, NextTurn, Leave, Labels
    <3>. QED
      BY <1>3, <3>1, <3>2
  <2>3. \A v \in Workers \ {w} : pc'[v] = pc[v] /\ self'[v] = self[v]
    BY <2>2
  <2>4. self'[w] \in {self[w], Nobody}
    BY <2>2
  <2>. QED
    BY <2>1, <2>3, <2>4
<1>. QED
  BY <1>1, <1>2, <1>3 DEF Process

LEMMA HeldProcess ==
  ASSUME HeldInv, NEW w \in Workers, Process(w), NEW b \in Boxes
  PROVE  BoxHeld(b)'
<1> USE ProxyAssumption DEF PoliteInv, TypeOK, PeersOK, WorkersOK, Peers, Goto
<1>1. BoxHeld(b) /\ PoliteInv
  BY DEF HeldInv
<1>2. CASE BoxIdle(w)
  <2>1. self[w] \in Boxes /\ pc[w] = "loop"
    BY <1>1, <1>2 DEF BoxIdle, TasksOK
  <2>2. /\ UNCHANGED <<queued, admin, event, socket, fd>> /\ armed' = armed \cup {self[w]}
        /\ self' = [self EXCEPT ![w] = Nobody]
        /\ \A v \in Workers \ {w} : pc'[v] = pc[v]
    BY <1>1, <1>2 DEF BoxIdle, Rearmed, Return, Leave
  <2>3. CASE self[w] # b
    <3>1. \A v \in Workers : self'[v] = b => v # w
      BY <1>1, <2>2
    <3>2. \A v \in Workers : self'[v] = b => self[v] = b /\ (pc[v] = "cancel" => pc'[v] = "cancel")
      BY <1>1, <2>2, <3>1
    <3>. QED
      BY <1>1, <2>2, <2>3, <3>2, HeldAside
  <2>4. CASE self[w] = b
    <3>1. Usable(b) /\ b \notin queued /\ event # b /\ \A v \in Workers : self[v] = b => v = w
      BY <1>1, <2>1, <2>4 DEF BoxHeld
    <3>2. \A v \in Workers : self'[v] # b
      BY <1>1, <2>2, <3>1
    <3>. QED
      BY <2>2, <3>1, <3>2 DEF BoxHeld, Usable
  <2>. QED
    BY <2>3, <2>4
<1>3. CASE TaskCancel(w)
  <2>1. /\ pc[w] = "cancel" /\ self' = [self EXCEPT ![w] = Nobody]
        /\ UNCHANGED <<queued, admin, event>> /\ \A v \in Workers \ {w} : pc'[v] = pc[v]
    BY <1>1, <1>3 DEF TaskCancel, Return, Leave
  <2>2. CASE self[w] # b
    <3>1. socket'[b] = socket[b] /\ fd'[b] = fd[b] /\ armed' \in {armed, armed \ {self[w]}}
      BY <1>1, <1>3, <2>2 DEF TaskCancel, CancelBox, CancelClient, CloseSocket
    <3>2. \A v \in Workers : self'[v] = b => v # w
      BY <1>1, <2>1
    <3>3. \A v \in Workers : self'[v] = b => self[v] = b /\ (pc[v] = "cancel" => pc'[v] = "cancel")
      BY <1>1, <2>1, <3>2
    <3>. QED
      BY <1>1, <2>1, <3>1, <3>3, HeldAside
  <2>3. CASE self[w] = b
    <3>1. b \notin armed \cup queued /\ event # b /\ \A v \in Workers : self[v] = b => v = w
      BY <1>1, <2>3 DEF BoxHeld
    <3>2. armed' \subseteq armed
      BY <1>3 DEF TaskCancel, CancelBox, CancelClient, CloseSocket
    <3>3. \A v \in Workers : self'[v] # b
      BY <1>1, <2>1, <3>1
    <3>. QED
      BY <2>1, <3>1, <3>2, <3>3 DEF BoxHeld
  <2>. QED
    BY <2>2, <2>3
<1>4. CASE ~BoxIdle(w) /\ ~TaskCancel(w)
  BY <1>1, <1>4, ProcessKeeps, HeldAside
<1>. QED
  BY <1>2, <1>3, <1>4

LEMMA HeldStep == Polite /\ OwnUids /\ HeldInv /\ [Next]_vars => HeldInv'
<1> SUFFICES ASSUME Polite, OwnUids, HeldInv, [Next]_vars, NEW b \in Boxes PROVE BoxHeld(b)'
  BY PoliteStep DEF HeldInv
<1> USE ProxyAssumption DEF PoliteInv, TypeOK, PeersOK, WorkersOK, Peers, workerVars
<1>1. BoxHeld(b) /\ PoliteInv
  BY DEF HeldInv
<1>2. ASSUME NEW w \in Workers, Process(w) PROVE BoxHeld(b)'
  BY <1>2, HeldProcess
<1>3. ASSUME NEW w \in Workers, NEW p \in Peers, StartTask(w, p) PROVE BoxHeld(b)'
  <2>1. /\ UNCHANGED <<armed, fd, admin, event, socket>> /\ p \in queued
        /\ queued' = queued \ {p} /\ self' = [self EXCEPT ![w] = p] /\ self[w] = Nobody
        /\ \A v \in Workers \ {w} : pc'[v] = pc[v]
    BY <1>1, <1>3 DEF StartTask, Goto, Runs, TasksRun
  <2>2. CASE p = b
    <3>1. Usable(b) /\ b \notin armed /\ event # b /\ \A v \in Workers : self[v] # b
      BY <1>1, <2>1, <2>2 DEF BoxHeld
    <3>2. \A v \in Workers : self'[v] = b => v = w
      BY <1>1, <2>1, <3>1
    <3>. QED
      BY <2>1, <2>2, <3>1, <3>2 DEF BoxHeld, Usable
  <2>3. CASE p # b
    <3>1. \A v \in Workers : self'[v] = b => self[v] = b /\ pc'[v] = pc[v]
      BY <1>1, <2>1, <2>3
    <3>. QED
      BY <1>1, <2>1, <2>3, <3>1 DEF BoxHeld, Usable
  <2>. QED
    BY <2>2, <2>3
<1>4. ASSUME NEW p \in Peers, Notice(p) PROVE BoxHeld(b)'
  <2>1. /\ UNCHANGED <<armed, queued, fd, socket, pc, self>>
        /\ p \in armed /\ admin' = "select" /\ event' = p
    BY <1>4 DEF Notice
  <2>. QED
    BY <1>1, <2>1 DEF BoxHeld, Usable
<1>5. CASE AdminStep
  <2>1. UNCHANGED <<socket, pc, self>>
    BY <1>5 DEF AdminStep, Fire, SelectThrow, Dispatch
  <2>2. CASE Fire
    <3>1. UNCHANGED <<queued, fd, event>> /\ armed' = armed \ {event} /\ event \in armed
      BY <1>1, <2>2, Politeness DEF Fire, AdminOK
    <3>. QED
      BY <1>1, <2>1, <3>1 DEF BoxHeld, Usable
  <2>3. CASE SelectThrow
    <3>1. UNCHANGED <<armed, queued, fd>> /\ event' = Nobody /\ b # Nobody
      BY <2>3 DEF SelectThrow
    <3>. QED
      BY <1>1, <2>1, <3>1 DEF BoxHeld, Usable
  <2>4. CASE Dispatch
    <3>1. /\ UNCHANGED <<armed, fd>> /\ admin = "dispatch" /\ event' = Nobody /\ b # Nobody
          /\ queued' \in {queued, queued \cup {event}}
      BY <2>4 DEF Dispatch
    <3>. QED
      BY <1>1, <2>1, <3>1 DEF BoxHeld, Usable
  <2>. QED
    BY <1>5, <2>2, <2>3, <2>4 DEF AdminStep
<1>6. ASSUME NEW d \in Boxes, DestroyBox(d) PROVE BoxHeld(b)'
  <2>1. /\ UNCHANGED <<queued, admin, event, pc, self>> /\ armed' \subseteq armed
        /\ \A p \in Peers \ {d} : socket'[p] = socket[p] /\ fd'[p] = fd[p]
        /\ d \notin armed \cup queued /\ event # d /\ \A v \in Workers : self[v] # d
    BY <1>1, <1>6 DEF DestroyBox, CancelBox, CloseSocket, BoxKept, InHand
  <2>. QED
    BY <1>1, <2>1 DEF BoxHeld, Usable
<1>7. ASSUME NEW d \in Clients, DestroyClient(d) PROVE BoxHeld(b)'
  <2>1. /\ UNCHANGED <<queued, admin, event, pc, self>> /\ armed' \subseteq armed
        /\ \A p \in Peers \ {d} : socket'[p] = socket[p] /\ fd'[p] = fd[p]
    BY <1>1, <1>7 DEF DestroyClient, CancelClient, CloseSocket
  <2>. QED
    BY <1>1, <2>1 DEF BoxHeld, Usable
<1>8. CASE UNCHANGED vars
  BY <1>1, <1>8 DEF vars, selectorVars, BoxHeld, Usable
<1>. QED
  BY <1>2, <1>3, <1>4, <1>5, <1>6, <1>7, <1>8 DEF Next

LEMMA FailsAtKey ==
  ASSUME Polite, HeldInv, Next, NEW w \in Workers,
         self[w] \in Boxes, pc[w] # "cancel", pc'[w] = "cancel"
  PROVE  pc[w] = "unkey"
<1> USE ProxyAssumption DEF PoliteInv, TypeOK, WorkersOK, Peers, workerVars, Goto
<1>1. PoliteInv /\ BoxHeld(self[w])
  BY DEF HeldInv
<1>2. Usable(self[w]) /\ ~Leaves(self[w]) /\ ~May("box errs")
  BY <1>1, Politeness DEF BoxHeld
<1>3. ASSUME NEW v \in Workers, NEW p \in Peers, StartTask(v, p) PROVE FALSE
  <2>1. pc' \in {[pc EXCEPT ![v] = label] : label \in {"lock", "attach", "read"}}
    BY <1>3 DEF StartTask, FirstStep
  <2>. QED
    BY <1>1, <2>1
<1>4. ASSUME UNCHANGED pc PROVE FALSE
  BY <1>4
<1>5. ASSUME NEW v \in Workers \ {w}, Process(v) PROVE FALSE
  <2>1. \E label \in Labels : pc' = [pc EXCEPT ![v] = label]
    BY <1>1, <1>5 DEF Labels, Process, ReadRequest, ReadThrow, Send, Sent, Attach, Attached, WriteResult, CloseResult,
                CancelKey, CloseFd, Lock, BoxIdle, BoxThrow, BoxBreak, Register, Respond, TaskCancel,
                Resulted, NextTurn, Throw, Return, Leave
  <2>. QED
    BY <1>1, <2>1
<1>6. CASE Process(w)
  <2>1. ~(ReadRequest(w) \/ ReadThrow(w) \/ Send(w) \/ Sent(w) \/ Attach(w) \/ Attached(w))
    BY <1>1 DEF ReadRequest, ReadThrow, Send, Sent, Attach, Attached, TasksOK
  <2>2. ~BoxThrow(w) /\ ~TaskCancel(w)
    BY <1>2 DEF BoxThrow, TaskCancel
  <2>3. ASSUME Lock(w) \/ BoxIdle(w) \/ BoxBreak(w) \/ \E u \in Uids : Register(w, u) PROVE FALSE
    BY <1>1, <1>2, <2>3 DEF Lock, BoxIdle, BoxBreak, Register, NextTurn, Return, Leave
  <2>4. ASSUME \E r \in Reqs, c \in Clients : Respond(w, r, c) PROVE FALSE
    BY <1>1, <2>4 DEF Respond, NextTurn, Leave
  <2>5. ASSUME WriteResult(w) \/ CloseResult(w) \/ CloseFd(w) PROVE FALSE
    <3>1. to[w] \in Clients /\ Usable(to[w]) /\ self[w] # to[w]
      BY <1>1, <2>5, WriterFinds DEF WriteResult, CloseResult, CloseFd, Resulting
    <3>2. ~Leaves(to[w])
      BY <3>1, Politeness
    <3>3. ~WriteResult(w)
      BY <1>1, <3>1, <3>2 DEF WriteResult
    <3>4. ~CloseResult(w)
      BY <1>1, <3>1 DEF CloseResult, Usable, Resulted, NextTurn, Leave
    <3>5. ~CloseFd(w)
      BY <1>1, <3>1 DEF CloseFd, Resulted, NextTurn, Leave
    <3>. QED
      BY <2>5, <3>3, <3>4, <3>5
  <2>6. CancelKey(w)
    BY <1>6, <2>1, <2>2, <2>3, <2>4, <2>5 DEF Process
  <2>. QED
    BY <2>6 DEF CancelKey
<1>. QED
  BY <1>3, <1>4, <1>5, <1>6
     DEF Next, Notice, AdminStep, Fire, SelectThrow, Dispatch, DestroyBox, DestroyClient

(* However often a box answers, and whatever has become of the client, its *)
(* task (StdPeer::process, which calls the client's sendResult) fails at   *)
(* one place only: in Channel::closeChannel, cancelling a key that was     *)
(* listed and that select() has taken out since.                           *)
THEOREM FailsAtKeyOnly == ASSUME Polite, OwnUids PROVE Spec => BoxFailsAtKeyOnly
<1>1. Init => HeldInv
  <2> SUFFICES ASSUME Init PROVE HeldInv
    OBVIOUS
  <2>1. \A b \in Boxes : BoxHeld(b)
    BY ProxyAssumption DEF Init, BoxHeld, Usable, Peers
  <2>. QED
    BY <2>1, PoliteInit DEF HeldInv
<1>2. HeldInv /\ [Next]_vars => HeldInv'
  BY HeldStep
<1>3. HeldInv /\ [Next]_vars =>
        [\A w \in Workers :
            self[w] \in Boxes /\ pc[w] # "cancel" /\ pc'[w] = "cancel" => pc[w] = "unkey"]_vars
  BY FailsAtKey
<1>. QED
  BY <1>1, <1>2, <1>3, PTL DEF Spec, BoxFailsAtKeyOnly

-----------------------------------------------------------------------------
(* The other ends behave, and clients say nothing after their request.     *)
(* Then closing a client's socket meets no event of it, and no box is cut  *)
(* off.                                                                    *)

Quiet == Unruly = {}

(* A box is open and in somebody's hands, and no task of it has failed.    *)
BoxesRun ==
    /\ \A b \in Boxes : /\ socket[b] /\ fd[b] /\ open[b]
                        /\ b \in armed \cup queued \cup {event} \/ \E w \in Workers : self[w] = b
    /\ \A w \in Workers : pc[w] = "cancel" => self[w] \in Clients

(* A client whose request was sent is in no event; so nobody takes the key *)
(* away that a task is about to cancel, nor the descriptor Admin is about  *)
(* to take out.                                                            *)
SelectorRun ==
    /\ admin # "ended"
    /\ admin = "select" => event \in armed /\ fd[event]
    /\ \A c \in Clients : Asked(c) => c \notin queued /\ event # c
    /\ \A w \in Workers : pc[w] = "unkey" => to[w] \in armed

QuietInv == PoliteInv /\ BoxesRun /\ SelectorRun

(* What somebody writes to, or cancels, is neither Admin's nor the pool's. *)
LEMMA HandsOff ==
  ASSUME QuietInv, NEW w \in Workers
  PROVE  /\ pc[w] \in Resulting => /\ event # to[w] /\ Usable(to[w])
                                   /\ \A v \in Workers \ {w} : pc[v] \in Resulting => to[v] # to[w]
         /\ pc[w] = "cancel" => /\ self[w] \in Clients /\ event # self[w]
                                /\ \A v \in Workers : pc[v] = "unkey" => to[v] # self[w]
<1> USE DEF QuietInv, PoliteInv, Runs, TypeOK
<1>1. CASE pc[w] \in Resulting
  <2>1. to[w] \in Clients /\ self[w] \in Boxes \cup {to[w]} /\ Writes(w, to[w])
    BY <1>1 DEF TasksOK, Writes
  <2>2. Fresh(to[w]) /\ Answering(to[w])
    BY <2>1 DEF ClientRuns
  <2>3. event # to[w]
    BY <1>1, <2>1, <2>2 DEF Fresh, BoxWrites, SelectorRun
  <2>. QED
    BY <1>1, <2>1, <2>2, <2>3 DEF Answering, Writes, Resulting
<1>2. CASE pc[w] = "cancel"
  <2>1. self[w] \in Clients
    BY <1>2 DEF BoxesRun
  <2>2. Fresh(self[w]) /\ Past(self[w]) /\ Answering(self[w])
    BY <2>1 DEF ClientRuns
  <2>3. event # self[w]
    BY <2>1, <2>2 DEF Fresh, SelectorRun
  <2>4. ASSUME NEW v \in Workers, pc[v] = "unkey", to[v] = self[w] PROVE FALSE
    <3>1. Writes(v, self[w]) /\ to[v] \in armed /\ v # w
      BY <1>2, <2>4 DEF Writes, Resulting, SelectorRun
    <3>2. Asked(self[w])
      BY <2>2, <2>4, <3>1 DEF Fresh
    <3>. QED
      BY <1>2, <2>2, <3>1, <3>2 DEF Past, Answering
  <2>. QED
    BY <1>2, <2>1, <2>3, <2>4 DEF Resulting
<1>. QED
  BY <1>1, <1>2 DEF Resulting

(* What the task of a worker leaves alone, and how it can end.             *)
LEMMA QuietTask ==
  ASSUME Quiet, QuietInv, NEW w \in Workers, Process(w)
  PROVE  /\ UNCHANGED <<queued, admin, event>>
         /\ \A b \in Boxes : socket'[b] = socket[b] /\ fd'[b] = fd[b] /\ open'[b] = open[b]
         /\ \A p \in armed :
               \/ p \in armed'
               \/ pc[w] = "unkey" /\ p = to[w]
               \/ pc[w] = "cancel" /\ p = self[w]
         /\ \A p \in Peers :
               \/ fd'[p] = fd[p]
               \/ pc[w] = "closeFd" /\ p = to[w]
               \/ pc[w] = "cancel" /\ p = self[w]
         /\ \A v \in Workers \ {w} : pc'[v] = pc[v] /\ self'[v] = self[v] /\ to'[v] = to[v]
         /\ pc'[w] = "unkey" => to'[w] \in armed'
         /\ pc'[w] = "cancel" => self'[w] \in Clients
         /\ self'[w] = self[w] \/ self[w] \in Clients \cup armed'
<1> USE ProxyAssumption DEF QuietInv, PoliteInv, TypeOK, PeersOK, WorkersOK, Peers, selectorVars, workerVars, Goto
<1>1. Polite /\ \A p \in Peers : ~Leaves(p)
  BY Politeness DEF Quiet, Polite
<1>2. ~ReadThrow(w) /\ ~BoxThrow(w) /\ ~BoxBreak(w)
  <2>1. ~ReadThrow(w)
    BY <1>1, NoReadThrow
  <2>2. ASSUME pc[w] = "loop" PROVE Usable(self[w]) /\ ~Leaves(self[w]) /\ ~May("box errs")
    BY <1>1, <2>2, Politeness DEF TasksOK, BoxesRun, Usable
  <2>. QED
    BY <2>1, <2>2 DEF BoxThrow, BoxBreak
<1>3. CASE ReadRequest(w) \/ Send(w) \/ Sent(w) \/ Attach(w) \/ Attached(w)
  <2>1. self[w] \in Clients
    BY <1>3 DEF ReadRequest, Send, Sent, Attach, Attached, TasksOK
  <2>2. UNCHANGED <<queued, open, fd, admin, event, socket>> /\ armed \subseteq armed'
    BY <1>3 DEF ReadRequest, Send, Sent, Attach, Attached
  <2>3. ASSUME ReadRequest(w) PROVE pc'[w] \notin {"unkey", "cancel"} /\ UNCHANGED self
    BY <2>3 DEF ReadRequest
  <2>4. ASSUME Send(w) \/ Sent(w) \/ Attach(w) PROVE pc'[w] # "unkey" /\ UNCHANGED self
    BY <2>4 DEF Send, Sent, Attach
  <2>5. ASSUME Attached(w) PROVE pc'[w] = "idle"
    BY <2>5 DEF Attached, Return, Leave
  <2>6. \A v \in Workers \ {w} : pc'[v] = pc[v] /\ self'[v] = self[v] /\ to'[v] = to[v]
    BY <1>3 DEF ReadRequest, Send, Sent, Attach, Attached, Return, Leave
  <2>. QED
    BY <1>3, <2>1, <2>2, <2>3, <2>4, <2>5, <2>6
<1>4. CASE Lock(w) \/ BoxIdle(w) \/ \E u \in Uids : Register(w, u)
  <2>1. self[w] \in Boxes
    BY <1>4 DEF Lock, BoxIdle, Register, TasksOK
  <2>2. UNCHANGED <<queued, open, fd, admin, event, socket>> /\ armed \subseteq armed'
    BY <1>4 DEF Lock, BoxIdle, Register, Rearmed
  <2>3. CASE BoxIdle(w)
    BY <2>1, <2>2, <2>3 DEF BoxIdle, Rearmed, Return, Leave
  <2>4. CASE Lock(w)
    BY <2>1, <2>2, <2>4 DEF Lock
  <2>5. CASE \E u \in Uids : Register(w, u)
    <3>1. NextTurn(w)
      BY <1>1, <2>1, <2>5 DEF Register
    <3>. QED
      BY <2>1, <2>2, <3>1 DEF NextTurn, Leave
  <2>. QED
    BY <1>4, <2>3, <2>4, <2>5
<1>5. CASE \E r \in Reqs, c \in Clients : Respond(w, r, c)
  <2>1. UNCHANGED <<armed, queued, open, fd, admin, event, socket>>
    BY <1>5 DEF Respond
  <2>2. pc'[w] \in {"lock", "write"} /\ UNCHANGED self
    BY <1>5 DEF Respond, NextTurn, Leave
  <2>3. \A v \in Workers \ {w} : pc'[v] = pc[v] /\ to'[v] = to[v]
    BY <1>5 DEF Respond, NextTurn, Leave
  <2>. QED
    BY <2>1, <2>2, <2>3
<1>6. CASE WriteResult(w) \/ CloseResult(w) \/ CancelKey(w) \/ CloseFd(w)
  <2>1. pc[w] \in Resulting /\ to[w] \in Clients /\ self[w] \in Boxes \cup {to[w]}
    BY <1>6 DEF WriteResult, CloseResult, CancelKey, CloseFd, TasksOK, Resulting
  <2>2. Usable(to[w]) /\ ~Leaves(to[w])
    BY <1>1, <2>1, HandsOff
  <2>3. CASE WriteResult(w)
    <3>1. UNCHANGED <<armed, queued, open, fd, admin, event, socket>>
      BY <2>3 DEF WriteResult
    <3>2. \/ pc' = [pc EXCEPT ![w] = "close"] /\ UNCHANGED <<self, to>>
          \/ self[w] = to[w] /\ Throw(w)
      BY <2>2, <2>3 DEF WriteResult
    <3>. QED
      BY <2>1, <3>1, <3>2 DEF Throw, Leave
  <2>4. CASE CloseResult(w)
    <3>1. /\ UNCHANGED <<armed, queued, fd, admin, event, socket>>
          /\ \A b \in Boxes : open'[b] = open[b]
      BY <2>1, <2>4 DEF CloseResult
    <3>2. \/ Resulted(w)
          \/ pc' = [pc EXCEPT ![w] = IF to[w] \in armed THEN "unkey" ELSE "closeFd"] /\ UNCHANGED <<self, to>>
      BY <2>2, <2>4 DEF CloseResult, Usable
    <3>. QED
      BY <2>1, <3>1, <3>2 DEF Resulted, Return, NextTurn, Leave
  <2>5. CASE CancelKey(w)
    <3>1. pc[w] = "unkey" /\ to[w] \in armed
      BY <2>5 DEF CancelKey, SelectorRun
    <3>2. /\ UNCHANGED <<queued, open, fd, admin, event, socket, self, to>>
          /\ armed' = armed \ {to[w]} /\ pc' = [pc EXCEPT ![w] = "closeFd"]
      BY <2>5, <3>1 DEF CancelKey
    <3>. QED
      BY <2>1, <3>1, <3>2
  <2>6. CASE CloseFd(w)
    <3>1. /\ UNCHANGED <<armed, queued, open, admin, event, socket>>
          /\ fd' = [fd EXCEPT ![to[w]] = FALSE] /\ pc[w] = "closeFd"
      BY <2>6 DEF CloseFd
    <3>2. Resulted(w)
      BY <2>6 DEF CloseFd
    <3>3. /\ \A v \in Workers \ {w} : pc'[v] = pc[v] /\ self'[v] = self[v] /\ to'[v] = to[v]
          /\ pc'[w] \in {"idle", "lock"} /\ (self'[w] = self[w] \/ self[w] \in Clients)
      BY <2>1, <3>2 DEF Resulted, Return, NextTurn, Leave
    <3>4. /\ \A b \in Boxes : fd'[b] = fd[b]
          /\ \A p \in Peers : fd'[p] = fd[p] \/ p = to[w]
      BY <2>1, <3>1
    <3>. QED
      BY <3>1, <3>3, <3>4
  <2>. QED
    BY <1>6, <2>3, <2>4, <2>5, <2>6
<1>7. CASE TaskCancel(w)
  <2>1. self[w] \in Clients /\ pc[w] = "cancel"
    BY <1>7 DEF TaskCancel, BoxesRun
  <2>2. CancelClient(self[w]) /\ Return(w) /\ UNCHANGED <<queued, admin, event>>
    BY <1>7, <2>1 DEF TaskCancel
  <2>3. /\ \A p \in Peers \ {self[w]} : socket'[p] = socket[p] /\ fd'[p] = fd[p] /\ open'[p] = open[p]
        /\ \A p \in armed \ {self[w]} : p \in armed'
    BY <2>1, <2>2 DEF CancelClient, CloseSocket
  <2>4. /\ \A v \in Workers \ {w} : pc'[v] = pc[v] /\ self'[v] = self[v] /\ to'[v] = to[v]
        /\ pc'[w] = "idle"
    BY <2>2 DEF Return, Leave
  <2>5. \A b \in Boxes : b \in Peers \ {self[w]}
    BY <2>1
  <2>. QED
    BY <2>1, <2>2, <2>3, <2>4, <2>5
<1>. QED
  BY <1>2, <1>3, <1>4, <1>5, <1>6, <1>7 DEF Process

LEMMA QuietProcess ==
  ASSUME Quiet, OwnUids, QuietInv, NEW w \in Workers, Process(w), PoliteInv'
  PROVE  BoxesRun' /\ SelectorRun'
<1>1. BoxesRun'
  <2>1. ASSUME NEW b \in Boxes
        PROVE  b \in armed' \cup queued' \cup {event'} \/ \E v \in Workers : self'[v] = b
    <3>1. b \notin Clients
      BY ProxyAssumption
    <3>2. b \in armed => b \in armed'
      BY <3>1, QuietTask, HandsOff DEF QuietInv, PoliteInv, TypeOK, TasksOK, Resulting
    <3>3. ASSUME NEW v \in Workers, self[v] = b PROVE self'[v] = b \/ b \in armed'
      BY <3>1, <3>3, QuietTask
    <3>. QED
      BY <3>2, <3>3, QuietTask DEF QuietInv, BoxesRun
  <2>2. ASSUME NEW v \in Workers, pc'[v] = "cancel" PROVE self'[v] \in Clients
    BY <2>2, QuietTask DEF QuietInv, BoxesRun
  <2>. QED
    BY <2>1, <2>2, QuietTask DEF QuietInv, BoxesRun
<1>2. SelectorRun'
  <2>1. admin # "ended" /\ UNCHANGED <<queued, admin, event>>
    BY QuietTask DEF QuietInv, SelectorRun
  <2>2. ASSUME admin = "select" PROVE event \in armed' /\ fd'[event]
    <3>1. event \in armed /\ fd[event] /\ event \in Peers
      BY <2>2 DEF QuietInv, SelectorRun, PoliteInv, TypeOK, AdminOK
    <3>2. pc[w] \in {"unkey", "closeFd"} => event # to[w]
      BY HandsOff DEF Resulting
    <3>3. pc[w] = "cancel" => event # self[w]
      BY HandsOff
    <3>. QED
      BY <3>1, <3>2, <3>3, QuietTask
  <2>3. ASSUME NEW c \in Clients, Asked(c)' PROVE c \notin queued /\ event # c
    <3>1. CASE Asked(c)
      BY <3>1 DEF QuietInv, SelectorRun
    <3>2. CASE ~Asked(c)
      <4>2. Send(w)
        <5>1. ~(UNCHANGED sent)
          BY <2>3, <3>2, SameAsked
        <5>. QED
          BY <5>1 DEF Process, ReadRequest, ReadThrow, Sent, Attach, Attached, WriteResult, CloseResult,
                      CancelKey, CloseFd, Lock, BoxIdle, BoxThrow, BoxBreak, Register, Respond, TaskCancel,
                      boxVars
      <4>3. self[w] \in Clients /\ to[w] \in Boxes
        BY <4>2 DEF Send, QuietInv, PoliteInv, TypeOK, TasksOK
      <4>4. c = self[w]
        <5>1. PICK b \in Boxes : <<ReqUid[c], c>> \in sent'[b]
          BY <2>3 DEF Asked
        <5>2. <<ReqUid[c], c>> \notin sent[b]
          BY <3>2 DEF Asked
        <5>3. sent \in [Boxes -> SUBSET (Reqs \X Clients)]
          BY DEF QuietInv, PoliteInv, TypeOK, PeersOK
        <5>. QED
          BY <4>2, <4>3, <5>1, <5>2, <5>3 DEF Send
      <4>. QED
        BY <3>2, <4>3, <4>4 DEF QuietInv, PoliteInv, Runs, ClientRuns, Fresh
    <3>. QED
      BY <3>1, <3>2
  <2>4. ASSUME NEW v \in Workers, pc'[v] = "unkey" PROVE to'[v] \in armed'
    <3>1. CASE v = w
      BY <2>4, <3>1, QuietTask
    <3>2. CASE v # w
      <4>1. pc[v] = "unkey" /\ to'[v] = to[v] /\ to[v] \in armed
        BY <2>4, <3>2, QuietTask DEF QuietInv, SelectorRun
      <4>2. /\ pc[w] = "unkey" => to[v] # to[w]
            /\ pc[w] = "cancel" => to[v] # self[w]
        BY <3>2, <4>1, HandsOff DEF Resulting
      <4>. QED
        BY <4>1, <4>2, QuietTask
    <3>. QED
      BY <3>1, <3>2
  <2>. QED
    BY <2>1, <2>2, <2>3, <2>4 DEF SelectorRun
<1>. QED
  BY <1>1, <1>2

LEMMA QuietStep == Quiet /\ OwnUids /\ QuietInv /\ [Next]_vars => QuietInv'
<1> SUFFICES ASSUME Quiet, OwnUids, QuietInv, [Next]_vars PROVE QuietInv'
  OBVIOUS
<1>1. PoliteInv'
  BY PoliteStep DEF QuietInv, Quiet, Polite
<1> SUFFICES BoxesRun' /\ SelectorRun'
  BY <1>1 DEF QuietInv
<1> USE ProxyAssumption DEF QuietInv, PoliteInv, TypeOK, PeersOK, WorkersOK, Peers, boxVars, workerVars
<1>2. \A p \in Peers : ~Leaves(p)
  BY Politeness DEF Quiet, Polite
<1>3. CASE \E w \in Workers : Process(w)
  BY <1>1, <1>3, QuietProcess
<1>4. ASSUME NEW w \in Workers, NEW p \in Peers, StartTask(w, p) PROVE BoxesRun' /\ SelectorRun'
  <2>1. /\ UNCHANGED <<armed, open, fd, admin, event, socket, sent, to>>
        /\ queued' = queued \ {p} /\ self' = [self EXCEPT ![w] = p]
        /\ self[w] = Nobody
    BY <1>4 DEF StartTask, Runs, TasksRun
  <2>2. pc'[w] \in {"lock", "attach", "read"} /\ \A v \in Workers \ {w} : pc'[v] = pc[v]
    BY <1>4 DEF StartTask, FirstStep, Goto
  <2>3. \A c : Asked(c)' <=> Asked(c)
    BY <2>1, SameAsked
  <2>. QED
    BY <2>1, <2>2, <2>3 DEF BoxesRun, SelectorRun
<1>5. ASSUME NEW p \in Peers, Notice(p) PROVE BoxesRun' /\ SelectorRun'
  <2>1. /\ UNCHANGED <<armed, queued, open, fd, socket, sent, pc, self, to>>
        /\ p \in armed /\ fd[p] /\ admin' = "select" /\ event' = p /\ event = Nobody
    BY <1>5 DEF Notice, AdminOK
  <2>2. p \in Clients => ~Asked(p)
    BY <1>2, <1>5 DEF Notice, Talks, TalksAgain, May, Quiet, Runs, ClientRuns, Past
  <2>3. \A c : Asked(c)' <=> Asked(c)
    BY <2>1, SameAsked
  <2>4. BoxesRun'
    BY <2>1 DEF BoxesRun
  <2>5. SelectorRun'
    BY <2>1, <2>2, <2>3 DEF SelectorRun
  <2>. QED
    BY <2>4, <2>5
<1>6. ASSUME AdminStep PROVE BoxesRun' /\ SelectorRun'
  <2>1. UNCHANGED <<socket, sent, pc, self, to>>
    BY <1>6 DEF AdminStep, Fire, SelectThrow, Dispatch
  <2>2. \A c : Asked(c)' <=> Asked(c)
    BY <2>1, SameAsked
  <2>3. CASE Fire
    <3>1. /\ event \in Peers /\ UNCHANGED <<queued, open, fd, event>> /\ armed' = armed \ {event}
          /\ admin' = "dispatch"
      BY <1>2, <2>3 DEF Fire
    <3>2. \A w \in Workers : pc[w] = "unkey" => to[w] # event
      BY HandsOff DEF Resulting
    <3>. QED
      BY <2>1, <2>2, <3>1, <3>2 DEF BoxesRun, SelectorRun
  <2>4. CASE SelectThrow
    BY <2>4 DEF SelectThrow, SelectorRun
  <2>5. CASE Dispatch
    <3>1. /\ UNCHANGED <<armed, open, fd>> /\ admin' = "wait" /\ event' = Nobody
          /\ queued' = IF socket[event] /\ open[event] THEN queued \cup {event} ELSE queued
      BY <2>5 DEF Dispatch
    <3>. QED
      BY <2>1, <2>2, <3>1 DEF BoxesRun, SelectorRun
  <2>. QED
    BY <1>6, <2>3, <2>4, <2>5 DEF AdminStep
<1>7. ASSUME NEW b \in Boxes, DestroyBox(b) PROVE FALSE
  BY <1>7 DEF DestroyBox, BoxKept, InHand, BoxesRun
<1>8. ASSUME NEW d \in Clients, DestroyClient(d) PROVE BoxesRun' /\ SelectorRun'
  <2>1. UNCHANGED <<queued, admin, event, sent, pc, self, to>> /\ CancelClient(d)
    BY <1>8 DEF DestroyClient
  <2>2. d \notin armed /\ event # d
    BY <1>8 DEF DestroyClient, ClientKept, InHand
  <2>3. /\ \A p \in Peers \ {d} : socket'[p] = socket[p] /\ fd'[p] = fd[p] /\ open'[p] = open[p]
        /\ \A p : p \in armed' <=> p \in armed
    BY <2>1, <2>2 DEF CancelClient, CloseSocket
  <2>4. \A c : Asked(c)' <=> Asked(c)
    BY <2>1, SameAsked
  <2>5. event \in Peers \cup {Nobody} /\ (admin = "select" => event \in Peers \ {d})
    BY <2>2 DEF AdminOK
  <2>6. BoxesRun'
    <3>1. \A b \in Boxes : b \in Peers \ {d}
      OBVIOUS
    <3>. QED
      BY <2>1, <2>3, <3>1 DEF BoxesRun
  <2>7. SelectorRun'
    BY <2>1, <2>3, <2>4, <2>5 DEF SelectorRun
  <2>. QED
    BY <2>6, <2>7
<1>9. CASE UNCHANGED vars
  <2>1. UNCHANGED <<armed, queued, open, fd, admin, event, socket, sent, pc, self, to>>
    BY <1>9 DEF vars, selectorVars
  <2>2. \A c : Asked(c)' <=> Asked(c)
    BY <2>1, SameAsked
  <2>. QED
    BY <2>1, <2>2 DEF BoxesRun, SelectorRun
<1> HIDE DEF QuietInv
<1>. QED
  BY <1>3, <1>4, <1>5, <1>6, <1>7, <1>8, <1>9 DEF Next

(* As long as the other ends stay and behave, and a client says nothing    *)
(* after its request, no box loses its socket: what becomes of a client,   *)
(* answered, closed, attached again after it was closed, or destroyed,     *)
(* never makes an exception in the task of a box (StdPeer::process calls   *)
(* the client's sendResult).  The Admin thread does not end either.        *)
THEOREM BoxesOutlive == ASSUME Quiet, OwnUids PROVE Spec => [](BoxOutlivesClients /\ admin # "ended")
<1>1. Init => QuietInv
  <2> SUFFICES ASSUME Init PROVE QuietInv
    OBVIOUS
  <2>1. BoxesRun /\ SelectorRun
    BY ProxyAssumption DEF Init, BoxesRun, SelectorRun, Asked, Peers
  <2>. QED
    BY <2>1, PoliteInit DEF QuietInv
<1>2. QuietInv /\ [Next]_vars => QuietInv'
  BY QuietStep
<1>3. QuietInv => BoxOutlivesClients /\ admin # "ended"
  BY DEF QuietInv, BoxesRun, SelectorRun, BoxOutlivesClients
<1>. QED
  BY <1>1, <1>2, <1>3, PTL DEF Spec
=============================================================================
