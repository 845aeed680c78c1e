-------------------------- MODULE PeerAdminProofs --------------------------
(***************************************************************************)
(* Proofs about PeerAdmin, for any number of channels, descriptors, keys   *)
(* and threads of the pool, shared and interrupted or not.                 *)
(***************************************************************************)
EXTENDS PeerAdmin, TLAPS

USE DEF Threads, Clients, Goto, FdOf

(* The initial state is well typed. *)
LEMMA TypeInit == Init => TypeOK
<1> SUFFICES ASSUME Init PROVE TypeOK
  OBVIOUS
<1> DEFINE k == CHOOSE free \in Keys : TRUE
<1>1. k \in Keys /\ ListenFd \in Fds
  BY SelectorAssumption DEF ListenFd
<1>2. tasks \in Seq(Clients) /\ published \subseteq Channels
  BY DEF Init
<1>. QED
  BY <1>1, <1>2, SelectorAssumption DEF Init, TypeOK, Labels, OnChannel
(* An operation on a channel keeps the types. *)
LEMMA OperationType ==
  ASSUME TypeOK, NEW t \in Threads, Operation(t)
  PROVE  TypeOK'
<1> USE SelectorAssumption, PeerAdminAssumption DEF TypeOK, Labels, OnChannel, selectorVars,
        channelVars, kernelVars, threadVars, adminVars
<1>1. CASE CancelKey(t) /\ UNCHANGED adminVars
  BY <1>1 DEF CancelKey
<1>2. CASE RemoveKey(t) /\ UNCHANGED adminVars
  <2> DEFINE k == key[t]
             c == keyChan[k]
             f == chanFd[c]
  <2>1. k \in Keys /\ c \in Channels \cup {NoChannel}
    BY <1>2 DEF RemoveKey
  <2>2. CASE c = NoChannel
    <3>1. pc' = [pc EXCEPT ![t] = "throw"] /\ chan[t] \in Channels
      BY <1>2, <2>2 DEF RemoveKey
    <3>2. UNCHANGED <<lock, selectorVars, channelVars, kernelVars, chan, key, after, intact, adminVars>>
      BY <1>2, <2>2 DEF RemoveKey
    <3>. QED
      BY <3>1, <3>2
  <2>3. CASE c # NoChannel
    <3>1. f \in Fds /\ intact' \in BOOLEAN
      BY <1>2, <2>1, <2>3 DEF RemoveKey, Touch
    <3>2. CASE f \in epollSet
      <4>1. /\ mKeys' = [mKeys EXCEPT ![f] = NoKey]
            /\ chanKey' = [chanKey EXCEPT ![c] = NoKey]
            /\ keyChan' = [keyChan EXCEPT ![k] = NoChannel]
            /\ epollSet' = epollSet \ {f} /\ edges' = edges \ {f}
            /\ pc' = [pc EXCEPT ![t] = after[t]]
        BY <1>2, <2>3, <3>2 DEF RemoveKey
      <4>2. chan[t] \in Channels
        BY <1>2 DEF RemoveKey
      <4>. QED
        BY <1>2, <2>1, <3>1, <4>1, <4>2 DEF RemoveKey
    <3>3. CASE f \notin epollSet
      <4>1. /\ mKeys' = [mKeys EXCEPT ![f] = NoKey] /\ UNCHANGED <<chanKey, keyChan>>
            /\ epollSet' = epollSet \ {f} /\ edges' = edges \ {f}
            /\ pc' = [pc EXCEPT ![t] = "throw"]
        BY <1>2, <2>3, <3>3 DEF RemoveKey
      <4>2. chan[t] \in Channels
        BY <1>2 DEF RemoveKey
      <4>. QED
        BY <1>2, <3>1, <4>1, <4>2 DEF RemoveKey
    <3>. QED
      BY <3>2, <3>3
  <2>. QED
    BY <2>2, <2>3
<1>3. CASE RegisterTo(t) /\ UNCHANGED adminVars
  BY <1>3 DEF RegisterTo
<1>4. CASE NewKey(t) /\ UNCHANGED adminVars
  <2> DEFINE f == FdOf(t)
             k == CHOOSE free \in FreshKeys : TRUE
             added == fdChan[f] # NoChannel /\ f \notin epollSet
  <2>1. k \in Keys /\ chan[t] \in Channels /\ f \in Fds
    BY <1>4 DEF NewKey, FreshKeys
  <2>2. intact' \in BOOLEAN
    BY <1>4 DEF NewKey, Touch
  <2>3. CASE added
    <3>1. /\ mKeys' = [mKeys EXCEPT ![f] = k]
          /\ keyChan' = [keyChan EXCEPT ![k] = chan[t]]
          /\ chanKey' = [chanKey EXCEPT ![chan[t]] = k]
          /\ epollSet' = epollSet \cup {f}
          /\ pc' = [pc EXCEPT ![t] = "done"]
      BY <1>4, <2>3 DEF NewKey
    <3>2. edges' \subseteq Fds
      <4>1. edges' = edges \cup {g \in {f} : Readable(fdChan[g])}
        BY <1>4, <2>3 DEF NewKey
      <4>. QED
        BY <4>1, <2>1
    <3>. QED
      BY <1>4, <2>1, <2>2, <3>1, <3>2 DEF NewKey
  <2>4. CASE ~added
    <3>1. /\ mKeys' = [mKeys EXCEPT ![f] = Dead] /\ UNCHANGED <<keyChan, chanKey, epollSet, edges>>
          /\ pc' = [pc EXCEPT ![t] = "throw"]
      BY <1>4, <2>4 DEF NewKey
    <3>. QED
      BY <1>4, <2>1, <2>2, <3>1 DEF NewKey
  <2>. QED
    BY <2>3, <2>4
<1>5. CASE Close(t) /\ UNCHANGED adminVars
  BY <1>5 DEF Close
<1>6. CASE CloseSet(t) /\ UNCHANGED adminVars
  BY <1>6 DEF CloseSet
<1>7. CASE CloseFd(t) /\ UNCHANGED adminVars
  BY <1>7 DEF CloseFd
<1>. QED
  BY <1>1, <1>2, <1>3, <1>4, <1>5, <1>6, <1>7 DEF Operation

(* So does a step of select(). *)
LEMMA SelectType ==
  ASSUME TypeOK, Select
  PROVE  TypeOK'
<1> USE SelectorAssumption, PeerAdminAssumption DEF TypeOK, Labels, OnChannel, selectorVars,
        channelVars, kernelVars, threadVars, adminVars
<1>1. CASE SelectBegin /\ UNCHANGED adminVars
  BY <1>1 DEF SelectBegin
<1>2. CASE SelectPoll /\ UNCHANGED adminVars
  BY <1>2 DEF SelectPoll
<1>3. CASE SelectWait /\ UNCHANGED adminVars
  <2>1. edges' \subseteq Fds /\ events' \subseteq Fds /\ errno' \in {"0", "EINTR"}
    BY <1>3 DEF SelectWait
  <2>2. lock' \in {lock, NoThread} /\ pc' \in [Threads -> Labels]
    BY <1>3 DEF SelectWait
  <2>3. \E label \in {"poll", "events"} : pc' = [pc EXCEPT ![Admin] = label]
    BY <1>3 DEF SelectWait
  <2>. QED
    BY <1>3, <2>1, <2>2, <2>3 DEF SelectWait
<1>4. CASE \E f \in Fds : SelectEvent(f) /\ UNCHANGED adminVars
  BY <1>4 DEF SelectEvent, Unwatch, ForgetKey, KeepSelected, AtEof, Touch
<1>5. CASE \E f \in Fds : SelectThrow(f) /\ UNCHANGED adminVars
  BY <1>5 DEF SelectThrow
<1>. QED
  BY <1>1, <1>2, <1>3, <1>4, <1>5 DEF Select

(* So does the rest of PeerAdmin::run. *)
LEMMA AdminType ==
  ASSUME TypeOK, AdminStep
  PROVE  TypeOK'
<1> USE SelectorAssumption, PeerAdminAssumption DEF TypeOK, Labels, OnChannel, selectorVars,
        channelVars, kernelVars, threadVars, adminVars
<1>1. CASE RunLoop
  BY <1>1 DEF RunLoop
<1>2. CASE RunSelected
  BY <1>2 DEF RunSelected
<1>3. CASE \E k \in Keys : Dispatch(k)
  BY <1>3 DEF Dispatch, IsActivePeer
<1>4. CASE DispatchEnd
  BY <1>4 DEF DispatchEnd
<1>5. CASE Accept
  <2> DEFINE c == CHOOSE free \in FreeChannels : TRUE
  <2>1. c \in Clients
    BY <1>5 DEF Accept, FreeChannels
  <2>2. PICK f \in Fds, more \in BOOLEAN :
           /\ fdChan' = [fdChan EXCEPT ![f] = c]
           /\ chanFd' = [chanFd EXCEPT ![c] = f]
           /\ active' = [active EXCEPT ![c] = TRUE]
           /\ chan' = [chan EXCEPT ![Admin] = c]
           /\ data' = [data EXCEPT ![Listener] = more]
    BY <1>5 DEF Accept, FreeFds
  <2>. QED
    BY <1>5, <2>1, <2>2 DEF Accept
<1>6. CASE AcceptFail
  BY <1>6 DEF AcceptFail
<1>7. CASE AdminDone
  BY <1>7 DEF AdminDone
<1>8. CASE AdminThrow
  <2>1. CASE chan[Admin] \in Clients /\ lock # Admin
    BY <1>8, <2>1 DEF AdminThrow, Caught
  <2>2. CASE ~(chan[Admin] \in Clients /\ lock # Admin)
    <3>1. pc' = [pc EXCEPT ![Admin] = "failed"] /\ lock' = NoThread /\ enabled' = FALSE
      BY <1>8, <2>2 DEF AdminThrow, Caught
    <3>2. UNCHANGED <<mKeys, pendingKeys, events, errno, channelVars, kernelVars, chan, key, after,
                      intact, adminVars>>
      BY <1>8 DEF AdminThrow, Caught
    <3>. QED
      BY <3>1, <3>2
  <2>. QED
    BY <2>1, <2>2
<1>9. CASE Select
  BY <1>9, SelectType
<1>10. CASE Operation(Admin)
  BY <1>10, OperationType
<1>. QED
  BY <1>1, <1>2, <1>3, <1>4, <1>5, <1>6, <1>7, <1>8, <1>9, <1>10 DEF AdminStep

(* So does a task of the pool. *)
LEMMA WorkerType ==
  ASSUME TypeOK, NEW w \in Workers, WorkerStep(w)
  PROVE  TypeOK'
<1> USE SelectorAssumption, PeerAdminAssumption DEF TypeOK, Labels, OnChannel, selectorVars,
        channelVars, kernelVars, threadVars, adminVars
<1>1. CASE StartTask(w)
  BY <1>1 DEF StartTask
<1>2. CASE Read(w)
  BY <1>2 DEF Read
<1>3. CASE Attach(w)
  BY <1>3 DEF Attach
<1>4. CASE Finish(w)
  BY <1>4 DEF Finish
<1>5. CASE Break(w)
  BY <1>5 DEF Break
<1>6. CASE TaskDone(w)
  BY <1>6 DEF TaskDone
<1>7. CASE TaskThrow(w)
  BY <1>7 DEF TaskThrow
<1>8. CASE Operation(w)
  BY <1>8, OperationType
<1>. QED
  BY <1>1, <1>2, <1>3, <1>4, <1>5, <1>6, <1>7, <1>8 DEF WorkerStep

(* Every state of every execution is well typed. *)
THEOREM TypeCorrect == Spec => []TypeOK
<1>1. TypeOK /\ [Next]_vars => TypeOK'
  <2> SUFFICES ASSUME TypeOK, [Next]_vars PROVE TypeOK'
    OBVIOUS
  <2>1. CASE AdminStep
    BY <2>1, AdminType
  <2>2. CASE \E w \in Workers : WorkerStep(w)
    BY <2>2, WorkerType
  <2>3. CASE \E c \in Channels : Arrive(c)
    <3>1. data' \in [Channels -> BOOLEAN] /\ eof' \in [Channels -> BOOLEAN] /\ edges' \subseteq Fds
      BY <2>3 DEF Arrive, TypeOK
    <3>. QED
      BY <2>3, <3>1 DEF Arrive, TypeOK, selectorVars, channelVars, threadVars, adminVars
  <2>4. CASE Cancel
    BY <2>4 DEF Cancel, TypeOK, channelVars, kernelVars, threadVars, adminVars
  <2>5. CASE UNCHANGED vars
    BY <2>5 DEF TypeOK, vars, vars0, selectorVars, channelVars, kernelVars, threadVars, adminVars
  <2>6. ASSUME NEW w \in Workers, NEW c \in Clients, Respond(w, c) PROVE TypeOK'
    BY <2>6, SelectorAssumption
    DEF Respond, TypeOK, Labels, OnChannel, selectorVars, channelVars, kernelVars
  <2>. QED
    BY <2>1, <2>2, <2>3, <2>4, <2>5, <2>6 DEF Next
<1>. QED
  BY TypeInit, <1>1, PTL DEF Spec
(* The labels at which Admin is when it holds the mutex, and why an        *)
(* operation it runs there cannot leave them: SelectionKey::cancel returns *)
(* to closeChannel.                                                        *)
MutexInv ==
    /\ MutexInsideSelect
    /\ lock = Admin /\ pc[Admin] \in {"cancel", "remove"} => after[Admin] = "closeFd"

LEMMA MutexStep == TypeOK /\ MutexInv /\ [Next]_vars => MutexInv'
<1> USE SelectorAssumption DEF MutexInv, MutexInsideSelect
<1> SUFFICES ASSUME TypeOK, MutexInv, [Next]_vars PROVE MutexInv'
  OBVIOUS
<1> USE DEF selectorVars, channelVars, kernelVars, threadVars, adminVars
<1>1. Admin \in Threads /\ pc \in [Threads -> Labels] /\ lock \in {NoThread, Admin}
      /\ after \in [Threads -> {"newKey", "closeFd"}]
  BY DEF TypeOK
<1>2. ASSUME NEW t \in Threads, Operation(t) PROVE MutexInv'
  <2> USE <1>1
  <2>1. CASE CancelKey(t)   BY <2>1 DEF CancelKey
  <2>2. CASE RemoveKey(t)
    <3>1. pc' = [pc EXCEPT ![t] = "throw"] \/ pc' = [pc EXCEPT ![t] = after[t]]
      BY <2>2 DEF RemoveKey
    <3>. QED
      BY <2>2, <3>1 DEF RemoveKey
  <2>3. CASE RegisterTo(t)  BY <2>3 DEF RegisterTo
  <2>4. CASE NewKey(t)
    <3>1. pc[t] = "newKey" /\ t # Admin => pc'[Admin] = pc[Admin]
      BY <2>4 DEF NewKey
    <3>2. lock' = lock /\ after' = after /\ pc[t] = "newKey"
      BY <2>4 DEF NewKey
    <3>. QED
      BY <3>1, <3>2
  <2>5. CASE Close(t)       BY <2>5 DEF Close
  <2>6. CASE CloseSet(t)    BY <2>6 DEF CloseSet
  <2>7. CASE CloseFd(t)     BY <2>7 DEF CloseFd
  <2>. QED
    BY <1>2, <2>1, <2>2, <2>3, <2>4, <2>5, <2>6, <2>7 DEF Operation
<1>3. CASE Select
  <2>1. CASE SelectBegin    BY <1>1, <2>1 DEF SelectBegin
  <2>2. CASE SelectPoll     BY <1>1, <2>2 DEF SelectPoll
  <2>3. CASE SelectWait
    <3>1. \E label \in {"poll", "events"} : pc' = [pc EXCEPT ![Admin] = label]
      BY <2>3 DEF SelectWait
    <3>. QED
      BY <1>1, <3>1
  <2>4. CASE \E f \in Fds : SelectEvent(f)
    <3>1. pc[Admin] = "events" /\ (pc' = pc \/ pc' = [pc EXCEPT ![Admin] = "close"])
      BY <2>4 DEF SelectEvent
    <3>. QED
      BY <1>1, <3>1
  <2>5. CASE \E f \in Fds : SelectThrow(f)
    BY <1>1, <2>5 DEF SelectThrow
  <2>. QED
    BY <1>3, <2>1, <2>2, <2>3, <2>4, <2>5 DEF Select
<1>4. CASE AdminStep
  <2>1. CASE RunLoop        BY <1>1, <2>1 DEF RunLoop
  <2>2. CASE RunSelected    BY <1>1, <2>2 DEF RunSelected
  <2>3. CASE \E k \in Keys : Dispatch(k)
    BY <1>1, <2>3 DEF Dispatch
  <2>4. CASE DispatchEnd    BY <1>1, <2>4 DEF DispatchEnd
  <2>5. CASE Accept         BY <1>1, <2>5 DEF Accept
  <2>6. CASE AcceptFail     BY <1>1, <2>6 DEF AcceptFail
  <2>7. CASE AdminDone      BY <1>1, <2>7 DEF AdminDone
  <2>8. CASE AdminThrow     BY <1>1, <2>8 DEF AdminThrow
  <2>. QED
    BY <1>1, <1>2, <1>3, <1>4, <2>1, <2>2, <2>3, <2>4, <2>5, <2>6, <2>7, <2>8 DEF AdminStep
<1>5. ASSUME NEW w \in Workers, WorkerStep(w) PROVE MutexInv'
  <2>1. w \in Threads /\ w # Admin
    OBVIOUS
  <2>2. CASE Operation(w)
    BY <1>2, <2>1, <2>2
  <2>3. CASE \/ StartTask(w) \/ Read(w) \/ Attach(w) \/ Finish(w) \/ Break(w)
             \/ TaskDone(w) \/ TaskThrow(w)
    <3>1. lock' = lock /\ after'[Admin] = after[Admin]
          /\ \E label \in Labels : pc' = [pc EXCEPT ![w] = label]
      BY <1>1, <2>1, <2>3
      DEF StartTask, Read, Attach, Finish, Break, TaskDone, TaskThrow, Labels
    <3>. QED
      BY <1>1, <2>1, <3>1
  <2>. QED
    BY <1>5, <2>2, <2>3 DEF WorkerStep
<1>9. ASSUME NEW w \in Workers, NEW c \in Clients, Respond(w, c) PROVE MutexInv'
  BY <1>1, <1>9 DEF Respond
<1>6. CASE \E c \in Channels : Arrive(c)
  BY <1>6 DEF Arrive
<1>7. CASE Cancel
  BY <1>7 DEF Cancel
<1>8. CASE UNCHANGED vars
  BY <1>8 DEF vars, vars0
<1>. QED
  BY <1>4, <1>5, <1>6, <1>7, <1>8, <1>9 DEF Next

LEMMA AlwaysMutex == Spec => []MutexInv
<1>1. Init => MutexInv
  BY SelectorAssumption DEF Init, MutexInv, MutexInsideSelect
<1>. QED
  BY <1>1, MutexStep, TypeCorrect, PTL DEF Spec

(* Whatever select() and the operations it calls do, the selector's mutex  *)
(* is not held once select() is left, by an exception included.            *)
THEOREM MutexReleased == Spec => []MutexInsideSelect
<1>1. MutexInv => MutexInsideSelect
  BY DEF MutexInv
<1>. QED
  BY <1>1, AlwaysMutex, PTL

-----------------------------------------------------------------------------
(* No connection is forgotten, however many tasks use it.  Inductive with  *)
(* what threads have in their hands: a key that is to be cancelled is the  *)
(* thread's own channel's or has none, and ::close comes after m_active.   *)
Closing(t) == pc[t] = "closeFd" \/ (pc[t] \in {"cancel", "remove"} /\ after[t] = "closeFd")
Hands ==
    /\ \A c \in Channels : chanKey[c] # NoKey => keyChan[chanKey[c]] = c
    /\ \A t \in Threads : pc[t] \in {"cancel", "remove"} => keyChan[key[t]] \in {chan[t], NoChannel}
    /\ \A t \in Threads : Closing(t) => ~active[chan[t]]
    /\ \A w \in Workers : pc[w] = "idle" => chan[w] = NoChannel
    /\ pc[Admin] \in {"run", "select", "poll", "wait", "events", "dispatch", "accept"}
          => chan[Admin] = NoChannel

(* The lists of selected keys: the selector's while select() has the lock, *)
(* run()'s afterwards.                                                     *)
Lists ==
    /\ pc[Admin] \in {"wait", "events"} => lock = Admin
    /\ pc[Admin] \in {"poll", "wait"} => pendingKeys = {}
    /\ selected \subseteq pendingKeys
    /\ pc[Admin] \in {"run", "select", "poll", "wait", "events"} \/ lock = Admin => selected = {}

Kept(c) ==
    \/ \E t \in Threads : HandledBy(t, c)
    \/ Queued(c)
    \/ \E k \in PendingNow : keyChan[k] = c
    \/ chanKey[c] # NoKey
Serving == enabled /\ (pc[Admin] = "throw" => Caught)
NoneForgotten == Serving => \A c \in Clients : active[c] /\ c \notin Mute => Kept(c)

KeptInv == MutexInv /\ Hands /\ Lists /\ NoneForgotten

LEMMA KeptInit == Init => Hands /\ Lists /\ NoneForgotten
<1> SUFFICES ASSUME Init PROVE Hands /\ Lists /\ NoneForgotten
  OBVIOUS
<1> DEFINE k == CHOOSE free \in Keys : TRUE
<1>1. k \in Keys
  BY SelectorAssumption
<1>2. /\ chanKey = [c \in Channels |-> IF c = Listener THEN k ELSE NoKey]
      /\ keyChan = [x \in Keys |-> IF x = k THEN Listener ELSE NoChannel]
      /\ active = [c \in Channels |-> c = Listener]
      /\ pc = [t \in Threads |-> IF t = Admin THEN "run" ELSE "idle"]
      /\ chan = [t \in Threads |-> NoChannel]
      /\ pendingKeys = {} /\ selected = {} /\ lock = NoThread
  BY DEF Init
<1> HIDE DEF k
<1>3. Hands
  BY <1>1, <1>2, SelectorAssumption DEF Hands, Closing, Threads
<1>4. Lists
  BY <1>2, SelectorAssumption DEF Lists, Threads
<1>5. NoneForgotten
  BY <1>2 DEF NoneForgotten, Clients
<1>. QED
  BY <1>3, <1>4, <1>5

(* The steps of a task but the channel operations.                         *)
LEMMA TaskKept ==
  ASSUME TypeOK, KeptInv, NEW w \in Workers,
         \/ StartTask(w) \/ Read(w) \/ Attach(w) \/ Finish(w) \/ Break(w) \/ TaskDone(w) \/ TaskThrow(w)
         \/ \E c \in Clients : Respond(w, c)
  PROVE  Hands' /\ Lists' /\ NoneForgotten'
<1> USE SelectorAssumption DEF selectorVars, channelVars, kernelVars, adminVars
<1>t. /\ pc \in [Threads -> Labels] /\ chan \in [Threads -> Channels \cup {NoChannel}]
      /\ key \in [Threads -> Keys \cup {NoKey}] /\ after \in [Threads -> {"newKey", "closeFd"}]
      /\ lock \in {NoThread, Admin} /\ tasks \in Seq(Clients)
      /\ Hands /\ Lists /\ NoneForgotten
  BY DEF TypeOK, KeptInv
<1>1. /\ \A u \in Threads \ {w} : pc'[u] = pc[u] /\ chan'[u] = chan[u] /\ key'[u] = key[u] /\ after'[u] = after[u]
      /\ UNCHANGED <<lock, enabled, pendingKeys, active, chanKey, keyChan, selected>>
      /\ pc'[w] \in {"idle", "process", "processed", "registerTo", "close", "throw", "done"}
      /\ pc'[w] = "idle" => chan'[w] = NoChannel
  BY <1>t DEF StartTask, Read, Attach, Finish, Break, TaskDone, TaskThrow, Respond
<1>2. Hands'
  BY <1>t, <1>1 DEF Hands, Closing
<1>3. Lists'
  BY <1>t, <1>1 DEF Lists
<1>4. ASSUME NEW c \in Clients, Kept(c), c \notin Mute' PROVE Kept(c)'
  <2>1. \A u \in Threads \ {w} : HandledBy(u, c) => HandledBy(u, c)'
    BY <1>1 DEF HandledBy
  <2>2. HandledBy(w, c) => HandledBy(w, c)'
    <3>1. CASE Break(w)
      BY <1>4, <3>1 DEF HandledBy, Break, Mute
    <3>2. CASE ~Break(w)
      BY <1>t, <1>1, <3>2 DEF HandledBy, StartTask, Read, Attach, Finish, TaskDone, TaskThrow, Respond, Hands
    <3>. QED
      BY <3>1, <3>2
  <2>3. Queued(c) => Queued(c)' \/ HandledBy(w, c)'
    <3>1. CASE StartTask(w)
      <4>1. /\ Len(tasks) \in Nat \ {0} /\ DOMAIN tasks = 1..Len(tasks)
            /\ DOMAIN tasks' = 1..(Len(tasks) - 1)
            /\ \A i \in 1..(Len(tasks) - 1) : tasks'[i] = tasks[i + 1]
            /\ Head(tasks) = tasks[1]
        BY <1>t, <3>1 DEF StartTask
      <4>2. ASSUME NEW i \in DOMAIN tasks, tasks[i] = c, i # 1 PROVE Queued(c)'
        <5>1. i - 1 \in 1..(Len(tasks) - 1) /\ tasks'[i - 1] = tasks[(i - 1) + 1] /\ (i - 1) + 1 = i
          BY <4>1, <4>2
        <5>. QED
          BY <4>1, <4>2, <5>1 DEF Queued
      <4>3. tasks[1] = c => HandledBy(w, c)'
        BY <1>t, <3>1, <4>1 DEF StartTask, HandledBy
      <4>. QED
        BY <4>2, <4>3 DEF Queued
    <3>2. CASE ~StartTask(w)
      <4>1. tasks' = tasks
        BY <3>2 DEF Read, Attach, Finish, Break, TaskDone, TaskThrow, Respond
      <4>. QED
        BY <4>1 DEF Queued
    <3>. QED
      BY <3>1, <3>2
  <2>. QED
    BY <1>1, <1>4, <2>1, <2>2, <2>3 DEF Kept, PendingNow
<1>5. Serving' => Serving
  BY <1>1 DEF Serving, Caught
<1>6. ASSUME NEW c \in Clients, c \in Mute, c \notin Mute' PROVE Kept(c)'
  <2>1. Respond(w, c)
    BY <1>6 DEF Mute, StartTask, Read, Attach, Finish, Break, TaskDone, TaskThrow, Respond
  <2>2. HandledBy(w, c)'
    BY <1>t, <2>1 DEF Respond, HandledBy
  <2>. QED
    BY <2>2 DEF Kept
<1>7. NoneForgotten'
  BY <1>t, <1>1, <1>4, <1>5, <1>6 DEF NoneForgotten
<1>. QED
  BY <1>2, <1>3, <1>7

(* What every step keeps that is one of thread t and leaves the lock, the  *)
(* queue and the lists alone.                                              *)
LEMMA OthersKept ==
  ASSUME NEW t \in Threads, NEW c \in Clients, Kept(c),
         \A u \in Threads \ {t} : pc'[u] = pc[u] /\ chan'[u] = chan[u],
         UNCHANGED <<lock, tasks, pendingKeys, selected>>,
         HandledBy(t, c) => Kept(c)',
         \A k \in PendingNow : keyChan[k] = c => keyChan'[k] = c \/ Kept(c)',
         chanKey[c] # NoKey => Kept(c)'
  PROVE  Kept(c)'
<1>1. \A u \in Threads \ {t} : HandledBy(u, c) => HandledBy(u, c)'
  BY DEF HandledBy
<1>2. PendingNow' = PendingNow /\ (Queued(c)' <=> Queued(c))
  BY DEF PendingNow, Queued
<1>. QED
  BY <1>1, <1>2 DEF Kept

LEMMA OperationKept ==
  ASSUME TypeOK, KeptInv, NEW t \in Threads, Operation(t)
  PROVE  Hands' /\ Lists' /\ NoneForgotten'
<1> USE SelectorAssumption DEF selectorVars, channelVars, kernelVars, adminVars
<1>t. /\ pc \in [Threads -> Labels] /\ chan \in [Threads -> Channels \cup {NoChannel}]
      /\ key \in [Threads -> Keys \cup {NoKey}] /\ after \in [Threads -> {"newKey", "closeFd"}]
      /\ lock \in {NoThread, Admin} /\ chanKey \in [Channels -> Keys \cup {NoKey}]
      /\ keyChan \in [Keys -> Channels \cup {NoChannel}] /\ active \in [Channels -> BOOLEAN]
      /\ pendingKeys \subseteq Keys /\ selected \subseteq Keys
      /\ Hands /\ Lists /\ NoneForgotten
      /\ lock = Admin /\ pc[Admin] \in {"cancel", "remove"} => after[Admin] = "closeFd"
      /\ pc[t] \in OnChannel => chan[t] \in Channels
      /\ pc[t] \in {"cancel", "remove"} => key[t] \in Keys
  BY DEF TypeOK, KeptInv, MutexInv
<1>1. /\ \A u \in Threads \ {t} : pc'[u] = pc[u] /\ chan'[u] = chan[u] /\ key'[u] = key[u] /\ after'[u] = after[u]
      /\ UNCHANGED <<lock, enabled, pendingKeys, tasks, selected, chan>>
      /\ pc[t] \in {"cancel", "remove", "registerTo", "newKey", "close", "closeSet", "closeFd"}
      /\ chan[t] \in Channels
      /\ pc'[t] \notin {"idle", "run", "select", "poll", "wait", "events", "dispatch", "accept"}
  <2>1. pc[t] \in {"cancel", "remove", "registerTo", "newKey", "close", "closeSet", "closeFd"}
    BY DEF Operation, CancelKey, RemoveKey, RegisterTo, NewKey, Close, CloseSet, CloseFd
  <2>2. chan[t] \in Channels
    BY <1>t, <2>1 DEF OnChannel
  <2>3. /\ UNCHANGED <<lock, enabled, pendingKeys, tasks, selected, chan>>
        /\ \A u \in Threads \ {t} : key'[u] = key[u] /\ after'[u] = after[u]
    BY <1>t DEF Operation, CancelKey, RemoveKey, RegisterTo, NewKey, Close, CloseSet, CloseFd
  <2>4. PICK label \in {"remove", "newKey", "closeFd", "throw", "cancel", "closeSet", "done"} :
          pc' = [pc EXCEPT ![t] = label]
    BY <1>t, <2>1 DEF Operation, CancelKey, RemoveKey, RegisterTo, NewKey, Close, CloseSet, CloseFd
  <2>5. pc'[t] = label /\ \A u \in Threads \ {t} : pc'[u] = pc[u]
    BY <1>t, <2>4
  <2>. QED
    BY <2>1, <2>2, <2>3, <2>5
<1>2. Lists'
  BY <1>t, <1>1 DEF Lists
<1>3. Serving' => Serving
  BY <1>1 DEF Serving, Caught
<1> DEFINE Keeps == \A c \in Clients : active'[c] => active[c] /\ (Kept(c) => Kept(c)')
<1>4. ASSUME CancelKey(t) PROVE Hands' /\ Keeps
  <2>1. UNCHANGED <<key, active, chanKey, keyChan>> /\ pc[t] = "cancel" /\ pc'[t] \in {"remove", after[t]}
        /\ after' = after
    BY <1>t, <1>4 DEF CancelKey
  <2>2. Hands'
    BY <1>t, <1>1, <2>1 DEF Hands, Closing
  <2>3. Keeps
    <3> SUFFICES ASSUME NEW c \in Clients, Kept(c) PROVE Kept(c)'
      BY <2>1
    <3>1. HandledBy(t, c) => HandledBy(t, c)'
      BY <1>t, <1>1, <2>1 DEF HandledBy
    <3>. QED
      BY <1>1, <2>1, <3>1, OthersKept DEF Kept
  <2>. QED
    BY <2>2, <2>3
<1>5. ASSUME RemoveKey(t) PROVE Hands' /\ Keeps
  <2> DEFINE c0 == keyChan[key[t]]
  <2>1. /\ UNCHANGED <<key, after, active>> /\ pc[t] = "remove" /\ key[t] \in Keys
        /\ \/ UNCHANGED <<keyChan, chanKey>> /\ pc'[t] = "throw"
           \/ /\ c0 # NoChannel /\ pc'[t] = after[t]
              /\ chanKey' = [chanKey EXCEPT ![c0] = NoKey]
              /\ keyChan' = [keyChan EXCEPT ![key[t]] = NoChannel]
    BY <1>t, <1>5 DEF RemoveKey
  <2>2. CASE UNCHANGED <<keyChan, chanKey>> /\ pc'[t] = "throw"
    <3>1. Hands'
      BY <1>t, <1>1, <2>1, <2>2 DEF Hands, Closing
    <3>2. Keeps
      <4> SUFFICES ASSUME NEW c \in Clients, Kept(c) PROVE Kept(c)'
        BY <2>1
      <4>1. HandledBy(t, c) => HandledBy(t, c)'
        BY <1>1, <2>2 DEF HandledBy
      <4>. QED
        BY <1>1, <2>2, <4>1, OthersKept DEF Kept
    <3>. QED
      BY <3>1, <3>2
  <2>3. CASE /\ c0 # NoChannel /\ pc'[t] = after[t]
             /\ chanKey' = [chanKey EXCEPT ![c0] = NoKey]
             /\ keyChan' = [keyChan EXCEPT ![key[t]] = NoChannel]
    <3>1. c0 = chan[t] /\ c0 \in Channels
      BY <1>t, <1>1, <2>1, <2>3 DEF Hands
    <3> HIDE DEF c0
    <3>2. /\ \A d \in Channels \ {c0} : chanKey'[d] = chanKey[d]
          /\ chanKey'[c0] = NoKey
          /\ \A l \in Keys \ {key[t]} : keyChan'[l] = keyChan[l]
          /\ keyChan'[key[t]] = NoChannel
      BY <1>t, <2>1, <2>3, <3>1
    <3>3. Hands'
      <4>1. ASSUME NEW d \in Channels, chanKey'[d] # NoKey PROVE keyChan'[chanKey'[d]] = d
        <5>1. d # c0 /\ chanKey'[d] = chanKey[d] /\ keyChan[chanKey[d]] = d
          BY <1>t, <3>2, <4>1 DEF Hands
        <5>2. chanKey[d] \in Keys \ {key[t]}
          BY <1>t, <4>1, <5>1 DEF c0
        <5>. QED
          BY <3>2, <5>1, <5>2
      <4>2. ASSUME NEW u \in Threads, pc'[u] \in {"cancel", "remove"} PROVE keyChan'[key'[u]] \in {chan'[u], NoChannel}
        <5>1. u # t /\ keyChan[key[u]] \in {chan[u], NoChannel} /\ key[u] \in Keys
          BY <1>t, <1>1, <2>3, <4>2 DEF Hands, TypeOK
        <5>. QED
          BY <1>1, <2>1, <3>2, <5>1
      <4>3. \A u \in Threads : Closing(u)' => ~active'[chan'[u]]
        BY <1>t, <1>1, <2>1, <2>3 DEF Hands, Closing
      <4>. QED
        BY <1>t, <1>1, <4>1, <4>2, <4>3 DEF Hands
    <3>4. Keeps
      <4> SUFFICES ASSUME NEW c \in Clients, Kept(c), active[c] PROVE Kept(c)'
        BY <2>1
      <4>1. c = c0 => HandledBy(t, c)'
        <5>1. lock = t => ~active[c0]
          BY <1>t, <2>1, <3>1 DEF Hands, Closing
        <5>2. pc'[t] # "done" /\ lock' = lock /\ chan'[t] = c0
          BY <1>t, <1>1, <2>3, <3>1
        <5>. QED
          BY <5>1, <5>2 DEF HandledBy
      <4>2. HandledBy(t, c) => Kept(c)'
        BY <3>1, <4>1 DEF HandledBy, Kept
      <4>3. ASSUME NEW k \in PendingNow, keyChan[k] = c, c # c0 PROVE keyChan'[k] = c
        <5>1. k \in Keys \ {key[t]}
          BY <1>t, <4>3 DEF c0, PendingNow
        <5>. QED
          BY <3>2, <4>3, <5>1
      <4>4. c = c0 => Kept(c)'
        BY <4>1 DEF Kept
      <4>5. c # c0 /\ chanKey[c] # NoKey => Kept(c)'
        BY <3>2 DEF Kept
      <4>. QED
        BY <1>1, <4>2, <4>3, <4>4, <4>5, OthersKept
    <3>. QED
      BY <3>3, <3>4
  <2>. QED
    BY <2>1, <2>2, <2>3
<1>6. ASSUME RegisterTo(t) \/ CloseSet(t) PROVE Hands' /\ Keeps
  <2>1. /\ UNCHANGED <<chanKey, keyChan>> /\ key'[t] = chanKey[chan[t]]
        /\ pc'[t] \in {"cancel", "remove"} => chanKey[chan[t]] # NoKey
        /\ pc'[t] \in {"newKey", "closeFd", "cancel"}
        /\ Closing(t)' => ~active'[chan[t]]
        /\ \A d \in Channels : active'[d] => active[d]
        /\ \A d \in Channels : active[d] /\ d # chan[t] => active'[d]
    BY <1>t, <1>1, <1>6 DEF RegisterTo, CloseSet, Closing
  <2>2. Hands'
    <3>1. \A u \in Threads : pc'[u] \in {"cancel", "remove"} => keyChan'[key'[u]] \in {chan'[u], NoChannel}
      BY <1>t, <1>1, <2>1 DEF Hands
    <3>2. \A u \in Threads : Closing(u)' => ~active'[chan'[u]]
      BY <1>t, <1>1, <2>1 DEF Hands, Closing, TypeOK, OnChannel
    <3>. QED
      BY <1>t, <1>1, <2>1, <3>1, <3>2 DEF Hands
  <2>3. Keeps
    <3> SUFFICES ASSUME NEW c \in Clients, Kept(c) PROVE Kept(c)'
      BY <2>1
    <3>1. HandledBy(t, c) => HandledBy(t, c)'
      BY <1>1, <2>1 DEF HandledBy
    <3>. QED
      BY <1>1, <2>1, <3>1, OthersKept DEF Kept
  <2>. QED
    BY <2>2, <2>3
<1>7. ASSUME NewKey(t) PROVE Hands' /\ Keeps
  <2>1. PICK k \in FreshKeys :
          /\ UNCHANGED <<key, after, active>> /\ pc[t] = "newKey"
          /\ \/ UNCHANGED <<keyChan, chanKey>> /\ pc'[t] = "throw"
             \/ /\ keyChan' = [keyChan EXCEPT ![k] = chan[t]]
                /\ chanKey' = [chanKey EXCEPT ![chan[t]] = k] /\ pc'[t] = "done"
    BY <1>t, <1>7 DEF NewKey
  <2>2. CASE UNCHANGED <<keyChan, chanKey>> /\ pc'[t] = "throw"
    <3>1. Hands'
      BY <1>t, <1>1, <2>1, <2>2 DEF Hands, Closing
    <3>2. Keeps
      <4> SUFFICES ASSUME NEW c \in Clients, Kept(c) PROVE Kept(c)'
        BY <2>1
      <4>1. HandledBy(t, c) => HandledBy(t, c)'
        BY <1>1, <2>2 DEF HandledBy
      <4>. QED
        BY <1>1, <2>2, <4>1, OthersKept DEF Kept
    <3>. QED
      BY <3>1, <3>2
  <2>3. CASE /\ keyChan' = [keyChan EXCEPT ![k] = chan[t]]
             /\ chanKey' = [chanKey EXCEPT ![chan[t]] = k] /\ pc'[t] = "done"
    <3>1. /\ k \in Keys /\ k \notin pendingKeys /\ k # NoKey
          /\ (\A d \in Channels : chanKey[d] # k) /\ (\A u \in Threads : key[u] # k)
      BY DEF FreshKeys, ReferredKeys
    <3>2. /\ \A d \in Channels \ {chan[t]} : chanKey'[d] = chanKey[d]
          /\ chanKey'[chan[t]] = k
          /\ \A l \in Keys \ {k} : keyChan'[l] = keyChan[l]
          /\ keyChan'[k] = chan[t]
      BY <1>t, <1>1, <2>3, <3>1
    <3>3. Hands'
      <4>1. \A d \in Channels : chanKey'[d] # NoKey => keyChan'[chanKey'[d]] = d
        BY <1>t, <3>1, <3>2 DEF Hands
      <4>2. ASSUME NEW u \in Threads, pc'[u] \in {"cancel", "remove"} PROVE keyChan'[key'[u]] \in {chan'[u], NoChannel}
        <5>1. u # t /\ keyChan[key[u]] \in {chan[u], NoChannel} /\ key[u] \in Keys
          BY <1>t, <1>1, <2>3, <4>2 DEF Hands, TypeOK
        <5>. QED
          BY <1>1, <2>1, <3>1, <3>2, <5>1
      <4>3. \A u \in Threads : Closing(u)' => ~active'[chan'[u]]
        BY <1>t, <1>1, <2>1, <2>3 DEF Hands, Closing
      <4>. QED
        BY <1>t, <1>1, <4>1, <4>2, <4>3 DEF Hands
    <3>4. Keeps
      <4> SUFFICES ASSUME NEW c \in Clients, Kept(c) PROVE Kept(c)'
        BY <2>1
      <4>1. c = chan[t] => Kept(c)'
        BY <3>1, <3>2 DEF Kept
      <4>2. HandledBy(t, c) => Kept(c)'
        BY <4>1 DEF HandledBy
      <4>3. chanKey[c] # NoKey => Kept(c)'
        BY <3>1, <3>2 DEF Kept
      <4>4. \A l \in PendingNow : keyChan'[l] = keyChan[l]
        BY <1>t, <3>1, <3>2 DEF PendingNow, Lists
      <4>. QED
        BY <1>1, <4>2, <4>3, <4>4, OthersKept
    <3>. QED
      BY <3>3, <3>4
  <2>. QED
    BY <2>1, <2>2, <2>3
<1>8. ASSUME Close(t) \/ CloseFd(t) PROVE Hands' /\ Keeps
  <2>1. /\ UNCHANGED <<key, after, active, chanKey, keyChan>>
        /\ pc'[t] \in {"closeSet", "done"} /\ (pc'[t] = "done" => ~active[chan[t]])
    BY <1>t, <1>8 DEF Close, CloseFd, Hands, Closing
  <2>2. Hands'
    BY <1>t, <1>1, <2>1 DEF Hands, Closing
  <2>3. Keeps
    <3> SUFFICES ASSUME NEW c \in Clients, Kept(c), active[c] PROVE Kept(c)'
      BY <2>1
    <3>1. HandledBy(t, c) => HandledBy(t, c)'
      BY <1>1, <2>1 DEF HandledBy
    <3>. QED
      BY <1>1, <2>1, <3>1, OthersKept DEF Kept
  <2>. QED
    BY <2>2, <2>3
<1>9. Hands' /\ Keeps
  <2> HIDE DEF Keeps
  <2>. QED
    BY <1>4, <1>5, <1>6, <1>7, <1>8 DEF Operation
<1>10. NoneForgotten'
  <2>1. Mute' = Mute
    BY DEF Operation, Mute
  <2>. QED
    BY <1>t, <1>3, <1>9, <2>1 DEF NoneForgotten
<1>. QED
  BY <1>2, <1>9, <1>10

(* The steps of Admin at which the queue, the channels and their keys stay *)
(* the same: only the lock, the lists and Admin's own place change.        *)
LEMMA PlaceKept ==
  ASSUME TypeOK, KeptInv, UNCHANGED <<tasks, published, active, chanKey, keyChan>>,
         \A w \in Workers : pc'[w] = pc[w] /\ chan'[w] = chan[w] /\ key'[w] = key[w] /\ after'[w] = after[w],
         {lock, lock'} \subseteq {NoThread, Admin},
         pc'[Admin] \notin {"cancel", "remove", "closeFd"},
         pc'[Admin] \in {"run", "select", "poll", "wait", "events", "dispatch", "accept"}
           => chan'[Admin] = NoChannel,
         Serving' => /\ Serving
                     /\ PendingNow \subseteq PendingNow'
                     /\ \A c \in Clients : HandledBy(Admin, c) => HandledBy(Admin, c)'
  PROVE  Hands' /\ NoneForgotten'
<1> USE SelectorAssumption
<1>1. Hands'
  BY DEF KeptInv, Hands, Closing
<1>2. ASSUME Serving', NEW c \in Clients, active'[c], c \notin Mute' PROVE Kept(c)'
  <2>1. Kept(c)
    BY <1>2 DEF KeptInv, NoneForgotten, Mute
  <2>2. \A t \in Threads : HandledBy(t, c) => HandledBy(t, c)'
    BY <1>2 DEF HandledBy
  <2>. QED
    BY <1>2, <2>1, <2>2 DEF Kept, Queued
<1>. QED
  BY <1>1, <1>2 DEF NoneForgotten

LEMMA AdminPlaceKept ==
  ASSUME TypeOK, KeptInv,
         \/ RunLoop \/ RunSelected \/ DispatchEnd \/ AcceptFail \/ AdminDone \/ AdminThrow
         \/ SelectPoll /\ UNCHANGED adminVars
         \/ SelectWait /\ UNCHANGED adminVars
         \/ \E f \in Fds : SelectThrow(f) /\ UNCHANGED adminVars
  PROVE  Hands' /\ Lists' /\ NoneForgotten'
<1> USE SelectorAssumption DEF selectorVars, channelVars, kernelVars, adminVars
<1>t. /\ pc \in [Threads -> Labels] /\ chan \in [Threads -> Channels \cup {NoChannel}]
      /\ key \in [Threads -> Keys \cup {NoKey}] /\ after \in [Threads -> {"newKey", "closeFd"}]
      /\ lock \in {NoThread, Admin} /\ Hands /\ Lists /\ MutexInsideSelect
  BY DEF TypeOK, KeptInv, MutexInv
<1>1. /\ UNCHANGED <<tasks, published, active, chanKey, keyChan>>
      /\ \A w \in Workers : pc'[w] = pc[w] /\ chan'[w] = chan[w] /\ key'[w] = key[w] /\ after'[w] = after[w]
      /\ {lock, lock'} \subseteq {NoThread, Admin}
      /\ pc'[Admin] \notin {"cancel", "remove", "closeFd"}
  <2>1. UNCHANGED <<tasks, published, active, chanKey, keyChan>>
    BY DEF RunLoop, RunSelected, DispatchEnd, AcceptFail, AdminDone, AdminThrow, SelectPoll, SelectWait, SelectThrow
  <2>2. CASE RunLoop \/ RunSelected \/ DispatchEnd
    BY <1>t, <2>1, <2>2 DEF RunLoop, RunSelected, DispatchEnd
  <2>3. CASE AcceptFail \/ AdminDone \/ AdminThrow
    BY <1>t, <2>1, <2>3 DEF AcceptFail, AdminDone, AdminThrow
  <2>4. CASE SelectPoll \/ SelectWait \/ \E f \in Fds : SelectThrow(f)
    BY <1>t, <2>1, <2>4 DEF SelectPoll, SelectWait, SelectThrow
  <2>. QED
    BY <2>2, <2>3, <2>4
<1>2. pc'[Admin] \in {"run", "select", "poll", "wait", "events", "dispatch", "accept"} => chan'[Admin] = NoChannel
  <2>1. CASE RunLoop \/ RunSelected \/ DispatchEnd
    BY <1>t, <2>1 DEF RunLoop, RunSelected, DispatchEnd, Hands
  <2>2. CASE AcceptFail \/ AdminDone \/ AdminThrow
    BY <1>t, <2>2 DEF AcceptFail, AdminDone, AdminThrow, Hands
  <2>3. CASE SelectPoll \/ SelectWait \/ \E f \in Fds : SelectThrow(f)
    BY <1>t, <2>3 DEF SelectPoll, SelectWait, SelectThrow, Hands
  <2>. QED
    BY <2>1, <2>2, <2>3
<1>3. Lists'
  <2>1. CASE RunLoop \/ RunSelected \/ DispatchEnd
    BY <1>t, <2>1 DEF RunLoop, RunSelected, DispatchEnd, Lists, MutexInsideSelect
  <2>2. CASE AcceptFail \/ AdminDone \/ AdminThrow
    BY <1>t, <2>2 DEF AcceptFail, AdminDone, AdminThrow, Lists, MutexInsideSelect
  <2>3. CASE (SelectPoll \/ SelectWait \/ \E f \in Fds : SelectThrow(f)) /\ UNCHANGED adminVars
    BY <1>t, <2>3 DEF SelectPoll, SelectWait, SelectThrow, Lists
  <2>. QED
    BY <2>1, <2>2, <2>3
<1>4. ASSUME Serving'
      PROVE  /\ Serving
             /\ PendingNow \subseteq PendingNow'
             /\ \A c \in Clients : HandledBy(Admin, c) => HandledBy(Admin, c)'
  <2>1. CASE RunLoop \/ RunSelected \/ DispatchEnd
    BY <1>t, <1>4, <2>1 DEF RunLoop, RunSelected, DispatchEnd, Serving, PendingNow, HandledBy, Lists, Hands
  <2>2. CASE AcceptFail \/ AdminDone
    <3>1. /\ UNCHANGED <<lock, pendingKeys, selected>> /\ enabled' = enabled
          /\ pc[Admin] \in {"accept", "done"} /\ (pc[Admin] = "accept" => chan[Admin] = NoChannel)
      BY <1>t, <2>2 DEF AcceptFail, AdminDone, Hands
    <3>2. Serving /\ PendingNow' = PendingNow
      BY <1>4, <3>1 DEF Serving, PendingNow
    <3>3. \A c \in Clients : ~HandledBy(Admin, c)
      BY <3>1 DEF HandledBy
    <3>. QED
      BY <3>2, <3>3
  <2>3. CASE AdminThrow
    BY <1>t, <1>4, <2>3 DEF AdminThrow, Serving, PendingNow, HandledBy
  <2>4. CASE (SelectPoll \/ SelectWait) /\ UNCHANGED adminVars
    <3>1. pc[Admin] \in {"poll", "wait"} /\ selected' = selected /\ enabled' = enabled
      BY <2>4 DEF SelectPoll, SelectWait
    <3>2. pendingKeys = {} /\ selected = {} /\ chan[Admin] = NoChannel
      BY <1>t, <3>1 DEF Lists, Hands
    <3>3. Serving /\ PendingNow = {}
      BY <1>4, <3>1, <3>2 DEF Serving, PendingNow
    <3>4. \A c \in Clients : ~HandledBy(Admin, c)
      BY <3>2 DEF HandledBy
    <3>. QED
      BY <3>3, <3>4
  <2>5. CASE \E f \in Fds : SelectThrow(f)
    BY <1>t, <1>4, <2>5 DEF SelectThrow, Serving, Caught, Hands
  <2>. QED
    BY <2>1, <2>2, <2>3, <2>4, <2>5
<1>. QED
  BY <1>1, <1>2, <1>3, <1>4, PlaceKept

(* The steps of Admin that move connections.                               *)
LEMMA AdminMoveKept ==
  ASSUME TypeOK, KeptInv,
         \/ Accept \/ \E k \in Keys : Dispatch(k)
         \/ SelectBegin /\ UNCHANGED adminVars
         \/ \E f \in Fds : SelectEvent(f) /\ UNCHANGED adminVars
  PROVE  Hands' /\ Lists' /\ NoneForgotten'
<1> USE SelectorAssumption DEF selectorVars, channelVars, kernelVars, adminVars
<1>t. /\ pc \in [Threads -> Labels] /\ chan \in [Threads -> Channels \cup {NoChannel}]
      /\ key \in [Threads -> Keys \cup {NoKey}] /\ after \in [Threads -> {"newKey", "closeFd"}]
      /\ chanKey \in [Channels -> Keys \cup {NoKey}] /\ active \in [Channels -> BOOLEAN]
      /\ keyChan \in [Keys -> Channels \cup {NoChannel}]
      /\ pendingKeys \subseteq Keys /\ selected \subseteq Keys
      /\ lock \in {NoThread, Admin} /\ Hands /\ Lists /\ MutexInsideSelect /\ NoneForgotten
  BY DEF TypeOK, KeptInv, MutexInv
<1>1. CASE Accept
  <2>1. PICK c \in FreeChannels :
          active' = [active EXCEPT ![c] = TRUE] /\ chan' = [chan EXCEPT ![Admin] = c]
    BY <1>1 DEF Accept
  <2>2. /\ UNCHANGED <<lock, enabled, pendingKeys, chanKey, keyChan, key, after, tasks, selected, published>>
        /\ pc[Admin] = "accept" /\ pc' = [pc EXCEPT ![Admin] = "registerTo"]
    BY <1>1 DEF Accept
  <2>3. c \in Clients /\ \A t \in Threads : chan[t] # c
    BY DEF FreeChannels
  <2>4. lock = NoThread /\ pc'[Admin] = "registerTo" /\ chan'[Admin] = c
        /\ (\A w \in Workers : pc'[w] = pc[w] /\ chan'[w] = chan[w])
        /\ \A d \in Channels : d # c => active'[d] = active[d]
    BY <1>t, <2>1, <2>2, <2>3 DEF MutexInsideSelect
  <2>5. Hands' /\ Lists'
    <3>1. ASSUME NEW t \in Threads, Closing(t)' PROVE ~active'[chan'[t]]
      <4>1. t # Admin /\ Closing(t) /\ chan'[t] = chan[t] /\ chan[t] \in Channels
        BY <2>2, <2>4, <3>1 DEF Closing, TypeOK, OnChannel
      <4>. QED
        BY <1>t, <2>3, <2>4, <4>1 DEF Hands
    <3>2. \A t \in Threads : pc'[t] \in {"cancel", "remove"} => keyChan'[key'[t]] \in {chan'[t], NoChannel}
      BY <1>t, <2>2, <2>4 DEF Hands
    <3>3. Hands'
      BY <1>t, <2>2, <2>4, <3>1, <3>2 DEF Hands
    <3>4. Lists'
      BY <1>t, <2>2, <2>4 DEF Lists
    <3>. QED
      BY <3>3, <3>4
  <2>6. ASSUME Serving', NEW d \in Clients, active'[d], d \notin Mute' PROVE Kept(d)'
    <3>1. CASE d = c
      BY <2>2, <2>4, <3>1 DEF Kept, HandledBy
    <3>2. CASE d # c
      <4>1. Kept(d)
        BY <1>t, <2>2, <2>4, <2>6, <3>2 DEF NoneForgotten, Serving, Mute
      <4>2. \A t \in Threads : HandledBy(t, d) => HandledBy(t, d)'
        BY <1>t, <2>2, <2>4 DEF HandledBy, Hands
      <4>. QED
        BY <2>2, <4>1, <4>2 DEF Kept, Queued, PendingNow
    <3>. QED
      BY <3>1, <3>2
  <2>. QED
    BY <2>5, <2>6 DEF NoneForgotten
<1>2. ASSUME NEW k \in Keys, Dispatch(k) PROVE Hands' /\ Lists' /\ NoneForgotten'
  <2>1. /\ UNCHANGED <<lock, enabled, pendingKeys, active, chanKey, keyChan, chan, key, after, published>>
        /\ pc[Admin] = "dispatch" /\ pc'[Admin] \in {"accept", "dispatch"} /\ selected' = selected \ {k}
        /\ \A w \in Workers : pc'[w] = pc[w]
        /\ tasks' = IF IsActivePeer(keyChan[k]) THEN Append(tasks, keyChan[k]) ELSE tasks
    BY <1>t, <1>2 DEF Dispatch
  <2>2. lock = NoThread /\ PendingNow = selected /\ PendingNow' = selected \ {k}
    BY <1>t, <2>1 DEF MutexInsideSelect, PendingNow
  <2>3. Hands' /\ Lists'
    BY <1>t, <2>1, <2>2 DEF Hands, Closing, Lists
  <2>4. ASSUME Serving', NEW d \in Clients, active'[d], d \notin Mute' PROVE Kept(d)'
    <3>1. Kept(d) /\ active[d]
      BY <1>t, <2>1, <2>4 DEF NoneForgotten, Serving, Mute
    <3>2. \A t \in Threads : HandledBy(t, d) => HandledBy(t, d)'
      BY <1>t, <2>1 DEF HandledBy
    <3>3. Queued(d) \/ keyChan[k] = d => Queued(d)'
      <4>1. CASE IsActivePeer(keyChan[k])
        <5>1. /\ Len(tasks) \in Nat /\ DOMAIN tasks = 1..Len(tasks) /\ DOMAIN tasks' = 1..(Len(tasks) + 1)
              /\ \A i \in 1..Len(tasks) : tasks'[i] = tasks[i]
              /\ tasks'[Len(tasks) + 1] = keyChan[k]
          BY <2>1, <4>1 DEF TypeOK, IsActivePeer
        <5>2. (\A i \in DOMAIN tasks : i \in DOMAIN tasks') /\ Len(tasks) + 1 \in DOMAIN tasks'
          BY <5>1
        <5>. QED
          BY <5>1, <5>2 DEF Queued
      <4>2. CASE ~IsActivePeer(keyChan[k])
        BY <2>1, <3>1, <4>2 DEF Queued, IsActivePeer
      <4>. QED
        BY <4>1, <4>2
    <3>. QED
      BY <2>1, <2>2, <3>1, <3>2, <3>3 DEF Kept
  <2>. QED
    BY <2>3, <2>4 DEF NoneForgotten
<1>3. CASE SelectBegin /\ UNCHANGED adminVars
  <2>1. /\ UNCHANGED <<lock, enabled, active, chanKey, chan, key, after, tasks, selected, published>>
        /\ pc[Admin] = "select" /\ pc' = [pc EXCEPT ![Admin] = "poll"] /\ pendingKeys' = {}
        /\ keyChan' = [k \in Keys |-> IF k \in ReferredKeys THEN keyChan[k] ELSE NoChannel]
    BY <1>3 DEF SelectBegin
  <2>2. /\ lock = NoThread /\ selected = {} /\ PendingNow = {} /\ pc'[Admin] = "poll" /\ chan[Admin] = NoChannel
        /\ \A w \in Workers : pc'[w] = pc[w]
    BY <1>t, <2>1 DEF MutexInsideSelect, Lists, PendingNow, Hands
  <2>3. Hands'
    <3>1. \A c \in Channels : chanKey[c] # NoKey => keyChan'[chanKey[c]] = keyChan[chanKey[c]]
      BY <1>t, <2>1 DEF ReferredKeys
    <3>2. \A t \in Threads : key[t] \in Keys => keyChan'[key[t]] = keyChan[key[t]]
      BY <1>t, <2>1 DEF ReferredKeys
    <3>3. \A t \in Threads : pc'[t] \in {"cancel", "remove"} => keyChan'[key[t]] \in {chan[t], NoChannel}
      BY <1>t, <2>1, <2>2, <3>2 DEF Hands, TypeOK
    <3>4. \A t \in Threads : Closing(t)' => ~active[chan[t]]
      BY <1>t, <2>1, <2>2 DEF Hands, Closing
    <3>. QED
      BY <1>t, <2>1, <2>2, <3>1, <3>3, <3>4 DEF Hands
  <2>4. Lists'
    BY <1>t, <2>1, <2>2 DEF Lists
  <2>5. ASSUME Serving', NEW d \in Clients, active'[d], d \notin Mute' PROVE Kept(d)'
    <3>1. Kept(d)
      BY <1>t, <2>1, <2>2, <2>5 DEF NoneForgotten, Serving, Mute
    <3>2. \A t \in Threads : HandledBy(t, d) => HandledBy(t, d)'
      BY <2>1, <2>2 DEF HandledBy
    <3>. QED
      BY <2>1, <2>2, <3>1, <3>2 DEF Kept, Queued
  <2>. QED
    BY <2>3, <2>4, <2>5 DEF NoneForgotten
<1>4. ASSUME NEW f \in Fds, SelectEvent(f), UNCHANGED adminVars PROVE Hands' /\ Lists' /\ NoneForgotten'
  <2>1. /\ UNCHANGED <<lock, enabled, active, keyChan, key, after, tasks, selected, published>>
        /\ pc[Admin] = "events" /\ pc'[Admin] \in {"events", "close"}
        /\ \A w \in Workers : pc'[w] = pc[w] /\ chan'[w] = chan[w]
        /\ pc'[Admin] = "events" => chan'[Admin] = chan[Admin]
        /\ \/ UNCHANGED <<pendingKeys, chanKey>>
           \/ /\ mKeys[f] \in Keys /\ pendingKeys' = pendingKeys \cup {mKeys[f]}
              /\ chanKey' = [chanKey EXCEPT ![keyChan[mKeys[f]]] = NoKey]
    BY <1>t, <1>4 DEF SelectEvent, KeepSelected
  <2>2. /\ lock = Admin /\ chan[Admin] = NoChannel /\ selected = {}
        /\ PendingNow = pendingKeys /\ PendingNow' = pendingKeys'
    BY <1>t, <2>1 DEF Lists, Hands, PendingNow
  <2>3. \A c \in Channels : chanKey'[c] # NoKey => chanKey'[c] = chanKey[c]
    BY <1>t, <2>1
  <2>4. Hands'
    <3>1. \A t \in Threads : pc'[t] \in {"cancel", "remove"} => keyChan'[key'[t]] \in {chan'[t], NoChannel}
      BY <1>t, <2>1 DEF Hands
    <3>2. \A t \in Threads : Closing(t)' => ~active'[chan'[t]]
      BY <1>t, <2>1 DEF Hands, Closing
    <3>. QED
      BY <1>t, <2>1, <2>2, <2>3, <3>1, <3>2 DEF Hands
  <2>5. Lists'
    BY <1>t, <2>1, <2>2 DEF Lists
  <2>6. ASSUME Serving', NEW d \in Clients, active'[d], d \notin Mute' PROVE Kept(d)'
    <3>1. Kept(d)
      BY <1>t, <2>1, <2>6 DEF NoneForgotten, Serving, Mute
    <3>2. \A t \in Threads : HandledBy(t, d) => HandledBy(t, d)'
      BY <2>1, <2>2 DEF HandledBy
    <3>3. PendingNow \subseteq PendingNow'
      BY <2>1, <2>2
    <3>4. chanKey[d] # NoKey => chanKey'[d] # NoKey \/ \E k \in PendingNow' : keyChan[k] = d
      BY <1>t, <2>1, <2>2
    <3>. QED
      BY <2>1, <3>1, <3>2, <3>3, <3>4 DEF Kept, Queued
  <2>. QED
    BY <2>4, <2>5, <2>6 DEF NoneForgotten
<1>. QED
  BY <1>1, <1>2, <1>3, <1>4

LEMMA KeptStep == TypeOK /\ KeptInv /\ [Next]_vars => KeptInv'
<1> SUFFICES ASSUME TypeOK, KeptInv, [Next]_vars PROVE KeptInv'
  OBVIOUS
<1>1. ASSUME AdminStep PROVE Hands' /\ Lists' /\ NoneForgotten'
  <2>1. CASE Select
    BY <2>1, AdminPlaceKept, AdminMoveKept DEF Select
  <2>2. CASE Operation(Admin)
    BY <2>2, OperationKept
  <2>3. CASE RunLoop \/ RunSelected \/ DispatchEnd \/ AcceptFail \/ AdminDone \/ AdminThrow
    BY <2>3, AdminPlaceKept
  <2>4. CASE Accept \/ \E k \in Keys : Dispatch(k)
    BY <2>4, AdminMoveKept
  <2>. QED
    BY <1>1, <2>1, <2>2, <2>3, <2>4 DEF AdminStep
<1>2. ASSUME NEW w \in Workers, WorkerStep(w) PROVE Hands' /\ Lists' /\ NoneForgotten'
  <2>1. CASE Operation(w)
    BY <2>1, OperationKept
  <2>. QED
    BY <1>2, <2>1, TaskKept DEF WorkerStep
<1>3. CASE Cancel \/ (\E c \in Channels : Arrive(c)) \/ UNCHANGED vars
  <2>1. /\ UNCHANGED <<lock, pendingKeys, active, chanKey, keyChan, pc, chan, key, after, tasks, selected,
                       published>>
        /\ enabled' => enabled
    BY <1>3 DEF Cancel, Arrive, vars, vars0, selectorVars, channelVars, kernelVars, threadVars, adminVars
  <2>2. Hands' /\ Lists'
    BY <2>1 DEF KeptInv, Hands, Closing, Lists
  <2>3. NoneForgotten'
    BY <2>1 DEF KeptInv, NoneForgotten, Serving, Caught, Kept, HandledBy, Queued, PendingNow, Mute
  <2>. QED
    BY <2>2, <2>3, MutexStep DEF KeptInv
<1>4. ASSUME NEW w \in Workers, NEW c \in Clients, Respond(w, c) PROVE Hands' /\ Lists' /\ NoneForgotten'
  BY <1>4, TaskKept
<1>. QED
  BY <1>1, <1>2, <1>3, <1>4, MutexStep DEF Next, KeptInv

(* Until the application quits or an exception ends run(), an open         *)
(* connection is watched, selected, queued or in the hands of a thread,    *)
(* even one that several tasks use and close at will: none is left without *)
(* anybody who would notice its next input, but those of the registered    *)
(* peers whose process() was left by a break (StdPeer::process).           *)
THEOREM NobodyStranded == Spec => []NoStrandedClient
<1>1. KeptInv => NoStrandedClient
  <2> SUFFICES ASSUME KeptInv, Serving, NEW c \in Clients, active[c], c \notin Mute PROVE Stage(c) # "none"
    BY DEF NoStrandedClient, Serving
  <2>1. Kept(c)
    BY DEF KeptInv, NoneForgotten
  <2>2. \/ \E w \in Workers : HandledBy(w, c)
        \/ HandledBy(Admin, c)
        \/ Queued(c)
        \/ \E k \in PendingNow : keyChan[k] = c /\ active[c]
        \/ chanKey[c] # NoKey
    BY <2>1 DEF Kept
  <2>. QED
    BY <2>2 DEF Stage
<1>2. Init /\ MutexInv => KeptInv
  BY KeptInit DEF KeptInv
<1>. QED
  BY <1>1, <1>2, KeptStep, AlwaysMutex, TypeCorrect, PTL DEF Spec
=============================================================================
