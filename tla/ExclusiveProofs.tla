-------------------------- MODULE ExclusiveProofs --------------------------
(***************************************************************************)
(* Proofs about PeerAdmin when each socket is used by one party at a time, *)
(* the way a StdPeer uses its own (Shared = {}), interrupted or not and    *)
(* whether the application quits or not: registrations agree, descriptors  *)
(* are owned, the Admin thread survives and closes at an end of file only. *)
(*                                                                         *)
(* None of these is inductive alone.  What makes them hold is the epoll    *)
(* set's one-shot protocol: a connection whose key was selected is in no   *)
(* set until somebody attaches it again, and until then it is in one       *)
(* place: selected, queued, or in the hands of one thread (OneParty), or   *)
(* mute and in nobody's (MutesApart).  So no thread ever finds a key to    *)
(* cancel, and no call of epoll_ctl fails.                                 *)
(***************************************************************************)
EXTENDS PeerAdminProofs

Exclusive == Shared = {}

Busy == {"process", "processed", "registerTo", "newKey", "close", "closeSet", "closeFd"}

(* Where threads can be: nobody cancels a key and nothing is thrown.       *)
Places ==
    /\ intact
    /\ \A t \in Threads : key[t] = NoKey
    /\ \A w \in Workers : pc[w] \in Busy \cup {"idle", "done"}
    /\ \A w \in Workers : pc[w] \in Busy => chan[w] \in Clients
    /\ \A w \in Workers : pc[w] = "idle" => chan[w] = NoChannel

(* Where Admin is, what the mutex, the events and the selected keys are.   *)
InSelect == {"wait", "events", "close", "closeSet", "closeFd"}
InRun == {"run", "select", "dispatch", "accept", "left", "registerTo", "newKey"}
AdminPlace ==
    /\ pc[Admin] \in InSelect \cup InRun \cup {"poll", "done"}
    /\ pc[Admin] \in InSelect => lock = Admin
    /\ pc[Admin] \in InRun => lock = NoThread
    /\ pc[Admin] \in {"close", "closeSet", "closeFd"} => chan[Admin] \in Clients
    /\ pc[Admin] \in {"registerTo", "newKey", "done"} => chan[Admin] \in Channels
    /\ pc[Admin] \in {"run", "select", "poll", "wait", "events", "dispatch", "accept", "left"}
          => chan[Admin] = NoChannel
    /\ pc[Admin] \in {"poll", "wait"} => pendingKeys = {} /\ events = {}
    /\ lock = NoThread => events = {}
    /\ selected \subseteq pendingKeys
    /\ selected # {} => lock = NoThread /\ pc[Admin] \in {"dispatch", "accept", "registerTo", "newKey", "done"}

Watched ==
    /\ RegistrationsAgree
    /\ events \subseteq epollSet /\ edges \subseteq epollSet

(* Descriptors: who is busy with a channel finds it open.                  *)
BusyOpen(t) ==
    /\ pc[t] \in Busy \ {"closeFd"} => active[chan[t]]
    /\ pc[t] = "closeFd" => ~active[chan[t]] /\ fdChan[chanFd[chan[t]]] = chan[t]
Owned ==
    /\ \A c \in Channels : active[c] => fdChan[chanFd[c]] = c
    /\ \A f \in Fds : fdChan[f] \in Channels =>
          /\ chanFd[fdChan[f]] = f
          /\ active[fdChan[f]] \/ \E t \in Threads : pc[t] = "closeFd" /\ chan[t] = fdChan[f]
    /\ active[Listener]
    /\ \A c \in Channels : chanKey[c] # NoKey => active[c]
    /\ \A t \in Threads : BusyOpen(t)

(* A connection is in one place: watched, selected, queued, or with a      *)
(* thread that is busy with it; Admin closes one that is selected.         *)
BusyAlone == \A t, u \in Threads : pc[t] \in Busy /\ pc[u] \in Busy /\ chan[t] = chan[u] => t = u
BusyApart(t) ==
    /\ chanKey[chan[t]] = NoKey /\ ~Queued(chan[t])
    /\ lock # t => \A k \in PendingNow : keyChan[k] # chan[t]
SelectedApart(k) == keyChan[k] \in Channels /\ chanKey[keyChan[k]] = NoKey /\ ~Queued(keyChan[k])
SelectedOnce == \A k, l \in PendingNow : keyChan[k] = keyChan[l] => k = l
QueuedOnce == \A i, j \in DOMAIN tasks : tasks[i] = tasks[j] => i = j
QueuedApart == \A c \in Clients : Queued(c) => active[c] /\ chanKey[c] = NoKey

(* The listener is in Admin's hands from the event until it is registered. *)
ListenerDue ==
    \/ pc[Admin] = "accept"
    \/ lock = NoThread /\ pc[Admin] \in {"registerTo", "newKey", "done"} /\ chan[Admin] \in Clients
ListenerApart == chanKey[Listener] = NoKey /\ \A k \in PendingNow : keyChan[k] # Listener

OneParty ==
    /\ BusyAlone
    /\ \A t \in Threads : pc[t] \in Busy => BusyApart(t)
    /\ \A k \in PendingNow : SelectedApart(k)
    /\ SelectedOnce /\ QueuedOnce /\ QueuedApart
    /\ ListenerDue => ListenerApart

(* A mute connection is open and in none of these places.                  *)
MuteApart(c) ==
    /\ c \in Clients /\ active[c] /\ chanKey[c] = NoKey /\ ~Queued(c)
    /\ \A t \in Threads : pc[t] \in Busy => chan[t] # c
    /\ \A k \in PendingNow : keyChan[k] # c
MutesApart == \A c \in Mute : MuteApart(c)

(* An event tells of input or of the end; Admin closes only at the end.    *)
AdminCloses == pc[Admin] \in {"close", "closeSet", "closeFd"}
Signalled ==
    /\ \A f \in edges \cup events : Readable(fdChan[f])
    /\ AdminCloses => eof[chan[Admin]]

Placed == Places /\ AdminPlace
ExclusiveInv == Placed /\ Watched /\ Owned /\ OneParty /\ Signalled

-----------------------------------------------------------------------------
USE SelectorAssumption, PeerAdminAssumption DEF Threads, Clients, Goto, FdOf

LEMMA PlacedInit == Init /\ Exclusive => Placed
<1> SUFFICES ASSUME Init, Exclusive PROVE Placed
  OBVIOUS
<1>1. /\ lock = NoThread /\ pendingKeys = {} /\ events = {} /\ selected = {}
      /\ chan = [t \in Threads |-> NoChannel] /\ key = [t \in Threads |-> NoKey] /\ intact
      /\ pc = [t \in Threads |-> IF t = Admin THEN "run" ELSE "idle"]
  BY DEF Init
<1>. QED
  BY <1>1 DEF Placed, Places, AdminPlace, Busy, InSelect, InRun

LEMMA ExclusiveInit == Init /\ Exclusive => ExclusiveInv
<1> SUFFICES ASSUME Init, Exclusive PROVE ExclusiveInv
  OBVIOUS
<1> DEFINE k == CHOOSE free \in Keys : TRUE
<1>1. k \in Keys /\ ListenFd \in Fds
  BY DEF ListenFd
<1> HIDE DEF k
<1>2. /\ mKeys = [f \in Fds |-> IF f = ListenFd THEN k ELSE NoKey]
      /\ chanKey = [c \in Channels |-> IF c = Listener THEN k ELSE NoKey]
      /\ keyChan = [x \in Keys |-> IF x = k THEN Listener ELSE NoChannel]
      /\ epollSet = {ListenFd} /\ edges = {} /\ events = {}
      /\ active = [c \in Channels |-> c = Listener]
      /\ chanFd = [c \in Channels |-> ListenFd]
      /\ fdChan = [f \in Fds |-> IF f = ListenFd THEN Listener ELSE NoChannel]
      /\ lock = NoThread /\ selected = {} /\ tasks = <<>>
      /\ pc = [t \in Threads |-> IF t = Admin THEN "run" ELSE "idle"]
  BY DEF Init, k
<1>3. Watched
  BY <1>1, <1>2 DEF Watched, RegistrationsAgree
<1>4. Owned
  BY <1>1, <1>2 DEF Owned, BusyOpen, Busy
<1>5. PendingNow = {} /\ \A c : ~Queued(c)
  BY <1>2 DEF PendingNow, Queued
<1>6. OneParty
  BY <1>2, <1>5 DEF OneParty, BusyAlone, BusyApart, SelectedOnce, QueuedOnce, QueuedApart,
                    ListenerDue, Busy
<1>7. Signalled
  BY <1>2 DEF Signalled, AdminCloses
<1>. QED
  BY PlacedInit, <1>3, <1>4, <1>6, <1>7 DEF ExclusiveInv

(* What a step of thread t leaves alone.                                   *)
OthersSame(t) == \A u \in Threads \ {t} : pc'[u] = pc[u] /\ chan'[u] = chan[u]
ChannelsSame == UNCHANGED <<mKeys, active, chanFd, chanKey, keyChan, epollSet, fdChan>>

(* A step in which the thread stays busy with its channel, or not busy.    *)
Quiet(t) ==
    /\ OthersSame(t) /\ ChannelsSame
    /\ events' \subseteq epollSet /\ edges' \subseteq epollSet
    /\ pc'[t] \in Busy <=> pc[t] \in Busy
    /\ pc[t] \in Busy => chan'[t] = chan[t] /\ (lock' = t <=> lock = t)
    /\ pc'[t] = "closeFd" <=> pc[t] = "closeFd"
    /\ tasks' = tasks
    /\ t # Admin => lock' = lock
    /\ {lock, lock'} \subseteq {NoThread, Admin}
    /\ PendingNow' \subseteq PendingNow
    /\ enabled' => enabled /\ PendingNow' = PendingNow
    /\ ListenerDue' => ListenerDue

LEMMA SameWatched ==
  ASSUME Watched, ChannelsSame, events' \subseteq epollSet, edges' \subseteq epollSet
  PROVE  Watched'
BY DEF Watched, RegistrationsAgree, ChannelsSame

LEMMA QuietKeeps ==
  ASSUME ExclusiveInv, NEW t \in Threads, Quiet(t)
  PROVE  Watched' /\ Owned' /\ OneParty'
<1>1. Watched'
  BY SameWatched DEF ExclusiveInv, Quiet
<1>2. Owned'
  <2>1. ASSUME NEW u \in Threads, pc[u] = "closeFd" PROVE pc'[u] = "closeFd" /\ chan'[u] = chan[u]
    BY <2>1 DEF Quiet, OthersSame, Busy
  <2>2. ASSUME NEW u \in Threads PROVE BusyOpen(u)'
    <3>1. BusyOpen(u)
      BY DEF ExclusiveInv, Owned
    <3>2. /\ pc'[u] \in Busy <=> pc[u] \in Busy
          /\ pc[u] \in Busy => chan'[u] = chan[u]
          /\ pc'[u] = "closeFd" <=> pc[u] = "closeFd"
      BY DEF Quiet, OthersSame
    <3>. QED
      BY <3>1, <3>2 DEF BusyOpen, Quiet, ChannelsSame, Busy
  <2>. QED
    BY <2>1, <2>2 DEF ExclusiveInv, Owned, Quiet, ChannelsSame
<1>3. OneParty'
  <2>1. BusyAlone'
    BY DEF ExclusiveInv, OneParty, Quiet, OthersSame, BusyAlone
  <2>2. ASSUME NEW u \in Threads, pc'[u] \in Busy PROVE BusyApart(u)'
    <3>1. pc[u] \in Busy /\ chan'[u] = chan[u] /\ (lock' # u => lock # u)
      BY <2>2 DEF Quiet, OthersSame
    <3>2. BusyApart(u)
      BY <2>2, <3>1 DEF ExclusiveInv, OneParty
    <3>. QED
      BY <3>1, <3>2 DEF BusyApart, Quiet, ChannelsSame, Queued
  <2>3. \A k \in PendingNow' : SelectedApart(k)'
    BY DEF ExclusiveInv, OneParty, SelectedApart, Quiet, ChannelsSame, Queued
  <2>4. SelectedOnce' /\ QueuedOnce' /\ QueuedApart'
    BY DEF ExclusiveInv, OneParty, SelectedOnce, QueuedOnce, QueuedApart, Quiet, ChannelsSame, Queued
  <2>5. ListenerDue' => ListenerApart'
    BY DEF ExclusiveInv, OneParty, ListenerApart, Quiet, ChannelsSame
  <2>. QED
    BY <2>1, <2>2, <2>3, <2>4, <2>5 DEF OneParty
<1>. QED
  BY <1>1, <1>2, <1>3

(* A step in which a thread takes a channel that nobody has.               *)
Takes(t, c) ==
    /\ OthersSame(t) /\ ChannelsSame
    /\ events' = events /\ edges' = edges
    /\ pc[t] \notin Busy /\ pc'[t] \in Busy \ {"closeFd"} /\ chan'[t] = c
    /\ lock' = lock /\ lock # t /\ PendingNow' = PendingNow /\ enabled' = enabled
    /\ ListenerDue' => ListenerDue

LEMMA TakesKeeps ==
  ASSUME TypeOK, ExclusiveInv, NEW t \in Threads, NEW c \in Channels, Takes(t, c),
         active[c], chanKey[c] = NoKey, \A u \in Threads : pc[u] \in Busy => chan[u] # c,
         \A k \in PendingNow : keyChan[k] # c,
         \A d \in Channels : Queued(d)' <=> Queued(d) /\ d # c, QueuedOnce'
  PROVE  Watched' /\ Owned' /\ OneParty'
<1>1. Watched'
  BY SameWatched DEF ExclusiveInv, Takes, Watched
<1>2. Owned'
  BY DEF ExclusiveInv, Takes, OthersSame, ChannelsSame, Owned, BusyOpen, Busy
<1>3. OneParty'
  <2>1. BusyAlone'
    BY DEF ExclusiveInv, OneParty, Takes, OthersSame, BusyAlone
  <2>2. ASSUME NEW u \in Threads, pc'[u] \in Busy, chan'[u] \in Channels PROVE BusyApart(u)'
    <3>1. CASE u = t
      BY <3>1 DEF BusyApart, Takes, ChannelsSame
    <3>2. CASE u # t
      <4>1. BusyApart(u) /\ pc'[u] = pc[u] /\ chan'[u] = chan[u] /\ chan[u] # c
        BY <2>2, <3>2 DEF ExclusiveInv, OneParty, Takes, OthersSame
      <4>. QED
        BY <2>2, <4>1 DEF BusyApart, Takes, ChannelsSame
    <3>. QED
      BY <3>1, <3>2
  <2>3. \A k \in PendingNow' : SelectedApart(k)'
    BY DEF ExclusiveInv, OneParty, SelectedApart, Takes, ChannelsSame
  <2>4. SelectedOnce' /\ QueuedApart'
    BY DEF ExclusiveInv, OneParty, SelectedOnce, QueuedApart, Takes, ChannelsSame
  <2>5. \A u \in Threads : pc'[u] \in Busy => chan'[u] \in Channels
    BY DEF TypeOK, OnChannel, Busy, Takes, OthersSame
  <2>6. ListenerDue' => ListenerApart'
    BY DEF ExclusiveInv, OneParty, ListenerApart, Takes, ChannelsSame
  <2>. QED
    BY <2>1, <2>2, <2>3, <2>4, <2>5, <2>6 DEF OneParty
<1>. QED
  BY <1>1, <1>2, <1>3

LEMMA SameSignalled ==
  ASSUME Signalled, edges' \subseteq edges \cup events, events' \subseteq edges \cup events,
         fdChan' = fdChan, data' = data, eof' = eof,
         AdminCloses' => AdminCloses /\ chan'[Admin] = chan[Admin]
  PROVE  Signalled'
BY DEF Signalled, Readable

LEMMA SamePlaces ==
  ASSUME Places, OthersSame(Admin), UNCHANGED <<key, intact, published>>
  PROVE  Places'
BY DEF Places, OthersSame

LEMMA SameAdminPlace ==
  ASSUME AdminPlace, NEW w \in Workers, OthersSame(w),
         UNCHANGED <<lock, pendingKeys, events, selected>>
  PROVE  AdminPlace'
BY DEF AdminPlace, OthersSame

-----------------------------------------------------------------------------
(* The steps of Admin that leave every connection where it is.             *)
LEMMA AdminQuiet ==
  ASSUME TypeOK, ExclusiveInv,
         \/ RunLoop \/ RunSelected \/ DispatchEnd
         \/ SelectPoll /\ UNCHANGED adminVars
         \/ SelectWait /\ UNCHANGED adminVars
         \/ AdminDone /\ (lock = Admin \/ chan[Admin] = Listener)
  PROVE  ExclusiveInv' /\ Quiet(Admin)
<1>t. /\ pc \in [Threads -> Labels] /\ chan \in [Threads -> Channels \cup {NoChannel}]
      /\ key \in [Threads -> Keys \cup {NoKey}] /\ lock \in {NoThread, Admin}
      /\ Places /\ AdminPlace /\ Watched /\ Owned /\ OneParty /\ Signalled
  BY DEF TypeOK, ExclusiveInv, Placed
<1> USE DEF selectorVars, channelVars, kernelVars, threadVars, adminVars
<1>1. /\ OthersSame(Admin) /\ ChannelsSame /\ UNCHANGED <<key, intact, published, tasks, data, eof>>
  BY <1>t DEF OthersSame, ChannelsSame, RunLoop, RunSelected, DispatchEnd, SelectPoll, SelectWait, AdminDone, Places
<1>2. AdminPlace'
  <2>1. CASE RunLoop
    BY <1>t, <2>1 DEF RunLoop, AdminPlace, InSelect, InRun
  <2>2. CASE RunSelected
    BY <1>t, <2>2 DEF RunSelected, AdminPlace, InSelect, InRun
  <2>3. CASE DispatchEnd
    BY <1>t, <2>3 DEF DispatchEnd, AdminPlace, InSelect, InRun
  <2>4. CASE SelectPoll /\ UNCHANGED adminVars
    BY <1>t, <2>4 DEF SelectPoll, AdminPlace, InSelect, InRun
  <2>5. CASE SelectWait /\ UNCHANGED adminVars
    BY <1>t, <2>5 DEF SelectWait, AdminPlace, InSelect, InRun
  <2>6. CASE AdminDone /\ (lock = Admin \/ chan[Admin] = Listener)
    BY <1>t, <2>6 DEF AdminDone, AdminPlace, InSelect, InRun
  <2>. QED
    BY <2>1, <2>2, <2>3, <2>4, <2>5, <2>6
<1>3. Quiet(Admin)
  <2>1. /\ events' \subseteq epollSet /\ edges' \subseteq epollSet
        /\ tasks' = tasks /\ {lock, lock'} \subseteq {NoThread, Admin}
    BY <1>t DEF RunLoop, RunSelected, DispatchEnd, SelectPoll, SelectWait, AdminDone, Watched
  <2>2. pc[Admin] \notin Busy /\ pc'[Admin] \notin Busy
    BY <1>t DEF RunLoop, RunSelected, DispatchEnd, SelectPoll, SelectWait, AdminDone, Busy
  <2>3. PendingNow' \subseteq PendingNow /\ (enabled' => enabled /\ PendingNow' = PendingNow)
    BY <1>t DEF RunLoop, RunSelected, DispatchEnd, SelectPoll, SelectWait, AdminDone, PendingNow,
                AdminPlace, InSelect, InRun
  <2>4. ListenerDue' => ListenerDue
    BY <1>t DEF RunLoop, RunSelected, DispatchEnd, SelectPoll, SelectWait, AdminDone, ListenerDue
  <2>. QED
    BY <1>1, <2>1, <2>2, <2>3, <2>4 DEF Quiet, Busy
<1>4. Signalled'
  BY <1>t, <1>1, SameSignalled DEF RunLoop, RunSelected, DispatchEnd, SelectPoll, SelectWait, AdminDone, AdminCloses
<1>. QED
  BY <1>t, <1>1, <1>2, <1>3, <1>4, QuietKeeps, SamePlaces DEF ExclusiveInv, Placed

(* The steps of channel operations that leave every connection where it is. *)
LEMMA OperationQuiet ==
  ASSUME TypeOK, ExclusiveInv, NEW t \in Threads, RegisterTo(t) \/ Close(t), UNCHANGED adminVars
  PROVE  ExclusiveInv' /\ Quiet(t)
<1>t. /\ pc \in [Threads -> Labels] /\ chan \in [Threads -> Channels \cup {NoChannel}]
      /\ key \in [Threads -> Keys \cup {NoKey}] /\ lock \in {NoThread, Admin}
      /\ Places /\ AdminPlace /\ Watched /\ Owned /\ OneParty /\ Signalled
  BY DEF TypeOK, ExclusiveInv, Placed
<1> USE DEF selectorVars, channelVars, kernelVars, threadVars, adminVars
<1>1. /\ OthersSame(t) /\ ChannelsSame
      /\ UNCHANGED <<lock, enabled, pendingKeys, events, edges, data, eof, intact, chan,
                     published, tasks, selected>>
  BY <1>t DEF OthersSame, ChannelsSame, RegisterTo, Close
<1>2. /\ pc[t] \in Busy \ {"closeFd"}
      /\ \/ pc[t] = "registerTo" /\ pc'[t] = "newKey"
         \/ pc[t] = "close" /\ pc'[t] = "closeSet"
      /\ key' = key
  <2>1. chanKey[chan[t]] = NoKey /\ active[chan[t]]
    BY <1>t DEF RegisterTo, Close, OneParty, BusyApart, Owned, BusyOpen, Busy
  <2>2. CASE RegisterTo(t)
    BY <1>t, <2>1, <2>2 DEF RegisterTo, Busy, Places
  <2>3. CASE Close(t)
    BY <1>t, <2>1, <2>3 DEF Close, Busy, Places
  <2>. QED
    BY <2>2, <2>3
<1>3. Places'
  BY <1>t, <1>1, <1>2 DEF Places, OthersSame, Busy
<1>4. AdminPlace'
  BY <1>t, <1>1, <1>2 DEF AdminPlace, OthersSame, InSelect, InRun
<1>5. Quiet(t)
  BY <1>t, <1>1, <1>2 DEF Quiet, OthersSame, Busy, Watched, PendingNow, ListenerDue
<1>6. Signalled'
  BY <1>t, <1>1, <1>2, SameSignalled DEF AdminCloses, OthersSame, ChannelsSame
<1>. QED
  BY <1>3, <1>4, <1>5, <1>6, QuietKeeps DEF ExclusiveInv, Placed

(* The steps of a task that leave every connection where it is.            *)
LEMMA TaskQuiet ==
  ASSUME TypeOK, ExclusiveInv, NEW w \in Workers,
         Read(w) \/ Attach(w) \/ Finish(w) \/ TaskDone(w)
  PROVE  ExclusiveInv' /\ Quiet(w)
<1>t. /\ pc \in [Threads -> Labels] /\ chan \in [Threads -> Channels \cup {NoChannel}]
      /\ key \in [Threads -> Keys \cup {NoKey}] /\ lock \in {NoThread, Admin}
      /\ Places /\ AdminPlace /\ Watched /\ Owned /\ OneParty /\ Signalled
  BY DEF TypeOK, ExclusiveInv, Placed
<1> USE DEF selectorVars, channelVars, kernelVars, threadVars, adminVars
<1>1. /\ OthersSame(w) /\ ChannelsSame
      /\ UNCHANGED <<lock, enabled, pendingKeys, events, edges, eof, intact, tasks, selected>>
      /\ key' = key
  BY <1>t DEF OthersSame, ChannelsSame, Read, Attach, Finish, TaskDone, Places
<1>2. \/ pc[w] = "process" /\ pc'[w] = "processed" /\ chan' = chan
      \/ pc[w] = "processed" /\ pc'[w] \in {"registerTo", "close"} /\ chan' = chan
      \/ pc[w] = "done" /\ pc'[w] = "idle" /\ chan'[w] = NoChannel
  <2>1. pc[w] = "process" => fdChan[FdOf(w)] # NoChannel
    BY <1>t DEF Owned, BusyOpen, Busy, Places
  <2>. QED
    BY <1>t, <2>1 DEF Read, Attach, Finish, TaskDone
<1>3. Places'
  BY <1>t, <1>1, <1>2 DEF Places, OthersSame, Busy
<1>4. AdminPlace'
  BY <1>t, <1>1, SameAdminPlace
<1>5. Quiet(w)
  BY <1>t, <1>1, <1>2 DEF Quiet, OthersSame, Busy, Watched, PendingNow, ListenerDue
<1>6. Signalled'
  <2>1. CASE data' = data
    BY <1>t, <1>1, <2>1, SameSignalled DEF AdminCloses, OthersSame, ChannelsSame
  <2>2. CASE Read(w)
    <3>1. SUFFICES ASSUME NEW f \in edges \cup events PROVE Readable(fdChan[f])'
      BY <1>t, <1>1 DEF Signalled, AdminCloses, OthersSame
    <3>2. f \in epollSet /\ f \in Fds
      BY <1>t DEF Watched, TypeOK
    <3>3. fdChan[f] \in Channels /\ chanKey[fdChan[f]] # NoKey
      BY <1>t, <3>2 DEF Watched, RegistrationsAgree
    <3>4. fdChan[FdOf(w)] = chan[w] /\ chanKey[chan[w]] = NoKey
      BY <1>t, <2>2 DEF Read, Owned, BusyOpen, Busy, OneParty, BusyApart, Places
    <3>5. data'[fdChan[f]] = data[fdChan[f]] /\ eof' = eof /\ fdChan' = fdChan
      <4>1. data \in [Channels -> BOOLEAN] /\ fdChan[f] # fdChan[FdOf(w)]
        BY <3>3, <3>4 DEF TypeOK
      <4>2. data' = [c \in Channels |-> data[c] /\ c # fdChan[FdOf(w)]] /\ eof' = eof
        BY <2>2 DEF Read
      <4>. QED
        BY <1>1, <3>3, <4>1, <4>2 DEF ChannelsSame
    <3>. QED
      BY <1>t, <3>5 DEF Signalled, Readable
  <2>. QED
    BY <2>1, <2>2 DEF Attach, Finish, TaskDone
<1>. QED
  BY <1>3, <1>4, <1>5, <1>6, QuietKeeps DEF ExclusiveInv, Placed

(* What arrives at a connection, and the end of the application.           *)
LEMMA OutsideQuiet ==
  ASSUME TypeOK, ExclusiveInv, Cancel \/ \E c \in Channels : Arrive(c)
  PROVE  ExclusiveInv' /\ Quiet(Admin)
<1>t. /\ data \in [Channels -> BOOLEAN] /\ eof \in [Channels -> BOOLEAN]
      /\ pc \in [Threads -> Labels] /\ lock \in {NoThread, Admin}
      /\ Places /\ AdminPlace /\ Watched /\ Signalled
  BY DEF TypeOK, ExclusiveInv, Placed
<1> USE DEF selectorVars, channelVars, kernelVars, threadVars, adminVars
<1>1. /\ UNCHANGED <<pc, chan, key, lock, pendingKeys, events, selected, tasks, published, intact>>
      /\ ChannelsSame /\ edges' \subseteq epollSet /\ (enabled' => enabled)
  BY <1>t DEF Cancel, Arrive, ChannelsSame, Watched
<1>2. Places' /\ AdminPlace'
  BY <1>t, <1>1 DEF Places, AdminPlace
<1>3. Quiet(Admin)
  BY <1>t, <1>1 DEF Quiet, OthersSame, Watched, PendingNow, ListenerDue
<1>4. Signalled'
  <2>1. CASE Cancel
    BY <1>t, <1>1, <2>1, SameSignalled DEF Cancel, AdminCloses
  <2>2. ASSUME NEW c \in Channels, Arrive(c) PROVE Signalled'
    <3>1. /\ data' = data \/ data' = [data EXCEPT ![c] = TRUE]
          /\ eof' = eof \/ eof' = [eof EXCEPT ![c] = TRUE]
          /\ data' = [data EXCEPT ![c] = TRUE] \/ eof' = [eof EXCEPT ![c] = TRUE]
          /\ edges' = edges \cup {f \in epollSet : fdChan[f] = c}
      BY <2>2 DEF Arrive
    <3>2. /\ \A d \in Channels : (data[d] => data'[d]) /\ (eof[d] => eof'[d])
          /\ data'[c] \/ eof'[c]
      BY <1>t, <3>1
    <3>3. ASSUME NEW f \in edges \cup events PROVE Readable(fdChan[f])'
      <4>1. f \in Fds /\ fdChan[f] \in Channels
        BY <1>t DEF Watched, RegistrationsAgree, TypeOK
      <4>. QED
        BY <1>t, <1>1, <3>2, <4>1 DEF Signalled, Readable, ChannelsSame
    <3>4. ASSUME NEW f \in epollSet, fdChan[f] = c PROVE Readable(fdChan[f])'
      BY <1>1, <3>2, <3>4 DEF Readable, ChannelsSame
    <3>5. AdminCloses' => eof'[chan'[Admin]]
      BY <1>t, <1>1, <3>2 DEF Signalled, AdminCloses, AdminPlace
    <3>. QED
      BY <1>1, <3>1, <3>3, <3>4, <3>5 DEF Signalled
  <2>. QED
    BY <2>1, <2>2
<1>. QED
  BY <1>2, <1>3, <1>4, QuietKeeps DEF ExclusiveInv, Placed

(* The steps in which a thread takes a connection that nobody has: a task  *)
(* the head of the queue, Admin the listener it is to register.            *)
LEMMA TaskTakes ==
  ASSUME TypeOK, ExclusiveInv, NEW w \in Workers, StartTask(w)
  PROVE  /\ ExclusiveInv' /\ Takes(w, Head(tasks)) /\ Queued(Head(tasks))
         /\ \A d \in Channels : Queued(d)' <=> Queued(d) /\ d # Head(tasks)
<1>t. /\ pc \in [Threads -> Labels] /\ chan \in [Threads -> Channels \cup {NoChannel}]
      /\ tasks \in Seq(Clients)
      /\ Places /\ AdminPlace /\ Watched /\ Owned /\ OneParty /\ Signalled
  BY DEF TypeOK, ExclusiveInv, Placed
<1> USE DEF selectorVars, channelVars, kernelVars, threadVars, adminVars
<1> DEFINE c == Head(tasks)
<1>1. /\ tasks # <<>> /\ tasks' = Tail(tasks)
      /\ OthersSame(w) /\ ChannelsSame /\ w # Admin
      /\ UNCHANGED <<lock, enabled, pendingKeys, events, edges, data, eof, intact, key, selected, published>>
      /\ pc[w] = "idle" /\ pc'[w] = "process" /\ chan'[w] = c
  BY <1>t DEF StartTask, OthersSame, ChannelsSame
<1>2. /\ Len(tasks) \in Nat \ {0} /\ c = tasks[1] /\ DOMAIN tasks = 1..Len(tasks) /\ c \in Clients
      /\ DOMAIN tasks' = 1..(Len(tasks) - 1)
      /\ \A i \in 1..(Len(tasks) - 1) : tasks'[i] = tasks[i + 1]
  BY <1>t, <1>1
<1> HIDE DEF c
<1>3. Queued(c)
  BY <1>2 DEF Queued
<1>4. \A d \in Channels : Queued(d)' <=> Queued(d) /\ d # c
  <2> SUFFICES ASSUME NEW d \in Channels PROVE Queued(d)' <=> Queued(d) /\ d # c
    OBVIOUS
  <2>1. ASSUME Queued(d)' PROVE Queued(d) /\ d # c
    <3>1. PICK i \in 1..(Len(tasks) - 1) : tasks[i + 1] = d
      BY <1>2, <2>1 DEF Queued
    <3>2. i + 1 \in DOMAIN tasks /\ 1 \in DOMAIN tasks /\ i + 1 # 1
      BY <1>2
    <3>. QED
      BY <1>t, <1>2, <3>1, <3>2 DEF Queued, OneParty, QueuedOnce
  <2>2. ASSUME Queued(d), d # c PROVE Queued(d)'
    <3>1. PICK i \in DOMAIN tasks : tasks[i] = d
      BY <2>2 DEF Queued
    <3>2. i # 1 /\ i - 1 \in 1..(Len(tasks) - 1) /\ tasks'[i - 1] = tasks[(i - 1) + 1]
      BY <1>2, <2>2, <3>1
    <3>3. (i - 1) + 1 = i
      BY <1>2
    <3>. QED
      BY <1>2, <3>1, <3>2, <3>3 DEF Queued
  <2>. QED
    BY <2>1, <2>2
<1>5. QueuedOnce'
  <2> SUFFICES ASSUME NEW i \in 1..(Len(tasks) - 1), NEW j \in 1..(Len(tasks) - 1), tasks[i + 1] = tasks[j + 1]
               PROVE  i = j
    BY <1>2 DEF QueuedOnce
  <2>1. i + 1 \in DOMAIN tasks /\ j + 1 \in DOMAIN tasks
    BY <1>2
  <2>2. i + 1 = j + 1
    BY <1>t, <2>1 DEF OneParty, QueuedOnce
  <2>. QED
    BY <1>2, <2>2
<1>6. active[c] /\ chanKey[c] = NoKey
  BY <1>t, <1>2, <1>3 DEF OneParty, QueuedApart
<1>7. \A u \in Threads : pc[u] \in Busy => chan[u] # c
  BY <1>t, <1>3 DEF OneParty, BusyApart
<1>8. \A k \in PendingNow : keyChan[k] # c
  BY <1>t, <1>3 DEF OneParty, SelectedApart
<1>9. Takes(w, c)
  BY <1>t, <1>1 DEF Takes, Busy, PendingNow, ListenerDue, OthersSame, AdminPlace, TypeOK
<1>10. Watched' /\ Owned' /\ OneParty'
  BY <1>2, <1>4, <1>5, <1>6, <1>7, <1>8, <1>9, TakesKeeps
<1>11. Signalled'
  BY <1>t, <1>1, SameSignalled DEF AdminCloses, OthersSame, ChannelsSame
<1>12. Places' /\ AdminPlace'
  <2>1. AdminPlace'
    BY <1>t, <1>1, SameAdminPlace
  <2>2. Places'
    BY <1>t, <1>1, <1>2 DEF Places, OthersSame, Busy
  <2>. QED
    BY <2>1, <2>2
<1>. QED
  BY <1>3, <1>4, <1>9, <1>10, <1>11, <1>12 DEF ExclusiveInv, Placed, c

LEMMA AdminTakes ==
  ASSUME TypeOK, ExclusiveInv,
         AcceptFail \/ (AdminDone /\ lock # Admin /\ chan[Admin] # Listener)
  PROVE  ExclusiveInv' /\ Takes(Admin, Listener)
<1>t. /\ pc \in [Threads -> Labels] /\ chan \in [Threads -> Channels \cup {NoChannel}]
      /\ key \in [Threads -> Keys \cup {NoKey}] /\ lock \in {NoThread, Admin}
      /\ Places /\ AdminPlace /\ Watched /\ Owned /\ OneParty /\ Signalled
  BY DEF TypeOK, ExclusiveInv, Placed
<1> USE DEF selectorVars, channelVars, kernelVars, threadVars, adminVars
<1>1. /\ OthersSame(Admin) /\ ChannelsSame /\ key' = key
      /\ UNCHANGED <<lock, enabled, pendingKeys, events, edges, data, eof, intact, selected, tasks, published>>
      /\ pc[Admin] \in {"accept", "done"} /\ pc'[Admin] = "registerTo" /\ chan'[Admin] = Listener
      /\ lock = NoThread
  <2>1. CASE AcceptFail
    BY <1>t, <2>1 DEF AcceptFail, OthersSame, ChannelsSame, AdminPlace, InRun
  <2>2. CASE AdminDone /\ lock # Admin /\ chan[Admin] # Listener
    <3>1. key' = key
      BY <1>t, <2>2 DEF AdminDone, Places
    <3>. QED
      BY <1>t, <2>2, <3>1 DEF AdminDone, OthersSame, ChannelsSame
  <2>. QED
    BY <2>1, <2>2
<1>2. ListenerDue /\ ~ListenerDue'
  BY <1>t, <1>1 DEF ListenerDue, AcceptFail, AdminDone, AdminPlace
<1>3. active[Listener] /\ ListenerApart
  BY <1>t, <1>2 DEF Owned, OneParty
<1>4. \A u \in Threads : pc[u] \in Busy => chan[u] # Listener
  BY <1>t, <1>1 DEF Places, Busy
<1>5. ~Queued(Listener)
  BY DEF Queued, TypeOK
<1>6. Takes(Admin, Listener)
  BY <1>t, <1>1, <1>2 DEF Takes, Busy, PendingNow
<1>7. \A d \in Channels : Queued(d)' <=> Queued(d) /\ d # Listener
  BY <1>1, <1>5 DEF Queued
<1>8. QueuedOnce'
  BY <1>t, <1>1 DEF OneParty, QueuedOnce
<1>9. Watched' /\ Owned' /\ OneParty'
  BY <1>3, <1>4, <1>6, <1>7, <1>8, TakesKeeps DEF ListenerApart
<1>10. Signalled'
  BY <1>t, <1>1, SameSignalled DEF AdminCloses, ChannelsSame
<1>11. Places' /\ AdminPlace'
  BY <1>t, <1>1, SamePlaces DEF AdminPlace, InSelect, InRun
<1>. QED
  BY <1>6, <1>9, <1>10, <1>11 DEF ExclusiveInv, Placed

(* What cannot happen while each socket is used by one party at a time.    *)
LEMMA NeverHappens ==
  ASSUME TypeOK, ExclusiveInv, NEW t \in Threads
  PROVE  /\ ~CancelKey(t) /\ ~RemoveKey(t) /\ ~AdminThrow
         /\ \A f \in Fds : ~SelectThrow(f)
         /\ \A w \in Workers : ~TaskThrow(w)
<1>1. Places /\ AdminPlace /\ events \subseteq epollSet
  BY DEF ExclusiveInv, Placed, Watched
<1>2. \A u \in Threads : pc[u] \notin {"cancel", "remove", "throw"}
  BY <1>1 DEF Places, AdminPlace, Busy, InSelect, InRun
<1>. QED
  BY <1>1, <1>2 DEF CancelKey, RemoveKey, AdminThrow, SelectThrow, TaskThrow

-----------------------------------------------------------------------------
(* The steps that move a connection from one place to the next.            *)

(* A selected key: a task for its peer, or the listener's turn.            *)
LEMMA DispatchStep ==
  ASSUME TypeOK, ExclusiveInv, NEW k \in Keys, Dispatch(k)
  PROVE  ExclusiveInv'
<1>t. /\ pc \in [Threads -> Labels] /\ chan \in [Threads -> Channels \cup {NoChannel}]
      /\ tasks \in Seq(Clients) /\ active \in [Channels -> BOOLEAN]
      /\ Places /\ AdminPlace /\ Watched /\ Owned /\ OneParty /\ Signalled
  BY DEF TypeOK, ExclusiveInv, Placed
<1> USE DEF selectorVars, channelVars, kernelVars, threadVars, adminVars
<1> DEFINE c == keyChan[k]
<1>1. /\ OthersSame(Admin) /\ ChannelsSame /\ chan' = chan
      /\ UNCHANGED <<lock, enabled, pendingKeys, events, edges, data, eof, intact, key, published>>
      /\ pc[Admin] = "dispatch" /\ pc'[Admin] = IF c = Listener THEN "accept" ELSE "dispatch"
      /\ k \in selected /\ selected' = selected \ {k}
      /\ tasks' = IF c \in Clients /\ active[c] THEN Append(tasks, c) ELSE tasks
  BY <1>t DEF Dispatch, IsActivePeer, OthersSame, ChannelsSame
<1>2. lock = NoThread /\ PendingNow = selected /\ PendingNow' = selected \ {k}
  BY <1>t, <1>1 DEF AdminPlace, InRun, PendingNow
<1>3. c \in Channels /\ chanKey[c] = NoKey /\ ~Queued(c)
  BY <1>t, <1>1, <1>2 DEF OneParty, SelectedApart
<1>4. \A l \in PendingNow' : l \in PendingNow /\ keyChan[l] # c
  BY <1>t, <1>1, <1>2 DEF OneParty, SelectedOnce
<1> HIDE DEF c
<1>5. /\ \A d : Queued(d)' <=> Queued(d) \/ (d = c /\ c \in Clients /\ active[c])
      /\ QueuedOnce'
  <2>1. CASE c \in Clients /\ active[c]
    <3>1. /\ tasks' = Append(tasks, c) /\ Len(tasks) \in Nat /\ DOMAIN tasks = 1..Len(tasks)
          /\ DOMAIN tasks' = 1..(Len(tasks) + 1)
          /\ \A i \in 1..Len(tasks) : tasks'[i] = tasks[i]
          /\ tasks'[Len(tasks) + 1] = c
      BY <1>t, <1>1, <2>1
    <3>2. \A i \in DOMAIN tasks' : i \in DOMAIN tasks \/ i = Len(tasks) + 1
      BY <3>1
    <3>3. \A i \in DOMAIN tasks : i \in DOMAIN tasks' /\ i # Len(tasks) + 1
      BY <3>1
    <3>4. Len(tasks) + 1 \in DOMAIN tasks'
      BY <3>1
    <3>5. \A d : Queued(d)' <=> Queued(d) \/ d = c
      BY <3>1, <3>2, <3>3, <3>4 DEF Queued
    <3>6. QueuedOnce'
      BY <1>t, <1>3, <3>1, <3>2, <3>3 DEF OneParty, QueuedOnce, Queued
    <3>. QED
      BY <2>1, <3>5, <3>6
  <2>2. CASE ~(c \in Clients /\ active[c])
    BY <1>t, <1>1, <2>2 DEF OneParty, QueuedOnce, Queued
  <2>. QED
    BY <2>1, <2>2
<1>6. Watched' /\ Signalled'
  BY <1>t, <1>1, SameWatched, SameSignalled DEF AdminCloses, ChannelsSame, Watched
<1>7. Owned'
  <2>1. \A u \in Threads : chan'[u] = chan[u] /\ (pc'[u] = pc[u] \/ {pc[u], pc'[u]} \subseteq {"dispatch", "accept"})
    BY <1>1 DEF OthersSame
  <2>2. \A u \in Threads : BusyOpen(u)'
    BY <1>t, <1>1, <2>1 DEF Owned, BusyOpen, ChannelsSame, Busy
  <2>3. \A u \in Threads : pc[u] = "closeFd" => pc'[u] = "closeFd" /\ chan'[u] = chan[u]
    BY <2>1
  <2>4. UNCHANGED <<active, chanFd, fdChan, chanKey>>
    BY <1>1 DEF ChannelsSame
  <2>5. ASSUME NEW f \in Fds, fdChan[f] \in Channels
        PROVE  /\ chanFd[fdChan[f]] = f
               /\ active[fdChan[f]] \/ \E u \in Threads : pc'[u] = "closeFd" /\ chan'[u] = fdChan[f]
    BY <1>t, <2>3, <2>5 DEF Owned
  <2>6. Owned
    BY <1>t
  <2>. QED
    BY <2>2, <2>4, <2>5, <2>6 DEF Owned
<1>8. OneParty'
  <2>1. \A u \in Threads : pc'[u] \in Busy => pc[u] \in Busy /\ chan'[u] = chan[u] /\ lock # u /\ u # Admin
    BY <1>1, <1>2 DEF OthersSame, Busy
  <2>2. BusyAlone'
    BY <1>t, <2>1 DEF OneParty, BusyAlone
  <2>3. ASSUME NEW u \in Threads, pc'[u] \in Busy PROVE BusyApart(u)'
    <3>1. BusyApart(u) /\ chan'[u] = chan[u] /\ lock # u
      BY <1>t, <2>1, <2>3 DEF OneParty
    <3>2. chan[u] # c
      BY <1>1, <1>2, <3>1 DEF BusyApart, c
    <3>. QED
      BY <1>1, <1>4, <1>5, <3>1, <3>2 DEF BusyApart, ChannelsSame
  <2>4. ASSUME NEW l \in PendingNow' PROVE SelectedApart(l)'
    BY <1>t, <1>1, <1>4, <1>5 DEF OneParty, SelectedApart, ChannelsSame
  <2>5. SelectedOnce'
    BY <1>t, <1>1, <1>4 DEF OneParty, SelectedOnce, ChannelsSame
  <2>6. QueuedApart'
    BY <1>t, <1>1, <1>3, <1>5 DEF OneParty, QueuedApart, ChannelsSame
  <2>7. ListenerDue' => ListenerApart'
    BY <1>1, <1>3, <1>4 DEF ListenerDue, ListenerApart, ChannelsSame
  <2>. QED
    BY <1>5, <2>2, <2>3, <2>4, <2>5, <2>6, <2>7 DEF OneParty
<1>9. Places' /\ AdminPlace'
  BY <1>t, <1>1, <1>2, SamePlaces DEF AdminPlace, InSelect, InRun
<1>. QED
  BY <1>6, <1>7, <1>8, <1>9 DEF ExclusiveInv, Placed

(* accept(): a free channel object gets a free descriptor.                 *)
LEMMA AcceptStep ==
  ASSUME TypeOK, ExclusiveInv, Accept
  PROVE  ExclusiveInv'
<1>t. /\ pc \in [Threads -> Labels] /\ chan \in [Threads -> Channels \cup {NoChannel}]
      /\ active \in [Channels -> BOOLEAN] /\ fdChan \in [Fds -> Channels \cup {NoChannel}]
      /\ chanFd \in [Channels -> Fds] /\ data \in [Channels -> BOOLEAN]
      /\ edges \subseteq Fds /\ events \subseteq Fds /\ epollSet \subseteq Fds
      /\ pendingKeys \subseteq Keys
      /\ Places /\ AdminPlace /\ Watched /\ Owned /\ OneParty /\ Signalled
  BY DEF TypeOK, ExclusiveInv, Placed
<1> USE DEF selectorVars, channelVars, kernelVars, threadVars, adminVars
<1> DEFINE c == CHOOSE free \in FreeChannels : TRUE
<1>1. PICK f \in FreeFds, more \in BOOLEAN :
        /\ fdChan' = [fdChan EXCEPT ![f] = c] /\ chanFd' = [chanFd EXCEPT ![c] = f]
        /\ active' = [active EXCEPT ![c] = TRUE] /\ chan' = [chan EXCEPT ![Admin] = c]
        /\ data' = [data EXCEPT ![Listener] = more]
  BY DEF Accept
<1>2. /\ UNCHANGED <<lock, enabled, mKeys, pendingKeys, events, edges, epollSet, eof, intact, key,
                     chanKey, keyChan, published, tasks, selected>>
      /\ pc[Admin] = "accept" /\ pc' = [pc EXCEPT ![Admin] = "registerTo"]
      /\ c \in FreeChannels
  BY DEF Accept
<1>3. c \in Clients /\ chanKey[c] = NoKey /\ ~active[c] /\ ~Queued(c)
      /\ (\A u \in Threads : chan[u] # c) /\ (\A g \in Fds : fdChan[g] # c)
      /\ (\A l \in Keys \ FreshKeys : keyChan[l] # c)
  BY <1>2 DEF FreeChannels
<1> HIDE DEF c
<1>4. f \in Fds /\ fdChan[f] = NoChannel /\ f \notin epollSet
  BY <1>t DEF FreeFds, Watched, RegistrationsAgree
<1>5. /\ OthersSame(Admin) /\ pc'[Admin] = "registerTo" /\ chan'[Admin] = c
      /\ lock = NoThread /\ PendingNow = selected /\ PendingNow' = PendingNow
      /\ \A l \in PendingNow : keyChan[l] # c
      /\ ListenerDue /\ ListenerApart
  <2>1. lock = NoThread /\ selected \subseteq pendingKeys /\ ListenerDue
    BY <1>t, <1>2 DEF AdminPlace, InRun, ListenerDue
  <2>2. \A l \in selected : l \in Keys \ FreshKeys
    BY <1>t, <2>1 DEF FreshKeys
  <2>. QED
    BY <1>t, <1>1, <1>2, <1>3, <2>1, <2>2 DEF OthersSame, PendingNow, OneParty
<1>6. /\ \A d \in Channels \ {c} : active'[d] = active[d] /\ chanFd'[d] = chanFd[d]
      /\ active'[c] /\ chanFd'[c] = f
      /\ \A g \in Fds \ {f} : fdChan'[g] = fdChan[g]
      /\ fdChan'[f] = c
      /\ \A u \in Threads \ {Admin} : pc'[u] = pc[u] /\ chan'[u] = chan[u] /\ chan[u] # c
  BY <1>t, <1>1, <1>3, <1>4, <1>5 DEF OthersSame
<1>7. Watched'
  <2>1. ASSUME NEW g \in Fds, mKeys[g] # NoKey PROVE g # f /\ fdChan[g] \in Channels \ {c}
    BY <1>t, <1>3, <1>4, <2>1 DEF Watched, RegistrationsAgree
  <2>. QED
    BY <1>t, <1>2, <1>3, <1>6, <2>1 DEF Watched, RegistrationsAgree
<1>8. Owned'
  <2>1. ASSUME NEW d \in Channels, active'[d] PROVE fdChan'[chanFd'[d]] = d
    <3>1. CASE d = c
      BY <1>6, <3>1
    <3>2. CASE d # c
      <4>1. chanFd'[d] = chanFd[d] /\ fdChan[chanFd[d]] = d
        BY <1>t, <1>6, <2>1, <3>2 DEF Owned
      <4>2. chanFd[d] \in Fds \ {f}
        BY <1>t, <1>4, <4>1
      <4>3. \A g \in Fds \ {f} : fdChan'[g] = fdChan[g]
        BY <1>6
      <4>. QED
        BY <4>1, <4>2, <4>3
    <3>. QED
      BY <3>1, <3>2
  <2>2. ASSUME NEW g \in Fds, fdChan'[g] \in Channels
        PROVE  /\ chanFd'[fdChan'[g]] = g
               /\ active'[fdChan'[g]] \/ \E u \in Threads : pc'[u] = "closeFd" /\ chan'[u] = fdChan'[g]
    <3>1. CASE g = f
      BY <1>6, <3>1
    <3>2. CASE g # f
      <4>1. fdChan'[g] = fdChan[g] /\ fdChan[g] \in Channels \ {c}
        BY <1>3, <1>6, <2>2, <3>2
      <4>2. chanFd[fdChan[g]] = g
            /\ (active[fdChan[g]] \/ \E u \in Threads : pc[u] = "closeFd" /\ chan[u] = fdChan[g])
        BY <1>t, <4>1 DEF Owned
      <4>. QED
        BY <1>2, <1>6, <4>1, <4>2
    <3>. QED
      BY <3>1, <3>2
  <2>3. ASSUME NEW u \in Threads PROVE BusyOpen(u)'
    <3>1. CASE u = Admin
      BY <1>5, <1>6, <3>1 DEF BusyOpen
    <3>2. CASE u # Admin
      <4>1. BusyOpen(u) /\ pc'[u] = pc[u] /\ chan'[u] = chan[u] /\ chan[u] # c
        BY <1>t, <1>6, <3>2 DEF Owned
      <4>2. pc[u] \in Busy => chan[u] \in Channels
        BY <1>t, <3>2 DEF Places
      <4>3. CASE pc[u] \in Busy \ {"closeFd"}
        BY <1>6, <4>1, <4>2, <4>3 DEF BusyOpen
      <4>4. CASE pc[u] = "closeFd"
        <5>1. chan[u] \in Channels \ {c} /\ fdChan[chanFd[chan[u]]] = chan[u] /\ ~active[chan[u]]
          BY <4>1, <4>2, <4>4 DEF BusyOpen, Busy
        <5>2. chanFd[chan[u]] \in Fds \ {f}
          BY <1>t, <1>4, <5>1
        <5>3. /\ chanFd'[chan[u]] = chanFd[chan[u]] /\ active'[chan[u]] = active[chan[u]]
              /\ fdChan'[chanFd[chan[u]]] = fdChan[chanFd[chan[u]]]
          BY <1>6, <5>1, <5>2
        <5>. QED
          BY <4>1, <4>4, <5>1, <5>3 DEF BusyOpen
      <4>. QED
        BY <4>1, <4>3, <4>4 DEF BusyOpen
    <3>. QED
      BY <3>1, <3>2
  <2>4. active'[Listener] /\ \A d \in Channels : chanKey'[d] # NoKey => active'[d]
    BY <1>t, <1>2, <1>3, <1>6 DEF Owned
  <2>. QED
    BY <2>1, <2>2, <2>3, <2>4 DEF Owned
<1>9. OneParty'
  <2>1. BusyAlone'
    BY <1>t, <1>5, <1>6 DEF OneParty, BusyAlone
  <2>2. ASSUME NEW u \in Threads, pc'[u] \in Busy PROVE BusyApart(u)'
    <3>1. CASE u = Admin
      BY <1>2, <1>3, <1>5, <3>1 DEF BusyApart, Queued
    <3>2. CASE u # Admin
      <4>1. BusyApart(u)
        BY <1>t, <1>6, <2>2, <3>2 DEF OneParty
      <4>. QED
        BY <1>2, <1>5, <1>6, <3>2, <4>1 DEF BusyApart, Queued
    <3>. QED
      BY <3>1, <3>2
  <2>3. \A l \in PendingNow' : SelectedApart(l)'
    BY <1>t, <1>2, <1>5 DEF OneParty, SelectedApart, Queued
  <2>4. SelectedOnce' /\ QueuedOnce'
    BY <1>t, <1>2, <1>5 DEF OneParty, SelectedOnce, QueuedOnce
  <2>5. QueuedApart'
    BY <1>t, <1>2, <1>3, <1>6 DEF OneParty, QueuedApart, Queued
  <2>6. ListenerApart'
    BY <1>2, <1>5 DEF ListenerApart
  <2>. QED
    BY <2>1, <2>2, <2>3, <2>4, <2>5, <2>6 DEF OneParty
<1>10. Signalled'
  <2>1. ASSUME NEW g \in edges \cup events PROVE Readable(fdChan[g])'
    <3>1. g \in Fds /\ fdChan[g] \in Channels /\ chanKey[fdChan[g]] # NoKey /\ g # f
      BY <1>t, <1>4 DEF Watched, RegistrationsAgree
    <3>2. fdChan[g] # Listener
      BY <1>5, <3>1 DEF ListenerApart
    <3>. QED
      BY <1>t, <1>1, <1>2, <1>6, <3>1, <3>2 DEF Signalled, Readable
  <2>. QED
    BY <1>2, <1>5, <2>1 DEF Signalled, AdminCloses
<1>11. Places' /\ AdminPlace'
  BY <1>t, <1>2, <1>3, <1>5, SamePlaces DEF AdminPlace, InSelect, InRun
<1>. QED
  BY <1>7, <1>8, <1>9, <1>10, <1>11 DEF ExclusiveInv, Placed

(* select() starts: the keys selected last time are let go of.             *)
LEMMA SelectBeginStep ==
  ASSUME TypeOK, ExclusiveInv, SelectBegin, UNCHANGED adminVars
  PROVE  ExclusiveInv'
<1>t. /\ pc \in [Threads -> Labels] /\ keyChan \in [Keys -> Channels \cup {NoChannel}]
      /\ mKeys \in [Fds -> Keys \cup {NoKey, Dead}]
      /\ Places /\ AdminPlace /\ Watched /\ Owned /\ OneParty /\ Signalled
  BY DEF TypeOK, ExclusiveInv, Placed
<1> USE DEF selectorVars, channelVars, kernelVars, threadVars, adminVars
<1>1. /\ UNCHANGED <<lock, enabled, mKeys, events, errno, active, chanFd, chanKey, epollSet, edges,
                     fdChan, data, eof, chan, key, intact, selected, tasks, published>>
      /\ pc[Admin] = "select" /\ pc' = [pc EXCEPT ![Admin] = "poll"] /\ pendingKeys' = {}
      /\ keyChan' = [k \in Keys |-> IF k \in ReferredKeys THEN keyChan[k] ELSE NoChannel]
  BY DEF SelectBegin
<1>2. /\ lock = NoThread /\ selected = {} /\ events = {} /\ PendingNow = {} /\ PendingNow' = {}
      /\ OthersSame(Admin) /\ pc'[Admin] = "poll"
  BY <1>t, <1>1 DEF AdminPlace, InRun, PendingNow, OthersSame
<1>3. Watched'
  <2>1. \A f \in Fds : mKeys[f] \in Keys => keyChan'[mKeys[f]] = keyChan[mKeys[f]]
    BY <1>1 DEF ReferredKeys
  <2>. QED
    BY <1>t, <1>1, <2>1 DEF Watched, RegistrationsAgree
<1>4. \A u \in Threads : /\ pc'[u] \in Busy <=> pc[u] \in Busy
                         /\ pc'[u] = "closeFd" <=> pc[u] = "closeFd"
  BY <1>1, <1>2 DEF OthersSame, Busy
<1>5. Owned'
  BY <1>t, <1>1, <1>4 DEF Owned, BusyOpen
<1>6. OneParty'
  BY <1>t, <1>1, <1>2, <1>4 DEF OneParty, BusyAlone, BusyApart, SelectedOnce, QueuedOnce,
                                QueuedApart, Queued, ListenerDue
<1>7. Signalled'
  BY <1>t, <1>1, <1>2 DEF Signalled, Readable, AdminCloses
<1>8. Places' /\ AdminPlace'
  BY <1>t, <1>1, <1>2, SamePlaces DEF AdminPlace, InSelect, InRun
<1>. QED
  BY <1>3, <1>5, <1>6, <1>7, <1>8 DEF ExclusiveInv, Placed

(* An event: the connection leaves the set for the selected ones, and if   *)
(* there is nothing to read Admin closes it.                               *)
LEMMA SelectEventStep ==
  ASSUME TypeOK, ExclusiveInv, NEW f \in Fds, SelectEvent(f), UNCHANGED adminVars
  PROVE  ExclusiveInv'
<1>t. /\ pc \in [Threads -> Labels] /\ chan \in [Threads -> Channels \cup {NoChannel}]
      /\ chanKey \in [Channels -> Keys \cup {NoKey}] /\ lock \in {NoThread, Admin}
      /\ mKeys \in [Fds -> Keys \cup {NoKey, Dead}] /\ chanFd \in [Channels -> Fds]
      /\ Places /\ AdminPlace /\ Watched /\ Owned /\ OneParty /\ Signalled
  BY DEF TypeOK, ExclusiveInv, Placed
<1> USE DEF selectorVars, channelVars, kernelVars, threadVars, adminVars
<1> DEFINE k == mKeys[f]
           c == keyChan[k]
<1>1. k \in Keys /\ c \in Channels /\ c = fdChan[f] /\ chanFd[c] = f /\ chanKey[c] = k /\ f \in epollSet
  BY <1>t DEF SelectEvent, Watched, RegistrationsAgree
<1>2. /\ UNCHANGED <<lock, enabled, active, chanFd, keyChan, fdChan, data, eof, key, selected, tasks, published>>
      /\ pc[Admin] = "events" /\ f \in events
      /\ edges' = edges \ {f} /\ epollSet' = epollSet \ {f} /\ events' = events \ {f}
      /\ mKeys' = [mKeys EXCEPT ![f] = NoKey] /\ chanKey' = [chanKey EXCEPT ![c] = NoKey]
      /\ pendingKeys' = pendingKeys \cup {k}
      /\ \/ AtEof(c, f) /\ pc' = [pc EXCEPT ![Admin] = "close"] /\ chan' = [chan EXCEPT ![Admin] = c]
         \/ pc' = pc /\ chan' = chan
      /\ intact'
  BY <1>t, <1>1 DEF SelectEvent, Unwatch, ForgetKey, KeepSelected, Touch, Places
<1> HIDE DEF k, c
<1>3. /\ lock = Admin /\ selected = {} /\ PendingNow = pendingKeys /\ PendingNow' = PendingNow \cup {k}
      /\ \A l \in PendingNow : keyChan[l] # c
  <2>1. lock = Admin /\ selected = {}
    BY <1>t, <1>2 DEF AdminPlace, InSelect
  <2>2. PendingNow = pendingKeys /\ PendingNow' = PendingNow \cup {k}
    BY <1>2, <2>1 DEF PendingNow
  <2>3. k # NoKey
    BY <1>1
  <2>. QED
    BY <1>t, <1>1, <2>1, <2>2, <2>3 DEF OneParty, SelectedApart
<1>4. /\ active[c] /\ ~Queued(c)
      /\ \A u \in Threads : pc[u] \in Busy => chan[u] # c
  BY <1>t, <1>1 DEF Owned, OneParty, QueuedApart, BusyApart, Queued, TypeOK
<1>5. /\ OthersSame(Admin) /\ pc[Admin] \notin Busy
      /\ \/ pc'[Admin] = "close" /\ chan'[Admin] = c /\ c \in Clients /\ ~data[c]
         \/ pc'[Admin] = "events" /\ chan'[Admin] = chan[Admin]
  BY <1>t, <1>1, <1>2 DEF OthersSame, AtEof, Busy
<1>6. /\ \A d \in Channels \ {c} : chanKey'[d] = chanKey[d]
      /\ chanKey'[c] = NoKey
      /\ \A g \in Fds \ {f} : mKeys'[g] = mKeys[g]
      /\ mKeys'[f] = NoKey
  BY <1>t, <1>1, <1>2
<1>7. Watched'
  <2>1. ASSUME NEW g \in Fds \ {f}, mKeys[g] # NoKey PROVE fdChan[g] \in Channels \ {c}
    BY <1>t, <1>1, <2>1 DEF Watched, RegistrationsAgree
  <2>2. ASSUME NEW d \in Channels \ {c}, chanKey[d] # NoKey PROVE chanFd[d] \in Fds \ {f}
    BY <1>t, <1>1, <2>2 DEF Owned
  <2>. QED
    BY <1>t, <1>2, <1>6, <2>1, <2>2 DEF Watched, RegistrationsAgree
<1>8. Owned'
  <2>1. ASSUME NEW u \in Threads PROVE BusyOpen(u)'
    BY <1>t, <1>2, <1>4, <1>5 DEF Owned, BusyOpen, OthersSame, Busy
  <2>2. ASSUME NEW d, NEW u \in Threads, pc[u] = "closeFd" /\ chan[u] = d
        PROVE  pc'[u] = "closeFd" /\ chan'[u] = d
    BY <1>2, <1>5, <2>2 DEF OthersSame, Busy
  <2>. QED
    BY <1>t, <1>1, <1>2, <1>6, <2>1, <2>2 DEF Owned
<1>9. OneParty'
  <2>1. BusyAlone'
    BY <1>t, <1>4, <1>5 DEF OneParty, BusyAlone, OthersSame, Busy
  <2>2. ASSUME NEW u \in Threads, pc'[u] \in Busy PROVE BusyApart(u)'
    <3>1. CASE u = Admin
      <4>1. chan'[Admin] = c
        BY <1>5, <2>2, <3>1 DEF Busy
      <4>. QED
        BY <1>2, <1>3, <1>4, <1>6, <3>1, <4>1 DEF BusyApart, Queued
    <3>2. CASE u # Admin
      <4>1. BusyApart(u) /\ chan'[u] = chan[u] /\ chan[u] # c /\ chan[u] \in Channels
        BY <1>t, <1>4, <1>5, <2>2, <3>2 DEF OneParty, OthersSame, Places
      <4>. QED
        BY <1>2, <1>3, <1>6, <4>1 DEF BusyApart, Queued, c
    <3>. QED
      BY <3>1, <3>2
  <2>3. ASSUME NEW l \in PendingNow' PROVE SelectedApart(l)'
    BY <1>t, <1>1, <1>2, <1>3, <1>4, <1>6 DEF OneParty, SelectedApart, Queued, c
  <2>4. SelectedOnce' /\ QueuedOnce'
    BY <1>t, <1>2, <1>3 DEF OneParty, SelectedOnce, QueuedOnce, c
  <2>5. QueuedApart'
    BY <1>t, <1>2, <1>4, <1>6 DEF OneParty, QueuedApart, Queued
  <2>6. ~ListenerDue'
    BY <1>2, <1>3, <1>5 DEF ListenerDue
  <2>. QED
    BY <2>1, <2>2, <2>3, <2>4, <2>5, <2>6 DEF OneParty
<1>10. Signalled'
  <2>1. Readable(c)
    BY <1>t, <1>1, <1>2 DEF Signalled
  <2>. QED
    BY <1>t, <1>2, <1>5, <2>1 DEF Signalled, Readable, AdminCloses
<1>11. Places' /\ AdminPlace'
  BY <1>t, <1>2, <1>3, <1>5, SamePlaces DEF AdminPlace, InSelect, InRun, Places
<1>. QED
  BY <1>7, <1>8, <1>9, <1>10, <1>11 DEF ExclusiveInv, Placed

(* A connection is watched: registerTo's new key.  The descriptor is open  *)
(* and not in the epoll set, so EPOLL_CTL_ADD does not fail.               *)
LEMMA NewKeyStep ==
  ASSUME TypeOK, ExclusiveInv, NEW t \in Threads, NewKey(t), UNCHANGED adminVars
  PROVE  ExclusiveInv'
<1>t. /\ pc \in [Threads -> Labels] /\ chan \in [Threads -> Channels \cup {NoChannel}]
      /\ chanKey \in [Channels -> Keys \cup {NoKey}] /\ lock \in {NoThread, Admin}
      /\ keyChan \in [Keys -> Channels \cup {NoChannel}] /\ pendingKeys \subseteq Keys
      /\ mKeys \in [Fds -> Keys \cup {NoKey, Dead}] /\ chanFd \in [Channels -> Fds]
      /\ Places /\ AdminPlace /\ Watched /\ Owned /\ OneParty /\ Signalled
  BY DEF TypeOK, ExclusiveInv, Placed
<1> USE DEF selectorVars, channelVars, kernelVars, threadVars, adminVars
<1> DEFINE c == chan[t]
           f == chanFd[c]
           k == CHOOSE free \in FreshKeys : TRUE
<1>1. /\ pc[t] = "newKey" /\ lock = NoThread /\ lock # t /\ c \in Channels
      /\ t # Admin => c \in Clients
  BY <1>t DEF NewKey, CanLock, AdminPlace, InRun, Places, Busy
<1>2. /\ k \in Keys /\ k \notin pendingKeys
      /\ (\A g \in Fds : mKeys[g] # k) /\ (\A d \in Channels : chanKey[d] # k)
  BY DEF NewKey, FreshKeys, ReferredKeys
<1>3. /\ active[c] /\ fdChan[f] = c /\ f \in Fds /\ chanKey[c] = NoKey /\ ~Queued(c)
      /\ PendingNow = selected /\ selected \subseteq pendingKeys
      /\ \A l \in PendingNow : keyChan[l] # c
      /\ \A u \in Threads \ {t} : pc[u] \in Busy => chan[u] # c
  BY <1>t, <1>1 DEF Owned, BusyOpen, OneParty, BusyApart, BusyAlone, Busy, PendingNow, AdminPlace
<1>4. f \notin epollSet /\ mKeys[f] = NoKey
  <2> HIDE DEF c, f, k
  <2>1. mKeys[f] # NoKey => chanKey[fdChan[f]] = mKeys[f]
    BY <1>t, <1>3 DEF Watched, RegistrationsAgree
  <2>. QED
    BY <1>t, <1>3, <2>1 DEF Watched, RegistrationsAgree
<1>5. /\ UNCHANGED <<lock, enabled, pendingKeys, events, errno, active, chanFd, fdChan, data, eof,
                     chan, key, after, selected, tasks, published>>
      /\ mKeys' = [mKeys EXCEPT ![f] = k] /\ keyChan' = [keyChan EXCEPT ![k] = c]
      /\ chanKey' = [chanKey EXCEPT ![c] = k] /\ epollSet' = epollSet \cup {f}
      /\ edges' = edges \cup {g \in {f} : Readable(fdChan[g])}
      /\ pc' = [pc EXCEPT ![t] = "done"] /\ intact'
  <2>1. fdChan[f] # NoChannel /\ f \notin epollSet
    BY <1>1, <1>3, <1>4
  <2>2. intact'
    BY <1>t, <1>4 DEF NewKey, Touch, Places
  <2>. QED
    BY <2>1, <2>2 DEF NewKey
<1> HIDE DEF c, f, k
<1>6. /\ \A d \in Channels \ {c} : chanKey'[d] = chanKey[d]
      /\ \A g \in Fds \ {f} : mKeys'[g] = mKeys[g]
      /\ \A l \in Keys \ {k} : keyChan'[l] = keyChan[l]
      /\ chanKey'[c] = k /\ mKeys'[f] = k /\ keyChan'[k] = c
      /\ chanFd[c] = f /\ chan[t] = c /\ k # NoKey
  BY <1>t, <1>1, <1>2, <1>3, <1>5 DEF c, f
<1>7. OthersSame(t) /\ pc'[t] = "done" /\ chan' = chan
  BY <1>t, <1>5 DEF OthersSame
<1>8. PendingNow' = PendingNow /\ k \notin PendingNow /\ PendingNow \subseteq Keys
  BY <1>t, <1>2, <1>3, <1>5 DEF PendingNow
<1>9. Watched'
  <2>1. ASSUME NEW g \in Fds \ {f}, mKeys[g] # NoKey
        PROVE  fdChan[g] \in Channels \ {c} /\ mKeys[g] \in Keys \ {k}
    <3>1. mKeys[g] \in Keys /\ fdChan[g] \in Channels /\ chanFd[fdChan[g]] = g
      BY <1>t, <2>1 DEF Watched, RegistrationsAgree
    <3>2. chanFd[c] = f /\ mKeys[g] # k
      BY <1>2, <1>6
    <3>. QED
      BY <3>1, <3>2
  <2>2. ASSUME NEW d \in Channels \ {c}, chanKey[d] # NoKey PROVE chanFd[d] \in Fds \ {f}
    BY <1>t, <1>3, <2>2 DEF Owned
  <2>3. ASSUME NEW g \in Fds
        PROVE  /\ g \in epollSet' <=> mKeys'[g] # NoKey
               /\ mKeys'[g] # NoKey =>
                    /\ mKeys'[g] \in Keys /\ keyChan'[mKeys'[g]] = fdChan'[g] /\ fdChan'[g] \in Channels
                    /\ chanFd'[fdChan'[g]] = g /\ chanKey'[fdChan'[g]] = mKeys'[g]
    <3>1. CASE g = f
      BY <1>1, <1>2, <1>3, <1>5, <1>6, <3>1
    <3>2. CASE g # f
      <4>1. mKeys'[g] = mKeys[g] /\ (g \in epollSet' <=> g \in epollSet)
        BY <1>5, <1>6, <3>2
      <4>2. /\ g \in epollSet <=> mKeys[g] # NoKey
            /\ mKeys[g] # NoKey =>
                 /\ keyChan[mKeys[g]] = fdChan[g] /\ chanFd[fdChan[g]] = g
                 /\ chanKey[fdChan[g]] = mKeys[g]
        BY <1>t DEF Watched, RegistrationsAgree
      <4>3. mKeys[g] # NoKey =>
              /\ keyChan'[mKeys[g]] = keyChan[mKeys[g]]
              /\ chanKey'[fdChan[g]] = chanKey[fdChan[g]]
        BY <1>6, <2>1, <3>2
      <4>. QED
        BY <1>5, <2>1, <3>2, <4>1, <4>2, <4>3
    <3>. QED
      BY <3>1, <3>2
  <2>4. \A d \in Channels : chanKey'[d] # NoKey => mKeys'[chanFd'[d]] = chanKey'[d]
    BY <1>t, <1>5, <1>6, <2>2 DEF Watched, RegistrationsAgree
  <2>5. events' \subseteq epollSet' /\ edges' \subseteq epollSet'
    BY <1>t, <1>5 DEF Watched
  <2>. QED
    BY <2>3, <2>4, <2>5 DEF Watched, RegistrationsAgree
<1>10. Owned'
  <2>1. ASSUME NEW u \in Threads PROVE BusyOpen(u)'
    BY <1>t, <1>5, <1>7 DEF Owned, BusyOpen, OthersSame, Busy
  <2>2. ASSUME NEW u \in Threads, pc[u] = "closeFd" PROVE pc'[u] = "closeFd"
    BY <1>1, <1>7, <2>2 DEF OthersSame
  <2>. QED
    BY <1>t, <1>3, <1>5, <1>6, <2>1, <2>2 DEF Owned
<1>11. OneParty'
  <2>1. BusyAlone'
    BY <1>t, <1>7 DEF OneParty, BusyAlone, OthersSame, Busy
  <2>2. ASSUME NEW u \in Threads, pc'[u] \in Busy PROVE BusyApart(u)'
    <3>1. u # t /\ pc[u] \in Busy
      BY <1>7, <2>2 DEF OthersSame, Busy
    <3>2. BusyApart(u) /\ chan[u] # c /\ chan[u] \in Channels
      BY <1>t, <1>3, <3>1 DEF OneParty, TypeOK, OnChannel, Busy
    <3>. QED
      BY <1>5, <1>6, <1>7, <1>8, <3>2 DEF BusyApart, Queued
  <2>3. ASSUME NEW l \in PendingNow' PROVE SelectedApart(l)'
    <3>1. l \in Keys \ {k} /\ l \in PendingNow /\ keyChan'[l] = keyChan[l]
      BY <1>6, <1>8
    <3>2. SelectedApart(l) /\ keyChan[l] # c
      BY <1>t, <1>3, <3>1 DEF OneParty
    <3>. QED
      BY <1>5, <1>6, <3>1, <3>2 DEF SelectedApart, Queued
  <2>4. \A l \in PendingNow : keyChan'[l] = keyChan[l]
    BY <1>6, <1>8
  <2>5. SelectedOnce' /\ QueuedOnce'
    BY <1>t, <1>5, <1>8, <2>4 DEF OneParty, SelectedOnce, QueuedOnce
  <2>6. QueuedApart'
    BY <1>t, <1>3, <1>5, <1>6 DEF OneParty, QueuedApart, Queued
  <2>7. ASSUME ListenerDue' PROVE ListenerApart'
    <3>1. ListenerDue /\ c # Listener
      BY <1>1, <1>5, <1>7, <2>7 DEF ListenerDue, OthersSame, c
    <3>. QED
      BY <1>t, <1>6, <1>8, <2>4, <3>1 DEF OneParty, ListenerApart
  <2>. QED
    BY <2>1, <2>2, <2>3, <2>5, <2>6, <2>7 DEF OneParty
<1>12. Signalled'
  BY <1>t, <1>5, <1>7 DEF Signalled, Readable, AdminCloses, OthersSame
<1>13. Places'
  BY <1>t, <1>5, <1>7 DEF Places, OthersSame, Busy
<1>14. AdminPlace'
  BY <1>t, <1>1, <1>5, <1>7 DEF AdminPlace, OthersSame, InSelect, InRun
<1>. QED
  BY <1>9, <1>10, <1>11, <1>12, <1>13, <1>14 DEF ExclusiveInv, Placed

(* closeChannel: nobody watches the channel, so there is no key to cancel. *)
LEMMA CloseSetStep ==
  ASSUME TypeOK, ExclusiveInv, NEW t \in Threads, CloseSet(t), UNCHANGED adminVars
  PROVE  ExclusiveInv'
<1>t. /\ pc \in [Threads -> Labels] /\ chan \in [Threads -> Channels \cup {NoChannel}]
      /\ key \in [Threads -> Keys \cup {NoKey}] /\ lock \in {NoThread, Admin}
      /\ active \in [Channels -> BOOLEAN]
      /\ Places /\ AdminPlace /\ Watched /\ Owned /\ OneParty /\ Signalled
  BY DEF TypeOK, ExclusiveInv, Placed
<1> USE DEF selectorVars, channelVars, kernelVars, threadVars, adminVars
<1> DEFINE c == chan[t]
<1>1. pc[t] = "closeSet" /\ c \in Clients /\ chanKey[c] = NoKey /\ active[c] /\ ~Queued(c)
  BY <1>t DEF CloseSet, AdminPlace, Places, Busy, OneParty, BusyApart, Owned, BusyOpen
<1>2. /\ UNCHANGED <<lock, enabled, mKeys, pendingKeys, events, errno, chanFd, chanKey, keyChan, epollSet,
                     edges, fdChan, data, eof, chan, intact, selected, tasks, published>>
      /\ active' = [active EXCEPT ![c] = FALSE]
      /\ pc' = [pc EXCEPT ![t] = "closeFd"] /\ key' = key
  BY <1>t, <1>1 DEF CloseSet, Places
<1> HIDE DEF c
<1>3. /\ \A d \in Channels \ {c} : active'[d] = active[d]
      /\ ~active'[c] /\ chan[t] = c
      /\ \A u \in Threads \ {t} : pc'[u] = pc[u] /\ (pc[u] \in Busy => chan[u] # c)
      /\ pc'[t] = "closeFd" /\ pc[t] \in Busy /\ pc'[t] \in Busy
  BY <1>t, <1>1, <1>2 DEF OneParty, BusyAlone, Busy, c
<1>4. Watched'
  BY <1>t, <1>2 DEF Watched, RegistrationsAgree
<1>5. Owned'
  <2>1. ASSUME NEW u \in Threads PROVE BusyOpen(u)'
    <3>1. CASE u = t
      BY <1>t, <1>1, <1>2, <1>3, <3>1 DEF BusyOpen, Owned
    <3>2. CASE u # t
      <4>1. BusyOpen(u) /\ (pc[u] \in Busy => chan[u] \in Channels \ {c})
        BY <1>t, <1>3, <3>2 DEF Owned, TypeOK, OnChannel, Busy
      <4>. QED
        BY <1>2, <1>3, <3>2, <4>1 DEF BusyOpen, Busy
    <3>. QED
      BY <3>1, <3>2
  <2>2. ASSUME NEW u \in Threads, pc[u] = "closeFd" PROVE pc'[u] = "closeFd"
    BY <1>3, <2>2
  <2>. QED
    BY <1>t, <1>1, <1>2, <1>3, <2>1, <2>2 DEF Owned
<1>6. \A u \in Threads : pc'[u] \in Busy <=> pc[u] \in Busy
  BY <1>3
<1>7. OneParty'
  BY <1>t, <1>1, <1>2, <1>3, <1>6 DEF OneParty, BusyAlone, BusyApart, SelectedApart, SelectedOnce,
                                      QueuedOnce, QueuedApart, Queued, PendingNow, ListenerDue, ListenerApart
<1>8. Signalled'
  BY <1>t, <1>1, <1>2, <1>3 DEF Signalled, Readable, AdminCloses
<1>9. Places'
  BY <1>t, <1>2, <1>3 DEF Places, Busy, c
<1>10. AdminPlace'
  BY <1>t, <1>1, <1>2, <1>3 DEF AdminPlace, InSelect, InRun
<1>. QED
  BY <1>4, <1>5, <1>7, <1>8, <1>9, <1>10 DEF ExclusiveInv, Placed

(* ::close of a number that is still the channel's own.                    *)
LEMMA CloseFdStep ==
  ASSUME TypeOK, ExclusiveInv, NEW t \in Threads, CloseFd(t), UNCHANGED adminVars
  PROVE  ExclusiveInv'
<1>t. /\ pc \in [Threads -> Labels] /\ chan \in [Threads -> Channels \cup {NoChannel}]
      /\ fdChan \in [Fds -> Channels \cup {NoChannel}] /\ lock \in {NoThread, Admin}
      /\ data \in [Channels -> BOOLEAN] /\ eof \in [Channels -> BOOLEAN]
      /\ chanFd \in [Channels -> Fds]
      /\ Places /\ AdminPlace /\ Watched /\ Owned /\ OneParty /\ Signalled
  BY DEF TypeOK, ExclusiveInv, Placed
<1> USE DEF selectorVars, channelVars, kernelVars, threadVars, adminVars
<1> DEFINE c == chan[t]
           f == chanFd[c]
<1>1. /\ pc[t] = "closeFd" /\ c \in Clients /\ chanKey[c] = NoKey /\ ~active[c] /\ ~Queued(c)
      /\ f \in Fds /\ fdChan[f] = c /\ f \notin epollSet /\ chan[t] = c /\ chanFd[c] = f
  <2>1. /\ pc[t] = "closeFd" /\ c \in Clients /\ chanKey[c] = NoKey /\ ~active[c] /\ ~Queued(c)
        /\ f \in Fds /\ fdChan[f] = c
    BY <1>t DEF CloseFd, AdminPlace, Places, Busy, OneParty, BusyApart, Owned, BusyOpen
  <2>2. f \in epollSet => chanKey[fdChan[f]] # NoKey
    BY <1>t, <2>1 DEF Watched, RegistrationsAgree
  <2>. QED
    BY <2>1, <2>2
<1>2. /\ UNCHANGED <<lock, enabled, mKeys, pendingKeys, events, errno, active, chanFd, chanKey, keyChan,
                     epollSet, edges, chan, key, intact, selected, tasks, published>>
      /\ fdChan' = [fdChan EXCEPT ![f] = NoChannel]
      /\ data' = [d \in Channels |-> data[d] /\ d # c] /\ eof' = [d \in Channels |-> eof[d] /\ d # c]
      /\ pc' = [pc EXCEPT ![t] = "done"]
  BY <1>t, <1>1 DEF CloseFd, Watched
<1> HIDE DEF c, f
<1>3. /\ \A g \in Fds \ {f} : fdChan'[g] = fdChan[g]
      /\ fdChan'[f] = NoChannel
      /\ \A d \in Channels \ {c} : data'[d] = data[d] /\ eof'[d] = eof[d]
      /\ \A u \in Threads \ {t} : pc'[u] = pc[u] /\ (pc[u] \in Busy => chan[u] # c)
      /\ pc'[t] = "done" /\ pc[t] \in Busy /\ pc'[t] \notin Busy
  BY <1>t, <1>1, <1>2 DEF OneParty, BusyAlone, Busy
<1>4. Watched'
  BY <1>t, <1>1, <1>2, <1>3 DEF Watched, RegistrationsAgree
<1>5. Owned'
  <2>1. ASSUME NEW d \in Channels, active[d] PROVE chanFd[d] \in Fds \ {f} /\ fdChan[chanFd[d]] = d
    BY <1>t, <1>1, <2>1 DEF Owned
  <2>2. ASSUME NEW g \in Fds, fdChan'[g] \in Channels
        PROVE  /\ chanFd[fdChan'[g]] = g
               /\ active[fdChan'[g]] \/ \E u \in Threads : pc'[u] = "closeFd" /\ chan[u] = fdChan'[g]
    <3>1. g # f /\ fdChan'[g] = fdChan[g]
      BY <1>3, <2>2
    <3>2. chanFd[fdChan[g]] = g /\ fdChan[g] # c
      BY <1>t, <1>1, <2>2, <3>1 DEF Owned
    <3>3. active[fdChan[g]] \/ \E u \in Threads : pc[u] = "closeFd" /\ chan[u] = fdChan[g]
      BY <1>t, <2>2, <3>1 DEF Owned
    <3>. QED
      BY <1>1, <1>3, <3>1, <3>2, <3>3
  <2>3. ASSUME NEW u \in Threads PROVE BusyOpen(u)'
    <3>1. CASE u = t
      BY <1>3, <3>1 DEF BusyOpen, Busy
    <3>2. CASE u # t
      <4>1. BusyOpen(u) /\ pc'[u] = pc[u] /\ (pc[u] \in Busy => chan[u] \in Channels \ {c})
        BY <1>t, <1>3, <3>2 DEF Owned, TypeOK, OnChannel, Busy
      <4>2. CASE pc[u] = "closeFd"
        <5>1. fdChan[chanFd[chan[u]]] = chan[u] /\ chan[u] # c /\ chanFd[chan[u]] \in Fds
          BY <1>t, <4>1, <4>2 DEF BusyOpen, Busy
        <5>2. fdChan'[chanFd[chan[u]]] = chan[u]
          BY <1>1, <1>3, <5>1
        <5>. QED
          BY <1>2, <4>1, <4>2, <5>2 DEF BusyOpen
      <4>3. CASE pc[u] # "closeFd"
        BY <1>2, <4>1, <4>3 DEF BusyOpen
      <4>. QED
        BY <4>2, <4>3
    <3>. QED
      BY <3>1, <3>2
  <2>. QED
    BY <1>t, <1>2, <1>3, <2>1, <2>2, <2>3 DEF Owned
<1>6. \A u \in Threads : pc'[u] \in Busy => pc[u] \in Busy /\ u # t
  BY <1>3
<1>7. OneParty'
  BY <1>t, <1>1, <1>2, <1>3, <1>6 DEF OneParty, BusyAlone, BusyApart, SelectedApart, SelectedOnce,
                                      QueuedOnce, QueuedApart, Queued, PendingNow, ListenerDue, ListenerApart, AdminPlace, InSelect
<1>8. Signalled'
  <2>1. ASSUME NEW g \in edges \cup events PROVE Readable(fdChan[g])' 
    <3>1. g \in Fds /\ g # f /\ fdChan[g] \in Channels \ {c}
      BY <1>t, <1>1 DEF Watched, RegistrationsAgree, TypeOK
    <3>. QED
      BY <1>t, <1>3, <3>1 DEF Signalled, Readable
  <2>2. ASSUME AdminCloses' PROVE eof'[chan'[Admin]]
    <3>1. AdminCloses /\ Admin # t /\ chan[Admin] \in Channels \ {c}
      BY <1>t, <1>3, <2>2 DEF AdminCloses, AdminPlace, Busy
    <3>. QED
      BY <1>t, <1>2, <1>3, <3>1 DEF Signalled
  <2>. QED
    BY <1>2, <2>1, <2>2 DEF Signalled
<1>9. Places'
  BY <1>t, <1>2, <1>3 DEF Places, Busy
<1>10. AdminPlace'
  BY <1>t, <1>1, <1>2, <1>3 DEF AdminPlace, InSelect, InRun
<1>. QED
  BY <1>4, <1>5, <1>7, <1>8, <1>9, <1>10 DEF ExclusiveInv, Placed

-----------------------------------------------------------------------------
(* The steps that leave a connection mute, and that take it up again.      *)

LEMMA BreakStep ==
  ASSUME TypeOK, ExclusiveInv, NEW w \in Workers, Break(w)
  PROVE  ExclusiveInv'
<1>t. /\ pc \in [Threads -> Labels] /\ lock \in {NoThread, Admin}
      /\ Places /\ AdminPlace /\ Watched /\ Owned /\ OneParty /\ Signalled
  BY DEF TypeOK, ExclusiveInv, Placed
<1> USE DEF selectorVars, channelVars, kernelVars
<1>1. /\ UNCHANGED <<lock, enabled, mKeys, pendingKeys, events, active, chanFd, chanKey, keyChan, epollSet,
                     edges, fdChan, data, eof, chan, key, intact, selected, tasks>>
      /\ pc[w] = "processed" /\ pc'[w] = "done" /\ OthersSame(w)
  BY <1>t DEF Break, OthersSame
<1>2. PendingNow' = PendingNow /\ \A c : Queued(c)' <=> Queued(c)
  BY <1>1 DEF PendingNow, Queued
<1>3. \A u \in Threads : /\ pc'[u] \in Busy => pc[u] \in Busy
                         /\ pc'[u] = "closeFd" <=> pc[u] = "closeFd"
  BY <1>1 DEF OthersSame, Busy
<1>4. Watched' /\ Signalled'
  BY <1>t, <1>1 DEF Watched, RegistrationsAgree, Signalled, Readable, AdminCloses, OthersSame
<1>5. Owned'
  BY <1>t, <1>1, <1>3 DEF Owned, BusyOpen
<1>6. OneParty'
  BY <1>t, <1>1, <1>2, <1>3 DEF OneParty, BusyAlone, BusyApart, SelectedApart, SelectedOnce, QueuedOnce,
                                QueuedApart, ListenerDue, ListenerApart, OthersSame
<1>7. Places' /\ AdminPlace'
  BY <1>t, <1>1, SameAdminPlace DEF Places, OthersSame, Busy
<1>. QED
  BY <1>4, <1>5, <1>6, <1>7 DEF ExclusiveInv, Placed

LEMMA RespondTakes ==
  ASSUME TypeOK, ExclusiveInv, NEW w \in Workers, NEW c \in Clients, MuteApart(c), Respond(w, c)
  PROVE  /\ ExclusiveInv' /\ Takes(w, c)
         /\ \A d \in Channels : Queued(d)' <=> Queued(d) /\ d # c
<1>t. /\ pc \in [Threads -> Labels] /\ chan \in [Threads -> Channels \cup {NoChannel}]
      /\ lock \in {NoThread, Admin}
      /\ Places /\ AdminPlace /\ Watched /\ Owned /\ OneParty /\ Signalled
  BY DEF TypeOK, ExclusiveInv, Placed
<1> USE DEF selectorVars, channelVars, kernelVars
<1>1. /\ OthersSame(w) /\ ChannelsSame /\ w # Admin
      /\ UNCHANGED <<lock, enabled, pendingKeys, events, edges, data, eof, intact, key, selected, tasks>>
      /\ pc[w] = "idle" /\ pc'[w] = "close" /\ chan'[w] = c
  BY <1>t DEF Respond, OthersSame, ChannelsSame
<1>2. \A d \in Channels : Queued(d)' <=> Queued(d) /\ d # c
  BY <1>1 DEF Queued, MuteApart
<1>3. QueuedOnce'
  BY <1>t, <1>1 DEF OneParty, QueuedOnce
<1>4. Takes(w, c)
  BY <1>t, <1>1 DEF Takes, Busy, PendingNow, ListenerDue, OthersSame
<1>5. Watched' /\ Owned' /\ OneParty'
  BY <1>2, <1>3, <1>4, TakesKeeps DEF MuteApart
<1>6. Signalled'
  BY <1>t, <1>1, SameSignalled DEF AdminCloses, OthersSame, ChannelsSame
<1>7. Places' /\ AdminPlace'
  BY <1>t, <1>1, SameAdminPlace DEF Places, OthersSame, Busy
<1>. QED
  BY <1>2, <1>4, <1>5, <1>6, <1>7 DEF ExclusiveInv, Placed

(* A step that concerns no connection but c keeps the others mute.         *)
Elsewhere(c) ==
    /\ \A d \in Channels \ {c} : /\ active[d] => active'[d]
                                 /\ chanKey[d] = NoKey => chanKey'[d] = NoKey
                                 /\ Queued(d)' => Queued(d)
    /\ \A t \in Threads : pc'[t] \in Busy => chan'[t] = c \/ (pc[t] \in Busy /\ chan'[t] = chan[t])
    /\ \A k \in PendingNow' : \/ keyChan'[k] = c
                              \/ k \in PendingNow /\ keyChan'[k] = keyChan[k]

LEMMA MutesStay ==
  ASSUME MutesApart, NEW c \in Channels, Elsewhere(c),
         Mute' \subseteq Mute \cup {c}, c \in Mute' => MuteApart(c)'
  PROVE  MutesApart'
<1> SUFFICES ASSUME NEW d \in Mute', d # c PROVE MuteApart(d)'
  BY DEF MutesApart
<1>1. d \in Channels \ {c} /\ MuteApart(d)
  BY DEF MutesApart, MuteApart
<1>. QED
  BY <1>1 DEF MuteApart, Elsewhere

LEMMA QuietMutes ==
  ASSUME MutesApart, NEW t \in Threads, Quiet(t), Mute' = Mute
  PROVE  MutesApart'
<1>1. /\ UNCHANGED <<active, chanKey, keyChan>> /\ \A d : Queued(d)' <=> Queued(d)
      /\ \A u \in Threads : pc'[u] \in Busy => pc[u] \in Busy /\ chan'[u] = chan[u]
      /\ PendingNow' \subseteq PendingNow
  BY DEF Quiet, OthersSame, ChannelsSame, Queued
<1>2. Elsewhere(Listener)
  BY <1>1 DEF Elsewhere
<1>3. Listener \notin Mute
  BY DEF MutesApart, MuteApart
<1>. QED
  BY <1>2, <1>3, MutesStay

LEMMA TakesMutes ==
  ASSUME MutesApart, NEW t \in Threads, NEW c \in Channels, Takes(t, c),
         \A d \in Channels : Queued(d)' <=> Queued(d) /\ d # c,
         Mute' \subseteq Mute, c \notin Mute'
  PROVE  MutesApart'
<1>1. Elsewhere(c)
  BY DEF Elsewhere, Takes, OthersSame, ChannelsSame
<1>. QED
  BY <1>1, MutesStay

(* The steps that move one connection, which is not a mute one.            *)
LEMMA MoveMutes ==
  ASSUME TypeOK, ExclusiveInv, MutesApart,
         \/ \E k \in Keys : Dispatch(k)
         \/ Accept
         \/ SelectBegin /\ UNCHANGED adminVars
         \/ \E f \in Fds : SelectEvent(f) /\ UNCHANGED adminVars
         \/ \E t \in Threads : (NewKey(t) \/ CloseSet(t) \/ CloseFd(t)) /\ UNCHANGED adminVars
  PROVE  MutesApart'
<1>t. /\ pc \in [Threads -> Labels] /\ chan \in [Threads -> Channels \cup {NoChannel}]
      /\ active \in [Channels -> BOOLEAN] /\ chanKey \in [Channels -> Keys \cup {NoKey}]
      /\ keyChan \in [Keys -> Channels \cup {NoChannel}] /\ tasks \in Seq(Clients)
      /\ pendingKeys \subseteq Keys /\ lock \in {NoThread, Admin}
      /\ Places /\ AdminPlace /\ Watched /\ Owned /\ OneParty
  BY DEF TypeOK, ExclusiveInv, Placed
<1> USE DEF selectorVars, channelVars, kernelVars, adminVars
<1>p. Mute' = Mute
  BY DEF Dispatch, Accept, SelectBegin, Mute
<1>1. ASSUME NEW k \in Keys, Dispatch(k) PROVE MutesApart'
  <2>1. PICK c \in Channels : c = keyChan[k] /\ k \in PendingNow
    <3>1. k \in PendingNow
      BY <1>t, <1>1 DEF Dispatch, AdminPlace, InRun, PendingNow
    <3>. QED
      BY <1>t, <3>1 DEF OneParty, SelectedApart
  <2>2. c \notin Mute
    BY <2>1 DEF MutesApart, MuteApart
  <2>3. ASSUME NEW d \in Channels \ {c}, Queued(d)' PROVE Queued(d)
    <3>1. CASE IsActivePeer(c)
      <4>1. /\ Len(tasks) \in Nat /\ DOMAIN tasks = 1..Len(tasks) /\ DOMAIN tasks' = 1..(Len(tasks) + 1)
            /\ \A i \in 1..Len(tasks) : tasks'[i] = tasks[i]
            /\ tasks'[Len(tasks) + 1] = c
        BY <1>t, <1>1, <2>1, <3>1 DEF Dispatch, IsActivePeer
      <4>2. \A i \in DOMAIN tasks' : i \in DOMAIN tasks \/ i = Len(tasks) + 1
        BY <4>1
      <4>. QED
        BY <2>3, <4>1, <4>2 DEF Queued
    <3>2. CASE ~IsActivePeer(c)
      BY <1>1, <2>1, <2>3, <3>2 DEF Dispatch, Queued
    <3>. QED
      BY <3>1, <3>2
  <2>4. /\ UNCHANGED <<active, chanKey, keyChan, chan>> /\ PendingNow' \subseteq PendingNow
        /\ \A t \in Threads : pc'[t] \in Busy => pc[t] \in Busy
    BY <1>t, <1>1 DEF Dispatch, PendingNow, AdminPlace, InRun, Busy
  <2>5. Elsewhere(c)
    BY <2>3, <2>4 DEF Elsewhere
  <2>. QED
    BY <1>p, <2>2, <2>5, MutesStay
<1>2. CASE Accept
  <2>1. PICK c \in FreeChannels : /\ active' = [active EXCEPT ![c] = TRUE]
                                  /\ chan' = [chan EXCEPT ![Admin] = c]
    BY <1>2 DEF Accept
  <2>2. c \in Clients /\ c \notin Mute
    BY DEF FreeChannels, Mute
  <2>3. /\ UNCHANGED <<chanKey, keyChan, tasks, lock, pendingKeys, selected>>
        /\ pc' = [pc EXCEPT ![Admin] = "registerTo"]
    BY <1>2 DEF Accept
  <2>4. Elsewhere(c)
    BY <1>t, <2>1, <2>2, <2>3 DEF Elsewhere, Queued, PendingNow
  <2>. QED
    BY <1>p, <2>2, <2>4, MutesStay
<1>3. CASE SelectBegin /\ UNCHANGED adminVars
  <2>1. /\ UNCHANGED <<active, chanKey, chan, tasks, lock>> /\ PendingNow' = {}
        /\ \A t \in Threads : pc'[t] \in Busy => pc[t] \in Busy
    BY <1>t, <1>3 DEF SelectBegin, AdminPlace, InRun, PendingNow, Busy
  <2>2. Elsewhere(Listener)
    BY <2>1 DEF Elsewhere, Queued
  <2>3. Listener \notin Mute
    BY DEF MutesApart, MuteApart
  <2>. QED
    BY <1>p, <2>2, <2>3, MutesStay
<1>4. ASSUME NEW f \in Fds, SelectEvent(f), UNCHANGED adminVars PROVE MutesApart'
  <2>1. PICK c \in Channels : c = keyChan[mKeys[f]] /\ mKeys[f] \in Keys /\ chanKey[c] = mKeys[f]
    BY <1>t, <1>4 DEF SelectEvent, Watched, RegistrationsAgree
  <2>2. c \notin Mute
    BY <2>1 DEF MutesApart, MuteApart
  <2>3. /\ UNCHANGED <<active, keyChan, tasks, lock, selected>> /\ lock = Admin
        /\ chanKey' = [chanKey EXCEPT ![c] = NoKey] /\ pendingKeys' = pendingKeys \cup {mKeys[f]}
        /\ \/ pc' = pc /\ chan' = chan
           \/ pc' = [pc EXCEPT ![Admin] = "close"] /\ chan' = [chan EXCEPT ![Admin] = c]
    BY <1>t, <1>4, <2>1 DEF SelectEvent, KeepSelected, AdminPlace, InSelect
  <2>4. Elsewhere(c)
    BY <1>t, <2>1, <2>3 DEF Elsewhere, Queued, PendingNow
  <2>. QED
    BY <1>p, <2>2, <2>4, MutesStay
<1>5. ASSUME NEW t \in Threads, NewKey(t) \/ CloseSet(t) \/ CloseFd(t), UNCHANGED adminVars
      PROVE  MutesApart'
  <2>1. PICK c \in Channels : c = chan[t] /\ pc[t] \in Busy
    BY <1>t, <1>5 DEF NewKey, CloseSet, CloseFd, Busy, AdminPlace, Places
  <2>2. c \notin Mute
    BY <2>1 DEF MutesApart, MuteApart
  <2>3. chan' = chan /\ \A u \in Threads : pc'[u] \in Busy => pc[u] \in Busy
    BY <1>t, <1>5, <2>1 DEF NewKey, CloseSet, CloseFd
  <2>4. UNCHANGED <<tasks, lock, pendingKeys, selected>> /\ PendingNow' = PendingNow
    BY <1>5 DEF NewKey, CloseSet, CloseFd, PendingNow
  <2>5. \A d \in Channels \ {c} : active'[d] = active[d]
    BY <1>t, <1>5, <2>1 DEF NewKey, CloseSet, CloseFd
  <2>6. \A d \in Channels \ {c} : chanKey[d] = NoKey => chanKey'[d] = NoKey
    BY <1>t, <1>5, <2>1 DEF NewKey, CloseSet, CloseFd
  <2>7. \A k \in PendingNow : keyChan'[k] = c \/ keyChan'[k] = keyChan[k]
    <3>1. PendingNow \subseteq Keys
      BY <1>t, <2>4 DEF PendingNow, TypeOK
    <3>2. \A k \in Keys : keyChan'[k] = c \/ keyChan'[k] = keyChan[k]
      BY <1>t, <1>5, <2>1 DEF NewKey, CloseSet, CloseFd
    <3>. QED
      BY <3>1, <3>2
  <2>8. Elsewhere(c)
    BY <2>1, <2>3, <2>4, <2>5, <2>6, <2>7 DEF Elsewhere, Queued
  <2>. QED
    BY <1>p, <2>2, <2>8, MutesStay
<1>. QED
  BY <1>1, <1>2, <1>3, <1>4, <1>5

LEMMA BreakMutes ==
  ASSUME TypeOK, ExclusiveInv, MutesApart, NEW w \in Workers, Break(w)
  PROVE  MutesApart'
<1>t. /\ pc \in [Threads -> Labels] /\ lock \in {NoThread, Admin} /\ Places /\ Owned /\ OneParty
  BY DEF TypeOK, ExclusiveInv, Placed
<1> USE DEF selectorVars, channelVars, kernelVars
<1>1. PICK c \in Clients : c = chan[w] /\ pc[w] = "processed" /\ pc[w] \in Busy
  BY <1>t DEF Break, Busy, Places
<1>2. /\ UNCHANGED <<active, chanKey, keyChan, chan, tasks, lock, pendingKeys, selected>>
      /\ PendingNow' = PendingNow /\ OthersSame(w) /\ pc'[w] \notin Busy
  BY <1>t DEF Break, PendingNow, OthersSame, Busy
<1>3. \A u \in Threads : pc'[u] \in Busy => pc[u] \in Busy /\ u # w
  BY <1>2 DEF OthersSame
<1>4. Elsewhere(c)
  BY <1>2, <1>3 DEF Elsewhere, Queued
<1>5. Mute' \subseteq Mute \cup {c}
  BY <1>1 DEF Break, Mute
<1>6. MuteApart(c)'
  <2>1. active[c] /\ chanKey[c] = NoKey /\ ~Queued(c) /\ \A k \in PendingNow : keyChan[k] # c
    BY <1>t, <1>1 DEF Owned, BusyOpen, OneParty, BusyApart, Busy
  <2>2. \A u \in Threads : pc[u] \in Busy /\ u # w => chan[u] # c
    BY <1>t, <1>1 DEF OneParty, BusyAlone
  <2>. QED
    BY <1>2, <1>3, <2>1, <2>2 DEF MuteApart, Queued
<1>. QED
  BY <1>4, <1>5, <1>6, MutesStay

LEMMA SameMute ==
  ASSUME \/ AdminStep
         \/ \E t \in Threads : Operation(t)
         \/ \E w \in Workers : StartTask(w) \/ Read(w) \/ Attach(w) \/ Finish(w) \/ TaskDone(w) \/ TaskThrow(w)
         \/ Cancel \/ \E c \in Channels : Arrive(c)
  PROVE  Mute' = Mute
<1> USE DEF adminVars, Mute
<1>1. CASE \E t \in Threads : Operation(t)
  BY <1>1 DEF Operation
<1>2. CASE AdminStep
  <2>1. Admin \in Threads
    OBVIOUS
  <2>. QED
    BY <1>1, <1>2, <2>1 DEF AdminStep, Select, RunLoop, RunSelected, Dispatch, DispatchEnd, Accept, AcceptFail,
                            AdminDone, AdminThrow
<1>3. CASE \E w \in Workers : StartTask(w) \/ Read(w) \/ Attach(w) \/ Finish(w) \/ TaskDone(w) \/ TaskThrow(w)
  <2>1. PICK w \in Workers : StartTask(w) \/ Read(w) \/ Attach(w) \/ Finish(w) \/ TaskDone(w) \/ TaskThrow(w)
    BY <1>3
  <2>2. CASE Attach(w)
    BY <2>2 DEF Attach
  <2>. QED
    BY <2>1, <2>2 DEF StartTask, Read, Finish, TaskDone, TaskThrow
<1>4. CASE Cancel \/ \E c \in Channels : Arrive(c)
  BY <1>4 DEF Cancel, Arrive
<1>. QED
  BY <1>1, <1>2, <1>3, <1>4

-----------------------------------------------------------------------------
LEMMA OperationStep ==
  ASSUME TypeOK, ExclusiveInv, NEW t \in Threads, Operation(t)
  PROVE  ExclusiveInv'
<1>1. ~CancelKey(t) /\ ~RemoveKey(t)
  BY NeverHappens
<1>. QED
  BY <1>1, OperationQuiet, NewKeyStep, CloseSetStep, CloseFdStep DEF Operation

LEMMA SelectStep ==
  ASSUME TypeOK, ExclusiveInv, Select
  PROVE  ExclusiveInv'
<1>1. Admin \in Threads
  OBVIOUS
<1>2. \A f \in Fds : ~SelectThrow(f)
  BY <1>1, NeverHappens
<1>. QED
  BY <1>2, AdminQuiet, SelectBeginStep, SelectEventStep DEF Select

LEMMA AdminKeeps ==
  ASSUME TypeOK, ExclusiveInv, AdminStep
  PROVE  ExclusiveInv'
<1>1. Admin \in Threads
  OBVIOUS
<1>2. ~AdminThrow
  BY <1>1, NeverHappens
<1>3. CASE AdminDone
  BY <1>3, AdminQuiet, AdminTakes
<1>. QED
  BY <1>1, <1>2, <1>3, OperationStep, SelectStep, AdminQuiet, DispatchStep, AcceptStep, AdminTakes DEF AdminStep

LEMMA WorkerKeeps ==
  ASSUME TypeOK, ExclusiveInv, NEW w \in Workers, WorkerStep(w)
  PROVE  ExclusiveInv'
<1>1. w \in Threads
  OBVIOUS
<1>2. ~TaskThrow(w)
  BY <1>1, NeverHappens
<1>. QED
  BY <1>1, <1>2, OperationStep, TaskTakes, TaskQuiet, BreakStep DEF WorkerStep

LEMMA SameState == ExclusiveInv /\ UNCHANGED vars => ExclusiveInv'
<1> SUFFICES ASSUME ExclusiveInv, UNCHANGED vars PROVE ExclusiveInv'
  OBVIOUS
<1>1. UNCHANGED <<lock, enabled, mKeys, pendingKeys, events, active, chanFd, chanKey, keyChan, epollSet,
                  edges, fdChan, data, eof, pc, chan, key, intact, selected, tasks, published>>
  BY DEF vars, vars0, selectorVars, channelVars, kernelVars, threadVars, adminVars
<1>2. PendingNow' = PendingNow /\ \A c : Queued(c)' <=> Queued(c)
  BY <1>1 DEF PendingNow, Queued
<1>3. Placed' /\ Watched' /\ Signalled'
  BY <1>1 DEF ExclusiveInv, Placed, Places, AdminPlace, Watched, RegistrationsAgree, Signalled, Readable,
              AdminCloses
<1>4. Owned'
  BY <1>1 DEF ExclusiveInv, Owned, BusyOpen
<1>5. OneParty'
  BY <1>1, <1>2 DEF ExclusiveInv, OneParty, BusyAlone, BusyApart, SelectedApart, SelectedOnce, QueuedOnce,
                    QueuedApart, ListenerDue, ListenerApart
<1>. QED
  BY <1>3, <1>4, <1>5 DEF ExclusiveInv

(* Whom another task lets go of is mute: a published peer is none else.    *)
LEMMA RespondStep ==
  ASSUME Exclusive, TypeOK, ExclusiveInv, MutesApart, NEW w \in Workers, NEW c \in Clients, Respond(w, c)
  PROVE  /\ ExclusiveInv' /\ MutesApart' /\ Takes(w, c) /\ c \in Mute /\ Mute' = Mute \ {c}
         /\ \A d \in Channels : Queued(d)' <=> Queued(d) /\ d # c
<1>1. c \in Mute /\ Mute' = Mute \ {c}
  BY DEF Respond, Mute, Exclusive
<1>2. MuteApart(c)
  BY <1>1 DEF MutesApart
<1>3. ExclusiveInv' /\ Takes(w, c) /\ \A d \in Channels : Queued(d)' <=> Queued(d) /\ d # c
  BY <1>2, RespondTakes
<1>4. MutesApart'
  BY <1>1, <1>3, TakesMutes
<1>. QED
  BY <1>1, <1>3, <1>4

LEMMA ExclusiveStep ==
  Exclusive /\ TypeOK /\ ExclusiveInv /\ MutesApart /\ [Next]_vars => ExclusiveInv' /\ MutesApart'
<1> SUFFICES ASSUME Exclusive, TypeOK, ExclusiveInv, MutesApart, [Next]_vars
             PROVE  ExclusiveInv' /\ MutesApart'
  OBVIOUS
<1>1. ASSUME NEW t \in Threads, Operation(t) PROVE MutesApart'
  <2>1. ~CancelKey(t) /\ ~RemoveKey(t)
    BY NeverHappens
  <2>2. CASE (RegisterTo(t) \/ Close(t)) /\ UNCHANGED adminVars
    BY <1>1, <2>2, OperationQuiet, SameMute, QuietMutes
  <2>. QED
    BY <1>1, <2>1, <2>2, MoveMutes DEF Operation
<1>2. ASSUME AdminStep PROVE MutesApart'
  <2>1. Admin \in Threads /\ Mute' = Mute
    BY <1>2, SameMute
  <2>2. ~AdminThrow /\ \A f \in Fds : ~SelectThrow(f)
    BY <2>1, NeverHappens
  <2>3. CASE \/ RunLoop \/ RunSelected \/ DispatchEnd
             \/ SelectPoll /\ UNCHANGED adminVars
             \/ SelectWait /\ UNCHANGED adminVars
             \/ AdminDone /\ (lock = Admin \/ chan[Admin] = Listener)
    BY <2>1, <2>3, AdminQuiet, QuietMutes
  <2>4. CASE AcceptFail \/ (AdminDone /\ lock # Admin /\ chan[Admin] # Listener)
    <3>1. Takes(Admin, Listener) /\ tasks' = tasks
      BY <2>4, AdminTakes DEF AcceptFail, AdminDone, adminVars
    <3>2. Listener \notin Mute /\ \A d \in Channels : Queued(d)' <=> Queued(d) /\ d # Listener
      BY <3>1 DEF MutesApart, MuteApart, Queued, TypeOK
    <3>. QED
      BY <2>1, <3>1, <3>2, TakesMutes
  <2>5. CASE Select
    BY <2>2, <2>3, <2>5, MoveMutes DEF Select
  <2>6. CASE AdminDone
    BY <2>3, <2>4, <2>6
  <2>. QED
    BY <1>1, <1>2, <2>1, <2>2, <2>3, <2>4, <2>5, <2>6, MoveMutes DEF AdminStep
<1>3. ASSUME NEW w \in Workers, WorkerStep(w) PROVE ExclusiveInv' /\ MutesApart'
  <2>1. w \in Threads /\ ~TaskThrow(w)
    BY NeverHappens
  <2>2. CASE Break(w)
    BY <2>2, BreakMutes, BreakStep
  <2>3. CASE ~Break(w)
    <3>1. Mute' = Mute
      BY <1>3, <2>1, <2>3, SameMute DEF WorkerStep
    <3>2. CASE StartTask(w)
      <4>1. /\ Takes(w, Head(tasks)) /\ Queued(Head(tasks))
            /\ \A d \in Channels : Queued(d)' <=> Queued(d) /\ d # Head(tasks)
        BY <3>2, TaskTakes
      <4>2. Head(tasks) \notin Mute /\ Head(tasks) \in Channels
        BY <3>2, <4>1 DEF MutesApart, MuteApart, StartTask, TypeOK
      <4>. QED
        BY <1>3, <2>1, <3>1, <4>1, <4>2, TakesMutes, WorkerKeeps
    <3>3. CASE Read(w) \/ Attach(w) \/ Finish(w) \/ TaskDone(w)
      BY <2>1, <3>1, <3>3, TaskQuiet, QuietMutes
    <3>. QED
      BY <1>1, <1>3, <2>1, <2>3, <3>2, <3>3, WorkerKeeps DEF WorkerStep
  <2>. QED
    BY <2>2, <2>3
<1>4. ASSUME NEW w \in Workers, NEW c \in Clients, Respond(w, c) PROVE ExclusiveInv' /\ MutesApart'
  BY <1>4, RespondStep
<1>5. CASE Cancel \/ \E c \in Channels : Arrive(c)
  <2>1. Admin \in Threads
    OBVIOUS
  <2>. QED
    BY <1>5, <2>1, OutsideQuiet, SameMute, QuietMutes
<1>6. CASE UNCHANGED vars
  <2>1. UNCHANGED <<lock, pendingKeys, active, chanKey, keyChan, pc, chan, selected, tasks, published>>
    BY <1>6 DEF vars, vars0, selectorVars, channelVars, kernelVars, threadVars, adminVars
  <2>2. MutesApart'
    BY <2>1 DEF MutesApart, MuteApart, Mute, Queued, PendingNow
  <2>. QED
    BY <1>6, <2>2, SameState
<1>. QED
  BY <1>2, <1>3, <1>4, <1>5, <1>6, AdminKeeps DEF Next

(* ExclusiveInv holds in every state of every execution.                   *)
LEMMA AlwaysExclusive ==
  ASSUME Exclusive
  PROVE  Spec => [](TypeOK /\ ExclusiveInv /\ MutesApart)
<1>1. Init => ExclusiveInv /\ MutesApart
  BY ExclusiveInit DEF Init, MutesApart, Mute
<1>2. TypeOK /\ ExclusiveInv /\ MutesApart /\ [Next]_vars => ExclusiveInv' /\ MutesApart'
  BY ExclusiveStep
<1>. QED
  BY <1>1, <1>2, TypeCorrect, PTL DEF Spec

(* The selector's map, the channel's own entry, the key and the kernel's   *)
(* epoll set always describe one registration: no event is ever handed to  *)
(* the peer of another connection (Selector::put and remove, select()).    *)
THEOREM RegistrationsTrue ==
  ASSUME Exclusive
  PROVE  Spec => []RegistrationsAgree
<1>1. ExclusiveInv => RegistrationsAgree
  BY DEF ExclusiveInv, Watched
<1>. QED
  BY <1>1, AlwaysExclusive, PTL

(* Whoever has a channel open owns its descriptor: no thread closes a      *)
(* number that accept() has given to another connection in the meantime.   *)
THEOREM DescriptorsHeld ==
  ASSUME Exclusive
  PROVE  Spec => []DescriptorsOwned
<1>1. TypeOK /\ ExclusiveInv => DescriptorsOwned
  BY DEF ExclusiveInv, Owned, DescriptorsOwned, TypeOK
<1>. QED
  BY <1>1, AlwaysExclusive, PTL

(* No exception ends the thread that accepts and selects, and no destroyed *)
(* key is used, whatever epoll_wait and accept() return.                   *)
THEOREM AdminLives ==
  ASSUME Exclusive
  PROVE  Spec => []AdminSurvives
<1>1. ExclusiveInv => AdminSurvives
  BY DEF ExclusiveInv, Placed, Places, AdminPlace, InSelect, InRun, AdminSurvives
<1>. QED
  BY <1>1, AlwaysExclusive, PTL

(* The selector closes a connection only when its other end has closed it, *)
(* never one with input still to be read: IOChannel::updateStatus judges   *)
(* by FIONREAD alone, and an event it sees cannot have been served before. *)
THEOREM ClosesAtEof ==
  ASSUME Exclusive
  PROVE  Spec => SelectorClosesAtEof
<1>1. ExclusiveInv => (pc[Admin] = "closeSet" /\ lock = Admin /\ pc'[Admin] # "closeSet" => eof[chan[Admin]])
  BY DEF ExclusiveInv, Signalled, AdminCloses
<1>. QED
  BY <1>1, AlwaysExclusive, PTL DEF SelectorClosesAtEof
=============================================================================
