------------------------------ MODULE Selector ------------------------------
(***************************************************************************)
(* The readiness layer of NodeBus: Selector, SelectionKey, Channel and the *)
(* descriptor of an IOChannel (nodebus/nio).  One selector, owned by the   *)
(* thread Admin; every thread may run Channel::registerTo and              *)
(* Channel::closeChannel.  An operation is a little program of its thread, *)
(* one action per stretch that no other thread can see inside of: a        *)
(* critical section of Selector::m_synchronize is one action, and the      *)
(* accesses to Channel::m_active and Channel::m_keys, which no lock        *)
(* protects, are actions of their own.                                     *)
(*                                                                         *)
(* This module holds the state and the operations; PeerAdmin composes      *)
(* them with the threads that call them.                                   *)
(***************************************************************************)
EXTENDS Naturals, FiniteSets

CONSTANTS Channels,    \* channel objects, the listening one included
          Listener,    \* the ServerSocketChannel
          Fds,         \* descriptor numbers, which the kernel reuses
          Keys,        \* SelectionKey objects, reused once nothing refers to them
          Workers,     \* threads of the QThreadPool
          Admin,       \* the PeerAdmin thread, the one that calls select()
          NoChannel, NoKey, NoThread,
          Dead,        \* an entry of m_keys whose SelectionKey was destroyed
          MaxEvents,   \* NODEBUS_SELECTOR_EPOLL_EVENT_SIZE
          Interrupts   \* may epoll_wait be interrupted (EINTR)?

Threads == Workers \cup {Admin}

ASSUME SelectorAssumption ==
    /\ Listener \in Channels
    /\ Admin \notin Workers
    /\ NoChannel \notin Channels /\ NoThread \notin Threads
    /\ NoKey \notin Keys /\ Dead \notin Keys /\ NoKey # Dead
    /\ Fds \subseteq Nat /\ Fds # {} /\ Keys # {}
    /\ MaxEvents \in Nat \ {0}
    /\ Interrupts \in BOOLEAN

VARIABLES
    lock,         \* Selector::m_synchronize: the thread that holds it across steps
    enabled,      \* Selector::m_enabled and PeerAdmin::m_enabled, cleared together
    mKeys,        \* Selector::m_keys, fd -> key
    pendingKeys,  \* Selector::m_pendingKeys
    events,       \* what is left of the events the last epoll_wait returned
    errno,        \* errno of the Admin thread
    active,       \* Channel::m_active
    chanFd,       \* IOChannel::m_fd; a closed channel keeps the number
    chanKey,      \* Channel::m_keys[&selector]
    keyChan,      \* SelectionKey::m_channel
    epollSet,     \* kernel: descriptors in the selector's epoll set
    edges,        \* kernel: those with an event not yet returned
    fdChan,       \* kernel: the channel whose file is open under a descriptor
    data,         \* kernel: channels with unread input (FIONREAD > 0)
    eof,          \* kernel: channels whose remote end has closed
    pc, chan, key, \* each thread: what it does next, to which channel, which key
    after,        \* each thread: where SelectionKey::cancel returns to
    intact        \* FALSE once a destroyed key has been used

selectorVars == <<enabled, mKeys, pendingKeys, events, errno>>
channelVars  == <<active, chanFd, chanKey, keyChan>>
kernelVars   == <<epollSet, edges, fdChan, data, eof>>
threadVars   == <<pc, chan, key, after>>
vars0 == <<lock, selectorVars, channelVars, kernelVars, threadVars, intact>>

CanLock(t) == lock \in {NoThread, t}          \* the mutex is recursive
Goto(t, label) == pc' = [pc EXCEPT ![t] = label]
FdOf(t) == chanFd[chan[t]]

(* What EPOLL_CTL_ADD reports at once: input that is already there.        *)
(* Mutant: only what arrives after the registration is reported.           *)
MutantOnlyNewInput(c) == FALSE
Readable(c) == data[c] \/ eof[c]

(* The keys nothing refers to: a new SelectionKey may be one of these. *)
ReferredKeys ==
    {mKeys[f] : f \in Fds} \cup {chanKey[c] : c \in Channels} \cup {key[t] : t \in Threads}
FreshKeys == Keys \ (ReferredKeys \cup pendingKeys)

(* Using the m_keys entry of f.  If its key is destroyed this uses freed   *)
(* memory: from there on the process may have died, or go on as if nothing *)
(* had happened, which is how it goes on here.                             *)
Touch(f) == intact' = (intact /\ mKeys[f] # Dead)

-----------------------------------------------------------------------------
(* SelectionKey::cancel, called from registerTo and from closeChannel.  It *)
(* tests isValid() before it takes the lock.                               *)

CancelKey(t) ==
    /\ pc[t] = "cancel"
    /\ Goto(t, IF keyChan[key[t]] = NoChannel THEN after[t] ELSE "remove")
    /\ UNCHANGED <<lock, selectorVars, channelVars, kernelVars, chan, key, after, intact>>

(* Selector::remove and the two assignments after it.  Two failures: the   *)
(* key lost its channel while the thread waited for the lock (a null       *)
(* SharedPtr throws), or the descriptor has left the epoll set             *)
(* (EPOLL_CTL_DEL fails after m_keys has been changed).                    *)
RemoveKey(t) ==
    /\ pc[t] = "remove"
    /\ CanLock(t)
    /\ LET k == key[t]
           c == keyChan[k]
           f == chanFd[c]
       IN IF c = NoChannel
          THEN /\ Goto(t, "throw")
               /\ UNCHANGED <<mKeys, chanKey, keyChan, epollSet, edges, intact>>
          ELSE /\ Touch(f)
               /\ mKeys' = [mKeys EXCEPT ![f] = NoKey]
               /\ epollSet' = epollSet \ {f}
               /\ edges' = edges \ {f}
               /\ IF f \in epollSet
                  THEN /\ chanKey' = [chanKey EXCEPT ![c] = NoKey]
                       /\ keyChan' = [keyChan EXCEPT ![k] = NoChannel]
                       /\ Goto(t, after[t])
                  ELSE /\ Goto(t, "throw")
                       /\ UNCHANGED <<chanKey, keyChan>>
    /\ UNCHANGED <<lock, enabled, pendingKeys, events, errno, active, chanFd,
                   fdChan, data, eof, chan, key, after>>

-----------------------------------------------------------------------------
(* Channel::registerTo: a key this channel already has is cancelled first. *)

RegisterTo(t) ==
    /\ pc[t] = "registerTo"
    /\ key' = [key EXCEPT ![t] = chanKey[chan[t]]]
    /\ after' = [after EXCEPT ![t] = "newKey"]
    /\ Goto(t, IF chanKey[chan[t]] = NoKey THEN "newKey" ELSE "cancel")
    /\ UNCHANGED <<lock, selectorVars, channelVars, kernelVars, chan, intact>>

(* SelectionKey::SelectionKey and Selector::put.  m_keys is assigned       *)
(* before EPOLL_CTL_ADD; if that fails (a closed descriptor, or one        *)
(* already in the set) the constructor throws and the key it put into      *)
(* m_keys is destroyed.  EPOLL_CTL_ADD reports input that is already there.*)
NewKey(t) ==
    /\ pc[t] = "newKey"
    /\ CanLock(t)
    /\ FreshKeys # {}
    /\ LET f == FdOf(t)
           k == CHOOSE free \in FreshKeys : TRUE
           added == fdChan[f] # NoChannel /\ f \notin epollSet
       IN /\ Touch(f)
          /\ \/ /\ added
                /\ mKeys' = [mKeys EXCEPT ![f] = k]
                /\ keyChan' = [keyChan EXCEPT ![k] = chan[t]]
                /\ chanKey' = [chanKey EXCEPT ![chan[t]] = k]
                /\ epollSet' = epollSet \cup {f}
                /\ edges' = edges \cup {g \in {f} : Readable(fdChan[g])}
                /\ Goto(t, "done")
             \/ /\ ~added
                /\ mKeys' = [mKeys EXCEPT ![f] = Dead]
                /\ Goto(t, "throw")
                /\ UNCHANGED <<keyChan, chanKey, epollSet, edges>>
    /\ UNCHANGED <<lock, enabled, pendingKeys, events, errno, active, chanFd,
                   fdChan, data, eof, chan, key, after>>

-----------------------------------------------------------------------------
(* Channel::closeChannel.  m_active is tested, then cleared, by a thread   *)
(* that holds no lock.                                                     *)

Close(t) ==
    /\ pc[t] = "close"
    /\ Goto(t, IF active[chan[t]] THEN "closeSet" ELSE "done")
    /\ UNCHANGED <<lock, selectorVars, channelVars, kernelVars, chan, key, after, intact>>

(* Mutant: the channel stays active. *)
MutantCloseSet(t) ==
    /\ pc[t] = "closeSet"
    /\ key' = [key EXCEPT ![t] = chanKey[chan[t]]]
    /\ after' = [after EXCEPT ![t] = "closeFd"]
    /\ Goto(t, IF chanKey[chan[t]] = NoKey THEN "closeFd" ELSE "cancel")
    /\ UNCHANGED <<lock, selectorVars, channelVars, kernelVars, chan, intact>>

CloseSet(t) ==
    /\ pc[t] = "closeSet"
    /\ active' = [active EXCEPT ![chan[t]] = FALSE]
    /\ key' = [key EXCEPT ![t] = chanKey[chan[t]]]
    /\ after' = [after EXCEPT ![t] = "closeFd"]
    /\ Goto(t, IF chanKey[chan[t]] = NoKey THEN "closeFd" ELSE "cancel")
    /\ UNCHANGED <<lock, selectorVars, chanFd, chanKey, keyChan, kernelVars, chan, intact>>

(* ::close of the number m_fd, whoever owns it now: the kernel forgets the *)
(* file, its input and its place in the epoll set.                         *)
CloseFd(t) ==
    /\ pc[t] = "closeFd"
    /\ LET f == FdOf(t)
           c == fdChan[f]
       IN /\ fdChan' = [fdChan EXCEPT ![f] = NoChannel]
          /\ epollSet' = epollSet \ {f}
          /\ edges' = edges \ {f}
          /\ data' = [d \in Channels |-> data[d] /\ d # c]
          /\ eof' = [d \in Channels |-> eof[d] /\ d # c]
    /\ Goto(t, "done")
    /\ UNCHANGED <<lock, selectorVars, channelVars, chan, key, after, intact>>

-----------------------------------------------------------------------------
(* Selector::select(-1), run by Admin only.                                *)

(* Clearing m_pendingKeys destroys the keys that nothing else refers to,   *)
(* which lets go of their channels.                                        *)
SelectBegin ==
    /\ pc[Admin] = "select"
    /\ CanLock(Admin)
    /\ pendingKeys' = {}
    /\ keyChan' = [k \in Keys |-> IF k \in ReferredKeys THEN keyChan[k] ELSE NoChannel]
    /\ Goto(Admin, "poll")
    /\ UNCHANGED <<lock, enabled, mKeys, events, errno, active, chanFd, chanKey, kernelVars,
                   chan, key, after, intact>>

(* The loop condition, and relock() when it holds.  After `continue' the   *)
(* lock is still held; the return releases it.                             *)
SelectPoll ==
    /\ pc[Admin] = "poll"
    /\ \/ enabled /\ CanLock(Admin) /\ lock' = Admin /\ Goto(Admin, "wait")
       \/ ~enabled /\ lock' = NoThread /\ Goto(Admin, "run")
    /\ UNCHANGED <<selectorVars, channelVars, kernelVars, chan, key, after, intact>>

(* epoll_wait returned ready, a set of at most MaxEvents descriptors, or   *)
(* failed with EINTR.  A call that succeeds leaves errno alone, so once    *)
(* errno is EINTR every later iteration takes `continue': the events are   *)
(* dropped and the lock is kept.                                           *)
SelectWait ==
    /\ pc[Admin] = "wait"
    /\ \/ \E ready \in SUBSET edges :
             /\ Cardinality(ready) <= MaxEvents
             /\ ready # edges => Cardinality(ready) = MaxEvents
             /\ edges' = edges \ ready
             /\ errno' = errno
             /\ \/ /\ errno = "EINTR"
                   /\ Goto(Admin, "poll")
                   /\ UNCHANGED <<lock, events>>
                \/ /\ errno # "EINTR" /\ ready # {}
                   /\ events' = ready
                   /\ Goto(Admin, "events")
                   /\ UNCHANGED lock
                \/ /\ errno # "EINTR" /\ ready = {}
                   /\ lock' = NoThread
                   /\ Goto(Admin, "poll")
                   /\ UNCHANGED events
       \/ /\ Interrupts
          /\ errno' = "EINTR"
          /\ Goto(Admin, "poll")
          /\ UNCHANGED <<edges, lock, events>>
    /\ UNCHANGED <<enabled, mKeys, pendingKeys, channelVars, epollSet, fdChan, data,
                   eof, chan, key, after, intact>>

(* EPOLL_CTL_DEL of a selected descriptor.  Mutant: it stays in the set.   *)
MutantStaysWatched(f) == edges' = edges \ {f} /\ UNCHANGED epollSet
Unwatch(f) == edges' = edges \ {f} /\ epollSet' = epollSet \ {f}

(* m_keys.remove.  Mutant: the entry stays. *)
MutantKeyStays(f) == UNCHANGED mKeys
ForgetKey(f) == mKeys' = [mKeys EXCEPT ![f] = NoKey]

(* m_pendingKeys: the key is kept as selected.  Mutant: only the last one. *)
MutantKeepLast(k) == pendingKeys' = {k}
KeepSelected(k) == pendingKeys' = pendingKeys \cup {k}

(* updateStatus: must channel c, whose event came with descriptor f, be    *)
(* closed?  An IOChannel with nothing to read (FIONREAD gives 0), never a  *)
(* ServerSocketChannel.  Mutants: FIONREAD is not asked; nobody looks.     *)
MutantAnyEvent(c, f) == c \in Channels \ {Listener}
MutantNoLook(c, f) == FALSE
AtEof(c, f) == c \in Channels \ {Listener} /\ ~data[fdChan[f]]

(* One turn of the event loop of select(): take the descriptor out of the  *)
(* epoll set, take its key out of both maps, let the channel look at the   *)
(* event (IOChannel::updateStatus closes it if it has nothing to read; a   *)
(* ServerSocketChannel does nothing), and keep the key as selected.        *)
SelectEvent(f) ==
    /\ pc[Admin] = "events"
    /\ f \in events
    /\ f \in epollSet
    /\ Unwatch(f)
    /\ events' = events \ {f}
    /\ ForgetKey(f)
    /\ Touch(f)
    /\ \/ /\ mKeys[f] \notin Keys
          /\ UNCHANGED <<pendingKeys, chanKey, pc, chan>>
       \/ /\ mKeys[f] \in Keys
          /\ LET k == mKeys[f]
                 c == keyChan[k]
             IN /\ chanKey' = [chanKey EXCEPT ![c] = NoKey]
                /\ KeepSelected(k)
                /\ IF AtEof(c, f)
                   THEN Goto(Admin, "close") /\ chan' = [chan EXCEPT ![Admin] = c]
                   ELSE UNCHANGED <<pc, chan>>
    /\ UNCHANGED <<lock, enabled, errno, active, chanFd, keyChan, fdChan, data, eof, key,
                   after>>

(* EPOLL_CTL_DEL fails: select() throws, and its QMutexLocker unlocks.     *)
(* Mutant: an exception leaves the mutex locked.                           *)
MutantSelectThrow(f) ==
    /\ pc[Admin] = "events"
    /\ f \in events
    /\ f \notin epollSet
    /\ events' = {}
    /\ chan' = [chan EXCEPT ![Admin] = NoChannel]
    /\ Goto(Admin, "run")
    /\ UNCHANGED <<lock, enabled, mKeys, pendingKeys, errno, channelVars, kernelVars, key,
                   after, intact>>

SelectThrow(f) ==
    /\ pc[Admin] = "events"
    /\ f \in events
    /\ f \notin epollSet
    /\ events' = {}
    /\ lock' = NoThread
    /\ Goto(Admin, "throw")
    /\ UNCHANGED <<enabled, mKeys, pendingKeys, errno, channelVars, kernelVars, chan, key, after, intact>>
=============================================================================
