---------------------------- MODULE ServerProofs ----------------------------
(***************************************************************************)
(* Proofs about two parts of every service.  Of its sockets, for every set *)
(* of listeners and connections and however many descriptors there are,    *)
(* that a connection leaves nothing behind (GoneIsClosed): the inductive   *)
(* invariant, SocketsInv, says what each connection holds at each stage,   *)
(* Held, for which it has to know that the Admin thread opens one          *)
(* connection at a time and finds in a backlog only connections that       *)
(* nobody has begun with (Queued).                                         *)
(*                                                                         *)
(* Of its log, for every number of threads, parts and entries, that the    *)
(* lines of an entry stay together on std::cerr (EntriesTogether): the     *)
(* inductive invariant, LogInv, says that no line of the entry a thread is *)
(* composing has been written yet (Numbered), so that the whole buffer,    *)
(* put behind what is there, is a block of its own.                        *)
(***************************************************************************)
EXTENDS Sockets, Log, SequenceTheorems, TLAPS

SocketsSpec == SocketsInit /\ [][SocketsNext]_socketVars

Waits == {"select", "ended", "deaf"}
AdminPcs == Waits \cup {"accept", "options", "channel", "session", "handshake",
                       "unwind", "register", "caught", "listen"}
Opening == {"options", "channel", "session", "handshake", "unwind", "register"}

(* The Admin thread, and the connection it is opening.                     *)
AdminOK ==
    /\ admin \in [pc : AdminPcs, listener : Listeners \cup {"none"}, conn : Conns \cup {"none"}]
    /\ admin.pc \notin Waits => admin.listener \in Listeners
    /\ admin.pc = "accept" => backlog[admin.listener] # <<>>
    /\ admin.pc \in Opening => admin.conn \in Conns /\ connStage[admin.conn] = "opening"
    /\ admin.pc \in {"session", "handshake"} => IsSecure(admin.conn)

OneOpening ==
    \A c \in Conns : connStage[c] = "opening" =>
        admin.conn = c /\ admin.pc \in Opening \cup {"caught"}

(* A backlog holds connections that wait, each of them once.               *)
Waiting(l, i) == connStage[backlog[l][i]] = "waiting" /\ ListenerOf[backlog[l][i]] = l
QueuedOnce(l) == \A i, j \in 1 .. Len(backlog[l]) : backlog[l][i] = backlog[l][j] => i = j
Queued ==
    \A l \in Listeners : QueuedOnce(l) /\ \A i \in 1 .. Len(backlog[l]) : Waiting(l, i)

Unconnected == \A c \in Conns : client[c] = "away" <=> connStage[c] = "none"

(* What a connection holds, by its stage.                                  *)
OpeningAt(c, pcs) == connStage[c] = "opening" /\ admin.pc \in pcs
HoldsSocket(c) == connStage[c] \in {"lost", "armed", "task"} \/ OpeningAt(c, Opening)
HoldsEpoll(c) ==
    \/ connStage[c] \in {"armed", "task", "closed"}
    \/ OpeningAt(c, {"session", "handshake", "unwind", "register"})
HoldsSession(c) ==
    /\ IsSecure(c)
    /\ connStage[c] \in {"armed", "task", "closed"} \/ OpeningAt(c, {"handshake", "register"})
IsActive(c) ==
    \/ connStage[c] \in {"armed", "task"}
    \/ OpeningAt(c, {"session", "handshake", "unwind", "register"})
HeldBy(c) ==
    /\ <<"socket", c>> \in files <=> HoldsSocket(c)
    /\ <<"epoll", c>> \in files <=> HoldsEpoll(c)
    /\ c \in sessions <=> HoldsSession(c)
    /\ c \in active <=> IsActive(c)
Held == \A c \in Conns : HeldBy(c)

SocketsInv ==
    /\ SocketsTypeOK /\ AdminOK /\ OneOpening
    /\ Queued /\ Unconnected /\ Held
    /\ intact

-----------------------------------------------------------------------------
USE SocketsAssumption

LEMMA SocketsInvInit == SocketsInit => SocketsInv
<1> SUFFICES ASSUME SocketsInit PROVE SocketsInv
  OBVIOUS
<1> USE DEF SocketsInit, AdminIdle
<1>1. SocketsTypeOK
  BY DEF SocketsTypeOK, ClientStates, ConnStages
<1>2. AdminOK /\ OneOpening
  BY DEF AdminOK, OneOpening, AdminPcs, Waits, Opening
<1>3. Queued /\ Unconnected
  BY DEF Queued, QueuedOnce, Waiting, Unconnected
<1>4. Held
  BY DEF Held, HeldBy, HoldsSocket, HoldsEpoll, HoldsSession, IsActive, OpeningAt
<1>. QED
  BY <1>1, <1>2, <1>3, <1>4 DEF SocketsInv

(* A connection enters a backlog at its end, and leaves it at its head.    *)
LEMMA QueuedStep == SocketsInv /\ SocketsNext => Queued'
<1> SUFFICES ASSUME SocketsInv, SocketsNext PROVE Queued'
  OBVIOUS
<1>t. SocketsTypeOK /\ AdminOK /\ OneOpening /\ Queued /\ Unconnected
  BY DEF SocketsInv
<1>1. CASE \E c \in Conns : ClientConnects(c)
  <2>1. PICK c \in Conns : ClientConnects(c)
    BY <1>1
  <2> DEFINE k == ListenerOf[c]
  <2>2. k \in Listeners /\ backlog' = [backlog EXCEPT ![k] = Append(backlog[k], c)]
    BY <2>1 DEF ClientConnects
  <2>3. connStage' = [connStage EXCEPT ![c] = "waiting"] /\ connStage[c] = "none"
    BY <1>t, <2>1 DEF ClientConnects, Unconnected
  <2>4. SUFFICES ASSUME NEW l \in Listeners
                 PROVE  QueuedOnce(l)' /\ \A i \in 1 .. Len(backlog'[l]) : Waiting(l, i)'
    BY DEF Queued
  <2>5. /\ backlog[l] \in Seq(Conns) /\ QueuedOnce(l)
        /\ \A i \in 1 .. Len(backlog[l]) : Waiting(l, i)
    BY <1>t DEF SocketsTypeOK, Queued
  <2>6. \A i \in 1 .. Len(backlog[l]) : backlog[l][i] \in Conns /\ backlog[l][i] # c
    BY <2>3, <2>5 DEF Waiting
  <2>7. CASE l # k
    <3>1. backlog'[l] = backlog[l]
      BY <1>t, <2>2, <2>7 DEF SocketsTypeOK
    <3>2. QueuedOnce(l)'
      BY <2>5, <3>1 DEF QueuedOnce
    <3>3. \A i \in 1 .. Len(backlog'[l]) : Waiting(l, i)'
      BY <1>t, <2>3, <2>5, <2>6, <3>1 DEF Waiting, SocketsTypeOK
    <3>. QED
      BY <3>2, <3>3
  <2>8. CASE l = k
    <3>1. backlog'[l] = Append(backlog[l], c)
      BY <1>t, <2>2, <2>8 DEF SocketsTypeOK
    <3>2. /\ Len(backlog'[l]) = Len(backlog[l]) + 1
          /\ \A i \in 1 .. Len(backlog[l]) : backlog'[l][i] = backlog[l][i]
          /\ backlog'[l][Len(backlog[l]) + 1] = c
      BY <2>5, <3>1, AppendProperties
    <3>3. Len(backlog[l]) \in Nat
      BY <2>5
    <3>4. /\ \A i \in 1 .. Len(backlog'[l]) : i \in 1 .. Len(backlog[l]) \/ i = Len(backlog[l]) + 1
          /\ Len(backlog[l]) + 1 \notin 1 .. Len(backlog[l])
      BY <3>2, <3>3
    <3>5. ASSUME NEW i \in 1 .. Len(backlog'[l]), NEW j \in 1 .. Len(backlog'[l]),
                 backlog'[l][i] = backlog'[l][j]
          PROVE  i = j
      <4>1. i \in 1 .. Len(backlog[l]) /\ j \in 1 .. Len(backlog[l]) => i = j
        BY <2>5, <3>2, <3>5 DEF QueuedOnce
      <4>2. i \in 1 .. Len(backlog[l]) <=> j \in 1 .. Len(backlog[l])
        BY <2>6, <3>2, <3>4, <3>5
      <4>. QED
        BY <3>4, <4>1, <4>2
    <3>6. connStage'[c] = "waiting"
      BY <1>t, <2>3 DEF SocketsTypeOK
    <3>7. \A i \in 1 .. Len(backlog[l]) : connStage'[backlog[l][i]] = "waiting"
      BY <1>t, <2>3, <2>5, <2>6 DEF Waiting, SocketsTypeOK
    <3>8. \A i \in 1 .. Len(backlog'[l]) : Waiting(l, i)'
      BY <2>5, <2>8, <3>2, <3>4, <3>6, <3>7 DEF Waiting
    <3>. QED
      BY <3>5, <3>8 DEF QueuedOnce
  <2>. QED
    BY <2>7, <2>8
<1>2. CASE SAccept /\ SlotLeft
  <2> DEFINE k == admin.listener
             c == Head(backlog[k])
  <2>1. /\ k \in Listeners /\ backlog[k] \in Seq(Conns) /\ backlog[k] # <<>>
    BY <1>t, <1>2 DEF SAccept, AdminOK, SocketsTypeOK, Waits
  <2>2. /\ backlog' = [backlog EXCEPT ![k] = Tail(backlog[k])]
        /\ connStage' = [connStage EXCEPT ![c] = "opening"]
    BY <1>2 DEF SAccept
  <2>3. c = backlog[k][1] /\ 1 \in 1 .. Len(backlog[k]) /\ ListenerOf[c] = k /\ c \in Conns
    BY <1>t, <2>1, HeadTailProperties DEF Queued, Waiting
  <2>4. SUFFICES ASSUME NEW l \in Listeners
                 PROVE  QueuedOnce(l)' /\ \A i \in 1 .. Len(backlog'[l]) : Waiting(l, i)'
    BY DEF Queued
  <2>5. /\ backlog[l] \in Seq(Conns) /\ QueuedOnce(l)
        /\ \A i \in 1 .. Len(backlog[l]) : Waiting(l, i)
    BY <1>t DEF SocketsTypeOK, Queued
  <2>6. CASE l # k
    <3>1. backlog'[l] = backlog[l]
      BY <1>t, <2>2, <2>6 DEF SocketsTypeOK
    <3>2. \A i \in 1 .. Len(backlog[l]) : backlog[l][i] \in Conns /\ backlog[l][i] # c
      BY <2>3, <2>5, <2>6 DEF Waiting
    <3>3. QueuedOnce(l)'
      BY <2>5, <3>1 DEF QueuedOnce
    <3>4. \A i \in 1 .. Len(backlog'[l]) : Waiting(l, i)'
      BY <1>t, <2>2, <2>5, <3>1, <3>2 DEF Waiting, SocketsTypeOK
    <3>. QED
      BY <3>3, <3>4
  <2>7. CASE l = k
    <3>1. backlog'[l] = Tail(backlog[l])
      BY <1>t, <2>2, <2>7 DEF SocketsTypeOK
    <3>2. /\ Len(backlog'[l]) = Len(backlog[l]) - 1
          /\ \A i \in 1 .. Len(backlog'[l]) : backlog'[l][i] = backlog[l][i + 1]
      BY <2>1, <2>5, <2>7, <3>1, HeadTailProperties
    <3>3. \A i \in 1 .. Len(backlog'[l]) : i + 1 \in 1 .. Len(backlog[l]) /\ i + 1 # 1
      BY <2>5, <3>2
    <3>4. \A i \in 1 .. Len(backlog'[l]) : backlog[l][i + 1] \in Conns /\ backlog[l][i + 1] # c
      BY <2>3, <2>5, <2>7, <3>3 DEF QueuedOnce
    <3>5. QueuedOnce(l)'
      BY <2>5, <3>2, <3>3 DEF QueuedOnce
    <3>6. \A d \in Conns : d # c => connStage'[d] = connStage[d]
      BY <1>t, <2>2 DEF SocketsTypeOK
    <3>7. \A i \in 1 .. Len(backlog'[l]) : Waiting(l, i)'
      BY <2>5, <3>2, <3>3, <3>4, <3>6 DEF Waiting
    <3>. QED
      BY <3>5, <3>7
  <2>. QED
    BY <2>6, <2>7
<1>3. CASE /\ backlog' = backlog
           /\ \A c \in Conns : connStage[c] = "waiting" => connStage'[c] = "waiting"
  <2>1. \A l \in Listeners : backlog[l] \in Seq(Conns)
    BY <1>t DEF SocketsTypeOK
  <2>. QED
    BY <1>t, <1>3, <2>1 DEF Queued, QueuedOnce, Waiting
<1>4. CASE ~(\E c \in Conns : ClientConnects(c)) /\ ~(SAccept /\ SlotLeft)
  <2>1. backlog' = backlog
    BY <1>4 DEF SocketsNext, ProcessServer, Serve, OwnSteps, SAccept, ServerReady, Interrupted, SetOptions,
                NewIOChannel, NewSession, Handshake, Unwind, RegisterPeer, Caught, ServerDone,
                PeerReady, SelectorCloses, TaskReads, ClosedByOther, DeleteChannel, ClientMoves
  <2>2. ASSUME NEW c \in Conns, connStage[c] = "waiting" PROVE connStage'[c] = "waiting"
    <3> USE <1>t, <2>2 DEF SocketsTypeOK
    <3>1. admin.pc \in Opening => admin.conn # c
      BY DEF AdminOK
    <3>2. CASE SAccept
      BY <1>4, <3>2 DEF SAccept
    <3>3. CASE ProcessServer /\ ~SAccept
      BY <3>1, <3>3 DEF ProcessServer, SetOptions, NewIOChannel, Lose, NewSession, Handshake,
                        Unwind, RegisterPeer, Caught, ServerDone, Opening
    <3>4. CASE \/ \E l \in Listeners : ServerReady(l)
               \/ \E d \in Conns : Serve(d) \/ OwnSteps(d) \/ ClientMoves(d)
      BY <3>4 DEF ServerReady, Serve, OwnSteps, PeerReady, SelectorCloses, CloseSocket, TaskReads, ClosedByOther,
                  DeleteChannel, ClientMoves
    <3>5. CASE Interrupted
      BY <3>5 DEF Interrupted
    <3>. QED
      BY <1>4, <3>2, <3>3, <3>4, <3>5 DEF SocketsNext
  <2>. QED
    BY <1>3, <2>1, <2>2
<1>. QED
  BY <1>1, <1>2, <1>4

(* A step that leaves a connection alone leaves it what it holds.          *)
Holdings(c) == <<connStage[c], <<"socket", c>> \in files, <<"epoll", c>> \in files,
                 c \in sessions, c \in active>>

LEMMA Undisturbed ==
  ASSUME NEW c \in Conns, HeldBy(c),
         connStage'[c] = connStage[c], connStage[c] = "opening" => admin'.pc = admin.pc,
         <<"socket", c>> \in files' <=> <<"socket", c>> \in files,
         <<"epoll", c>> \in files' <=> <<"epoll", c>> \in files,
         c \in sessions' <=> c \in sessions, c \in active' <=> c \in active
  PROVE  HeldBy(c)'
BY DEF HeldBy, HoldsSocket, HoldsEpoll, HoldsSession, IsActive, OpeningAt, IsSecure

(* The Admin thread's steps concern the connection it takes or opens.      *)
LEMMA AcceptHeld ==
  ASSUME SocketsInv, SAccept
  PROVE  Held'
<1>t. /\ SocketsTypeOK /\ AdminOK /\ OneOpening /\ Queued
      /\ \A d \in Conns : HeldBy(d)
  BY DEF SocketsInv, Held
<1>1. SUFFICES ASSUME NEW d \in Conns PROVE HeldBy(d)'
  BY DEF Held
<1>2. HeldBy(d) /\ connStage[d] # "opening"
  BY <1>t DEF OneOpening, SAccept, Opening
<1>3. CASE ~SlotLeft
  BY <1>2, <1>3, Undisturbed DEF SAccept
<1>4. CASE SlotLeft
  <2> DEFINE c == Head(backlog[admin.listener])
  <2>1. c \in Conns /\ connStage[c] = "waiting"
    <3>1. admin.listener \in Listeners /\ backlog[admin.listener] # <<>>
          /\ backlog[admin.listener] \in Seq(Conns)
      BY <1>t DEF SAccept, AdminOK, SocketsTypeOK, Waits
    <3>. QED
      BY <1>t, <3>1, HeadTailProperties DEF Queued, Waiting
  <2>2. /\ connStage' = [connStage EXCEPT ![c] = "opening"]
        /\ files' = files \cup {<<"socket", c>>}
        /\ admin'.pc = "options" /\ active' = active /\ sessions' = sessions
    BY <1>4, <1>t DEF SAccept, AdminOK
  <2> HIDE DEF c
  <2>3. CASE d # c
    <3>1. connStage'[d] = connStage[d]
      BY <1>t, <2>2, <2>3 DEF SocketsTypeOK
    <3>. QED
      BY <1>2, <2>2, <2>3, <3>1, Undisturbed
  <2>4. CASE d = c
    <3>1. connStage'[d] = "opening"
      BY <1>t, <2>2, <2>4 DEF SocketsTypeOK
    <3>. QED
      BY <1>2, <2>1, <2>2, <2>4, <3>1
      DEF HeldBy, HoldsSocket, HoldsEpoll, HoldsSession, IsActive, OpeningAt, Opening
  <2>. QED
    BY <2>3, <2>4
<1>. QED
  BY <1>3, <1>4

LEMMA OpeningHeld ==
  ASSUME SocketsInv, ProcessServer, ~SAccept
  PROVE  Held'
<1>t. /\ SocketsTypeOK /\ AdminOK /\ OneOpening
      /\ \A d \in Conns : HeldBy(d)
  BY DEF SocketsInv, Held
<1>1. SUFFICES ASSUME NEW d \in Conns PROVE HeldBy(d)'
  BY DEF Held
<1>2. HeldBy(d) /\ connStage \in [Conns -> ConnStages]
  BY <1>t DEF SocketsTypeOK
<1>3. CASE d # admin.conn
  <2>1. connStage[d] # "opening"
    BY <1>t, <1>3 DEF OneOpening
  <2>2. /\ connStage'[d] = connStage[d]
        /\ <<"socket", d>> \in files' <=> <<"socket", d>> \in files
        /\ <<"epoll", d>> \in files' <=> <<"epoll", d>> \in files
        /\ d \in sessions' <=> d \in sessions
        /\ d \in active' <=> d \in active
    BY <1>2, <1>3 DEF ProcessServer, SetOptions, NewIOChannel, Lose, NewSession, Handshake,
          HandshakeFails, FreeSession, Unwind, ClosedByBase, RegisterPeer, Caught, ServerDone
  <2>. QED
    BY <1>2, <2>1, <2>2, Undisturbed
<1>4. CASE d = admin.conn
  <2> USE <1>2, <1>4 DEF HeldBy, HoldsSocket, HoldsEpoll, HoldsSession, IsActive, OpeningAt,
                         Opening, IsSecure, AdminAt
  <2>a. admin \in [pc : AdminPcs, listener : Listeners \cup {"none"}, conn : Conns \cup {"none"}]
    BY <1>t DEF AdminOK
  <2>b. admin.pc \in Opening => connStage[d] = "opening"
    BY <1>t DEF AdminOK
  <2>1. CASE SetOptions
    BY <2>a, <2>b, <2>1 DEF SetOptions, Lose
  <2>2. CASE NewIOChannel
    BY <2>a, <2>b, <2>2 DEF NewIOChannel, Lose
  <2>3. CASE NewSession
    BY <1>t, <2>a, <2>b, <2>3 DEF NewSession, AdminOK
  <2>4. CASE Handshake
    BY <1>t, <2>a, <2>b, <2>4 DEF Handshake, HandshakeFails, FreeSession, AdminOK
  <2>5. CASE Unwind
    BY <2>a, <2>b, <2>5 DEF Unwind, ClosedByBase
  <2>6. CASE RegisterPeer
    BY <2>a, <2>b, <2>6 DEF RegisterPeer
  <2>7. CASE Caught
    BY <2>a, <2>7 DEF Caught
  <2>8. CASE ServerDone
    BY <1>t, <2>a, <2>8 DEF ServerDone, OneOpening, AdminIdle
  <2>. QED
    BY <2>1, <2>2, <2>3, <2>4, <2>5, <2>6, <2>7, <2>8 DEF ProcessServer
<1>. QED
  BY <1>3, <1>4

LEMMA HeldStep ==
  ASSUME SocketsInv, SocketsNext
  PROVE  Held'
<1>t. /\ SocketsTypeOK /\ AdminOK /\ OneOpening /\ Unconnected
      /\ \A d \in Conns : HeldBy(d)
  BY DEF SocketsInv, Held
<1>1. CASE ProcessServer
  BY <1>1, AcceptHeld, OpeningHeld
<1>2. SUFFICES ASSUME ~ProcessServer, NEW d \in Conns PROVE HeldBy(d)'
  BY <1>1 DEF Held
<1>3. HeldBy(d) /\ connStage \in [Conns -> ConnStages]
  BY <1>t DEF SocketsTypeOK
<1>4. CASE \E l \in Listeners : ServerReady(l)
  <2>1. connStage[d] # "opening"
    BY <1>4, <1>t DEF ServerReady, OneOpening, Opening
  <2>. QED
    BY <1>3, <1>4, <2>1, Undisturbed DEF ServerReady
<1>5. ASSUME NEW c \in Conns, Serve(c) \/ OwnSteps(c) \/ ClientConnects(c) \/ ClientMoves(c)
      PROVE  HeldBy(d)'
  <2>1. admin' = admin \/ admin.pc = "select"
    BY <1>5 DEF Serve, OwnSteps, PeerReady, SelectorCloses, TaskReads, ClosedByOther, DeleteChannel,
                ClientConnects, ClientMoves
  <2>a. connStage[d] = "opening" => admin' = admin
    BY <1>t, <2>1 DEF OneOpening, Opening
  <2>2. CASE d # c
    <3>1. /\ connStage'[d] = connStage[d]
          /\ <<"socket", d>> \in files' <=> <<"socket", d>> \in files
          /\ <<"epoll", d>> \in files' <=> <<"epoll", d>> \in files
          /\ d \in sessions' <=> d \in sessions
          /\ d \in active' <=> d \in active
      BY <1>3, <1>5, <2>2 DEF Serve, OwnSteps, PeerReady, SelectorCloses, CloseSocket, TaskReads, ClosedByOther,
            DeleteChannel, FreeSession, ClientConnects, ClientMoves
    <3>. QED
      BY <1>3, <2>a, <3>1, Undisturbed
  <2>3. CASE d = c
    <3> USE <1>3, <2>a, <2>3 DEF HeldBy, HoldsSocket, HoldsEpoll, HoldsSession, IsActive, OpeningAt,
                           IsSecure
    <3>1. CASE PeerReady(c)
      BY <3>1 DEF PeerReady
    <3>2. CASE SelectorCloses(c)
      BY <3>2 DEF SelectorCloses, CloseSocket
    <3>3. CASE TaskReads(c)
      BY <3>3 DEF TaskReads, CloseSocket
    <3>4. CASE DeleteChannel(c)
      BY <3>4 DEF DeleteChannel, FreeSession
    <3>5. CASE ClientConnects(c)
      BY <1>t, <3>5 DEF ClientConnects, Unconnected
    <3>6. CASE ClientMoves(c)
      BY <3>6 DEF ClientMoves
    <3>7. CASE ClosedByOther(c)
      BY <3>7 DEF ClosedByOther, CloseSocket
    <3>. QED
      BY <1>5, <3>1, <3>2, <3>3, <3>4, <3>5, <3>6, <3>7 DEF Serve, OwnSteps
  <2>. QED
    BY <2>2, <2>3
<1>6. CASE Interrupted
  <2>1. connStage[d] # "opening"
    BY <1>6, <1>t DEF Interrupted, OneOpening, Opening
  <2>. QED
    BY <1>3, <1>6, <2>1, Undisturbed DEF Interrupted
<1>. QED
  BY <1>2, <1>4, <1>5, <1>6 DEF SocketsNext

LEMMA SocketsTypeStep ==
  ASSUME SocketsInv, SocketsNext
  PROVE  SocketsTypeOK'
<1>t. SocketsTypeOK /\ AdminOK
  BY DEF SocketsInv
<1>1. \A c \in active' : <<"socket", c>> \in files'
  <2>1. SUFFICES ASSUME active' \subseteq Conns PROVE \A c \in active' : <<"socket", c>> \in files'
    <3>1. active' \subseteq Conns
      BY <1>t DEF SocketsTypeOK, AdminOK, Opening, SocketsNext, ProcessServer, Serve, OwnSteps,
            SAccept, ServerReady, Interrupted, SetOptions, NewIOChannel, NewSession, Handshake, Unwind,
            RegisterPeer, Caught, ServerDone, PeerReady, SelectorCloses, CloseSocket, TaskReads, ClosedByOther,
            DeleteChannel, ClientConnects, ClientMoves
    <3>. QED
      BY <2>1, <3>1
  <2>. QED
    BY HeldStep, <2>1 DEF Held, HeldBy, HoldsSocket, IsActive, OpeningAt, Opening
<1>2. backlog' \in [Listeners -> Seq(Conns)]
  <2>1. CASE \E c \in Conns : ClientConnects(c)
    <3>1. PICK c \in Conns : ClientConnects(c)
      BY <2>1
    <3>2. /\ ListenerOf[c] \in Listeners /\ backlog[ListenerOf[c]] \in Seq(Conns)
          /\ backlog' = [backlog EXCEPT ![ListenerOf[c]] = Append(backlog[ListenerOf[c]], c)]
      BY <1>t, <3>1 DEF ClientConnects, SocketsTypeOK
    <3>. QED
      BY <1>t, <3>2, AppendProperties DEF SocketsTypeOK
  <2>2. CASE SAccept
    <3>1. /\ admin.listener \in Listeners /\ backlog[admin.listener] # <<>>
          /\ backlog[admin.listener] \in Seq(Conns)
      BY <1>t, <2>2 DEF SAccept, AdminOK, SocketsTypeOK, Waits
    <3>2. Tail(backlog[admin.listener]) \in Seq(Conns)
      BY <3>1, HeadTailProperties
    <3>. QED
      BY <1>t, <2>2, <3>2 DEF SAccept, SocketsTypeOK
  <2>3. CASE ~(\E c \in Conns : ClientConnects(c)) /\ ~SAccept
    BY <1>t, <2>3 DEF SocketsTypeOK, SocketsNext, ProcessServer, Serve, OwnSteps, ServerReady, Interrupted,
          SetOptions, NewIOChannel, NewSession, Handshake, Unwind, RegisterPeer, Caught,
          ServerDone, PeerReady, SelectorCloses, TaskReads, ClosedByOther, DeleteChannel, ClientMoves
  <2>. QED
    BY <2>1, <2>2, <2>3
<1>3. client' \in [Conns -> ClientStates]
  <2>1. CASE \E c \in Conns : ClientConnects(c) \/ ClientMoves(c) \/ TaskReads(c)
    BY <1>t, <2>1 DEF SocketsTypeOK, ClientStates, ClientConnects, ClientMoves, TaskReads, ClosedByOther
  <2>2. ASSUME ~ \E c \in Conns : ClientConnects(c) \/ ClientMoves(c) \/ TaskReads(c)
        PROVE  client' = client
    BY <2>2 DEF SocketsNext, ProcessServer, Serve, OwnSteps, SAccept, ServerReady, Interrupted, SetOptions,
       NewIOChannel, NewSession, Handshake, Unwind, RegisterPeer, Caught, ServerDone, PeerReady,
       SelectorCloses, ClosedByOther, DeleteChannel
  <2>. QED
    BY <1>t, <2>1, <2>2 DEF SocketsTypeOK
<1>4. connStage' \in [Conns -> ConnStages]
  BY <1>t DEF SocketsTypeOK, ConnStages, SocketsNext, ProcessServer, Serve, OwnSteps, SAccept,
        ServerReady, Interrupted, SetOptions, Lose, NewIOChannel, NewSession, Handshake, Unwind, RegisterPeer,
        Caught, ServerDone, PeerReady, SelectorCloses, CloseSocket, TaskReads, ClosedByOther, DeleteChannel,
        ClientConnects, ClientMoves
<1>5. active' \subseteq Conns /\ sessions' \subseteq Conns /\ watched' \subseteq Listeners
  <2>1. active' \subseteq Conns
    BY <1>t DEF SocketsTypeOK, AdminOK, Opening, SocketsNext, ProcessServer, Serve, OwnSteps,
          SAccept, ServerReady, Interrupted, SetOptions, NewIOChannel, NewSession, Handshake, HandshakeFails,
          FreeSession, Unwind, RegisterPeer, Caught, ServerDone, ListenAgain, PeerReady,
          SelectorCloses, CloseSocket, TaskReads, ClosedByOther, DeleteChannel, ClientConnects, ClientMoves
  <2>2. sessions' \subseteq Conns
    BY <1>t DEF SocketsTypeOK, AdminOK, Opening, SocketsNext, ProcessServer, Serve, OwnSteps,
          SAccept, ServerReady, Interrupted, SetOptions, NewIOChannel, NewSession, Handshake, HandshakeFails,
          FreeSession, Unwind, RegisterPeer, Caught, ServerDone, ListenAgain, PeerReady,
          SelectorCloses, CloseSocket, TaskReads, ClosedByOther, DeleteChannel, ClientConnects, ClientMoves
  <2>3. watched' \subseteq Listeners
    BY <1>t DEF SocketsTypeOK, AdminOK, Waits, Opening, SocketsNext, ProcessServer, Serve, OwnSteps,
          SAccept, ServerReady, Interrupted, SetOptions, NewIOChannel, NewSession, Handshake, HandshakeFails,
          FreeSession, Unwind, RegisterPeer, Caught, ServerDone, ListenAgain, PeerReady,
          SelectorCloses, CloseSocket, TaskReads, ClosedByOther, DeleteChannel, ClientConnects, ClientMoves
  <2>. QED
    BY <2>1, <2>2, <2>3
<1>6. files' \subseteq {"socket", "epoll"} \X Conns
  <2>1. CASE SAccept
    <3>1. SlotLeft => Head(backlog[admin.listener]) \in Conns
      <4>1. /\ admin.listener \in Listeners /\ backlog[admin.listener] # <<>>
            /\ backlog[admin.listener] \in Seq(Conns)
        BY <1>t, <2>1 DEF SAccept, AdminOK, SocketsTypeOK, Waits
      <4>. QED
        BY <4>1, HeadTailProperties
    <3>. QED
      BY <1>t, <2>1, <3>1 DEF SAccept, SocketsTypeOK
  <2>2. CASE NewIOChannel
    BY <1>t, <2>2 DEF NewIOChannel, SocketsTypeOK, AdminOK, Opening
  <2>3. CASE ~SAccept /\ ~NewIOChannel
    BY <1>t, <2>3 DEF SocketsTypeOK, SocketsNext, ProcessServer, Serve, OwnSteps, ServerReady, Interrupted,
          SetOptions, NewSession, Handshake, Unwind, RegisterPeer, Caught, ServerDone, PeerReady,
          SelectorCloses, CloseSocket, TaskReads, ClosedByOther, DeleteChannel, ClientConnects, ClientMoves
  <2>. QED
    BY <2>1, <2>2, <2>3
<1>. QED
  BY <1>1, <1>2, <1>3, <1>4, <1>5, <1>6 DEF SocketsTypeOK

(* The thread's place says which connection is being opened, and how far.  *)
LEMMA AdminStep ==
  ASSUME SocketsInv, SocketsNext
  PROVE  AdminOK' /\ OneOpening' /\ Unconnected'
<1>t. /\ SocketsTypeOK /\ AdminOK /\ OneOpening /\ Queued /\ Unconnected
      /\ connStage \in [Conns -> ConnStages] /\ client \in [Conns -> ClientStates]
      /\ admin \in [pc : AdminPcs, listener : Listeners \cup {"none"}, conn : Conns \cup {"none"}]
  BY DEF SocketsInv, SocketsTypeOK, AdminOK
<1>1. CASE SAccept
  <2> DEFINE c == Head(backlog[admin.listener])
  <2>1. c \in Conns /\ connStage[c] = "waiting" /\ admin.listener \in Listeners
    <3>1. /\ admin.listener \in Listeners /\ backlog[admin.listener] # <<>>
          /\ backlog[admin.listener] \in Seq(Conns)
      BY <1>t, <1>1 DEF SAccept, AdminOK, SocketsTypeOK, Waits
    <3>. QED
      BY <1>t, <3>1, HeadTailProperties DEF Queued, Waiting
  <2>2. CASE SlotLeft
    <3>1. /\ connStage' = [connStage EXCEPT ![c] = "opening"]
          /\ admin' = [admin EXCEPT !.pc = "options", !.conn = c] /\ client' = client
      BY <1>1, <2>2 DEF SAccept
    <3> HIDE DEF c
    <3>. QED
      BY <1>1, <1>t, <2>1, <3>1 DEF SAccept, AdminOK, AdminPcs, Waits, OneOpening, Opening, Unconnected
  <2>3. CASE ~SlotLeft
    BY <1>1, <1>t, <2>1, <2>3 DEF SAccept, AdminOK, AdminPcs, Waits, AdminAt, OneOpening, Opening, Unconnected
  <2>. QED
    BY <2>2, <2>3
<1>2. CASE ProcessServer /\ ~SAccept
  <2>. USE <1>t DEF AdminOK, AdminAt, AdminPcs, Waits, OneOpening, Opening, Unconnected, IsSecure
  <2>1. CASE SetOptions
    BY <2>1 DEF SetOptions, Lose
  <2>2. CASE NewIOChannel
    BY <2>2 DEF NewIOChannel, Lose
  <2>3. CASE NewSession
    BY <2>3 DEF NewSession
  <2>4. CASE Handshake
    BY <2>4 DEF Handshake, HandshakeFails
  <2>5. CASE Unwind
    BY <2>5 DEF Unwind
  <2>6. CASE RegisterPeer
    BY <2>6 DEF RegisterPeer
  <2>7. CASE Caught
    BY <2>7 DEF Caught
  <2>8. CASE ServerDone
    BY <2>8 DEF ServerDone, AdminIdle
  <2>. QED
    BY <1>2, <2>1, <2>2, <2>3, <2>4, <2>5, <2>6, <2>7, <2>8 DEF ProcessServer
<1>3. ASSUME NEW l \in Listeners, ServerReady(l)
      PROVE  AdminOK' /\ OneOpening' /\ Unconnected'
  <2>1. admin' = [pc |-> "accept", listener |-> l, conn |-> "none"]
    BY <1>3 DEF ServerReady, AdminIdle
  <2>. QED
    BY <1>3, <1>t, <2>1 DEF ServerReady, AdminOK, AdminPcs, Waits, OneOpening, Opening, Unconnected
<1>4. ASSUME NEW c \in Conns, Serve(c) \/ OwnSteps(c) \/ ClientMoves(c)
      PROVE  AdminOK' /\ OneOpening' /\ Unconnected'
  <2>1. /\ backlog' = backlog
        /\ admin' = admin \/ (admin.pc = "select" /\ admin' = [admin EXCEPT !.pc = "ended"])
    BY <1>4 DEF AdminAt, Serve, OwnSteps, PeerReady, SelectorCloses, TaskReads, ClosedByOther, DeleteChannel, ClientMoves
  <2>2. /\ \A d \in Conns : connStage'[d] = "opening" <=> connStage[d] = "opening"
        /\ Unconnected'
    BY <1>4, <1>t DEF Serve, OwnSteps, PeerReady, SelectorCloses, CloseSocket, TaskReads, ClosedByOther,
          DeleteChannel, ClientMoves, Unconnected
  <2>. QED
    BY <1>t, <2>1, <2>2 DEF AdminOK, AdminPcs, Waits, OneOpening, Opening, IsSecure
<1>5. ASSUME NEW c \in Conns, ClientConnects(c)
      PROVE  AdminOK' /\ OneOpening' /\ Unconnected'
  <2>1. /\ admin' = admin /\ ListenerOf[c] \in Listeners
        /\ backlog' = [backlog EXCEPT ![ListenerOf[c]] = Append(backlog[ListenerOf[c]], c)]
    BY <1>5 DEF ClientConnects
  <2>2. /\ \A d \in Conns : connStage'[d] = "opening" <=> connStage[d] = "opening"
        /\ Unconnected'
    BY <1>5, <1>t DEF ClientConnects, Unconnected
  <2>3. \A l \in Listeners : backlog[l] # <<>> => backlog'[l] # <<>>
    <3>1. backlog \in [Listeners -> Seq(Conns)]
      BY <1>t DEF SocketsTypeOK
    <3>2. backlog[ListenerOf[c]] \in Seq(Conns)
      BY <2>1, <3>1
    <3>3. Append(backlog[ListenerOf[c]], c) # <<>>
      BY <3>2, AppendProperties
    <3>. QED
      BY <2>1, <3>1, <3>3, Zenon
  <2>. QED
    BY <1>t, <2>1, <2>2, <2>3 DEF AdminOK, OneOpening, Opening, IsSecure
<1>6. CASE Interrupted
  BY <1>6, <1>t DEF Interrupted, AdminAt, AdminOK, AdminPcs, Waits, OneOpening, Opening, Unconnected
<1>. QED
  BY <1>1, <1>2, <1>3, <1>4, <1>5, <1>6 DEF SocketsNext

(* SSL_shutdown and SSL_free are called while the session is there.        *)
LEMMA IntactStep ==
  ASSUME SocketsInv, SocketsNext
  PROVE  intact'
<1>t. SocketsTypeOK /\ AdminOK /\ intact /\ \A d \in Conns : HeldBy(d)
  BY DEF SocketsInv, Held
<1>1. CASE Handshake
  BY <1>1, <1>t DEF Handshake, HandshakeFails, FreeSession, AdminOK, Opening, HeldBy, HoldsSession,
                    OpeningAt
<1>2. ASSUME NEW c \in Conns, Serve(c) \/ OwnSteps(c)
      PROVE  intact'
  BY <1>2, <1>t DEF Serve, OwnSteps, PeerReady, SelectorCloses, CloseSocket, TaskReads, ClosedByOther,
        DeleteChannel, FreeSession, HeldBy, HoldsSession
<1>. QED
  BY <1>t, <1>1, <1>2 DEF SocketsNext, ProcessServer, SAccept, ServerReady, Interrupted, SetOptions,
        NewIOChannel, NewSession, Unwind, RegisterPeer, Caught, ServerDone, ClientConnects,
        ClientMoves

LEMMA SocketsInvStep == SocketsInv /\ [SocketsNext]_socketVars => SocketsInv'
<1> SUFFICES ASSUME SocketsInv, [SocketsNext]_socketVars PROVE SocketsInv'
  OBVIOUS
<1>1. CASE SocketsNext
  BY <1>1, SocketsTypeStep, AdminStep, QueuedStep, HeldStep, IntactStep DEF SocketsInv
<1>2. CASE UNCHANGED socketVars
  BY <1>2 DEF SocketsInv, socketVars, SocketsTypeOK, AdminOK, OneOpening, Queued, QueuedOnce,
        Waiting, Unconnected, Held, HeldBy, HoldsSocket, HoldsEpoll, HoldsSession, IsActive,
        OpeningAt, IsSecure
<1>. QED
  BY <1>1, <1>2

(* Whichever step of accepting a connection fails, and whenever its client *)
(* leaves, its descriptors and its SSL session are gone when it is, no     *)
(* session is used after it was freed, and a connection lost in s_accept() *)
(* keeps its socket and nothing else (processServer, the constructors and  *)
(* destructors of IOChannel and SSLSocketChannel).                         *)
THEOREM NothingLeft == SocketsSpec => []GoneIsClosed
<1>1. SocketsInv => GoneIsClosed
  <2> SUFFICES ASSUME SocketsInv, NEW c \in Conns
               PROVE  /\ connStage[c] = "gone" => FilesOf(c) = {}
                      /\ connStage[c] = "lost" => FilesOf(c) = {<<"socket", c>>}
                      /\ c \in sessions => connStage[c] \notin {"gone", "lost"}
                      /\ IsSecure(c) /\ connStage[c] \in {"armed", "task", "closed"} => c \in sessions
    BY DEF GoneIsClosed, SocketsInv
  <2>1. HeldBy(c) /\ files \subseteq {"socket", "epoll"} \X Conns
    BY DEF SocketsInv, Held, SocketsTypeOK
  <2>2. FilesOf(c) \subseteq {<<"socket", c>>, <<"epoll", c>>}
    BY <2>1 DEF FilesOf
  <2>3. <<"socket", c>> # <<"epoll", c>>
    OBVIOUS
  <2>4. /\ <<"socket", c>> \in FilesOf(c) <=> HoldsSocket(c)
        /\ <<"epoll", c>> \in FilesOf(c) <=> HoldsEpoll(c)
    BY <2>1 DEF FilesOf, HeldBy
  <2>. QED
    BY <2>1, <2>2, <2>3, <2>4 DEF HeldBy, HoldsSocket, HoldsEpoll, HoldsSession, OpeningAt
<1>. QED
  BY SocketsInvInit, SocketsInvStep, <1>1, PTL DEF SocketsSpec

(* Types of the sockets: an active channel has its descriptor open         *)
(* (Channel::m_active and m_fd).                                           *)
THEOREM SocketsTyped == SocketsSpec => []SocketsTypeOK
<1>1. SocketsInv => SocketsTypeOK
  BY DEF SocketsInv
<1>. QED
  BY SocketsInvInit, SocketsInvStep, <1>1, PTL DEF SocketsSpec

-----------------------------------------------------------------------------
(* The log. *)

LogSpec == LogInit /\ [][LogNext]_logVars

Kinds == {"Logger", "append", "char", "endl", "raw", "exception", "map", "end"}
Lines == [head : BOOLEAN, from : Kinds]

(* The lines that a buffer holds: only two kinds may come without a head.  *)
Composed == {line \in Lines : ~line.head => line.from \in {"exception", "map"}}
Items == [entry : Loggers \X Nat, line : Composed \cup {Headless("end")}]

LogTypeOK ==
    /\ buffer \in [Loggers -> Seq(Composed)]
    /\ logAt \in [Loggers -> {"idle", "open", "text", "end"}]
    /\ begun \in [Loggers -> Nat]
    /\ err \in Seq(Items)

(* Entries are numbered, and one that is being composed is not there yet.  *)
Numbered ==
    \A i \in DOMAIN err :
        LET t == err[i].entry[1]
            n == err[i].entry[2]
        IN  n <= begun[t] /\ (n = begun[t] => logAt[t] \in {"end", "idle"})

LogInv == LogTypeOK /\ Numbered /\ EntriesTogether

-----------------------------------------------------------------------------
USE LogAssumption

(* A sequence is a function on 1 .. n.                                     *)
LEMMA FunctionIsSeq ==
  ASSUME NEW S, NEW n \in Nat, NEW f \in [1 .. n -> S]
  PROVE  f \in Seq(S)
<1>1. Seq(S) = UNION {[1 .. m -> S] : m \in Nat}
  BY SeqDef
<1>. QED
  BY <1>1

LEMMA CopiesOf ==
  ASSUME NEW n \in Nat, NEW S, NEW line \in S
  PROVE  Copies(n, line) \in Seq(S)
BY IsASeq DEF Copies

(* What a part adds to a buffer is lines, each with its head unless it is  *)
(* of an exception's message or a map's value.                             *)
LEMMA LinesComposed ==
  ASSUME NEW part \in Parts
  PROVE  LinesOf(part) \in Seq(Composed)
<1>1. part[2] \in Nat /\ part[1] \in {"append", "char", "endl", "raw", "exception", "map"}
  BY DEF LogAssumption
<1>2. /\ \A kind \in Kinds : Headed(kind) \in Composed
      /\ Headless("exception") \in Composed /\ Headless("map") \in Composed
  BY DEF Headed, Headless, Composed, Lines, Kinds
<1>3. \A kind \in Kinds : <<Headed(kind)>> \in Seq(Composed)
  BY <1>2
<1>4. <<>> \in Seq(Composed)
  OBVIOUS
<1>5. CASE part[1] = "append"
  BY <1>1, <1>2, <1>5, CopiesOf DEF LinesOf, Appended, Kinds
<1>6. CASE part[1] = "char"
  BY <1>3, <1>4, <1>6 DEF LinesOf, CharLines, Appendln, Kinds
<1>7. CASE part[1] = "endl"
  BY <1>3, <1>7 DEF LinesOf, Appendln, Kinds
<1>8. CASE part[1] = "raw"
  BY <1>4, <1>8 DEF LinesOf, RawLines
<1>9. CASE part[1] = "exception"
  <2>1. Copies(part[2], Headless("exception")) \in Seq(Composed)
    BY <1>1, <1>2, CopiesOf
  <2>2. ExceptionLines(part[2]) \in Seq(Composed)
    BY <1>3, <2>1, ConcatProperties DEF ExceptionLines, Kinds
  <2>. QED
    BY <1>9, <2>2 DEF LinesOf
<1>10. CASE part[1] = "map"
  <2>1. Copies(part[2], Headless("map")) \in Seq(Composed)
    BY <1>1, <1>2, CopiesOf
  <2>2. MapLines(part[2]) \in Seq(Composed)
    BY <1>3, <2>1, ConcatProperties DEF MapLines, Kinds
  <2>. QED
    BY <1>10, <2>2 DEF LinesOf
<1>. QED
  BY <1>1, <1>5, <1>6, <1>7, <1>8, <1>9, <1>10

LEMMA LogInvInit == LogInit => LogInv
<1> SUFFICES ASSUME LogInit PROVE LogInv
  OBVIOUS
<1>1. err = <<>> /\ DOMAIN err = {}
  BY DEF LogInit
<1>. QED
  BY <1>1 DEF LogInit, LogInv, LogTypeOK, Numbered, EntriesTogether, LoggedLines

-----------------------------------------------------------------------------
(* What is put behind a sequence leaves its elements where they are.       *)
Behind(s, e, r) ==
    /\ DOMAIN s \subseteq DOMAIN r /\ DOMAIN s \subseteq Nat
    /\ \A i \in DOMAIN s : r[i] = s[i]
    /\ \A i \in DOMAIN r : i \notin DOMAIN s => \E k \in DOMAIN e : r[i] = e[k]
    /\ \A i, j \in DOMAIN r : i < j /\ j \in DOMAIN s => i \in DOMAIN s

LEMMA PutBehind ==
  ASSUME NEW S, NEW s \in Seq(S), NEW e \in Seq(S)
  PROVE  s \o e \in Seq(S) /\ Behind(s, e, s \o e)
<1>. PICK r : r = s \o e
  OBVIOUS
<1>1. PICK m \in Nat : m = Len(s)
  BY LenProperties
<1>2. PICK n \in Nat : n = Len(e)
  BY LenProperties
<1>3. r \in Seq(S)
  BY ConcatProperties
<1>4. /\ Len(r) = m + n
      /\ \A i \in 1 .. m + n : r[i] = IF i <= m THEN s[i] ELSE e[i - m]
  BY <1>1, <1>2, ConcatProperties
<1>5. DOMAIN s = 1 .. m /\ DOMAIN e = 1 .. n /\ DOMAIN r = 1 .. m + n
  BY <1>1, <1>2, <1>3, <1>4, LenProperties
<1>6. \A i \in 1 .. m : i \in 1 .. m + n /\ i <= m
  OBVIOUS
<1>7. \A i \in 1 .. m + n : i \notin 1 .. m => i - m \in 1 .. n /\ ~(i <= m)
  OBVIOUS
<1>8. \A i \in 1 .. m : r[i] = s[i]
  BY <1>4, <1>6
<1>9. \A i \in 1 .. m + n : i \notin 1 .. m => \E k \in 1 .. n : r[i] = e[k]
  BY <1>4, <1>7
<1>10. \A i, j \in 1 .. m + n : i < j /\ j \in 1 .. m => i \in 1 .. m
  OBVIOUS
<1>11. DOMAIN s \subseteq DOMAIN r /\ DOMAIN s \subseteq Nat
  BY <1>5, <1>6
<1>12. \A i \in DOMAIN s : r[i] = s[i]
  BY <1>5, <1>8
<1>13. \A i \in DOMAIN r : i \notin DOMAIN s => \E k \in DOMAIN e : r[i] = e[k]
  BY <1>5, <1>9
<1>14. \A i, j \in DOMAIN r : i < j /\ j \in DOMAIN s => i \in DOMAIN s
  BY <1>5, <1>10
<1>15. Behind(s, e, r)
  BY <1>11, <1>12, <1>13, <1>14 DEF Behind
<1>. QED
  BY <1>3, <1>15

(* A block of lines of one entry, put behind what was there, keeps the     *)
(* entries together, unless there are other lines of this entry already:   *)
(* the end of an entry, which is no line of it, may come late.             *)
OneBlock(block, e) ==
    /\ \A k \in DOMAIN block : block[k].entry = e
    /\ \/ \A i \in DOMAIN err : err[i].entry # e
       \/ \A k \in DOMAIN block : block[k].line.from = "end"

LEMMA BlockBehind ==
  ASSUME err \in Seq(Items), EntriesTogether, NEW block \in Seq(Items), NEW e,
         OneBlock(block, e), err' = err \o block
  PROVE  EntriesTogether'
<1>a. err' \in Seq(Items) /\ Behind(err, block, err')
  BY PutBehind
<1>1. /\ err' \in Seq(Items) /\ DOMAIN err \subseteq DOMAIN err' /\ DOMAIN err \subseteq Nat
      /\ \A i \in DOMAIN err : err'[i] = err[i]
      /\ \A i \in DOMAIN err' : i \notin DOMAIN err => \E k \in DOMAIN block : err'[i] = block[k]
      /\ \A i, j \in DOMAIN err' : i < j /\ j \in DOMAIN err => i \in DOMAIN err
  BY <1>a DEF Behind
<1>2. \A i \in DOMAIN err' : i \notin DOMAIN err => err'[i].entry = e
  BY <1>1 DEF OneBlock
<1>3. \A i \in DOMAIN err : i \in LoggedLines' <=> i \in LoggedLines
  BY <1>1 DEF LoggedLines
<1>4. \A i, k \in LoggedLines' : err'[i].entry = err'[k].entry =>
         \A j \in LoggedLines' : i < j /\ j < k => err'[j].entry = err'[i].entry
  <2> TAKE i, k \in LoggedLines'
  <2> HAVE err'[i].entry = err'[k].entry
  <2> TAKE j \in LoggedLines'
  <2> HAVE i < j /\ j < k
  <2>1. i \in DOMAIN err' /\ j \in DOMAIN err' /\ k \in DOMAIN err'
    BY DEF LoggedLines
  <2>2. CASE k \in DOMAIN err
    <3>1. i \in DOMAIN err /\ j \in DOMAIN err
      <4>1. j \in DOMAIN err
        BY <1>1, <2>1, <2>2
      <4>. QED
        BY <1>1, <2>1, <4>1
    <3>2. i \in LoggedLines /\ j \in LoggedLines /\ k \in LoggedLines
      BY <1>3, <2>2, <3>1
    <3>3. err[i].entry = err[k].entry => err[j].entry = err[i].entry
      BY <3>2 DEF EntriesTogether
    <3>. QED
      BY <1>1, <2>2, <3>1, <3>3
  <2>3. CASE k \notin DOMAIN err
    <3>1. \A l \in DOMAIN err : err[l].entry # e
      <4>1. PICK m \in DOMAIN block : err'[k] = block[m]
        BY <1>1, <2>1, <2>3
      <4>2. block[m].line.from # "end"
        BY <4>1 DEF LoggedLines
      <4>. QED
        BY <4>2 DEF OneBlock
    <3>2. err'[i].entry = e
      BY <1>2, <2>1, <2>3
    <3>3. i \notin DOMAIN err
      BY <1>1, <3>1, <3>2
    <3>4. j \notin DOMAIN err
      BY <1>1, <2>1, <3>3
    <3>. QED
      BY <1>2, <2>1, <3>2, <3>4
  <2>. QED
    BY <2>2, <2>3
<1>5. ASSUME NEW i \in LoggedLines', ~err'[i].line.head
      PROVE  err'[i].line.from \in {"exception", "map"}
  <2>1. i \in DOMAIN err' /\ err'[i].line.from # "end"
    BY <1>5 DEF LoggedLines
  <2>2. err'[i] \in Items
    BY <1>1, <2>1, LenProperties
  <2>3. PICK line \in Composed \cup {Headless("end")} : line = err'[i].line
    BY <2>2 DEF Items
  <2>4. line # Headless("end")
    BY <2>1, <2>3 DEF Headless
  <2>. QED
    BY <1>5, <2>3, <2>4 DEF Composed
<1>6. \A i \in LoggedLines' : ~err'[i].line.head => err'[i].line.from \in {"exception", "map"}
  BY <1>5
<1>. QED
  BY <1>4, <1>6 DEF EntriesTogether

(* Such a block keeps the numbers true, if its entry is the last that its  *)
(* thread began, and its lines are there now.                              *)
LEMMA NumberedBehind ==
  ASSUME LogTypeOK, Numbered, NEW t \in Loggers, NEW block \in Seq(Items),
         \A k \in DOMAIN block : block[k].entry = <<t, begun[t]>>,
         err' = err \o block, begun' = begun,
         NEW at \in {"end", "idle"}, logAt' = [logAt EXCEPT ![t] = at]
  PROVE  Numbered'
<1> DEFINE Right(item) == item.entry[2] <= begun[item.entry[1]] /\
                          (item.entry[2] = begun[item.entry[1]] => logAt'[item.entry[1]] \in {"end", "idle"})
<1>1. /\ err \in Seq(Items) /\ begun \in [Loggers -> Nat]
      /\ logAt \in [Loggers -> {"idle", "open", "text", "end"}]
  BY DEF LogTypeOK
<1>a. Behind(err, block, err')
  BY <1>1, PutBehind
<1>2. /\ \A i \in DOMAIN err : err'[i] = err[i]
      /\ \A i \in DOMAIN err' : i \notin DOMAIN err => \E k \in DOMAIN block : err'[i] = block[k]
  BY <1>a DEF Behind
<1>3. ASSUME NEW i \in DOMAIN err PROVE Right(err'[i])
  <2>1. err[i] \in Items
    BY <1>1, LenProperties
  <2>2. err[i].entry[1] \in Loggers
    BY <2>1 DEF Items
  <2>3. /\ err[i].entry[2] <= begun[err[i].entry[1]]
        /\ err[i].entry[2] = begun[err[i].entry[1]] => logAt[err[i].entry[1]] \in {"end", "idle"}
    BY DEF Numbered
  <2>4. logAt[err[i].entry[1]] \in {"end", "idle"} => logAt'[err[i].entry[1]] \in {"end", "idle"}
    BY <1>1, <2>2
  <2>5. Right(err[i])
    BY <2>3, <2>4
  <2>. QED
    BY <1>2, <2>5
<1>4. ASSUME NEW k \in DOMAIN block PROVE Right(block[k])
  <2>1. block[k].entry[1] = t /\ block[k].entry[2] = begun[t] /\ begun[t] \in Nat
    BY <1>1
  <2>. QED
    BY <1>1, <2>1
<1>5. ASSUME NEW i \in DOMAIN err' PROVE Right(err'[i])
  <2>1. CASE i \in DOMAIN err
    BY <1>3, <2>1
  <2>2. CASE i \notin DOMAIN err
    <3>1. PICK k \in DOMAIN block : err'[i] = block[k]
      BY <1>2, <2>2
    <3>2. Right(block[k])
      BY <1>4
    <3>. QED
      BY <3>1, <3>2
  <2>. QED
    BY <2>1, <2>2
<1>. QED
  BY <1>5 DEF Numbered

-----------------------------------------------------------------------------
LEMMA Composing ==
  ASSUME LogInv, NEW t \in Loggers, NewLogger(t) \/ PutPart(t) \/ EndStatement(t)
  PROVE  LogInv'
<1>1. /\ buffer \in [Loggers -> Seq(Composed)] /\ begun \in [Loggers -> Nat] /\ err \in Seq(Items)
      /\ logAt \in [Loggers -> {"idle", "open", "text", "end"}]
      /\ Numbered /\ EntriesTogether
  BY DEF LogInv, LogTypeOK
<1>2. err' = err
  BY DEF NewLogger, PutPart, EndStatement
<1>3. EntriesTogether'
  BY <1>1, <1>2 DEF EntriesTogether, LoggedLines
<1>4. LogTypeOK'
  <2>1. CASE NewLogger(t)
    <3>1. Appendln("Logger") \in Seq(Composed)
      BY DEF Appendln, Headed, Composed, Lines, Kinds
    <3>. QED
      BY <1>1, <2>1, <3>1 DEF NewLogger, LogTypeOK
  <2>2. CASE PutPart(t)
    <3>1. PICK part \in Parts : buffer' = [buffer EXCEPT ![t] = buffer[t] \o LinesOf(part)]
      BY <2>2 DEF PutPart
    <3>2. buffer[t] \o LinesOf(part) \in Seq(Composed)
      BY <1>1, LinesComposed, ConcatProperties
    <3>. QED
      BY <1>1, <2>2, <3>1, <3>2 DEF PutPart, LogTypeOK
  <2>3. CASE EndStatement(t)
    BY <1>1, <2>3 DEF EndStatement, LogTypeOK
  <2>. QED
    BY <2>1, <2>2, <2>3
<1>5. Numbered'
  <2>1. SUFFICES ASSUME NEW i \in DOMAIN err
                 PROVE  /\ err[i].entry[2] <= begun'[err[i].entry[1]]
                        /\ err[i].entry[2] = begun'[err[i].entry[1]]
                              => logAt'[err[i].entry[1]] \in {"end", "idle"}
    BY <1>2 DEF Numbered
  <2>2. err[i] \in Items
    BY <1>1, LenProperties
  <2>3. PICK u \in Loggers, n \in Nat : err[i].entry[1] = u /\ err[i].entry[2] = n
    BY <2>2 DEF Items
  <2>4. n <= begun[u] /\ (n = begun[u] => logAt[u] \in {"end", "idle"})
    BY <1>1, <2>3 DEF Numbered
  <2>5. n <= begun'[u] /\ (n = begun'[u] => logAt'[u] \in {"end", "idle"})
    BY <1>1, <2>4 DEF NewLogger, PutPart, EndStatement
  <2>. QED
    BY <2>3, <2>5
<1>. QED
  BY <1>3, <1>4, <1>5 DEF LogInv

LEMMA Writing ==
  ASSUME LogInv, NEW t \in Loggers, WriteBuffer(t) \/ WriteEnd(t)
  PROVE  LogInv'
<1>1. /\ buffer \in [Loggers -> Seq(Composed)] /\ begun \in [Loggers -> Nat] /\ err \in Seq(Items)
      /\ logAt \in [Loggers -> {"idle", "open", "text", "end"}]
      /\ LogTypeOK /\ Numbered /\ EntriesTogether
  BY DEF LogInv, LogTypeOK
<1>2. CASE WriteBuffer(t)
  <2>. PICK b \in Seq(Composed) : b = buffer[t]
    BY <1>1
  <2>. PICK block : block = [i \in DOMAIN b |-> Item(t, b[i])]
    OBVIOUS
  <2>1. /\ err' = err \o block
        /\ buffer' = [buffer EXCEPT ![t] = <<>>]
        /\ logAt' = [logAt EXCEPT ![t] = "end"] /\ logAt[t] = "text"
        /\ begun' = begun
    <3>1. SubSeq(b, Len(b) + 1, Len(b)) = <<>>
      <4>1. Len(b) \in Nat
        BY LenProperties
      <4>. QED
        BY <4>1, SubSeqEmpty
    <3>. QED
      BY <1>2, <3>1 DEF WriteBuffer, Insertion
  <2>2. block \in Seq(Items) /\ \A k \in DOMAIN block : block[k].entry = <<t, begun[t]>>
    <3>1. DOMAIN b = 1 .. Len(b) /\ Len(b) \in Nat /\ \A i \in 1 .. Len(b) : b[i] \in Composed
      BY LenProperties
    <3>2. \A i \in 1 .. Len(b) : Item(t, b[i]) \in Items /\ Item(t, b[i]).entry = <<t, begun[t]>>
      BY <1>1, <3>1 DEF Item, Items
    <3>3. block = [i \in 1 .. Len(b) |-> Item(t, b[i])]
      BY <3>1
    <3>4. PICK n \in Nat : n = Len(b)
      BY <3>1
    <3>5. DOMAIN block = 1 .. n /\ \A k \in 1 .. n : block[k] = Item(t, b[k])
      BY <3>3, <3>4
    <3>6. \A k \in 1 .. n : block[k] \in Items /\ block[k].entry = <<t, begun[t]>>
      BY <3>2, <3>4, <3>5
    <3>7. block \in [1 .. n -> Items]
      BY <3>3, <3>4, <3>5, <3>6
    <3>8. block \in Seq(Items)
      BY <3>4, <3>7, FunctionIsSeq
    <3>. QED
      BY <3>5, <3>6, <3>8
  <2>3. \A i \in DOMAIN err : err[i].entry # <<t, begun[t]>>
    <3>1. SUFFICES ASSUME NEW i \in DOMAIN err, err[i].entry = <<t, begun[t]>> PROVE FALSE
      OBVIOUS
    <3>2. err[i].entry[1] = t /\ err[i].entry[2] = begun[t]
      BY <3>1
    <3>. QED
      BY <1>1, <2>1, <3>2 DEF Numbered
  <2>4. err' \in Seq(Items)
    BY <1>1, <2>1, <2>2, PutBehind
  <2>5. LogTypeOK'
    BY <1>1, <2>1, <2>4 DEF LogTypeOK
  <2>6. EntriesTogether'
    <3>. PICK e : e = <<t, begun[t]>>
      OBVIOUS
    <3>1. OneBlock(block, e)
      BY <2>2, <2>3 DEF OneBlock
    <3>. QED
      BY <1>1, <2>1, <2>2, <3>1, BlockBehind
  <2>7. Numbered'
    BY <1>1, <2>1, <2>2, NumberedBehind
  <2>. QED
    BY <2>5, <2>6, <2>7 DEF LogInv
<1>3. CASE WriteEnd(t)
  <2>. PICK block : block = <<Item(t, Headless("end"))>>
    OBVIOUS
  <2>1. /\ err' = Append(err, Item(t, Headless("end")))
        /\ logAt' = [logAt EXCEPT ![t] = "idle"] /\ buffer' = buffer /\ begun' = begun
    BY <1>3 DEF WriteEnd
  <2>2. /\ Item(t, Headless("end")) \in Items
        /\ Item(t, Headless("end")).entry = <<t, begun[t]>>
        /\ Item(t, Headless("end")).line.from = "end"
    BY <1>1 DEF Item, Items, Headless
  <2>3. /\ block \in Seq(Items)
        /\ \A k \in DOMAIN block : block[k] = Item(t, Headless("end"))
    BY <2>2
  <2>4. err' = err \o block
    BY <1>1, <2>1, <2>2, AppendIsConcat
  <2>5. LogTypeOK'
    BY <1>1, <2>1, <2>3, <2>4, PutBehind DEF LogTypeOK
  <2>6. EntriesTogether'
    <3>. PICK e : e = <<t, begun[t]>>
      OBVIOUS
    <3>1. OneBlock(block, e)
      BY <2>2, <2>3 DEF OneBlock
    <3>. QED
      BY <1>1, <2>3, <2>4, <3>1, BlockBehind
  <2>7. Numbered'
    BY <1>1, <2>1, <2>2, <2>3, <2>4, NumberedBehind
  <2>. QED
    BY <2>5, <2>6, <2>7 DEF LogInv
<1>. QED
  BY <1>2, <1>3

LEMMA LogInvStep == LogInv /\ [LogNext]_logVars => LogInv'
<1> SUFFICES ASSUME LogInv, [LogNext]_logVars PROVE LogInv'
  OBVIOUS
<1>1. CASE LogNext
  BY <1>1, Composing, Writing DEF LogNext
<1>2. CASE UNCHANGED logVars
  BY <1>2 DEF LogInv, logVars, LogTypeOK, Numbered, EntriesTogether, LoggedLines
<1>. QED
  BY <1>1, <1>2

(* However many threads log, and whatever they log, the lines of an entry  *)
(* stay together and only an exception's message and a map's value stand   *)
(* on a line without a head (~Logger, operator<< of Logger).               *)
THEOREM LinesTogether == LogSpec => []EntriesTogether
<1>1. LogInv => EntriesTogether
  BY DEF LogInv
<1>. QED
  BY LogInvInit, LogInvStep, <1>1, PTL DEF LogSpec
=============================================================================
