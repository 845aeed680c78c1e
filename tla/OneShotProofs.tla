--------------------------- MODULE OneShotProofs ---------------------------
(***************************************************************************)
(* PeerAdmin implements OneShot while each socket is used by one party at  *)
(* a time (Exclusive): every step of the threads, the selector and the     *)
(* kernel is a step of one connection from a stage to the next, input that *)
(* comes or is taken, or no step at all.                                   *)
(*                                                                         *)
(* Besides ExclusiveInv the proof needs Waiting: a connection that is in   *)
(* nobody's hands, not queued, watched or mute has something to look at.   *)
(* It was selected for that, and the input stays when the application      *)
(* quits and the selected keys are given up.  A connection that a break    *)
(* leaves mute is one that its task leaves, until another drops it.        *)
(***************************************************************************)
EXTENDS ExclusiveProofs

USE SelectorAssumption, PeerAdminAssumption DEF Threads, Clients, Goto, FdOf

Holds(t, c) == pc[t] \in Busy /\ chan[t] = c /\ lock # t
Chosen(c) == \E k \in PendingNow : keyChan[k] = c /\ active[c]

Unserved(c) ==
    /\ active[c] /\ chanKey[c] = NoKey /\ ~Queued(c) /\ c \notin Mute
    /\ \A t \in Threads : ~Holds(t, c)
Waiting == \A c \in Clients : Unserved(c) => Readable(c)

StageMap == [c \in Clients |-> Stage(c)]
ReadySet == {c \in Clients : Readable(c)}

(* In which stage a connection is, in any order of the questions.          *)
StageTrue(c) ==
    /\ (\E w \in Workers : Holds(w, c)) => Stage(c) = "running"
    /\ Holds(Admin, c) => Stage(c) = "opening"
    /\ Queued(c) => Stage(c) = "queued"
    /\ Chosen(c) => Stage(c) = "selected"
    /\ chanKey[c] # NoKey => Stage(c) = "armed"
    /\ c \in Mute => Stage(c) = "mute"
    /\ (\A t \in Threads : ~Holds(t, c)) /\ ~Queued(c) /\ ~Chosen(c) /\ chanKey[c] = NoKey /\ c \notin Mute
          => Stage(c) = "none"
StagesTrue == \A c \in Clients : StageTrue(c)
StagesKnown == TypeOK /\ ExclusiveInv /\ MutesApart => StagesTrue

LEMMA StageOf == StagesKnown
<1> SUFFICES ASSUME TypeOK, ExclusiveInv, MutesApart, NEW c \in Clients PROVE StageTrue(c)
  BY DEF StagesKnown, StagesTrue
<1>1. /\ Places /\ AdminPlace /\ OneParty
      /\ pc \in [Threads -> Labels] /\ lock \in {NoThread, Admin}
  BY DEF ExclusiveInv, Placed, TypeOK
<1>2. ASSUME NEW w \in Workers PROVE HandledBy(w, c) <=> Holds(w, c)
  BY <1>1 DEF HandledBy, Holds, Places, Busy
<1>3. HandledBy(Admin, c) <=> Holds(Admin, c)
  BY <1>1 DEF HandledBy, Holds, AdminPlace, InSelect, InRun, Busy
<1>4. ASSUME NEW t \in Threads, Holds(t, c)
      PROVE  ~Queued(c) /\ ~Chosen(c) /\ chanKey[c] = NoKey /\ \A u \in Threads : Holds(u, c) => u = t
  BY <1>1, <1>4 DEF Holds, Chosen, OneParty, BusyApart, BusyAlone
<1>5. Queued(c) => ~Chosen(c) /\ chanKey[c] = NoKey
  BY <1>1 DEF OneParty, QueuedApart, SelectedApart, Chosen
<1>6. Chosen(c) => chanKey[c] = NoKey
  BY <1>1 DEF OneParty, SelectedApart, Chosen
<1> DEFINE run == \E w \in Workers : Holds(w, c)
<1>7. run => ~Holds(Admin, c) /\ ~Queued(c) /\ ~Chosen(c) /\ chanKey[c] = NoKey
  BY <1>4
<1>8. Holds(Admin, c) => ~Queued(c) /\ ~Chosen(c) /\ chanKey[c] = NoKey
  BY <1>4
<1>9. /\ (\E w \in Workers : HandledBy(w, c)) <=> run
      /\ (\E k \in PendingNow : keyChan[k] = c /\ active[c]) <=> Chosen(c)
  BY <1>2 DEF Chosen
<1>10. (\A t \in Threads : ~Holds(t, c)) => ~run /\ ~Holds(Admin, c)
  OBVIOUS
<1>m. c \in Mute => ~run /\ ~Holds(Admin, c) /\ ~Queued(c) /\ ~Chosen(c) /\ chanKey[c] = NoKey
  BY DEF MutesApart, MuteApart, Holds, Chosen
<1> HIDE DEF run
<1>11. /\ run => Stage(c) = "running"
       /\ Holds(Admin, c) => Stage(c) = "opening"
       /\ Queued(c) => Stage(c) = "queued"
       /\ Chosen(c) => Stage(c) = "selected"
       /\ chanKey[c] # NoKey => Stage(c) = "armed"
       /\ c \in Mute => Stage(c) = "mute"
       /\ ~run /\ ~Holds(Admin, c) /\ ~Queued(c) /\ ~Chosen(c) /\ chanKey[c] = NoKey /\ c \notin Mute
             => Stage(c) = "none"
  BY <1>3, <1>5, <1>6, <1>7, <1>8, <1>9, <1>m DEF Stage
<1>. QED
  BY <1>10, <1>11 DEF StageTrue, run

(* What does not change where a connection is.                             *)
LEMMA SameStage ==
  ASSUME StagesTrue, StagesTrue', NEW c \in Clients,
         \A t \in Threads : Holds(t, c)' <=> Holds(t, c),
         Queued(c)' <=> Queued(c), Chosen(c)' <=> Chosen(c),
         chanKey'[c] # NoKey <=> chanKey[c] # NoKey, c \in Mute' <=> c \in Mute
  PROVE  Stage(c)' = Stage(c)
<1>1. StageTrue(c) /\ StageTrue(c)'
  BY DEF StagesTrue
<1>2. CASE \E w \in Workers : Holds(w, c)
  BY <1>1, <1>2 DEF StageTrue
<1>3. CASE Holds(Admin, c)
  BY <1>1, <1>3 DEF StageTrue
<1>4. CASE Queued(c) \/ Chosen(c) \/ chanKey[c] # NoKey \/ c \in Mute
  BY <1>1, <1>4 DEF StageTrue
<1>5. CASE /\ \A t \in Threads : ~Holds(t, c)
           /\ ~Queued(c) /\ ~Chosen(c) /\ chanKey[c] = NoKey /\ c \notin Mute
  <2>1. \A t \in Threads : ~Holds(t, c)'
    BY <1>5
  <2>. QED
    BY <1>1, <1>5, <2>1 DEF StageTrue
<1>. QED
  BY <1>2, <1>3, <1>4, <1>5

AbstractStep == [Abstract!Next]_(Abstract!vars)

(* A step that has nothing to do with connection d.                        *)
StaysPut(d) ==
    /\ \A t \in Threads : Holds(t, d)' <=> Holds(t, d)
    /\ Queued(d)' <=> Queued(d)
    /\ Chosen(d)' <=> Chosen(d)
    /\ chanKey'[d] = NoKey <=> chanKey[d] = NoKey
    /\ active'[d] <=> active[d]
    /\ Readable(d)' <=> Readable(d)
    /\ d \in Mute' <=> d \in Mute

LEMMA PutStays ==
  ASSUME StagesTrue, StagesTrue', Waiting, NEW d \in Clients, StaysPut(d)
  PROVE  Stage(d)' = Stage(d) /\ (Unserved(d)' => Readable(d)')
<1>1. Stage(d)' = Stage(d)
  BY SameStage DEF StaysPut
<1>2. Unserved(d)' => Unserved(d)
  BY DEF StaysPut, Unserved
<1>. QED
  BY <1>1, <1>2 DEF StaysPut, Waiting

LEMMA NobodyMoves ==
  ASSUME StagesTrue, StagesTrue', Waiting, \A d \in Clients : StaysPut(d)
  PROVE  AbstractStep /\ Waiting'
<1>1. \A d \in Clients : Stage(d)' = Stage(d) /\ (Unserved(d)' => Readable(d)')
  BY PutStays
<1>2. \A d \in Clients : Readable(d)' <=> Readable(d)
  BY DEF StaysPut
<1>3. AbstractStep
  BY <1>1, <1>2 DEF AbstractStep, Abstract!vars
<1>. QED
  BY <1>1, <1>3 DEF Waiting

(* One connection moves to another stage.                                  *)
LEMMA OneMoves ==
  ASSUME StagesTrue, StagesTrue', Waiting, NEW c \in Clients,
         \A d \in Clients \ {c} : StaysPut(d), Unserved(c)' => Readable(c)'
  PROVE  /\ StageMap' = [StageMap EXCEPT ![c] = Stage(c)'] /\ StageMap[c] = Stage(c)
         /\ ReadySet' = IF Readable(c)' THEN ReadySet \cup {c} ELSE ReadySet \ {c}
         /\ Waiting'
<1>1. \A d \in Clients \ {c} : Stage(d)' = Stage(d) /\ (Unserved(d)' => Readable(d)')
  BY PutStays
<1>2. \A d \in Clients \ {c} : Readable(d)' <=> Readable(d)
  BY DEF StaysPut
<1>. QED
  BY <1>1, <1>2 DEF StageMap, ReadySet, Waiting

LEMMA StepOf ==
  ASSUME NEW c \in Clients, Abstract!Step(c, StageMap[c])
  PROVE  AbstractStep
BY DEF AbstractStep, Abstract!Next, StageMap

(* The steps at which only selected connections are given up, or none.     *)
LEMMA QuietPut ==
  ASSUME TypeOK, ExclusiveInv, NEW t \in Threads, Quiet(t)
  PROVE  /\ PendingNow' \subseteq PendingNow /\ UNCHANGED <<chanKey, active, keyChan, fdChan>>
         /\ \A c \in Clients : /\ \A u \in Threads : Holds(u, c)' <=> Holds(u, c)
                               /\ Queued(c)' <=> Queued(c)
                               /\ Chosen(c)' => Chosen(c)
<1>1. ASSUME NEW u \in Threads
      PROVE  /\ pc'[u] \in Busy <=> pc[u] \in Busy
             /\ pc[u] \in Busy => chan'[u] = chan[u] /\ (lock' # u <=> lock # u)
  <2>1. CASE u = t
    BY <2>1 DEF Quiet
  <2>2. CASE u # t
    BY <2>2 DEF Quiet, OthersSame
  <2>. QED
    BY <2>1, <2>2
<1>2. \A c \in Clients : \A u \in Threads : Holds(u, c)' <=> Holds(u, c)
  BY <1>1 DEF Holds
<1>3. PendingNow' \subseteq PendingNow /\ UNCHANGED <<chanKey, active, keyChan, fdChan, tasks>>
  BY DEF Quiet, ChannelsSame
<1>. QED
  BY <1>2, <1>3 DEF Queued, Chosen

LEMMA QuietRefines ==
  ASSUME TypeOK, ExclusiveInv, StagesTrue, StagesTrue', Waiting, NEW t \in Threads, Quiet(t),
         \A c \in Clients : Readable(c)' <=> Readable(c), Mute' = Mute
  PROVE  AbstractStep /\ Waiting'
<1>1. /\ UNCHANGED <<chanKey, active>>
      /\ \A c \in Clients : /\ \A u \in Threads : Holds(u, c)' <=> Holds(u, c)
                            /\ Queued(c)' <=> Queued(c)
                            /\ Chosen(c)' => Chosen(c)
  BY QuietPut
<1>2. Waiting'
  BY <1>1 DEF Waiting, Unserved
<1> DEFINE D == {c \in Clients : Chosen(c) /\ ~Chosen(c)'}
<1>3. \A c \in Clients \ D : Stage(c)' = Stage(c)
  BY <1>1, SameStage
<1>4. ASSUME NEW c \in D PROVE Stage(c) = "selected" /\ Stage(c)' = "none"
  <2>1. Stage(c) = "selected"
    BY DEF StagesTrue, StageTrue
  <2>2. ~Queued(c) /\ chanKey[c] = NoKey /\ c \notin Mute /\ \A u \in Threads : ~Holds(u, c)
    <3>1. StageTrue(c)
      BY DEF StagesTrue
    <3>2. ~Queued(c) /\ chanKey[c] = NoKey /\ c \notin Mute /\ ~Holds(Admin, c)
      BY <2>1, <3>1 DEF StageTrue
    <3>3. ~\E w \in Workers : Holds(w, c)
      BY <2>1, <3>1 DEF StageTrue
    <3>. QED
      BY <3>2, <3>3
  <2>3. (~Queued(c) /\ ~Chosen(c) /\ chanKey[c] = NoKey /\ c \notin Mute /\ \A u \in Threads : ~Holds(u, c))'
    BY <1>1, <2>2
  <2>4. StageTrue(c)'
    BY DEF StagesTrue
  <2>. QED
    BY <2>1, <2>3, <2>4 DEF StageTrue
<1>5. CASE D = {}
  <2>1. \A c \in Clients : Stage(c)' = Stage(c)
    BY <1>3, <1>5
  <2>. QED
    BY <1>2, <2>1 DEF AbstractStep, Abstract!vars
<1>6. CASE D # {}
  <2>1. D \in SUBSET {c \in Clients : StageMap[c] = "selected"}
    BY <1>4 DEF StageMap
  <2>2. StageMap' = [c \in Clients |-> IF c \in D THEN "none" ELSE StageMap[c]]
    BY <1>3, <1>4 DEF StageMap
  <2>3. ReadySet' = ReadySet
    BY DEF ReadySet
  <2> HIDE DEF D
  <2>4. Abstract!Discard
    BY <1>6, <2>1, <2>2, <2>3 DEF Abstract!Discard, StageMap, ReadySet
  <2>. QED
    BY <1>2, <2>4 DEF AbstractStep, Abstract!Next
<1>. QED
  BY <1>5, <1>6

-----------------------------------------------------------------------------
(* The actions, each with the step of OneShot it is.                       *)
Known == TypeOK /\ ExclusiveInv /\ MutesApart /\ StagesTrue /\ StagesTrue' /\ Waiting
Implements == AbstractStep /\ Waiting'

LEMMA QuietActions ==
  ASSUME Known,
         \/ RunLoop \/ RunSelected \/ DispatchEnd \/ Cancel
         \/ SelectPoll /\ UNCHANGED adminVars
         \/ SelectWait /\ UNCHANGED adminVars
         \/ AdminDone /\ (lock = Admin \/ chan[Admin] = Listener)
         \/ \E t \in Threads : (RegisterTo(t) \/ Close(t)) /\ UNCHANGED adminVars
         \/ \E w \in Workers : Attach(w) \/ Finish(w) \/ TaskDone(w)
  PROVE  Implements
<1>1. \E t \in Threads : Quiet(t)
  BY AdminQuiet, OutsideQuiet, OperationQuiet, TaskQuiet DEF Known
<1>2. data' = data /\ eof' = eof
  BY DEF RunLoop, RunSelected, DispatchEnd, Cancel, SelectPoll, SelectWait, AdminDone, RegisterTo, Close,
         Attach, Finish, TaskDone, kernelVars
<1>3. Mute' = Mute
  BY SameMute DEF AdminStep, Select, Operation
<1>. QED
  BY <1>1, <1>2, <1>3, QuietRefines DEF Known, Implements, Readable

(* Take: the task that handles a connection reads its input.               *)
LEMMA ReadImplements ==
  ASSUME Known, NEW w \in Workers, Read(w)
  PROVE  Implements
<1>1. /\ Quiet(w) /\ pc[w] = "process" /\ chan[w] \in Clients /\ active[chan[w]]
      /\ fdChan[chanFd[chan[w]]] = chan[w] /\ lock # w /\ data \in [Channels -> BOOLEAN]
  <2>1. Quiet(w)
    BY TaskQuiet DEF Known
  <2>2. pc[w] = "process" /\ chan[w] \in Clients /\ lock # w /\ data \in [Channels -> BOOLEAN]
    BY DEF Read, Known, ExclusiveInv, Placed, Places, Busy, TypeOK
  <2>3. active[chan[w]] /\ fdChan[chanFd[chan[w]]] = chan[w]
    BY <2>2 DEF Known, ExclusiveInv, Owned, BusyOpen, Busy
  <2>. QED
    BY <2>1, <2>2, <2>3
<1>0. PICK c \in Clients : c = chan[w]
  BY <1>1
<1>m. Mute' = Mute
  BY SameMute
<1>2. data' = [d \in Channels |-> data[d] /\ d # c] /\ eof' = eof
  BY <1>0, <1>1 DEF Read
<1>3. Holds(w, c)
  BY <1>0, <1>1 DEF Holds, Busy
<1>4. /\ c \in Clients /\ \A d \in Clients \ {c} : Readable(d)' <=> Readable(d)
      /\ Readable(c)' => Readable(c)
  BY <1>2 DEF Readable
<1>5. CASE Readable(c)' <=> Readable(c)
  <2>1. \A d \in Clients : Readable(d)' <=> Readable(d)
    BY <1>4, <1>5
  <2>. QED
    BY <1>1, <1>m, <2>1, QuietRefines DEF Known, Implements
<1>6. CASE Readable(c) /\ ~Readable(c)'
  <2>1. PendingNow' = PendingNow
    BY DEF Read, PendingNow, selectorVars, adminVars
  <2>2. \A d \in Clients \ {c} : StaysPut(d)
    BY <1>1, <1>4, <1>m, <2>1, QuietPut DEF Known, StaysPut, Chosen
  <2>3. Holds(w, c)'
    BY <1>1, <1>3, <1>4, QuietPut DEF Known
  <2>4. Stage(c) = "running" /\ Stage(c)' = "running"
    BY <1>3, <1>4, <2>3 DEF Known, StagesTrue, StageTrue
  <2>5. ~Unserved(c)'
    BY <2>3 DEF Unserved
  <2>6. /\ StageMap' = [StageMap EXCEPT ![c] = "running"] /\ StageMap[c] = "running"
        /\ ReadySet' = ReadySet \ {c} /\ Waiting'
    BY <1>4, <1>6, <2>2, <2>4, <2>5, OneMoves DEF Known
  <2>7. StageMap' = StageMap
    BY <2>6 DEF StageMap
  <2>8. Abstract!Take(c, StageMap[c])
    BY <2>6, <2>7 DEF Abstract!Take, StageMap, ReadySet
  <2>. QED
    BY <1>4, <2>6, <2>8, StepOf DEF Abstract!Step, Implements
<1>. QED
  BY <1>4, <1>5, <1>6

(* Input: something arrives at a connection that is somewhere; at one that *)
(* was given up there was something already.                               *)
LEMMA ArriveImplements ==
  ASSUME Known, NEW c \in Channels, Arrive(c)
  PROVE  Implements
<1>1. /\ Quiet(Admin) /\ data \in [Channels -> BOOLEAN] /\ eof \in [Channels -> BOOLEAN]
      /\ lock \in {NoThread, Admin}
  BY OutsideQuiet DEF Known, TypeOK
<1>m. Mute' = Mute
  BY SameMute
<1>2. /\ \A d \in Channels \ {c} : data'[d] = data[d] /\ eof'[d] = eof[d]
      /\ data'[c] \/ eof'[c]
  BY <1>1 DEF Arrive
<1>3. /\ \A d \in Clients \ {c} : Readable(d)' <=> Readable(d)
      /\ Readable(c)'
  BY <1>2 DEF Readable
<1>4. CASE c \notin Clients \/ Readable(c)
  <2>1. \A d \in Clients : Readable(d)' <=> Readable(d)
    BY <1>3, <1>4
  <2>. QED
    BY <1>1, <1>m, <2>1, QuietRefines DEF Known, Implements
<1>5. CASE c \in Clients /\ ~Readable(c)
  <2>1. ~Unserved(c)
    BY <1>5 DEF Known, Waiting
  <2>2. PICK f \in Fds : fdChan[f] = c
    BY DEF Arrive
  <2>3. active[c] \/ \E t \in Threads : pc[t] = "closeFd" /\ chan[t] = c
    BY <2>2 DEF Known, ExclusiveInv, Owned
  <2>4. ASSUME NEW t \in Threads, pc[t] = "closeFd", chan[t] = c PROVE Holds(t, c)
    <3>1. CASE t = Admin
      BY <1>5, <2>4, <3>1 DEF Known, ExclusiveInv, Signalled, AdminCloses, Readable
    <3>2. CASE t # Admin
      BY <1>1, <2>4, <3>2 DEF Holds, Busy
    <3>. QED
      BY <3>1, <3>2
  <2>5. Stage(c) # "none"
    <3>1. CASE \E t \in Threads : Holds(t, c)
      BY <1>5, <3>1 DEF Known, StagesTrue, StageTrue
    <3>2. CASE active[c] /\ \A t \in Threads : ~Holds(t, c)
      BY <1>5, <2>1, <3>2 DEF Known, StagesTrue, StageTrue, Unserved
    <3>. QED
      BY <2>3, <2>4, <3>1, <3>2
  <2>6. PendingNow' = PendingNow
    BY DEF Arrive, PendingNow, selectorVars, adminVars
  <2>7. \A d \in Clients \ {c} : StaysPut(d)
    BY <1>1, <1>3, <1>m, <2>6, QuietPut DEF Known, StaysPut, Chosen
  <2>8. Stage(c)' = Stage(c)
    BY <1>1, <1>5, <1>m, <2>6, QuietPut, SameStage DEF Known, Chosen
  <2>9. /\ StageMap' = [StageMap EXCEPT ![c] = Stage(c)'] /\ StageMap[c] = Stage(c)
        /\ ReadySet' = ReadySet \cup {c} /\ Waiting'
    BY <1>3, <1>5, <2>7, OneMoves DEF Known
  <2>10. StageMap' = StageMap
    BY <2>8, <2>9 DEF StageMap
  <2>11. Abstract!Input(c, StageMap[c])
    BY <2>5, <2>9, <2>10 DEF Abstract!Input, StageMap, ReadySet
  <2>. QED
    BY <1>5, <2>9, <2>11, StepOf DEF Abstract!Step, Implements
<1>. QED
  BY <1>4, <1>5

(* A thread takes a channel from nobody: nothing else moves.               *)
LEMMA TakesPut ==
  ASSUME TypeOK, ExclusiveInv, NEW t \in Threads, NEW c \in Channels, Takes(t, c),
         \A d \in Channels : Queued(d)' <=> Queued(d) /\ d # c, data' = data, eof' = eof,
         \A d \in Clients \ {c} : d \in Mute' <=> d \in Mute
  PROVE  (\A d \in Clients \ {c} : StaysPut(d)) /\ Holds(t, c)'
<1>1. /\ \A u \in Threads \ {t} : pc'[u] = pc[u] /\ chan'[u] = chan[u]
      /\ pc[t] \notin Busy /\ pc'[t] \in Busy /\ chan'[t] = c /\ lock' = lock /\ lock # t
      /\ PendingNow' = PendingNow /\ UNCHANGED <<chanKey, active, keyChan>>
  BY DEF Takes, OthersSame, ChannelsSame
<1>2. ASSUME NEW d \in Clients \ {c} PROVE StaysPut(d)
  <2>1. ASSUME NEW u \in Threads PROVE Holds(u, d)' <=> Holds(u, d)
    BY <1>1 DEF Holds
  <2>. QED
    BY <1>1, <2>1 DEF StaysPut, Chosen, Readable
<1>. QED
  BY <1>1, <1>2 DEF Holds

LEMMA StartImplements ==
  ASSUME Known, NEW w \in Workers, StartTask(w)
  PROVE  Implements
<1>1. /\ Takes(w, Head(tasks)) /\ Queued(Head(tasks))
      /\ \A d \in Channels : Queued(d)' <=> Queued(d) /\ d # Head(tasks)
  BY TaskTakes DEF Known
<1>2. PICK c \in Clients : c = Head(tasks)
  <2>1. tasks \in Seq(Clients) /\ tasks # <<>>
    BY DEF Known, TypeOK, StartTask
  <2>. QED
    BY <2>1
<1>3. UNCHANGED <<data, eof>>
  BY DEF StartTask, kernelVars
<1>4. (\A d \in Clients \ {c} : StaysPut(d)) /\ Holds(w, c)'
  BY <1>1, <1>2, <1>3, SameMute, TakesPut DEF Known
<1>5. Stage(c) = "queued" /\ Stage(c)' = "running" /\ ~Unserved(c)'
  BY <1>1, <1>2, <1>4 DEF Known, StagesTrue, StageTrue, Unserved
<1>6. /\ StageMap' = [StageMap EXCEPT ![c] = "running"] /\ StageMap[c] = "queued" /\ Waiting'
  BY <1>4, <1>5, OneMoves DEF Known
<1>7. ReadySet' = ReadySet
  BY <1>3 DEF ReadySet, Readable
<1>8. Abstract!Start(c, StageMap[c])
  BY <1>6, <1>7 DEF Abstract!Start, Abstract!Move, StageMap, ReadySet
<1>. QED
  BY <1>6, <1>8, StepOf DEF Abstract!Step, Implements

LEMMA ListenerImplements ==
  ASSUME Known, AcceptFail \/ (AdminDone /\ lock # Admin /\ chan[Admin] # Listener)
  PROVE  Implements
<1>1. Takes(Admin, Listener)
  BY AdminTakes DEF Known
<1>2. UNCHANGED <<data, eof, tasks>>
  BY DEF AcceptFail, AdminDone, kernelVars, adminVars
<1>3. \A d \in Channels : Queued(d)' <=> Queued(d) /\ d # Listener
  BY <1>2 DEF Queued, Known, TypeOK
<1>4. \A d \in Clients \ {Listener} : StaysPut(d)
  BY <1>1, <1>2, <1>3, SameMute, TakesPut DEF Known, AdminStep
<1>. QED
  BY <1>4, NobodyMoves DEF Known, Implements

(* The keys selected last time were given up or dispatched before.         *)
LEMMA BeginImplements ==
  ASSUME Known, SelectBegin, UNCHANGED adminVars
  PROVE  Implements
<1>1. /\ UNCHANGED <<lock, chan, chanKey, active, tasks, data, eof>>
      /\ pc' = [pc EXCEPT ![Admin] = "poll"] /\ pc[Admin] = "select" /\ pc \in [Threads -> Labels]
  BY DEF SelectBegin, adminVars, kernelVars, Known, TypeOK
<1>2. PendingNow = {} /\ PendingNow' = {}
  <2>1. lock = NoThread /\ selected = {} /\ lock' = lock /\ selected' = selected
    BY <1>1 DEF SelectBegin, adminVars, Known, ExclusiveInv, Placed, AdminPlace, InRun
  <2>. QED
    BY <2>1 DEF PendingNow
<1>3. \A t \in Threads : pc'[t] \in Busy <=> pc[t] \in Busy
  BY <1>1 DEF Busy
<1>4. \A d \in Clients : StaysPut(d)
  <2>1. Mute' = Mute
    BY SameMute DEF AdminStep, Select
  <2>. QED
    BY <1>1, <1>2, <1>3, <2>1 DEF StaysPut, Holds, Queued, Chosen, Readable
<1>. QED
  BY <1>4, NobodyMoves DEF Known, Implements

(* Fire: an event on the descriptor of a connection.                       *)
LEMMA EventImplements ==
  ASSUME Known, ExclusiveInv', NEW f \in Fds, SelectEvent(f), UNCHANGED adminVars
  PROVE  Implements
<1>t. /\ pc \in [Threads -> Labels] /\ chan \in [Threads -> Channels \cup {NoChannel}]
      /\ chanKey \in [Channels -> Keys \cup {NoKey}]
      /\ Places /\ AdminPlace /\ Watched /\ Owned /\ OneParty /\ Signalled
  BY DEF Known, TypeOK, ExclusiveInv, Placed
<1>1. PICK c \in Channels : c = fdChan[f] /\ keyChan[mKeys[f]] = c /\ mKeys[f] \in Keys /\ chanKey[c] = mKeys[f]
  BY <1>t DEF SelectEvent, Watched, RegistrationsAgree
<1>2. PICK k \in Keys : k = mKeys[f]
  BY <1>1
<1>3. /\ UNCHANGED <<lock, active, keyChan, data, eof, tasks, selected>>
      /\ chanKey' = [chanKey EXCEPT ![c] = NoKey] /\ pendingKeys' = pendingKeys \cup {k}
      /\ lock = Admin /\ pc[Admin] = "events"
      /\ \/ pc' = [pc EXCEPT ![Admin] = "close"] /\ chan' = [chan EXCEPT ![Admin] = c]
         \/ pc' = pc /\ chan' = chan
  BY <1>t, <1>1, <1>2 DEF SelectEvent, KeepSelected, adminVars, AdminPlace, InSelect
<1>m. Mute' = Mute
  BY SameMute DEF AdminStep, Select
<1>4. \A u \in Threads, d \in Clients : Holds(u, d)' <=> Holds(u, d)
  BY <1>t, <1>3 DEF Holds
<1>5. PendingNow' = PendingNow \cup {k} /\ keyChan[k] = c /\ chanKey[c] # NoKey /\ Readable(c) /\ active[c]
  BY <1>t, <1>1, <1>2, <1>3 DEF PendingNow, SelectEvent, Signalled, Owned
<1>6. \A d \in Clients \ {c} : StaysPut(d)
  BY <1>t, <1>3, <1>4, <1>5, <1>m DEF StaysPut, Queued, Chosen, Readable
<1>7. CASE c \notin Clients
  BY <1>6, <1>7, NobodyMoves DEF Known, Implements
<1>8. CASE c \in Clients
  <2>1. Stage(c) = "armed"
    BY <1>5, <1>8 DEF Known, StagesTrue, StageTrue
  <2>2. Chosen(c)'
    BY <1>3, <1>5 DEF Chosen
  <2>3. Stage(c)' = "selected"
    BY <1>8, <2>2 DEF Known, StagesTrue, StageTrue
  <2>4. Readable(c)'
    BY <1>3, <1>5 DEF Readable
  <2>5. StageMap' = [StageMap EXCEPT ![c] = "selected"] /\ StageMap[c] = "armed" /\ Waiting'
    BY <1>6, <1>8, <2>1, <2>3, <2>4, OneMoves DEF Known
  <2>6. ReadySet' = ReadySet /\ c \in ReadySet
    BY <1>3, <1>5, <1>8 DEF ReadySet, Readable
  <2>7. Abstract!Fire(c, StageMap[c])
    BY <2>5, <2>6 DEF Abstract!Fire, Abstract!Move, StageMap, ReadySet
  <2>. QED
    BY <1>8, <2>5, <2>7, StepOf DEF Abstract!Step, Implements
<1>. QED
  BY <1>7, <1>8

(* Queue: a selected key whose peer is active.                             *)
LEMMA DispatchImplements ==
  ASSUME Known, NEW k \in Keys, Dispatch(k)
  PROVE  Implements
<1>t. /\ pc \in [Threads -> Labels] /\ chan \in [Threads -> Channels \cup {NoChannel}]
      /\ tasks \in Seq(Clients)
      /\ Places /\ AdminPlace /\ OneParty
  BY DEF Known, TypeOK, ExclusiveInv, Placed
<1>1. /\ UNCHANGED <<lock, active, keyChan, chanKey, data, eof, chan>>
      /\ pc[Admin] = "dispatch" /\ pc'[Admin] \in {"accept", "dispatch"}
      /\ \A u \in Threads \ {Admin} : pc'[u] = pc[u]
      /\ k \in selected /\ selected' = selected \ {k}
      /\ tasks' = IF keyChan[k] \in Clients /\ active[keyChan[k]] THEN Append(tasks, keyChan[k]) ELSE tasks
  BY <1>t DEF Dispatch, IsActivePeer, channelVars, kernelVars
<1>2. lock = NoThread /\ PendingNow = selected /\ PendingNow' = selected \ {k}
  BY <1>t, <1>1 DEF AdminPlace, InRun, PendingNow
<1>3. PICK c \in Channels : c = keyChan[k] /\ chanKey[c] = NoKey /\ ~Queued(c)
  BY <1>t, <1>1, <1>2 DEF OneParty, SelectedApart
<1>4. \A d : Queued(d)' <=> Queued(d) \/ (d = c /\ c \in Clients /\ active[c])
  <2>1. CASE c \in Clients /\ active[c]
    <3>1. /\ Len(tasks) \in Nat /\ DOMAIN tasks = 1..Len(tasks) /\ DOMAIN tasks' = 1..(Len(tasks) + 1)
          /\ \A i \in 1..Len(tasks) : tasks'[i] = tasks[i]
          /\ tasks'[Len(tasks) + 1] = c
      BY <1>t, <1>1, <1>3, <2>1
    <3>2. /\ \A i \in DOMAIN tasks' : i \in DOMAIN tasks \/ i = Len(tasks) + 1
          /\ \A i \in DOMAIN tasks : i \in DOMAIN tasks'
          /\ Len(tasks) + 1 \in DOMAIN tasks'
      BY <3>1
    <3>. QED
      BY <2>1, <3>1, <3>2 DEF Queued
  <2>2. CASE ~(c \in Clients /\ active[c])
    BY <1>1, <1>3, <2>2 DEF Queued
  <2>. QED
    BY <2>1, <2>2
<1>5. \A u \in Threads, d \in Clients : Holds(u, d)' <=> Holds(u, d)
  BY <1>1 DEF Holds, Busy
<1>m. Mute' = Mute
  BY SameMute DEF AdminStep
<1>6. \A d \in Clients \ {c} : StaysPut(d)
  BY <1>1, <1>2, <1>3, <1>4, <1>5, <1>m DEF StaysPut, Chosen, Readable
<1>7. CASE c \notin Clients
  BY <1>6, <1>7, NobodyMoves DEF Known, Implements
<1>8. CASE c \in Clients /\ ~active[c]
  <2>1. StaysPut(c)
    BY <1>1, <1>4, <1>5, <1>8, <1>m DEF StaysPut, Chosen, Readable
  <2>. QED
    BY <1>6, <2>1, NobodyMoves DEF Known, Implements
<1>9. CASE c \in Clients /\ active[c]
  <2>1. Chosen(c) /\ Queued(c)'
    BY <1>1, <1>2, <1>3, <1>4, <1>9 DEF Chosen
  <2>2. Stage(c) = "selected" /\ Stage(c)' = "queued" /\ ~Unserved(c)'
    BY <1>9, <2>1 DEF Known, StagesTrue, StageTrue, Unserved
  <2>3. StageMap' = [StageMap EXCEPT ![c] = "queued"] /\ StageMap[c] = "selected" /\ Waiting'
    BY <1>6, <1>9, <2>2, OneMoves DEF Known
  <2>4. ReadySet' = ReadySet
    BY <1>1 DEF ReadySet, Readable
  <2>5. Abstract!Queue(c, StageMap[c])
    BY <2>3, <2>4 DEF Abstract!Queue, Abstract!Move, StageMap, ReadySet
  <2>. QED
    BY <1>9, <2>3, <2>5, StepOf DEF Abstract!Step, Implements
<1>. QED
  BY <1>7, <1>8, <1>9

(* Open: accept() makes a connection of a free channel object.             *)
LEMMA AcceptImplements ==
  ASSUME Known, Accept
  PROVE  Implements
<1>t. /\ pc \in [Threads -> Labels] /\ chan \in [Threads -> Channels \cup {NoChannel}]
      /\ active \in [Channels -> BOOLEAN] /\ data \in [Channels -> BOOLEAN]
      /\ pendingKeys \subseteq Keys /\ Places /\ AdminPlace
  BY DEF Known, TypeOK, ExclusiveInv, Placed
<1>1. PICK c \in FreeChannels, more \in BOOLEAN :
        /\ active' = [active EXCEPT ![c] = TRUE] /\ chan' = [chan EXCEPT ![Admin] = c]
        /\ data' = [data EXCEPT ![Listener] = more]
  BY DEF Accept
<1>2. /\ UNCHANGED <<lock, pendingKeys, selected, keyChan, chanKey, eof, tasks>>
      /\ pc[Admin] = "accept" /\ pc' = [pc EXCEPT ![Admin] = "registerTo"]
  BY DEF Accept, selectorVars, adminVars
<1>3. /\ c \in Clients /\ chanKey[c] = NoKey /\ ~active[c] /\ ~Queued(c) /\ c \notin Mute
      /\ \A u \in Threads : chan[u] # c
  BY DEF FreeChannels, Mute
<1>m. Mute' = Mute
  BY SameMute DEF AdminStep
<1>4. lock = NoThread /\ PendingNow' = PendingNow
  BY <1>t, <1>2 DEF AdminPlace, InRun, PendingNow
<1>5. ASSUME NEW u \in Threads, NEW d \in Clients \ {c} PROVE Holds(u, d)' <=> Holds(u, d)
  BY <1>t, <1>1, <1>2 DEF Holds, Busy
<1>6. Holds(Admin, c)' /\ \A u \in Threads : ~Holds(u, c)
  BY <1>t, <1>1, <1>2, <1>3, <1>4 DEF Holds, Busy
<1>7. \A d \in Clients : data'[d] = data[d] /\ (d # c => active'[d] = active[d])
  BY <1>t, <1>1
<1>8. \A d \in Clients \ {c} : StaysPut(d)
  BY <1>2, <1>4, <1>5, <1>7, <1>m DEF StaysPut, Queued, Chosen, Readable
<1>9. Stage(c) = "none" /\ Stage(c)' = "opening" /\ ~Unserved(c)'
  BY <1>3, <1>6 DEF Known, StagesTrue, StageTrue, Chosen, Unserved
<1>10. StageMap' = [StageMap EXCEPT ![c] = "opening"] /\ StageMap[c] = "none" /\ Waiting'
  BY <1>3, <1>8, <1>9, OneMoves DEF Known
<1>11. ReadySet' = ReadySet
  BY <1>2, <1>7 DEF ReadySet, Readable
<1>12. Abstract!Open(c, StageMap[c])
  BY <1>10, <1>11 DEF Abstract!Open, Abstract!Move, StageMap, ReadySet
<1>. QED
  BY <1>3, <1>10, <1>12, StepOf DEF Abstract!Step, Implements

(* Arm: the connection is watched, by Admin at first, by its task again.   *)
LEMMA NewKeyImplements ==
  ASSUME Known, NEW t \in Threads, NewKey(t), UNCHANGED adminVars
  PROVE  Implements
<1>t. /\ pc \in [Threads -> Labels] /\ chanKey \in [Channels -> Keys \cup {NoKey}]
      /\ keyChan \in [Keys -> Channels \cup {NoChannel}] /\ lock \in {NoThread, Admin}
      /\ pendingKeys \subseteq Keys /\ Places /\ AdminPlace /\ Watched /\ Owned /\ OneParty
  BY DEF Known, TypeOK, ExclusiveInv, Placed
<1>1. PICK c \in Channels : /\ c = chan[t] /\ pc[t] = "newKey" /\ lock = NoThread
                            /\ active[c] /\ fdChan[chanFd[c]] = c /\ chanFd[c] \in Fds
                            /\ chanKey[c] = NoKey /\ ~Queued(c)
                            /\ \A u \in Threads \ {t} : pc[u] \in Busy => chan[u] # c
  <2>1. chan[t] \in Channels /\ pc[t] = "newKey" /\ lock = NoThread
    BY <1>t DEF NewKey, CanLock, AdminPlace, InRun, Places, Busy
  <2>. QED
    BY <1>t, <2>1 DEF Owned, BusyOpen, OneParty, BusyApart, BusyAlone, Busy, Known, TypeOK
<1>2. chanFd[c] \notin epollSet
  <2>1. mKeys[chanFd[c]] # NoKey => chanKey[fdChan[chanFd[c]]] = mKeys[chanFd[c]]
    BY <1>t, <1>1 DEF Watched, RegistrationsAgree
  <2>. QED
    BY <1>t, <1>1, <2>1 DEF Watched, RegistrationsAgree
<1>3. PICK k \in FreshKeys : /\ keyChan' = [keyChan EXCEPT ![k] = c] /\ chanKey' = [chanKey EXCEPT ![c] = k]
                             /\ pc' = [pc EXCEPT ![t] = "done"]
  BY <1>1, <1>2 DEF NewKey
<1>4. UNCHANGED <<lock, active, chan, pendingKeys, data, eof, selected, tasks>>
  BY DEF NewKey, adminVars
<1>5. /\ PendingNow' = PendingNow /\ PendingNow \subseteq Keys /\ k \notin PendingNow
      /\ k \in Keys /\ \A l \in PendingNow : keyChan'[l] = keyChan[l]
  <2>1. PendingNow = selected /\ PendingNow' = PendingNow /\ selected \subseteq pendingKeys
    BY <1>t, <1>1, <1>4 DEF PendingNow, AdminPlace
  <2>2. k \in Keys /\ k \notin pendingKeys
    BY DEF FreshKeys
  <2>. QED
    BY <1>t, <1>3, <2>1, <2>2
<1>m. Mute' = Mute
  BY SameMute DEF Operation
<1>6. ASSUME NEW u \in Threads, NEW d \in Clients \ {c} PROVE Holds(u, d)' <=> Holds(u, d)
  BY <1>t, <1>1, <1>3, <1>4 DEF Holds, Busy
<1>7. \A d \in Clients \ {c} : StaysPut(d)
  BY <1>t, <1>3, <1>4, <1>5, <1>6, <1>m DEF StaysPut, Queued, Chosen, Readable
<1>8. CASE c \notin Clients
  BY <1>7, <1>8, NobodyMoves DEF Known, Implements
<1>9. CASE c \in Clients
  <2>1. Holds(t, c)
    BY <1>1 DEF Holds, Busy
  <2>2. Stage(c) \in {"opening", "running"}
    BY <1>9, <2>1 DEF Known, StagesTrue, StageTrue
  <2>3. chanKey'[c] # NoKey
    BY <1>t, <1>3, <1>5
  <2>4. Stage(c)' = "armed" /\ ~Unserved(c)'
    BY <1>9, <2>3 DEF Known, StagesTrue, StageTrue, Unserved
  <2>5. StageMap' = [StageMap EXCEPT ![c] = "armed"] /\ StageMap[c] \in {"opening", "running"} /\ Waiting'
    BY <1>7, <1>9, <2>2, <2>4, OneMoves DEF Known
  <2>6. ReadySet' = ReadySet
    BY <1>4 DEF ReadySet, Readable
  <2>7. Abstract!Arm(c, StageMap[c])
    BY <2>5, <2>6 DEF Abstract!Arm, Abstract!Move, StageMap, ReadySet
  <2>. QED
    BY <1>9, <2>5, <2>7, StepOf DEF Abstract!Step, Implements
<1>. QED
  BY <1>8, <1>9

(* A channel stops being active: nothing moves if a task closes it; one    *)
(* that Admin closes in select() is no longer selected (Discard).          *)
LEMMA CloseSetImplements ==
  ASSUME Known, NEW t \in Threads, CloseSet(t), UNCHANGED adminVars
  PROVE  Implements
<1>t. /\ pc \in [Threads -> Labels] /\ active \in [Channels -> BOOLEAN] /\ lock \in {NoThread, Admin}
      /\ Places /\ AdminPlace /\ Owned /\ OneParty
  BY DEF Known, TypeOK, ExclusiveInv, Placed
<1>1. PICK c \in Clients : c = chan[t] /\ pc[t] = "closeSet" /\ chanKey[c] = NoKey /\ ~Queued(c)
                           /\ \A u \in Threads \ {t} : pc[u] \in Busy => chan[u] # c
  BY <1>t DEF CloseSet, AdminPlace, Places, Busy, OneParty, BusyApart, BusyAlone
<1>2. /\ UNCHANGED <<lock, chan, chanKey, keyChan, pendingKeys, selected, tasks, data, eof>>
      /\ active' = [active EXCEPT ![c] = FALSE] /\ pc' = [pc EXCEPT ![t] = "closeFd"]
  BY <1>1 DEF CloseSet, selectorVars, kernelVars, adminVars
<1>m. Mute' = Mute /\ c \notin Mute
  BY <1>t, <1>1, SameMute DEF Operation, Known, MutesApart, MuteApart, Busy
<1>3. \A u \in Threads, d \in Clients : Holds(u, d)' <=> Holds(u, d)
  BY <1>t, <1>1, <1>2 DEF Holds, Busy
<1>4. PendingNow' = PendingNow /\ (\A d \in Clients \ {c} : active'[d] = active[d]) /\ ~active'[c]
  BY <1>t, <1>2 DEF PendingNow
<1>5. \A d \in Clients \ {c} : StaysPut(d)
  BY <1>2, <1>3, <1>4, <1>m DEF StaysPut, Queued, Chosen, Readable
<1>6. ~Chosen(c)' /\ ~Unserved(c)' /\ (Queued(c)' <=> Queued(c))
  BY <1>2, <1>4 DEF Chosen, Unserved, Queued
<1>7. StageMap' = [StageMap EXCEPT ![c] = Stage(c)'] /\ StageMap[c] = Stage(c) /\ Waiting'
  BY <1>5, <1>6, OneMoves DEF Known
<1>8. ReadySet' = ReadySet
  BY <1>2 DEF ReadySet, Readable
<1>9. CASE ~Chosen(c)
  <2>1. Stage(c)' = Stage(c)
    BY <1>2, <1>3, <1>6, <1>9, <1>m, SameStage DEF Known
  <2>2. StageMap' = StageMap
    BY <1>7, <2>1 DEF StageMap
  <2>. QED
    BY <1>7, <1>8, <2>2 DEF AbstractStep, Abstract!vars, Implements, StageMap, ReadySet
<1>10. CASE Chosen(c)
  <2>1. \A u \in Threads : ~Holds(u, c)
    BY <1>t, <1>10 DEF Holds, OneParty, BusyApart, Chosen
  <2>2. \A u \in Threads : ~Holds(u, c)'
    BY <1>3, <2>1
  <2>3. Stage(c) = "selected" /\ Stage(c)' = "none"
    BY <1>1, <1>2, <1>6, <1>10, <1>m, <2>2 DEF Known, StagesTrue, StageTrue
  <2>4. /\ StageMap' = [d \in Clients |-> IF d \in {c} THEN "none" ELSE StageMap[d]]
        /\ {c} \in SUBSET {d \in Clients : StageMap[d] = "selected"}
    BY <1>7, <2>3 DEF StageMap
  <2>5. Abstract!Discard
    BY <1>8, <2>4 DEF Abstract!Discard, StageMap, ReadySet
  <2>. QED
    BY <1>7, <2>5 DEF AbstractStep, Abstract!Next, Implements
<1>. QED
  BY <1>9, <1>10

(* Finish: a task closes the connection it handles, or Admin the one whose *)
(* accept() failed.  Take: Admin closes one in select().                   *)
LEMMA CloseFdImplements ==
  ASSUME Known, NEW t \in Threads, CloseFd(t), UNCHANGED adminVars
  PROVE  Implements
<1>t. /\ pc \in [Threads -> Labels] /\ data \in [Channels -> BOOLEAN] /\ eof \in [Channels -> BOOLEAN]
      /\ lock \in {NoThread, Admin}
      /\ Places /\ AdminPlace /\ Owned /\ OneParty
  BY DEF Known, TypeOK, ExclusiveInv, Placed
<1>1. PICK c \in Clients : /\ c = chan[t] /\ pc[t] = "closeFd" /\ chanKey[c] = NoKey /\ ~Queued(c) /\ ~active[c]
                           /\ fdChan[chanFd[c]] = c
                           /\ \A u \in Threads \ {t} : pc[u] \in Busy => chan[u] # c
  BY <1>t DEF CloseFd, AdminPlace, Places, Busy, OneParty, BusyApart, BusyAlone, Owned, BusyOpen
<1>2. /\ UNCHANGED <<lock, chan, chanKey, keyChan, active, pendingKeys, selected, tasks>>
      /\ data' = [d \in Channels |-> data[d] /\ d # c] /\ eof' = [d \in Channels |-> eof[d] /\ d # c]
      /\ pc' = [pc EXCEPT ![t] = "done"]
  BY <1>1 DEF CloseFd, selectorVars, channelVars, adminVars
<1>m. Mute' = Mute /\ c \notin Mute
  BY <1>t, <1>1, SameMute DEF Operation, Known, MutesApart, MuteApart, Busy
<1>3. ASSUME NEW u \in Threads, NEW d \in Clients \ {c} PROVE Holds(u, d)' <=> Holds(u, d)
  BY <1>t, <1>1, <1>2 DEF Holds, Busy
<1>4. /\ PendingNow' = PendingNow
      /\ \A d \in Clients \ {c} : Readable(d)' <=> Readable(d)
      /\ ~Readable(c)'
  BY <1>2 DEF PendingNow, Readable
<1>5. \A d \in Clients \ {c} : StaysPut(d)
  BY <1>2, <1>3, <1>4, <1>m DEF StaysPut, Queued, Chosen
<1>6. \A u \in Threads : ~Holds(u, c)'
  BY <1>t, <1>1, <1>2 DEF Holds, Busy
<1>7. Stage(c)' = "none" /\ ~Unserved(c)'
  BY <1>1, <1>2, <1>6, <1>m DEF Known, StagesTrue, StageTrue, Chosen, Unserved, Queued
<1>8. /\ StageMap' = [StageMap EXCEPT ![c] = "none"] /\ StageMap[c] = Stage(c) /\ Waiting'
      /\ ReadySet' = ReadySet \ {c}
  BY <1>4, <1>5, <1>7, OneMoves DEF Known
<1>9. CASE lock # t
  <2>1. Holds(t, c)
    BY <1>1, <1>9 DEF Holds, Busy
  <2>2. Stage(c) \in {"opening", "running"}
    BY <2>1 DEF Known, StagesTrue, StageTrue
  <2>3. Abstract!Finish(c, StageMap[c])
    BY <1>8, <2>2 DEF Abstract!Finish, Abstract!Move, StageMap, ReadySet
  <2>. QED
    BY <1>8, <2>3, StepOf DEF Abstract!Step, Implements
<1>10. CASE lock = t
  <2>1. \A u \in Threads : ~Holds(u, c)
    BY <1>1, <1>10 DEF Holds
  <2>2. Stage(c) = "none"
    BY <1>1, <1>m, <2>1 DEF Known, StagesTrue, StageTrue, Chosen
  <2>3. StageMap' = StageMap
    BY <1>8, <2>2 DEF StageMap
  <2>4. Abstract!Take(c, StageMap[c])
    BY <1>8, <2>2, <2>3 DEF Abstract!Take, StageMap, ReadySet
  <2>. QED
    BY <1>8, <2>4, StepOf DEF Abstract!Step, Implements
<1>. QED
  BY <1>9, <1>10

(* Leave: a break ends the task of a connection.  Drop: another task takes *)
(* a mute one to close it.                                                 *)
LEMMA BreakImplements ==
  ASSUME Known, NEW w \in Workers, Break(w), Exclusive
  PROVE  Implements
<1>t. /\ pc \in [Threads -> Labels] /\ lock \in {NoThread, Admin} /\ Places /\ OneParty
  BY DEF Known, TypeOK, ExclusiveInv, Placed
<1>1. PICK c \in Clients : c = chan[w] /\ pc[w] = "processed" /\ lock # w
  BY <1>t DEF Break, Places, Busy
<1>2. /\ UNCHANGED <<lock, pendingKeys, selected, chan, chanKey, keyChan, active, tasks, data, eof>>
      /\ pc' = [pc EXCEPT ![w] = "done"] /\ Mute' = Mute \cup {c}
  BY <1>1 DEF Break, Mute, Exclusive, selectorVars, channelVars, kernelVars
<1>3. ASSUME NEW u \in Threads, NEW d \in Clients \ {c} PROVE Holds(u, d)' <=> Holds(u, d)
  BY <1>t, <1>1, <1>2 DEF Holds, Busy
<1>4. \A d \in Clients \ {c} : StaysPut(d)
  BY <1>2, <1>3 DEF StaysPut, Queued, Chosen, PendingNow, Readable
<1>5. Holds(w, c)
  BY <1>1 DEF Holds, Busy
<1>6. Stage(c) = "running" /\ Stage(c)' = "mute" /\ ~Unserved(c)'
  BY <1>2, <1>5 DEF Known, StagesTrue, StageTrue, Unserved
<1>7. StageMap' = [StageMap EXCEPT ![c] = "mute"] /\ StageMap[c] = "running" /\ Waiting'
  BY <1>4, <1>6, OneMoves DEF Known
<1>8. ReadySet' = ReadySet
  BY <1>2 DEF ReadySet, Readable
<1>9. Abstract!Leave(c, StageMap[c])
  BY <1>7, <1>8 DEF Abstract!Leave, Abstract!Move, StageMap, ReadySet
<1>. QED
  BY <1>7, <1>9, StepOf DEF Abstract!Step, Implements

LEMMA RespondImplements ==
  ASSUME Known, NEW w \in Workers, NEW c \in Clients, Respond(w, c), Exclusive
  PROVE  Implements
<1>1. /\ Takes(w, c) /\ c \in Mute /\ Mute' = Mute \ {c}
      /\ \A d \in Channels : Queued(d)' <=> Queued(d) /\ d # c
  BY RespondStep DEF Known
<1>2. UNCHANGED <<data, eof>>
  BY DEF Respond, kernelVars
<1>3. (\A d \in Clients \ {c} : StaysPut(d)) /\ Holds(w, c)'
  BY <1>1, <1>2, TakesPut DEF Known
<1>4. Stage(c) = "mute" /\ Stage(c)' = "running" /\ ~Unserved(c)'
  BY <1>1, <1>3 DEF Known, StagesTrue, StageTrue, Unserved
<1>5. StageMap' = [StageMap EXCEPT ![c] = "running"] /\ StageMap[c] = "mute" /\ Waiting'
  BY <1>3, <1>4, OneMoves DEF Known
<1>6. ReadySet' = ReadySet
  BY <1>2 DEF ReadySet, Readable
<1>7. Abstract!Drop(c, StageMap[c])
  BY <1>5, <1>6 DEF Abstract!Drop, Abstract!Move, StageMap, ReadySet
<1>. QED
  BY <1>5, <1>7, StepOf DEF Abstract!Step, Implements

-----------------------------------------------------------------------------
LEMMA NextImplements ==
  ASSUME Known, ExclusiveInv', Exclusive, [Next]_vars
  PROVE  Implements
<1> USE DEF Known
<1>1. ASSUME NEW t \in Threads, Operation(t) PROVE Implements
  <2>1. ~CancelKey(t) /\ ~RemoveKey(t)
    BY NeverHappens
  <2>. QED
    BY <1>1, <2>1, QuietActions, NewKeyImplements, CloseSetImplements, CloseFdImplements DEF Operation
<1>2. CASE AdminStep
  <2>1. ~AdminThrow /\ (\A f \in Fds : ~SelectThrow(f)) /\ Admin \in Threads
    BY NeverHappens
  <2>2. CASE Select
    BY <2>1, <2>2, QuietActions, BeginImplements, EventImplements DEF Select
  <2>3. CASE AdminDone
    BY <2>3, QuietActions, ListenerImplements
  <2>. QED
    BY <1>1, <1>2, <2>1, <2>2, <2>3, QuietActions, DispatchImplements, AcceptImplements, ListenerImplements
    DEF AdminStep
<1>3. ASSUME NEW w \in Workers, WorkerStep(w) PROVE Implements
  <2>1. ~TaskThrow(w) /\ w \in Threads
    BY NeverHappens
  <2>. QED
    BY <1>1, <1>3, <2>1, QuietActions, StartImplements, ReadImplements, BreakImplements DEF WorkerStep
<1>4. CASE UNCHANGED vars
  <2>1. UNCHANGED <<lock, active, chanKey, keyChan, pendingKeys, selected, tasks, published, data, eof, pc, chan>>
    BY <1>4 DEF vars, vars0, selectorVars, channelVars, kernelVars, threadVars, adminVars
  <2>2. \A d \in Clients : StaysPut(d)
    BY <2>1 DEF StaysPut, Holds, Queued, Chosen, PendingNow, Readable, Mute
  <2>. QED
    BY <2>2, NobodyMoves DEF Implements
<1>. QED
  BY <1>2, <1>3, <1>4, QuietActions, ArriveImplements, RespondImplements DEF Next

LEMMA InitImplements ==
  ASSUME Init, TypeOK, ExclusiveInv, StagesTrue
  PROVE  Abstract!Init /\ Waiting
<1>1. /\ \A d \in Clients : ~active[d] /\ chanKey[d] = NoKey /\ ~Queued(d) /\ ~data[d] /\ ~eof[d]
      /\ Mute = {} /\ \A t \in Threads : chan[t] = NoChannel
  <2> DEFINE k == CHOOSE free \in Keys : TRUE
  <2>1. /\ active = [c \in Channels |-> c = Listener]
        /\ chanKey = [c \in Channels |-> IF c = Listener THEN k ELSE NoKey]
        /\ data = [c \in Channels |-> FALSE] /\ eof = [c \in Channels |-> FALSE]
        /\ chan = [t \in Threads |-> NoChannel] /\ tasks = <<>> /\ Mute = {}
    BY DEF Init, Mute
  <2> HIDE DEF k
  <2>2. \A d : ~Queued(d)
    BY <2>1 DEF Queued
  <2>3. \A d \in Clients : ~active[d] /\ chanKey[d] = NoKey /\ ~data[d] /\ ~eof[d]
    BY <2>1
  <2>. QED
    BY <2>1, <2>2, <2>3
<1>2. \A d \in Clients : Stage(d) = "none" /\ ~Readable(d)
  BY <1>1 DEF StagesTrue, StageTrue, Holds, Chosen, Readable
<1>. QED
  BY <1>1, <1>2 DEF Abstract!Init, Waiting, Unserved

(* PeerAdmin keeps the promise of OneShot: each connection is watched,     *)
(* selected, queued and handled in turn by one party, and its input is     *)
(* taken by nobody but the task that handles it (EPOLL_CTL_DEL at every    *)
(* event, SelectionKey kept until the peer attaches its socket again).  A  *)
(* task hands it on, closes it, or leaves it mute, as a break of StdPeer's *)
(* loop does; then nobody has it until another task lets go of it.         *)
THEOREM OneAtATime ==
  ASSUME Exclusive
  PROVE  Spec => OneShotDispatch
<1>1. TypeOK /\ ExclusiveInv /\ MutesApart => StagesTrue
  BY StageOf DEF StagesKnown
<1>2. TypeOK' /\ ExclusiveInv' /\ MutesApart' => StagesTrue'
  <2>1. StagesKnown'
    BY StageOf, PTL
  <2>. QED
    BY <2>1 DEF StagesKnown
<1>3. Init /\ TypeOK /\ ExclusiveInv /\ MutesApart => Abstract!Init /\ Waiting
  BY <1>1, InitImplements
<1>4. /\ TypeOK /\ ExclusiveInv /\ MutesApart
      /\ TypeOK' /\ ExclusiveInv' /\ MutesApart' /\ Waiting /\ [Next]_vars
      => [Abstract!Next]_(Abstract!vars) /\ Waiting'
  BY <1>1, <1>2, NextImplements DEF Known, Implements, AbstractStep
<1>. QED
  BY <1>3, <1>4, AlwaysExclusive, PTL DEF Spec, OneShotDispatch, Abstract!Spec
=============================================================================
