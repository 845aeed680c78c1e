--------------------------- MODULE CommandsProofs ---------------------------
(***************************************************************************)
(* Proofs about the programs with a command line, but for the compiler:    *)
(* the reader of a channel, bundles, the listeners of the proxy and the    *)
(* exit codes, for any configuration, message and command line.            *)
(***************************************************************************)
EXTENDS Commands, FiniteSetTheorems, SequenceTheorems, WellFoundedInduction, TLAPS

-----------------------------------------------------------------------------
(* Numbers and sequences. *)

(* A set of numbers that is not empty has a least one.  (Of the intervals  *)
(* that end before one of them, there is one that has no other inside.)    *)
LEMMA LeastNumber ==
    ASSUME NEW S \in SUBSET Nat, S # {}
    PROVE  Min(S) \in S /\ \A k \in S : Min(S) <= k
<1> DEFINE Below(k) == 0 .. k - 1
           T == {Below(k) : k \in S}
<1>1. T \subseteq FiniteSubsetsOf(Nat)
  <2>1. \A k \in S : IsFiniteSet(Below(k)) /\ Below(k) \subseteq Nat
      BY FS_Interval
  <2>. QED BY <2>1 DEF FiniteSubsetsOf
<1>2. T # {}
    OBVIOUS
<1>3. \E x \in T : \A y \in T : ~ (<<y, x>> \in StrictSubsetOrdering(Nat))
  <2> HIDE DEF T
  <2>. QED BY <1>1, <1>2, WFMin, FS_StrictSubsetOrderingWellFounded
<1>4. PICK k \in S : \A y \in T : ~ (<<y, Below(k)>> \in StrictSubsetOrdering(Nat))
    BY <1>3
<1>5. \A n \in S : k <= n
  <2> SUFFICES ASSUME NEW n \in S, n < k PROVE FALSE
      OBVIOUS
  <2>1. Below(n) \subseteq Below(k) /\ Below(n) # Below(k)
    <3>1. n \in Below(k) /\ n \notin Below(n)
        OBVIOUS
    <3>. QED BY <3>1
  <2>2. Below(n) \in T /\ Below(n) \in SUBSET Nat /\ Below(k) \in SUBSET Nat
      OBVIOUS
  <2> HIDE DEF Below, T
  <2>. QED BY <1>4, <2>1, <2>2 DEF StrictSubsetOrdering
<1>. QED BY <1>5 DEF Min

(* Concatenation under a name that the provers do not take apart.          *)
Cat(s, t) == s \o t

LEMMA SplitSeq ==
    ASSUME NEW S, NEW s \in Seq(S), NEW k \in 0 .. Len(s)
    PROVE  /\ SubSeq(s, 1, k) \in Seq(S) /\ SubSeq(s, k + 1, Len(s)) \in Seq(S)
           /\ Len(SubSeq(s, 1, k)) = k /\ Len(SubSeq(s, k + 1, Len(s))) = Len(s) - k
           /\ Cat(SubSeq(s, 1, k), SubSeq(s, k + 1, Len(s))) = s

<1>1. Len(s) \in Nat
    BY LenProperties
<1>2. \A i \in 1 .. Len(s) : s[i] \in S
    BY ElementOfSeq
<1>3. SubSeq(s, 1, k) \in Seq(S) /\ Len(SubSeq(s, 1, k)) = k
    BY <1>1, <1>2, SubSeqProperties
<1>4. SubSeq(s, k + 1, Len(s)) \in Seq(S) /\ Len(SubSeq(s, k + 1, Len(s))) = Len(s) - k
    BY <1>1, <1>2, SubSeqProperties
<1>5. SubSeq(s, 1, k) \o SubSeq(s, k + 1, Len(s)) = SubSeq(s, 1, Len(s))
  <2>1. 1 \in 1 .. Len(s) + 1 /\ k \in 1 - 1 .. Len(s) /\ Len(s) \in k .. Len(s)
      BY <1>1
  <2>. QED BY <2>1, ConcatAdjacentSubSeq
<1>6. SubSeq(s, 1, Len(s)) = s
    BY SubSeqFull
<1>. QED BY <1>3, <1>4, <1>5, <1>6 DEF Cat

LEMMA CatSeq ==
    ASSUME NEW S, NEW s \in Seq(S), NEW t \in Seq(S)
    PROVE  Cat(s, t) \in Seq(S) /\ Cat(s, <<>>) = s /\ Cat(<<>>, s) = s
BY ConcatProperties, ConcatEmptySeq DEF Cat

LEMMA CatAssociative ==
    ASSUME NEW S, NEW s \in Seq(S), NEW t \in Seq(S), NEW u \in Seq(S)
    PROVE  Cat(Cat(s, t), u) = Cat(s, Cat(t, u))
BY ConcatAssociative DEF Cat

(* Five parts in a row, from the left and from the right.                  *)
InRow(a, b, c, d, e) == Cat(Cat(Cat(Cat(a, b), c), d), e)

LEMMA Regroup ==
    ASSUME NEW S, NEW a \in Seq(S), NEW b \in Seq(S), NEW c \in Seq(S), NEW d \in Seq(S), NEW e \in Seq(S)
    PROVE  InRow(a, b, c, d, e) = Cat(a, Cat(b, Cat(c, Cat(d, e))))
<1>1. /\ Cat(a, b) \in Seq(S) /\ Cat(Cat(a, b), c) \in Seq(S)
      /\ Cat(d, e) \in Seq(S) /\ Cat(c, Cat(d, e)) \in Seq(S)
    BY CatSeq
<1>2. InRow(a, b, c, d, e) = Cat(Cat(Cat(a, b), c), Cat(d, e))
    BY <1>1, CatAssociative DEF InRow
<1>3. Cat(Cat(Cat(a, b), c), Cat(d, e)) = Cat(Cat(a, b), Cat(c, Cat(d, e)))
    BY <1>1, CatAssociative
<1>4. Cat(Cat(a, b), Cat(c, Cat(d, e))) = Cat(a, Cat(b, Cat(c, Cat(d, e))))
    BY <1>1, CatAssociative
<1>. QED BY <1>2, <1>3, <1>4

-----------------------------------------------------------------------------
(* The steps of the other parts: none of them opens a channel, or leads    *)
(* back to the beginning.                                                  *)
NotStreams == AppStep \/ IdlcStep \/ SettingsStep \/ BundlesStep \/ ProxyStep

LEMMA NotStreamsStep ==
    ASSUME NotStreams
    PROVE  UNCHANGED streamVars /\ (stage' = stage \/ stage' \notin {"init", "open"})
<1>1. CASE AppStep
    BY <1>1 DEF AppStep, streamVars, AppNext, RunNext, ParseArguments, InstallHandlers, EnterLoop, Terminate,
                EventThrows, LeaveLoop, Killed, Return
<1>2. CASE SettingsStep
    BY <1>2 DEF SettingsStep, streamVars, SettingsNext, OpenSettings, Answer, EndSetup, Return
<1>3. CASE BundlesStep
    BY <1>3 DEF BundlesStep, streamVars, BundlesNext, OutputIsFile, StartContainer, DestroyApplication, StartMaster,
                TryBundle, EndSearch, ClientMakes, ClientCalls, ClientDrops, Return
<1>4. CASE ProxyStep
    BY <1>4 DEF ProxyStep, streamVars, ProxyNext, StartProxy, OpenListener, NextInterface, Listen, Fails, Return
<1>5. CASE IdlcStep
    BY <1>5 DEF IdlcStep, streamVars, IdlcNext, Begin, OpenInput, Declare, EndInclude, EndInput, ChooseTarget,
                Collect, ProcessNext, ProcessParent, UndefinedParent, MergeParent, Complete, EndLink, WriteResult,
                Exits, Finish, GoOn, Return, LinkFrame, Enter
<1>. QED BY <1>1, <1>2, <1>3, <1>4, <1>5 DEF NotStreams

-----------------------------------------------------------------------------
(* The reader of a channel. *)

Bytes == Range(Message)

ChanT == [kind : {"socket", "ssl", "watched", "pipe"}, active : BOOLEAN, deadline : {"none", "ahead", "passed"},
          buffer : Seq(Bytes), pending : Seq(Bytes)]
WireT == [data : Seq(Bytes), ends : SUBSET Nat, part : BOOLEAN, edge : BOOLEAN, fin : BOOLEAN, notify : BOOLEAN]
Pcs == {"idle", "poll", "count", "decide", "wait", "take", "done"}
TaskT == [pc : Pcs, op : {"none", "get", "peek", "wait", "ask", "read"}, len : Nat, round : 0 .. 2, n : Nat]

StreamTyped ==
    /\ chan \in ChanT
    /\ wire \in WireT
    /\ left \in Seq(Bytes) /\ got \in Seq(Bytes)
    /\ task \in TaskT
    /\ ended \in {"no", "eof", "timeout", "io"}
    /\ stage # "init"

(* Where the SSL records end; the other kinds know nothing of records.     *)
Records ==
    /\ wire.ends \subseteq 1 .. Len(wire.data)
    /\ chan.kind = "ssl" /\ wire.data # <<>> => Len(wire.data) \in wire.ends
    /\ chan.kind # "ssl" => wire.ends = {} /\ ~wire.part /\ ~wire.notify /\ chan.pending = <<>>

Conserved == InRow(got, chan.buffer, chan.pending, wire.data, left) = Message

(* What a call that has come so far knows of the channel.                  *)
Asking ==
    /\ task.pc \in {"poll", "count", "wait"} => chan.pending = <<>>
    /\ Calling /\ task.op \notin {"wait", "ask"} => chan.buffer = <<>> /\ task.op # "none"
    /\ task.pc = "take" => task.n > 0 /\ task.op \in {"get", "peek", "read"}
    /\ task.pc = "wait" => task.n = 0 /\ chan.buffer = <<>>
    /\ task.pc = "decide" /\ task.n = 0 => chan.pending = <<>>

(* An event that is there when nothing was counted tells of something, and *)
(* what arrived since has an event.  A second round follows an event.      *)
Arrived == wire.data # <<>> \/ wire.fin
CountedNothing == task.pc \in {"decide", "wait"} /\ task.n = 0
Events ==
    /\ chan.active /\ InEpoll(chan.kind) =>
          /\ (task.pc = "count" \/ CountedNothing) /\ wire.edge => Arrived
          /\ CountedNothing /\ wire.data # <<>> => wire.edge
    /\ Calling /\ task.round = 2 => InEpoll(chan.kind)
    /\ task.round = 2 /\ task.pc \in {"poll", "count"} => Arrived
    /\ task.round = 2 /\ task.pc = "decide" /\ task.n = 0 => wire.fin /\ wire.data = <<>>

EndedRightly ==
    /\ ended # "no" <=> task.pc = "done"
    /\ ended = "eof" /\ chan.active =>
          /\ wire.fin
          /\ chan.kind # "pipe" => chan.buffer = <<>> /\ chan.pending = <<>> /\ wire.data = <<>>

Reading == StreamTyped /\ Records /\ Conserved /\ Asking /\ Events /\ EndedRightly

Unopened ==
    /\ stage # "open" /\ task = NoTask /\ wire = EmptyWire /\ got = <<>> /\ ended = "no"
    /\ stage = "init" => chan = NewChannel("none")

StreamInv == Unopened \/ Reading

(* A call that moves on keeps its type, and so does one that is over.      *)
LEMMA TaskMoves ==
    ASSUME NEW t \in TaskT, NEW p \in Pcs
    PROVE  /\ [t EXCEPT !.pc = p] \in TaskT /\ [t EXCEPT !.pc = p].pc = p
           /\ [t EXCEPT !.pc = p].op = t.op /\ [t EXCEPT !.pc = p].round = t.round /\ [t EXCEPT !.pc = p].n = t.n
BY DEF TaskT

LEMMA TaskRests ==
    [NoTask EXCEPT !.pc = "idle"] \in TaskT
BY DEF TaskT, Pcs, NoTask

LEMMA EdgeMoves ==
    ASSUME NEW w \in WireT, NEW e \in BOOLEAN
    PROVE  [w EXCEPT !.edge = e] \in WireT
BY DEF WireT

(* Bytes that go from the head of one part to the tail of the one before.  *)
AllIn(S, seqs) == seqs \subseteq Seq(S)

LEMMA MoveFirst ==
    ASSUME NEW S, NEW a, NEW c, NEW d, NEW e, NEW p, NEW q, AllIn(S, {a, c, d, e, p, q})
    PROVE  InRow(Cat(a, p), q, c, d, e) = InRow(a, Cat(p, q), c, d, e)
<1>1. Cat(Cat(a, p), q) = Cat(a, Cat(p, q))
    BY CatAssociative DEF AllIn
<1>. QED BY <1>1 DEF InRow

LEMMA MoveMiddle ==
    ASSUME NEW S, NEW a, NEW c, NEW d, NEW e, NEW x, NEW y, NEW q, NEW r,
           AllIn(S, {a, c, d, e, x, y, q, r}), Cat(c, d) = Cat(Cat(Cat(x, y), q), r)
    PROVE  InRow(Cat(a, x), y, q, r, e) = InRow(a, <<>>, c, d, e)
<1>0. /\ a \in Seq(S) /\ c \in Seq(S) /\ d \in Seq(S) /\ x \in Seq(S) /\ y \in Seq(S) /\ q \in Seq(S) /\ r \in Seq(S)
    BY DEF AllIn
<1>1. Cat(x, y) \in Seq(S) /\ Cat(Cat(x, y), q) \in Seq(S)
    BY <1>0, CatSeq
<1>2. Cat(Cat(a, x), y) = Cat(a, Cat(x, y))
    BY <1>0, CatAssociative
<1>3. Cat(Cat(a, Cat(x, y)), q) = Cat(a, Cat(Cat(x, y), q))
    BY <1>0, <1>1, CatAssociative
<1>4. Cat(Cat(a, Cat(Cat(x, y), q)), r) = Cat(a, Cat(c, d))
    BY <1>0, <1>1, CatAssociative
<1>5. Cat(Cat(Cat(a, <<>>), c), d) = Cat(a, Cat(c, d))
    BY <1>0, CatSeq, CatAssociative
<1>. QED BY <1>2, <1>3, <1>4, <1>5 DEF InRow

LEMMA MoveLast ==
    ASSUME NEW S, NEW a, NEW b, NEW c, NEW d, NEW p, NEW q, AllIn(S, {a, b, c, d, p, q})
    PROVE  InRow(a, b, c, Cat(d, p), q) = InRow(a, b, c, d, Cat(p, q))
<1>0. /\ a \in Seq(S) /\ b \in Seq(S) /\ c \in Seq(S) /\ d \in Seq(S) /\ p \in Seq(S) /\ q \in Seq(S)
    BY DEF AllIn
<1>1. Cat(Cat(d, p), q) = Cat(d, Cat(p, q))
    BY <1>0, CatAssociative
<1>2. Cat(d, p) \in Seq(S) /\ Cat(p, q) \in Seq(S)
    BY <1>0, CatSeq
<1>3. InRow(a, b, c, Cat(d, p), q) = Cat(a, Cat(b, Cat(c, Cat(Cat(d, p), q))))
    BY <1>0, <1>2, Regroup
<1>4. InRow(a, b, c, d, Cat(p, q)) = Cat(a, Cat(b, Cat(c, Cat(d, Cat(p, q)))))
    BY <1>0, <1>2, Regroup
<1>. QED BY <1>1, <1>3, <1>4

(* What s_read() gets and leaves is what was there, in order.              *)
LEMMA SReadKeeps ==
    ASSUME StreamTyped, Records, chan.pending # <<>> \/ wire.data # <<>>, NEW k \in Nat
    PROVE  LET r == SRead(k)
           IN  /\ r.bytes \in Seq(Bytes) /\ r.pending \in Seq(Bytes) /\ r.data \in Seq(Bytes)
               /\ Cat(chan.pending, wire.data) = Cat(Cat(r.bytes, r.pending), r.data)
               /\ (k > 0 => Len(r.bytes) > 0) /\ Len(r.bytes) <= k
               /\ r.ends \subseteq 1 .. Len(r.data)
               /\ chan.kind = "ssl" /\ r.data # <<>> => Len(r.data) \in r.ends
               /\ chan.kind # "ssl" => r.ends = {} /\ r.pending = <<>>
<1> DEFINE data == wire.data
           ends == wire.ends
           pending == chan.pending
           cut == IF chan.kind = "ssl" THEN Min(ends) ELSE Len(data)
           record == SubSeq(data, 1, cut)
           source == IF pending # <<>> THEN pending ELSE record
           m == Smaller(k, Len(source))
           gone == CASE pending # <<>> -> 0
                     [] pending = <<>> /\ chan.kind = "ssl" -> Len(record)
                     [] OTHER -> m
           r == SRead(k)
<1>1. data \in Seq(Bytes) /\ pending \in Seq(Bytes) /\ Len(data) \in Nat /\ ends \subseteq 1 .. Len(data)
    BY DEF StreamTyped, ChanT, WireT, TaskT, Pcs, Records
<1>2. /\ r.bytes = SubSeq(source, 1, m)
      /\ r.pending = IF chan.kind = "ssl" THEN SubSeq(source, m + 1, Len(source)) ELSE <<>>
      /\ r.data = SubSeq(data, gone + 1, Len(data))
      /\ r.ends = {e - gone : e \in {e \in ends : e > gone}}
    BY DEF SRead
<1>3. CASE pending # <<>>
  <2>1. source = pending /\ gone = 0
      BY <1>3
  <2>4. chan.kind = "ssl"
      BY <1>3 DEF Records, StreamTyped, ChanT, WireT, TaskT, Pcs
  <2>5. Len(pending) \in Nat \ {0}
      BY <1>1, <1>3, EmptySeq
  <2>6. m \in 0 .. Len(pending) /\ (k > 0 => m > 0) /\ m <= k
      BY <2>1, <2>5 DEF Smaller
  <2> HIDE DEF record, source, m, gone, cut, r, data, ends
  <2>2. r.data = data
    <3>1. r.data = SubSeq(data, 1, Len(data))
        BY <1>2, <2>1
    <3>. QED BY <1>1, <3>1, SubSeqFull
  <2>3. r.ends = ends
    <3>1. \A e \in ends : e - 0 = e /\ e > 0
        BY <1>1
    <3>. QED BY <1>2, <2>1, <3>1
  <2>7. /\ r.bytes \in Seq(Bytes) /\ r.pending \in Seq(Bytes) /\ Len(r.bytes) = m
        /\ Cat(r.bytes, r.pending) = pending
    <3>1. r.bytes = SubSeq(pending, 1, m) /\ r.pending = SubSeq(pending, m + 1, Len(pending))
        BY <1>2, <2>1, <2>4
    <3> HIDE DEF pending
    <3>2. pending \in Seq(Bytes) /\ m \in 0 .. Len(pending)
        BY <1>1, <2>6
    <3>3. /\ SubSeq(pending, 1, m) \in Seq(Bytes) /\ SubSeq(pending, m + 1, Len(pending)) \in Seq(Bytes)
          /\ Len(SubSeq(pending, 1, m)) = m
          /\ Cat(SubSeq(pending, 1, m), SubSeq(pending, m + 1, Len(pending))) = pending
        BY <3>2, SplitSeq
    <3>. QED BY <3>1, <3>3
  <2>. QED BY <1>1, <2>2, <2>3, <2>4, <2>6, <2>7 DEF Records, data, ends, r
<1>4. CASE pending = <<>> /\ chan.kind = "ssl"
  <2>1. Len(data) \in ends /\ ends \subseteq Nat
      BY <1>1, <1>4 DEF Records
  <2>2. Min(ends) \in ends /\ \A e \in ends : Min(ends) <= e
      BY <2>1, LeastNumber
  <2>3. cut \in 1 .. Len(data)
      BY <1>1, <1>4, <2>2
  <2>4. /\ record \in Seq(Bytes) /\ Len(record) = cut /\ SubSeq(data, cut + 1, Len(data)) \in Seq(Bytes)
        /\ Len(SubSeq(data, cut + 1, Len(data))) = Len(data) - cut
        /\ Cat(record, SubSeq(data, cut + 1, Len(data))) = data
    <3>1. record = SubSeq(data, 1, cut)
        OBVIOUS
    <3>2. data \in Seq(Bytes) /\ cut \in 0 .. Len(data)
        BY <1>1, <2>3
    <3> HIDE DEF record, data, cut
    <3>3. /\ SubSeq(data, 1, cut) \in Seq(Bytes) /\ SubSeq(data, cut + 1, Len(data)) \in Seq(Bytes)
          /\ Len(SubSeq(data, 1, cut)) = cut /\ Len(SubSeq(data, cut + 1, Len(data))) = Len(data) - cut
          /\ Cat(SubSeq(data, 1, cut), SubSeq(data, cut + 1, Len(data))) = data
        BY <3>2, SplitSeq
    <3>. QED BY <3>1, <3>3
  <2>5. source = record /\ gone = cut
      BY <1>4, <2>4
  <2>6. m \in 0 .. Len(record) /\ (k > 0 => m > 0) /\ m <= k
      BY <2>3, <2>4, <2>5 DEF Smaller
  <2> HIDE DEF record, source, m, gone, cut
  <2>7. /\ r.bytes \in Seq(Bytes) /\ r.pending \in Seq(Bytes) /\ Len(r.bytes) = m
        /\ Cat(r.bytes, r.pending) = record
      BY <1>2, <1>4, <2>4, <2>5, <2>6, SplitSeq
  <2>8. r.data = SubSeq(data, cut + 1, Len(data))
      BY <1>2, <2>5
  <2>9. Cat(pending, data) = data
      BY <1>1, <1>4, CatSeq
  <2>10. r.ends = {e - cut : e \in {e \in ends : e > cut}}
      BY <1>2, <2>5
  <2>11. r.ends \subseteq 1 .. Len(r.data)
    <3>1. Len(r.data) = Len(data) - cut
        BY <2>4, <2>8
    <3> HIDE DEF r, ends, data
    <3>. QED BY <1>1, <2>3, <2>10, <3>1
  <2>12. r.data # <<>> => Len(r.data) \in r.ends
    <3> SUFFICES ASSUME r.data # <<>> PROVE Len(r.data) \in r.ends
        OBVIOUS
    <3>1. Len(r.data) > 0 /\ Len(r.data) = Len(data) - cut
        BY <2>4, <2>8, EmptySeq
    <3> HIDE DEF r, ends, data
    <3>. QED BY <1>1, <2>1, <2>3, <2>10, <3>1
  <2>. QED BY <1>4, <2>4, <2>6, <2>7, <2>8, <2>9, <2>11, <2>12
<1>5. CASE pending = <<>> /\ chan.kind # "ssl"
  <2>1. data # <<>> /\ ends = {}
      BY <1>5 DEF Records
  <2>2. record = data /\ source = data
      BY <1>1, <1>5, SubSeqFull
  <2>3. Len(data) > 0
      BY <1>1, <2>1, EmptySeq
  <2>4. m \in 0 .. Len(data) /\ (k > 0 => m > 0) /\ m <= k /\ gone = m
      BY <1>1, <1>5, <2>2, <2>3 DEF Smaller
  <2> HIDE DEF record, source, m, gone, cut
  <2>5. /\ r.bytes \in Seq(Bytes) /\ r.data \in Seq(Bytes) /\ Len(r.bytes) = m
        /\ Cat(r.bytes, r.data) = data
      BY <1>1, <1>2, <2>2, <2>4, SplitSeq
  <2>6. r.pending = <<>> /\ r.ends = {}
      BY <1>2, <1>5, <2>1
  <2>7. Cat(pending, data) = data /\ Cat(r.bytes, r.pending) = r.bytes
      BY <1>1, <1>5, <2>5, <2>6, CatSeq
  <2>. QED BY <1>5, <2>4, <2>5, <2>6, <2>7, EmptySeq
<1>. QED BY <1>3, <1>4, <1>5

(* The other end and the clock. *)
LEMMA PeerStep ==
    ASSUME Reading, PeerWrites \/ PartArrives \/ PeerCloses \/ CloseElsewhere \/ DeadlinePasses \/ SetDeadline
    PROVE  Reading'
<1> USE DEF Reading
<1>1. CASE PeerWrites
  <2>1. PICK k \in DOMAIN left :
          /\ wire' = [wire EXCEPT !.data = @ \o SubSeq(left, 1, k), !.part = FALSE, !.edge = TRUE,
                                  !.ends = IF chan.kind = "ssl" THEN @ \cup {Len(wire.data) + k} ELSE @]
          /\ left' = SubSeq(left, k + 1, Len(left))
      BY <1>1 DEF PeerWrites
  <2>2. /\ left \in Seq(Bytes) /\ wire.data \in Seq(Bytes) /\ Len(wire.data) \in Nat /\ got \in Seq(Bytes)
        /\ chan.buffer \in Seq(Bytes) /\ chan.pending \in Seq(Bytes) /\ k \in 1 .. Len(left)
      BY DEF StreamTyped, ChanT, WireT, TaskT, Pcs
  <2> DEFINE p == SubSeq(left, 1, k)
             q == SubSeq(left, k + 1, Len(left))
  <2>3. p \in Seq(Bytes) /\ q \in Seq(Bytes) /\ Len(p) = k /\ Cat(p, q) = left
      BY <2>2, SplitSeq
  <2>4. UNCHANGED <<stage, chan, task, got, ended>> /\ ~wire.fin /\ stage = "open"
      BY <1>1 DEF PeerWrites, AppFrame, appVars
  <2>5. wire'.data = Cat(wire.data, p) /\ left' = q
      BY <2>1 DEF Cat, StreamTyped, ChanT, WireT, TaskT, Pcs
  <2> HIDE DEF p, q
  <2>6. wire'.data \in Seq(Bytes) /\ Len(wire'.data) = Len(wire.data) + k /\ wire'.data # <<>>
    <3>1. Cat(wire.data, p) \in Seq(Bytes) /\ Len(Cat(wire.data, p)) = Len(wire.data) + Len(p)
        BY <2>2, <2>3, ConcatProperties DEF Cat
    <3>. QED BY <2>2, <2>3, <2>5, <3>1, EmptySeq
  <2>7. /\ wire'.ends = IF chan.kind = "ssl" THEN wire.ends \cup {Len(wire.data) + k} ELSE wire.ends
        /\ wire'.fin = FALSE /\ wire'.notify = wire.notify /\ wire'.part = FALSE /\ wire'.edge = TRUE
      BY <2>1, <2>4 DEF StreamTyped, ChanT, WireT, TaskT, Pcs
  <2>8. wire' = [wire EXCEPT !.data = Cat(wire.data, p), !.part = FALSE, !.edge = TRUE,
                             !.ends = IF chan.kind = "ssl" THEN wire.ends \cup {Len(wire.data) + k} ELSE wire.ends]
      BY <2>1 DEF Cat, p
  <2>9. StreamTyped'
    <3>1. /\ Cat(wire.data, p) \in Seq(Bytes)
          /\ (IF chan.kind = "ssl" THEN wire.ends \cup {Len(wire.data) + k} ELSE wire.ends) \in SUBSET Nat
        BY <2>2, <2>3, CatSeq DEF StreamTyped, ChanT, WireT, TaskT, Pcs
    <3>2. wire' \in WireT
        BY <2>8, <3>1 DEF StreamTyped, ChanT, WireT, TaskT, Pcs
    <3>. QED BY <2>3, <2>4, <2>5, <3>2 DEF StreamTyped
  <2>10. Records'
    <3>1. Len(wire.data) \in Nat /\ wire.ends \in SUBSET Nat
        BY <2>3, EmptySeq DEF StreamTyped, WireT
    <3>. QED BY <2>2, <2>4, <2>6, <2>7, <3>1 DEF Records
  <2>11. Conserved'
    <3>1. InRow(got, chan.buffer, chan.pending, Cat(wire.data, p), q)
              = InRow(got, chan.buffer, chan.pending, wire.data, Cat(p, q))
      <4>1. AllIn(Bytes, {got, chan.buffer, chan.pending, wire.data, p, q})
          BY <2>2, <2>3 DEF AllIn
      <4>. QED BY <4>1, MoveLast
    <3>. QED BY <2>3, <2>4, <2>5, <3>1 DEF Conserved
  <2>12. Asking' /\ Events' /\ EndedRightly'
      BY <2>4, <2>6, <2>7 DEF Asking, Events, EndedRightly, Arrived, CountedNothing, Calling, InEpoll
  <2>. QED BY <2>9, <2>10, <2>11, <2>12
<1>2. CASE PartArrives
  <2>1. StreamTyped'
      BY <1>2 DEF PartArrives, AppFrame, appVars, StreamTyped, ChanT, WireT, TaskT, Pcs
  <2>2. Records'
      BY <1>2 DEF PartArrives, AppFrame, appVars, StreamTyped, ChanT, WireT, TaskT, Pcs, Records
  <2>3. Conserved'
      BY <1>2 DEF PartArrives, AppFrame, appVars, StreamTyped, ChanT, WireT, TaskT, Pcs, Conserved
  <2>4. Asking'
      BY <1>2 DEF PartArrives, AppFrame, appVars, StreamTyped, ChanT, WireT, TaskT, Pcs, Asking, Calling
  <2>5. Events'
      BY <1>2 DEF PartArrives, AppFrame, appVars, StreamTyped, ChanT, WireT, TaskT, Pcs, Records, Asking, Events, Arrived, CountedNothing, Calling, InEpoll
  <2>6. EndedRightly'
      BY <1>2 DEF PartArrives, AppFrame, appVars, StreamTyped, ChanT, WireT, TaskT, Pcs, Records, Asking, EndedRightly, Calling, InEpoll
  <2>. QED BY <2>1, <2>2, <2>3, <2>4, <2>5, <2>6
<1>3. CASE PeerCloses
  <2>1. StreamTyped'
    <3>1. PICK notify \in BOOLEAN : wire' = [wire EXCEPT !.fin = TRUE, !.edge = TRUE, !.notify = notify]
        BY <1>3 DEF PeerCloses
    <3>2. UNCHANGED <<stage, chan, left, task, got, ended>>
        BY <1>3 DEF PeerCloses, AppFrame, appVars
    <3>3. wire' \in WireT
        BY <3>1 DEF StreamTyped, ChanT, WireT, TaskT, Pcs
    <3>. QED BY <3>2, <3>3 DEF StreamTyped
  <2>2. Records'
      BY <1>3 DEF PeerCloses, AppFrame, appVars, StreamTyped, ChanT, WireT, TaskT, Pcs, Records
  <2>3. Conserved'
      BY <1>3 DEF PeerCloses, AppFrame, appVars, StreamTyped, ChanT, WireT, TaskT, Pcs, Conserved
  <2>4. Asking'
      BY <1>3 DEF PeerCloses, AppFrame, appVars, StreamTyped, ChanT, WireT, TaskT, Pcs, Asking, Calling
  <2>5. Events'
      BY <1>3 DEF PeerCloses, AppFrame, appVars, StreamTyped, ChanT, WireT, TaskT, Pcs, Records, Asking, Events, Arrived, CountedNothing, Calling, InEpoll
  <2>6. EndedRightly'
      BY <1>3 DEF PeerCloses, AppFrame, appVars, StreamTyped, ChanT, WireT, TaskT, Pcs, Records, Asking, EndedRightly, Calling, InEpoll
  <2>. QED BY <2>1, <2>2, <2>3, <2>4, <2>5, <2>6
<1>4. CASE CloseElsewhere \/ DeadlinePasses \/ SetDeadline
  <2>1. /\ \/ chan' = [chan EXCEPT !.active = FALSE]
           \/ chan' = [chan EXCEPT !.deadline = "passed"]
           \/ chan' = [chan EXCEPT !.deadline = "ahead"]
        /\ UNCHANGED <<stage, wire, left, task, got, ended>>
      BY <1>4 DEF CloseElsewhere, DeadlinePasses, SetDeadline, AppFrame, appVars
  <2>2. chan \in ChanT
      BY DEF StreamTyped
  <2>3. /\ chan' \in ChanT /\ chan'.kind = chan.kind /\ chan'.buffer = chan.buffer /\ chan'.pending = chan.pending
        /\ chan'.active \in {chan.active, FALSE}
      BY <2>1, <2>2 DEF ChanT
  <2>4. StreamTyped' /\ Records' /\ Conserved' /\ Asking'
      BY <2>1, <2>3 DEF StreamTyped, Records, Conserved, Asking, Calling
  <2>5. Events' /\ EndedRightly'
      BY <2>1, <2>3 DEF Events, Arrived, CountedNothing, EndedRightly, Calling, InEpoll
  <2>. QED BY <2>4, <2>5
<1>. QED BY <1>1, <1>2, <1>3, <1>4

(* The call asks again, or for the first time. *)
LEMMA AskTyped ==
    ASSUME Reading, NEW round \in 1 .. 2
    PROVE  /\ Ask(round) = [task EXCEPT !.pc = Ask(round).pc, !.round = round, !.n = Len(chan.pending)]
           /\ Ask(round) \in [pc : {"poll", "decide"}, op : {task.op}, len : {task.len}, round : {round},
                              n : {Len(chan.pending)}]
           /\ Ask(round).pc = "poll" <=> chan.pending = <<>>
           /\ Ask(round).pc = "decide" => Len(chan.pending) > 0
           /\ Len(chan.pending) \in Nat
<1>1. chan.pending \in Seq(Bytes)
    BY DEF Reading, StreamTyped, ChanT, WireT, TaskT, Pcs
<1>2. Len(chan.pending) \in Nat /\ (chan.pending # <<>> => Len(chan.pending) > 0)
    BY <1>1, EmptySeq
<1>3. SAvailable[1] = "poll"
    BY DEF SAvailable
<1>. QED BY <1>2, <1>3 DEF Ask, Reading, StreamTyped, ChanT, WireT, TaskT, Pcs

(* Calls, from the buffer or the channel. *)
LEMMA CallStep ==
    ASSUME Reading, Call
    PROVE  Reading'
<1> USE DEF Reading
<1>1. PICK call \in {[op |-> op, len |-> 0] : op \in {"get", "peek", "wait", "ask"}}
                    \cup {[op |-> "read", len |-> len] : len \in {1, Len(Message)}} :
          IF chan.buffer # <<>> /\ call.op \notin {"wait", "ask"}
          THEN FromBuffer(chan.buffer, call.op, call.len) /\ UNCHANGED task
          ELSE task' = [Ask(1) EXCEPT !.op = call.op, !.len = call.len] /\ UNCHANGED <<chan, got>>
    BY DEF Call
<1>2. call.op \in {"get", "peek", "wait", "ask", "read"} /\ call.len \in Nat
  <2>1. Message \in Seq(Bytes)
      BY StreamAssumption DEF Bytes
  <2>. QED BY <2>1
<1>3. UNCHANGED <<stage, wire, left, ended>> /\ task.pc = "idle"
    BY DEF Call, AppFrame, appVars
<1>4. CASE chan.buffer # <<>> /\ call.op \notin {"wait", "ask"}
  <2>1. FromBuffer(chan.buffer, call.op, call.len) /\ UNCHANGED task
      BY <1>1, <1>4
  <2> DEFINE b == chan.buffer
             t == Taken(b, call.op, call.len)
             p == SubSeq(b, 1, t)
             q == SubSeq(b, t + 1, Len(b))
  <2>2. got' = Cat(got, p) /\ chan' = [chan EXCEPT !.buffer = q]
      BY <2>1 DEF FromBuffer, Rest, Cat
  <2>3. b \in Seq(Bytes) /\ Len(b) \in Nat /\ Len(b) > 0 /\ got \in Seq(Bytes) /\ chan.pending \in Seq(Bytes)
        /\ wire.data \in Seq(Bytes) /\ left \in Seq(Bytes)
    <3>1. b \in Seq(Bytes)
        BY DEF StreamTyped, ChanT, WireT, TaskT, Pcs
    <3>. QED BY <1>4, <3>1, EmptySeq DEF StreamTyped, ChanT, WireT, TaskT, Pcs
  <2>4. t \in 0 .. Len(b)
      BY <1>2, <2>3 DEF Taken, Smaller
  <2> HIDE DEF b, t
  <2>5. p \in Seq(Bytes) /\ q \in Seq(Bytes) /\ Cat(p, q) = b
      BY <2>3, <2>4, SplitSeq
  <2> HIDE DEF p, q
  <2>6. Cat(got, p) \in Seq(Bytes)
      BY <2>3, <2>5, CatSeq
  <2>7. Conserved'
    <3>1. InRow(Cat(got, p), q, chan.pending, wire.data, left) = InRow(got, Cat(p, q), chan.pending, wire.data, left)
      <4>1. AllIn(Bytes, {got, chan.pending, wire.data, left, p, q})
          BY <2>3, <2>5 DEF AllIn
      <4>. QED BY <4>1, MoveFirst
    <3>2. chan'.buffer = q /\ chan'.pending = chan.pending
        BY <2>2 DEF StreamTyped, ChanT, WireT, TaskT, Pcs
    <3>. QED BY <1>3, <2>2, <2>5, <3>1, <3>2 DEF Conserved, b
  <2>8. StreamTyped'
      BY <1>3, <2>1, <2>2, <2>5, <2>6 DEF StreamTyped, ChanT, WireT, TaskT, Pcs
  <2>. QED BY <1>3, <2>1, <2>2, <2>7, <2>8 DEF StreamTyped, ChanT, WireT, TaskT, Pcs, Records, Asking, Events, EndedRightly, Arrived,
              CountedNothing, Calling, InEpoll
<1>5. CASE ~(chan.buffer # <<>> /\ call.op \notin {"wait", "ask"})
  <2>1. task' = [Ask(1) EXCEPT !.op = call.op, !.len = call.len] /\ UNCHANGED <<chan, got>>
      BY <1>1, <1>5
  <2>2. /\ task' \in [pc : {"poll", "decide"}, op : {call.op}, len : {call.len}, round : {1}, n : {Len(chan.pending)}]
        /\ task'.pc = "poll" <=> chan.pending = <<>>
        /\ task'.pc = "decide" => task'.n > 0
        /\ Len(chan.pending) \in Nat
    <3>1. /\ Ask(1) \in [pc : {"poll", "decide"}, op : {task.op}, len : {task.len}, round : {1}, n : {Len(chan.pending)}]
          /\ Ask(1).pc = "poll" <=> chan.pending = <<>>
          /\ Ask(1).pc = "decide" => Len(chan.pending) > 0
          /\ Len(chan.pending) \in Nat
        BY AskTyped
    <3>. QED BY <2>1, <3>1
  <2>11. StreamTyped'
      BY <1>2, <1>3, <1>5, <2>1, <2>2 DEF StreamTyped, ChanT, WireT, TaskT, Pcs
  <2>12. Records'
      BY <1>2, <1>3, <1>5, <2>1, <2>2 DEF StreamTyped, ChanT, WireT, TaskT, Pcs, Records
  <2>13. Conserved'
      BY <1>2, <1>3, <1>5, <2>1, <2>2 DEF StreamTyped, ChanT, WireT, TaskT, Pcs, Conserved
  <2>3. /\ task'.pc \in {"poll", "decide"} /\ task'.op = call.op /\ task'.round = 1 /\ task'.n = Len(chan.pending)
        /\ task'.pc = "poll" <=> chan.pending = <<>>
        /\ task'.pc = "decide" => task'.n > 0
      BY <2>2
  <2>14. Asking'
      BY <1>2, <1>5, <2>1, <2>3 DEF Asking, Calling
  <2>15. Events'
      BY <1>2, <1>3, <2>1, <2>3 DEF Events, Arrived, CountedNothing, Calling, InEpoll
  <2>16. EndedRightly'
      BY <1>2, <1>3, <1>5, <2>1, <2>2 DEF StreamTyped, ChanT, WireT, TaskT, Pcs, Records, Asking, EndedRightly, Calling, InEpoll
  <2>. QED BY <2>11, <2>12, <2>13, <2>14, <2>15, <2>16
<1>. QED BY <1>4, <1>5

(* available(): the event, the count, the answer and the wait.             *)
LEMMA PollStep ==
    ASSUME Reading, Poll
    PROVE  Reading'
<1>0. After("poll") = "count"
    BY DEF After, SAvailable, Last
<1> USE DEF Reading
<1>1. StreamTyped'
  <2>1. PICK edge \in BOOLEAN : wire' = [wire EXCEPT !.edge = edge]
      BY DEF Poll
  <2>2. wire' \in WireT
      BY <2>1, EdgeMoves DEF StreamTyped
  <2>3. /\ \/ task' = [task EXCEPT !.pc = "done"] /\ ended' = "eof"
           \/ task' = [task EXCEPT !.pc = "count"] /\ ended' = ended
        /\ UNCHANGED <<stage, chan, left, got>>
      BY <1>0 DEF Poll, AppFrame, appVars, Fail
  <2>4. task' \in TaskT
    <3>1. task \in TaskT /\ "done" \in Pcs /\ "count" \in Pcs
        BY DEF StreamTyped, Pcs
    <3>. QED BY <2>3, <3>1, TaskMoves
  <2>. QED BY <2>2, <2>3, <2>4 DEF StreamTyped
<1>2. Records'
    BY <1>0 DEF Poll, AppFrame, appVars, Event, HangUp, Fail, StreamTyped, ChanT, WireT, TaskT, Pcs, Records
<1>3. Conserved'
    BY <1>0 DEF Poll, AppFrame, appVars, Event, HangUp, Fail, StreamTyped, ChanT, WireT, TaskT, Pcs, Conserved
<1>4. Asking'
    BY <1>0 DEF Poll, AppFrame, appVars, Event, HangUp, Fail, StreamTyped, ChanT, WireT, TaskT, Pcs, Asking, Calling
<1>5. Events'
    BY <1>0 DEF Poll, AppFrame, appVars, Event, HangUp, Fail, StreamTyped, ChanT, WireT, TaskT, Pcs, Records, Asking, Events, Arrived, CountedNothing, Calling, InEpoll
<1>6. EndedRightly'
    BY <1>0 DEF Poll, AppFrame, appVars, Event, HangUp, Fail, StreamTyped, ChanT, WireT, TaskT, Pcs, Records, Asking, EndedRightly, Calling, InEpoll
<1>. QED BY <1>1, <1>2, <1>3, <1>4, <1>5, <1>6 DEF Reading

LEMMA CountStep ==
    ASSUME Reading, Count
    PROVE  Reading'
<1>7. After("count") = "decide"
    BY DEF After, SAvailable, Last
<1>8. Len(wire.data) \in Nat /\ (Len(wire.data) = 0 => wire.data = <<>>)
  <2>1. wire.data \in Seq(Bytes)
      BY DEF Reading, StreamTyped, ChanT, WireT, TaskT, Pcs
  <2>. QED BY <2>1, EmptySeq
<1>9. Cardinality(wire.ends) \in Nat
  <2>1. IsFiniteSet(1 .. Len(wire.data)) /\ wire.ends \subseteq 1 .. Len(wire.data)
      BY <1>8, FS_Interval DEF Reading, Records
  <2>. QED BY <2>1, FS_Subset, FS_CardinalityType
<1>10. FionRead \in Nat /\ (FionRead = 0 => wire.data = <<>>)
    BY <1>8, <1>9 DEF FionRead, B2N
<1> USE DEF Reading
<1>1. StreamTyped'
  <2>1. UNCHANGED <<stage, chan, wire, left, got>>
      BY DEF Count, AppFrame, appVars
  <2>2. CASE chan.active
    <3>1. task' = [task EXCEPT !.n = FionRead, !.pc = "decide"] /\ ended' = ended
        BY <1>7, <2>2 DEF Count
    <3>2. task' \in TaskT
        BY <1>10, <3>1 DEF StreamTyped, TaskT, Pcs
    <3>. QED BY <2>1, <3>1, <3>2 DEF StreamTyped
  <2>3. CASE ~chan.active
    <3>1. Fail("io")
        BY <2>3 DEF Count
    <3>. QED BY <2>1, <3>1, TaskMoves DEF Fail, StreamTyped, Pcs
  <2>. QED BY <2>2, <2>3
<1>2. Records'
    BY <1>7, <1>10 DEF Count, AppFrame, appVars, Fail, StreamTyped, ChanT, WireT, TaskT, Pcs, Records
<1>3. Conserved'
    BY <1>7, <1>10 DEF Count, AppFrame, appVars, Fail, StreamTyped, ChanT, WireT, TaskT, Pcs, Conserved
<1>4. Asking'
    BY <1>7, <1>10 DEF Count, AppFrame, appVars, Fail, StreamTyped, ChanT, WireT, TaskT, Pcs, Asking, Calling
<1>5. Events'
  <2>1. UNCHANGED <<chan, wire>> /\ task.pc = "count"
      BY DEF Count
  <2>2. CASE chan.active
    <3>1. task' = [task EXCEPT !.n = FionRead, !.pc = "decide"]
        BY <1>7, <2>2 DEF Count
    <3>2. task'.n = FionRead /\ task'.pc = "decide" /\ task'.round = task.round
        BY <3>1 DEF StreamTyped, ChanT, WireT, TaskT, Pcs
    <3>. QED BY <1>10, <2>1, <3>2 DEF Events, Arrived, CountedNothing, Calling, InEpoll
  <2>3. CASE ~chan.active
      BY <2>1, <2>3 DEF Count, Fail, StreamTyped, ChanT, WireT, TaskT, Pcs, Events, Arrived, CountedNothing, Calling, InEpoll
  <2>. QED BY <2>2, <2>3
<1>6. EndedRightly'
    BY <1>7, <1>10 DEF Count, AppFrame, appVars, Fail, StreamTyped, ChanT, WireT, TaskT, Pcs, Records, Asking, EndedRightly, Calling, InEpoll
<1>. QED BY <1>1, <1>2, <1>3, <1>4, <1>5, <1>6 DEF Reading

LEMMA DecideStep ==
    ASSUME Reading, Decide
    PROVE  Reading'
<1>1. Len(chan.buffer) \in Nat /\ (Len(chan.buffer) = 0 <=> chan.buffer = <<>>)
  <2>1. chan.buffer \in Seq(Bytes)
      BY DEF Reading, StreamTyped, ChanT, WireT, TaskT, Pcs
  <2>. QED BY <2>1, EmptySeq
<1>2. task.n \in Nat
    BY DEF Reading, StreamTyped, ChanT, WireT, TaskT, Pcs
<1> USE DEF Reading
<1>3. task.pc = "decide" /\ UNCHANGED <<stage, chan, wire, left, got>>
    BY DEF Decide, AppFrame, appVars
<1>4. Records' /\ Conserved'
    BY <1>3 DEF Records, Conserved
<1>5. CASE task' = [NoTask EXCEPT !.pc = "idle"] /\ ended' = ended
  <2>1. StreamTyped'
      BY <1>3, <1>5, TaskRests DEF StreamTyped
  <2>2. task'.pc = "idle" /\ task'.round = 0
      BY <1>5 DEF NoTask
  <2>. QED BY <1>3, <1>4, <1>5, <2>1, <2>2 DEF Asking, Events, EndedRightly, CountedNothing, Calling
<1>6. CASE /\ task.op # "ask" /\ task.n + Len(chan.buffer) = 0
           /\ IF HasWaited THEN Fail("eof") ELSE task' = [task EXCEPT !.pc = "wait"] /\ ended' = ended
  <2>1. task.n = 0 /\ chan.buffer = <<>>
      BY <1>1, <1>2, <1>6
  <2>3. task' \in TaskT /\ task'.pc \in {"wait", "done"} /\ task'.op = task.op /\ task'.round = task.round /\ task'.n = task.n
    <3>1. task \in TaskT /\ "done" \in Pcs /\ "wait" \in Pcs
        BY DEF StreamTyped, Pcs
    <3>2. \/ task' = [task EXCEPT !.pc = "done"]
          \/ task' = [task EXCEPT !.pc = "wait"]
        BY <1>6 DEF Fail
    <3>3. CASE task' = [task EXCEPT !.pc = "done"]
        BY <3>1, <3>3, TaskMoves
    <3>4. CASE task' = [task EXCEPT !.pc = "wait"]
        BY <3>1, <3>4, TaskMoves
    <3>. QED BY <3>2, <3>3, <3>4
  <2>2. StreamTyped'
    <3>1. ended' = ended \/ ended' = "eof"
        BY <1>6 DEF Fail
    <3>. QED BY <1>3, <2>3, <3>1 DEF StreamTyped
  <2>4. task'.pc = "done" => HasWaited /\ ended' = "eof"
      BY <1>6, TaskMoves DEF StreamTyped, Pcs, Fail
  <2>5. task'.pc = "wait" => ended' = ended
      BY <1>6, TaskMoves DEF StreamTyped, Pcs, Fail
  <2>6. Asking' /\ Events'
      BY <1>3, <2>1, <2>3 DEF Asking, Events, Arrived, CountedNothing, Calling, InEpoll
  <2>7. EndedRightly'
      BY <1>3, <2>1, <2>3, <2>4, <2>5 DEF HasWaited, Asking, Events, EndedRightly
  <2>. QED BY <1>4, <2>2, <2>6, <2>7
<1>7. CASE /\ task.op # "ask" /\ ~ (task.op = "wait" /\ task.n + Len(chan.buffer) > 0) /\ task.n + Len(chan.buffer) # 0
           /\ task' = [task EXCEPT !.pc = "take"] /\ ended' = ended
  <2>1. StreamTyped'
      BY <1>3, <1>7, TaskMoves DEF StreamTyped, Pcs
  <2>2. task.op \in {"get", "peek", "read"}
      BY <1>1, <1>2, <1>3, <1>7 DEF StreamTyped, ChanT, WireT, TaskT, Pcs, Asking, Calling
  <2>3. chan.buffer = <<>> /\ task.n > 0
      BY <1>1, <1>2, <1>3, <1>7, <2>2 DEF Asking, Calling
  <2>4. Asking' /\ Events' /\ EndedRightly'
    <3>1. task'.pc = "take" /\ task'.op = task.op /\ task'.round = task.round /\ task'.n = task.n
        BY <1>7, TaskMoves DEF StreamTyped, Pcs
    <3>. QED BY <1>3, <1>7, <2>2, <2>3, <3>1 DEF Asking, Events, EndedRightly, CountedNothing, Calling, InEpoll
  <2>. QED BY <1>4, <2>1, <2>4
<1>. QED BY <1>1, <1>2, <1>5, <1>6, <1>7 DEF Decide, Done

LEMMA WaitStep ==
    ASSUME Reading, Wait
    PROVE  Reading'
<1>1. CASE Event /\ ~HangUp
  <2>1. task' = Ask(2) /\ wire' = [wire EXCEPT !.edge = FALSE] /\ UNCHANGED <<stage, ended, chan, left, got>>
      BY <1>1 DEF Wait, AppFrame, appVars
  <2>2. chan.pending = <<>> /\ task.pc = "wait"
      BY DEF Reading, Asking, Wait
  <2>3. /\ task' \in [pc : {"poll"}, op : {task.op}, len : {task.len}, round : {2}, n : {0}]
    <3>1. /\ Ask(2) \in [pc : {"poll", "decide"}, op : {task.op}, len : {task.len}, round : {2}, n : {Len(chan.pending)}]
          /\ Ask(2).pc = "poll"
        BY <2>2, AskTyped
    <3>2. Len(chan.pending) = 0
        BY <2>2
    <3>. QED BY <2>1, <3>1, <3>2
  <2> USE DEF Reading
  <2>11. StreamTyped'
    <3>1. wire' \in WireT
        BY <2>1, EdgeMoves DEF StreamTyped
    <3>2. task' \in TaskT
      <4>1. task.op \in {"none", "get", "peek", "wait", "ask", "read"} /\ task.len \in Nat
          BY DEF StreamTyped, ChanT, WireT, TaskT, Pcs
      <4>. QED BY <2>3, <4>1 DEF TaskT, Pcs
    <3>. QED BY <2>1, <3>1, <3>2 DEF StreamTyped
  <2>12. Records'
      BY <1>1, <2>1, <2>2, <2>3 DEF Event, HangUp, StreamTyped, ChanT, WireT, TaskT, Pcs, Records
  <2>13. Conserved'
      BY <1>1, <2>1, <2>2, <2>3 DEF Event, HangUp, StreamTyped, ChanT, WireT, TaskT, Pcs, Conserved
  <2>14. Asking'
      BY <1>1, <2>1, <2>2, <2>3 DEF Event, HangUp, StreamTyped, ChanT, WireT, TaskT, Pcs, Asking, Calling
  <2>15. Events'
      BY <1>1, <2>1, <2>2, <2>3 DEF Event, HangUp, StreamTyped, ChanT, WireT, TaskT, Pcs, Records, Asking, Events, Arrived, CountedNothing, Calling, InEpoll
  <2>16. EndedRightly'
      BY <1>1, <2>1, <2>2, <2>3 DEF Event, HangUp, StreamTyped, ChanT, WireT, TaskT, Pcs, Records, Asking, EndedRightly, Calling, InEpoll
  <2>. QED BY <2>11, <2>12, <2>13, <2>14, <2>15, <2>16
<1>2. CASE ~(Event /\ ~HangUp)
  <2>1. /\ \/ wire' = wire /\ ended' \in {"eof", "timeout"} /\ (ended' = "timeout" \/ ~chan.active)
           \/ Event /\ HangUp /\ wire' = [wire EXCEPT !.edge = FALSE] /\ ended' = "eof"
        /\ task' = [task EXCEPT !.pc = "done"]
        /\ UNCHANGED <<stage, chan, left, got>>
      BY <1>2 DEF Wait, AppFrame, appVars, Fail
  <2> USE DEF Reading
  <2>2. StreamTyped'
    <3>1. wire' \in WireT
        BY <2>1, EdgeMoves DEF StreamTyped
    <3>2. task' \in TaskT
      <4>1. task \in TaskT /\ "done" \in Pcs
          BY DEF StreamTyped, Pcs
      <4>. QED BY <2>1, <4>1, TaskMoves
    <3>. QED BY <2>1, <3>1, <3>2 DEF StreamTyped
  <2>3. task'.pc = "done" /\ task'.round = task.round
      BY <2>1, TaskMoves DEF StreamTyped, Pcs
  <2>4. /\ wire'.data = wire.data /\ wire'.ends = wire.ends /\ wire'.part = wire.part /\ wire'.fin = wire.fin
        /\ wire'.notify = wire.notify
      BY <2>1 DEF StreamTyped, ChanT, WireT, TaskT, Pcs
  <2>5. Records' /\ Conserved'
      BY <2>1, <2>4 DEF Records, Conserved
  <2>6. Asking' /\ Events'
      BY <2>1, <2>3 DEF Asking, Events, CountedNothing, Calling
  <2>7. EndedRightly'
      BY <2>1, <2>3, <2>4 DEF EndedRightly, HangUp
  <2>. QED BY <2>2, <2>5, <2>6, <2>7
<1>. QED BY <1>1, <1>2

(* What is taken from the channel goes to the reader and to the buffer.    *)
LEMMA TakeStep ==
    ASSUME Reading, Take
    PROVE  Reading'
<1> USE DEF Reading
<1>1. task.pc = "take" /\ UNCHANGED <<stage, left>>
    BY DEF Take, AppFrame, appVars
<1>2. task.n \in Nat /\ task.n > 0 /\ task.op \in {"get", "peek", "read"} /\ chan.buffer = <<>>
    BY <1>1 DEF Asking, StreamTyped, ChanT, WireT, TaskT, Pcs, Calling
<1>3. CASE chan.active /\ (chan.pending # <<>> \/ wire.data # <<>>)
  <2> DEFINE k == Smaller(task.n, Room(task.op, task.len))
             r == SRead(k)
             t == IF task.op = "read" THEN Len(r.bytes) ELSE Taken(r.bytes, task.op, 0)
             x == SubSeq(r.bytes, 1, t)
             y == SubSeq(r.bytes, t + 1, Len(r.bytes))
  <2>1. /\ wire' = [wire EXCEPT !.data = r.data, !.ends = r.ends]
        /\ IF task.op = "read"
           THEN got' = got \o r.bytes /\ chan' = [chan EXCEPT !.pending = r.pending]
           ELSE /\ got' = got \o SubSeq(r.bytes, 1, Taken(r.bytes, task.op, 0))
                /\ chan' = [chan EXCEPT !.pending = r.pending, !.buffer = Rest(r.bytes, task.op, 0)]
        /\ Done /\ UNCHANGED ended
      BY <1>3 DEF Take
  <2>2. k \in Nat /\ (task.op # "read" => k > 0)
      BY <1>2, StreamAssumption DEF Smaller, Room, StreamTyped, ChanT, WireT, TaskT, Pcs
  <2>3. /\ r.bytes \in Seq(Bytes) /\ r.pending \in Seq(Bytes) /\ r.data \in Seq(Bytes)
        /\ Cat(chan.pending, wire.data) = Cat(Cat(r.bytes, r.pending), r.data)
        /\ k > 0 => Len(r.bytes) > 0
        /\ r.ends \subseteq 1 .. Len(r.data)
        /\ chan.kind = "ssl" /\ r.data # <<>> => Len(r.data) \in r.ends
        /\ chan.kind # "ssl" => r.ends = {} /\ r.pending = <<>>
    <3> HIDE DEF k
    <3>. QED BY <1>3, <2>2, SReadKeeps
  <2>4. task' = [NoTask EXCEPT !.pc = "idle"] /\ UNCHANGED ended
      BY <2>1 DEF Done
  <2> HIDE DEF r, k
  <2>5. Len(r.bytes) \in Nat /\ t \in 0 .. Len(r.bytes)
    <3>1. Len(r.bytes) \in Nat
        BY <2>3
    <3>. QED BY <1>2, <2>2, <2>3, <3>1 DEF Taken
  <2>6. x \in Seq(Bytes) /\ y \in Seq(Bytes) /\ Cat(x, y) = r.bytes
    <3> HIDE DEF t
    <3>. QED BY <2>3, <2>5, SplitSeq
  <2>7. got' = Cat(got, x) /\ chan' = [chan EXCEPT !.pending = r.pending, !.buffer = y]
    <3>1. CASE task.op = "read"
      <4>1. x = r.bytes
          BY <2>3, <3>1, SubSeqFull
      <4>2. y = <<>>
          BY <2>3, <2>5, <3>1, SubSeqEmpty
      <4>3. chan' = [chan EXCEPT !.pending = r.pending] /\ got' = got \o r.bytes
          BY <2>1, <3>1
      <4> HIDE DEF x, y
      <4>. QED BY <1>2, <4>1, <4>2, <4>3 DEF Cat, StreamTyped, ChanT, WireT, TaskT, Pcs
    <3>2. CASE task.op # "read"
        BY <2>1, <3>2 DEF Cat, Rest
    <3>. QED BY <3>1, <3>2
  <2> HIDE DEF x, y, t
  <2>8. StreamTyped'
    <3>1. Cat(got, x) \in Seq(Bytes)
        BY <2>6, CatSeq DEF StreamTyped, ChanT, WireT, TaskT, Pcs
    <3>2. r.ends \in SUBSET Nat
      <4>1. Len(r.data) \in Nat
          BY <2>3
      <4>. QED BY <2>3, <4>1
    <3>3. wire' \in WireT
        BY <2>1, <2>3, <3>2 DEF StreamTyped, ChanT, WireT, TaskT, Pcs
    <3>4. chan' \in ChanT
        BY <2>3, <2>6, <2>7 DEF StreamTyped, ChanT, WireT, TaskT, Pcs
    <3>5. task' \in TaskT
        BY <2>4 DEF NoTask, TaskT, Pcs
    <3>. QED BY <1>1, <2>4, <2>7, <3>1, <3>3, <3>4, <3>5 DEF StreamTyped, ChanT, WireT, TaskT, Pcs
  <2>9. /\ chan'.kind = chan.kind /\ chan'.active = chan.active /\ chan'.pending = r.pending /\ chan'.buffer = y
        /\ wire'.data = r.data /\ wire'.ends = r.ends /\ wire'.part = wire.part /\ wire'.notify = wire.notify
        /\ task'.pc = "idle" /\ task'.round = 0
      BY <2>1, <2>4, <2>7 DEF StreamTyped, ChanT, WireT, TaskT, Pcs, NoTask
  <2>10. Records'
      BY <2>3, <2>9 DEF Records
  <2>11. Conserved'
    <3>1. AllIn(Bytes, {got, chan.pending, wire.data, left, x, y, r.pending, r.data})
        BY <2>3, <2>6 DEF AllIn, StreamTyped, ChanT, WireT, TaskT, Pcs
    <3>2. Cat(chan.pending, wire.data) = Cat(Cat(Cat(x, y), r.pending), r.data)
        BY <2>3, <2>6
    <3>3. InRow(Cat(got, x), y, r.pending, r.data, left) = InRow(got, <<>>, chan.pending, wire.data, left)
        BY <3>1, <3>2, MoveMiddle
    <3>. QED BY <1>1, <1>2, <2>7, <2>9, <3>3 DEF Conserved
  <2>12. Asking' /\ Events' /\ EndedRightly'
      BY <1>1, <2>4, <2>9 DEF Asking, Events, EndedRightly, CountedNothing, Calling
  <2>. QED BY <2>8, <2>10, <2>11, <2>12
<1>4. CASE ~chan.active
  <2>1. /\ ended' = "io" /\ task' = [task EXCEPT !.pc = "done"]
        /\ UNCHANGED <<chan, wire, got>>
      BY <1>1, <1>4 DEF Take, Fail
  <2>2. StreamTyped'
      BY <1>1, <2>1, TaskMoves DEF StreamTyped, Pcs
  <2>3. task'.pc = "done" /\ task'.round = task.round
      BY <2>1, TaskMoves DEF StreamTyped, Pcs
  <2>. QED BY <1>1, <1>2, <1>4, <2>1, <2>2, <2>3
           DEF Records, Conserved, Asking, Events, EndedRightly, CountedNothing, Calling
<1>5. CASE chan.active /\ chan.pending = <<>> /\ wire.data = <<>>
  <2>1. /\ wire.fin /\ ended' \in {"eof", "io"} /\ task' = [task EXCEPT !.pc = "done"]
        /\ UNCHANGED <<chan, wire, got>>
      BY <1>1, <1>5 DEF Take, Fail
  <2>2. StreamTyped'
      BY <1>1, <2>1, TaskMoves DEF StreamTyped, Pcs
  <2>3. task'.pc = "done" /\ task'.round = task.round
      BY <2>1, TaskMoves DEF StreamTyped, Pcs
  <2>. QED BY <1>1, <1>2, <1>5, <2>1, <2>2, <2>3
           DEF Records, Conserved, Asking, Events, EndedRightly, CountedNothing, Calling
<1>. QED BY <1>3, <1>4, <1>5

LEMMA ReadingStep ==
    ASSUME Reading, StreamStep
    PROVE  Reading'
<1>1. ~ OpenChannel
    BY DEF Reading, StreamTyped, ChanT, WireT, TaskT, Pcs, OpenChannel
<1>. QED BY <1>1, PeerStep, CallStep, PollStep, CountStep, DecideStep, WaitStep, TakeStep DEF StreamStep, StreamNext, ReaderNext

(* A channel that opens has the whole message before it.                   *)
LEMMA OpeningStep ==
    ASSUME Unopened, StreamStep
    PROVE  StreamInv'
<1>1. OpenChannel
    BY DEF Unopened, NoTask, StreamStep, StreamNext, ReaderNext, Call, Poll, Count, Decide, Wait, Take, SetDeadline,
           PeerWrites, PartArrives, PeerCloses, CloseElsewhere, DeadlinePasses, NewChannel
<1>2. PICK kind \in Kinds : chan' = NewChannel(kind)
    BY <1>1 DEF OpenChannel
<1>3. left' = Message /\ UNCHANGED <<wire, got, ended>>
    BY <1>1 DEF OpenChannel
<1>4. \/ stage' = "open" /\ task' = [NoTask EXCEPT !.pc = "idle"]
      \/ stage' = "exited" /\ UNCHANGED task
    BY <1>1 DEF OpenChannel
<1>5. CASE stage' = "exited" /\ UNCHANGED task
    BY <1>3, <1>5 DEF Unopened, StreamInv
<1>6. CASE stage' = "open" /\ task' = [NoTask EXCEPT !.pc = "idle"]
  <2>1. Message \in Seq(Bytes) /\ kind \in {"socket", "ssl", "watched", "pipe"}
      BY StreamAssumption DEF Bytes
  <2>2. /\ chan' = [kind |-> kind, active |-> TRUE, deadline |-> "none", buffer |-> <<>>, pending |-> <<>>]
        /\ wire' = [data |-> <<>>, ends |-> {}, part |-> FALSE, edge |-> FALSE, fin |-> FALSE, notify |-> FALSE]
        /\ task' = [pc |-> "idle", op |-> "none", len |-> 0, round |-> 0, n |-> 0]
        /\ got' = <<>> /\ ended' = "no"
      BY <1>2, <1>3, <1>6 DEF Unopened, NewChannel, EmptyWire, NoTask
  <2>3. <<>> \in Seq(Bytes)
      OBVIOUS
  <2>4. StreamTyped'
    <3>3. wire' \in WireT
        BY <2>2, <2>3 DEF WireT
    <3>4. chan' \in ChanT
        BY <2>1, <2>2, <2>3 DEF ChanT
    <3>5. task' \in TaskT
        BY <2>2 DEF TaskT, Pcs
    <3>. QED BY <1>3, <1>6, <2>1, <2>2, <2>3, <3>3, <3>4, <3>5 DEF StreamTyped, ChanT, WireT, TaskT, Pcs
  <2>5. Conserved'
    <3>1. InRow(<<>>, <<>>, <<>>, <<>>, Message) = Message
        BY <2>1, <2>3, CatSeq DEF InRow
    <3>. QED BY <1>3, <2>2, <3>1 DEF Conserved
  <2>6. Records' /\ Asking' /\ Events' /\ EndedRightly'
      BY <2>2 DEF Records, Asking, Events, EndedRightly, CountedNothing, Calling
  <2>. QED BY <2>4, <2>5, <2>6 DEF StreamInv, Reading
<1>. QED BY <1>4, <1>5, <1>6

LEMMA StreamInvStep == StreamInv /\ [CommandsNext]_commandVars => StreamInv'
<1> SUFFICES ASSUME StreamInv, [CommandsNext]_commandVars PROVE StreamInv'
    OBVIOUS
<1>1. CASE StreamStep
    BY <1>1, ReadingStep, OpeningStep DEF StreamInv
<1>2. CASE NotStreams \/ UNCHANGED commandVars
  <2>1. UNCHANGED <<chan, wire, left, task, got, ended>> /\ (stage' = stage \/ stage' \notin {"init", "open"})
      BY <1>2, NotStreamsStep DEF commandVars, streamVars, appVars
  <2>2. CASE Unopened
      BY <2>1, <2>2 DEF StreamInv, Unopened
  <2>3. CASE Reading
      BY <2>1, <2>3 DEF StreamInv, Reading, StreamTyped, ChanT, WireT, TaskT, Pcs, Records, Conserved, Asking, Events, EndedRightly, Arrived,
                        CountedNothing, Calling, InEpoll
  <2>. QED BY <2>2, <2>3 DEF StreamInv
<1>. QED BY <1>1, <1>2 DEF CommandsNext, NotStreams

LEMMA StreamInvInit == CommandsInit => StreamInv
BY DEF CommandsInit, AppInit, StreamIdle, StreamInv, Unopened

(* No byte is lost, repeated or moved on its way to the reader.            *)
THEOREM NothingLost == CommandsSpec => []StreamInOrder
<1>1. StreamInv => StreamInOrder
  <2> SUFFICES ASSUME StreamInv, stage = "open"
               PROVE  got \o chan.buffer \o chan.pending \o wire.data \o left = Message
      BY DEF StreamInOrder
  <2>1. Conserved
      BY DEF StreamInv, Unopened, Reading
  <2>. QED BY <2>1 DEF Conserved, InRow, Cat
<1>. QED BY <1>1, StreamInvInit, StreamInvStep, PTL DEF CommandsSpec

(* A channel in its epoll set does not wait for bytes that are there.      *)
THEOREM NothingMissed == CommandsSpec => []NoMissedInput
<1>1. StreamInv => NoMissedInput
    BY DEF StreamInv, NoMissedInput, Unopened, NoTask, Reading, Asking, Events, CountedNothing
<1>. QED BY <1>1, StreamInvInit, StreamInvStep, PTL DEF CommandsSpec

(* End of file is reported at the end of what was sent.                    *)
THEOREM EndOfFileIsTrue == CommandsSpec => []EndOfFileTrue
<1>1. StreamInv => EndOfFileTrue
  <2> SUFFICES ASSUME StreamInv, ended = "eof", chan.active
               PROVE  wire.fin /\ (chan.kind # "pipe" => chan.buffer \o chan.pending \o wire.data = <<>>)
      BY DEF EndOfFileTrue
  <2>1. wire.fin /\ (chan.kind # "pipe" => chan.buffer = <<>> /\ chan.pending = <<>> /\ wire.data = <<>>)
      BY DEF StreamInv, Unopened, Reading, EndedRightly
  <2>2. <<>> \o <<>> \o <<>> = <<>>
      OBVIOUS
  <2>. QED BY <2>1, <2>2
<1>. QED BY <1>1, StreamInvInit, StreamInvStep, PTL DEF CommandsSpec

(* The bounds of the numbers: what was counted, and what is buffered.      *)
Within == task.n <= 2 * Len(Message) + 2 /\ Len(chan.buffer) <= BufSize

LEMMA PartsOfMessage ==
    ASSUME Reading
    PROVE  /\ Len(Message) \in Nat /\ Len(chan.pending) \in Nat /\ Len(wire.data) \in Nat /\ Len(chan.buffer) \in Nat
           /\ Len(chan.pending) <= Len(Message) /\ Len(wire.data) <= Len(Message)
<1> DEFINE a == got
           b == chan.buffer
           c == chan.pending
           d == wire.data
           e == left
           ab == Cat(a, b)
           abc == Cat(ab, c)
           abcd == Cat(abc, d)
<1>1. a \in Seq(Bytes) /\ b \in Seq(Bytes) /\ c \in Seq(Bytes) /\ d \in Seq(Bytes) /\ e \in Seq(Bytes)
    BY DEF Reading, StreamTyped, ChanT, WireT, TaskT, Pcs
<1>2. Message = Cat(abcd, e)
    BY DEF Reading, Conserved, InRow
<1> HIDE DEF a, b, c, d, e
<1>3. ab \in Seq(Bytes) /\ Len(ab) = Len(a) + Len(b)
    BY <1>1, ConcatProperties DEF Cat
<1> HIDE DEF ab
<1>4. abc \in Seq(Bytes) /\ Len(abc) = Len(ab) + Len(c)
    BY <1>1, <1>3, ConcatProperties DEF Cat
<1> HIDE DEF abc
<1>5. abcd \in Seq(Bytes) /\ Len(abcd) = Len(abc) + Len(d)
    BY <1>1, <1>4, ConcatProperties DEF Cat
<1> HIDE DEF abcd
<1>6. Len(Message) = Len(abcd) + Len(e)
    BY <1>1, <1>2, <1>5, ConcatProperties DEF Cat
<1> DEFINE la == Len(a)
           lb == Len(b)
           lc == Len(c)
           ld == Len(d)
           le == Len(e)
<1>7. la \in Nat /\ lb \in Nat /\ lc \in Nat /\ ld \in Nat /\ le \in Nat
    BY <1>1, LenProperties
<1>8. Len(Message) = la + lb + lc + ld + le
    BY <1>3, <1>4, <1>5, <1>6
<1> HIDE DEF la, lb, lc, ld, le
<1>9. la + lb + lc + ld + le \in Nat /\ lc <= la + lb + lc + ld + le /\ ld <= la + lb + lc + ld + le
    BY <1>7
<1>10. Len(Message) \in Nat /\ lc <= Len(Message) /\ ld <= Len(Message)
    BY <1>8, <1>9
<1>. QED BY <1>7, <1>10 DEF b, c, d, lb, lc, ld

LEMMA AskWithin ==
    ASSUME Reading, NEW round
    PROVE  Ask(round).n <= 2 * Len(Message) + 2
<1>1. Ask(round).n = Len(chan.pending)
    BY DEF Ask, Reading, StreamTyped, ChanT, WireT, TaskT, Pcs
<1>. QED BY <1>1, PartsOfMessage

LEMMA RestShorter ==
    ASSUME NEW s \in Seq(Bytes), NEW op, NEW len \in Nat, op = "get" => s # <<>>
    PROVE  Len(Rest(s, op, len)) <= Len(s)
<1>1. Len(s) \in Nat /\ (op = "get" => Len(s) > 0)
    BY EmptySeq
<1>2. Taken(s, op, len) \in 0 .. Len(s)
    BY <1>1 DEF Taken, Smaller
<1> DEFINE k == Taken(s, op, len)
<1> HIDE DEF k
<1>3. Len(SubSeq(s, k + 1, Len(s))) = Len(s) - k /\ k \in 0 .. Len(s)
    BY <1>2, SplitSeq DEF k
<1>. QED BY <1>1, <1>3 DEF Rest, k

LEMMA CountWithin ==
    ASSUME Reading
    PROVE  FionRead <= 2 * Len(Message) + 2
<1>1. Len(wire.data) \in Nat /\ Len(Message) \in Nat /\ Len(wire.data) <= Len(Message)
    BY PartsOfMessage
<1>2. Cardinality(wire.ends) \in Nat /\ Cardinality(wire.ends) <= Len(wire.data)
  <2> DEFINE n == Len(wire.data)
  <2>1. n \in Nat /\ wire.ends \in SUBSET (1 .. n)
      BY <1>1 DEF Reading, Records
  <2> HIDE DEF n
  <2>2. 1 \in Int /\ n \in Int
      BY <2>1
  <2>3. IsFiniteSet(1 .. n) /\ Cardinality(1 .. n) = IF 1 > n THEN 0 ELSE n - 1 + 1
      BY <2>2, FS_Interval
  <2>4. Cardinality(1 .. n) = n
      BY <2>1, <2>3
  <2>5. IsFiniteSet(wire.ends) /\ Cardinality(wire.ends) <= n
      BY <2>1, <2>3, <2>4, FS_Subset
  <2>. QED BY <2>5, FS_CardinalityType DEF n
<1>. QED BY <1>1, <1>2 DEF FionRead, B2N

LEMMA WithinStep == StreamInv /\ Within /\ [CommandsNext]_commandVars => Within'
<1> SUFFICES ASSUME StreamInv, Within, [CommandsNext]_commandVars PROVE Within'
    OBVIOUS
<1> DEFINE Bound == 2 * Len(Message) + 2
<1>0. Len(Message) \in Nat /\ 0 <= Bound /\ 0 <= BufSize
    BY StreamAssumption
<1>1. ASSUME UNCHANGED <<chan, task>> PROVE Within'
    BY <1>1 DEF Within
<1>2. CASE NotStreams \/ UNCHANGED commandVars
    BY <1>1, <1>2, NotStreamsStep DEF commandVars, streamVars
<1>3. CASE OpenChannel
  <2>1. PICK kind \in Kinds : chan' = NewChannel(kind)
      BY <1>3 DEF OpenChannel
  <2>2. task'.n = 0 \/ task' = task
      BY <1>3 DEF OpenChannel, NoTask
  <2>3. chan'.buffer = <<>> /\ Len(<<>>) = 0
      BY <2>1 DEF NewChannel
  <2>. QED BY <1>0, <2>2, <2>3 DEF Within
<1>4. CASE StreamStep /\ ~ OpenChannel
  <2>1. Reading
    <3>1. stage = "open" \/ task.pc # "none"
        BY <1>4 DEF StreamStep, StreamNext, ReaderNext, SetDeadline, Call, Poll, Count, Decide, Wait, Take, PeerWrites,
                    PartArrives, PeerCloses, CloseElsewhere, DeadlinePasses
    <3>. QED BY <3>1 DEF StreamInv, Unopened, NoTask
  <2>2. chan.buffer \in Seq(Bytes) /\ task.n \in Nat /\ Len(chan.buffer) \in Nat
      BY <2>1, PartsOfMessage DEF Reading, StreamTyped, ChanT, WireT, TaskT, Pcs
  <2>3. ASSUME chan'.buffer = chan.buffer, task'.n = task.n \/ task'.n <= Bound PROVE Within'
      BY <2>3 DEF Within
  <2>4. CASE PeerWrites \/ PartArrives \/ PeerCloses \/ CloseElsewhere \/ DeadlinePasses \/ SetDeadline
    <3>1. chan'.buffer = chan.buffer /\ task' = task
        BY <2>1, <2>4 DEF PeerWrites, PartArrives, PeerCloses, CloseElsewhere, DeadlinePasses, SetDeadline, Reading, StreamTyped, ChanT, WireT, TaskT, Pcs
    <3>. QED BY <2>3, <3>1
  <2>5. CASE Call
    <3>1. PICK call \in {[op |-> op, len |-> 0] : op \in {"get", "peek", "wait", "ask"}}
                    \cup {[op |-> "read", len |-> len] : len \in {1, Len(Message)}} :
             IF chan.buffer # <<>> /\ call.op \notin {"wait", "ask"}
             THEN FromBuffer(chan.buffer, call.op, call.len) /\ UNCHANGED task
             ELSE task' = [Ask(1) EXCEPT !.op = call.op, !.len = call.len] /\ UNCHANGED <<chan, got>>
        BY <2>5 DEF Call
    <3>2. call.len \in Nat
        BY <1>0, <3>1
    <3>3. CASE chan.buffer # <<>> /\ call.op \notin {"wait", "ask"}
      <4>1. chan'.buffer = Rest(chan.buffer, call.op, call.len) /\ task' = task
          BY <2>1, <3>1, <3>3 DEF FromBuffer, Reading, StreamTyped, ChanT, WireT, TaskT, Pcs
      <4>2. Len(Rest(chan.buffer, call.op, call.len)) <= Len(chan.buffer)
          BY <2>2, <3>2, <3>3, RestShorter
      <4>3. Len(Rest(chan.buffer, call.op, call.len)) <= BufSize
        <5>1. Len(chan.buffer) <= BufSize /\ BufSize \in Nat
            BY StreamAssumption DEF Within
        <5>2. Rest(chan.buffer, call.op, call.len) \in Seq(Bytes)
            BY <2>2, SubSeqProperties DEF Rest, Taken, Smaller
        <5>3. Len(Rest(chan.buffer, call.op, call.len)) \in Nat
            BY <5>2
        <5>. QED BY <2>2, <4>2, <5>1, <5>3
      <4>. QED BY <4>1, <4>3 DEF Within
    <3>4. CASE ~ (chan.buffer # <<>> /\ call.op \notin {"wait", "ask"})
      <4>1. task'.n = Ask(1).n /\ chan' = chan
          BY <2>1, <3>1, <3>4 DEF Ask, Reading, StreamTyped, ChanT, WireT, TaskT, Pcs
      <4>. QED BY <2>1, <2>3, <4>1, AskWithin
    <3>. QED BY <3>3, <3>4
  <2>6. CASE Poll
    <3>1. chan' = chan /\ task'.n = task.n
        BY <2>1, <2>6 DEF Poll, Fail, Reading, StreamTyped, ChanT, WireT, TaskT, Pcs
    <3>. QED BY <2>3, <3>1
  <2>7. CASE Count
    <3>1. chan' = chan /\ (task'.n = task.n \/ task'.n = FionRead)
        BY <2>1, <2>7 DEF Count, Fail, Reading, StreamTyped, ChanT, WireT, TaskT, Pcs
    <3>. QED BY <2>1, <2>3, <3>1, CountWithin
  <2>8. CASE Decide
    <3>1. chan' = chan /\ (task'.n = task.n \/ task'.n = 0)
        BY <2>1, <2>8 DEF Decide, Done, NoTask, Fail, Reading, StreamTyped, ChanT, WireT, TaskT, Pcs
    <3>. QED BY <1>0, <2>3, <3>1
  <2>9. CASE Wait
    <3>1. chan' = chan /\ (task'.n = task.n \/ task' = Ask(2))
        BY <2>1, <2>9 DEF Wait, Fail, Reading, StreamTyped, ChanT, WireT, TaskT, Pcs
    <3>. QED BY <2>1, <2>3, <3>1, AskWithin
  <2>10. CASE Take
    <3>1. CASE ~ (chan.active /\ (chan.pending # <<>> \/ wire.data # <<>>))
      <4>1. chan' = chan /\ task'.n = task.n
          BY <2>1, <2>10, <3>1 DEF Take, Fail, Reading, StreamTyped, ChanT, WireT, TaskT, Pcs
      <4>. QED BY <2>3, <4>1
    <3>2. CASE chan.active /\ (chan.pending # <<>> \/ wire.data # <<>>)
      <4> DEFINE k == Smaller(task.n, Room(task.op, task.len))
                 r == SRead(k)
      <4>1. /\ task' = [NoTask EXCEPT !.pc = "idle"]
            /\ IF task.op = "read" THEN chan' = [chan EXCEPT !.pending = r.pending]
               ELSE chan' = [chan EXCEPT !.pending = r.pending, !.buffer = Rest(r.bytes, task.op, 0)]
          BY <2>10, <3>2 DEF Take, Done
      <4>2. task'.n = 0
          BY <4>1 DEF NoTask
      <4>6. task.n \in Nat /\ task.n > 0 /\ BufSize \in Nat \ {0}
          BY <2>1, <2>10, StreamAssumption DEF Take, Reading, StreamTyped, TaskT, Asking
      <4>4. CASE task.op = "read"
        <5>1. chan'.buffer = chan.buffer
            BY <2>1, <4>1, <4>4 DEF Reading, StreamTyped, ChanT, WireT, TaskT, Pcs
        <5>. QED BY <1>0, <2>3, <4>2, <5>1
      <4>5. CASE task.op # "read"
        <5>1. k \in 1 .. BufSize /\ k \in Nat /\ BufSize \in Nat
          <6>1. Room(task.op, task.len) = BufSize
              BY <4>5 DEF Room
          <6>. QED BY <4>6, <6>1 DEF Smaller
        <5> HIDE DEF k
        <5>2. r.bytes \in Seq(Bytes) /\ Len(r.bytes) <= k /\ Len(r.bytes) > 0
            BY <2>1, <3>2, <5>1, SReadKeeps DEF Reading
        <5> HIDE DEF r
        <5>3. chan'.buffer = Rest(r.bytes, task.op, 0)
            BY <2>1, <4>1, <4>5 DEF Reading, StreamTyped, ChanT, WireT, TaskT, Pcs
        <5>4. r.bytes # <<>>
            BY <5>2, EmptySeq
        <5>5. Len(Rest(r.bytes, task.op, 0)) <= Len(r.bytes)
            BY <5>2, <5>4, RestShorter
        <5>6. Rest(r.bytes, task.op, 0) \in Seq(Bytes) /\ Len(r.bytes) \in Nat
            BY <5>2, SubSeqProperties DEF Rest, Taken, Smaller
        <5>7. Len(Rest(r.bytes, task.op, 0)) <= BufSize
          <6>1. Len(Rest(r.bytes, task.op, 0)) \in Nat
              BY <5>6
          <6>. QED BY <5>1, <5>2, <5>5, <5>6, <6>1
        <5>. QED BY <1>0, <4>2, <5>3, <5>7 DEF Within
      <4>. QED BY <4>4, <4>5
    <3>. QED BY <3>1, <3>2
  <2>. QED BY <1>4, <2>4, <2>5, <2>6, <2>7, <2>8, <2>9, <2>10 DEF StreamStep, StreamNext, ReaderNext
<1>. QED BY <1>2, <1>3, <1>4 DEF CommandsNext, NotStreams

LEMMA AlwaysWithin == CommandsSpec => [](StreamInv /\ Within)
<1>1. CommandsInit => Within
  <2> SUFFICES ASSUME CommandsInit PROVE Within
      OBVIOUS
  <2>1. chan.buffer = <<>> /\ task.n = 0 /\ Len(<<>>) = 0 /\ Len(Message) \in Nat
      BY StreamAssumption DEF CommandsInit, StreamIdle, NewChannel, NoTask
  <2>. QED BY <2>1, StreamAssumption DEF Within
<1>. QED BY <1>1, WithinStep, StreamInvInit, StreamInvStep, PTL DEF CommandsSpec

-----------------------------------------------------------------------------
(* Bundles. *)

BundleOf(f, s, n) == [file : {f}, state : {s}, open : {n}, activator : {FALSE}]
Closed(b, f) == b \in BundleOf(f, "RESOLVED", 0) \cup BundleOf(f, "ACTIVE", 0)

LEMMA OneBundle ==
    ASSUME NEW f, NEW s, NEW n, NEW b \in BundleOf(f, s, n)
    PROVE  b = [file |-> f, state |-> s, open |-> n, activator |-> FALSE]
BY DEF BundleOf

(* A bundle is made of a library with all its properties, or not at all.   *)
LEMMA Constructs ==
    ASSUME NEW file
    PROVE  \/ Construct(file).how = "done" /\ Construct(file).b \in BundleOf(file, "RESOLVED", 0) /\ Valid(file)
           \/ Construct(file).how # "done" /\ Construct(file).b = NoBundle
<1> DEFINE new == [NoBundle EXCEPT !.file = file, !.state = "RESOLVED"]
           loaded == [new EXCEPT !.open = 1]
           unloaded == [loaded EXCEPT !.open = 0]
<1>1. new \in BundleOf(file, "RESOLVED", 0)
    BY DEF NoBundle, BundleOf
<1> HIDE DEF new
<1>2. loaded \in BundleOf(file, "RESOLVED", 1)
    BY <1>1 DEF BundleOf
<1>3. unloaded \in BundleOf(file, "RESOLVED", 0)
    BY <1>1 DEF BundleOf
<1>4. new.open = 0 /\ new.file = file /\ loaded.open = 1 /\ loaded.file = file
    BY <1>1, <1>2 DEF BundleOf
<1>5. LoadLib(new) = IF file \notin DOMAIN Libraries THEN Ends(new, "LoadSharedLib") ELSE Ends(loaded, "done")
    BY <1>4 DEF LoadLib
<1>6. UnloadLib(loaded) = Ends(unloaded, "done")
    BY <1>4 DEF UnloadLib
<1>7. \A s : HasSymbol(loaded, s) <=> s \in Libraries[file]
    BY <1>4 DEF HasSymbol
<1> HIDE DEF loaded, unloaded
<1>8. CASE file \notin DOMAIN Libraries
    BY <1>5, <1>8 DEF Construct, Ends, new
<1>9. CASE file \in DOMAIN Libraries
  <2>1. LoadLib(new).how = "done" /\ LoadLib(new).b = loaded
      BY <1>5, <1>9 DEF Ends
  <2>2. Construct(file) = IF \E s \in Mandatory : s \notin Libraries[file] THEN Ends(NoBundle, "BundleException")
                          ELSE Ends(unloaded, "done")
      BY <1>6, <1>7, <2>1 DEF Construct, new
  <2>. QED BY <1>3, <1>9, <2>2 DEF Ends, Valid
<1>. QED BY <1>8, <1>9

LEMMA StartsNever ==
    ASSUME NEW b, NEW f, Closed(b, f)
    PROVE  Start(b).how = "IllegalOperation" /\ Start(b).b \in BundleOf(f, "ACTIVE", 0)
<1>1. b.state \in {"RESOLVED", "ACTIVE"}
    BY DEF Closed, BundleOf
<1>2. Start(b) = Ends(IF b.state = "RESOLVED" THEN [b EXCEPT !.state = "ACTIVE"] ELSE b, "IllegalOperation")
    BY <1>1 DEF Start, Ends
<1>3. CASE b.state = "RESOLVED"
  <2>1. [b EXCEPT !.state = "ACTIVE"] \in BundleOf(f, "ACTIVE", 0)
      BY DEF Closed, BundleOf
  <2>. QED BY <1>2, <1>3, <2>1 DEF Ends
<1>4. CASE b.state = "ACTIVE"
  <2>1. b \in BundleOf(f, "ACTIVE", 0)
      BY <1>4 DEF Closed, BundleOf
  <2>2. Start(b) = Ends(b, "IllegalOperation")
      BY <1>2, <1>4
  <2>. QED BY <2>1, <2>2 DEF Ends
<1>. QED BY <1>1, <1>3, <1>4

(* The calls of a client change nothing of a bundle but RESOLVED to ACTIVE *)
(* and back.                                                               *)
LEMMA CallsKeepClosed ==
    ASSUME NEW b, NEW f, Closed(b, f),
           NEW r \in {Install(b), Start(b), Stop(b), Uninstall(b), FromElsewhere(b)}
    PROVE  Closed(r.b, f)
<1>0. b.state \in {"RESOLVED", "ACTIVE"} /\ b.open = 0
    BY DEF Closed, BundleOf
<1>1. CASE r = Install(b)
    BY <1>0, <1>1 DEF Install, Ends
<1>2. CASE r = Start(b)
    BY <1>2, StartsNever DEF Closed
<1>3. CASE r = Stop(b)
    BY <1>0, <1>3 DEF Closed, Stop, Ends, BundleOf
<1>4. CASE r = FromElsewhere(b)
    BY <1>4 DEF FromElsewhere, Ends
<1>5. CASE r = Uninstall(b)
  <2>1. CASE b.state = "ACTIVE"
      BY <1>5, <2>1 DEF Closed, Uninstall, Stop, Ends, BundleOf
  <2>2. CASE b.state = "RESOLVED"
    <3> DEFINE c == [b EXCEPT !.activator = FALSE]
    <3>1. Closed(c, f) /\ c.open = 0
        BY DEF Closed, BundleOf
    <3> HIDE DEF c
    <3>2. UnloadLib(c) = Ends(c, "InvalidSharedLib")
        BY <3>1 DEF UnloadLib
    <3>3. Uninstall(b) = Ends(c, "InvalidSharedLib")
        BY <2>2, <3>2 DEF Uninstall, Ends, c
    <3>. QED BY <1>5, <3>1, <3>3 DEF Ends
  <2>. QED BY <1>0, <2>1, <2>2
<1>. QED BY <1>1, <1>2, <1>3, <1>4, <1>5

-----------------------------------------------------------------------------
(* Where a program is, and what it has done to come there.                 *)

(* What run() has seen of the command line, and the stages of each program.*)
Underway == {"exec", "configured", "setup", "search", "started", "ready", "loop", "stopping"}
Serving  == {"started", "ready", "loop", "stopping"}

Stages ==
    /\ stage \in Underway \cup {"init", "client", "open", "returned", "exited"}
    /\ exit = "none" <=> stage \notin {"returned", "exited"}
    /\ stage = "returned" => exit \in {"0", "1"}
    /\ stage = "init" => cli.values = <<>>
    /\ stage \in Underway => cli.ok /\ prog \in DOMAIN Options
    /\ stage = "configured" \/ stage = "setup" => prog \in {"master", "proxy"}
    /\ stage = "setup" => IsEnabled("editSettings")
    /\ stage = "search" => prog = "master"
    /\ stage \in Serving => prog \in {"master", "container", "proxy"}
    /\ stage = "client" => prog = "client"
    /\ stage = "open" => prog = "reader"

(* The compiler is at work exactly between its first step and its last.    *)
Compiles ==
    /\ phase \in {"idle", "compile", "collect", "link", "write", "done"}
    /\ phase \notin {"idle", "done"} => prog = "idlc" /\ stage = "exec"
    /\ phase # "idle" => prog = "idlc" /\ stage \in {"exec", "returned", "exited"}
    /\ phase = "done" => stage \in {"returned", "exited"}
    /\ phase \notin {"idle", "done"} => cli.extra # <<>>

(* One bundle of the container or of a client, those of the master.        *)
BundlesKept ==
    /\ \/ bundle = NoBundle
       \/ (\E f : Closed(bundle, f)) /\ prog \in {"container", "client"} /\ stage # "init"
    /\ stage = "client" => bundle # NoBundle
    /\ prog = "container" /\ bundle.state = "ACTIVE" => Started(GetValue("bundleFile"))
    /\ prog = "container" /\ stage \in Serving => Valid(GetValue("bundleFile")) /\ ~Started(GetValue("bundleFile"))
    /\ prog = "master" /\ stage \in Serving => bundles # <<>>
    /\ \E S : bundles \in Seq(S)
    /\ \A i \in DOMAIN bundles : bundles[i] \in BundleOf(bundles[i].file, "RESOLVED", 0) /\ Valid(bundles[i].file)

LEMMA StagesInit == CommandsInit => Stages /\ Compiles /\ BundlesKept
<1> SUFFICES ASSUME CommandsInit PROVE Stages /\ Compiles /\ BundlesKept
    OBVIOUS
<1>1. Stages
    BY DEF CommandsInit, AppInit, Stages, Underway, Serving
<1>2. Compiles
    BY DEF CommandsInit, IdlcIdle, Compiles
<1>3. BundlesKept
  <2>1. bundles = <<>> /\ bundle = NoBundle /\ stage = "init"
      BY DEF CommandsInit, BundlesIdle, AppInit
  <2>2. (\E S : bundles \in Seq(S)) /\ DOMAIN bundles = {}
    <3>1. bundles \in Seq({})
        BY <2>1
    <3>. QED BY <2>1, <3>1
  <2>3. bundle.state = "none" /\ stage \notin Serving
      BY <2>1 DEF NoBundle, Serving
  <2>. QED BY <2>1, <2>2, <2>3 DEF BundlesKept
<1>. QED BY <1>1, <1>2, <1>3

LEMMA AppStages ==
    ASSUME Stages, Compiles, AppStep
    PROVE  Stages' /\ Compiles'
<1>1. CASE ParseArguments
  <2>2. \/ stage' = "returned" /\ exit' \in {"0", "1"}
        \/ stage' = "exec" /\ cli'.ok /\ UNCHANGED exit
      BY <1>1 DEF ParseArguments, Return
  <2>3. phase = "idle" /\ stage = "init" /\ prog \in DOMAIN Options /\ UNCHANGED <<prog, phase>>
      BY <1>1 DEF ParseArguments, Compiles, AppStep, idlcVars
  <2>. QED BY <2>2, <2>3 DEF Stages, Compiles, Underway, Serving
<1>2. CASE InstallHandlers \/ EnterLoop \/ Terminate \/ EventThrows \/ LeaveLoop \/ Killed
    BY <1>2 DEF AppStep, idlcVars, InstallHandlers, EnterLoop, Terminate, EventThrows, LeaveLoop, Killed, Return,
                BeforeHandlers, Stages, Compiles, Underway, Serving, IsEnabled
<1>. QED BY <1>1, <1>2 DEF AppStep, AppNext, RunNext

LEMMA SettingsStages ==
    ASSUME Stages, Compiles, SettingsStep
    PROVE  Stages' /\ Compiles'
BY DEF SettingsStep, SettingsNext, OpenSettings, Answer, EndSetup, Return, Parameters, Stages, Compiles, Underway,
       Serving, IsEnabled, idlcVars, settingsVars

LEMMA BundlesStages ==
    ASSUME Stages, Compiles, BundlesStep
    PROVE  Stages' /\ Compiles'
BY DEF BundlesStep, BundlesNext, OutputIsFile, StartContainer, DestroyApplication, StartMaster, TryBundle, EndSearch,
       ClientMakes, ClientCalls, ClientDrops, Unwound, Return, Stages, Compiles, Underway, Serving, IsEnabled, idlcVars,
       bundleVars

LEMMA ProxyStages ==
    ASSUME Stages, Compiles, ProxyStep
    PROVE  Stages' /\ Compiles'
BY DEF ProxyStep, ProxyNext, StartProxy, OpenListener, NextInterface, Listen, Fails, Return, Stages, Compiles,
       Underway, Serving, IsEnabled, idlcVars

LEMMA StreamStages ==
    ASSUME Stages, Compiles, StreamStep
    PROVE  Stages' /\ Compiles'
BY DEF StreamStep, StreamNext, ReaderNext, OpenChannel, SetDeadline, Call, Poll, Count, Decide, Wait, Take, PeerWrites,
       PartArrives, PeerCloses, CloseElsewhere, DeadlinePasses, AppFrame, appVars, Stages, Compiles, Underway, Serving,
       IsEnabled, idlcVars

LEMMA IdlcStages ==
    ASSUME Stages, Compiles, IdlcStep
    PROVE  Stages' /\ Compiles'
BY DEF IdlcStep, IdlcNext, Begin, OpenInput, Declare, EndInclude, EndInput, ChooseTarget, Collect, ProcessNext,
       ProcessParent, UndefinedParent, MergeParent, Complete, EndLink, WriteResult, Exits, Finish, GoOn, Return,
       LinkFrame, Enter, Stages, Compiles, Underway, Serving, IsEnabled

LEMMA StagesStep ==
    ASSUME Stages, Compiles, [CommandsNext]_commandVars
    PROVE  Stages' /\ Compiles'
<1>1. CASE UNCHANGED commandVars
    BY <1>1 DEF commandVars, appVars, idlcVars, Stages, Compiles, IsEnabled
<1>. QED BY <1>1, AppStages, SettingsStages, BundlesStages, ProxyStages, StreamStages, IdlcStages DEF CommandsNext

(* The program stays, its command line is parsed once, and a service comes *)
(* to its loop through the end of its own start.                           *)
LEMMA CommonMoves ==
    ASSUME CommandsNext
    PROVE  /\ prog' = prog
           /\ UNCHANGED cli \/ ParseArguments
           /\ AppStep \/ SettingsStep \/ ProxyStep \/ StreamStep \/ IdlcStep => (stage' = "client" => stage = "client")
           /\ AppStep \/ SettingsStep \/ StreamStep \/ IdlcStep => (stage' \in Serving => stage \in Serving)
           /\ ProxyStep => (stage' \in Serving => stage \in Serving \/ NextInterface)
           /\ BundlesStep => (stage' \in Serving => stage \in Serving \/ StartContainer \/ EndSearch)
<1>1. ASSUME AppStep
      PROVE  prog' = prog /\ (UNCHANGED cli \/ ParseArguments) /\ (stage' = "client" => stage = "client")
             /\ (stage' \in Serving => stage \in Serving)
    BY <1>1 DEF AppStep, AppNext, RunNext, ParseArguments, InstallHandlers, EnterLoop, Terminate, EventThrows, LeaveLoop,
                Killed, Return, Serving
<1>2. ASSUME SettingsStep
      PROVE  UNCHANGED <<prog, cli>> /\ (stage' = "client" => stage = "client")
             /\ (stage' \in Serving => stage \in Serving)
    BY <1>2 DEF SettingsStep, SettingsNext, OpenSettings, Answer, EndSetup, Return, Serving
<1>3. ASSUME BundlesStep
      PROVE  UNCHANGED <<prog, cli>> /\ (stage' \in Serving => stage \in Serving \/ StartContainer \/ EndSearch)
    BY <1>3 DEF BundlesStep, BundlesNext, OutputIsFile, StartContainer, DestroyApplication, StartMaster, TryBundle,
                EndSearch, ClientMakes, ClientCalls, ClientDrops, Return, Serving
<1>4. ASSUME ProxyStep
      PROVE  UNCHANGED <<prog, cli>> /\ (stage' = "client" => stage = "client")
             /\ (stage' \in Serving => stage \in Serving \/ NextInterface)
    BY <1>4 DEF ProxyStep, ProxyNext, StartProxy, OpenListener, NextInterface, Listen, Fails, Return, Serving
<1>5. ASSUME StreamStep
      PROVE  UNCHANGED <<prog, cli>> /\ (stage' = "client" => stage = "client")
             /\ (stage' \in Serving => stage \in Serving)
    BY <1>5 DEF StreamStep, StreamNext, ReaderNext, OpenChannel, SetDeadline, Call, Poll, Count, Decide, Wait, Take,
                PeerWrites, PartArrives, PeerCloses, CloseElsewhere, DeadlinePasses, AppFrame, appVars, Serving
<1>6. ASSUME IdlcStep
      PROVE  UNCHANGED <<prog, cli>> /\ (stage' = "client" => stage = "client")
             /\ (stage' \in Serving => stage \in Serving)
    BY <1>6 DEF IdlcStep, IdlcNext, Begin, OpenInput, Declare, EndInclude, EndInput, ChooseTarget, Collect, ProcessNext,
                ProcessParent, UndefinedParent, MergeParent, Complete, EndLink, WriteResult, Exits, Finish, GoOn, Return,
                LinkFrame, Enter, Serving
<1>. QED BY <1>1, <1>2, <1>3, <1>4, <1>5, <1>6 DEF CommandsNext

LEMMA KeptByOthers ==
    ASSUME Stages, BundlesKept, AppStep \/ SettingsStep \/ ProxyStep \/ StreamStep \/ IdlcStep
    PROVE  BundlesKept'
<1>1. UNCHANGED <<bundle, bundles, prog>>
    BY CommonMoves DEF CommandsNext, AppStep, SettingsStep, ProxyStep, StreamStep, IdlcStep, bundleVars
<1>2. stage' = "init" => stage = "init"
    BY NotStreamsStep DEF NotStreams, StreamStep, StreamNext, ReaderNext, OpenChannel, SetDeadline, Call, Poll, Count,
       Decide, Wait, Take, PeerWrites, PartArrives, PeerCloses, CloseElsewhere, DeadlinePasses, AppFrame, appVars
<1>3. prog \in {"container", "master"} /\ stage' \in Serving => stage \in Serving
    BY CommonMoves DEF CommandsNext, NextInterface
<1>4. UNCHANGED cli \/ stage = "init"
    BY CommonMoves DEF CommandsNext, ParseArguments
<1>7. stage' = "client" => stage = "client"
    BY CommonMoves DEF CommandsNext
<1>5. CASE stage = "init"
  <2>0. bundle = NoBundle
      BY <1>5 DEF BundlesKept
  <2>1. bundle' = NoBundle /\ bundle'.state # "ACTIVE"
      BY <1>1, <2>0 DEF NoBundle
  <2>2. prog' \in {"container", "master"} => stage' \notin Serving
      BY <1>1, <1>3, <1>5 DEF Serving
  <2>. QED BY <1>1, <1>5, <1>7, <2>0, <2>1, <2>2 DEF BundlesKept, Valid
<1>6. CASE stage # "init" /\ UNCHANGED cli
    BY <1>1, <1>2, <1>3, <1>6, <1>7 DEF BundlesKept, Valid, Started, IsEnabled, GetValue
<1>. QED BY <1>4, <1>5, <1>6

(* Each step of Bundles. *)
LEMMA KeptByBundles ==
    ASSUME Stages, BundlesKept, BundlesStep
    PROVE  BundlesKept'
<1>0. prog' = prog /\ UNCHANGED cli
    BY CommonMoves DEF CommandsNext, BundlesStep, BundlesNext, OutputIsFile, StartContainer, DestroyApplication, StartMaster,
       TryBundle, EndSearch, ClientMakes, ClientCalls, ClientDrops
<1>1. CASE OutputIsFile
  <2>1. UNCHANGED <<bundle, bundles, prog, cli>> /\ stage = "init" /\ stage' = "exited"
      BY <1>1 DEF OutputIsFile, bundleVars
  <2>0. bundle = NoBundle
      BY <2>1 DEF BundlesKept
  <2>2. bundle' = NoBundle /\ bundle'.state # "ACTIVE" /\ stage' \notin Serving
      BY <2>0, <2>1 DEF NoBundle, Serving
  <2>. QED BY <2>1, <2>2 DEF BundlesKept, Valid
<1>2. CASE StartContainer
  <2> DEFINE file == GetValue("bundleFile")
             made == Construct(file)
             started == Start(made.b)
             fails == file = "" \/ made.how # "done"
  <2>1. prog = "container" /\ UNCHANGED <<bundles, prog, cli>>
      BY <1>2 DEF StartContainer
  <2>2. CASE fails
    <3>1. bundle' = NoBundle /\ stage' = "returned"
        BY <1>2, <2>2 DEF StartContainer, Return
    <3>. QED BY <2>1, <3>1 DEF BundlesKept, NoBundle, Serving
  <2>3. CASE ~fails
    <3>1. made.b \in BundleOf(file, "RESOLVED", 0) /\ Valid(file)
        BY <2>3, Constructs
    <3>2. started.how = "IllegalOperation" /\ started.b \in BundleOf(file, "ACTIVE", 0)
      <4>1. Closed(made.b, file)
          BY <3>1 DEF Closed
      <4>. QED BY <4>1, StartsNever
    <3>3. CASE IsEnabled("bundleInfo") \/ ~IsEnabled("bundleStart")
      <4>1. bundle' = made.b /\ stage' \in {"returned", "started"}
          BY <1>2, <2>3, <3>3 DEF StartContainer, Return
      <4>2. bundle'.state = "RESOLVED"
          BY <3>1, <4>1 DEF BundleOf
      <4>3. Closed(bundle', file)
          BY <3>1, <4>1 DEF Closed
      <4>4. Valid(file)' /\ ~Started(file)'
          BY <2>1, <3>1, <3>3 DEF Valid, Started, IsEnabled, GetValue
      <4>. QED BY <2>1, <4>1, <4>2, <4>3, <4>4 DEF BundlesKept
    <3>4. CASE ~IsEnabled("bundleInfo") /\ IsEnabled("bundleStart")
      <4>1. bundle' = started.b /\ stage' = "returned"
          BY <1>2, <2>3, <3>2, <3>4 DEF StartContainer, Return
      <4>2. Closed(bundle', file)
          BY <3>2, <4>1 DEF Closed
      <4>3. Started(file)' /\ stage' \notin Serving
          BY <1>2, <2>1, <3>1, <3>4, <4>1 DEF Valid, Started, IsEnabled, GetValue, Serving, StartContainer, Stages, Underway
      <4>. QED BY <2>1, <4>1, <4>2, <4>3 DEF BundlesKept
    <3>. QED BY <3>3, <3>4
  <2>. QED BY <2>2, <2>3
<1>3. CASE DestroyApplication
    BY <1>3 DEF DestroyApplication, BundlesKept, NoBundle, Serving
<1>4. CASE StartMaster
    BY <1>4 DEF StartMaster, BundlesKept, Serving, Valid
<1>5. CASE TryBundle
  <2>1. PICK file \in search :
          bundles' = IF Construct(file).how = "done" THEN Append(bundles, Construct(file).b) ELSE bundles
      BY <1>5 DEF TryBundle
  <2>2. UNCHANGED <<bundle, prog, stage, cli>> /\ stage = "search" /\ prog = "master"
      BY <1>5 DEF TryBundle, Stages
  <2>3. CASE Construct(file).how # "done"
      BY <2>1, <2>2, <2>3 DEF BundlesKept, Valid
  <2>4. CASE Construct(file).how = "done"
    <3> DEFINE b == Construct(file).b
    <3>1. b \in BundleOf(file, "RESOLVED", 0) /\ Valid(file) /\ b.file = file
        BY <2>4, Constructs DEF BundleOf
    <3>2. bundles' = Append(bundles, b)
        BY <2>1, <2>4
    <3> HIDE DEF b
    <3>3. PICK S : bundles \in Seq(S)
        BY DEF BundlesKept
    <3>4. bundles \in Seq(S \cup {b}) /\ b \in S \cup {b}
        BY <3>3, SeqMonotonic
    <3>5. bundles' \in Seq(S \cup {b}) /\ DOMAIN bundles' = 1 .. Len(bundles) + 1
        BY <3>2, <3>4
    <3>6. \A i \in DOMAIN bundles' : bundles'[i] = IF i \in DOMAIN bundles THEN bundles[i] ELSE b
        BY <3>2, <3>3, <3>5
    <3>7. \A i \in DOMAIN bundles' : bundles'[i] \in BundleOf(bundles'[i].file, "RESOLVED", 0) /\ Valid(bundles'[i].file)
        BY <3>1, <3>6 DEF BundlesKept
    <3>8. stage' \notin Serving
        BY <2>2 DEF Serving
    <3>. QED BY <2>2, <3>5, <3>7, <3>8 DEF BundlesKept, Valid
  <2>. QED BY <2>3, <2>4
<1>6. CASE EndSearch
    BY <1>6 DEF EndSearch, Return, Stages, BundlesKept, Serving, Valid
<1>7. CASE ClientMakes
  <2>1. PICK file \in DOMAIN BundleFiles : bundle' = Construct(file).b
      BY <1>7 DEF ClientMakes
  <2>2. bundle' = NoBundle \/ Closed(bundle', file)
      BY <2>1, Constructs DEF Closed
  <2>3. /\ prog = "client" /\ UNCHANGED <<prog, cli, bundles>> /\ stage' \in {"returned", "client"}
        /\ stage' = "client" => bundle' # NoBundle
      BY <1>7 DEF ClientMakes, Return
  <2>. QED BY <2>2, <2>3 DEF BundlesKept, Valid, Serving
<1>8. CASE ClientCalls
  <2>1. PICK r \in {Install(bundle), Start(bundle), Stop(bundle), Uninstall(bundle), FromElsewhere(bundle)} :
          bundle' = r.b
      BY <1>8 DEF ClientCalls
  <2>2. prog = "client" /\ UNCHANGED <<prog, stage, cli, bundles>> /\ stage = "client"
      BY <1>8 DEF ClientCalls, Stages
  <2>3. PICK f : Closed(bundle, f)
      BY <2>2 DEF BundlesKept
  <2>4. Closed(bundle', f)
      BY <2>1, <2>3, CallsKeepClosed
  <2>5. bundle' # NoBundle
    <3>1. bundle'.state \in {"RESOLVED", "ACTIVE"}
        BY <2>4 DEF Closed, BundleOf
    <3>2. NoBundle.state = "none"
        BY DEF NoBundle
    <3>. QED BY <3>1, <3>2
  <2>. QED BY <2>2, <2>4, <2>5 DEF BundlesKept, Valid, Serving
<1>9. CASE ClientDrops
    BY <1>9 DEF ClientDrops, Return, bundleVars, Stages, BundlesKept, Valid
<1>. QED BY <1>1, <1>2, <1>3, <1>4, <1>5, <1>6, <1>7, <1>8, <1>9 DEF BundlesStep, BundlesNext

LEMMA BundlesKeptStep ==
    ASSUME Stages, BundlesKept, [CommandsNext]_commandVars
    PROVE  BundlesKept'
<1>1. CASE UNCHANGED commandVars
  <2>1. UNCHANGED <<bundle, bundles, prog, stage, cli>>
      BY <1>1 DEF commandVars, appVars, bundleVars
  <2>. QED BY <2>1 DEF BundlesKept, Valid, Started, IsEnabled, GetValue
<1>2. CASE BundlesStep
    BY <1>2, KeptByBundles
<1>3. CASE AppStep \/ SettingsStep \/ ProxyStep \/ StreamStep \/ IdlcStep
    BY <1>3, KeptByOthers
<1>. QED BY <1>1, <1>2, <1>3 DEF CommandsNext

LEMMA AlwaysKept == CommandsSpec => [](Stages /\ Compiles /\ BundlesKept)
<1>1. Stages /\ Compiles /\ BundlesKept /\ [CommandsNext]_commandVars => (Stages /\ Compiles /\ BundlesKept)'
    BY StagesStep, BundlesKeptStep
<1>. QED BY <1>1, StagesInit, PTL DEF CommandsSpec

(* Whatever the libraries and their symbols and whatever the calls of a    *)
(* client, no bundle holds its library open, has an activator or leaves    *)
(* the states RESOLVED and ACTIVE (Bundle, SharedLib).                     *)
THEOREM LibraryIsClosed == CommandsSpec => []LibraryClosed
<1>1. BundlesKept => LibraryClosed
  <2> SUFFICES ASSUME BundlesKept PROVE LibraryClosed
      OBVIOUS
  <2>1. CASE bundle = NoBundle
      BY <2>1 DEF BundlesKept, LibraryClosed, NoBundle, BundleOf
  <2>2. CASE \E f : Closed(bundle, f)
      BY <2>2 DEF BundlesKept, LibraryClosed, Closed, BundleOf
  <2>. QED BY <2>1, <2>2 DEF BundlesKept
<1>. QED BY <1>1, AlwaysKept, PTL

-----------------------------------------------------------------------------
(* The listeners of the proxy. *)

Main    == Configured("intf-main/listen-uri")
Console == Configured("intf-console/listen-uri")

(* The URLs of both interfaces in the order of the listeners.              *)
UrlOf(i)  == IF i <= Len(Main) THEN Main[i] ELSE Console[i - Len(Main)]
FaceOf(i) == IF i <= Len(Main) THEN "main" ELSE "console"

ServesAt(l, i) == Serves(l, FaceOf(i), UrlOf(i))
SocketOf(l) == Sock(l.address, l.port)

(* Each listener so far serves its URL and has the only socket of its own. *)
Listening ==
    /\ \E S : listeners \in Seq(S)
    /\ \A i \in DOMAIN listeners : ServesAt(listeners[i], i)
    /\ openFds = {SocketOf(listeners[i]) : i \in DOMAIN listeners}
    /\ IsFiniteSet(openFds) /\ Cardinality(openFds) = Len(listeners)

FromFile == stored \in ConfigFiles.proxy /\ settings = Define(stored, Range(Parameters.proxy))

(* The URLs that are left are those after the listeners.                   *)
ToOpen ==
    /\ \E S : urls \in Seq(S)
    /\ context \in {"none", Configured(Interface[face].keystore)}
    /\ Len(listeners) + Len(urls) = Len(Main) + (IF face = "console" THEN Len(Console) ELSE 0)
    /\ face = "console" => Len(listeners) >= Len(Main)
    /\ \A i \in 1 .. Len(urls) : urls[i] = UrlOf(Len(listeners) + i)

Opening ==
    /\ FromFile /\ Listening
    /\ face \in {"none", "main", "console"}
    /\ face = "none" => listeners = <<>> /\ urls = <<>> /\ context = "none"
    /\ face # "none" => ToOpen

ProxyKept ==
    prog = "proxy" =>
        /\ stage \in {"init", "exec"} => ProxyIdle
        /\ stage = "configured" => Opening
        /\ stage \in Serving => FromFile /\ Listening /\ AllListen

LEMMA ProxyNames ==
    /\ {"intf-main/listen-uri", "intf-console/listen-uri", "intf-main/keystore-path", "intf-console/keystore-path",
        "intf-main/format"} \subseteq Range(Parameters.proxy)
    /\ \A f \in {"main", "console"} :
          /\ Interface[f].keystore \in {"intf-main/keystore-path", "intf-console/keystore-path"}
          /\ Interface[f].uris \in {"intf-main/listen-uri", "intf-console/listen-uri"}
<1>1. Parameters.proxy[3] = "intf-console/listen-uri" /\ Parameters.proxy[7] = "intf-main/listen-uri"
      /\ Parameters.proxy[1] = "intf-console/keystore-path" /\ Parameters.proxy[5] = "intf-main/keystore-path"
      /\ Parameters.proxy[4] = "intf-main/format" /\ DOMAIN Parameters.proxy = 1 .. 7
    BY DEF Parameters
<1>2. \A f \in {"main", "console"} :
          /\ Interface[f].keystore \in {"intf-main/keystore-path", "intf-console/keystore-path"}
          /\ Interface[f].uris \in {"intf-main/listen-uri", "intf-console/listen-uri"}
    BY DEF Interface
<1>. QED BY <1>1, <1>2 DEF Range

(* Settings::define leaves what the file has and sets the default of what  *)
(* it has not.                                                             *)
LEMMA SettingsHold ==
    ASSUME FromFile
    PROVE  /\ \A n \in Range(Parameters.proxy) : settings[n] = Configured(n)
           /\ \E S : Main \in Seq(S)
           /\ \E S : Console \in Seq(S)
           /\ Len(Main) \in Nat /\ Len(Console) \in Nat
<1>1. \A n \in Range(Parameters.proxy) : settings[n] = Configured(n)
    BY DEF FromFile, Define, Configured, ValueIn
<1>2. Main \in Seq(Range(Main)) /\ Console \in Seq(Range(Console))
    BY HostsAssumption DEF FromFile, Main, Console, Configured
<1>. QED BY <1>1, <1>2

(* The socket that a listener is bound to is one of the addresses of its   *)
(* host, and nobody else has it.                                           *)
LEMMA BoundSocket ==
    ASSUME NEW addresses, NEW S, addresses \in Seq(S), NEW port,
           NEW outcomes \in [1 .. Len(addresses) -> AttemptOutcomes], Possible(outcomes, addresses, port),
           LastAttempt(outcomes) # 0, outcomes[LastAttempt(outcomes)] = "bound"
    PROVE  /\ LastAttempt(outcomes) \in DOMAIN addresses
           /\ ~InUse(addresses[LastAttempt(outcomes)], port)
           /\ LeftOpen(outcomes, addresses, port) = {Sock(addresses[LastAttempt(outcomes)], port)}
<1> DEFINE I == {i \in 1 .. Len(outcomes) : outcomes[i] # "refused"}
<1>1. outcomes \in Seq(AttemptOutcomes) /\ Len(outcomes) = Len(addresses) /\ DOMAIN outcomes = 1 .. Len(addresses)
      /\ DOMAIN addresses = 1 .. Len(addresses) /\ Len(addresses) \in Nat
    OBVIOUS
<1>2. LastAttempt(outcomes) = IF I # {} THEN Min(I) ELSE 0
    BY DEF LastAttempt, SelectInSeq
<1>3. I \subseteq Nat
    BY <1>1
<1> HIDE DEF I
<1>4. LastAttempt(outcomes) \in I
    BY <1>2, <1>3, LeastNumber
<1>5. LastAttempt(outcomes) \in DOMAIN addresses
    BY <1>1, <1>4 DEF I
<1>. QED BY <1>5 DEF Possible, LeftOpen

LEMMA SameFile ==
    ASSUME UNCHANGED stored
    PROVE  /\ Main' = Main /\ Console' = Console
           /\ \A n : Configured(n)' = Configured(n)
           /\ \A i : UrlOf(i)' = UrlOf(i)
           /\ \A l, i : ServesAt(l, i)' <=> ServesAt(l, i)
<1>1. \A n : Configured(n)' = Configured(n)
    BY DEF Configured
<1>2. Main' = Main /\ Console' = Console
    BY DEF Main, Console, Configured
<1>3. \A i : UrlOf(i)' = UrlOf(i) /\ FaceOf(i)' = FaceOf(i)
    BY <1>2 DEF UrlOf, FaceOf
<1>4. \A l, i : ServesAt(l, i)' <=> ServesAt(l, i)
    BY <1>1, <1>3 DEF ServesAt, Serves
<1>. QED BY <1>1, <1>2, <1>3, <1>4

LEMMA ListeningStays ==
    ASSUME Listening, UNCHANGED <<stored, listeners, openFds>>
    PROVE  Listening'
BY SameFile DEF Listening, SocketOf

LEMMA ListensOn ==
    ASSUME Listening, UNCHANGED stored, NEW l, listeners' = Append(listeners, l),
           openFds' = openFds \cup {SocketOf(l)}, SocketOf(l) \notin openFds, ServesAt(l, Len(listeners) + 1)
    PROVE  Listening' /\ Len(listeners') = Len(listeners) + 1 /\ Len(listeners) \in Nat
<1>1. PICK S : listeners \in Seq(S)
    BY DEF Listening
<1>2. listeners \in Seq(S \cup {l}) /\ l \in S \cup {l}
    BY <1>1, SeqMonotonic
<1> DEFINE n == Len(listeners)
<1>3. /\ listeners' \in Seq(S \cup {l}) /\ Len(listeners') = n + 1 /\ n \in Nat
      /\ DOMAIN listeners' = 1 .. n + 1 /\ DOMAIN listeners = 1 .. n
    BY <1>2
<1>4. \A i \in 1 .. n + 1 : listeners'[i] = IF i \in 1 .. n THEN listeners[i] ELSE l
    BY <1>2, <1>3
<1> HIDE DEF n
<1>5. \A i \in DOMAIN listeners' : ServesAt(listeners'[i], i)
  <2> TAKE i \in DOMAIN listeners'
  <2>1. ServesAt(listeners'[i], i)
    <3>1. CASE i \in 1 .. n
        BY <1>3, <1>4, <3>1 DEF Listening
    <3>2. CASE i = n + 1
      <4>1. listeners'[i] = l
          BY <1>3, <1>4, <3>2
      <4>. QED BY <3>2, <4>1 DEF n
    <3>. QED BY <1>3, <3>1, <3>2
  <2>. QED BY <2>1
<1>6. openFds' = {SocketOf(listeners'[i]) : i \in DOMAIN listeners'}
  <2>1. \A x : x \in openFds <=> \E i \in 1 .. n : x = SocketOf(listeners[i])
      BY <1>3 DEF Listening
  <2>2. \A x : x \in openFds' <=> \E i \in 1 .. n + 1 : x = SocketOf(listeners'[i])
    <3>1. \A i \in 1 .. n : i \in 1 .. n + 1 /\ listeners'[i] = listeners[i]
        BY <1>3, <1>4
    <3>2. n + 1 \in 1 .. n + 1 /\ listeners'[n + 1] = l
        BY <1>3, <1>4
    <3>3. \A i \in 1 .. n + 1 : i \in 1 .. n \/ i = n + 1
        BY <1>3
    <3>. QED BY <2>1, <3>1, <3>2, <3>3
  <2>. QED BY <1>3, <2>2
<1>7. IsFiniteSet(openFds') /\ Cardinality(openFds') = Len(listeners')
  <2>1. IsFiniteSet(openFds) /\ Cardinality(openFds) = n
      BY DEF Listening, n
  <2>. QED BY <1>3, <2>1, FS_AddElement
<1>. QED BY <1>3, <1>5, <1>6, <1>7, SameFile DEF Listening, SocketOf, n

-----------------------------------------------------------------------------
(* Each step of the start of the proxy. *)

LEMMA StartKept ==
    ASSUME ProxyKept, StartProxy, UNCHANGED settingsVars
    PROVE  ProxyKept'
<1>1. prog = "proxy" /\ stage = "configured" /\ face = "none" /\ Opening
    BY DEF StartProxy, ProxyKept
<1>2. UNCHANGED <<stored, settings, prog, listeners, openFds, context>>
    BY DEF StartProxy, settingsVars
<1>3. CASE stage' = "returned"
    BY <1>3 DEF ProxyKept, Serving
<1>4. CASE face' = "main" /\ urls' = settings["intf-main/listen-uri"] /\ UNCHANGED stage
  <2>1. FromFile /\ Listening /\ listeners = <<>> /\ context = "none"
      BY <1>1 DEF Opening
  <2>2. urls' = Main /\ Len(Main) \in Nat /\ \E S : Main \in Seq(S)
      BY <1>4, <2>1, SettingsHold, ProxyNames DEF Main
  <2>3. \A i \in 1 .. Len(Main) : UrlOf(0 + i) = Main[i]
      BY <2>2 DEF UrlOf
  <2>4. ToOpen'
    <3>1. Main' = Main /\ \A i : UrlOf(i)' = UrlOf(i)
        BY <1>2, SameFile
    <3>2. listeners' = <<>> /\ Len(<<>>) = 0 /\ context' = "none" /\ face' = "main"
        BY <1>2, <1>4, <2>1
    <3>3. \A i \in 1 .. Len(urls') : urls'[i] = UrlOf(Len(listeners') + i)
        BY <2>2, <2>3, <3>1, <3>2
    <3>. QED BY <2>2, <3>1, <3>2, <3>3 DEF ToOpen
  <2>5. FromFile' /\ Listening'
      BY <1>2, <2>1, ListeningStays DEF FromFile
  <2>6. Opening'
      BY <1>4, <2>4, <2>5 DEF Opening
  <2>. QED BY <1>1, <1>2, <1>4, <2>6 DEF ProxyKept, Serving
<1>. QED BY <1>3, <1>4 DEF StartProxy, Return

LEMMA NextKept ==
    ASSUME ProxyKept, NextInterface, UNCHANGED settingsVars
    PROVE  ProxyKept'
<1>1. prog = "proxy" /\ stage = "configured" /\ face # "none" /\ urls = <<>> /\ Opening
    BY DEF NextInterface, ProxyKept
<1>2. UNCHANGED <<stored, settings, prog, listeners, openFds>>
    BY DEF NextInterface, settingsVars
<1>3. FromFile /\ Listening /\ ToOpen /\ face \in {"main", "console"}
    BY <1>1 DEF Opening
<1>4. FromFile' /\ Listening'
    BY <1>2, <1>3, ListeningStays DEF FromFile
<1>5. /\ Len(listeners) = Len(Main) + (IF face = "console" THEN Len(Console) ELSE 0)
      /\ Len(Main) \in Nat /\ Len(Console) \in Nat /\ Len(listeners) \in Nat
  <2>1. Len(urls) = 0
      BY <1>1
  <2>2. Len(listeners) \in Nat
      BY <1>3 DEF Listening
  <2>. QED BY <1>3, <2>1, <2>2, SettingsHold DEF ToOpen
<1>6. CASE face = "main"
  <2>1. face' = "console" /\ urls' = Console /\ context' = "none" /\ UNCHANGED stage /\ \E S : Console \in Seq(S)
      BY <1>3, <1>6, SettingsHold, ProxyNames DEF NextInterface, Console
  <2>2. \A i \in 1 .. Len(Console) : UrlOf(Len(Main) + i) = Console[i]
      BY <1>5 DEF UrlOf
  <2>3. Main' = Main /\ Console' = Console /\ \A i : UrlOf(i)' = UrlOf(i)
      BY <1>2, SameFile
  <2>4. ToOpen'
    <3>1. Len(listeners') = Len(Main) /\ face' = "console"
        BY <1>2, <1>5, <1>6, <2>1
    <3>2. \A i \in 1 .. Len(urls') : urls'[i] = UrlOf(Len(listeners') + i)
        BY <2>1, <2>2, <2>3, <3>1
    <3>. QED BY <1>5, <2>1, <2>3, <3>1, <3>2 DEF ToOpen
  <2>5. Opening'
      BY <1>4, <2>1, <2>4 DEF Opening
  <2>. QED BY <1>1, <1>2, <2>1, <2>5 DEF ProxyKept, Serving
<1>7. CASE face = "console"
  <2>1. stage' = "started" /\ AllListen'
    <3>1. Len(listeners) = Len(Main) + Len(Console)
        BY <1>5, <1>7
    <3>2. Main' = Main /\ Console' = Console
        BY <1>2, SameFile
    <3>. QED BY <1>2, <1>7, <3>1, <3>2 DEF NextInterface, AllListen, Main, Console
  <2>. QED BY <1>1, <1>2, <1>4, <2>1 DEF ProxyKept, Serving
<1>. QED BY <1>3, <1>6, <1>7

LEMMA OpenKept ==
    ASSUME ProxyKept, OpenListener, UNCHANGED settingsVars
    PROVE  ProxyKept'
<1> DEFINE url == Head(urls)
           path == IF context = "none" THEN settings[Interface[face].keystore] ELSE context
           next == Len(listeners) + 1
<1>1. prog = "proxy" /\ stage = "configured" /\ urls # <<>> /\ Opening
    BY DEF OpenListener, ProxyKept
<1>2. UNCHANGED <<stored, settings, prog, face>>
    BY DEF OpenListener, settingsVars
<1>3. FromFile /\ Listening /\ ToOpen /\ face \in {"main", "console"}
    BY <1>1 DEF Opening
<1>4. path = Configured(Interface[face].keystore)
  <2>1. settings[Interface[face].keystore] = Configured(Interface[face].keystore)
      BY <1>3, SettingsHold, ProxyNames
  <2>. QED BY <1>3, <2>1 DEF ToOpen
<1>5. CASE stage' \in {"returned", "exited"}
    BY <1>5 DEF ProxyKept, Serving
<1>6. CASE /\ context' = IF IsSsl(url) THEN path ELSE context
           /\ Addresses[url.host] # <<>> /\ Listen(url, path) /\ stage' \notin {"returned", "exited"}
  <2> DEFINE addresses == Addresses[url.host]
             port == PortOf(face, url)
  <2>1. PICK outcomes \in [1 .. Len(addresses) -> AttemptOutcomes] :
           /\ Possible(outcomes, addresses, port)
           /\ openFds' = openFds \cup LeftOpen(outcomes, addresses, port)
           /\ LastAttempt(outcomes) # 0 /\ outcomes[LastAttempt(outcomes)] = "bound"
           /\ listeners' = Append(listeners, [address |-> addresses[LastAttempt(outcomes)], port |-> port,
                                              ssl |-> IF IsSsl(url) THEN path ELSE "none",
                                              factory |-> FactoryOf(face), keepAlive |-> face = "main"])
           /\ urls' = Tail(urls) /\ UNCHANGED stage
      BY <1>6 DEF Listen, Fails, Return
  <2>2. PICK last : last = LastAttempt(outcomes)
      OBVIOUS
  <2>3. PICK k \in BOOLEAN : k = (face = "main")
      OBVIOUS
  <2> DEFINE l == [address |-> addresses[last], port |-> port, ssl |-> IF IsSsl(url) THEN path ELSE "none",
                   factory |-> FactoryOf(face), keepAlive |-> k]
  <2>4. PICK S : urls \in Seq(S)
      BY <1>3 DEF ToOpen
  <2>5. PICK T : listeners \in Seq(T)
      BY <1>3 DEF Listening
  <2>6. /\ Len(listeners) \in Nat /\ Len(Main) \in Nat /\ Len(Console) \in Nat /\ Len(urls) \in Nat \ {0}
        /\ urls' \in Seq(S) /\ Len(urls') = Len(urls) - 1 /\ \A i \in 1 .. Len(urls) - 1 : urls'[i] = urls[i + 1]
        /\ url = urls[1]
      BY <1>1, <1>3, <2>1, <2>4, <2>5, SettingsHold
  <2>7. url = UrlOf(next) /\ FaceOf(next) = face
    <3>1. url = UrlOf(next)
      <4>1. urls[1] = UrlOf(Len(listeners) + 1)
          BY <1>3, <2>6 DEF ToOpen
      <4>. QED BY <2>6, <4>1
    <3>2. FaceOf(next) = face
      <4>1. /\ face = "console" => Len(listeners) >= Len(Main)
            /\ Len(listeners) + Len(urls) = Len(Main) + (IF face = "console" THEN Len(Console) ELSE 0)
          BY <1>3 DEF ToOpen
      <4>2. next \in Nat /\ (face = "console" => next > Len(Main)) /\ (face = "main" => next <= Len(Main))
          BY <2>6, <4>1
      <4>3. face = IF next <= Len(Main) THEN "main" ELSE "console"
        <5>1. CASE face = "main"
            BY <4>2, <5>1
        <5>2. CASE face = "console"
            BY <2>6, <4>2, <5>2
        <5>3. face \in {"main", "console"}
            BY <1>3 DEF ToOpen
        <5>. QED BY <5>1, <5>2, <5>3
      <4>. QED BY <4>3 DEF FaceOf
    <3>. QED BY <3>1, <3>2
  <2>8. url.host \in DOMAIN Addresses
    <3>1. next \in 1 .. Len(Main) + (IF face = "console" THEN Len(Console) ELSE 0)
        BY <1>3, <2>6 DEF ToOpen
    <3>2. url \in Range(Main) \cup Range(Console)
      <4>1. CASE next <= Len(Main)
        <5>1. Main[next] \in Range(Main)
            BY <2>6, <3>1, <4>1, SettingsHold, <1>3 DEF Range
        <5>. QED BY <2>7, <4>1, <5>1 DEF UrlOf
      <4>2. CASE next > Len(Main)
        <5>1. next - Len(Main) \in 1 .. Len(Console)
            BY <2>6, <3>1, <4>2
        <5>2. Console[next - Len(Main)] \in Range(Console)
            BY <1>3, <5>1, SettingsHold DEF Range
        <5>. QED BY <2>6, <2>7, <4>2, <5>2 DEF UrlOf
      <4>. QED BY <2>6, <4>1, <4>2
    <3>. QED BY <1>3, <3>2, HostsAssumption DEF FromFile, Main, Console, Configured
  <2>9. addresses \in Seq(Range(addresses))
      BY <2>8, HostsAssumption
  <2> HIDE DEF addresses, port, url, path, next
  <2>10. /\ last \in DOMAIN addresses /\ ~InUse(addresses[last], port)
         /\ LeftOpen(outcomes, addresses, port) = {Sock(addresses[last], port)}
      BY <2>1, <2>2, <2>9, BoundSocket
  <2>11. /\ l.address = addresses[last] /\ l.port = port /\ l.factory = FactoryOf(face)
         /\ l.ssl = (IF IsSsl(url) THEN path ELSE "none") /\ l.keepAlive = k
      BY <2>3
  <2>12. listeners' = Append(listeners, l)
      BY <2>1, <2>2, <2>3
  <2> HIDE DEF l
  <2>13. openFds' = openFds \cup {SocketOf(l)}
      BY <2>1, <2>10, <2>11 DEF SocketOf
  <2>14. SocketOf(l) \notin openFds
    <3>1. \A i \in DOMAIN listeners : SocketOf(listeners[i]) # SocketOf(l)
        BY <2>10, <2>11 DEF SocketOf, Sock, InUse
    <3>. QED BY <1>3, <3>1 DEF Listening
  <2>15. ServesAt(l, next)
    <3>1. l.address \in Range(Addresses[url.host]) /\ l.port = PortOf(face, url)
        BY <2>10, <2>11 DEF Range, addresses, port
    <3>2. FactoryOf(face) = IF face = "main" THEN Configured("intf-main/format") ELSE "HTTP"
      <4>1. settings["intf-main/format"] = Configured("intf-main/format")
          BY <1>3, SettingsHold, ProxyNames
      <4>. QED BY <4>1 DEF FactoryOf
    <3>3. l.keepAlive = (face = "main")
        BY <2>3, <2>11
    <3>4. l.ssl = IF IsSsl(url) THEN Configured(Interface[face].keystore) ELSE "none"
        BY <1>4, <2>11
    <3>5. Serves(l, face, url)
        BY <2>11, <3>1, <3>2, <3>3, <3>4 DEF Serves
    <3>. QED BY <2>7, <3>5 DEF ServesAt
  <2>16. Listening' /\ Len(listeners') = next
      BY <1>2, <1>3, <2>12, <2>13, <2>14, <2>15, ListensOn DEF next
  <2>17. ToOpen'
    <3>1. Main' = Main /\ Console' = Console /\ (\A i : UrlOf(i)' = UrlOf(i)) /\ \A n : Configured(n)' = Configured(n)
        BY <1>2, SameFile
    <3>2. \A i \in 1 .. Len(urls') : urls'[i] = UrlOf(Len(listeners') + i)
      <4> TAKE i \in 1 .. Len(urls')
      <4>1. i + 1 \in 1 .. Len(urls) /\ urls'[i] = urls[i + 1]
          BY <2>6
      <4>2. urls[i + 1] = UrlOf(Len(listeners) + (i + 1))
          BY <1>3, <4>1 DEF ToOpen
      <4>3. Len(listeners) + (i + 1) = Len(listeners') + i
          BY <2>6, <2>16 DEF next
      <4>. QED BY <3>1, <4>1, <4>2, <4>3
    <3>3. context' \in {"none", Configured(Interface[face].keystore)}
      <4>1. context \in {"none", Configured(Interface[face].keystore)}
          BY <1>3 DEF ToOpen
      <4>. QED BY <1>4, <1>6, <4>1
    <3>4. /\ Len(listeners') + Len(urls') = Len(Main') + (IF face' = "console" THEN Len(Console') ELSE 0)
          /\ face' = "console" => Len(listeners') >= Len(Main')
      <4>1. /\ Len(listeners) + Len(urls) = Len(Main) + (IF face = "console" THEN Len(Console) ELSE 0)
            /\ face = "console" => Len(listeners) >= Len(Main)
          BY <1>3 DEF ToOpen
      <4>2. face' = face
          BY <1>2
      <4>3. Len(listeners') = Len(listeners) + 1 /\ Len(urls') = Len(urls) - 1
          BY <2>6, <2>16 DEF next
      <4>6. Len(listeners) \in Nat /\ Len(Main) \in Nat /\ Len(Console) \in Nat /\ Len(urls) \in Nat
          BY <2>6
      <4>7. Main' = Main /\ Console' = Console
          BY <3>1
      <4>4. CASE face = "main"
        <5>1. Len(listeners) + Len(urls) = Len(Main)
            BY <4>1, <4>4, <4>6
        <5>2. Len(listeners') + Len(urls') = Len(Main)
            BY <4>3, <4>6, <5>1
        <5>. QED BY <4>2, <4>4, <4>6, <4>7, <5>2
      <4>5. CASE face = "console"
        <5>1. Len(listeners) + Len(urls) = Len(Main) + Len(Console) /\ Len(listeners) >= Len(Main)
            BY <4>1, <4>5
        <5>2. Len(listeners') + Len(urls') = Len(Main) + Len(Console) /\ Len(listeners') >= Len(Main)
            BY <4>3, <4>6, <5>1
        <5>. QED BY <4>2, <4>5, <4>7, <5>2
      <4>. QED BY <1>3, <4>4, <4>5
    <3>. QED BY <1>2, <2>6, <3>1, <3>2, <3>3, <3>4 DEF ToOpen
  <2>18. Opening'
      BY <1>2, <1>3, <2>16, <2>17 DEF Opening, FromFile
  <2>. QED BY <1>1, <1>2, <2>1, <2>18 DEF ProxyKept, Serving
<1>. QED BY <1>5, <1>6 DEF OpenListener, Fails, Return

(* The settings are read once, when nothing listens yet. *)
LEMMA SettingsKept ==
    ASSUME ProxyKept, SettingsStep
    PROVE  ProxyKept'
<1>1. CASE OpenSettings
  <2>1. stage = "exec" /\ stage' \in {"setup", "configured"} /\ prog' = prog
      BY <1>1 DEF OpenSettings
  <2>2. CASE prog # "proxy" \/ stage' = "setup"
      BY <2>1, <2>2 DEF ProxyKept, Serving
  <2>3. CASE prog = "proxy" /\ stage' = "configured"
    <3>1. ProxyIdle /\ ProxyIdle'
        BY <2>1, <2>3 DEF ProxyKept, SettingsStep, proxyVars, ProxyIdle
    <3>2. FromFile'
        BY <1>1, <2>3 DEF OpenSettings, FromFile
    <3>3. Listening'
      <4>1. listeners' = <<>> /\ openFds' = {}
          BY <3>1 DEF ProxyIdle
      <4>2. listeners' \in Seq({}) /\ DOMAIN listeners' = {} /\ Len(listeners') = 0
          BY <4>1
      <4>. QED BY <4>1, <4>2, FS_EmptySet DEF Listening
    <3>4. Opening'
        BY <3>1, <3>2, <3>3 DEF Opening, ProxyIdle
    <3>. QED BY <2>3, <3>4 DEF ProxyKept, Serving
  <2>. QED BY <2>1, <2>2, <2>3
<1>2. CASE Answer \/ EndSetup
    BY <1>2 DEF Answer, EndSetup, Return, ProxyKept, Serving
<1>. QED BY <1>1, <1>2 DEF SettingsStep, SettingsNext

LEMMA ProxyAlone ==
    ASSUME Stages, prog = "proxy", AppStep \/ BundlesStep \/ StreamStep \/ IdlcStep
    PROVE  /\ UNCHANGED <<prog, stored, settings, urls, face, context, listeners, openFds>>
           /\ stage' = stage \/ stage' \in {"exec", "returned", "exited"} \/ (stage \in Serving /\ stage' \in Serving)
           /\ stage' = "exec" => stage \in {"init", "exec"}
<1>1. CASE AppStep
    BY <1>1 DEF AppStep, settingsVars, proxyVars, AppNext, RunNext, ParseArguments, InstallHandlers, EnterLoop, Terminate,
                EventThrows, LeaveLoop, Killed, Return, Serving
<1>2. CASE BundlesStep
    BY <1>2 DEF BundlesStep, settingsVars, proxyVars, BundlesNext, OutputIsFile, StartContainer, DestroyApplication,
                StartMaster, TryBundle, EndSearch, ClientMakes, ClientCalls, ClientDrops, Return, Stages
<1>3. CASE StreamStep
    BY <1>3 DEF StreamStep, settingsVars, proxyVars, StreamNext, ReaderNext, OpenChannel, SetDeadline, Call, Poll, Count,
                Decide, Wait, Take, PeerWrites, PartArrives, PeerCloses, CloseElsewhere, DeadlinePasses, AppFrame, appVars
<1>4. CASE IdlcStep
    BY <1>4 DEF IdlcStep, settingsVars, proxyVars, IdlcNext, Begin, OpenInput, Declare, EndInclude, EndInput, ChooseTarget,
                Collect, ProcessNext, ProcessParent, UndefinedParent, MergeParent, Complete, EndLink, WriteResult, Exits,
                Finish, GoOn, Return, LinkFrame, Enter
<1>. QED BY <1>1, <1>2, <1>3, <1>4

LEMMA ProxyKeptStep ==
    ASSUME Stages, ProxyKept, [CommandsNext]_commandVars
    PROVE  ProxyKept'
<1>1. CASE ProxyStep
    BY <1>1, StartKept, NextKept, OpenKept DEF ProxyStep, ProxyNext
<1>2. CASE SettingsStep
    BY <1>2, SettingsKept
<1>3. CASE AppStep \/ BundlesStep \/ StreamStep \/ IdlcStep \/ UNCHANGED commandVars
  <2>0. prog' = prog
      BY <1>3, CommonMoves DEF commandVars, appVars, CommandsNext
  <2>1. CASE prog # "proxy"
      BY <2>0, <2>1 DEF ProxyKept
  <2>2. CASE prog = "proxy"
    <3>1. /\ UNCHANGED <<prog, stored, settings, urls, face, context, listeners, openFds>>
          /\ stage' = stage \/ stage' \in {"exec", "returned", "exited"} \/ (stage \in Serving /\ stage' \in Serving)
          /\ stage' = "exec" => stage \in {"init", "exec"}
        BY <1>3, <2>2, ProxyAlone DEF commandVars, appVars, settingsVars, proxyVars
    <3>2. Listening => Listening'
        BY <3>1, ListeningStays
    <3>3. AllListen' <=> AllListen
        BY <3>1 DEF AllListen, Configured
    <3>4. ToOpen => ToOpen'
        BY <3>1, SameFile DEF ToOpen
    <3>7. FromFile => FromFile'
        BY <3>1 DEF FromFile
    <3>5. Opening => Opening'
        BY <3>1, <3>2, <3>4, <3>7 DEF Opening
    <3>6. ProxyIdle => ProxyIdle'
        BY <3>1 DEF ProxyIdle
    <3>. QED BY <2>2, <3>1, <3>2, <3>3, <3>5, <3>6, <3>7 DEF ProxyKept, Serving
  <2>. QED BY <2>1, <2>2
<1>. QED BY <1>1, <1>2, <1>3 DEF CommandsNext

LEMMA AlwaysListens == CommandsSpec => []ProxyKept
<1>1. CommandsInit => ProxyKept
    BY DEF CommandsInit, AppInit, ProxyKept, Serving
<1>2. Stages /\ ProxyKept /\ [CommandsNext]_commandVars => ProxyKept'
    BY ProxyKeptStep
<1>. QED BY <1>1, <1>2, AlwaysKept, PTL DEF CommandsSpec

(* Whatever the settings, the addresses of the hosts and what bind() makes *)
(* of them: a proxy that runs has a listener for each of its URLs, in      *)
(* order, and no socket besides (Proxy::onStart, __bind).                  *)
THEOREM AllUrlsServed == CommandsSpec => []ListenersComplete
<1>1. ProxyKept => ListenersComplete
  <2> SUFFICES ASSUME ProxyKept, prog = "proxy", stage \in {"started", "ready", "loop"}
               PROVE  /\ Len(listeners) = Len(Main) + Len(Console)
                      /\ \A i \in DOMAIN Main : Serves(listeners[i], "main", Main[i])
                      /\ \A i \in DOMAIN Console : Serves(listeners[Len(Main) + i], "console", Console[i])
                      /\ openFds = {SocketOf(listeners[i]) : i \in DOMAIN listeners}
                      /\ Cardinality(openFds) = Len(listeners)
      BY DEF ListenersComplete, SocketOf, Main, Console
  <2>1. FromFile /\ Listening /\ Len(listeners) = Len(Main) + Len(Console)
      BY DEF ProxyKept, Serving, AllListen, Main, Console
  <2>2. DOMAIN Main = 1 .. Len(Main) /\ DOMAIN Console = 1 .. Len(Console) /\ Len(Main) \in Nat /\ Len(Console) \in Nat
      BY <2>1, SettingsHold
  <2>3. DOMAIN listeners = 1 .. Len(Main) + Len(Console)
      BY <2>1 DEF Listening
  <2>4. ASSUME NEW i \in DOMAIN Main
        PROVE  Serves(listeners[i], "main", Main[i])
    <3>1. i \in DOMAIN listeners /\ FaceOf(i) = "main" /\ UrlOf(i) = Main[i]
        BY <2>2, <2>3, <2>4 DEF FaceOf, UrlOf
    <3>. QED BY <2>1, <3>1 DEF Listening, ServesAt
  <2>5. ASSUME NEW i \in DOMAIN Console
        PROVE  Serves(listeners[Len(Main) + i], "console", Console[i])
    <3>1. Len(Main) + i \in DOMAIN listeners /\ ~(Len(Main) + i <= Len(Main)) /\ (Len(Main) + i) - Len(Main) = i
        BY <2>2, <2>3, <2>5
    <3>2. FaceOf(Len(Main) + i) = "console" /\ UrlOf(Len(Main) + i) = Console[i]
        BY <3>1 DEF FaceOf, UrlOf
    <3>. QED BY <2>1, <3>1, <3>2 DEF Listening, ServesAt
  <2>. QED BY <2>1, <2>4, <2>5 DEF Listening
<1>. QED BY <1>1, AlwaysListens, PTL

-----------------------------------------------------------------------------
(* What an exit code says. *)

Deserved ==
    \/ Asked
    \/ prog = "master" /\ cli.ok /\ (IsEnabled("editSettings") \/ \E i \in DOMAIN bundles : Valid(bundles[i].file))
    \/ prog = "container" /\ cli.ok /\ Valid(GetValue("bundleFile")) /\ ~Started(GetValue("bundleFile"))
    \/ prog = "proxy" /\ cli.ok /\ (IsEnabled("editSettings") \/ AllListen)
    \/ prog = "idlc" /\ cli.extra # <<>>

Aborted ==
    \/ prog = "container" /\ (cli.values = <<>> \/ Started(GetValue("bundleFile")))
    \/ prog = "client"

Crashed ==
    \/ prog = "proxy" /\ Addresses[Head(urls).host] = <<>>
    \/ prog = "idlc" /\ machine.crashed
    \/ prog = "reader" /\ task.pc = "none"

ExitKept ==
    /\ exit = "0" /\ prog \in DOMAIN Options => Deserved
    /\ exit = "terminated" => Aborted
    /\ exit = "crashed" => Crashed

(* What none of a group of steps touches stays as it was. *)
LEMMA SameCauses ==
    ASSUME UNCHANGED <<prog, cli, bundles, listeners, stored, urls>>
    PROVE  /\ Deserved' <=> Deserved
           /\ Aborted' <=> Aborted
<1>1. AllListen' <=> AllListen
    BY DEF AllListen, Configured
<1>2. \A f : Started(f)' <=> Started(f)
    BY DEF Started, Valid, IsEnabled
<1>3. Asked' <=> Asked
    BY DEF Asked
<1>4. GetValue("bundleFile")' = GetValue("bundleFile")
    BY DEF GetValue
<1>5. Aborted' <=> Aborted
    BY <1>2, <1>4 DEF Aborted
<1>6. Deserved' <=> Deserved
    BY <1>1, <1>2, <1>3, <1>4 DEF Deserved, IsEnabled, Valid
<1>. QED BY <1>5, <1>6

LEMMA AppExits ==
    ASSUME Stages, BundlesKept, ProxyKept, ExitKept, AppStep
    PROVE  ExitKept'
<1>1. CASE ParseArguments
    BY <1>1 DEF ParseArguments, Return, Stages, ExitKept, Deserved, Asked
<1>2. CASE InstallHandlers \/ EnterLoop \/ Terminate \/ EventThrows
  <2>1. exit' = "none"
      BY <1>2 DEF InstallHandlers, EnterLoop, Terminate, EventThrows, Stages
  <2>. QED BY <2>1 DEF ExitKept
<1>3. CASE LeaveLoop
  <2>1. exit' = "0" /\ stage \in Serving /\ UNCHANGED <<prog, cli, bundles, listeners, stored, urls>>
      BY <1>3 DEF LeaveLoop, Return, AppStep, Serving, bundleVars, proxyVars, settingsVars
  <2>2. cli.ok /\ prog \in {"master", "container", "proxy"}
      BY <2>1 DEF Stages, Underway, Serving
  <2>3. Deserved
    <3>1. CASE prog = "master"
      <4>1. bundles # <<>> /\ \E S : bundles \in Seq(S)
          BY <2>1, <3>1 DEF BundlesKept
      <4>2. 1 \in DOMAIN bundles
          BY <4>1
      <4>3. Valid(bundles[1].file)
          BY <4>2 DEF BundlesKept
      <4>. QED BY <2>2, <3>1, <4>2, <4>3 DEF Deserved
    <3>2. CASE prog = "container"
        BY <2>1, <2>2, <3>2 DEF BundlesKept, Deserved
    <3>3. CASE prog = "proxy"
        BY <2>1, <2>2, <3>3 DEF ProxyKept, Deserved
    <3>. QED BY <2>2, <3>1, <3>2, <3>3
  <2>. QED BY <2>1, <2>3, SameCauses DEF ExitKept
<1>4. CASE Killed
    BY <1>4 DEF Killed, ExitKept
<1>. QED BY <1>1, <1>2, <1>3, <1>4 DEF AppStep, AppNext, RunNext

LEMMA SettingsExits ==
    ASSUME Stages, ExitKept, SettingsStep
    PROVE  ExitKept'
<1>1. CASE OpenSettings \/ Answer
  <2>1. exit' = "none"
      BY <1>1 DEF OpenSettings, Answer, Stages
  <2>. QED BY <2>1 DEF ExitKept
<1>2. CASE EndSetup
  <2>1. exit' = "0" /\ prog' = prog /\ cli' = cli /\ cli.ok /\ IsEnabled("editSettings") /\ prog \in {"master", "proxy"}
      BY <1>2 DEF EndSetup, Return, Stages, Underway
  <2>2. Deserved'
      BY <2>1 DEF Deserved, IsEnabled
  <2>. QED BY <2>1, <2>2 DEF ExitKept
<1>. QED BY <1>1, <1>2 DEF SettingsStep, SettingsNext

LEMMA BundlesExits ==
    ASSUME Stages, BundlesKept, ExitKept, BundlesStep
    PROVE  ExitKept'
<1>0. UNCHANGED <<prog, cli, listeners, stored, urls>>
    BY CommonMoves DEF BundlesStep, settingsVars, proxyVars, CommandsNext, BundlesNext, OutputIsFile, StartContainer,
       DestroyApplication, StartMaster, TryBundle, EndSearch, ClientMakes, ClientCalls, ClientDrops
<1>1. CASE OutputIsFile
  <2>1. exit' = "terminated" /\ prog = "container" /\ cli.values = <<>>
      BY <1>1 DEF OutputIsFile, Stages
  <2>. QED BY <1>0, <2>1 DEF ExitKept, Aborted
<1>2. CASE StartContainer
  <2> DEFINE file == GetValue("bundleFile")
  <2>1. exit' \in {"none", "1"} \/ (exit' = "0" /\ Construct(file).how = "done" /\ IsEnabled("bundleInfo"))
      BY <1>2 DEF StartContainer, Return, Stages
  <2>2. CASE exit' = "0"
    <3>1. Valid(file) /\ ~Started(file) /\ prog = "container" /\ cli.ok
        BY <1>2, <2>1, <2>2, Constructs DEF Started, StartContainer, Stages, Underway
    <3>2. UNCHANGED <<prog, cli, bundles, listeners, stored, urls>>
        BY <1>0, <1>2 DEF StartContainer
    <3>. QED BY <2>2, <3>1, <3>2, SameCauses DEF ExitKept, Deserved
  <2>. QED BY <2>1, <2>2 DEF ExitKept
<1>3. CASE DestroyApplication
  <2>1. UNCHANGED <<prog, cli, bundles, listeners, stored, urls>> /\ exit \in {"0", "1"}
      BY <1>0, <1>3 DEF DestroyApplication, Stages
  <2>2. exit' = exit \/ (exit' = "terminated" /\ bundle.state = "ACTIVE")
      BY <1>3 DEF DestroyApplication, Unwound
  <2>3. CASE exit' = exit
      BY <2>1, <2>3, SameCauses DEF ExitKept
  <2>4. CASE exit' = "terminated" /\ bundle.state = "ACTIVE"
    <3>1. NoBundle.state = "none"
        BY DEF NoBundle
    <3>2. prog \in {"container", "client"}
        BY <2>4, <3>1 DEF BundlesKept
    <3>3. Aborted
        BY <2>4, <3>2 DEF BundlesKept, Aborted
    <3>. QED BY <2>1, <2>4, <3>3, SameCauses DEF ExitKept
  <2>. QED BY <2>2, <2>3, <2>4
<1>4. CASE StartMaster \/ TryBundle \/ EndSearch \/ ClientMakes \/ ClientCalls
  <2>1. exit' \in {"none", "1"}
      BY <1>4 DEF StartMaster, TryBundle, EndSearch, ClientMakes, ClientCalls, Return, Stages
  <2>. QED BY <2>1 DEF ExitKept
<1>5. CASE ClientDrops
  <2>1. exit' = "0" /\ prog' = "client"
      BY <1>0, <1>5 DEF ClientDrops, Return, Stages
  <2>. QED BY <2>1 DEF ExitKept, Options
<1>. QED BY <1>1, <1>2, <1>3, <1>4, <1>5 DEF BundlesStep, BundlesNext

LEMMA ProxyExits ==
    ASSUME Stages, ExitKept, ProxyStep
    PROVE  ExitKept'
<1>1. exit = "none" /\ prog = "proxy" /\ prog' = "proxy"
    BY DEF ProxyStep, ProxyNext, StartProxy, OpenListener, NextInterface, Stages
<1>2. exit' \in {"none", "1"} \/ (exit' = "crashed" /\ Addresses[Head(urls).host] = <<>> /\ urls' = urls)
    BY <1>1 DEF ProxyStep, ProxyNext, StartProxy, OpenListener, NextInterface, Listen, Fails, Return
<1>. QED BY <1>1, <1>2 DEF ExitKept, Crashed

LEMMA StreamExits ==
    ASSUME Stages, ExitKept, StreamStep, StreamInv
    PROVE  ExitKept'
<1>1. CASE OpenChannel
  <2>1. exit' \in {"none", "1"} \/ (exit' = "crashed" /\ prog' = "reader" /\ task' = task)
      BY <1>1 DEF OpenChannel, Stages
  <2>2. task.pc = "none"
    <3>1. Unopened
        BY <1>1 DEF OpenChannel, StreamInv, Reading, StreamTyped, ChanT, WireT, TaskT, Pcs
    <3>2. NoTask.pc = "none"
        BY DEF NoTask
    <3>. QED BY <3>1, <3>2 DEF Unopened
  <2>. QED BY <2>1, <2>2 DEF ExitKept, Crashed
<1>2. CASE ~OpenChannel
  <2>1. UNCHANGED <<prog, cli, bundles, listeners, stored, urls, exit, machine>>
      BY <1>2 DEF StreamStep, settingsVars, proxyVars, bundleVars, idlcVars, StreamNext, ReaderNext, SetDeadline, Call,
                  Poll, Count, Decide, Wait, Take, PeerWrites, PartArrives, PeerCloses, CloseElsewhere, DeadlinePasses,
                  AppFrame, appVars
  <2>2. stage = "open" \/ task.pc # "none"
      BY <1>2 DEF StreamStep, StreamNext, ReaderNext, SetDeadline, Call, Poll, Count, Decide, Wait, Take, PeerWrites,
                  PartArrives, PeerCloses, CloseElsewhere, DeadlinePasses
  <2>3. exit = "crashed" => prog \in {"proxy", "idlc"}
      BY <2>2 DEF ExitKept, Crashed, Stages
  <2>4. Crashed /\ prog \in {"proxy", "idlc"} => Crashed'
      BY <2>1 DEF Crashed
  <2>. QED BY <2>1, <2>3, <2>4, SameCauses DEF ExitKept
<1>. QED BY <1>1, <1>2

LEMMA IdlcExits ==
    ASSUME Stages, Compiles, ExitKept, IdlcStep
    PROVE  ExitKept'
<1>0. UNCHANGED <<prog, cli>> /\ exit = "none" /\ prog = "idlc"
    BY DEF IdlcStep, IdlcNext, Begin, OpenInput, Declare, EndInclude, EndInput, ChooseTarget, Collect, ProcessNext,
       ProcessParent, UndefinedParent, MergeParent, Complete, EndLink, WriteResult, Exits, Finish, GoOn, Return,
       LinkFrame, Enter, Stages, Compiles
<1>1. CASE Declare
    BY <1>0, <1>1 DEF Declare, GoOn, ExitKept, Crashed
<1>2. CASE WriteResult
    BY <1>0, <1>2 DEF WriteResult, Exits, Finish, Return, ExitKept, Deserved, Compiles
<1>3. CASE ~Declare /\ ~WriteResult
  <2>1. exit' \in {"none", "1"}
      BY <1>0, <1>3 DEF IdlcStep, IdlcNext, Begin, OpenInput, EndInclude, EndInput, ChooseTarget, Collect, ProcessNext,
         ProcessParent, UndefinedParent, MergeParent, Complete, EndLink, Exits, Finish, GoOn, Return, LinkFrame, Enter
  <2>. QED BY <2>1 DEF ExitKept
<1>. QED BY <1>1, <1>2, <1>3

LEMMA ExitKeptStep ==
    ASSUME Stages, Compiles, BundlesKept, ProxyKept, StreamInv, ExitKept, [CommandsNext]_commandVars
    PROVE  ExitKept'
<1>1. CASE UNCHANGED commandVars
  <2>1. UNCHANGED <<prog, cli, bundles, listeners, stored, urls, exit, machine, task>>
      BY <1>1 DEF commandVars, appVars, idlcVars, settingsVars, bundleVars, proxyVars, streamVars
  <2>2. Crashed' <=> Crashed
      BY <2>1 DEF Crashed
  <2>. QED BY <2>1, <2>2, SameCauses DEF ExitKept
<1>. QED BY <1>1, AppExits, SettingsExits, BundlesExits, ProxyExits, StreamExits, IdlcExits DEF CommandsNext

(* All but what makes the compiler crash, which is IdlcProofs'.            *)
LEMMA AlwaysExits == CommandsSpec => []ExitKept
<1>1. CommandsInit => ExitKept
    BY DEF CommandsInit, AppInit, ExitKept
<1>2. StreamInv /\ Stages /\ Compiles /\ BundlesKept /\ ProxyKept /\ ExitKept /\ [CommandsNext]_commandVars => ExitKept'
    BY ExitKeptStep
<1>. QED BY <1>1, <1>2, AlwaysKept, AlwaysListens, StreamInvInit, StreamInvStep, PTL DEF CommandsSpec
=============================================================================
