------------------------------- MODULE Stream -------------------------------
(***************************************************************************)
(* A thread that reads from a channel (nio/streamchannel.cpp over          *)
(* nio/iochannel.cpp or nio/sslsocketchannel.cpp) while the other end      *)
(* writes and leaves, and other threads close the channel.                 *)
(*                                                                         *)
(* The kinds of channels: "socket" and "ssl" as SocketChannel and          *)
(* SSLSocketChannel make them, which hand `true` to IOChannel where flags  *)
(* are expected and so never enter their own epoll set; "watched" and      *)
(* "pipe" as IOChannel(fd) makes them of a socket and of a pipe.           *)
(***************************************************************************)
EXTENDS Application

CONSTANTS
    Kinds,        \* the kinds of channels to check
    Message,      \* what the other end writes: a sequence of different bytes
    BufSize       \* the size of m_readBuff: 64

ASSUME StreamAssumption ==
    /\ Kinds \subseteq {"socket", "ssl", "watched", "pipe"}
    /\ Message \in Seq(Range(Message))
    /\ BufSize \in Nat \ {0}

VARIABLES
    chan,         \* [kind, active, deadline, buffer, pending (decrypted by SSL)]
    wire,         \* [data (bytes that arrived), ends (of SSL records in it), part (of one more), edge, fin, notify]
    left,         \* what the other end has not written
    task,         \* the reader's call: [pc, op, len, round, n]
    got,          \* the bytes it took out
    ended         \* "no", or how its last call ended: "eof", "timeout" or "io"

streamVars == <<chan, wire, left, task, got, ended>>

NoTask == [pc |-> "none", op |-> "none", len |-> 0, round |-> 0, n |-> 0]
NewChannel(kind) == [kind |-> kind, active |-> TRUE, deadline |-> "none", buffer |-> <<>>, pending |-> <<>>]
EmptyWire == [data |-> <<>>, ends |-> {}, part |-> FALSE, edge |-> FALSE, fin |-> FALSE, notify |-> FALSE]

StreamIdle ==
    /\ chan = NewChannel("none") /\ wire = EmptyWire /\ left = <<>>
    /\ task = NoTask /\ got = <<>> /\ ended = "no"

AppFrame == UNCHANGED appVars

(* IOChannel::IOChannel: what enters the private epoll set.                *)
InEpoll(kind) == kind \in {"watched", "pipe"}

(* __connect of a client socket: each address of the host in turn.         *)
Connected(outcomes) ==
    LET last == SelectInSeq(outcomes, LAMBDA o : o # "refused")
    IN  last # 0 /\ outcomes[last] = "connected"

(* The reader's channel is opened: a client connects, or a descriptor that *)
(* is there is wrapped.  The list of an unknown host is read, as in __bind.*)
OpenChannel ==
    /\ prog = "reader" /\ stage = "init"
    /\ \E kind \in Kinds : chan' = NewChannel(kind)
    /\ left' = Message
    /\ \E outcomes \in {<<>>, <<"refused">>, <<"refused", "connected">>, <<"no socket", "connected">>} :
          IF chan'.kind \notin {"socket", "ssl"} \/ Connected(outcomes)
          THEN stage' = "open" /\ task' = [NoTask EXCEPT !.pc = "idle"] /\ UNCHANGED exit
          ELSE /\ stage' = "exited" /\ exit' = IF outcomes = <<>> THEN "crashed" ELSE "1"
               /\ UNCHANGED task
    /\ UNCHANGED <<prog, argv, cli, wire, got, ended>>

-----------------------------------------------------------------------------
(* The other end, the network and the clock.                               *)

(* ::write or SSL_write of s_write: some of what is left, or all of it.    *)
(* What SSL_write gets is a record.                                        *)
PeerWrites ==
    /\ stage = "open" /\ ~wire.fin /\ left # <<>>
    /\ \E k \in DOMAIN left :
          /\ wire' = [wire EXCEPT !.data = @ \o SubSeq(left, 1, k), !.part = FALSE, !.edge = TRUE,
                                  !.ends = IF chan.kind = "ssl" THEN @ \cup {Len(wire.data) + k} ELSE @]
          /\ left' = SubSeq(left, k + 1, Len(left))
    /\ AppFrame /\ UNCHANGED <<chan, task, got, ended>>

(* The first bytes of a record. *)
PartArrives ==
    /\ stage = "open" /\ chan.kind = "ssl" /\ ~wire.fin /\ ~wire.part /\ left # <<>>
    /\ wire' = [wire EXCEPT !.part = TRUE, !.edge = TRUE]
    /\ AppFrame /\ UNCHANGED <<chan, left, task, got, ended>>

(* SSL_shutdown comes before close() when the other end leaves in order.   *)
PeerCloses ==
    /\ stage = "open" /\ ~wire.fin
    /\ \E notify \in {FALSE, chan.kind = "ssl" /\ ~wire.part} :
          wire' = [wire EXCEPT !.fin = TRUE, !.edge = TRUE, !.notify = notify]
    /\ AppFrame /\ UNCHANGED <<chan, left, task, got, ended>>

(* closeChannel() by another thread, or by updateStatus().                 *)
CloseElsewhere ==
    /\ stage = "open" /\ chan.active
    /\ chan' = [chan EXCEPT !.active = FALSE]
    /\ AppFrame /\ UNCHANGED <<wire, left, task, got, ended>>

DeadlinePasses ==
    /\ stage = "open" /\ chan.deadline = "ahead"
    /\ chan' = [chan EXCEPT !.deadline = "passed"]
    /\ AppFrame /\ UNCHANGED <<wire, left, task, got, ended>>

-----------------------------------------------------------------------------
(* What the reader calls. *)

Smaller(a, b) == IF a < b THEN a ELSE b
B2N(b) == IF b THEN 1 ELSE 0

(* FIONREAD.  A record is longer than what it holds. *)
FionRead ==
    Len(wire.data) + Cardinality(wire.ends) + B2N(wire.part) + B2N(wire.notify)

(* s_available(): an event that is there is taken, then the bytes counted. *)
(* (MutantSAvailable: the other way round.)                                *)
MutantSAvailable == <<"count", "poll">>
SAvailable == <<"poll", "count">>

Ask(round) == [task EXCEPT !.pc = IF chan.pending # <<>> THEN "decide" ELSE SAvailable[1],
                           !.round = round, !.n = Len(chan.pending)]
After(step) == IF step = Last(SAvailable) THEN "decide" ELSE SAvailable[2]

Done == task' = [NoTask EXCEPT !.pc = "idle"]
Fail(how) == ended' = how /\ task' = [task EXCEPT !.pc = "done"]

(* get(), peek() and read(len) from the buffer: the buffer after it.       *)
Taken(buffer, op, len) == CASE op = "get" -> 1 [] op = "peek" -> 0 [] OTHER -> Smaller(Len(buffer), len)
MutantRest(buffer, op, len) == buffer     \* m_readStart stays where it was
Rest(buffer, op, len) == SubSeq(buffer, Taken(buffer, op, len) + 1, Len(buffer))

FromBuffer(buffer, op, len) ==
    /\ got' = got \o SubSeq(buffer, 1, Taken(buffer, op, len))
    /\ chan' = [chan EXCEPT !.buffer = Rest(buffer, op, len)]

(* A call begins; "wait" is available(true), "ask" is available(false).    *)
Call ==
    /\ stage = "open" /\ task.pc = "idle"
    /\ \E call \in {[op |-> op, len |-> 0] : op \in {"get", "peek", "wait", "ask"}}
                    \cup {[op |-> "read", len |-> len] : len \in {1, Len(Message)}} :
          IF chan.buffer # <<>> /\ call.op \notin {"wait", "ask"}
          THEN FromBuffer(chan.buffer, call.op, call.len) /\ UNCHANGED task
          ELSE task' = [Ask(1) EXCEPT !.op = call.op, !.len = call.len] /\ UNCHANGED <<chan, got>>
    /\ AppFrame /\ UNCHANGED <<wire, left, ended>>

SetDeadline ==
    /\ stage = "open" /\ task.pc = "idle" /\ chan.deadline = "none"
    /\ chan' = [chan EXCEPT !.deadline = "ahead"]
    /\ AppFrame /\ UNCHANGED <<wire, left, task, got, ended>>

(* s_waitForReadyRead(): the kernel reports a hang-up of a pipe even when  *)
(* there are bytes left.  A closed descriptor has left the epoll set.      *)
Event == InEpoll(chan.kind) /\ chan.active /\ wire.edge
HangUp == chan.kind = "pipe" /\ wire.fin

Poll ==
    /\ task.pc = "poll"
    /\ wire' = [wire EXCEPT !.edge = @ /\ ~Event]
    /\ IF Event /\ HangUp THEN Fail("eof")
       ELSE task' = [task EXCEPT !.pc = After("poll")] /\ UNCHANGED ended
    /\ AppFrame /\ UNCHANGED <<chan, left, got>>

Count ==
    /\ task.pc = "count"
    /\ IF chan.active THEN task' = [task EXCEPT !.n = FionRead, !.pc = After("count")] /\ UNCHANGED ended ELSE Fail("io")
    /\ AppFrame /\ UNCHANGED <<chan, wire, left, got>>

(* Before it reports an end of file, available() waits for an event and    *)
(* asks again.  (MutantHasWaited: the first answer will do.)               *)
MutantHasWaited == TRUE
HasWaited == task.round = 2

(* available() with the number at hand. *)
Decide ==
    /\ task.pc = "decide"
    /\ CASE task.op = "ask" \/ (task.op = "wait" /\ task.n + Len(chan.buffer) > 0) -> Done /\ UNCHANGED ended
         [] task.op # "ask" /\ task.n + Len(chan.buffer) = 0 ->
                IF HasWaited THEN Fail("eof") ELSE task' = [task EXCEPT !.pc = "wait"] /\ UNCHANGED ended
         [] OTHER -> task' = [task EXCEPT !.pc = "take"] /\ UNCHANGED ended
    /\ AppFrame /\ UNCHANGED <<chan, wire, left, got>>

(* A turn of 100 ms of the loop in available().  (MutantLate: the deadline *)
(* is not looked at.)                                                      *)
MutantLate == FALSE
Late == chan.deadline = "passed"

Wait ==
    /\ task.pc = "wait"
    /\ \/ /\ Event
          /\ wire' = [wire EXCEPT !.edge = FALSE]
          /\ IF HangUp THEN Fail("eof") ELSE task' = Ask(2) /\ UNCHANGED ended
       \/ ~Event /\ ~chan.active /\ Fail("eof") /\ UNCHANGED wire
       \/ ~Event /\ chan.active /\ Late /\ Fail("timeout") /\ UNCHANGED wire
    /\ AppFrame /\ UNCHANGED <<chan, left, got>>

(* How many bytes a call may take from the channel at once.  (MutantRoom:  *)
(* the bound of read() for the buffer as well.)                            *)
MutantRoom(op, len) == IF op = "read" THEN len ELSE Len(Message)
Room(op, len) == IF op = "read" THEN len ELSE BufSize

(* s_read(): what it gets of at most k bytes, and what stays.              *)
SRead(k) ==
    LET record == SubSeq(wire.data, 1, IF chan.kind = "ssl" THEN Min(wire.ends) ELSE Len(wire.data))
        source == IF chan.pending # <<>> THEN chan.pending ELSE record
        m == Smaller(k, Len(source))
        gone == CASE chan.pending # <<>> -> 0
                  [] chan.pending = <<>> /\ chan.kind = "ssl" -> Len(record)
                  [] OTHER -> m
    IN  [bytes |-> SubSeq(source, 1, m),
         pending |-> IF chan.kind = "ssl" THEN SubSeq(source, m + 1, Len(source)) ELSE <<>>,
         data |-> SubSeq(wire.data, gone + 1, Len(wire.data)),
         ends |-> {e - gone : e \in {e \in wire.ends : e > gone}}]

(* get() and peek() fill the buffer; read() goes past it.  SSL_read waits  *)
(* for a whole record, and tells the end of the connection from its loss.  *)
Take ==
    /\ task.pc = "take"
    /\ CASE ~chan.active -> Fail("io") /\ UNCHANGED <<chan, wire, got>>
         [] chan.active /\ (chan.pending # <<>> \/ wire.data # <<>>) ->
                LET r == SRead(Smaller(task.n, Room(task.op, task.len)))
                IN  /\ wire' = [wire EXCEPT !.data = r.data, !.ends = r.ends]
                    /\ IF task.op = "read"
                       THEN got' = got \o r.bytes /\ chan' = [chan EXCEPT !.pending = r.pending]
                       ELSE /\ got' = got \o SubSeq(r.bytes, 1, Taken(r.bytes, task.op, 0))
                            /\ chan' = [chan EXCEPT !.pending = r.pending, !.buffer = Rest(r.bytes, task.op, 0)]
                    /\ Done /\ UNCHANGED ended
         [] OTHER -> wire.fin /\ Fail(IF wire.notify THEN "eof" ELSE "io") /\ UNCHANGED <<chan, wire, got>>
    /\ AppFrame /\ UNCHANGED left

ReaderNext == Call \/ Poll \/ Count \/ Decide \/ Wait \/ Take
StreamNext ==
    \/ OpenChannel \/ SetDeadline \/ ReaderNext
    \/ PeerWrites \/ PartArrives \/ PeerCloses \/ CloseElsewhere \/ DeadlinePasses

-----------------------------------------------------------------------------
(* No byte is lost, repeated or moved on the way, whatever calls are mixed *)
(* and however the writes are cut: what was read, what is buffered, what   *)
(* SSL holds, what arrived and what is unwritten make up the message       *)
(* (StreamChannel, IOChannel::s_read, SSLSocketChannel::s_read).           *)
StreamInOrder ==
    stage = "open" => got \o chan.buffer \o chan.pending \o wire.data \o left = Message

(* A channel that is in its epoll set does not wait for bytes that are     *)
(* there: s_available() takes the event before it counts, so what comes in *)
(* between is counted or has an event of its own (available).              *)
NoMissedInput ==
    task.pc = "wait" /\ chan.active /\ InEpoll(chan.kind) /\ wire.data # <<>> => wire.edge

(* End of file is reported when the other end has left and all it sent was *)
(* read, or when this end was closed.  A pipe is the exception: its        *)
(* hang-up comes before the bytes that are left (s_waitForReadyRead).      *)
EndOfFileTrue ==
    ended = "eof" /\ chan.active =>
        wire.fin /\ (chan.kind # "pipe" => chan.buffer \o chan.pending \o wire.data = <<>>)

(* With a deadline no call waits for ever, whatever the other end does;    *)
(* SSL_read, which knows of no deadline, is the exception (available).     *)
Calling == task.pc \notin {"none", "idle", "done"}
DeadlineKept == (Calling /\ chan.deadline # "none" /\ chan.kind # "ssl") ~> ~Calling
=============================================================================
