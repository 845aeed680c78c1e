-------------------------------- MODULE Log --------------------------------
(***************************************************************************)
(* Logger (core/logger.h): a statement logWarn() << a << b makes a Logger, *)
(* streams its parts into a buffer, and the destructor at the end of the   *)
(* statement hands the buffer to std::cerr and then the end of line.  The  *)
(* Admin thread and the tasks of the pool log at once, and nothing but the *)
(* buffer keeps their lines apart.                                         *)
(*                                                                         *)
(* A line is its head (the mark of the level and the time) and the part it *)
(* came from; the words are left out, and so is Logger::globalLevel, which *)
(* nothing reads.                                                          *)
(***************************************************************************)
EXTENDS Sequences, Naturals

CONSTANTS
    Loggers,      \* the threads that log
    Parts,        \* what is logged: <<kind, how many '\n' are in it>>
    MaxParts,     \* parts of an entry, and
    MaxEntries    \* entries of a thread, for TLC

ASSUME LogAssumption ==
    /\ Parts \subseteq {"append", "char", "endl", "raw", "exception", "map"} \X Nat
    /\ MaxParts \in Nat /\ MaxEntries \in Nat

VARIABLES
    buffer,       \* [Loggers -> Seq of lines]: m_buffer of the statement of a thread
    logAt,           \* [Loggers -> {"idle", "open", "text", "end"}]
    begun,        \* [Loggers -> Nat]: entries begun, which number them
    err           \* what std::cerr got: lines and ends of entries

logVars == <<buffer, logAt, begun, err>>

LogInit ==
    /\ buffer = [t \in Loggers |-> <<>>]
    /\ logAt = [t \in Loggers |-> "idle"]
    /\ begun = [t \in Loggers |-> 0]
    /\ err = <<>>

-----------------------------------------------------------------------------
(* The lines that a part begins. *)
Headed(kind) == [head |-> TRUE, from |-> kind]
Headless(kind) == [head |-> FALSE, from |-> kind]
Copies(n, line) == [i \in 1 .. n |-> line]

(* append(): every '\n' becomes the head of a line, and the time.          *)
Appended(n) == Copies(n, Headed("append"))

(* operator<<(char), (QChar), and endl: appendln().                        *)
Appendln(kind) == <<Headed(kind)>>
CharLines(n) == IF n = 0 THEN <<>> ELSE Appendln("char")

(* A number, a bool or a pointer has no '\n'.                              *)
RawLines(n) == <<>>

(* An exception: its class, then its message on a line of its own, which   *)
(* goes to the stream as it is.                                            *)
ExceptionLines(n) == <<Headed("exception")>> \o Copies(n, Headless("exception"))

(* A map: a line for each key, the value as it is.                         *)
MapLines(n) == <<Headed("map")>> \o Copies(n, Headless("map"))

LinesOf(part) ==
    CASE part[1] = "append" -> Appended(part[2])
      [] part[1] = "char" -> CharLines(part[2])
      [] part[1] = "endl" -> Appendln("endl")
      [] part[1] = "raw" -> RawLines(part[2])
      [] part[1] = "exception" -> ExceptionLines(part[2])
      [] part[1] = "map" -> MapLines(part[2])

-----------------------------------------------------------------------------
(* logCrit() and the others: a Logger, with the head of its first line.    *)
NewLogger(t) ==
    /\ logAt[t] = "idle" /\ begun[t] < MaxEntries
    /\ begun' = [begun EXCEPT ![t] = @ + 1]
    /\ buffer' = [buffer EXCEPT ![t] = Appendln("Logger")]
    /\ logAt' = [logAt EXCEPT ![t] = "open"]
    /\ UNCHANGED err

PutPart(t) ==
    /\ logAt[t] = "open" /\ Len(buffer[t]) <= MaxParts
    /\ \E part \in Parts :
          /\ LinesOf(part) # <<>>
          /\ buffer' = [buffer EXCEPT ![t] = @ \o LinesOf(part)]
    /\ UNCHANGED <<logAt, begun, err>>

EndStatement(t) ==
    /\ logAt[t] = "open"
    /\ logAt' = [logAt EXCEPT ![t] = "text"]
    /\ UNCHANGED <<buffer, begun, err>>

(* ~Logger: the buffer in one insertion, which stderr's lock keeps whole.  *)
(* Mutant: a line at a time.                                               *)
MutantInsertion(lines) == <<Head(lines)>>
Insertion(lines) == lines

Item(t, line) == [entry |-> <<t, begun[t]>>, line |-> line]

WriteBuffer(t) ==
    /\ logAt[t] = "text"
    /\ LET now == Insertion(buffer[t])
           rest == SubSeq(buffer[t], Len(now) + 1, Len(buffer[t]))
       IN  /\ err' = err \o [i \in DOMAIN now |-> Item(t, now[i])]
           /\ buffer' = [buffer EXCEPT ![t] = rest]
           /\ logAt' = [logAt EXCEPT ![t] = IF rest = <<>> THEN "end" ELSE "text"]
    /\ UNCHANGED begun

(* std::endl is an insertion of its own: another entry may come before it. *)
WriteEnd(t) ==
    /\ logAt[t] = "end"
    /\ err' = Append(err, Item(t, Headless("end")))
    /\ logAt' = [logAt EXCEPT ![t] = "idle"]
    /\ UNCHANGED <<buffer, begun>>

LogNext == \E t \in Loggers : NewLogger(t) \/ PutPart(t) \/ EndStatement(t) \/ WriteBuffer(t) \/ WriteEnd(t)

-----------------------------------------------------------------------------
LoggedLines == {i \in DOMAIN err : err[i].line.from # "end"}

(* Every line can be put down to an entry: the lines of an entry stay      *)
(* together, whatever other threads log at the same time (~Logger), and    *)
(* each begins with the mark of its level, unless it comes from the        *)
(* message of an exception or the value of a map (operator<< of Logger).   *)
(* The end of an entry's last line may come after another entry's lines.   *)
EntriesTogether ==
    /\ \A i, k \in LoggedLines : err[i].entry = err[k].entry =>
          \A j \in LoggedLines : i < j /\ j < k => err[j].entry = err[i].entry
    /\ \A i \in LoggedLines : ~err[i].line.head => err[i].line.from \in {"exception", "map"}
=============================================================================
