----------------------------- MODULE SharedPtr -----------------------------
(***************************************************************************)
(* SharedPtr and SharedData (nodebus/core): objects counted by the         *)
(* pointers to them, an atomic counter per object.  A pointer is a         *)
(* variable of one thread, which may hand it over (a Peer::Task given to   *)
(* the thread pool), or a member of an object, which a thread may use      *)
(* while it holds a pointer of its own to that object.  Two threads never  *)
(* use one pointer at a time; the counter is all they share.               *)
(*                                                                         *)
(* Every assignment is the same small program, operator= : give up the     *)
(* object m_data points to, delete it if that was the last reference,      *)
(* then take the new one.  A constructor starts from null, a destructor    *)
(* takes null.                                                             *)
(***************************************************************************)
EXTENDS Naturals, FiniteSets

CONSTANTS Objects, Ptrs, Threads,
          Null,      \* the null pointer
          NoPtr,     \* a value that comes from no pointer: nullptr, or new
          In,        \* the object a pointer is a member of, or Null
          Fits       \* <<p, o>>: an o can be cast to what p points to

ASSUME SharedPtrAssumption ==
    /\ IsFiniteSet(Ptrs)
    /\ Null \notin Objects /\ NoPtr \notin Ptrs
    /\ In \in [Ptrs -> Objects \cup {Null}]
    /\ Fits \subseteq Ptrs \X Objects

VARIABLES
    data,    \* SharedPtr::m_data
    count,   \* SharedData::ptrNbRef
    alive,   \* objects that have been constructed and not deleted
    holder,  \* the thread whose variable a pointer is, if it is no member
    pc,      \* what each thread does next
    dst,     \* the pointer it assigns
    src,     \* the pointer it assigns from, or NoPtr
    val,     \* the value it assigns
    doomed,  \* the object it is to delete
    todo     \* members of objects it has deleted, to be destroyed

vars == <<data, count, alive, holder, pc, dst, src, val, doomed, todo>>

Local(t) == {p \in Ptrs : In[p] = Null /\ holder[p] = t}
Members(o) == {p \in Ptrs : In[p] = o}

(* t may use p while it assigns d: p is its own, or a member of an object  *)
(* it holds by another pointer than d.                                     *)
Usable(t, p, d) ==
    \/ p \in Local(t)
    \/ \E h \in Local(t) \ {d} : data[h] # Null /\ data[h] = In[p]

InUse(p) == \E t \in Threads : pc[t] # "idle" /\ p \in {dst[t], src[t]}

Init ==
    /\ data = [p \in Ptrs |-> Null]
    /\ count = [o \in Objects |-> 0]
    /\ alive = {}
    /\ holder \in [Ptrs -> Threads]
    /\ pc = [t \in Threads |-> "idle"]
    /\ dst = [t \in Threads |-> NoPtr]
    /\ src = [t \in Threads |-> NoPtr]
    /\ val = [t \in Threads |-> Null]
    /\ doomed = [t \in Threads |-> Null]
    /\ todo = [t \in Threads |-> {}]

-----------------------------------------------------------------------------
(* The first test of operator=: nothing happens if m_data is the value     *)
(* already.  Mutant: no such test.                                         *)
MutantAnyValue(p, v) == TRUE
NewValue(p, v) == data[p] # v

Begin(t, p, q, v) ==
    /\ pc[t] = "idle"
    /\ Usable(t, p, p) /\ ~InUse(p)
    /\ NewValue(p, v)
    /\ dst' = [dst EXCEPT ![t] = p]
    /\ src' = [src EXCEPT ![t] = q]
    /\ val' = [val EXCEPT ![t] = v]
    /\ pc' = [pc EXCEPT ![t] = IF data[p] = Null THEN "acquire" ELSE "release"]
    /\ UNCHANGED <<data, count, holder, doomed, todo>>

(* p = q, or a copy of q is constructed *)
Assign(t, p, q) ==
    /\ Usable(t, q, p) /\ ~InUse(q) /\ data[q] # Null
    /\ Begin(t, p, q, data[q])
    /\ UNCHANGED alive

(* p = new ..., or a pointer to a new object is constructed; the compiler   *)
(* sees to the class.                                                      *)
AssignNew(t, p, o) ==
    /\ o \notin alive
    /\ <<p, o>> \in Fits
    /\ \A m \in Members(o) : data[m] = Null
    /\ Begin(t, p, NoPtr, o)
    /\ alive' = alive \cup {o}

(* p = nullptr, or p is destroyed *)
Drop(t, p) ==
    /\ Begin(t, p, NoPtr, Null)
    /\ UNCHANGED alive

(* ptrNbRef.fetch_sub(1) == 1.  Mutants: the last reference goes unnoticed *)
(* (the old value is compared with 0), or is seen one too early.           *)
MutantNeverLast(o) == count[o] = 0
MutantEarlyLast(o) == count[o] <= 2
LastReference(o) == count[o] = 1

Unreference(t, o, next) ==
    /\ count' = [count EXCEPT ![o] = @ - 1]
    /\ doomed' = [doomed EXCEPT ![t] = IF LastReference(o) THEN o ELSE Null]
    /\ pc' = [pc EXCEPT ![t] = IF LastReference(o) THEN "delete" ELSE next]

Release(t) ==
    /\ pc[t] = "release"
    /\ Unreference(t, data[dst[t]], "acquire")
    /\ UNCHANGED <<data, alive, holder, dst, src, val, todo>>

(* delete m_data: the destructors of the members follow. *)
Delete(t) ==
    /\ pc[t] = "delete"
    /\ alive' = alive \ {doomed[t]}
    /\ todo' = [todo EXCEPT ![t] = @ \cup {m \in Members(doomed[t]) : data[m] # Null}]
    /\ doomed' = [doomed EXCEPT ![t] = Null]
    /\ pc' = [pc EXCEPT ![t] = "members"]
    /\ UNCHANGED <<data, count, holder, dst, src, val>>

DestroyMember(t, m) ==
    /\ pc[t] = "members"
    /\ m \in todo[t]
    /\ Unreference(t, data[m], "members")
    /\ todo' = [todo EXCEPT ![t] = @ \ {m}]
    /\ data' = [data EXCEPT ![m] = Null]
    /\ UNCHANGED <<alive, holder, dst, src, val>>

Deleted(t) ==
    /\ pc[t] = "members"
    /\ todo[t] = {}
    /\ pc' = [pc EXCEPT ![t] = "acquire"]
    /\ UNCHANGED <<data, count, alive, holder, dst, src, val, doomed, todo>>

(* The cast, which throws if the object is of another class and leaves     *)
(* m_data as it was; then m_data and the increment.                        *)
(* Mutant: the new object is not counted.                                  *)
MutantUncounted(o) == count
Counted(o) == [count EXCEPT ![o] = @ + 1]

Acquire(t) ==
    /\ pc[t] = "acquire"
    /\ IF val[t] = Null \/ <<dst[t], val[t]>> \in Fits
       THEN /\ data' = [data EXCEPT ![dst[t]] = val[t]]
            /\ count' = IF val[t] = Null THEN count ELSE Counted(val[t])
       ELSE UNCHANGED <<data, count>>
    /\ pc' = [pc EXCEPT ![t] = "idle"]
    /\ dst' = [dst EXCEPT ![t] = NoPtr]
    /\ src' = [src EXCEPT ![t] = NoPtr]
    /\ val' = [val EXCEPT ![t] = Null]
    /\ UNCHANGED <<alive, holder, doomed, todo>>

(* A variable is given to another thread. *)
HandOver(t, u, p) ==
    /\ pc[t] = "idle"
    /\ p \in Local(t)
    /\ holder' = [holder EXCEPT ![p] = u]
    /\ UNCHANGED <<data, count, alive, pc, dst, src, val, doomed, todo>>

Step(t) ==
    \/ \E p, q \in Ptrs : Assign(t, p, q)
    \/ \E p \in Ptrs, o \in Objects : AssignNew(t, p, o)
    \/ \E p \in Ptrs : Drop(t, p)
    \/ Release(t) \/ Delete(t) \/ Deleted(t) \/ Acquire(t)
    \/ \E m \in Ptrs : DestroyMember(t, m)
    \/ \E u \in Threads \ {t}, p \in Ptrs : HandOver(t, u, p)

Next == \E t \in Threads : Step(t)

Spec == Init /\ [][Next]_vars
-----------------------------------------------------------------------------
TypeOK ==
    /\ data \in [Ptrs -> Objects \cup {Null}]
    /\ count \in [Objects -> Nat]
    /\ alive \subseteq Objects
    /\ holder \in [Ptrs -> Threads]
    /\ pc \in [Threads -> {"idle", "release", "delete", "members", "acquire"}]
    /\ dst \in [Threads -> Ptrs \cup {NoPtr}]
    /\ src \in [Threads -> Ptrs \cup {NoPtr}]
    /\ val \in [Threads -> Objects \cup {Null}]
    /\ doomed \in [Threads -> Objects \cup {Null}]
    /\ todo \in [Threads -> SUBSET Ptrs]

(* A pointer that an assignment in progress has given up still has its old *)
(* m_data; it is no reference any more.                                    *)
Released(p) == \E t \in Threads : pc[t] \in {"delete", "members", "acquire"} /\ dst[t] = p
Refs(o) == {p \in Ptrs : data[p] = o /\ ~Released(p)}

(* No pointer outlives its object: what a pointer points to is there.      *)
NoDangling == \A p \in Ptrs : data[p] # Null /\ ~Released(p) => data[p] \in alive

(* The counter is the number of references, whoever holds them.            *)
CountExact == \A o \in Objects : count[o] = Cardinality(Refs(o))

(* An object nothing refers to is being deleted, or has just been made.    *)
NoOrphan ==
    \A o \in alive : count[o] = 0 =>
        \E t \in Threads : doomed[t] = o \/ val[t] = o

(* An object is deleted once, by one thread, when nothing refers to it and *)
(* no assignment is about to.                                              *)
DeletedOnce ==
    [][\A o \in alive \ alive' :
          /\ Refs(o) = {}
          /\ \A t \in Threads : val[t] # o
          /\ \A t, u \in Threads : doomed[t] = o /\ doomed[u] = o => t = u]_vars
=============================================================================
