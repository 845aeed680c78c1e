-------------------------- MODULE SharedPtrProofs --------------------------
(***************************************************************************)
(* Proofs about SharedPtr, for any number of threads, objects and pointers *)
(* and any nesting of objects, when no cast fails.                         *)
(***************************************************************************)
EXTENDS SharedPtr, FiniteSetTheorems, TLAPS

Busy(t) == pc[t] # "idle"

(* What the labels say of a thread's variables. *)
Phases ==
    \A t \in Threads :
        /\ Busy(t) => dst[t] \in Ptrs
        /\ ~Busy(t) => val[t] = Null /\ src[t] = NoPtr
        /\ pc[t] = "release" => data[dst[t]] # Null
        /\ doomed[t] # Null <=> pc[t] = "delete"
        /\ todo[t] # {} => pc[t] \in {"delete", "members"}

(* One thread at a time uses a pointer. *)
Exclusive ==
    \A t, u \in Threads : Busy(t) /\ Busy(u) /\ t # u =>
        /\ dst[t] # dst[u] /\ dst[t] # src[u]
        /\ src[t] = src[u] => src[t] = NoPtr

(* It is its own, or it holds the object the pointer is a member of.       *)
Held ==
    \A t \in Threads : Busy(t) =>
        /\ Usable(t, dst[t], dst[t])
        /\ src[t] # NoPtr => Usable(t, src[t], dst[t])

(* Where a value comes from: a pointer that keeps its object, or new.      *)
Sources ==
    \A t \in Threads :
        /\ src[t] # NoPtr => /\ src[t] \in Ptrs /\ src[t] # dst[t]
                             /\ data[src[t]] = val[t] /\ val[t] # Null
        /\ val[t] # Null => val[t] \in alive
        /\ val[t] # Null /\ src[t] = NoPtr =>
              count[val[t]] = 0 /\ \A u \in Threads : u # t => val[u] # val[t]

(* What is being deleted belongs to one thread; nothing refers to it.      *)
Doomed ==
    \A t \in Threads : doomed[t] # Null =>
        /\ doomed[t] \in alive /\ count[doomed[t]] = 0
        /\ \A u \in Threads : val[u] # doomed[t] /\ (doomed[u] = doomed[t] => u = t)

(* So do the members it leaves behind.                                     *)
Orphans ==
    \A t \in Threads : \A m \in todo[t] :
        /\ data[m] # Null /\ In[m] # Null /\ In[m] \notin alive
        /\ \A u \in Threads : u # t => m \notin todo[u]

Inv == /\ TypeOK /\ Phases /\ Exclusive /\ Held /\ Sources /\ Doomed /\ Orphans
       /\ NoDangling /\ CountExact /\ NoOrphan

-----------------------------------------------------------------------------
(* References are finite in number, so counting them makes sense.          *)
LEMMA RefsFinite ==
  ASSUME NEW o \in Objects
  PROVE  IsFiniteSet(Refs(o)) /\ Refs(o) \subseteq Ptrs
  BY SharedPtrAssumption, FS_Subset DEF Refs

(* An object that is not there has no references.                          *)
LEMMA DeadCount ==
  ASSUME Inv, NEW o \in Objects, o \notin alive
  PROVE  Refs(o) = {} /\ count[o] = 0
<1>1. Refs(o) = {}
  BY SharedPtrAssumption DEF Inv, NoDangling, Refs, TypeOK
<1>. QED
  BY <1>1, FS_EmptySet DEF Inv, CountExact

(* No references are counted as none.                                      *)
LEMMA ZeroCount ==
  ASSUME Inv, NEW o \in Objects, count[o] = 0
  PROVE  Refs(o) = {}
  BY RefsFinite, FS_EmptySet DEF Inv, CountExact

(* The pointer a value comes from is a reference to it.                    *)
LEMMA SourceIsRef ==
  ASSUME Inv, NEW t \in Threads, src[t] # NoPtr
  PROVE  src[t] \in Refs(val[t]) /\ val[t] \in Objects
<1>1. src[t] \in Ptrs /\ src[t] # dst[t] /\ data[src[t]] = val[t] /\ val[t] # Null
  BY DEF Inv, Sources
<1>2. Busy(t)
  BY DEF Inv, Phases
<1>3. ~Released(src[t])
  BY <1>1, <1>2 DEF Inv, Released, Exclusive, Busy
<1>. QED
  BY <1>1, <1>3 DEF Refs, Inv, TypeOK

(* A pointer in the course of an assignment is used by nobody else: not as *)
(* a variable of another thread, which would have to hold it.              *)
LEMMA HeldApart ==
  ASSUME Inv, NEW t \in Threads, NEW u \in Threads, t # u, Busy(u), NEW h \in Local(t)
  PROVE  dst[u] # h
<1>1. Usable(u, dst[u], dst[u])
  BY DEF Inv, Held
<1>. QED
  BY <1>1, SharedPtrAssumption DEF Usable, Local

(* A member of a deleted object is used by nobody, and is a reference till *)
(* it is destroyed.                                                        *)
LEMMA MemberFree ==
  ASSUME Inv, NEW t \in Threads, NEW m \in todo[t]
  PROVE  ~InUse(m) /\ m \in Ptrs /\ data[m] \in Objects /\ m \in Refs(data[m])
<1>1. m \in Ptrs /\ data[m] # Null /\ In[m] # Null /\ In[m] \notin alive
  BY DEF Inv, Orphans, TypeOK
<1>2. ASSUME NEW u \in Threads, Busy(u), m = dst[u] \/ m = src[u] PROVE FALSE
  <2>1. Usable(u, m, dst[u])
    BY <1>1, <1>2, SharedPtrAssumption DEF Inv, Held
  <2>2. PICK h \in Local(u) \ {dst[u]} : data[h] # Null /\ data[h] = In[m]
    BY <1>1, <2>1 DEF Usable, Local
  <2>3. ~Released(h)
    BY <2>2, HeldApart DEF Released, Busy
  <2>. QED
    BY <1>1, <2>2, <2>3 DEF Inv, NoDangling, Local
<1>3. ~InUse(m)
  BY <1>2 DEF InUse, Busy
<1>. QED
  BY <1>1, <1>3 DEF InUse, Released, Refs, Inv, TypeOK

-----------------------------------------------------------------------------
(* The beginning of an assignment changes no reference; a new object has   *)
(* none.                                                                   *)
LEMMA BeginStep ==
  ASSUME Inv, NEW t \in Threads, NEW p \in Ptrs, NEW q \in Ptrs \cup {NoPtr},
         NEW v \in Objects \cup {Null}, Begin(t, p, q, v),
         \/ q \in Ptrs /\ Usable(t, q, p) /\ ~InUse(q) /\ data[q] = v /\ v # Null
            /\ alive' = alive
         \/ q = NoPtr /\ v \in Objects \ alive /\ alive' = alive \cup {v}
            /\ \A m \in Members(v) : data[m] = Null
         \/ q = NoPtr /\ v = Null /\ alive' = alive
  PROVE  Inv'
<1> USE SharedPtrAssumption
<1>1. /\ pc[t] = "idle" /\ Usable(t, p, p) /\ ~InUse(p) /\ data[p] # v
      /\ dst' = [dst EXCEPT ![t] = p] /\ src' = [src EXCEPT ![t] = q]
      /\ val' = [val EXCEPT ![t] = v]
      /\ pc' = [pc EXCEPT ![t] = IF data[p] = Null THEN "acquire" ELSE "release"]
      /\ UNCHANGED <<data, count, holder, doomed, todo>>
  BY DEF Begin, NewValue
<1>2. TypeOK'
  BY <1>1 DEF Inv, TypeOK
<1>3. Phases'
  BY <1>1 DEF Inv, TypeOK, Phases, Busy
<1>4. Exclusive'
  BY <1>1 DEF Inv, TypeOK, Exclusive, Busy, InUse, Phases
<1>5. Held'
  BY <1>1 DEF Inv, TypeOK, Held, Busy, Usable, Local
<1>6. v # Null /\ q = NoPtr => /\ count[v] = 0
                              /\ \A u \in Threads : val[u] # v /\ doomed[u] # v
  <2>1. ASSUME v \in Objects \ alive PROVE count[v] = 0
    BY <2>1, DeadCount
  <2>. QED
    BY <2>1 DEF Inv, Sources, Doomed
<1>7. v # Null /\ q \in Ptrs => v \in alive /\ count[v] # 0
  <2> SUFFICES ASSUME v # Null, q \in Ptrs PROVE v \in alive /\ count[v] # 0
    OBVIOUS
  <2>1. q \in Refs(v)
    BY DEF Refs, Released, InUse
  <2>. QED
    BY <2>1, ZeroCount DEF Inv, NoDangling, Refs
<1>8. Sources'
  <2>1. /\ q # NoPtr => q # p /\ data[q] = v /\ v # Null
        /\ alive \subseteq alive'
    BY <1>1
  <2>3. v # Null => v \in alive'
    BY <1>7
  <2>2. \A u \in Threads : val[u] # Null /\ src[u] = NoPtr => val[u] # v
    BY <1>6, <1>7 DEF Inv, Sources
  <2>. QED
    BY <1>1, <1>6, <2>1, <2>2, <2>3 DEF Inv, TypeOK, Sources, Phases, Busy
<1>9. Doomed'
  <2>1. \A u \in Threads : doomed[u] # Null => doomed[u] # v
    BY <1>6, <1>7 DEF Inv, Doomed
  <2>. QED
    BY <1>1, <2>1 DEF Inv, TypeOK, Doomed
<1>10. Orphans'
  BY <1>1 DEF Inv, TypeOK, Orphans, Members
<1>11. \A r \in Ptrs : data[r] # Null => (Released(r)' <=> Released(r))
  BY <1>1 DEF Inv, TypeOK, Released, InUse
<1>12. \A o \in Objects : Refs(o)' = Refs(o)
  BY <1>1, <1>11 DEF Refs
<1>13. NoDangling' /\ CountExact'
  BY <1>1, <1>11, <1>12 DEF Inv, NoDangling, CountExact
<1>14. NoOrphan'
  BY <1>1, <1>6 DEF Inv, TypeOK, NoOrphan, Phases, Busy
<1>. QED
  BY <1>2, <1>3, <1>4, <1>5, <1>8, <1>9, <1>10, <1>13, <1>14 DEF Inv

(* One reference less: that of r, to o.  What is left when the count was 1 *)
(* is nothing: nobody is about to assign o, and nobody else deletes it.    *)
LEMMA OneLess ==
  ASSUME Inv, NEW o \in Objects, NEW r \in Refs(o)
  PROVE  /\ count[o] \in Nat \ {0}
         /\ Cardinality(Refs(o) \ {r}) = count[o] - 1
         /\ \A t \in Threads : doomed[t] # o /\ (val[t] = o => src[t] # NoPtr)
         /\ count[o] = 1 => \A t \in Threads : val[t] = o => src[t] = r
<1>1. Cardinality(Refs(o) \ {r}) = Cardinality(Refs(o)) - 1 /\ IsFiniteSet(Refs(o))
  BY RefsFinite, FS_RemoveElement
<1>2. count[o] # 0
  BY ZeroCount
<1>3. \A t \in Threads : doomed[t] # o /\ (val[t] = o => src[t] # NoPtr)
  BY <1>2, SharedPtrAssumption DEF Inv, Doomed, Sources
<1>4. count[o] = 1 => Refs(o) \ {r} = {}
  <2>1. IsFiniteSet(Refs(o) \ {r})
    BY <1>1, FS_RemoveElement
  <2>. QED
    BY <1>1, <2>1, FS_EmptySet DEF Inv, CountExact
<1>5. ASSUME NEW t \in Threads, val[t] = o, count[o] = 1 PROVE src[t] = r
  BY <1>3, <1>4, <1>5, SourceIsRef
<1>. QED
  BY <1>1, <1>2, <1>3, <1>5 DEF Inv, CountExact, TypeOK

(* fetch_sub on the object the assigned pointer still points to.           *)
LEMMA ReleaseStep ==
  ASSUME Inv, NEW t \in Threads, Release(t)
  PROVE  Inv'
<1> USE SharedPtrAssumption
<1> DEFINE p == dst[t]
           o == data[p]
<1>1. /\ pc[t] = "release" /\ count' = [count EXCEPT ![o] = @ - 1]
      /\ doomed' = [doomed EXCEPT ![t] = IF count[o] = 1 THEN o ELSE Null]
      /\ pc' = [pc EXCEPT ![t] = IF count[o] = 1 THEN "delete" ELSE "acquire"]
      /\ UNCHANGED <<data, alive, holder, dst, src, val, todo>>
  BY DEF Release, Unreference, LastReference
<1>2. p \in Ptrs /\ o \in Objects /\ p \in Refs(o) /\ src[t] # p
  <2>1. p \in Ptrs /\ o \in Objects
    BY <1>1 DEF Inv, Phases, Busy, TypeOK
  <2>2. ~Released(p)
    BY <1>1 DEF Inv, Exclusive, Busy, Released
  <2>. QED
    BY <2>1, <2>2 DEF Refs, Inv, Sources
<1>3. /\ count[o] \in Nat \ {0}
      /\ Cardinality(Refs(o) \ {p}) = count[o] - 1
      /\ \A u \in Threads : doomed[u] # o /\ (val[u] = o => src[u] # NoPtr)
      /\ count[o] = 1 => \A u \in Threads : val[u] = o => src[u] = p
  <2> HIDE DEF p, o
  <2>. QED
    BY <1>2, OneLess
<1>4. TypeOK'
  <2>1. count[o] - 1 \in Nat
    BY <1>3
  <2>2. count' \in [Objects -> Nat]
    BY <1>1, <1>2, <2>1 DEF Inv, TypeOK
  <2>. QED
    BY <1>1, <1>2, <2>2 DEF Inv, TypeOK
<1>5. Phases'
  BY <1>1, <1>2 DEF Inv, TypeOK, Phases, Busy
<1>6. Exclusive' /\ Held'
  BY <1>1 DEF Inv, TypeOK, Exclusive, Held, Busy, Usable, Local
<1>7. Sources'
  BY <1>1, <1>2, <1>3 DEF Inv, TypeOK, Sources
<1>8. Doomed'
  <2>1. count[o] = 1 => \A u \in Threads : val[u] # o
    BY <1>1, <1>2, <1>3 DEF Inv, Exclusive, Busy, Phases
  <2>2. o \in alive
    BY <1>2 DEF Inv, NoDangling, Refs
  <2>. QED
    BY <1>1, <1>2, <1>3, <2>1, <2>2 DEF Inv, TypeOK, Doomed
<1>9. Orphans'
  BY <1>1 DEF Inv, Orphans
<1>10. \A r \in Ptrs : Released(r)' <=> Released(r) \/ r = p
  BY <1>1, <1>2 DEF Inv, TypeOK, Released
<1>11. Refs(o)' = Refs(o) \ {p} /\ \A x \in Objects \ {o} : Refs(x)' = Refs(x)
  BY <1>1, <1>10 DEF Refs
<1>12. NoDangling'
  BY <1>1, <1>10 DEF Inv, NoDangling
<1>13. CountExact'
  <2>1. count'[o] = count[o] - 1 /\ \A x \in Objects \ {o} : count'[x] = count[x]
    BY <1>1, <1>2 DEF Inv, TypeOK
  <2>2. \A x \in Objects : count[x] = Cardinality(Refs(x))
    BY DEF Inv, CountExact
  <2>3. \A x \in Objects : x = o => count'[x] = Cardinality(Refs(x)')
    BY <1>1, <1>3, <1>11, <2>1
  <2>4. \A x \in Objects : x # o => count'[x] = Cardinality(Refs(x)')
    BY <1>11, <2>1, <2>2
  <2>5. ASSUME NEW x \in Objects PROVE count'[x] = Cardinality(Refs(x)')
    <3> HIDE DEF o, p
    <3>. QED
      BY <2>3, <2>4
  <2>. QED
    BY <2>5 DEF CountExact
<1>14. NoOrphan'
  BY <1>1, <1>2, <1>3 DEF Inv, TypeOK, NoOrphan, Phases
<1>. QED
  BY <1>4, <1>5, <1>6, <1>7, <1>8, <1>9, <1>12, <1>13, <1>14 DEF Inv

(* fetch_sub on behalf of a member of a deleted object.                    *)
LEMMA DestroyMemberStep ==
  ASSUME Inv, NEW t \in Threads, NEW m \in Ptrs, DestroyMember(t, m)
  PROVE  Inv'
<1> USE SharedPtrAssumption
<1>0. PICK o \in Objects : o = data[m]
  BY MemberFree DEF DestroyMember
<1>1. /\ pc[t] = "members" /\ m \in todo[t]
      /\ count' = [count EXCEPT ![o] = @ - 1]
      /\ doomed' = [doomed EXCEPT ![t] = IF count[o] = 1 THEN o ELSE Null]
      /\ pc' = [pc EXCEPT ![t] = IF count[o] = 1 THEN "delete" ELSE "members"]
      /\ todo' = [todo EXCEPT ![t] = @ \ {m}]
      /\ data' = [data EXCEPT ![m] = Null]
      /\ UNCHANGED <<alive, holder, dst, src, val>>
  BY <1>0 DEF DestroyMember, Unreference, LastReference
<1>2. ~InUse(m) /\ m \in Refs(o)
  BY <1>0, <1>1, MemberFree
<1>3. /\ count[o] \in Nat \ {0}
      /\ Cardinality(Refs(o) \ {m}) = count[o] - 1
      /\ \A u \in Threads : doomed[u] # o /\ (val[u] = o => src[u] # NoPtr)
      /\ count[o] = 1 => \A u \in Threads : val[u] = o => src[u] = m
  BY <1>2, OneLess
<1>4. TypeOK'
  <2>1. count[o] - 1 \in Nat
    BY <1>3
  <2>2. count' \in [Objects -> Nat]
    BY <1>1, <1>2, <2>1 DEF Inv, TypeOK
  <2>. QED
    BY <1>1, <1>2, <2>2 DEF Inv, TypeOK
<1>5. Phases'
  BY <1>1, <1>2 DEF Inv, TypeOK, Phases, Busy, InUse
<1>6. Exclusive'
  BY <1>1 DEF Inv, TypeOK, Exclusive, Busy
<1>7. Held'
  <2>1. In[m] # Null
    BY <1>1 DEF Inv, Orphans
  <2>. QED
    BY <1>1, <2>1 DEF Inv, TypeOK, Held, Busy, Usable, Local
<1>8. Sources'
  <2>1. \A u \in Threads : src[u] # m
    BY <1>1, <1>2 DEF Inv, InUse, Phases, Busy
  <2>. QED
    BY <1>0, <1>1, <1>2, <1>3, <2>1 DEF Inv, TypeOK, Sources
<1>9. Doomed'
  <2>1. count[o] = 1 => \A u \in Threads : val[u] # o
    BY <1>1, <1>2, <1>3 DEF Inv, InUse, Busy, Phases
  <2>2. o \in alive
    BY <1>2 DEF Inv, NoDangling, Refs
  <2>. QED
    BY <1>1, <1>2, <1>3, <2>1, <2>2 DEF Inv, TypeOK, Doomed
<1>10. Orphans'
  BY <1>1 DEF Inv, TypeOK, Orphans
<1>11. \A r \in Ptrs : Released(r)' <=> Released(r)
  BY <1>1, <1>2 DEF Inv, TypeOK, Released
<1>12. Refs(o)' = Refs(o) \ {m} /\ \A x \in Objects \ {o} : Refs(x)' = Refs(x)
  <2>1. \A r \in Ptrs : data'[r] = IF r = m THEN Null ELSE data[r]
    BY <1>1 DEF Inv, TypeOK
  <2>. QED
    BY <1>0, <1>2, <1>11, <2>1, SharedPtrAssumption DEF Refs
<1>13. NoDangling'
  BY <1>1, <1>11 DEF Inv, TypeOK, NoDangling
<1>14. CountExact'
  <2>1. \A x \in Objects : count'[x] = IF x = o THEN count[o] - 1 ELSE count[x]
    BY <1>1, <1>2 DEF Inv, TypeOK
  <2>. QED
    BY <1>3, <1>12, <2>1 DEF Inv, CountExact
<1>15. NoOrphan'
  BY <1>1, <1>2, <1>3 DEF Inv, TypeOK, NoOrphan, Phases
<1>. QED
  BY <1>4, <1>5, <1>6, <1>7, <1>8, <1>9, <1>10, <1>13, <1>14, <1>15 DEF Inv

(* An object goes when nothing refers to it; its members are left.         *)
LEMMA DeleteStep ==
  ASSUME Inv, NEW t \in Threads, Delete(t)
  PROVE  Inv'
<1> USE SharedPtrAssumption
<1>1. PICK d \in Objects : d = doomed[t]
  BY DEF Delete, Inv, Phases, TypeOK
<1>2. /\ pc[t] = "delete" /\ alive' = alive \ {d}
      /\ todo' = [todo EXCEPT ![t] = @ \cup {m \in Members(d) : data[m] # Null}]
      /\ doomed' = [doomed EXCEPT ![t] = Null]
      /\ pc' = [pc EXCEPT ![t] = "members"]
      /\ UNCHANGED <<data, count, holder, dst, src, val>>
  BY <1>1 DEF Delete
<1>3. /\ d \in alive /\ count[d] = 0
      /\ \A u \in Threads : val[u] # d /\ (doomed[u] = d => u = t)
  BY <1>1 DEF Inv, Doomed
<1>4. TypeOK'
  BY <1>2 DEF Inv, TypeOK, Members
<1>5. Phases'
  BY <1>2 DEF Inv, TypeOK, Phases, Busy
<1>6. Exclusive' /\ Held'
  BY <1>2 DEF Inv, TypeOK, Exclusive, Held, Busy, Usable, Local
<1>7. Sources'
  BY <1>2, <1>3 DEF Inv, Sources
<1>8. Doomed'
  BY <1>1, <1>2, <1>3 DEF Inv, TypeOK, Doomed
<1>9. Orphans'
  <2> DEFINE left == {m \in Members(d) : data[m] # Null}
  <2>1. \A m \in left : data[m] # Null /\ In[m] = d
    BY DEF Members
  <2>2. \A u \in Threads : \A m \in todo[u] : m \notin left
    BY <1>3, <2>1 DEF Inv, Orphans
  <2>3. \A u \in Threads : todo'[u] = IF u = t THEN todo[t] \cup left ELSE todo[u]
    BY <1>2 DEF Inv, TypeOK
  <2>. QED
    BY <1>2, <2>1, <2>2, <2>3 DEF Inv, Orphans
<1>10. \A r \in Ptrs : Released(r)' <=> Released(r)
  BY <1>2 DEF Inv, TypeOK, Released
<1>11. \A x \in Objects : Refs(x)' = Refs(x)
  BY <1>2, <1>10 DEF Refs
<1>12. NoDangling'
  <2>1. Refs(d) = {}
    BY <1>3, ZeroCount
  <2>. QED
    BY <1>2, <1>10, <2>1 DEF Inv, NoDangling, Refs
<1>13. CountExact'
  BY <1>2, <1>11 DEF Inv, CountExact
<1>14. NoOrphan'
  BY <1>1, <1>2, <1>3 DEF Inv, TypeOK, NoOrphan
<1>. QED
  BY <1>4, <1>5, <1>6, <1>7, <1>8, <1>9, <1>12, <1>13, <1>14 DEF Inv

LEMMA DeletedStep ==
  ASSUME Inv, NEW t \in Threads, Deleted(t)
  PROVE  Inv'
<1>1. /\ pc[t] = "members" /\ todo[t] = {} /\ pc' = [pc EXCEPT ![t] = "acquire"]
      /\ UNCHANGED <<data, count, alive, holder, dst, src, val, doomed, todo>>
  BY DEF Deleted
<1>2. TypeOK' /\ Phases'
  BY <1>1 DEF Inv, TypeOK, Phases, Busy
<1>3. Exclusive' /\ Held'
  BY <1>1 DEF Inv, TypeOK, Exclusive, Held, Busy, Usable, Local
<1>4. Sources' /\ Doomed' /\ Orphans' /\ NoOrphan'
  BY <1>1 DEF Inv, Sources, Doomed, Orphans, NoOrphan
<1>5. \A r \in Ptrs : Released(r)' <=> Released(r)
  BY <1>1 DEF Inv, TypeOK, Released
<1>6. NoDangling' /\ CountExact'
  BY <1>1, <1>5 DEF Inv, NoDangling, CountExact, Refs
<1>. QED
  BY <1>2, <1>3, <1>4, <1>6 DEF Inv

(* The new object gets a reference more; the cast succeeds.                *)
LEMMA AcquireStep ==
  ASSUME Inv, Fits = Ptrs \X Objects, NEW t \in Threads, Acquire(t)
  PROVE  Inv'
<1> USE SharedPtrAssumption
<1>1. PICK p \in Ptrs, v \in Objects \cup {Null} : p = dst[t] /\ v = val[t]
  BY DEF Acquire, Inv, Phases, Busy, TypeOK
<1>2. /\ pc[t] = "acquire"
      /\ data' = [data EXCEPT ![p] = v]
      /\ count' = IF v = Null THEN count ELSE [count EXCEPT ![v] = @ + 1]
      /\ pc' = [pc EXCEPT ![t] = "idle"] /\ dst' = [dst EXCEPT ![t] = NoPtr]
      /\ src' = [src EXCEPT ![t] = NoPtr] /\ val' = [val EXCEPT ![t] = Null]
      /\ UNCHANGED <<alive, holder, doomed, todo>>
  BY <1>1 DEF Acquire, Counted
<1>3. TypeOK'
  <2>1. count' \in [Objects -> Nat]
    BY <1>2 DEF Inv, TypeOK
  <2>. QED
    BY <1>2, <2>1 DEF Inv, TypeOK
<1>4. Phases'
  <2>1. \A u \in Threads : u # t /\ Busy(u) => dst[u] # p
    BY <1>1, <1>2 DEF Inv, Exclusive, Busy
  <2>. QED
    BY <1>1, <1>2, <2>1 DEF Inv, TypeOK, Phases, Busy
<1>5. Exclusive'
  BY <1>2 DEF Inv, TypeOK, Exclusive, Busy
<1>6. Held'
  <2>1. \A u \in Threads : u # t /\ Busy(u) => p \notin Local(u)
    BY <1>1, <1>2, HeldApart DEF Busy
  <2>2. \A u \in Threads : u # t /\ Busy(u) => \A h \in Local(u) : data'[h] = data[h]
    BY <1>2, <2>1 DEF Inv, TypeOK, Local
  <2>3. \A u \in Threads : u # t /\ Busy(u) => \A r, d : Usable(u, r, d) => Usable(u, r, d)'
    BY <1>2, <2>2 DEF Usable, Local
  <2>4. \A u \in Threads : Busy(u)' => u # t /\ Busy(u) /\ dst'[u] = dst[u] /\ src'[u] = src[u]
    BY <1>2 DEF Inv, TypeOK, Busy
  <2>. QED
    BY <2>3, <2>4 DEF Inv, Held
<1>7. \A u \in Threads : u # t => src[u] # p
  BY <1>1, <1>2 DEF Inv, Exclusive, Busy, Phases
<1>8. v # Null => \A u \in Threads : doomed[u] # v /\ (u # t /\ val[u] = v => src[u] # NoPtr)
  BY <1>1 DEF Inv, Doomed, Sources
<1>9. \A x \in Objects : count'[x] = IF x = v THEN count[x] + 1 ELSE count[x]
  BY <1>2 DEF Inv, TypeOK
<1>10. Sources'
  BY <1>2, <1>7, <1>8, <1>9 DEF Inv, TypeOK, Sources
<1>11. Doomed'
  BY <1>2, <1>8, <1>9 DEF Inv, TypeOK, Doomed
<1>12. Orphans'
  <2>1. \A u \in Threads : p \notin todo[u]
    BY <1>1, <1>2, MemberFree DEF InUse
  <2>. QED
    BY <1>2, <2>1 DEF Inv, TypeOK, Orphans
<1>13. Released(p) /\ \A r \in Ptrs : Released(r)' <=> Released(r) /\ r # p
  BY <1>1, <1>2 DEF Inv, TypeOK, Released, Exclusive, Busy
<1>14. \A x \in Objects : p \notin Refs(x) /\ Refs(x)' = IF x = v THEN Refs(x) \cup {p} ELSE Refs(x)
  <2>1. \A r \in Ptrs : data'[r] = IF r = p THEN v ELSE data[r]
    BY <1>2 DEF Inv, TypeOK
  <2>. QED
    BY <1>13, <2>1 DEF Refs
<1>15. NoDangling'
  <2>1. v # Null => v \in alive
    BY <1>1 DEF Inv, Sources
  <2>. QED
    BY <1>2, <1>13, <2>1 DEF Inv, TypeOK, NoDangling
<1>16. CountExact'
  <2> SUFFICES ASSUME NEW x \in Objects PROVE count'[x] = Cardinality(Refs(x)')
    BY DEF CountExact
  <2>1. IsFiniteSet(Refs(x)) /\ count[x] = Cardinality(Refs(x))
    BY RefsFinite DEF Inv, CountExact
  <2>2. Cardinality(Refs(x) \cup {p}) = Cardinality(Refs(x)) + 1
    BY <1>14, <2>1, FS_AddElement
  <2>. QED
    BY <1>9, <1>14, <2>1, <2>2
<1>17. NoOrphan'
  BY <1>1, <1>2, <1>9 DEF Inv, TypeOK, NoOrphan
<1>. QED
  BY <1>3, <1>4, <1>5, <1>6, <1>10, <1>11, <1>12, <1>15, <1>16, <1>17 DEF Inv

(* A variable is given away by a thread that is not using it.              *)
LEMMA HandOverStep ==
  ASSUME Inv, NEW t \in Threads, NEW u \in Threads, NEW p \in Ptrs, HandOver(t, u, p)
  PROVE  Inv'
<1>1. /\ pc[t] = "idle" /\ p \in Local(t) /\ holder' = [holder EXCEPT ![p] = u]
      /\ UNCHANGED <<data, count, alive, pc, dst, src, val, doomed, todo>>
  BY DEF HandOver
<1>2. TypeOK' /\ Phases' /\ Exclusive'
  BY <1>1 DEF Inv, TypeOK, Phases, Exclusive, Busy
<1>3. Held'
  <2>1. \A w \in Threads : Busy(w) => Local(w) \subseteq Local(w)'
    BY <1>1 DEF Busy, Local, Inv, TypeOK
  <2>2. \A w \in Threads : Busy(w) => \A r, d : Usable(w, r, d) => Usable(w, r, d)'
    BY <1>1, <2>1 DEF Usable
  <2>. QED
    BY <1>1, <2>2 DEF Inv, Held, Busy
<1>4. Sources' /\ Doomed' /\ Orphans' /\ NoOrphan'
  BY <1>1 DEF Inv, Sources, Doomed, Orphans, NoOrphan
<1>5. NoDangling' /\ CountExact'
  BY <1>1 DEF Inv, NoDangling, CountExact, Refs, Released
<1>. QED
  BY <1>2, <1>3, <1>4, <1>5 DEF Inv

LEMMA InvInit == Init => Inv
<1> SUFFICES ASSUME Init PROVE Inv
  OBVIOUS
<1> USE SharedPtrAssumption DEF Init
<1>1. TypeOK
  BY DEF TypeOK
<1>2. Phases /\ Exclusive /\ Held /\ Sources /\ Doomed /\ Orphans
  BY DEF Phases, Exclusive, Held, Sources, Doomed, Orphans, Busy
<1>3. NoDangling /\ NoOrphan
  BY DEF NoDangling, NoOrphan
<1>4. CountExact
  <2>1. \A o \in Objects : Refs(o) = {}
    BY DEF Refs
  <2>. QED
    BY <2>1, FS_EmptySet DEF CountExact
<1>. QED
  BY <1>1, <1>2, <1>3, <1>4 DEF Inv

LEMMA InvNext ==
  ASSUME Fits = Ptrs \X Objects, Inv, [Next]_vars
  PROVE  Inv'
<1>1. ASSUME NEW t \in Threads, Step(t) PROVE Inv'
  <2>1. ASSUME NEW p \in Ptrs, NEW q \in Ptrs, Assign(t, p, q) PROVE Inv'
    BY <2>1, BeginStep DEF Assign, Inv, TypeOK
  <2>2. ASSUME NEW p \in Ptrs, NEW o \in Objects, AssignNew(t, p, o) PROVE Inv'
    BY <2>2, BeginStep DEF AssignNew
  <2>3. ASSUME NEW p \in Ptrs, Drop(t, p) PROVE Inv'
    BY <2>3, BeginStep DEF Drop
  <2>4. CASE \E u \in Threads \ {t}, p \in Ptrs : HandOver(t, u, p)
    BY <2>4, HandOverStep
  <2>5. CASE \E m \in Ptrs : DestroyMember(t, m)
    BY <2>5, DestroyMemberStep
  <2>. QED
    BY <1>1, <2>1, <2>2, <2>3, <2>4, <2>5, ReleaseStep, DeleteStep, DeletedStep, AcquireStep DEF Step
<1>2. CASE UNCHANGED vars
  BY <1>2 DEF vars, Inv, TypeOK, Phases, Exclusive, Held, Sources, Doomed, Orphans, NoDangling,
              CountExact, NoOrphan, Busy, Usable, Local, Released, Refs
<1>. QED
  BY <1>1, <1>2 DEF Next

(* No pointer outlives its object, the counter of every object is the      *)
(* number of references to it, and an object without references is on its  *)
(* way out, as long as every cast succeeds.                                *)
THEOREM PointersSafe ==
  ASSUME Fits = Ptrs \X Objects
  PROVE  Spec => [](NoDangling /\ CountExact /\ NoOrphan)
<1>1. Inv => NoDangling /\ CountExact /\ NoOrphan
  BY DEF Inv
<1>. QED
  BY InvInit, InvNext, <1>1, PTL DEF Spec

(* Every variable keeps its type: above all, no counter falls below zero,  *)
(* which a reference given back twice would make it do (release).          *)
THEOREM TypesCorrect ==
  ASSUME Fits = Ptrs \X Objects
  PROVE  Spec => []TypeOK
<1>1. Inv => TypeOK
  BY DEF Inv
<1>. QED
  BY InvInit, InvNext, <1>1, PTL DEF Spec

(* The counter of every object is the number of references to it, whatever *)
(* the threads do at the same time (SharedPtr's operators, atomic adds).   *)
THEOREM CountsExact ==
  ASSUME Fits = Ptrs \X Objects
  PROVE  Spec => []CountExact
<1>1. Inv => CountExact
  BY DEF Inv
<1>. QED
  BY InvInit, InvNext, <1>1, PTL DEF Spec

(* An object whose counter is zero has just been made or has a thread that *)
(* is about to delete it: the last reference never goes without somebody   *)
(* who frees the object (release, the assignments, the destructor).        *)
THEOREM OrphansDeleted ==
  ASSUME Fits = Ptrs \X Objects
  PROVE  Spec => []NoOrphan
<1>1. Inv => NoOrphan
  BY DEF Inv
<1>. QED
  BY InvInit, InvNext, <1>1, PTL DEF Spec

(* An object is deleted once, and only when nobody refers to it or is      *)
(* about to.                                                               *)
THEOREM DeletesOnce ==
  ASSUME Fits = Ptrs \X Objects
  PROVE  Spec => DeletedOnce
<1> DEFINE Clean ==
      \A o \in alive \ alive' :
          /\ Refs(o) = {}
          /\ \A t \in Threads : val[t] # o
          /\ \A t, u \in Threads : doomed[t] = o /\ doomed[u] = o => t = u
<1>1. ASSUME Inv, [Next]_vars, NEW o \in alive \ alive'
      PROVE  /\ Refs(o) = {}
             /\ \A t \in Threads : val[t] # o
             /\ \A t, u \in Threads : doomed[t] = o /\ doomed[u] = o => t = u
  <2>1. PICK t \in Threads : Delete(t)
    BY <1>1 DEF Next, Step, vars, Assign, AssignNew, Drop, Release, Deleted, Acquire,
                DestroyMember, HandOver
  <2>2. o = doomed[t] /\ o # Null /\ o \in Objects
    BY <1>1, <2>1, SharedPtrAssumption DEF Delete, Inv, TypeOK
  <2>3. count[o] = 0 /\ \A u \in Threads : val[u] # o /\ (doomed[u] = o => u = t)
    BY <1>1, <2>2 DEF Inv, Doomed
  <2>. QED
    BY <1>1, <2>2, <2>3, ZeroCount
<1>2. Inv /\ [Next]_vars => [Clean]_vars
  BY <1>1
<1>3. Init => Inv
  BY InvInit
<1>4. Inv /\ [Next]_vars => Inv'
  BY InvNext
<1>5. Spec => [][Clean]_vars
  BY <1>2, <1>3, <1>4, PTL DEF Spec
<1>. QED
  BY <1>5 DEF DeletedOnce
=============================================================================
