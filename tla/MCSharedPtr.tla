---------------------------- MODULE MCSharedPtr ----------------------------
(***************************************************************************)
(* SharedPtr for TLC: two objects, one of them with a member; three        *)
(* variables of two threads.                                               *)
(***************************************************************************)
EXTENDS SharedPtr

CONSTANTS o1, o2, p1, p2, p3, m1

MCIn == [p \in Ptrs |-> IF p = m1 THEN o1 ELSE Null]

(* Every assignment is of the right class, as the compiler has it but for  *)
(* the template that converts from another class.                          *)
MCFits == Ptrs \X Objects
(* p1 points to the class of o1 only. *)
MCMisfits == MCFits \ {<<p1, o2>>}
=============================================================================
