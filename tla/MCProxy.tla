------------------------------ MODULE MCProxy ------------------------------
(***************************************************************************)
(* Proxy for TLC: two boxes, and two clients whose requests have uids of   *)
(* their own.                                                              *)
(***************************************************************************)
EXTENDS Proxy, TLC

CONSTANTS c1, c2, r1, r2

(* Boxes are alike, and so are the threads of the pool. *)
MCSymmetry == Permutations(Boxes) \cup Permutations(Workers)

MCReqUid == [c \in Clients |-> IF c = c1 THEN r1 ELSE r2]

=============================================================================
