------------------------------ MODULE OneShot ------------------------------
(***************************************************************************)
(* What PeerAdmin promises about its connections, without selectors, keys, *)
(* descriptors, locks or threads: a connection is handled by one party at  *)
(* a time.  It is watched until input is ready, selected, queued, handled  *)
(* by one task, and watched again when that task says so.  A task may also *)
(* leave it mute: open, watched by nobody, for good unless another task    *)
(* lets go of it.                                                          *)
(***************************************************************************)
CONSTANT Clients

VARIABLES
    stage,   \* where each connection is
    ready    \* connections with input, or an end of file, to look at

vars == <<stage, ready>>

Stages == {"none", "opening", "armed", "selected", "queued", "running", "mute"}

Init == stage = [c \in Clients |-> "none"] /\ ready = {}

(* c goes from one stage to another; at is the stage it is in. *)
Move(c, at, from, to) == at \in from /\ stage' = [stage EXCEPT ![c] = to]

Open(c, at)   == Move(c, at, {"none"}, "opening") /\ UNCHANGED ready
Arm(c, at)    == Move(c, at, {"opening", "running"}, "armed") /\ UNCHANGED ready
Fire(c, at)   == Move(c, at, {"armed"}, "selected") /\ c \in ready /\ UNCHANGED ready
Queue(c, at)  == Move(c, at, {"selected"}, "queued") /\ UNCHANGED ready
Start(c, at)  == Move(c, at, {"queued"}, "running") /\ UNCHANGED ready
Leave(c, at)  == Move(c, at, {"running"}, "mute") /\ UNCHANGED ready
Drop(c, at)   == Move(c, at, {"mute"}, "running") /\ UNCHANGED ready
Finish(c, at) == Move(c, at, {"opening", "running"}, "none") /\ ready' = ready \ {c}

(* Selected connections given up: closed at end of file, or all of them    *)
(* because the application quits.                                          *)
Discard == /\ \E D \in SUBSET {c \in Clients : stage[c] = "selected"} :
                 D # {} /\ stage' = [c \in Clients |-> IF c \in D THEN "none" ELSE stage[c]]
           /\ UNCHANGED ready

(* Input comes in on an open connection; only the task that handles it     *)
(* takes it, and that of a connection given up is thrown away.             *)
Input(c, at) == at # "none" /\ ready' = ready \cup {c} /\ UNCHANGED stage
Take(c, at)  == at \in {"running", "none"} /\ ready' = ready \ {c} /\ UNCHANGED stage

Step(c, at) ==
    \/ Open(c, at) \/ Arm(c, at) \/ Fire(c, at) \/ Queue(c, at) \/ Start(c, at)
    \/ Leave(c, at) \/ Drop(c, at) \/ Finish(c, at) \/ Input(c, at) \/ Take(c, at)

Next == (\E c \in Clients : Step(c, stage[c])) \/ Discard

Spec == Init /\ [][Next]_vars
=============================================================================
