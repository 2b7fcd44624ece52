----------------------------- MODULE Institute ------------------------------
(***************************************************************************)
(* What the garage simulator promises as a whole, without queue, threads   *)
(* or semaphores: vehicles are admitted one at a time into an institute    *)
(* that holds at most N_CAPACITY of them, each admitted vehicle leaves     *)
(* exactly once, and the institute closes only when every vehicle has left *)
(* or never came.  A startup error ends the program before anyone is       *)
(* admitted.                                                               *)
(***************************************************************************)
EXTENDS Naturals, FiniteSets

CONSTANTS Cars, N_CAPACITY

VARIABLES
  phase,   \* per vehicle: expected, inside, served or absent
  open     \* the institute has not closed

vars == <<phase, open>>

Init ==
  /\ phase = [c \in Cars |-> "expected"]
  /\ open = TRUE

Advance(c, from, to) ==
  /\ open
  /\ phase[c] = from
  /\ phase' = [phase EXCEPT ![c] = to]
  /\ UNCHANGED open

Inside == {c \in Cars : phase[c] = "inside"}

Admit(c) ==
  /\ Cardinality(Inside) < N_CAPACITY
  /\ Advance(c, "expected", "inside")

Leave(c) == Advance(c, "inside", "served")

(* its thread could not be created *)
NeverCame(c) == Advance(c, "expected", "absent")

Close ==
  /\ open
  /\ \A c \in Cars : phase[c] \in {"served", "absent"}
  /\ open' = FALSE
  /\ UNCHANGED phase

Abort ==
  /\ open
  /\ \A c \in Cars : phase[c] \in {"expected", "absent"}
  /\ open' = FALSE
  /\ UNCHANGED phase

Next ==
  \/ \E c \in Cars : Admit(c) \/ Leave(c) \/ NeverCame(c)
  \/ Close
  \/ Abort

Spec == Init /\ [][Next]_vars
=============================================================================
