----------------------------- MODULE DiningTable -----------------------------
(***************************************************************************)
(* What dining-philosophers.c promises to somebody who watches the table:  *)
(* each philosopher thinks, gets hungry and eats in turn, and starts to    *)
(* eat only while neither neighbour is eating.  The promise is off for     *)
(* good when the table is no longer orderly: a philosopher without a seat  *)
(* of its own, or a status that claims a hunger nobody has.                *)
(***************************************************************************)
EXTENDS Naturals

CONSTANT N            \* number of philosophers, 0 .. N-1

VARIABLES
  phase,              \* what each philosopher is doing
  orderly             \* whether the table still is as it should be

Seats == 0..(N - 1)

Neighbours(p) == {(p + N - 1) % N, (p + 1) % N}

Init == phase = [p \in Seats |-> "thinking"] /\ orderly \in BOOLEAN

GetHungry(p) ==
  /\ phase[p] = "thinking"
  /\ phase' = [phase EXCEPT ![p] = "hungry"]

Eat(p) ==
  /\ phase[p] = "hungry"
  /\ \A q \in Neighbours(p) : phase[q] # "eating"
  /\ phase' = [phase EXCEPT ![p] = "eating"]

PutDown(p) ==
  /\ phase[p] = "eating"
  /\ phase' = [phase EXCEPT ![p] = "thinking"]

Meal == \E p \in Seats : GetHungry(p) \/ Eat(p) \/ PutDown(p)

Disorder == orderly' = FALSE

Next == (Meal /\ UNCHANGED orderly) \/ Disorder

Spec == Init /\ [][Next]_<<phase, orderly>>
=============================================================================
