-------------------------- MODULE WorkerAssignment --------------------------
(***************************************************************************)
(* What a pool of workers promises the vehicles of the garage simulator:   *)
(* a vehicle takes one worker nobody else has, in one indivisible step,    *)
(* and later gives it back.  WorkerPool implements it with a counting      *)
(* semaphore, an availability array and a mutex.                           *)
(***************************************************************************)
EXTENDS Naturals

CONSTANTS
  Cars,    \* the threads that use the pool
  Size     \* number of workers

VARIABLE owned   \* per thread: the worker it owns, 0 for none

Init == owned = [c \in Cars |-> 0]

Take(c) ==
  /\ owned[c] = 0
  /\ \E w \in 1..Size :
       /\ \A d \in Cars : owned[d] # w
       /\ owned' = [owned EXCEPT ![c] = w]

Return(c) ==
  /\ owned[c] # 0
  /\ owned' = [owned EXCEPT ![c] = 0]

Next == \E c \in Cars : Take(c) \/ Return(c)

Spec == Init /\ [][Next]_owned
=============================================================================
