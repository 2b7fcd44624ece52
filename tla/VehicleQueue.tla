---------------------------- MODULE VehicleQueue ----------------------------
(***************************************************************************)
(* What the operations of garage-simulator/queue.c do to the contents of   *)
(* the priority queue, as operators on sequences of vehicles.  An array    *)
(* cars[0 .. size-1] is the sequence of its first size entries; a shift    *)
(* loop followed by a store is an insertion at the place the loop stops.   *)
(* ArrayQueue shows that the loops over the array compute these operators. *)
(*                                                                         *)
(* priority and enter_time are the fields of the vehicles.                 *)
(***************************************************************************)
EXTENDS Naturals, Sequences, SequencesExt

(* The condition under which both shift loops move vehicle d one place     *)
(* back to make room for vehicle c in front of it.                         *)
Outranks(priority, enter_time, c, d) ==
  \/ priority[c] > priority[d]
  \/ priority[c] = priority[d] /\ enter_time[c] < enter_time[d]

(* mutant of InsertSorted: behind everybody *)
InsertLast(q, c, priority, enter_time) == Append(q, c)

(* The loop runs from the back and stops at the first vehicle that c does  *)
(* not outrank; c goes right behind it.                                    *)
InsertSorted(q, c, priority, enter_time) ==
  LET stops == {i \in 1..Len(q) : ~Outranks(priority, enter_time, c, q[i])}
  IN  InsertAt(q, Max(stops \cup {0}) + 1, c)

(* Outer iteration i of insertion_sort: cars[i] into cars[0 .. i-1]. *)
SortStep(q, i, priority, enter_time) ==
  InsertSorted(SubSeq(q, 1, i), q[i + 1], priority, enter_time)
    \o SubSeq(q, i + 2, Len(q))

(* The whole of insertion_sort: iterations 1 .. size-1 in this order. *)
InsertionSort(q, priority, enter_time) ==
  LET after[i \in 0..Len(q)] ==
        IF i < 2 THEN q
        ELSE SortStep(after[i - 1], i - 1, priority, enter_time)
  IN  after[Len(q)]

(* No vehicle outranks one in front of it. *)
InRankOrder(q, priority, enter_time) ==
  \A i, j \in 1..Len(q) :
    i < j => ~Outranks(priority, enter_time, q[j], q[i])
=============================================================================
