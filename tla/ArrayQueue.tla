----------------------------- MODULE ArrayQueue -----------------------------
(***************************************************************************)
(* The loops of garage-simulator/queue.c over the array of the priority    *)
(* queue, one step per iteration.  Every operation runs under pq->mutex,   *)
(* so operations do not overlap; which one comes next is open.             *)
(*                                                                         *)
(* Inside a loop the array is not a queue: an entry is there twice, or the *)
(* key is only in a local variable.  The module checks that what the loops *)
(* leave behind is what the operators of VehicleQueue say, which is all    *)
(* that Admission uses of them.                                            *)
(***************************************************************************)
EXTENDS Integers, VehicleQueue

CONSTANTS
  K_CARS,   \* vehicles, and entries of the array
  MaxTime   \* arrival times, in seconds, are 0..MaxTime

ASSUME ArrayAssumption == K_CARS \in Nat \ {0} /\ MaxTime \in Nat

Cars == 1..K_CARS
NULL == 0

VARIABLES
  cars,        \* pq->cars
  size,        \* pq->size
  op,          \* the operation that holds pq->mutex, or "idle"
  key,         \* its vehicle
  i, j,        \* its loop indices
  outside,     \* vehicles that have not called pq_insert yet
  priority,
  enter_time,
  before       \* history: the queue when the operation began

vars == <<cars, size, op, key, i, j, outside, priority, enter_time, before>>
fields == <<priority, enter_time>>

Contents == [k \in 1..size |-> cars[k - 1]]

(* mutant of Ahead: <= instead of < on the times *)
AheadOrEqual(c, d) ==
  \/ priority[c] > priority[d]
  \/ priority[c] = priority[d] /\ enter_time[c] <= enter_time[d]

Ahead(c, d) == Outranks(priority, enter_time, c, d)

(* priority_queue pq = { .size = 0 } zeroes the array as well. *)
Init ==
  /\ cars = [k \in 0..(K_CARS - 1) |-> NULL]
  /\ size = 0
  /\ op = "idle"
  /\ key = NULL
  /\ i = 0 /\ j = 0
  /\ outside = Cars
  /\ priority \in [Cars -> {0, 1}]
  /\ enter_time \in [Cars -> 0..MaxTime]
  /\ before = <<>>

Begin(o) ==
  /\ op = "idle"
  /\ op' = o
  /\ before' = Contents

Return ==
  /\ op' = "idle"
  /\ key' = NULL
  /\ UNCHANGED before

-----------------------------------------------------------------------------
(* the loop of pq_insert and the inner loop of insertion_sort *)

(* mutant of Shifted: copies in the wrong direction *)
ShiftedBack == [cars EXCEPT ![j] = cars[j + 1]]

Shifted == [cars EXCEPT ![j + 1] = cars[j]]

ShiftBack ==
  /\ key # NULL /\ op \in {"insert", "sort"}
  /\ j >= 0 /\ Ahead(key, cars[j])
  /\ cars' = Shifted
  /\ j' = j - 1
  /\ UNCHANGED <<size, op, key, i, outside, fields, before>>

StopsAt == j >= 0 => ~Ahead(key, cars[j])

-----------------------------------------------------------------------------
(***************************************************************************)
(* pq_insert.  Its way out for a full queue (lines 46-50) is not modelled, *)
(* nor is the guard that avoids it assumed: OneGap says that the queue is  *)
(* never full when a vehicle comes.                                        *)
(***************************************************************************)

BeginInsert(c) ==
  /\ c \in outside
  /\ Begin("insert")
  /\ key' = c
  /\ j' = size - 1
  /\ outside' = outside \ {c}
  /\ UNCHANGED <<cars, size, i, fields>>

EndInsert ==
  /\ op = "insert" /\ StopsAt
  /\ cars' = [cars EXCEPT ![j + 1] = key]
  /\ size' = size + 1
  /\ Return
  /\ UNCHANGED <<i, j, outside, fields>>

-----------------------------------------------------------------------------
(* pq_pop, from a queue that is not empty: queue_sem sees to it (Admission) *)

BeginPop ==
  /\ size > 0
  /\ Begin("pop")
  /\ key' = cars[0]
  /\ j' = 0
  /\ UNCHANGED <<cars, size, i, outside, fields>>

ShiftFront ==
  /\ op = "pop"
  /\ j < size - 1
  /\ cars' = [cars EXCEPT ![j] = cars[j + 1]]
  /\ j' = j + 1
  /\ UNCHANGED <<size, op, key, i, outside, fields, before>>

EndPop ==
  /\ op = "pop"
  /\ j >= size - 1
  /\ size' = size - 1
  /\ Return
  /\ UNCHANGED <<cars, i, j, outside, fields>>

-----------------------------------------------------------------------------
(* the monitor's promotions at time now, and insertion_sort *)

BeginSort(now) ==
  /\ Begin("sort")
  /\ priority' = [c \in Cars |->
       IF c \in ToSet(Contents) /\ enter_time[c] < now
         THEN 1
         ELSE priority[c]]
  /\ i' = 1
  /\ UNCHANGED <<cars, size, key, j, outside, enter_time>>

PickKey ==
  /\ op = "sort" /\ key = NULL /\ i < size
  /\ key' = cars[i]
  /\ j' = i - 1
  /\ UNCHANGED <<cars, size, op, i, outside, fields, before>>

PlaceKey ==
  /\ op = "sort" /\ key # NULL /\ StopsAt
  /\ cars' = [cars EXCEPT ![j + 1] = key]
  /\ key' = NULL
  /\ i' = i + 1
  /\ UNCHANGED <<size, op, j, outside, fields, before>>

(* mutant of SortOver: leaves the last entry out *)
SortOverEarly == i >= size - 1

SortOver == i >= size

EndSort ==
  /\ op = "sort" /\ key = NULL /\ SortOver
  /\ Return
  /\ UNCHANGED <<cars, size, i, j, outside, fields>>

-----------------------------------------------------------------------------

Next ==
  \/ ShiftBack
  \/ \E c \in Cars : BeginInsert(c)
  \/ EndInsert
  \/ BeginPop \/ ShiftFront \/ EndPop
  \/ \E now \in 0..(MaxTime + 1) : BeginSort(now)
  \/ PickKey \/ PlaceKey \/ EndSort

Spec == Init /\ [][Next]_vars

-----------------------------------------------------------------------------
(* Properties *)

(* Every variable has the values its C counterpart can have. *)
TypeOK ==
  /\ cars \in [0..(K_CARS - 1) -> Cars \cup {NULL}]
  /\ size \in 0..K_CARS
  /\ op \in {"idle", "insert", "pop", "sort"}
  /\ key \in Cars \cup {NULL}
  /\ i \in 0..K_CARS
  /\ j \in -1..(K_CARS - 1)
  /\ outside \subseteq Cars
  /\ priority \in [Cars -> {0, 1}]
  /\ enter_time \in [Cars -> 0..MaxTime]
  /\ before \in Seq(Cars)

(***************************************************************************)
(* In the middle of a shift loop the indices stay within the vehicles in   *)
(* the array, nobody is lost and nobody is there twice: with the entry at  *)
(* the gap left out, the array holds the queued vehicles the operation     *)
(* began with, apart from the one in its local variable.                   *)
(***************************************************************************)
SameBut(gap, last, who) ==
  /\ gap \in 0..last
  /\ \A c \in who :
       Cardinality({k \in (0..last) \ {gap} : cars[k] = c})
         = Cardinality({k \in DOMAIN before : before[k] = c})

OneGap ==
  /\ op = "insert" => size < K_CARS /\ SameBut(j + 1, size, Cars)
  /\ op = "sort" /\ key # NULL => SameBut(j + 1, size - 1, Cars \ {key})
  /\ op = "pop" => SameBut(j, size - 1, Cars \ {key})

(***************************************************************************)
(* Between operations the queue is in rank order, so pq_pop takes a        *)
(* highest-ranked vehicle by taking cars[0]; within them, OneGap.          *)
(***************************************************************************)
IdleSorted == op = "idle" => InRankOrder(Contents, priority, enter_time)

ArrayInv == TypeOK /\ OneGap /\ IdleSorted

(* What the loops leave behind is what VehicleQueue says. *)
ComputesOperators ==
  [][op # "idle" /\ op' = "idle" =>
       Contents' =
         CASE op = "insert" ->
                InsertSorted(before, key, priority, enter_time)
           [] op = "pop" -> Tail(before)
           [] op = "sort" ->
                InsertionSort(before, priority, enter_time)]_vars

(***************************************************************************)
(* insertion_sort leaves the same vehicles in rank order, and vehicles of  *)
(* equal rank in the order they had (queue.c:20 "FIFO").                   *)
(***************************************************************************)
StableSortOf(p, q) ==
  /\ Len(p) = Len(q) /\ ToSet(p) = ToSet(q)
  /\ InRankOrder(p, priority, enter_time)
  /\ \A k, l \in 1..Len(q) :
       k < l /\ ~Ahead(q[l], q[k]) =>
         \E m, n \in 1..Len(p) : m < n /\ p[m] = q[k] /\ p[n] = q[l]

SortsStably ==
  [][op = "sort" /\ op' = "idle" => StableSortOf(Contents', before)]_vars
=============================================================================
