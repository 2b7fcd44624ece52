-------------------------- MODULE Admission_proofs --------------------------
(***************************************************************************)
(* Theorems about Admission, for every number of vehicles and places: its  *)
(* inductive invariant, the order of admission, the priorities that stay   *)
(* as read, and the implementation of the Institute.                       *)
(***************************************************************************)
EXTENDS Admission, FiniteSetTheorems, TLAPS

(* Between two operations the queue is in an array like ArrayQueue's, with *)
(* the same operators: what is proved of them there holds of them here.    *)
Array == INSTANCE ArrayQueue_proofs WITH
  MaxTime <- MaxClock,
  cars <- [k \in 0..(K_CARS - 1) |->
             IF k < Len(queue) THEN queue[k + 1] ELSE NoCar],
  size <- Len(queue), op <- "idle", key <- NoCar, i <- 0, j <- 0,
  outside <- {c \in Cars : pc[c] \in {"uncreated", "created"}},
  before <- <<>>

Occurs(d, q) == \E k \in 1..Len(q) : q[k] = d

NoRepeat(q) == \A k, l \in 1..Len(q) : q[k] = q[l] => k = l

(* The fields of the vehicles in S are numbers. *)
Ranked(S, prio, time) == \A c \in S : prio[c] \in Int /\ time[c] \in Int

(***************************************************************************)
(* IInv counts positions and bounds every semaphore.  The induction needs  *)
(* neither: Placed says with membership what NoVehicleLost counts, and the *)
(* bounds follow from the accounts.                                        *)
(***************************************************************************)
InQueue(c) == Occurs(c, queue)

Placed ==
  /\ NoRepeat(queue)
  /\ \A c \in Cars :
       /\ pc[c] = "waiting" <=>
            InQueue(c) \/ manager_car = c \/ car_sem[c] = 1
       /\ ~(InQueue(c) /\ manager_car = c)
       /\ ~(InQueue(c) /\ car_sem[c] = 1)
       /\ ~(manager_car = c /\ car_sem[c] = 1)

Types ==
  /\ main \in {"spawn_creator", "spawn_monitor", "spawn_manager", "counting"}
               \cup Stopped
  /\ finished \in 0..K_CARS
  /\ created \in 0..K_CARS
  /\ pc \in [Cars -> PCs]
  /\ priority \in [Cars -> {0, 1}]
  /\ arrived \in [Cars -> 0..MaxClock]
  /\ car_sem \in [Cars -> {0, 1}]
  /\ queue \in Seq(Cars)
  /\ sort_i \in 0..K_CARS
  /\ slots_sem \in Nat /\ queue_sem \in Nat /\ done_sem \in Nat
  /\ manager \in {"idle", "has_vehicle", "has_slot", "admitting"}
  /\ manager_car \in Cars \cup {NoCar}
  /\ clock \in 0..MaxClock

(* Until main has started every thread nobody is admitted. *)
StartInv ==
  main \in {"spawn_creator", "spawn_monitor", "spawn_manager"} =>
    /\ manager = "idle"
    /\ \A c \in Cars : car_sem[c] = 0
                       /\ pc[c] \notin {"inside", "leaving", "done"}

Local == Types /\ CreatedInv /\ ManagerInv /\ Placed /\ StartInv

-----------------------------------------------------------------------------
(* The queue *)

LEMMA CountTo == \A n \in Nat : Cardinality(1..n) = n
BY FS_Interval

LEMMA CarsAre == Cars \subseteq Nat /\ NoCar \notin Cars
                 /\ IsFiniteSet(Cars) /\ Cardinality(Cars) = K_CARS
<1>1. K_CARS \in Nat /\ Cars = 1..K_CARS /\ NoCar \notin Cars
  BY AdmissionAssumption DEF Cars, NoCar
<1> QED
  BY <1>1, FS_Interval

LEMMA CarsRanked == Types => Ranked(Cars, priority, enter_time)
<1> SUFFICES ASSUME Types, NEW c \in Cars
             PROVE  priority[c] \in Int /\ enter_time[c] \in Int
  BY DEF Ranked
<1>1. arrived[c] \in Nat /\ TicksPerSec \in Nat \ {0} /\ priority[c] \in Int
  BY AdmissionAssumption DEF Types
<1>2. arrived[c] \div TicksPerSec \in Int
  BY <1>1
<1> QED
  BY <1>1, <1>2 DEF enter_time

(***************************************************************************)
(* A vehicle that is not queued finds room in the array: the queued ones   *)
(* are distinct, so there are fewer than K_CARS of them (queue.c reports a *)
(* full queue and would drop the vehicle).                                 *)
(***************************************************************************)
LEMMA RoomForOneMore ==
  ASSUME Local, NEW c \in Cars, ~InQueue(c)
  PROVE  Len(queue) < K_CARS
<1> DEFINE Others == Cars \ {c}
           f == [i \in 1..Len(queue) |-> queue[i]]
<1>1. IsFiniteSet(Others) /\ Cardinality(Others) = K_CARS - 1
  BY CarsAre, FS_RemoveElement
<1>2. Len(queue) \in Nat /\ queue \in Seq(Cars)
  BY DEF Local, Types
<1>3. f \in Injection(1..Len(queue), Others)
  <2>1. \A i \in 1..Len(queue) : queue[i] \in Others
    BY <1>2 DEF InQueue, Occurs
  <2>2. f \in [1..Len(queue) -> Others]
    BY <2>1
  <2>3. \A i, j \in 1..Len(queue) : f[i] = f[j] => i = j
    BY DEF Local, Placed, NoRepeat
  <2> QED
    BY <2>2, <2>3 DEF Injection, IsInjective
<1>4. Cardinality(1..Len(queue)) = Len(queue)
  BY <1>2, CountTo
<1>5. Cardinality(1..Len(queue)) <= Cardinality(Others)
  <2> HIDE DEF f
  <2> QED
    BY <1>1, <1>3, FS_Injection
<1> QED
  BY <1>1, <1>2, <1>4, <1>5, AdmissionAssumption

(* Nor do the queued vehicles ever overflow it. *)
LEMMA QueueFits == Local => Len(queue) <= K_CARS
<1> SUFFICES ASSUME Local, Len(queue) > K_CARS PROVE FALSE
  BY AdmissionAssumption DEF Local, Types
<1>1. Len(queue) \in Nat /\ queue \in Seq(Cars)
  BY DEF Local, Types
<1>2. \A c \in Cars : InQueue(c)
  BY RoomForOneMore, <1>1, AdmissionAssumption
<1> DEFINE f == [i \in 1..Len(queue) |-> queue[i]]
<1>3. f \in Injection(1..Len(queue), Cars)
  BY <1>1 DEF Local, Placed, NoRepeat, Injection, IsInjective
<1>4. Cardinality(1..Len(queue)) = Len(queue)
  BY <1>1, CountTo
<1>5. Cardinality(1..Len(queue)) <= Cardinality(Cars)
  <2> HIDE DEF f
  <2> QED
    BY CarsAre, <1>3, FS_Injection
<1> QED
  BY <1>1, <1>4, <1>5, CarsAre, AdmissionAssumption

(* The operators of both modules are the same. *)
LEMMA SameOperators ==
  /\ \A q, c, prio, time :
       Array!InsertSorted(q, c, prio, time) = InsertSorted(q, c, prio, time)
  /\ \A q, n, prio, time :
       Array!SortStep(q, n, prio, time) = SortStep(q, n, prio, time)
  /\ \A q, prio, time :
       Array!InRankOrder(q, prio, time) <=> InRankOrder(q, prio, time)
  /\ \A S, prio, time : Array!Ranked(S, prio, time) <=> Ranked(S, prio, time)
  /\ \A d, q : Array!Occurs(d, q) <=> Occurs(d, q)
  /\ \A q : Array!NoRepeat(q) <=> NoRepeat(q)
<1>1. \A q, c, prio, time :
        Array!InsertSorted(q, c, prio, time) = InsertSorted(q, c, prio, time)
  BY DEF InsertSorted, InsertAt, Max, Outranks, Array!InsertSorted,
         Array!InsertAt, Array!Max, Array!Outranks
<1>2. \A q, n, prio, time :
        Array!SortStep(q, n, prio, time) = SortStep(q, n, prio, time)
  BY <1>1 DEF SortStep, Array!SortStep
<1>3. \A q, prio, time :
        Array!InRankOrder(q, prio, time) <=> InRankOrder(q, prio, time)
  BY DEF InRankOrder, Outranks, Array!InRankOrder, Array!Outranks
<1>4. \A S, prio, time : Array!Ranked(S, prio, time) <=> Ranked(S, prio, time)
  BY DEF Ranked, Array!Ranked
<1>5. \A d, q : Array!Occurs(d, q) <=> Occurs(d, q)
  BY DEF Occurs, Array!Occurs
<1>6. \A q : Array!NoRepeat(q) <=> NoRepeat(q)
  BY DEF NoRepeat, Array!NoRepeat
<1> QED
  BY <1>1, <1>2, <1>3, <1>4, <1>5, <1>6

LEMMA ArrayIs == Array!ArrayAssumption
BY AdmissionAssumption DEF Array!ArrayAssumption

(* What the three operations do to the queue, in one place *)
LEMMA Inserts ==
  ASSUME Local, NEW c \in Cars, ~InQueue(c),
         queue' = InsertSorted(queue, c, priority, enter_time)
  PROVE  /\ queue' \in Seq(Cars)
         /\ Len(queue') = Len(queue) + 1
         /\ \A d \in Cars : InQueue(d)' <=> d = c \/ InQueue(d)
         /\ NoRepeat(queue')
         /\ InRankOrder(queue, priority, enter_time) =>
              InRankOrder(queue', priority, enter_time)
<1>1. PICK q \in Seq(Cars), r \in {queue'} :
        /\ q = queue
        /\ r = Array!InsertSorted(q, c, priority, enter_time)
        /\ Array!Ranked(Cars, priority, enter_time)
        /\ Array!NoRepeat(q) /\ ~Array!Occurs(c, q)
  BY CarsRanked, SameOperators DEF Local, Types, Placed, InQueue
<1>2. /\ r \in Seq(Cars)
      /\ \E p \in 0..Len(q) :
           Array!PlacedBehind(r, q, c, p, priority, enter_time)
  BY <1>1, ArrayIs, Array!InsertSortedIs
<1>3. PICK p \in 0..Len(q) :
        Array!PlacedBehind(r, q, c, p, priority, enter_time)
  BY <1>2
<1>4. /\ \A d : Array!Occurs(d, r) <=> d = c \/ Array!Occurs(d, q)
      /\ Array!NoRepeat(r)
  BY <1>1, <1>2, <1>3, ArrayIs, Array!PlacedKeeps
<1>5. Array!InRankOrder(q, priority, enter_time) =>
        Array!InRankOrder(r, priority, enter_time)
  BY <1>1, <1>2, <1>3, ArrayIs, Array!PlacedSorted
<1>6. Len(r) = Len(q) + 1
  BY <1>3 DEF Array!PlacedBehind
<1> QED
  BY <1>1, <1>2, <1>4, <1>5, <1>6, SameOperators DEF InQueue

LEMMA Sorts ==
  ASSUME Local, Sort
  PROVE  /\ queue' \in Seq(Cars)
         /\ Len(queue') = Len(queue)
         /\ \A d \in Cars : InQueue(d)' <=> InQueue(d)
         /\ NoRepeat(queue')
         /\ InRankOrder(SubSeq(queue, 1, sort_i), priority, enter_time) =>
              InRankOrder(SubSeq(queue', 1, sort_i + 1), priority, enter_time)
<1>1. PICK q \in Seq(Cars), r \in {queue'}, n \in Nat :
        /\ q = queue /\ n = sort_i /\ n \in 1..(Len(q) - 1)
        /\ r = Array!SortStep(q, n, priority, enter_time)
        /\ Array!Ranked(Cars, priority, enter_time)
        /\ Array!NoRepeat(q)
  BY CarsRanked, SameOperators DEF Local, Types, Placed, Sort
<1>2. /\ r \in Seq(Cars)
      /\ \E p \in 0..n :
           /\ Array!StepTo(r, q, n, p)
           /\ Array!StopsBehind(q, n, p, priority, enter_time)
      /\ Array!InRankOrder(SubSeq(q, 1, n), priority, enter_time) =>
           Array!InRankOrder(SubSeq(r, 1, n + 1), priority, enter_time)
  BY <1>1, ArrayIs, Array!SortStepIs
<1>3. PICK p \in 0..n : Array!StepTo(r, q, n, p)
  BY <1>2
<1>4. /\ \A d : Array!Occurs(d, r) <=> Array!Occurs(d, q)
      /\ Array!NoRepeat(r)
  BY <1>1, <1>2, <1>3, ArrayIs, Array!StepKeeps
<1>5. Len(r) = Len(q)
  BY <1>3 DEF Array!StepTo
<1> QED
  BY <1>1, <1>2, <1>4, <1>5, SameOperators DEF InQueue

LEMMA Pops ==
  ASSUME Local, queue # <<>>, queue' = Tail(queue)
  PROVE  /\ queue' \in Seq(Cars) /\ Head(queue) \in Cars
         /\ Len(queue) > 0 /\ Len(queue') = Len(queue) - 1
         /\ Head(queue) = queue[1]
         /\ \A k \in 1..Len(queue') : queue'[k] = queue[k + 1]
         /\ \A d \in Cars : InQueue(d) <=> d = Head(queue) \/ InQueue(d)'
         /\ ~Occurs(Head(queue), queue')
         /\ NoRepeat(queue')
<1>1. queue \in Seq(Cars) /\ NoRepeat(queue)
  BY DEF Local, Types, Placed
<1>2. /\ queue' \in Seq(Cars) /\ Head(queue) \in Cars
      /\ Len(queue) \in Nat /\ Len(queue) > 0
      /\ Len(queue') = Len(queue) - 1 /\ Head(queue) = queue[1]
      /\ \A k \in 1..Len(queue') : queue'[k] = queue[k + 1]
  BY <1>1
<1>3. NoRepeat(queue')
  BY <1>1, <1>2 DEF NoRepeat
<1>4. ~Occurs(Head(queue), queue')
  <2> SUFFICES ASSUME NEW k \in 1..Len(queue'), queue'[k] = queue[1]
               PROVE  FALSE
    BY <1>2 DEF InQueue, Occurs
  <2>1. queue[k + 1] = queue[1] /\ k + 1 \in 1..Len(queue) /\ 1 \in 1..Len(queue)
    BY <1>2
  <2> QED
    BY <1>1, <2>1 DEF NoRepeat
<1>5. ASSUME NEW d \in Cars PROVE InQueue(d) <=> d = Head(queue) \/ InQueue(d)'
  <2>1. ASSUME InQueue(d), d # Head(queue) PROVE InQueue(d)'
    <3>1. PICK k \in 1..Len(queue) : queue[k] = d
      BY <2>1 DEF InQueue, Occurs
    <3>2. k - 1 \in 1..Len(queue') /\ queue'[k - 1] = d
      BY <1>2, <2>1, <3>1
    <3> QED
      BY <3>2 DEF InQueue, Occurs
  <2>2. InQueue(d)' => InQueue(d)
    BY <1>2 DEF InQueue, Occurs
  <2>3. d = Head(queue) => InQueue(d)
    BY <1>2 DEF InQueue, Occurs
  <2> QED
    BY <2>1, <2>2, <2>3
<1> QED
  BY <1>2, <1>3, <1>4, <1>5

-----------------------------------------------------------------------------
(* Types, threads and places *)

LEMMA InitLocal == Init => Local
<1> SUFFICES ASSUME Init PROVE Local
  OBVIOUS
<1> USE AdmissionAssumption DEF Init
<1>1. Types
  BY DEF Types, PCs
<1>2. CreatedInv /\ ManagerInv /\ StartInv
  BY CarsAre DEF CreatedInv, ManagerInv, StartInv, Cars
<1>3. Placed
  BY CarsAre DEF Placed, NoRepeat, InQueue, Occurs
<1> QED
  BY <1>1, <1>2, <1>3 DEF Local

LEMMA NextLocal == Local /\ [Next]_vars => Local'
<1> SUFFICES ASSUME Local, [Next]_vars PROVE Local'
  OBVIOUS
<1> USE AdmissionAssumption, CarsAre
    DEF Local, Types, CreatedInv, ManagerInv, StartInv, Stopped
<1>1. CASE CreateCar
  BY <1>1 DEF CreateCar, DoneUnless, Placed, InQueue, PCs, Cars,
              mainVars, queueVars, managerVars, CreatorRuns, Running
<1>2. ASSUME NEW c \in Cars, PqInsert(c) PROVE Local'
  <2>1. ~InQueue(c) /\ manager_car # c /\ car_sem[c] = 0
    BY <1>2 DEF PqInsert, Move, Placed
  <2>2. queue' = InsertSorted(queue, c, priority, enter_time)
        /\ queue_sem' = queue_sem + 1
    BY <1>2, <2>1, RoomForOneMore DEF PqInsert
  <2>3. /\ queue' \in Seq(Cars) /\ NoRepeat(queue')
        /\ \A d \in Cars : InQueue(d)' <=> d = c \/ InQueue(d)
    BY <2>1, <2>2, Inserts
  <2>4. Placed'
    BY <1>2, <2>1, <2>3 DEF PqInsert, Move, Placed, PCs, managerVars
  <2> QED
    BY <1>2, <2>2, <2>3, <2>4 DEF PqInsert, Move, PCs, mainVars, managerVars
<1>3. ASSUME NEW c \in Cars, Enter(c) PROVE Local'
  <2>1. Placed'
    BY <1>3 DEF Placed, InQueue, Enter, Move, PCs, queueVars, managerVars
  <2>2. Types'
    BY <1>3 DEF Enter, Move, PCs, mainVars, queueVars, sems, managerVars
  <2>3. CreatedInv' /\ ManagerInv'
    BY <1>3 DEF Enter, Move, managerVars
  <2>4. main = "counting" /\ main' = main
    <3>1. main \notin {"spawn_creator", "spawn_monitor", "spawn_manager"}
      BY <1>3 DEF Enter
    <3> QED
      BY <1>3, <3>1 DEF Enter, Move, Running, mainVars
  <2>5. StartInv'
    BY <2>4
  <2> QED
    BY <2>1, <2>2, <2>3, <2>5
<1>4. ASSUME NEW c \in Cars, FreeSlot(c) \/ SignalDone(c) PROVE Local'
  <2>1. Placed'
    BY <1>4 DEF Placed, InQueue, FreeSlot, SignalDone, Move, PCs, queueVars,
                managerVars
  <2>2. Types'
    <3>1. CASE FreeSlot(c)
      BY <3>1 DEF FreeSlot, Move, PCs, mainVars, queueVars, managerVars
    <3>2. CASE SignalDone(c)
      BY <3>2 DEF SignalDone, Move, PCs, mainVars, queueVars, managerVars
    <3> QED
      BY <1>4, <3>1, <3>2
  <2>3. CreatedInv' /\ ManagerInv'
    BY <1>4 DEF FreeSlot, SignalDone, Move, managerVars
  <2>4. main = "counting" /\ main' = main
    <3>1. main \notin {"spawn_creator", "spawn_monitor", "spawn_manager"}
      BY <1>4 DEF FreeSlot, SignalDone, Move
    <3> QED
      BY <1>4, <3>1 DEF FreeSlot, SignalDone, Move, Running, mainVars
  <2>5. StartInv'
    BY <2>4
  <2> QED
    BY <2>1, <2>2, <2>3, <2>5
<1>5. CASE TakeVehicle \/ TakeSlot
  <2>1. Placed'
    BY <1>5 DEF TakeVehicle, TakeSlot, Placed, InQueue, vehicleVars, queueVars
  <2>2. CASE TakeVehicle
    BY <2>1, <2>2 DEF TakeVehicle, ManagerMove, mainVars, vehicleVars, queueVars
  <2>3. CASE TakeSlot
    BY <2>1, <2>3 DEF TakeSlot, ManagerMove, mainVars, vehicleVars, queueVars
  <2> QED
    BY <1>5, <2>2, <2>3
<1>6. CASE PqPop
  <2>1. CASE queue = <<>>
    BY <1>6, <2>1 DEF PqPop, ManagerMove, Placed, InQueue, mainVars,
                      vehicleVars
  <2>2. CASE queue # <<>>
    <3>1. /\ queue' = Tail(queue) /\ manager_car' = Head(queue)
          /\ manager = "has_slot" /\ manager_car = NoCar
      BY <1>6, <2>2 DEF PqPop, ManagerMove
    <3>2. /\ queue' \in Seq(Cars) /\ Head(queue) \in Cars /\ NoRepeat(queue')
          /\ \A d \in Cars : InQueue(d) <=> d = Head(queue) \/ InQueue(d)'
          /\ ~Occurs(Head(queue), queue')
      BY <2>2, <3>1, Pops
    <3>3. pc' = pc /\ car_sem' = car_sem
      BY <1>6 DEF PqPop, vehicleVars
    <3>4. Placed'
      <4> SUFFICES ASSUME NEW d \in Cars
                   PROVE  /\ pc[d] = "waiting" <=>
                               \/ InQueue(d)'
                               \/ Head(queue) = d
                               \/ car_sem[d] = 1
                          /\ ~(InQueue(d)' /\ Head(queue) = d)
                          /\ ~(InQueue(d)' /\ car_sem[d] = 1)
                          /\ ~(Head(queue) = d /\ car_sem[d] = 1)
        BY <3>1, <3>2, <3>3 DEF Placed
      <4>1. InQueue(d) <=> d = Head(queue) \/ InQueue(d)'
        BY <3>2
      <4>2. ~(InQueue(d)' /\ Head(queue) = d)
        BY <3>2 DEF InQueue
      <4>3. /\ pc[d] = "waiting" <=> InQueue(d) \/ car_sem[d] = 1
            /\ ~(InQueue(d) /\ car_sem[d] = 1)
        BY <3>1 DEF Placed
      <4> QED
        BY <4>1, <4>2, <4>3
    <3> QED
      BY <1>6, <2>2, <3>1, <3>2, <3>4
      DEF PqPop, ManagerMove, mainVars, vehicleVars
  <2> QED
    BY <2>1, <2>2
<1>7. CASE PostCar
  BY <1>7 DEF PostCar, ManagerMove, Placed, InQueue, mainVars, queueVars, sems
<1>8. CASE Promote
  BY <1>8 DEF Promote, FirstKey, Placed, InQueue, mainVars, sems, managerVars
<1>9. CASE Sort
  <2>1. /\ queue' \in Seq(Cars) /\ NoRepeat(queue')
        /\ \A d \in Cars : InQueue(d)' <=> InQueue(d)
    BY <1>9, Sorts
  <2>2. Placed'
    BY <1>9, <2>1 DEF Sort, Placed, vehicleVars, managerVars
  <2>3. sort_i' \in 0..K_CARS
    BY <1>9, QueueFits DEF Sort
  <2> QED
    BY <1>9, <2>1, <2>2, <2>3 DEF Sort, mainVars, vehicleVars, sems, managerVars
<1>10. CASE Unlock
  BY <1>10 DEF Unlock, Placed, InQueue, mainVars, vehicleVars, sems,
               managerVars
<1>11. CASE Tick \/ MainStep
  <2>1. UNCHANGED <<vehicleVars, queueVars, managerVars>>
    BY <1>11 DEF Tick, MainStep, Spawn, CountDone, Return
  <2>2. Placed'
    BY <2>1 DEF Placed, InQueue, vehicleVars, queueVars, managerVars
  <2>3. Types'
    <3> USE DEF mainVars, vehicleVars, queueVars, sems, managerVars
    <3>1. CASE Tick
      BY <3>1 DEF Tick
    <3>2. CASE CountDone
      BY <3>2 DEF CountDone
    <3>3. CASE \/ Spawn("spawn_creator", "spawn_monitor")
               \/ Spawn("spawn_monitor", "spawn_manager")
               \/ Spawn("spawn_manager", "counting")
      BY <3>3 DEF Spawn
    <3>4. CASE Return
      BY <3>4 DEF Return
    <3> QED
      BY <1>11, <3>1, <3>2, <3>3, <3>4 DEF MainStep
  <2>4. CreatedInv' /\ ManagerInv'
    BY <2>1 DEF vehicleVars, managerVars
  <2>5. main' \in {"spawn_creator", "spawn_monitor", "spawn_manager"} =>
          main \in {"spawn_creator", "spawn_monitor", "spawn_manager"}
    BY <1>11 DEF Tick, MainStep, Spawn, CountDone, Return, mainVars
  <2>6. StartInv'
    BY <2>1, <2>5 DEF vehicleVars, managerVars
  <2> QED
    BY <2>2, <2>3, <2>4, <2>6
<1>12. CASE UNCHANGED vars
  BY <1>12 DEF vars, Placed, InQueue
<1> QED
  BY <1>1, <1>2, <1>3, <1>4, <1>5, <1>6, <1>7, <1>8, <1>9, <1>10, <1>11,
     <1>12 DEF Next, CarStep, ManagerStep, MonitorStep, Terminated

-----------------------------------------------------------------------------
(* The accounts *)

LEMMA Counted ==
  ASSUME NEW S \in SUBSET Cars
  PROVE  /\ IsFiniteSet(S) /\ Cardinality(S) \in 0..K_CARS
         /\ \A c \in Cars \ S : Cardinality(S \cup {c}) = Cardinality(S) + 1
         /\ \A c \in S : Cardinality(S \ {c}) = Cardinality(S) - 1
<1>1. IsFiniteSet(S) /\ Cardinality(S) <= K_CARS
  BY CarsAre, FS_Subset
<1>2. Cardinality(S) \in Nat
  BY <1>1, FS_CardinalityType
<1>3. \A c \in Cars \ S : Cardinality(S \cup {c}) = Cardinality(S) + 1
  BY <1>1, FS_AddElement
<1>4. \A c \in S : Cardinality(S \ {c}) = Cardinality(S) - 1
  BY <1>1, FS_RemoveElement
<1> QED
  BY <1>1, <1>2, <1>3, <1>4, AdmissionAssumption

Accounts == QueueAccounting /\ CapacityAccounting /\ DoneAccounting

LEMMA InitAccounts == Init => Accounts
<1> SUFFICES ASSUME Init PROVE Accounts
  OBVIOUS
<1>1. Woken = {} /\ At({"inside"}) = {} /\ At({"done", "failed"}) = {}
  BY DEF Init, Woken, At
<1>2. /\ Cardinality(Woken) = 0 /\ Cardinality(At({"inside"})) = 0
      /\ Cardinality(At({"done", "failed"})) = 0
  BY <1>1, FS_EmptySet
<1>3. /\ Len(queue) = 0 /\ queue_sem = 0 /\ manager = "idle"
      /\ slots_sem = N_CAPACITY /\ done_sem = 0 /\ finished = 0
      /\ N_CAPACITY \in Nat
  BY AdmissionAssumption DEF Init
<1> QED
  BY <1>2, <1>3
  DEF Accounts, QueueAccounting, CapacityAccounting, DoneAccounting

(***************************************************************************)
(* A token in queue_sem is a queued vehicle: pq_insert always finds room,  *)
(* and so pq_pop a vehicle.                                                *)
(***************************************************************************)
LEMMA NextQueueAccounting ==
  Local /\ QueueAccounting /\ [Next]_vars => QueueAccounting'
<1> SUFFICES ASSUME Local, QueueAccounting, [Next]_vars
             PROVE  QueueAccounting'
  OBVIOUS
<1>0. Len(queue) \in Nat /\ queue_sem \in Nat
  BY DEF Local, Types
<1>1. ASSUME NEW c \in Cars, PqInsert(c) PROVE QueueAccounting'
  <2>1. ~InQueue(c)
    BY <1>1 DEF PqInsert, Move, Local, Placed
  <2>2. /\ queue' = InsertSorted(queue, c, priority, enter_time)
        /\ queue_sem' = queue_sem + 1
    BY <1>1, <2>1, <1>0, RoomForOneMore, AdmissionAssumption DEF PqInsert
  <2>3. Len(queue') = Len(queue) + 1
    BY <2>1, <2>2, Inserts
  <2> QED
    BY <1>0, <1>1, <2>2, <2>3 DEF QueueAccounting, PqInsert, managerVars
<1>2. CASE TakeVehicle
  BY <1>0, <1>2 DEF QueueAccounting, TakeVehicle, ManagerMove, queueVars
<1>3. CASE TakeSlot
  BY <1>0, <1>3 DEF QueueAccounting, TakeSlot, ManagerMove, queueVars
<1>4. CASE PqPop
  <2>1. queue # <<>>
    BY <1>0, <1>4 DEF QueueAccounting, PqPop, ManagerMove
  <2>2. /\ manager = "has_slot" /\ manager' = "admitting"
        /\ queue' = Tail(queue) /\ queue_sem' = queue_sem
    BY <1>4, <2>1 DEF PqPop, ManagerMove
  <2>3. Len(queue') = Len(queue) - 1
    BY <2>1, <2>2, Pops
  <2> QED
    BY <1>0, <2>2, <2>3 DEF QueueAccounting
<1>5. CASE PostCar
  BY <1>0, <1>5 DEF QueueAccounting, PostCar, ManagerMove, queueVars, sems
<1>6. CASE Sort
  <2>1. Len(queue') = Len(queue)
    BY <1>6, Sorts
  <2> QED
    BY <1>0, <1>6, <2>1 DEF QueueAccounting, Sort, sems, managerVars
<1>7. UNCHANGED <<queue, queue_sem, manager>> => QueueAccounting'
  BY DEF QueueAccounting
<1>8. CASE \/ CreateCar \/ Promote \/ Unlock \/ Tick \/ UNCHANGED vars
           \/ \E c \in Cars : Enter(c) \/ FreeSlot(c) \/ SignalDone(c)
  BY <1>7, <1>8 DEF CreateCar, Promote, Unlock, Tick, Enter, FreeSlot,
                    SignalDone, queueVars, sems, managerVars, vars
<1>9. CASE MainStep
  BY <1>7, <1>9 DEF MainStep, Spawn, CountDone, Return, queueVars, sems,
                    managerVars
<1> QED
  BY <1>1, <1>2, <1>3, <1>4, <1>5, <1>6, <1>8, <1>9
  DEF Next, CarStep, ManagerStep, MonitorStep, Terminated

(***************************************************************************)
(* A slot is free, in the manager's hands, promised to a woken vehicle or  *)
(* taken by a vehicle inside; every step that takes it from one hands it   *)
(* to another.                                                             *)
(***************************************************************************)
LEMMA NextCapacityAccounting ==
  Local /\ CapacityAccounting /\ [Next]_vars => CapacityAccounting'
<1> SUFFICES ASSUME Local, CapacityAccounting, [Next]_vars
             PROVE  CapacityAccounting'
  OBVIOUS
<1> DEFINE In == At({"inside"})
<1>0. /\ slots_sem \in Nat /\ N_CAPACITY \in Nat
      /\ pc \in [Cars -> PCs] /\ car_sem \in [Cars -> {0, 1}]
      /\ In \in SUBSET Cars /\ Woken \in SUBSET Cars
      /\ Cardinality(In) \in Nat /\ Cardinality(Woken) \in Nat
  BY Counted, AdmissionAssumption DEF Local, Types, At, Woken
<1>1. ASSUME NEW c \in Cars, Enter(c) PROVE CapacityAccounting'
  <2>1. /\ pc[c] = "waiting" /\ pc' = [pc EXCEPT ![c] = "inside"]
        /\ car_sem[c] = 1 /\ car_sem' = [car_sem EXCEPT ![c] = 0]
    <3>1. car_sem[c] = 1 /\ car_sem[c] - 1 = 0
      BY <1>0, <1>1 DEF Enter
    <3> QED
      BY <1>1, <3>1 DEF Enter, Move
  <2>2. In' = In \cup {c} /\ c \notin In
    BY <1>0, <2>1 DEF At
  <2>3. Woken' = Woken \ {c} /\ c \in Woken
    BY <1>0, <2>1 DEF Woken
  <2>4. /\ Cardinality(In') = Cardinality(In) + 1
        /\ Cardinality(Woken') = Cardinality(Woken) - 1
    BY <1>0, <2>2, <2>3, Counted
  <2> QED
    BY <1>0, <1>1, <2>4 DEF CapacityAccounting, Enter, sems, managerVars
<1>2. ASSUME NEW c \in Cars, FreeSlot(c) PROVE CapacityAccounting'
  <2>1. In' = In \ {c} /\ c \in In
    BY <1>0, <1>2 DEF At, FreeSlot, Move
  <2>2. Cardinality(In') = Cardinality(In) - 1
    BY <1>0, <2>1, Counted
  <2>3. Woken' = Woken
    BY <1>2 DEF FreeSlot, Woken
  <2> QED
    BY <1>0, <1>2, <2>2, <2>3 DEF CapacityAccounting, FreeSlot, managerVars
<1>3. ASSUME UNCHANGED Woken, UNCHANGED In PROVE
        (slots_sem' + (IF manager' \in {"has_slot", "admitting"} THEN 1 ELSE 0)
          = slots_sem + (IF manager \in {"has_slot", "admitting"} THEN 1 ELSE 0))
        => CapacityAccounting'
  BY <1>0, <1>3 DEF CapacityAccounting
<1>4. CASE PostCar
  <2>1. /\ manager_car \in Cars /\ car_sem[manager_car] = 0
        /\ manager = "admitting" /\ manager' = "idle"
        /\ slots_sem' = slots_sem /\ pc' = pc
        /\ car_sem' = [car_sem EXCEPT ![manager_car] = 1]
    <3>1. manager_car \in Cars /\ manager = "admitting"
      BY <1>4 DEF PostCar, ManagerMove, Local, Types, ManagerInv
    <3>2. car_sem[manager_car] = 0 /\ car_sem[manager_car] + 1 = 1
      BY <1>0, <3>1 DEF Local, Placed
    <3> QED
      BY <1>4, <3>1, <3>2 DEF PostCar, ManagerMove, sems, vehicleVars
  <2>2. In' = In
    BY <2>1 DEF At
  <2>3. Woken' = Woken \cup {manager_car} /\ manager_car \notin Woken
    BY <1>0, <2>1 DEF Woken
  <2>4. Cardinality(Woken') = Cardinality(Woken) + 1
    BY <1>0, <2>1, <2>3, Counted
  <2> QED
    BY <1>0, <2>1, <2>2, <2>4 DEF CapacityAccounting
<1>5. CASE TakeVehicle \/ TakeSlot \/ PqPop
  <2>1. UNCHANGED <<Woken, In>>
    BY <1>5 DEF TakeVehicle, TakeSlot, PqPop, Woken, At, vehicleVars
  <2>2. slots_sem' + (IF manager' \in {"has_slot", "admitting"} THEN 1 ELSE 0)
          = slots_sem + (IF manager \in {"has_slot", "admitting"} THEN 1 ELSE 0)
    BY <1>0, <1>5 DEF TakeVehicle, TakeSlot, PqPop, ManagerMove
  <2> QED
    BY <1>3, <2>1, <2>2
<1>6. CASE CreateCar
  <2>1. created + 1 \in Cars /\ pc[created + 1] = "uncreated"
    BY <1>6, AdmissionAssumption
    DEF CreateCar, Local, Types, CreatedInv, Cars
  <2>2. UNCHANGED <<Woken, In>>
    BY <1>0, <1>6, <2>1 DEF CreateCar, Woken, At
  <2> QED
    BY <1>3, <1>6, <2>2 DEF CreateCar, managerVars
<1>7. CASE \E c \in Cars : PqInsert(c) \/ SignalDone(c)
  <2>1. UNCHANGED <<Woken, In>>
    BY <1>0, <1>7 DEF PqInsert, SignalDone, Move, Woken, At
  <2> QED
    BY <1>3, <1>7, <2>1 DEF PqInsert, SignalDone, managerVars
<1>8. CASE MonitorStep \/ MainStep \/ Tick \/ UNCHANGED vars
  <2>1. UNCHANGED <<pc, car_sem, slots_sem, manager>>
    BY <1>8 DEF MonitorStep, Promote, Sort, Unlock, MainStep, Spawn, CountDone,
                Return, Tick, vars, vehicleVars, sems, managerVars
  <2> QED
    BY <1>3, <2>1 DEF Woken, At
<1> QED
  BY <1>1, <1>2, <1>4, <1>5, <1>6, <1>7, <1>8
  DEF Next, CarStep, ManagerStep, Terminated

(* Every vehicle that is done or failed has signalled done_sem once. *)
LEMMA NextDoneAccounting ==
  Local /\ DoneAccounting /\ [Next]_vars => DoneAccounting'
<1> SUFFICES ASSUME Local, DoneAccounting, [Next]_vars
             PROVE  DoneAccounting'
  OBVIOUS
<1> DEFINE Out == At({"done", "failed"})
<1>0. /\ done_sem \in Nat /\ finished \in Nat /\ pc \in [Cars -> PCs]
      /\ Out \in SUBSET Cars /\ Cardinality(Out) \in Nat
  BY Counted, AdmissionAssumption DEF Local, Types, At
<1>1. ASSUME NEW c \in Cars, Out' = Out \cup {c}, c \notin Out
      PROVE  Cardinality(Out') = Cardinality(Out) + 1
  BY <1>0, <1>1, Counted
<1>2. CASE CreateCar
  <2> DEFINE c == created + 1
  <2>1. c \in Cars /\ pc[c] = "uncreated" /\ c \notin Out
    BY <1>2, AdmissionAssumption
    DEF CreateCar, Local, Types, CreatedInv, Cars, At
  <2>2. CASE pc' = [pc EXCEPT ![c] = "created"] /\ done_sem' = done_sem
    <3>1. Out' = Out
      BY <1>0, <2>1, <2>2 DEF At
    <3> QED
      BY <1>2, <2>2, <3>1 DEF CreateCar, mainVars, DoneAccounting
  <2>3. CASE pc' = [pc EXCEPT ![c] = "failed"] /\ done_sem' = done_sem + 1
    <3>1. Out' = Out \cup {c}
      BY <1>0, <2>1, <2>3 DEF At
    <3> QED
      BY <1>0, <1>1, <1>2, <2>1, <2>3, <3>1
      DEF CreateCar, mainVars, DoneAccounting
  <2> QED
    BY <1>2, <2>2, <2>3 DEF CreateCar, DoneUnless
<1>3. ASSUME NEW c \in Cars, SignalDone(c) PROVE DoneAccounting'
  <2>1. Out' = Out \cup {c} /\ c \notin Out
    BY <1>0, <1>3 DEF SignalDone, Move, At
  <2> QED
    BY <1>0, <1>1, <1>3, <2>1 DEF SignalDone, mainVars, DoneAccounting
<1>4. CASE CountDone
  <2>1. Out' = Out
    BY <1>4 DEF CountDone, vehicleVars, At
  <2> QED
    BY <1>0, <1>4, <2>1 DEF CountDone, DoneAccounting
<1>5. ASSUME UNCHANGED <<done_sem, finished, Out>> PROVE DoneAccounting'
  BY <1>5 DEF DoneAccounting
<1>6. CASE \E c \in Cars : PqInsert(c) \/ Enter(c) \/ FreeSlot(c)
  <2>1. UNCHANGED Out
    BY <1>0, <1>6 DEF PqInsert, Enter, FreeSlot, Move, At
  <2> QED
    BY <1>5, <1>6, <2>1 DEF PqInsert, Enter, FreeSlot, mainVars, sems
<1>7. CASE \/ ManagerStep \/ MonitorStep \/ Tick \/ Return \/ UNCHANGED vars
           \/ Spawn("spawn_creator", "spawn_monitor")
           \/ Spawn("spawn_monitor", "spawn_manager")
           \/ Spawn("spawn_manager", "counting")
  <2>1. UNCHANGED <<pc, done_sem, finished>>
    BY <1>7 DEF ManagerStep, TakeVehicle, TakeSlot, PqPop, PostCar, MonitorStep,
                Promote, Sort, Unlock, Tick, Return, Spawn, vars, mainVars,
                vehicleVars, sems
  <2> QED
    BY <1>5, <2>1 DEF At
<1> QED
  BY <1>2, <1>3, <1>4, <1>6, <1>7 DEF Next, CarStep, MainStep, Terminated

-----------------------------------------------------------------------------
(* The order of the queue *)

Ordered == SortInv /\ QueueSorted

(* The sort has put the first sort_i entries in order. *)
LEMMA SortedPrefix ==
  Local /\ sort_i \in 1..Len(queue) =>
    (SortInv <=> InRankOrder(SubSeq(queue, 1, sort_i), priority, enter_time))
<1> SUFFICES ASSUME Local, sort_i \in 1..Len(queue)
             PROVE  SortInv <=>
                      InRankOrder(SubSeq(queue, 1, sort_i), priority, enter_time)
  OBVIOUS
<1> DEFINE s == SubSeq(queue, 1, sort_i)
<1>1. queue \in Seq(Cars) /\ Len(queue) \in Nat /\ sort_i \in Nat
  BY DEF Local, Types
<1>2. Len(s) = sort_i /\ \A k \in 1..sort_i : s[k] = queue[k]
  BY <1>1
<1> HIDE DEF s
<1>3. InRankOrder(s, priority, enter_time) <=>
        \A i, j \in 1..sort_i :
          i < j => ~Outranks(priority, enter_time, queue[j], queue[i])
  BY <1>2 DEF InRankOrder
<1>4. SortInv <=>
        \A i, j \in 1..sort_i :
          i < j => ~Outranks(priority, enter_time, queue[j], queue[i])
  BY <1>1 DEF SortInv
<1> QED
  BY <1>3, <1>4 DEF s

(* A vehicle that changes outside the queue changes nothing in it. *)
LEMMA OrderStays ==
  ASSUME Local, Ordered, UNCHANGED <<queue, sort_i>>,
         \A d \in Cars : InQueue(d) => priority'[d] = priority[d]
                                       /\ enter_time'[d] = enter_time[d]
  PROVE  Ordered'
<1>1. \A i \in 1..Len(queue) :
        /\ priority'[queue[i]] = priority[queue[i]]
        /\ enter_time'[queue[i]] = enter_time[queue[i]]
  <2> SUFFICES ASSUME NEW i \in 1..Len(queue)
               PROVE  /\ priority'[queue[i]] = priority[queue[i]]
                      /\ enter_time'[queue[i]] = enter_time[queue[i]]
    OBVIOUS
  <2>1. queue[i] \in Cars /\ InQueue(queue[i])
    BY DEF Local, Types, InQueue, Occurs
  <2> QED
    BY <2>1
<1>2. \A i, j \in 1..Len(queue) :
        Outranks(priority', enter_time', queue[j], queue[i])
          <=> Outranks(priority, enter_time, queue[j], queue[i])
  BY <1>1 DEF Outranks
<1>3. SortInv'
  BY <1>2 DEF Ordered, SortInv
<1>4. QueueSorted'
  BY <1>2 DEF Ordered, QueueSorted, PqMutexFree, InRankOrder
<1> QED
  BY <1>3, <1>4 DEF Ordered

LEMMA NextOrdered == Local /\ Ordered /\ [Next]_vars => Ordered'
<1> SUFFICES ASSUME Local, Ordered, [Next]_vars PROVE Ordered'
  OBVIOUS
<1>0. queue \in Seq(Cars) /\ Len(queue) \in Nat /\ sort_i \in Nat
  BY DEF Local, Types
<1>1. CASE CreateCar
  <2> DEFINE c == created + 1
  <2>1. c \in Cars /\ pc[c] = "uncreated"
    BY <1>1, AdmissionAssumption
    DEF CreateCar, Local, Types, CreatedInv, Cars
  <2>2. ~InQueue(c)
    BY <2>1 DEF Local, Placed
  <2>3. /\ \E v \in {0, 1} : priority' = [priority EXCEPT ![c] = v]
        /\ arrived' = [arrived EXCEPT ![c] = clock]
        /\ UNCHANGED <<queue, sort_i>>
    BY <1>1 DEF CreateCar, queueVars
  <2>4. \A d \in Cars : d # c => priority'[d] = priority[d]
                                 /\ arrived'[d] = arrived[d]
    BY <2>3 DEF Local, Types
  <2>5. \A d \in Cars : d # c => enter_time'[d] = enter_time[d]
    BY <2>4 DEF enter_time
  <2> QED
    BY <2>2, <2>3, <2>4, <2>5, OrderStays
<1>2. ASSUME NEW c \in Cars, PqInsert(c) PROVE Ordered'
  <2>1. ~InQueue(c)
    BY <1>2 DEF PqInsert, Move, Local, Placed
  <2>2. /\ queue' = InsertSorted(queue, c, priority, enter_time)
        /\ sort_i = 0 /\ sort_i' = 0
        /\ priority' = priority /\ arrived' = arrived
    BY <1>2, <2>1, <1>0, RoomForOneMore, AdmissionAssumption
    DEF PqInsert, PqMutexFree
  <2>3. enter_time' = enter_time
    BY <2>2 DEF enter_time
  <2>4. InRankOrder(queue, priority, enter_time)
    BY <2>2 DEF Ordered, QueueSorted, PqMutexFree
  <2>5. InRankOrder(queue', priority, enter_time)
    BY <2>1, <2>2, <2>4, Inserts
  <2> QED
    BY <2>2, <2>3, <2>5 DEF Ordered, SortInv, QueueSorted
<1>3. CASE PqPop
  <2>1. /\ sort_i = 0 /\ sort_i' = 0
        /\ priority' = priority /\ arrived' = arrived
    BY <1>3 DEF PqPop, PqMutexFree, vehicleVars
  <2>2. enter_time' = enter_time
    BY <2>1 DEF enter_time
  <2>3. InRankOrder(queue, priority, enter_time)
    BY <2>1 DEF Ordered, QueueSorted, PqMutexFree
  <2>4. InRankOrder(queue', priority, enter_time)
    <3>1. CASE queue = <<>>
      BY <1>3, <2>3, <3>1 DEF PqPop
    <3>2. CASE queue # <<>>
      <4>1. queue' = Tail(queue)
        BY <1>3, <3>2 DEF PqPop
      <4>2. /\ Len(queue') = Len(queue) - 1
            /\ \A k \in 1..Len(queue') : queue'[k] = queue[k + 1]
        BY <3>2, <4>1, Pops
      <4> QED
        BY <1>0, <2>3, <4>2 DEF InRankOrder
    <3> QED
      BY <3>1, <3>2
  <2> QED
    BY <2>1, <2>2, <2>4 DEF Ordered, SortInv, QueueSorted
<1>4. CASE Promote
  <2>1. sort_i' = 1
    BY <1>4 DEF Promote, FirstKey
  <2> QED
    BY <2>1 DEF Ordered, SortInv, QueueSorted, PqMutexFree
<1>5. CASE Sort
  <2>1. /\ sort_i \in 1..(Len(queue) - 1) /\ sort_i' = sort_i + 1
        /\ priority' = priority /\ arrived' = arrived
    BY <1>5 DEF Sort, vehicleVars
  <2>2. enter_time' = enter_time
    BY <2>1 DEF enter_time
  <2>3. InRankOrder(SubSeq(queue, 1, sort_i), priority, enter_time)
    BY <1>0, <2>1, SortedPrefix DEF Ordered
  <2>4. /\ Len(queue') = Len(queue) /\ queue' \in Seq(Cars)
        /\ InRankOrder(SubSeq(queue', 1, sort_i + 1), priority, enter_time)
    BY <1>5, <2>3, Sorts
  <2>5. Local'
    BY NextLocal
  <2>6. SortInv' <=>
          InRankOrder(SubSeq(queue', 1, sort_i'), priority', enter_time')
    <3>1. sort_i' \in 1..Len(queue')
      BY <1>0, <2>1, <2>4
    <3>2. (Local /\ sort_i \in 1..Len(queue) =>
             (SortInv <=>
                InRankOrder(SubSeq(queue, 1, sort_i), priority, enter_time)))'
      BY SortedPrefix, PTL
    <3> QED
      BY <2>5, <3>1, <3>2
  <2>7. SortInv'
    BY <2>1, <2>2, <2>4, <2>6
  <2> QED
    BY <1>0, <2>1, <2>7 DEF Ordered, QueueSorted, PqMutexFree
<1>6. CASE Unlock
  <2>1. /\ sort_i > 0 /\ sort_i >= Len(queue) /\ sort_i' = 0
        /\ UNCHANGED <<queue, priority, arrived>>
    BY <1>6 DEF Unlock, vehicleVars
  <2>2. enter_time' = enter_time
    BY <2>1 DEF enter_time
  <2>3. InRankOrder(queue, priority, enter_time)
    BY <1>0, <2>1 DEF Ordered, SortInv, InRankOrder
  <2> QED
    BY <2>1, <2>2, <2>3 DEF Ordered, SortInv, QueueSorted
<1>7. ASSUME UNCHANGED <<queue, sort_i, priority, arrived>> PROVE Ordered'
  <2>1. enter_time' = enter_time
    BY <1>7 DEF enter_time
  <2> QED
    BY <1>7, <2>1, OrderStays
<1>8. CASE \/ TakeVehicle \/ TakeSlot \/ PostCar \/ MainStep \/ Tick
           \/ UNCHANGED vars
           \/ \E c \in Cars : Enter(c) \/ FreeSlot(c) \/ SignalDone(c)
  <2>1. UNCHANGED <<queue, sort_i, priority, arrived>>
    BY <1>8 DEF TakeVehicle, TakeSlot, PostCar, MainStep, Spawn, CountDone,
                Return, Tick, vars, Enter, FreeSlot, SignalDone, vehicleVars,
                queueVars
  <2> QED
    BY <1>7, <2>1
<1> QED
  BY <1>1, <1>2, <1>3, <1>4, <1>5, <1>6, <1>8
  DEF Next, CarStep, ManagerStep, MonitorStep, Terminated

-----------------------------------------------------------------------------
(* The inductive invariant *)

Inductive == Local /\ Accounts /\ Ordered

LEMMA InductiveHolds == Spec => []Inductive
<1>1. Init => Inductive
  <2>1. Init => Ordered
    BY DEF Init, Ordered, SortInv, QueueSorted, InRankOrder
  <2> QED
    BY <2>1, InitLocal, InitAccounts DEF Inductive
<1>2. Inductive /\ [Next]_vars => Inductive'
  BY NextLocal, NextQueueAccounting, NextCapacityAccounting,
     NextDoneAccounting, NextOrdered DEF Inductive, Accounts
<1> QED
  BY <1>1, <1>2, PTL DEF Spec

LEMMA InductiveTypes == Inductive => TypeOK
<1> SUFFICES ASSUME Inductive PROVE TypeOK
  OBVIOUS
<1>1. Types /\ Len(queue) <= K_CARS
  BY QueueFits DEF Inductive, Local
<1>2. /\ Cardinality(Woken) \in Nat /\ Cardinality(At({"inside"})) \in Nat
      /\ Cardinality(At({"done", "failed"})) \in 0..K_CARS
  BY Counted DEF Woken, At
<1>3. slots_sem <= N_CAPACITY
  BY <1>1, <1>2, AdmissionAssumption
  DEF Inductive, Accounts, CapacityAccounting, Types
<1>4. queue_sem <= K_CARS
  BY <1>1, AdmissionAssumption
  DEF Inductive, Accounts, QueueAccounting, Types
<1>5. done_sem <= K_CARS
  BY <1>1, <1>2, AdmissionAssumption
  DEF Inductive, Accounts, DoneAccounting, Types
<1> QED
  BY <1>1, <1>3, <1>4, <1>5, AdmissionAssumption DEF TypeOK, Types

LEMMA InductivePlaces == Inductive => NoVehicleLost
<1> SUFFICES ASSUME Inductive, NEW c \in Cars
             PROVE  Cardinality(QueueSlots(c))
                      + (IF manager_car = c THEN 1 ELSE 0) + car_sem[c]
                      = IF pc[c] = "waiting" THEN 1 ELSE 0
  BY DEF NoVehicleLost
<1>1. /\ car_sem[c] \in {0, 1} /\ NoRepeat(queue) /\ Len(queue) \in Nat
      /\ pc[c] = "waiting" <=>
           InQueue(c) \/ manager_car = c \/ car_sem[c] = 1
      /\ ~(InQueue(c) /\ manager_car = c)
      /\ ~(InQueue(c) /\ car_sem[c] = 1)
      /\ ~(manager_car = c /\ car_sem[c] = 1)
  BY DEF Inductive, Local, Types, Placed
<1>2. CASE InQueue(c)
  <2>1. PICK k \in 1..Len(queue) : queue[k] = c
    BY <1>2 DEF InQueue, Occurs
  <2>2. QueueSlots(c) = {k}
    BY <1>1, <2>1 DEF QueueSlots, NoRepeat
  <2>3. Cardinality(QueueSlots(c)) = 1
    BY <2>2, FS_Singleton
  <2> QED
    BY <1>1, <1>2, <2>3
<1>3. CASE ~InQueue(c)
  <2>1. QueueSlots(c) = {}
    BY <1>3 DEF QueueSlots, InQueue, Occurs
  <2>2. Cardinality(QueueSlots(c)) = 0
    BY <2>1, FS_EmptySet
  <2> QED
    BY <1>1, <1>3, <2>2
<1> QED
  BY <1>2, <1>3

(***************************************************************************)
(* Everything the front half keeps account of holds for every number of    *)
(* vehicles and places: vehicles, queue tokens, slots and exits are        *)
(* neither lost nor counted twice, and the queue is in rank order whenever *)
(* its mutex is free.                                                      *)
(***************************************************************************)
THEOREM AdmissionInvariant == Spec => []IInv
<1>1. Inductive => IInv
  BY InductiveTypes, InductivePlaces
  DEF Inductive, Local, Accounts, Ordered, IInv
<1> QED
  BY <1>1, InductiveHolds, PTL

(***************************************************************************)
(* The vehicle the manager pops is outranked by no queued vehicle          *)
(* (manager_thread's pq_pop, whatever the monitor promoted before).        *)
(***************************************************************************)
THEOREM AdmitsTheBest == Spec => BestFirst
<1> DEFINE A == manager_car' \notin {manager_car, NoCar} =>
                  \A d \in ToSet(queue) :
                    ~Outranks(priority, enter_time, d, manager_car')
<1>1. Inductive /\ [Next]_vars => [A]_vars
  <2> SUFFICES ASSUME Inductive, Next, manager_car' \notin {manager_car, NoCar},
                      NEW d \in ToSet(queue)
               PROVE  ~Outranks(priority, enter_time, d, manager_car')
    OBVIOUS
  <2>1. PqPop /\ queue # <<>>
    BY DEF Next, CarStep, ManagerStep, MonitorStep, MainStep, Terminated,
           CreateCar, PqInsert, Enter, FreeSlot, SignalDone, TakeVehicle,
           TakeSlot, PqPop, PostCar, Promote, Sort, Unlock, Spawn, CountDone,
           Return, Tick, managerVars, vars
  <2>2. manager_car' = queue[1] /\ InRankOrder(queue, priority, enter_time)
    BY <2>1 DEF PqPop, Inductive, Ordered, QueueSorted
  <2>3. queue \in Seq(Cars) /\ Ranked(Cars, priority, enter_time)
    BY CarsRanked DEF Inductive, Local, Types
  <2>4. PICK k \in 1..Len(queue) : d = queue[k]
    BY <2>3 DEF ToSet
  <2>5. CASE k = 1
    BY <2>2, <2>3, <2>4, <2>5 DEF Outranks, Ranked
  <2>6. CASE k > 1
    BY <2>2, <2>3, <2>4, <2>6 DEF InRankOrder
  <2> QED
    BY <2>3, <2>4, <2>5, <2>6
<1> QED
  BY <1>1, InductiveHolds, PTL DEF Spec, BestFirst

(***************************************************************************)
(* The monitor never changes a priority that car_thread could be reading   *)
(* without the mutex (threads.c:134).                                      *)
(***************************************************************************)
THEOREM PriorityStays == Spec => PriorityFrozen
<1> DEFINE A == \A c \in Cars :
                  priority'[c] # priority[c] =>
                    pc[c] = "uncreated" \/ (pc[c] = "waiting" /\ car_sem[c] = 0
                                              /\ manager_car # c)
<1>1. Inductive /\ [Next]_vars => [A]_vars
  <2> SUFFICES ASSUME Inductive, Next, NEW c \in Cars,
                      priority'[c] # priority[c]
               PROVE  pc[c] = "uncreated" \/ (pc[c] = "waiting"
                                               /\ car_sem[c] = 0
                                               /\ manager_car # c)
    OBVIOUS
  <2>1. CreateCar \/ Promote
    BY DEF Next, CarStep, ManagerStep, MonitorStep, MainStep, Terminated,
           PqInsert, Enter, FreeSlot, SignalDone, TakeVehicle, TakeSlot, PqPop,
           PostCar, Sort, Unlock, Spawn, CountDone, Return, Tick, vehicleVars,
           vars
  <2>2. CASE CreateCar
    <3>1. c = created + 1
      BY <2>2 DEF CreateCar, Inductive, Local, Types
    <3> QED
      BY <2>2, <3>1 DEF Inductive, Local, Types, CreatedInv
  <2>3. CASE Promote
    <3>1. c \in ToSet(queue)
      BY <2>3 DEF Promote, Scanned, Inductive, Local, Types
    <3>2. InQueue(c)
      BY <3>1 DEF InQueue, Occurs, ToSet
    <3> QED
      BY <3>2 DEF Inductive, Local, Types, Placed
  <2> QED
    BY <2>1, <2>2, <2>3
<1> QED
  BY <1>1, InductiveHolds, PTL DEF Spec, PriorityFrozen

-----------------------------------------------------------------------------
(* The Institute *)

PhaseOf(p) ==
  CASE p \in {"uncreated", "created", "waiting"} -> "expected"
    [] p = "inside" -> "inside"
    [] p \in {"leaving", "done"} -> "served"
    [] p = "failed" -> "absent"

LEMMA PhaseIs == phase = [c \in Cars |-> PhaseOf(pc[c])]
BY DEF phase, PhaseOf

LEMMA PhaseMoves ==
  ASSUME Types, NEW c \in Cars, NEW p \in PCs, pc' = [pc EXCEPT ![c] = p]
  PROVE  phase' = [phase EXCEPT ![c] = PhaseOf(p)]
<1>1. \A d \in Cars : pc'[d] = IF d = c THEN p ELSE pc[d]
  BY DEF Types
<1>2. phase' = [d \in Cars |-> PhaseOf(pc'[d])]
  BY DEF phase, PhaseOf
<1> QED
  BY <1>1, <1>2, PhaseIs

(* Every step of the front half is one of the Institute's or none. *)
LEMMA StepsAreTheInstitutes ==
  Inductive /\ [Next]_vars => [Promise!Next]_(Promise!vars)
<1> SUFFICES ASSUME Inductive, [Next]_vars
             PROVE  [Promise!Next]_(Promise!vars)
  OBVIOUS
<1> USE DEF Promise!vars
<1>0. Types /\ pc \in [Cars -> PCs] /\ Cardinality(Woken) \in Nat
      /\ Cardinality(At({"inside"})) \in Nat
  BY Counted DEF Inductive, Local, Types, Woken, At
<1>1. CASE UNCHANGED <<pc, main>>
  BY <1>1 DEF phase, Running
<1>2. CASE CreateCar
  <2> DEFINE c == created + 1
  <2>1. c \in Cars /\ pc[c] = "uncreated" /\ Running /\ main' = main
    BY <1>2, AdmissionAssumption
    DEF CreateCar, CreatorRuns, mainVars, Inductive, Local, Types, CreatedInv,
        Cars
  <2>2. phase[c] = "expected" /\ Running' = Running
    BY <2>1, PhaseIs DEF PhaseOf, Running
  <2>3. CASE pc' = [pc EXCEPT ![c] = "created"]
    <3>1. phase' = [phase EXCEPT ![c] = "expected"]
      BY <1>0, <2>1, <2>3, PhaseMoves DEF PCs, PhaseOf
    <3>2. phase' = phase
      BY <2>1, <2>2, <3>1, PhaseIs
    <3> QED
      BY <2>2, <3>2
  <2>4. CASE pc' = [pc EXCEPT ![c] = "failed"]
    <3>1. phase' = [phase EXCEPT ![c] = "absent"]
      BY <1>0, <2>1, <2>4, PhaseMoves DEF PCs, PhaseOf
    <3>2. Promise!NeverCame(c)
      BY <2>1, <2>2, <3>1 DEF Promise!NeverCame, Promise!Advance
    <3> QED
      BY <2>1, <3>2 DEF Promise!Next
  <2> QED
    BY <1>2, <2>3, <2>4 DEF CreateCar
<1>3. ASSUME NEW c \in Cars, PqInsert(c) \/ SignalDone(c)
      PROVE  UNCHANGED Promise!vars
  <2>1. /\ UNCHANGED main
        /\ \/ pc[c] = "created" /\ pc' = [pc EXCEPT ![c] = "waiting"]
           \/ pc[c] = "leaving" /\ pc' = [pc EXCEPT ![c] = "done"]
    BY <1>3 DEF PqInsert, SignalDone, Move, mainVars
  <2>2. phase' = phase
    BY <1>0, <2>1, PhaseMoves, PhaseIs DEF PCs, PhaseOf
  <2> QED
    BY <2>1, <2>2 DEF Running
<1>4. ASSUME NEW c \in Cars, Enter(c) PROVE Promise!Admit(c)
  <2>1. /\ Running /\ UNCHANGED main /\ pc[c] = "waiting"
        /\ pc' = [pc EXCEPT ![c] = "inside"] /\ c \in Woken
    BY <1>4 DEF Enter, Move, mainVars, Inductive, Local, Types, Woken
  <2>2. Promise!Inside = At({"inside"})
    BY <1>0, PhaseIs DEF Promise!Inside, At, PhaseOf, PCs
  <2>3. Cardinality(At({"inside"})) < N_CAPACITY
    <3>1. Cardinality(Woken) # 0
      BY <2>1, Counted, FS_EmptySet DEF Woken
    <3> QED
      BY <1>0, <3>1, AdmissionAssumption
      DEF Inductive, Accounts, CapacityAccounting, Types
  <2>4. Promise!Cardinality(Promise!Inside) < N_CAPACITY
    BY <2>2, <2>3 DEF Promise!Cardinality, Cardinality, Promise!IsFiniteSet,
                      IsFiniteSet
  <2>5. phase[c] = "expected" /\ phase' = [phase EXCEPT ![c] = "inside"]
    BY <1>0, <2>1, PhaseMoves, PhaseIs DEF PCs, PhaseOf
  <2> QED
    BY <2>1, <2>4, <2>5 DEF Promise!Admit, Promise!Advance, Running
<1>5. ASSUME NEW c \in Cars, FreeSlot(c) PROVE Promise!Leave(c)
  <2>1. /\ Running /\ UNCHANGED main /\ pc[c] = "inside"
        /\ pc' = [pc EXCEPT ![c] = "leaving"]
    BY <1>5 DEF FreeSlot, Move, mainVars
  <2>2. phase[c] = "inside" /\ phase' = [phase EXCEPT ![c] = "served"]
    BY <1>0, <2>1, PhaseMoves, PhaseIs DEF PCs, PhaseOf
  <2> QED
    BY <2>1, <2>2 DEF Promise!Leave, Promise!Advance, Running
<1>6. CASE Return
  <2>1. /\ main = "counting" /\ main' = "closed" /\ UNCHANGED pc
        /\ finished = K_CARS
    BY <1>6 DEF Return, AllCounted, vehicleVars
  <2>2. At({"done", "failed"}) = Cars
    <3>1. /\ At({"done", "failed"}) \in SUBSET Cars
          /\ Cardinality(At({"done", "failed"})) \in 0..K_CARS
      BY Counted DEF At
    <3>2. Cardinality(At({"done", "failed"})) = Cardinality(Cars)
      <4>1. done_sem + K_CARS = Cardinality(At({"done", "failed"}))
            /\ done_sem \in Nat
        BY <1>0, <2>1 DEF Inductive, Accounts, DoneAccounting, Types
      <4> QED
        BY <3>1, <4>1, CarsAre, AdmissionAssumption
    <3> QED
      BY <3>1, <3>2, CarsAre, FS_Subset
  <2>3. \A c \in Cars : pc[c] \in {"done", "failed"}
    BY <2>2 DEF At
  <2>4. \A c \in Cars : phase[c] \in {"served", "absent"}
    BY <2>3, PhaseIs DEF PhaseOf
  <2>5. phase' = phase /\ Running = TRUE /\ Running' = FALSE
    BY <2>1 DEF phase, Running, Stopped
  <2> QED
    BY <2>4, <2>5 DEF Promise!Close, Promise!Next
<1>7. ASSUME NEW from \in {"spawn_creator", "spawn_monitor", "spawn_manager"},
             NEW to \in {"spawn_monitor", "spawn_manager", "counting"},
             Spawn(from, to)
      PROVE  [Promise!Next]_(Promise!vars)
  <2>1. main = from /\ main' \in {to, "fatal"} /\ UNCHANGED pc
    BY <1>7 DEF Spawn, vehicleVars
  <2>2. phase' = phase
    BY <2>1 DEF phase
  <2>3. CASE main' = to
    <3>1. Running = TRUE /\ Running' = TRUE
      BY <2>1, <2>3 DEF Running, Stopped
    <3> QED
      BY <2>2, <3>1
  <2>4. CASE main' = "fatal"
    <3>1. \A c \in Cars : pc[c] \in {"uncreated", "created", "waiting", "failed"}
      BY <2>1 DEF Inductive, Local, Types, StartInv, PCs
    <3>2. \A c \in Cars : phase[c] \in {"expected", "absent"}
      BY <3>1, PhaseIs DEF PhaseOf
    <3>3. Running = TRUE /\ Running' = FALSE
      BY <2>1, <2>4 DEF Running, Stopped
    <3> QED
      BY <2>2, <3>2, <3>3 DEF Promise!Abort, Promise!Next
  <2> QED
    BY <2>1, <2>3, <2>4
<1>8. CASE \/ ManagerStep \/ MonitorStep \/ Tick \/ CountDone \/ UNCHANGED vars
  <2>1. UNCHANGED <<pc, main>>
    BY <1>8 DEF ManagerStep, TakeVehicle, TakeSlot, PqPop, PostCar, MonitorStep,
                Promote, Sort, Unlock, Tick, CountDone, vars, mainVars,
                vehicleVars
  <2> QED
    BY <1>1, <2>1
<1>9. CASE \E c \in Cars : CarStep(c)
  BY <1>3, <1>4, <1>5, <1>9 DEF CarStep, Promise!Next
<1> QED
  BY <1>2, <1>6, <1>7, <1>8, <1>9 DEF Next, MainStep, Terminated

(***************************************************************************)
(* Seen from outside the front half is the Institute, whatever K_CARS and  *)
(* N_CAPACITY: at most N_CAPACITY vehicles are inside, none enters twice   *)
(* or leaves without having entered, and main returns only when all have   *)
(* left or never came.                                                     *)
(***************************************************************************)
THEOREM AdmissionImplementsInstitute == Spec => ImplementsInstitute
<1>1. Init => Promise!Init
  <2> SUFFICES ASSUME Init PROVE Promise!Init
    OBVIOUS
  <2>1. \A c \in Cars : PhaseOf(pc[c]) = "expected"
    BY DEF Init, PhaseOf
  <2>2. phase = [c \in Cars |-> "expected"] /\ Running = TRUE
    BY <2>1, PhaseIs DEF Init, Running, Stopped
  <2> QED
    BY <2>2 DEF Promise!Init
<1> QED
  BY <1>1, StepsAreTheInstitutes, InductiveHolds, PTL
  DEF Spec, ImplementsInstitute, Promise!Spec

=============================================================================
