----------------------------- MODULE Admission ------------------------------
(***************************************************************************)
(* The front half of the garage simulator: main (main.c), the creator, the *)
(* manager and the aging monitor (threads.c), the priority queue between   *)
(* them (queue.c), and the first and last statements of every car_thread.  *)
(* What a vehicle does between its admission and its exit is in Stations.  *)
(*                                                                         *)
(* A step is the code between two accesses another thread could observe.   *)
(* pq_insert and pq_pop run entirely under pq->mutex, so each is one step  *)
(* that needs the mutex free.  The monitor holds the mutex for long: one   *)
(* step locks it and promotes, one step per outer iteration sorts, one     *)
(* unlocks.                                                                *)
(*                                                                         *)
(* Time is a clock of ticks, TicksPerSec to the second; time(NULL) is its  *)
(* whole seconds.  The clock stops at MaxClock to keep the state finite.   *)
(***************************************************************************)
EXTENDS VehicleQueue

CONSTANTS
  K_CARS,         \* vehicles to simulate, and the length of the queue's array
  N_CAPACITY,     \* vehicles allowed inside
  TicksPerSec,    \* resolution of the clock
  WAIT_THRESHOLD, \* in ticks
  MaxClock        \* bound on the clock

ASSUME AdmissionAssumption ==
  /\ K_CARS \in Nat \ {0}
  /\ N_CAPACITY \in Nat \ {0}
  /\ TicksPerSec \in Nat \ {0}
  /\ WAIT_THRESHOLD \in Nat
  /\ MaxClock \in Nat

VARIABLES
  main,         \* where main() is
  finished,     \* main's loop count: done_sem waits completed
  created,      \* the creator's loop count
  pc,           \* per vehicle: where its thread is
  priority,     \* car_entry.priority
  arrived,      \* the tick at which the creator read the clock for it
  car_sem,      \* car_entry.sem
  queue,        \* the first pq->size entries of pq->cars
  sort_i,       \* 0: pq->mutex free; else the monitor holds it, at iteration i
  slots_sem,
  queue_sem,
  done_sem,
  manager,      \* where the manager is
  manager_car,  \* its local car
  clock

vars == <<main, finished, created, pc, priority, arrived, car_sem, queue,
          sort_i, slots_sem, queue_sem, done_sem, manager, manager_car, clock>>

mainVars == <<main, finished>>
vehicleVars == <<created, pc, priority, arrived, car_sem>>
queueVars == <<queue, sort_i>>
managerVars == <<manager, manager_car>>
sems == <<slots_sem, queue_sem, done_sem>>

Cars == 1..K_CARS

NoCar == 0

PCs == {"uncreated",
        "created",   \* thread runs, before pq_insert
        "waiting",   \* past pq_insert, in sem_wait(&car->sem)
        "inside",    \* admitted, before sem_post(&slots_sem)
        "leaving",   \* before sem_post(&done_sem)
        "done",
        "failed"}    \* pthread_create failed

Stopped == {"closed", "fatal"}

(* time(NULL) was stored in car_entry.enter_time: whole seconds *)
enter_time == [c \in Cars |-> arrived[c] \div TicksPerSec]

Init ==
  /\ main = "spawn_creator"
  /\ finished = 0
  /\ created = 0
  /\ pc = [c \in Cars |-> "uncreated"]
  /\ priority = [c \in Cars |-> 0]
  /\ arrived = [c \in Cars |-> 0]
  /\ car_sem = [c \in Cars |-> 0]
  /\ queue = <<>>
  /\ sort_i = 0
  /\ slots_sem = N_CAPACITY
  /\ queue_sem = 0
  /\ done_sem = 0
  /\ manager = "idle"
  /\ manager_car = NoCar
  /\ clock = 0

-----------------------------------------------------------------------------
(* main() *)

(* When main returns the process ends and every thread with it. *)
Running == main \notin Stopped

(* pthread_create of creator, monitor and manager, in this order *)
Spawn(from, to) ==
  /\ main = from
  /\ main' \in {to, "fatal"}
  /\ UNCHANGED <<finished, vehicleVars, queueVars, sems, managerVars, clock>>

CountDone ==
  /\ main = "counting" /\ finished < K_CARS
  /\ done_sem > 0
  /\ done_sem' = done_sem - 1
  /\ finished' = finished + 1
  /\ UNCHANGED <<main, vehicleVars, queueVars, slots_sem, queue_sem, managerVars,
                 clock>>

(* mutant of AllCounted: the loop counts one vehicle too few *)
AllButOneCounted == finished >= K_CARS - 1

AllCounted == finished = K_CARS

Return ==
  /\ main = "counting" /\ AllCounted
  /\ main' = "closed"
  /\ UNCHANGED <<finished, vehicleVars, queueVars, sems, managerVars, clock>>

-----------------------------------------------------------------------------
(* car_creator_thread *)

CreatorRuns == Running /\ main # "spawn_creator"

(* mutant of DoneUnless: a vehicle that failed is not signalled *)
DoneNever(ran) == done_sem

(* done_sem after an attempt to create a thread *)
DoneUnless(ran) == IF ran THEN done_sem ELSE done_sem + 1

(* One iteration.  When the vehicle's thread cannot be created the creator *)
(* signals done_sem in its place.                                          *)
CreateCar ==
  /\ CreatorRuns
  /\ created < K_CARS
  /\ LET c == created + 1 IN
       /\ created' = c
       /\ \E is_vip \in {0, 1} : priority' = [priority EXCEPT ![c] = is_vip]
       /\ arrived' = [arrived EXCEPT ![c] = clock]
       /\ \E ran \in BOOLEAN :
            /\ pc' = [pc EXCEPT ![c] = IF ran THEN "created" ELSE "failed"]
            /\ done_sem' = DoneUnless(ran)
  /\ UNCHANGED <<mainVars, car_sem, queueVars, slots_sem, queue_sem, managerVars,
                 clock>>

-----------------------------------------------------------------------------
(* car_thread, before and after the stations *)

PqMutexFree == sort_i = 0

Move(c, from, to) ==
  /\ Running
  /\ pc[c] = from
  /\ pc' = [pc EXCEPT ![c] = to]

(* A full queue is reported and the vehicle is not inserted; its thread    *)
(* goes on to wait all the same.                                           *)
PqInsert(c) ==
  /\ Move(c, "created", "waiting")
  /\ PqMutexFree
  /\ IF Len(queue) >= K_CARS
       THEN UNCHANGED <<queue, queue_sem>>
       ELSE /\ queue' = InsertSorted(queue, c, priority, enter_time)
            /\ queue_sem' = queue_sem + 1
  /\ UNCHANGED <<mainVars, created, priority, arrived, car_sem, sort_i,
                 slots_sem, done_sem, managerVars, clock>>

Enter(c) ==
  /\ Move(c, "waiting", "inside")
  /\ car_sem[c] > 0
  /\ car_sem' = [car_sem EXCEPT ![c] = @ - 1]
  /\ UNCHANGED <<mainVars, created, priority, arrived, queueVars, sems,
                 managerVars, clock>>

(* sem_post(&slots_sem), on the normal path and on both error paths *)
FreeSlot(c) ==
  /\ Move(c, "inside", "leaving")
  /\ slots_sem' = slots_sem + 1
  /\ UNCHANGED <<mainVars, created, priority, arrived, car_sem, queueVars,
                 queue_sem, done_sem, managerVars, clock>>

(* sem_post(&done_sem), likewise *)
SignalDone(c) ==
  /\ Move(c, "leaving", "done")
  /\ done_sem' = done_sem + 1
  /\ UNCHANGED <<mainVars, created, priority, arrived, car_sem, queueVars,
                 slots_sem, queue_sem, managerVars, clock>>

-----------------------------------------------------------------------------
(* manager_thread *)

ManagerMove(from, to) ==
  /\ main = "counting"
  /\ manager = from
  /\ manager' = to

TakeVehicle ==
  /\ ManagerMove("idle", "has_vehicle")
  /\ queue_sem > 0
  /\ queue_sem' = queue_sem - 1
  /\ UNCHANGED <<mainVars, vehicleVars, queueVars, slots_sem, done_sem,
                 manager_car, clock>>

TakeSlot ==
  /\ ManagerMove("has_vehicle", "has_slot")
  /\ slots_sem > 0
  /\ slots_sem' = slots_sem - 1
  /\ UNCHANGED <<mainVars, vehicleVars, queueVars, queue_sem, done_sem,
                 manager_car, clock>>

(* pq_pop; from an empty queue it returns NULL and the slot is given back. *)
PqPop ==
  /\ PqMutexFree
  /\ IF queue = <<>>
       THEN /\ ManagerMove("has_slot", "idle")
            /\ slots_sem' = slots_sem + 1
            /\ UNCHANGED <<queue, manager_car>>
       ELSE /\ ManagerMove("has_slot", "admitting")
            /\ manager_car' = Head(queue)
            /\ queue' = Tail(queue)
            /\ UNCHANGED slots_sem
  /\ UNCHANGED <<mainVars, vehicleVars, sort_i, queue_sem, done_sem, clock>>

PostCar ==
  /\ ManagerMove("admitting", "idle")
  /\ car_sem' = [car_sem EXCEPT ![manager_car] = @ + 1]
  /\ manager_car' = NoCar
  /\ UNCHANGED <<mainVars, created, pc, priority, arrived, queueVars, sems, clock>>

-----------------------------------------------------------------------------
(* monitor_thread *)

MonitorRuns == Running /\ main \notin {"spawn_creator", "spawn_monitor"}

(* difftime(now, enter_time) >= WAIT_THRESHOLD, both in whole seconds *)
Overdue(c) ==
  (clock \div TicksPerSec - enter_time[c]) * TicksPerSec >= WAIT_THRESHOLD

(* mutant of Scanned: every vehicle instead of the queued ones *)
ScannedAll == Cars

Scanned == ToSet(queue)

(* mutant of FirstKey: the queue is not sorted after the promotions *)
NoKey == 0

(* insertion_sort starts with the second entry *)
FirstKey == 1

(* usleep ends; lock, read the time and promote in one scan of the queue.  *)
(* No other thread reads these priorities while the mutex is held.         *)
Promote ==
  /\ MonitorRuns /\ PqMutexFree
  /\ sort_i' = FirstKey
  /\ priority' = [c \in Cars |->
       IF c \in Scanned /\ priority[c] = 0 /\ Overdue(c) THEN 1 ELSE priority[c]]
  /\ UNCHANGED <<mainVars, created, pc, arrived, car_sem, queue, sems,
                 managerVars, clock>>

Sort ==
  /\ MonitorRuns
  /\ sort_i \in 1..(Len(queue) - 1)
  /\ queue' = SortStep(queue, sort_i, priority, enter_time)
  /\ sort_i' = sort_i + 1
  /\ UNCHANGED <<mainVars, vehicleVars, sems, managerVars, clock>>

Unlock ==
  /\ MonitorRuns
  /\ sort_i > 0 /\ sort_i >= Len(queue)
  /\ sort_i' = 0
  /\ UNCHANGED <<mainVars, vehicleVars, queue, sems, managerVars, clock>>

-----------------------------------------------------------------------------

Tick ==
  /\ Running
  /\ clock < MaxClock
  /\ clock' = clock + 1
  /\ UNCHANGED <<mainVars, vehicleVars, queueVars, sems, managerVars>>

(* The program has ended: TLC need not take this for a deadlock. *)
Terminated == ~Running /\ UNCHANGED vars

CarStep(c) == PqInsert(c) \/ Enter(c) \/ FreeSlot(c) \/ SignalDone(c)

ManagerStep == TakeVehicle \/ TakeSlot \/ PqPop \/ PostCar

MonitorStep == Promote \/ Sort \/ Unlock

MainStep ==
  \/ Spawn("spawn_creator", "spawn_monitor")
  \/ Spawn("spawn_monitor", "spawn_manager")
  \/ Spawn("spawn_manager", "counting")
  \/ CountDone
  \/ Return

Next ==
  \/ MainStep
  \/ CreateCar
  \/ \E c \in Cars : CarStep(c)
  \/ ManagerStep
  \/ MonitorStep
  \/ Tick
  \/ Terminated

Spec == Init /\ [][Next]_vars

-----------------------------------------------------------------------------
(* Properties *)

(* Every variable has the values its C counterpart can have. *)
TypeOK ==
  /\ main \in {"spawn_creator", "spawn_monitor", "spawn_manager", "counting"}
               \cup Stopped
  /\ finished \in 0..K_CARS
  /\ created \in 0..K_CARS
  /\ pc \in [Cars -> PCs]
  /\ priority \in [Cars -> {0, 1}]
  /\ arrived \in [Cars -> 0..MaxClock]
  /\ car_sem \in [Cars -> {0, 1}]
  /\ queue \in Seq(Cars) /\ Len(queue) <= K_CARS
  /\ sort_i \in 0..K_CARS
  /\ slots_sem \in 0..N_CAPACITY
  /\ queue_sem \in 0..K_CARS
  /\ done_sem \in 0..K_CARS
  /\ manager \in {"idle", "has_vehicle", "has_slot", "admitting"}
  /\ manager_car \in Cars \cup {NoCar}
  /\ clock \in 0..MaxClock

At(S) == {c \in Cars : pc[c] \in S}

QueueSlots(c) == {i \in 1..Len(queue) : queue[i] = c}

(***************************************************************************)
(* A vehicle waiting for admission is in exactly one place: once in the    *)
(* queue, or in the manager's hands between pq_pop and sem_post, or woken  *)
(* by its own semaphore; a vehicle that is not waiting is in none.  A      *)
(* vehicle is neither lost nor admitted twice, whatever the monitor does   *)
(* to the array meanwhile.                                                 *)
(***************************************************************************)
NoVehicleLost ==
  \A c \in Cars :
    Cardinality(QueueSlots(c)) + (IF manager_car = c THEN 1 ELSE 0)
      + car_sem[c]
      = IF pc[c] = "waiting" THEN 1 ELSE 0

(***************************************************************************)
(* The tokens of queue_sem, with the one the manager holds, are exactly    *)
(* the queued vehicles, so pq_pop never meets an empty queue               *)
(* (threads.c:71 "shouldn't happen").                                      *)
(***************************************************************************)
QueueAccounting ==
  queue_sem + (IF manager \in {"has_vehicle", "has_slot"} THEN 1 ELSE 0)
    = Len(queue)

(***************************************************************************)
(* Capacity slots are neither lost nor created: free ones, the one the     *)
(* manager holds and the vehicles woken or inside add up to N_CAPACITY     *)
(* (threads.c:60 "to avoid admitting more than N_CAPACITY").               *)
(***************************************************************************)
Woken == {c \in Cars : car_sem[c] = 1}

CapacityAccounting ==
  slots_sem + (IF manager \in {"has_slot", "admitting"} THEN 1 ELSE 0)
    + Cardinality(Woken) + Cardinality(At({"inside"}))
    = N_CAPACITY

(***************************************************************************)
(* main counts each vehicle exactly once, the ones whose thread could not  *)
(* be created included (threads.c:31 "so main() does not hang").           *)
(***************************************************************************)
DoneAccounting == done_sem + finished = Cardinality(At({"done", "failed"}))

(***************************************************************************)
(* Whenever pq->mutex is free, the queue is in rank order: pq_insert keeps *)
(* it sorted, and the priorities the monitor changes are followed by a     *)
(* complete sort before anyone else sees the queue.                        *)
(***************************************************************************)
QueueSorted == PqMutexFree => InRankOrder(queue, priority, enter_time)

(***************************************************************************)
(* The inductive invariant: the above, and how the loop counts and local   *)
(* variables of creator, manager and monitor relate to the shared state.   *)
(***************************************************************************)
CreatedInv == \A c \in Cars : pc[c] = "uncreated" <=> c > created

ManagerInv == manager = "admitting" <=> manager_car # NoCar

(* insertion_sort has sorted the first sort_i entries *)
SortInv ==
  sort_i > 0 =>
    \A i, j \in 1..Len(queue) :
      i < j /\ j <= sort_i =>
        ~Outranks(priority, enter_time, queue[j], queue[i])

IInv ==
  /\ TypeOK
  /\ CreatedInv
  /\ ManagerInv
  /\ NoVehicleLost
  /\ QueueAccounting
  /\ CapacityAccounting
  /\ DoneAccounting
  /\ QueueSorted
  /\ SortInv

(***************************************************************************)
(* The manager always takes a vehicle that no queued vehicle outranks      *)
(* (threads.c:55 "wakes the highest-priority vehicle"), by the priorities  *)
(* at that moment.                                                         *)
(***************************************************************************)
BestFirst ==
  [][manager_car' \notin {manager_car, NoCar} =>
       \A d \in ToSet(queue) :
         ~Outranks(priority, enter_time, d, manager_car')]_vars

(***************************************************************************)
(* car->priority changes only while the vehicle is queued: the read at     *)
(* threads.c:134, which takes no lock, cannot race with the monitor.       *)
(***************************************************************************)
PriorityFrozen ==
  [][\A c \in Cars :
       priority'[c] # priority[c] =>
         pc[c] = "uncreated" \/ (pc[c] = "waiting" /\ car_sem[c] = 0
                                   /\ manager_car # c)]_vars

(***************************************************************************)
(* Seen from outside, the program is the Institute.                        *)
(***************************************************************************)
phase ==
  [c \in Cars |->
    CASE pc[c] \in {"uncreated", "created", "waiting"} -> "expected"
      [] pc[c] = "inside" -> "inside"
      [] pc[c] \in {"leaving", "done"} -> "served"
      [] pc[c] = "failed" -> "absent"]

Promise == INSTANCE Institute WITH open <- Running

ImplementsInstitute == Promise!Spec

(***************************************************************************)
(* threads.c:79 says of a scan: "Any regular vehicle (priority == 0) that  *)
(* has waited >= WAIT_THRESHOLD seconds is promoted".  The code measures   *)
(* the wait in whole seconds.                                              *)
(***************************************************************************)
PromotesTheOverdue ==
  [][PqMutexFree /\ ~PqMutexFree' =>
       \A c \in ToSet(queue) :
         priority[c] = 0 =>
           (priority'[c] = 1 <=> clock - arrived[c] >= WAIT_THRESHOLD)]_vars
=============================================================================
