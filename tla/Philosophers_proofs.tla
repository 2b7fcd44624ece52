------------------------- MODULE Philosophers_proofs -------------------------
(***************************************************************************)
(* Proofs about Philosophers, for any number of seats.  Whatever numbers   *)
(* the threads read: critical sections exclude each other and no seat      *)
(* collects permits.  At an orderly table: neighbours never eat together,  *)
(* no wake-up is lost, nobody is stuck, and the threads implement          *)
(* DiningTable.                                                            *)
(***************************************************************************)
EXTENDS Philosophers, FiniteSetTheorems, TLAPS

(* Left and right on the circle of seats. *)
LEMMA Circle ==
  ASSUME NEW p \in Seats
  PROVE  /\ LEFT(p) \in Seats /\ RIGHT(p) \in Seats
         /\ LEFT(p) # p /\ RIGHT(p) # p
         /\ LEFT(RIGHT(p)) = p /\ RIGHT(LEFT(p)) = p
<1> USE PhilosophersAssumption
<1>1. ASSUME NEW q \in Seats
      PROVE  /\ RIGHT(q) = IF q = N - 1 THEN 0 ELSE q + 1
             /\ LEFT(q) = IF q = 0 THEN N - 1 ELSE q - 1
  BY DEF LEFT, RIGHT, Seats
<1>2. LEFT(p) \in Seats /\ RIGHT(p) \in Seats /\ LEFT(p) # p /\ RIGHT(p) # p
  BY <1>1 DEF Seats
<1>3. LEFT(RIGHT(p)) = p /\ RIGHT(LEFT(p)) = p
  BY <1>1, <1>2 DEF Seats
<1> QED
  BY <1>2, <1>3

LEMMA Statuses ==
  THINKING # HUNGRY /\ THINKING # EATING /\ HUNGRY # EATING
BY DEF THINKING, HUNGRY, EATING

(* The threads that take the sticks of a seat can be counted. *)
LEMMA AtSeatFinite ==
  ASSUME NEW p
  PROVE  IsFiniteSet(AtSeat(p)) /\ Cardinality(AtSeat(p)) \in Nat
<1>1. IsFiniteSet(Seats)
  BY PhilosophersAssumption, FS_Interval DEF Seats
<1>2. AtSeat(p) \subseteq Seats
  BY DEF AtSeat, At
<1> QED
  BY <1>1, <1>2, FS_Subset, FS_CardinalityType

LEMMA InitTableInv == Init => TableInv
<1> SUFFICES ASSUME Init PROVE TableInv
  OBVIOUS
<1> USE PhilosophersAssumption, Statuses DEF Init
<1>1. TypeOK
  BY DEF TypeOK, Seats
<1>2. BirthInv
  BY DEF BirthInv, At, Seats
<1>3. MutexInv
  BY DEF MutexInv, At, Critical
<1>4. PermitInv
  BY AtSeatFinite DEF PermitInv
<1>5. OwnSeats
  BY DEF OwnSeats, At
<1>6. ASSUME orderly PROVE StatusInv
  BY <1>6 DEF StatusInv, Haunted
<1>7. SticksInv
  BY Circle DEF SticksInv, Haunted
<1>8. ASSUME orderly PROVE HungryInv
  BY <1>8 DEF HungryInv
<1> QED
  BY <1>1, <1>2, <1>3, <1>4, <1>5, <1>6, <1>7, <1>8 DEF TableInv

-----------------------------------------------------------------------------
(***************************************************************************)
(* main.  It moves nobody that has a number, and touches no status.        *)
(***************************************************************************)
LEMMA MainKeepsTable ==
  ASSUME TableInv, MainStep \/ Terminated \/ UNCHANGED vars
  PROVE  TableInv'
<1> USE PhilosophersAssumption DEF TableInv, TypeOK
<1>1. CASE Create
  <2>1. /\ i \in Seats /\ pc[i] = "unborn"
        /\ pc' = [pc EXCEPT ![i] = "born"]
        /\ main' = "sleeping"
        /\ UNCHANGED <<i, id, state, eaters, mutex, orderly, ghosts>>
    BY <1>1 DEF Create, BirthInv, Seats, tableVars, history
  <2>2. TypeOK'
    BY <2>1
  <2>3. /\ At({"unborn", "born"})' = At({"unborn", "born"})
        /\ At(Critical)' = At(Critical)
        /\ At(Taking)' = At(Taking)
    BY <2>1 DEF At, Critical, Taking
  <2>4. BirthInv'
    <3>1. \A t \in Seats : pc'[t] = "unborn" <=> t > i
      BY <2>1, <1>1 DEF Create, BirthInv, Seats
    <3> QED
      BY <1>1, <2>1, <2>3, <3>1 DEF Create, BirthInv, Running
  <2>5. MutexInv' /\ PermitInv'
    BY <2>1, <2>3 DEF MutexInv, PermitInv, AtSeat
  <2>6. ASSUME orderly PROVE OwnSeats' /\ StatusInv' /\ SticksInv' /\ HungryInv'
    <3>1. \A p \in Seats : Haunted(p) => Haunted(p)'
      BY <2>1 DEF Haunted
    <3>2. StatusInv'
      BY <2>1, <2>6, <3>1 DEF StatusInv, Taking
    <3>3. SticksInv'
      BY <2>1, <2>6, <3>1, Circle DEF SticksInv
    <3>4. HungryInv'
      BY <2>1, <2>6, Circle DEF HungryInv, Blocked
    <3> QED
      BY <2>1, <2>3, <2>6, <3>2, <3>3, <3>4 DEF OwnSeats
  <2> QED
    BY <2>1, <2>2, <2>4, <2>5, <2>6
<1>2. CASE CreateFails \/ WakeUp \/ Join \/ Terminated \/ UNCHANGED vars
  <2>1. UNCHANGED <<id, pc, state, eaters, mutex, orderly, ghosts>>
    BY <1>2
    DEF CreateFails, WakeUp, Join, Terminated, vars, mainVars, tableVars, history
  <2>2. TypeOK' /\ BirthInv'
    <3>1. CASE CreateFails
      BY <3>1, <2>1 DEF CreateFails, BirthInv, Running
    <3>2. CASE WakeUp
      <4>1. /\ main = "sleeping" /\ main' = "creating"
            /\ i \in Seats /\ i' = i + 1
            /\ \A t \in Seats : pc[t] = "unborn" <=> t > i
        BY <3>2 DEF WakeUp, BirthInv
      <4>2. \A t \in Seats : pc'[t] = "unborn" <=> t >= i'
        BY <2>1, <4>1 DEF Seats
      <4>3. At({"unborn", "born"})' = At({"unborn", "born"})
        BY <2>1 DEF At
      <4> QED
        BY <2>1, <4>1, <4>2, <4>3 DEF BirthInv, Running, Seats
    <3>3. CASE Join
      <4>1. main = "creating" /\ main' = "joining" /\ i' = 0
        BY <3>3 DEF Join
      <4>2. At({"unborn", "born"})' = At({"unborn", "born"})
        BY <2>1 DEF At
      <4> QED
        BY <2>1, <4>1, <4>2 DEF BirthInv, Running, Seats
    <3>4. CASE Terminated \/ UNCHANGED vars
      <4>1. UNCHANGED <<main, i>> /\ At({"unborn", "born"})' = At({"unborn", "born"})
        BY <3>4, <2>1 DEF Terminated, vars, mainVars, At
      <4> QED
        BY <2>1, <4>1 DEF BirthInv, Running
    <3> QED
      BY <1>2, <3>1, <3>2, <3>3, <3>4
  <2>3. MutexInv' /\ PermitInv'
    BY <2>1 DEF MutexInv, PermitInv, AtSeat, At
  <2>4. ASSUME orderly PROVE OwnSeats' /\ StatusInv' /\ SticksInv' /\ HungryInv'
    BY <2>1, <2>4
    DEF OwnSeats, At, StatusInv, SticksInv, HungryInv, Haunted, Blocked
  <2> QED
    BY <2>1, <2>2, <2>3, <2>4
<1> QED
  BY <1>1, <1>2 DEF MainStep

-----------------------------------------------------------------------------
(* philosopher() *)

(* A thread inside the critical section is alone there. *)
LEMMA Alone ==
  ASSUME TableInv, NEW t \in Seats, pc[t] \in Critical
  PROVE  mutex = 0 /\ \A s \in Seats : s # t => pc[s] \notin Critical
BY DEF TableInv, TypeOK, MutexInv, At

(* At an orderly table a thread works on its own seat. *)
LEMMA OwnSeat ==
  ASSUME TableInv, orderly, NEW t \in Seats, pc[t] \notin {"unborn", "born"}
  PROVE  id[t] = t
BY DEF TableInv, OwnSeats, At

(* test(p), whoever makes it: p gets a permit for its hunger, or nothing   *)
(* happens.                                                                *)
LEMMA TestEffect ==
  ASSUME TableInv, NEW p \in Seats, Test(p)
  PROVE  \/ /\ state[p] = HUNGRY
            /\ state[LEFT(p)] # EATING /\ state[RIGHT(p)] # EATING
            /\ state' = [state EXCEPT ![p] = EATING]
            /\ eaters' = [eaters EXCEPT ![p] = @ + 1]
         \/ /\ state[p] = HUNGRY => EATING \in {state[LEFT(p)], state[RIGHT(p)]}
            /\ UNCHANGED <<state, eaters>>
BY DEF Test, MayEat

(* At an orderly table it then waits for its semaphore, which is 0. *)
LEMMA TestResult ==
  ASSUME TableInv, orderly, NEW p \in Seats, Test(p)
  PROVE  \/ /\ state[p] = HUNGRY
            /\ state[LEFT(p)] # EATING /\ state[RIGHT(p)] # EATING
            /\ pc[p] \in {"asking", "asked", "waiting"}
            /\ eaters[p] = 0
            /\ state' = [state EXCEPT ![p] = EATING]
            /\ eaters' = [eaters EXCEPT ![p] = 1]
         \/ /\ state[p] = HUNGRY => EATING \in {state[LEFT(p)], state[RIGHT(p)]}
            /\ UNCHANGED <<state, eaters>>
<1>1. state[p] = HUNGRY =>
        pc[p] \in {"asking", "asked", "waiting"} /\ eaters[p] = 0
  BY Statuses DEF TableInv, TypeOK, StatusInv, Taking
<1> QED
  BY <1>1, TestEffect DEF TableInv, TypeOK

(* The three tests a thread makes, by the seat that is tested. *)
Tests(t, p) ==
  \/ TestSelf(t) /\ p = id[t]
  \/ TestLeft(t) /\ p = LEFT(id[t])
  \/ TestRight(t) /\ p = RIGHT(id[t])

LEMMA TestsIs ==
  ASSUME TableInv, NEW t \in Seats, TestSelf(t) \/ TestLeft(t) \/ TestRight(t)
  PROVE  \E p \in Seats :
           /\ Tests(t, p)
           /\ Test(p)
           /\ UNCHANGED <<main, i, id, mutex, orderly, ghosts>>
<1>1. id[t] \in Seats
  BY DEF TableInv, TypeOK
<1> QED
  BY <1>1, Circle DEF Tests, TestSelf, TestLeft, TestRight, mainVars, history

LEMMA StepTypeOK ==
  ASSUME TableInv, NEW t \in Seats, Step(t)
  PROVE  TypeOK'
<1> USE DEF TableInv, TypeOK, Move, Critical, mainVars, tableVars, history
<1>1. CASE ReadId(t) \/ ReadPastEnd(t)
  BY <1>1 DEF ReadId, ReadPastEnd
<1>2. CASE TakeLock(t) \/ PutLock(t)
  BY <1>2 DEF TakeLock, PutLock, Lock
<1>3. CASE TakeUnlock(t) \/ PutUnlock(t)
  <2>1. mutex = 0
    BY <1>3, Alone DEF TakeUnlock, PutUnlock, Unlock
  <2> QED
    BY <1>3, <2>1 DEF TakeUnlock, PutUnlock, Unlock
<1>4. CASE GetHungry(t) \/ PutDown(t)
  BY <1>4 DEF GetHungry, PutDown, SetStatus
<1>5. CASE StartEating(t)
  BY <1>5 DEF StartEating
<1>6. CASE TestSelf(t) \/ TestLeft(t) \/ TestRight(t)
  <2>1. PICK p \in Seats : Test(p) /\ UNCHANGED <<main, i, id, mutex, orderly, ghosts>>
    BY <1>6, TestsIs
  <2>2. state' \in [Seats -> Leftover \cup {THINKING, HUNGRY, EATING}]
        /\ eaters' \in [Seats -> Nat]
    BY <2>1, TestEffect
  <2>3. pc' \in [Seats -> Critical \cup
                          {"unborn", "born", "thinking", "waiting", "eating"}]
    BY <1>6 DEF TestSelf, TestLeft, TestRight
  <2> QED
    BY <2>1, <2>2, <2>3
<1> QED
  BY <1>1, <1>2, <1>3, <1>4, <1>5, <1>6 DEF Step, Meal

(* A step of a thread that has its number changes nobody's number. *)
LEMMA StepNumber ==
  ASSUME TableInv, NEW t \in Seats, Step(t), ~ReadId(t), ~ReadPastEnd(t)
  PROVE  /\ UNCHANGED <<main, i, id, orderly>>
         /\ pc[t] \notin {"unborn", "born"}
         /\ \E to : to \notin {"unborn", "born"} /\ pc' = [pc EXCEPT ![t] = to]
BY DEF Step, Meal, TakeLock, PutLock, Lock, TakeUnlock, PutUnlock, Unlock,
       GetHungry, PutDown, SetStatus, StartEating, TestSelf, TestLeft, TestRight,
       Move, mainVars, history

LEMMA StepBirth ==
  ASSUME TableInv, NEW t \in Seats, Step(t)
  PROVE  BirthInv'
<1> USE PhilosophersAssumption DEF TableInv, TypeOK
<1>1. CASE ReadId(t)
  <2>1. /\ UNCHANGED <<main, i>>
        /\ pc[t] = "born" /\ pc' = [pc EXCEPT ![t] = "thinking"]
        /\ id' = [id EXCEPT ![t] = i]
        /\ main \in {"creating", "sleeping", "joining"}
    BY <1>1 DEF ReadId, Move, Running, mainVars
  <2>2. i >= t \/ (i = 0 /\ main = "joining")
    BY <2>1 DEF BirthInv, Seats
  <2>3. \A s \in Seats : pc'[s] = "unborn" <=> pc[s] = "unborn"
    BY <2>1
  <2>4. At({"unborn", "born"})' = At({"unborn", "born"}) \ {t}
    BY <2>1 DEF At
  <2> QED
    BY <2>1, <2>2, <2>3, <2>4 DEF BirthInv, Running
<1>2. CASE ReadPastEnd(t)
  BY <1>2 DEF ReadPastEnd, Running, BirthInv
<1>3. CASE ~ReadId(t) /\ ~ReadPastEnd(t)
  <2>1. PICK to : /\ UNCHANGED <<main, i, id>>
                  /\ pc[t] \notin {"unborn", "born"}
                  /\ to \notin {"unborn", "born"}
                  /\ pc' = [pc EXCEPT ![t] = to]
    BY <1>3, StepNumber
  <2>2. \A s \in Seats : pc'[s] = "unborn" <=> pc[s] = "unborn"
    BY <2>1
  <2>3. At({"unborn", "born"})' = At({"unborn", "born"})
    BY <2>1 DEF At
  <2> QED
    BY <2>1, <2>2, <2>3 DEF BirthInv, Running
<1> QED
  BY <1>1, <1>2, <1>3

LEMMA StepMutex ==
  ASSUME TableInv, NEW t \in Seats, Step(t)
  PROVE  MutexInv'
<1> USE DEF Move, TableInv, TypeOK, MutexInv, At, Critical, mainVars, tableVars
<1>1. CASE ReadId(t) \/ ReadPastEnd(t) \/ StartEating(t)
  BY <1>1 DEF ReadId, ReadPastEnd, StartEating
<1>2. CASE TakeLock(t) \/ PutLock(t)
  BY <1>2 DEF TakeLock, PutLock, Lock
<1>3. CASE TakeUnlock(t) \/ PutUnlock(t)
  BY <1>3 DEF TakeUnlock, PutUnlock, Unlock
<1>4. CASE GetHungry(t) \/ PutDown(t)
  BY <1>4 DEF GetHungry, PutDown, SetStatus
<1>5. CASE TestSelf(t) \/ TestLeft(t) \/ TestRight(t)
  BY <1>5 DEF TestSelf, TestLeft, TestRight
<1> QED
  BY <1>1, <1>2, <1>3, <1>4, <1>5 DEF Step, Meal

(***************************************************************************)
(* The permits of a seat.  A thread that announces its hunger joins those  *)
(* that take the sticks, test turns a hunger into a permit, and a thread   *)
(* leaves with one permit.                                                 *)
(***************************************************************************)
LEMMA StepPermit ==
  ASSUME TableInv, NEW t \in Seats, Step(t)
  PROVE  PermitInv'
<1> DEFINE Hunger(p) == IF state[p] = HUNGRY THEN 1 ELSE 0
<1> USE DEF Move, TableInv, TypeOK, mainVars, tableVars
<1>1. \A p \in Seats : eaters[p] + Hunger(p) <= Cardinality(AtSeat(p)) + 1
  BY DEF PermitInv
<1>2. \A p \in Seats : /\ IsFiniteSet(AtSeat(p))
                       /\ Cardinality(AtSeat(p)) \in Nat
                       /\ eaters[p] \in Nat
  BY AtSeatFinite
<1>3. CASE /\ UNCHANGED <<state, eaters>>
           /\ \A p \in Seats : AtSeat(p)' = AtSeat(p)
  BY <1>1, <1>3 DEF PermitInv
<1>4. CASE ReadId(t) \/ ReadPastEnd(t) \/ TakeLock(t) \/ PutLock(t)
             \/ TakeUnlock(t) \/ PutUnlock(t)
  <2>1. UNCHANGED <<state, eaters>>
    BY <1>4 DEF ReadId, ReadPastEnd, TakeLock, PutLock, Lock, TakeUnlock,
                PutUnlock, Unlock
  <2>2. /\ At(Taking)' = At(Taking)
        /\ \A s \in At(Taking) : id'[s] = id[s]
    BY <1>4 DEF ReadId, ReadPastEnd, TakeLock, PutLock, Lock, TakeUnlock,
                PutUnlock, Unlock, At, Taking
  <2> QED
    BY <1>3, <2>1, <2>2 DEF AtSeat
<1>5. CASE GetHungry(t)
  <2>1. /\ pc[t] = "taking" /\ pc' = [pc EXCEPT ![t] = "asking"]
        /\ state' = [state EXCEPT ![id[t]] = HUNGRY]
        /\ UNCHANGED <<id, eaters>>
    BY <1>5 DEF GetHungry, SetStatus
  <2>2. t \notin AtSeat(id[t]) /\ AtSeat(id[t])' = AtSeat(id[t]) \cup {t}
    BY <2>1 DEF AtSeat, At, Taking
  <2>3. Cardinality(AtSeat(id[t])') = Cardinality(AtSeat(id[t])) + 1
    BY <1>2, <2>2, FS_AddElement
  <2>4. \A p \in Seats \ {id[t]} : AtSeat(p)' = AtSeat(p)
    BY <2>1 DEF AtSeat, At
  <2>5. ASSUME NEW p \in Seats
        PROVE  eaters'[p] + (IF state'[p] = HUNGRY THEN 1 ELSE 0)
                 <= Cardinality(AtSeat(p)') + 1
    <3>1. CASE p = id[t]
      <4>1. eaters[p] <= Cardinality(AtSeat(p)) + 1
        BY <1>1, <1>2
      <4> HIDE DEF TableInv
      <4> QED
        BY <1>2, <2>1, <2>3, <3>1, <4>1
    <3>2. CASE p # id[t]
      BY <1>1, <2>1, <2>4, <3>2
    <3> QED
      BY <3>1, <3>2
  <2> QED
    BY <2>5 DEF PermitInv
<1>6. CASE StartEating(t)
  <2>1. /\ pc[t] = "waiting" /\ pc' = [pc EXCEPT ![t] = "eating"]
        /\ eaters[id[t]] > 0
        /\ eaters' = [eaters EXCEPT ![id[t]] = @ - 1]
        /\ UNCHANGED <<id, state>>
    BY <1>6 DEF StartEating
  <2>2. t \in AtSeat(id[t]) /\ AtSeat(id[t])' = AtSeat(id[t]) \ {t}
    BY <2>1 DEF AtSeat, At, Taking
  <2>3. Cardinality(AtSeat(id[t])') = Cardinality(AtSeat(id[t])) - 1
    <3>1. IsFiniteSet(AtSeat(id[t]))
      BY AtSeatFinite
    <3>2. Cardinality(AtSeat(id[t]) \ {t}) = Cardinality(AtSeat(id[t])) - 1
      BY <2>2, <3>1, FS_RemoveElement
    <3> QED
      BY <2>2, <3>2
  <2>4. \A p \in Seats \ {id[t]} : AtSeat(p)' = AtSeat(p)
    BY <2>1 DEF AtSeat, At
  <2>5. ASSUME NEW p \in Seats
        PROVE  eaters'[p] + (IF state'[p] = HUNGRY THEN 1 ELSE 0)
                 <= Cardinality(AtSeat(p)') + 1
    <3>1. CASE p = id[t]
      BY <1>1, <1>2, <2>1, <2>3, <3>1
    <3>2. CASE p # id[t]
      BY <1>1, <2>1, <2>4, <3>2
    <3> QED
      BY <3>1, <3>2
  <2> QED
    BY <2>5 DEF PermitInv
<1>7. CASE PutDown(t)
  <2>1. /\ At(Taking)' = At(Taking)
        /\ UNCHANGED <<id, eaters>>
        /\ \A p \in Seats : state'[p] = HUNGRY => state[p] = HUNGRY
    BY <1>7, Statuses DEF PutDown, SetStatus, At, Taking
  <2>2. \A p \in Seats : AtSeat(p)' = AtSeat(p)
    BY <2>1 DEF AtSeat
  <2> QED
    BY <1>1, <1>2, <2>1, <2>2 DEF PermitInv
<1>8. CASE TestSelf(t) \/ TestLeft(t) \/ TestRight(t)
  <2>1. PICK q \in Seats : Test(q) /\ UNCHANGED id
    BY <1>8, TestsIs
  <2>2. At(Taking)' = At(Taking)
    BY <1>8 DEF TestSelf, TestLeft, TestRight, At, Taking
  <2>3. \A p \in Seats : AtSeat(p)' = AtSeat(p)
    BY <2>1, <2>2 DEF AtSeat
  <2>4. \A p \in Seats : eaters'[p] + (IF state'[p] = HUNGRY THEN 1 ELSE 0)
                         = eaters[p] + Hunger(p)
    BY <2>1, TestEffect, Statuses
  <2> QED
    BY <1>1, <2>3, <2>4 DEF PermitInv
<1> QED
  BY <1>4, <1>5, <1>6, <1>7, <1>8 DEF Step, Meal

(***************************************************************************)
(* The orderly table.  A table that is orderly after a step was so before. *)
(***************************************************************************)
LEMMA StepOwnSeats ==
  ASSUME TableInv, NEW t \in Seats, Step(t), orderly'
  PROVE  orderly /\ OwnSeats'
<1> USE DEF TableInv, TypeOK, OwnSeats, At
<1>1. CASE ReadId(t)
  <2>1. /\ orderly /\ i = t
        /\ id' = [id EXCEPT ![t] = i]
        /\ pc' = [pc EXCEPT ![t] = "thinking"]
    BY <1>1 DEF ReadId, Move
  <2> QED
    BY <2>1
<1>2. CASE ReadPastEnd(t)
  BY <1>2 DEF ReadPastEnd
<1>3. CASE ~ReadId(t) /\ ~ReadPastEnd(t)
  <2>1. orderly
    BY <1>3, StepNumber
  <2> QED
    BY <1>3, <2>1, StepNumber
<1> QED
  BY <1>1, <1>2, <1>3

LEMMA StepStatus ==
  ASSUME TableInv, orderly, NEW t \in Seats, Step(t), ~ReadPastEnd(t)
  PROVE  StatusInv'
<1> USE Statuses DEF Move, TableInv, TypeOK, StatusInv, Haunted, Taking,
                     mainVars, tableVars, history
<1>1. CASE ReadId(t)
  BY <1>1 DEF ReadId
<1>2. CASE TakeLock(t) \/ PutLock(t)
  BY <1>2 DEF TakeLock, PutLock, Lock
<1>3. CASE TakeUnlock(t) \/ PutUnlock(t)
  BY <1>3 DEF TakeUnlock, PutUnlock, Unlock
<1>4. CASE GetHungry(t) \/ PutDown(t)
  <2>1. id[t] = t
    BY <1>4, OwnSeat DEF GetHungry, PutDown
  <2>2. \A s \in Seats : s # t => /\ pc'[s] = pc[s] /\ state'[s] = state[s]
                                  /\ s \in ghosts' <=> s \in ghosts
    BY <1>4, <2>1 DEF GetHungry, PutDown, SetStatus
  <2>3. UNCHANGED eaters /\ eaters[t] = 0
    BY <1>4, <2>1 DEF GetHungry, PutDown, SetStatus
  <2>4. \/ pc'[t] = "asking" /\ state'[t] = HUNGRY
        \/ pc'[t] = "test_left" /\ state'[t] = THINKING
    BY <1>4, <2>1 DEF GetHungry, PutDown, SetStatus
  <2> QED
    BY <2>2, <2>3, <2>4
<1>5. CASE StartEating(t)
  <2>1. id[t] = t
    BY <1>5, OwnSeat DEF StartEating
  <2> QED
    BY <1>5, <2>1 DEF StartEating
<1>6. CASE TestSelf(t) \/ TestLeft(t) \/ TestRight(t)
  <2>1. PICK p \in Seats : Tests(t, p) /\ Test(p) /\ UNCHANGED ghosts
    BY <1>6, TestsIs
  <2>2. id[t] = t
    BY <1>6, OwnSeat DEF TestSelf, TestLeft, TestRight
  <2>3. /\ \A s \in Seats : s # t => pc'[s] = pc[s]
        /\ p = t => pc[t] = "asking" /\ pc'[t] = "asked"
        /\ p # t => pc[t] \in {"test_left", "test_right"}
                    /\ pc'[t] \in {"test_right", "put"}
    <3>1. LEFT(t) # t /\ RIGHT(t) # t
      BY Circle
    <3> HIDE DEF StatusInv, Haunted, Taking
    <3>2. CASE TestSelf(t) /\ p = t
      BY <3>2 DEF TestSelf
    <3>3. CASE TestLeft(t) /\ p = LEFT(t)
      BY <3>1, <3>3 DEF TestLeft
    <3>4. CASE TestRight(t) /\ p = RIGHT(t)
      BY <3>1, <3>4 DEF TestRight
    <3> QED
      BY <2>1, <2>2, <3>2, <3>3, <3>4 DEF Tests
  <2>4. p # t => pc[p] # "asking"
    BY <2>3, Alone DEF Critical
  <2>5. CASE UNCHANGED <<state, eaters>>
    BY <2>1, <2>3, <2>5
  <2>6. CASE /\ pc[p] \in {"asking", "asked", "waiting"}
             /\ eaters[p] = 0
             /\ state' = [state EXCEPT ![p] = EATING]
             /\ eaters' = [eaters EXCEPT ![p] = 1]
    <3>1. \A s \in Seats \ {p} : state'[s] = state[s] /\ eaters'[s] = eaters[s]
      BY <2>6
    <3>2. pc'[p] \in {"asked", "waiting"} /\ state'[p] = EATING /\ eaters'[p] = 1
      BY <2>3, <2>4, <2>6
    <3> QED
      BY <2>1, <2>3, <3>1, <3>2
  <2> QED
    BY <2>1, <2>5, <2>6, TestResult
<1> QED
  BY <1>1, <1>2, <1>3, <1>4, <1>5, <1>6 DEF Step, Meal

(* Only test makes anybody eat, and it looks at both neighbours. *)
LEMMA StepSticks ==
  ASSUME TableInv, orderly, NEW t \in Seats, Step(t), ~ReadPastEnd(t)
  PROVE  SticksInv'
<1> USE Statuses DEF Move, TableInv, TypeOK, mainVars, tableVars, history
<1>1. CASE ReadId(t) \/ TakeLock(t) \/ PutLock(t) \/ TakeUnlock(t) \/ PutUnlock(t)
  <2>1. \A p \in Seats : Haunted(p) => Haunted(p)'
    BY <1>1 DEF Haunted, ReadId, TakeLock, PutLock, Lock, TakeUnlock, PutUnlock,
                Unlock
  <2>2. UNCHANGED state
    BY <1>1 DEF ReadId, TakeLock, PutLock, Lock, TakeUnlock, PutUnlock, Unlock
  <2> QED
    BY <2>1, <2>2, Circle DEF SticksInv
<1>2. CASE GetHungry(t) \/ PutDown(t)
  <2>1. id[t] = t
    BY <1>2, OwnSeat DEF GetHungry, PutDown
  <2>2. /\ state'[t] # EATING
        /\ \A s \in Seats \ {t} : /\ state'[s] = state[s]
                                  /\ pc'[s] = pc[s]
                                  /\ s \in ghosts' <=> s \in ghosts
    BY <1>2, <2>1 DEF GetHungry, PutDown, SetStatus
  <2>3. \A s \in Seats \ {t} : Haunted(s)' <=> Haunted(s)
    BY <2>2 DEF Haunted
  <2> HIDE DEF TypeOK
  <2> QED
    BY <2>2, <2>3, Circle DEF SticksInv
<1>3. CASE StartEating(t)
  BY <1>3, Circle DEF StartEating, SticksInv, Haunted
<1>4. CASE TestSelf(t) \/ TestLeft(t) \/ TestRight(t)
  <2>1. PICK p \in Seats : Test(p) /\ UNCHANGED ghosts
    BY <1>4, TestsIs
  <2>2. \A s \in Seats : Haunted(s)' <=> Haunted(s)
    BY <1>4, <2>1 DEF Haunted, TestSelf, TestLeft, TestRight
  <2>3. CASE UNCHANGED state
    BY <2>2, <2>3, Circle DEF SticksInv
  <2>4. CASE /\ state[LEFT(p)] # EATING /\ state[RIGHT(p)] # EATING
             /\ state' = [state EXCEPT ![p] = EATING]
    BY <2>2, <2>4, Circle DEF SticksInv
  <2> QED
    BY <2>1, <2>3, <2>4, TestResult
<1> QED
  BY <1>1, <1>2, <1>3, <1>4 DEF Step, Meal

(* A philosopher that stops eating owes both neighbours a test, and each   *)
(* test settles one of these debts.                                        *)
LEMMA StepHungry ==
  ASSUME TableInv, orderly, NEW t \in Seats, Step(t), ~ReadPastEnd(t)
  PROVE  HungryInv'
<1> USE Statuses DEF Move, TableInv, TypeOK, mainVars, tableVars, history
<1>1. CASE ReadId(t) \/ TakeLock(t) \/ PutLock(t) \/ TakeUnlock(t)
             \/ PutUnlock(t) \/ StartEating(t)
  <2>1. /\ UNCHANGED <<state, ghosts>>
        /\ pc[t] \notin {"asking", "test_left", "test_right"}
        /\ \A s \in Seats \ {t} : pc'[s] = pc[s]
    BY <1>1 DEF ReadId, TakeLock, PutLock, Lock, TakeUnlock, PutUnlock, Unlock,
                StartEating
  <2> QED
    BY <2>1, Circle DEF HungryInv, Blocked
<1>2. CASE GetHungry(t)
  <2>1. /\ pc[t] = "taking"
        /\ pc' = [pc EXCEPT ![t] = "asking"]
        /\ state' = [state EXCEPT ![t] = HUNGRY]
        /\ UNCHANGED ghosts
    BY <1>2, OwnSeat DEF GetHungry, SetStatus
  <2>2. state[t] = EATING => t \in ghosts
    BY <2>1 DEF StatusInv, Haunted
  <2>3. \A p \in Seats : Blocked(p) => Blocked(p)'
    BY <2>1, <2>2, Circle DEF Blocked
  <2> QED
    BY <2>1, <2>3, Circle DEF HungryInv
<1>3. CASE PutDown(t)
  <2>1. /\ pc[t] = "putting"
        /\ pc' = [pc EXCEPT ![t] = "test_left"]
        /\ state' = [state EXCEPT ![t] = THINKING]
        /\ ghosts' = ghosts \ {t}
    BY <1>3, OwnSeat DEF PutDown, SetStatus
  <2>2. ASSUME NEW p \in Seats, state'[p] = HUNGRY, p = LEFT(t) \/ p = RIGHT(t)
        PROVE  pc'[RIGHT(p)] = "test_left" \/ pc'[LEFT(p)] = "test_left"
    BY <2>1, <2>2, Circle
  <2>3. ASSUME NEW p \in Seats, state'[p] = HUNGRY, p # LEFT(t), p # RIGHT(t)
        PROVE  /\ p # t /\ LEFT(p) # t /\ RIGHT(p) # t
               /\ state[p] = HUNGRY
    BY <2>1, <2>3, Circle
  <2>4. ASSUME NEW p \in Seats, state'[p] = HUNGRY, p # LEFT(t), p # RIGHT(t)
        PROVE  \/ Blocked(p)'
               \/ pc'[p] = "asking"
               \/ pc'[RIGHT(p)] = "test_left"
               \/ pc'[LEFT(p)] \in {"test_left", "test_right"}
    <3>1. Blocked(p) => Blocked(p)'
      BY <2>1, <2>3, <2>4, Circle DEF Blocked
    <3> QED
      BY <2>1, <2>3, <2>4, <3>1, Circle DEF HungryInv
  <2> QED
    BY <2>2, <2>4 DEF HungryInv
<1>4. CASE TestSelf(t) \/ TestLeft(t) \/ TestRight(t)
  <2>1. PICK p \in Seats : Tests(t, p) /\ Test(p) /\ UNCHANGED ghosts
    BY <1>4, TestsIs
  <2>2. id[t] = t /\ \A s \in Seats \ {t} : pc'[s] = pc[s]
    BY <1>4, OwnSeat DEF TestSelf, TestLeft, TestRight
  <2>3. \A s \in Seats : Blocked(s) => Blocked(s)'
    BY <2>1, TestResult, Circle DEF Blocked
  <2>4. \A s \in Seats : state'[s] = HUNGRY => state[s] = HUNGRY
    BY <2>1, TestResult
  <2>5. state'[p] = HUNGRY => Blocked(p)'
    BY <2>1, TestResult, Circle DEF Blocked
  <2>6. ASSUME NEW s \in Seats \ {p}, state[s] = HUNGRY
        PROVE  /\ pc[s] = "asking" => pc'[s] = "asking"
               /\ pc[RIGHT(s)] = "test_left" => pc'[RIGHT(s)] = "test_left"
               /\ pc[LEFT(s)] \in {"test_left", "test_right"}
                    => pc'[LEFT(s)] \in {"test_left", "test_right"}
    <3>1. CASE TestSelf(t) /\ p = t
      BY <2>2, <3>1, Circle DEF TestSelf
    <3>2. CASE TestLeft(t) /\ p = LEFT(t)
      <4>1. RIGHT(s) # t
        BY <3>2, Circle
      <4> QED
        BY <2>2, <3>2, <4>1, Circle DEF TestLeft
    <3>3. CASE TestRight(t) /\ p = RIGHT(t)
      <4>1. LEFT(s) # t
        BY <3>3, Circle
      <4> QED
        BY <2>2, <3>3, <4>1, Circle DEF TestRight
    <3> QED
      BY <2>1, <2>2, <3>1, <3>2, <3>3 DEF Tests
  <2> QED
    BY <2>3, <2>4, <2>5, <2>6, Circle DEF HungryInv
<1> QED
  BY <1>1, <1>2, <1>3, <1>4 DEF Step, Meal

LEMMA NextTableInv == TableInv /\ [Next]_vars => TableInv'
<1> SUFFICES ASSUME TableInv, [Next]_vars PROVE TableInv'
  OBVIOUS
<1>1. ASSUME NEW t \in Seats, Step(t)
      PROVE  TableInv'
  <2>1. TypeOK' /\ BirthInv' /\ MutexInv' /\ PermitInv'
    BY <1>1, StepTypeOK, StepBirth, StepMutex, StepPermit
  <2>2. ASSUME orderly' PROVE OwnSeats' /\ StatusInv' /\ SticksInv' /\ HungryInv'
    <3>1. orderly /\ OwnSeats'
      BY <1>1, <2>2, StepOwnSeats
    <3>2. ~ReadPastEnd(t)
      BY <2>2 DEF ReadPastEnd
    <3> QED
      BY <1>1, <3>1, <3>2, StepStatus, StepSticks, StepHungry
  <2> QED
    BY <2>1, <2>2 DEF TableInv
<1> QED
  BY <1>1, MainKeepsTable DEF Next

(***************************************************************************)
(* The inductive invariant of the table, for any number of philosophers,   *)
(* whatever numbers the threads read and malloc leaves.                    *)
(***************************************************************************)
THEOREM TableInvariant == Spec => []TableInv
BY InitTableInv, NextTableInv, PTL DEF Spec

(***************************************************************************)
(* No wake-up is lost at an orderly table: outside the critical section a  *)
(* hungry philosopher has a neighbour with the status EATING, or one that  *)
(* malloc left EATING and that has not eaten since.                        *)
(***************************************************************************)
THEOREM TableHungryForAReason == Spec => []HungryForAReason
<1>1. TableInv => HungryForAReason
  <2> SUFFICES ASSUME TableInv, orderly, mutex = 1,
                      NEW p \in Seats, state[p] = HUNGRY
               PROVE  Blocked(p)
    BY DEF HungryForAReason
  <2>1. \A s \in Seats : pc[s] \notin Critical
    BY DEF TableInv, MutexInv, At
  <2> QED
    BY <2>1, Circle DEF TableInv, HungryInv, Critical
<1> QED
  BY <1>1, TableInvariant, PTL

-----------------------------------------------------------------------------

(* No sem_wait stops thread t where it is.  The critical section has none. *)
CanGoOn(t) ==
  \/ pc[t] \in Critical
  \/ pc[t] = "waiting" /\ eaters[id[t]] > 0
  \/ pc[t] = "eating" /\ mutex > 0

(* A philosopher that is told to eat, or eats, can go on unless somebody   *)
(* else is in the critical section.                                        *)
LEMMA EaterGoesOn ==
  ASSUME TableInv, orderly, NEW p \in Seats, state[p] = EATING, ~Haunted(p)
  PROVE  \/ CanGoOn(p)
         \/ pc[p] = "eating" /\ \E s \in Seats : pc[s] \in Critical
<1>1. pc[p] \in {"asked", "waiting", "eating", "putting"}
  BY DEF TableInv, StatusInv
<1>2. CASE pc[p] \in {"asked", "putting"}
  BY <1>2 DEF CanGoOn, Critical
<1>3. CASE pc[p] = "waiting"
  <2>1. eaters[p] = 1 /\ id[p] = p
    BY <1>3, OwnSeat DEF TableInv, StatusInv
  <2> QED
    BY <1>3, <2>1 DEF CanGoOn
<1>4. CASE pc[p] = "eating"
  <2>1. mutex = 1 \/ At(Critical) # {}
    BY DEF TableInv, MutexInv, TypeOK
  <2> QED
    BY <1>4, <2>1 DEF CanGoOn, At
<1> QED
  BY <1>1, <1>2, <1>3, <1>4

(***************************************************************************)
(* No deadlock at an orderly table, for any number of philosophers: while  *)
(* one is hungry or eating, it or a neighbour can go on, or waits only for *)
(* a thread in the critical section, which nothing stops.  No chain of     *)
(* neighbours around the table waits for each other's sticks (line 56),    *)
(* and no philosopher depends on one that thinks or sits further away; the *)
(* exception is a neighbour that malloc left EATING until it has eaten.    *)
(***************************************************************************)
THEOREM TableNeverStuck ==
  Spec => [](orderly =>
               \A p \in Seats :
                 phase[p] # "thinking" =>
                   \/ {LEFT(p), RIGHT(p)} \cap ghosts # {}
                   \/ \E t \in {LEFT(p), p, RIGHT(p)} :
                        \/ CanGoOn(t)
                        \/ pc[t] = "eating" /\ \E s \in Seats : CanGoOn(s))
<1> DEFINE Served(p) ==
             \/ {LEFT(p), RIGHT(p)} \cap ghosts # {}
             \/ \E t \in {LEFT(p), p, RIGHT(p)} :
                  \/ CanGoOn(t)
                  \/ pc[t] = "eating" /\ \E s \in Seats : CanGoOn(s)
           Going == orderly => \A p \in Seats : phase[p] # "thinking" => Served(p)
<1>1. TableInv => Going
  <2> SUFFICES ASSUME TableInv, orderly, NEW p \in Seats, phase[p] # "thinking"
               PROVE  Served(p)
    OBVIOUS
  <2>1. pc[p] \in {"eating", "putting", "asking", "asked", "waiting"}
    BY DEF phase, Taking
  <2>2. ASSUME NEW q \in {LEFT(p), p, RIGHT(p)}, state[q] = EATING
        PROVE  Served(p)
    <3>1. q \in Seats
      BY Circle
    <3>2. CASE Haunted(q)
      BY <2>1, <3>2 DEF Haunted
    <3>3. CASE ~Haunted(q)
      BY <2>2, <3>1, <3>3, EaterGoesOn DEF CanGoOn
    <3> QED
      BY <3>2, <3>3
  <2>3. ASSUME NEW q \in {LEFT(p), p, RIGHT(p)}, pc[q] \in Critical
        PROVE  Served(p)
    BY <2>3 DEF CanGoOn
  <2>4. CASE pc[p] \in {"eating", "putting"}
    BY <2>2, <2>4 DEF TableInv, StatusInv
  <2>5. CASE pc[p] \in {"asking", "asked"}
    BY <2>3, <2>5 DEF Critical
  <2>6. CASE pc[p] = "waiting"
    <3>1. state[p] \in {HUNGRY, EATING}
      BY <2>6 DEF TableInv, StatusInv
    <3>2. CASE state[p] = HUNGRY
      <4>1. \/ Blocked(p)
            \/ pc[RIGHT(p)] \in Critical \/ pc[LEFT(p)] \in Critical
        BY <2>6, <3>2 DEF TableInv, HungryInv, Critical
      <4>2. CASE Blocked(p)
        BY <2>2, <4>2 DEF Blocked
      <4> QED
        BY <2>3, <4>1, <4>2
    <3> QED
      BY <2>2, <3>1, <3>2
  <2> QED
    BY <2>1, <2>4, <2>5, <2>6
<1> QED
  BY <1>1, TableInvariant, PTL

-----------------------------------------------------------------------------

(* The steps somebody at the table can see are those of DiningTable. *)
LEMMA StepTable ==
  ASSUME TableInv, orderly, NEW t \in Seats, Step(t), ~ReadPastEnd(t)
  PROVE  Table!Meal \/ UNCHANGED phase
<1> USE DEF Move, TableInv, TypeOK, Taking
<1>1. t \in Table!Seats
  BY DEF Seats, Table!Seats
<1>2. ASSUME NEW from, NEW to, pc[t] = from, pc' = [pc EXCEPT ![t] = to],
             \/ {from, to} \subseteq {"eating", "putting"}
             \/ {from, to} \subseteq {"asking", "asked", "waiting"}
             \/ {from, to} \cap {"eating", "putting", "asking", "asked", "waiting"} = {}
      PROVE  UNCHANGED phase
  BY <1>2 DEF phase
<1>3. CASE ReadId(t) \/ TakeLock(t) \/ PutLock(t) \/ TakeUnlock(t)
             \/ PutUnlock(t) \/ TestSelf(t) \/ TestLeft(t) \/ TestRight(t)
  BY <1>2, <1>3 DEF ReadId, TakeLock, PutLock, Lock, TakeUnlock, PutUnlock, Unlock,
                    TestSelf, TestLeft, TestRight
<1>4. CASE GetHungry(t)
  <2>1. phase[t] = "thinking" /\ phase' = [phase EXCEPT ![t] = "hungry"]
    BY <1>4 DEF GetHungry, phase
  <2> QED
    BY <1>1, <2>1 DEF Table!Meal, Table!GetHungry
<1>5. CASE StartEating(t)
  <2>1. phase[t] = "hungry" /\ phase' = [phase EXCEPT ![t] = "eating"]
    BY <1>5 DEF StartEating, phase
  <2>2. state[t] = EATING /\ ~Haunted(t)
    BY <1>5, OwnSeat DEF StartEating, StatusInv, Haunted
  <2>3. ASSUME NEW q \in {LEFT(t), RIGHT(t)} PROVE phase[q] # "eating"
    <3>1. q \in Seats /\ (q = RIGHT(t) \/ t = RIGHT(q))
      BY Circle
    <3>2. state[q] # EATING
      BY <2>2, <3>1 DEF SticksInv
    <3> QED
      BY <3>1, <3>2 DEF phase, StatusInv
  <2>4. Table!Neighbours(t) = {LEFT(t), RIGHT(t)}
    BY DEF Table!Neighbours, LEFT, RIGHT
  <2> QED
    BY <1>1, <2>1, <2>3, <2>4 DEF Table!Meal, Table!Eat
<1>6. CASE PutDown(t)
  <2>1. phase[t] = "eating" /\ phase' = [phase EXCEPT ![t] = "thinking"]
    BY <1>6 DEF PutDown, phase
  <2> QED
    BY <1>1, <2>1 DEF Table!Meal, Table!PutDown
<1> QED
  BY <1>3, <1>4, <1>5, <1>6 DEF Step, Meal

LEMMA MainUnseen ==
  ASSUME TableInv, MainStep \/ Terminated \/ UNCHANGED vars
  PROVE  UNCHANGED <<phase, orderly>>
<1>1. CASE Create
  <2>1. pc[i] = "unborn" /\ i \in Seats /\ pc' = [pc EXCEPT ![i] = "born"]
    BY <1>1, PhilosophersAssumption DEF Create, TableInv, TypeOK, BirthInv, Seats
  <2> QED
    BY <1>1, <2>1 DEF Create, phase, TableInv, TypeOK, Taking, history
<1>2. CASE ~Create
  BY <1>2 DEF MainStep, CreateFails, WakeUp, Join, Terminated, vars, history, phase
<1> QED
  BY <1>1, <1>2

(***************************************************************************)
(* The threads implement DiningTable, for any number of philosophers:      *)
(* neighbours are never both between their wait and their put_sticks, as   *)
(* long as each thread has read its own number and no hunger was left.     *)
(***************************************************************************)
THEOREM TableImplements == Spec => ImplementsTable
<1>1. Init => Table!Init
  BY DEF Init, Table!Init, phase, Seats, Table!Seats, Taking
<1>2. TableInv /\ TableInv' /\ [Next]_vars => [Table!Next]_<<phase, orderly>>
  <2> SUFFICES ASSUME TableInv, TableInv', [Next]_vars
               PROVE  [Table!Next]_<<phase, orderly>>
    OBVIOUS
  <2>1. ASSUME NEW t \in Seats, Step(t)
        PROVE  [Table!Next]_<<phase, orderly>>
    <3>1. CASE orderly'
      <4>1. orderly /\ ~ReadPastEnd(t)
        BY <2>1, <3>1, StepOwnSeats DEF ReadPastEnd
      <4>2. orderly' = orderly
        BY <3>1, <4>1 DEF TableInv, TypeOK
      <4> QED
        BY <2>1, <4>1, <4>2, StepTable DEF Table!Next
    <3>2. CASE ~orderly'
      BY <3>2 DEF Table!Next, Table!Disorder, TableInv, TypeOK
    <3> QED
      BY <3>1, <3>2
  <2> QED
    BY <2>1, MainUnseen DEF Next
<1> QED
  BY <1>1, <1>2, TableInvariant, PTL DEF Spec, ImplementsTable, Table!Spec

=============================================================================
