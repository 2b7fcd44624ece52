---------------------------- MODULE Philosophers ----------------------------
(***************************************************************************)
(* dining-philosophers.c: N threads around a table, one status per seat    *)
(* (state), one semaphore per seat (eaters) and a binary semaphore (mutex) *)
(* around every access to the statuses.                                    *)
(*                                                                         *)
(* main passes every thread the address of its own loop counter and only   *)
(* sleeps a tenth of a second before it moves the counter on; lines        *)
(* 119-121 call that a race.  A thread may read any later value: two       *)
(* threads may share a seat, and N is no seat at all.  memset clears only  *)
(* a part of the statuses.  What the program promises nevertheless, and    *)
(* what only while every thread has read its own number, is told apart by  *)
(* the history variables orderly and ghosts, which no action reads.        *)
(***************************************************************************)
EXTENDS Naturals, FiniteSets

CONSTANTS
  N,         \* number of philosophers
  Leftover   \* what malloc may leave in a status memset does not clear

THINKING == 0
HUNGRY == 1
EATING == 2

ASSUME PhilosophersAssumption ==
  /\ N \in Nat /\ N > 1                     \* line 91
  /\ Leftover \subseteq Nat                 \* HUNGRY and EATING not excepted

VARIABLES
  main,      \* where main is
  i,         \* its loop counter, shared with the threads it creates
  id,        \* per thread: the seat number it read from i
  pc,        \* per thread: where it is in philosopher()
  state,     \* per seat: THINKING, HUNGRY, EATING
  eaters,    \* per seat: value of its semaphore
  mutex,     \* value of the binary semaphore
  orderly,   \* history: each thread that has a number has its own, and no
             \* status was left HUNGRY
  ghosts     \* history: seats whose status malloc left EATING and whose
             \* philosopher has not put the sticks down since

mainVars == <<main, i>>
tableVars == <<state, eaters, mutex>>
history == <<orderly, ghosts>>
vars == <<mainVars, id, pc, tableVars, history>>

Seats == 0..(N - 1)          \* also the numbers of the threads

LEFT(p) == (p + N - 1) % N
RIGHT(p) == (p + 1) % N

(***************************************************************************)
(* memset(state, 0, N) clears N bytes, not N ints of four bytes: the first *)
(* N \div 4 statuses, and the low bytes of the next one if 4 does not       *)
(* divide N, which is then neither 1 nor 2.                                *)
(***************************************************************************)
Init ==
  /\ main = "creating" /\ i = 0
  /\ id = [t \in Seats |-> 0]
  /\ pc = [t \in Seats |-> "unborn"]
  /\ state \in [Seats -> Leftover \cup {THINKING}]
  /\ \A p \in Seats :
       /\ p < N \div 4 => state[p] = THINKING
       /\ p = N \div 4 /\ N % 4 > 0 => state[p] \notin {HUNGRY, EATING}
  /\ eaters = [p \in Seats |-> 0]
  /\ mutex = 1
  /\ orderly = (\A p \in Seats : state[p] # HUNGRY)
  /\ ghosts = {p \in Seats : state[p] = EATING}

(* the process exists, and does what C defines *)
Running == main \notin {"returned", "undefined"}

-----------------------------------------------------------------------------
(* main *)

Create ==
  /\ main = "creating" /\ i < N
  /\ pc' = [pc EXCEPT ![i] = "born"]
  /\ main' = "sleeping"
  /\ UNCHANGED <<i, id, tableVars, history>>

(* pthread_create fails: main returns 2 and the process ends *)
CreateFails ==
  /\ main = "creating" /\ i < N
  /\ main' = "returned"
  /\ UNCHANGED <<i, id, pc, tableVars, history>>

(* the end of usleep, whether or not the new thread has read i by then *)
WakeUp ==
  /\ main = "sleeping"
  /\ main' = "creating" /\ i' = i + 1
  /\ UNCHANGED <<id, pc, tableVars, history>>

(* the join loop restarts the counter and waits for ever for thread 0 *)
Join ==
  /\ main = "creating" /\ i = N
  /\ main' = "joining" /\ i' = 0
  /\ UNCHANGED <<id, pc, tableVars, history>>

-----------------------------------------------------------------------------
(* philosopher() *)

Move(t, from, to) ==
  /\ Running
  /\ pc[t] = from
  /\ pc' = [pc EXCEPT ![t] = to]

(* int i = *((int * )arg), whatever main's counter is by now *)
ReadId(t) ==
  /\ Move(t, "born", "thinking")
  /\ i \in Seats
  /\ id' = [id EXCEPT ![t] = i]
  /\ orderly' = (orderly /\ i = t)
  /\ UNCHANGED <<mainVars, tableVars, ghosts>>

(* The counter is N: the thread will use state[N] and eaters[N], which lie *)
(* outside the arrays, and C no longer says what the program does.         *)
ReadPastEnd(t) ==
  /\ Move(t, "born", "thinking")
  /\ i \notin Seats
  /\ main' = "undefined" /\ orderly' = FALSE
  /\ UNCHANGED <<i, id, tableVars, ghosts>>

(* sem_wait(mutex) *)
Lock(t, from, to) ==
  /\ Move(t, from, to)
  /\ mutex > 0
  /\ mutex' = mutex - 1
  /\ UNCHANGED <<mainVars, id, state, eaters, history>>

(* sem_post(mutex) *)
Unlock(t, from, to) ==
  /\ Move(t, from, to)
  /\ mutex' = mutex + 1
  /\ UNCHANGED <<mainVars, id, state, eaters, history>>

(* mutant of MayEat: looks at the left neighbour only *)
MayEatIgnoringRight(p) ==
  /\ state[p] = HUNGRY
  /\ state[LEFT(p)] # EATING

MayEat(p) ==
  /\ state[p] = HUNGRY
  /\ state[LEFT(p)] # EATING
  /\ state[RIGHT(p)] # EATING

(* mutant of Test: whether p is hungry at all is not asked *)
TestUnasked(p) ==
  \/ /\ EATING \notin {state[LEFT(p)], state[RIGHT(p)]}
     /\ state' = [state EXCEPT ![p] = EATING]
     /\ eaters' = [eaters EXCEPT ![p] = @ + 1]
  \/ /\ EATING \in {state[LEFT(p)], state[RIGHT(p)]}
     /\ UNCHANGED <<state, eaters>>

(* the body of test(p) *)
Test(p) ==
  \/ /\ MayEat(p)
     /\ state' = [state EXCEPT ![p] = EATING]
     /\ eaters' = [eaters EXCEPT ![p] = @ + 1]
  \/ /\ ~MayEat(p)
     /\ UNCHANGED <<state, eaters>>

SetStatus(t, status) ==
  /\ state' = [state EXCEPT ![id[t]] = status]
  /\ UNCHANGED <<mainVars, id, eaters, mutex>>

(* think() ends; take_sticks *)
TakeLock(t) == Lock(t, "thinking", "taking")

GetHungry(t) ==
  /\ Move(t, "taking", "asking")
  /\ SetStatus(t, HUNGRY)
  /\ UNCHANGED history

TestSelf(t) ==
  /\ Move(t, "asking", "asked")
  /\ Test(id[t])
  /\ UNCHANGED <<mainVars, id, mutex, history>>

TakeUnlock(t) == Unlock(t, "asked", "waiting")

(* sem_wait(&eaters[i]) *)
StartEating(t) ==
  /\ Move(t, "waiting", "eating")
  /\ eaters[id[t]] > 0
  /\ eaters' = [eaters EXCEPT ![id[t]] = @ - 1]
  /\ UNCHANGED <<mainVars, id, state, mutex, history>>

(* eat() ends; put_sticks *)
PutLock(t) == Lock(t, "eating", "putting")

PutDown(t) ==
  /\ Move(t, "putting", "test_left")
  /\ SetStatus(t, THINKING)
  /\ ghosts' = ghosts \ {id[t]} /\ UNCHANGED orderly

TestLeft(t) ==
  /\ Move(t, "test_left", "test_right")
  /\ Test(LEFT(id[t]))
  /\ UNCHANGED <<mainVars, id, mutex, history>>

(* mutant of TestRight: the right neighbour is not looked at *)
TestRightForgotten(t) ==
  /\ Move(t, "test_right", "put")
  /\ UNCHANGED <<mainVars, id, tableVars, history>>

TestRight(t) ==
  /\ Move(t, "test_right", "put")
  /\ Test(RIGHT(id[t]))
  /\ UNCHANGED <<mainVars, id, mutex, history>>

(* mutant of PutUnlock: put_sticks returns inside the critical section *)
PutUnlockForgotten(t) ==
  /\ Move(t, "put", "thinking")
  /\ UNCHANGED <<mainVars, id, tableVars, history>>

PutUnlock(t) == Unlock(t, "put", "thinking")

Meal(t) ==
  \/ GetHungry(t) \/ TestSelf(t) \/ TakeUnlock(t) \/ StartEating(t)
  \/ PutDown(t) \/ TestLeft(t) \/ TestRight(t) \/ PutUnlock(t)

Step(t) == ReadId(t) \/ ReadPastEnd(t) \/ TakeLock(t) \/ PutLock(t) \/ Meal(t)

MainStep == Create \/ CreateFails \/ WakeUp \/ Join

Terminated == ~Running /\ UNCHANGED vars

Next == MainStep \/ (\E t \in Seats : Step(t)) \/ Terminated

Spec == Init /\ [][Next]_vars

(***************************************************************************)
(* Every thread keeps running.  sem_wait(mutex) after a meal is strongly   *)
(* fair: critical sections are finite, so the semaphore is free again and  *)
(* again.  Nobody is made to get hungry (no fairness on TakeLock), and     *)
(* nothing is assumed of main.                                             *)
(***************************************************************************)
Fairness ==
  \A t \in Seats :
    /\ WF_vars(Meal(t))
    /\ SF_vars(PutLock(t))

FairSpec == Spec /\ Fairness

-----------------------------------------------------------------------------

At(S) == {t \in Seats : pc[t] \in S}

Critical == {"taking", "asking", "asked",
             "putting", "test_left", "test_right", "put"}

Taking == {"asking", "asked", "waiting"}

(* Every variable has the values its C counterpart can have. *)
TypeOK ==
  /\ main \in {"creating", "sleeping", "joining", "returned", "undefined"}
  /\ i \in 0..N
  /\ id \in [Seats -> Seats]
  /\ pc \in [Seats -> Critical \cup
                      {"unborn", "born", "thinking", "waiting", "eating"}]
  /\ state \in [Seats -> Leftover \cup {THINKING, HUNGRY, EATING}]
  /\ eaters \in [Seats -> Nat]
  /\ mutex \in 0..1
  /\ orderly \in BOOLEAN
  /\ ghosts \subseteq Seats

(* Which threads exist.  A thread that is late reads a later number than    *)
(* its own, or 0 from the join loop.                                       *)
BirthInv ==
  /\ main = "creating" => \A t \in Seats : pc[t] = "unborn" <=> t >= i
  /\ main = "sleeping" => /\ i \in Seats
                          /\ \A t \in Seats : pc[t] = "unborn" <=> t > i
  /\ main = "joining" => i = 0
  /\ \A t \in Seats \ At({"unborn", "born"}) :
       Running => \/ id[t] >= t
                  \/ id[t] = 0 /\ main = "joining"

(* One thread at a time is inside the critical section. *)
MutexInv ==
  /\ mutex = 1 <=> At(Critical) = {}
  /\ \A s, t \in At(Critical) : s = t

(* The permits of a seat, however many threads sit there: a permit, or the *)
(* status HUNGRY that leads to one, for each thread that takes the sticks, *)
(* and one more if malloc left the status HUNGRY.                          *)
AtSeat(p) == {t \in At(Taking) : id[t] = p}

PermitInv ==
  \A p \in Seats :
    eaters[p] + (IF state[p] = HUNGRY THEN 1 ELSE 0)
      <= Cardinality(AtSeat(p)) + 1

(* Each thread that has a number has its own. *)
OwnSeats == \A t \in Seats \ At({"unborn", "born"}) : id[t] = t

(* The status of p is what malloc left there. *)
Haunted(p) ==
  /\ p \in ghosts
  /\ pc[p] \in {"unborn", "born", "thinking", "taking"}

(* Each status, and each semaphore, tells where its philosopher is. *)
StatusInv ==
  \A t \in Seats :
    /\ state[t] = HUNGRY => pc[t] \in Taking
    /\ state[t] = EATING =>
         Haunted(t) \/ pc[t] \in {"asked", "waiting", "eating", "putting"}
    /\ pc[t] \in {"eating", "putting"} => state[t] = EATING
    /\ pc[t] = "asking" => state[t] = HUNGRY
    /\ pc[t] \in {"asked", "waiting"} => state[t] \in {HUNGRY, EATING}
    /\ eaters[t] = IF state[t] = EATING /\ pc[t] \in {"asked", "waiting"}
                   THEN 1 ELSE 0

(* No two neighbours have the status EATING, unless malloc gave it to both. *)
SticksInv ==
  \A p \in Seats :
    state[p] = EATING /\ state[RIGHT(p)] = EATING =>
      Haunted(p) /\ Haunted(RIGHT(p))

(* A neighbour of p has the status EATING, or had it from malloc and has   *)
(* not passed through put_sticks, which would test p, since.               *)
Blocked(p) ==
  \E q \in {LEFT(p), RIGHT(p)} : state[q] = EATING \/ q \in ghosts

(* A hungry philosopher is blocked, or is about to be tested: by itself,   *)
(* or by a neighbour that has just put the sticks down.                    *)
HungryInv ==
  \A p \in Seats :
    state[p] = HUNGRY =>
      \/ Blocked(p)
      \/ pc[p] = "asking"
      \/ pc[RIGHT(p)] = "test_left"
      \/ pc[LEFT(p)] \in {"test_left", "test_right"}

(***************************************************************************)
(* The inductive invariant.  Whatever numbers the threads have read and    *)
(* malloc has left: critical sections exclude each other, and no seat      *)
(* collects permits.  While the table is orderly: mutual exclusion of      *)
(* neighbours, and what HungryForAReason rests on.                         *)
(***************************************************************************)
TableInv ==
  /\ TypeOK /\ BirthInv /\ MutexInv /\ PermitInv
  /\ orderly => OwnSeats /\ StatusInv /\ SticksInv /\ HungryInv

(***************************************************************************)
(* No wake-up is lost (line 56 "neighbors will unblock after they finish   *)
(* eating"): when nobody is inside the critical section of an orderly      *)
(* table, a philosopher is left hungry only while a neighbour eats, has    *)
(* been told to, or still has to eat once to clear what malloc left.       *)
(***************************************************************************)
HungryForAReason ==
  orderly /\ mutex = 1 =>
    \A p \in Seats : state[p] = HUNGRY => Blocked(p)

(***************************************************************************)
(* Seen from outside the threads are philosophers at a table: between      *)
(* passing sem_wait(&eaters[i]) and put_sticks nobody next to i does the   *)
(* same, whoever set i's status to EATING, as long as the table is orderly.*)
(***************************************************************************)
phase == [t \in Seats |->
            IF pc[t] \in {"eating", "putting"} THEN "eating"
            ELSE IF pc[t] \in Taking THEN "hungry"
            ELSE "thinking"]

Table == INSTANCE DiningTable

ImplementsTable == Table!Spec

(***************************************************************************)
(* The table never freezes (unless main gives up): an eating philosopher   *)
(* gets the sticks back on the table, whatever seat it reads, and while    *)
(* one is hungry at an orderly table it or a neighbour gets to eat, even   *)
(* if all the others think for ever; a neighbour that malloc left EATING   *)
(* and that never takes part is the one exception.                         *)
(***************************************************************************)
TableMoves ==
  \A p \in Seats :
    /\ phase[p] = "eating" ~> (phase[p] = "thinking" \/ ~Running)
    /\ phase[p] = "hungry" ~>
         \/ ~Running \/ ~orderly
         \/ {LEFT(p), RIGHT(p)} \cap ghosts # {}
         \/ \E q \in {LEFT(p), p, RIGHT(p)} : phase[q] = "eating"
=============================================================================
