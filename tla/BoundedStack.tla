---------------------------- MODULE BoundedStack ----------------------------
(***************************************************************************)
(* Threads-safe_stack.c: K threads push and pop at random on one array of  *)
(* N slots.  isEmpty counts free slots, isFull occupied ones, mutex guards *)
(* the array and idx.  stk[idx++] = num and stk[--idx] are two accesses    *)
(* each, so they are two steps each.                                       *)
(***************************************************************************)
EXTENDS Naturals, Sequences, FiniteSets

CONSTANTS
  Threads,   \* the K threads
  N,         \* stack capacity
  Values     \* the numbers pushed (rand() % 100)

ASSUME StackAssumption == IsFiniteSet(Threads) /\ N \in Nat \ {0} /\ Values # {}

VARIABLES
  stk,       \* the array
  idx,       \* its top index
  isFull,    \* semaphore: occupied slots
  isEmpty,   \* semaphore: free slots
  mutex,     \* the threads inside the mutex (at most one)
  pc,        \* per thread: where it is
  num,       \* per thread: the number it pushes
  val,       \* per thread: the number it popped
  main       \* "creating", "sleeping" (the ten seconds), "returned"

stack == <<stk, idx>>
sems == <<isFull, isEmpty>>
vars == <<stk, idx, isFull, isEmpty, mutex, pc, num, val, main>>
regs == <<num, val>>

Indices == 0..(N - 1)

PCs == {"unborn", "resting",
        "push", "push_locking", "storing", "advancing", "pushed", "push_done",
        "pop", "pop_locking", "retreating", "loading", "popped", "pop_done"}

AnyValue == CHOOSE v \in Values : TRUE

(* stk and idx are globals: zeros.  num and val are not read before they    *)
(* are written, so their first values do not matter.                       *)
Init ==
  /\ stk = [k \in Indices |-> AnyValue]
  /\ idx = 0
  /\ isFull = 0 /\ isEmpty = N
  /\ mutex = {}
  /\ pc = [t \in Threads |-> "unborn"]
  /\ num = [t \in Threads |-> AnyValue]
  /\ val = [t \in Threads |-> AnyValue]
  /\ main = "creating"

Running == main # "returned"

Move(t, from, to) ==
  /\ Running
  /\ pc[t] = from
  /\ pc' = [pc EXCEPT ![t] = to]

-----------------------------------------------------------------------------
(* main *)

(* a pthread_create that succeeds; its results are collected, never read *)
Create(t) ==
  /\ main = "creating"
  /\ Move(t, "unborn", "resting")
  /\ UNCHANGED <<stack, sems, mutex, regs, main>>

(* the loop is over; threads whose creation failed stay unborn *)
Sleep ==
  /\ main = "creating"
  /\ main' = "sleeping"
  /\ UNCHANGED <<stack, sems, mutex, pc, regs>>

Return ==
  /\ main = "sleeping"
  /\ main' = "returned"
  /\ UNCHANGED <<stack, sems, mutex, pc, regs>>

-----------------------------------------------------------------------------
(* tFunc: one round of its loop *)

ChoosePush(t) ==
  /\ Move(t, "resting", "push")
  /\ \E v \in Values : num' = [num EXCEPT ![t] = v]
  /\ UNCHANGED <<stack, sems, mutex, val, main>>

ChoosePop(t) ==
  /\ Move(t, "resting", "pop")
  /\ UNCHANGED <<stack, sems, mutex, regs, main>>

Lock(t, from, to) ==
  /\ Move(t, from, to)
  /\ mutex = {}
  /\ mutex' = {t}
  /\ UNCHANGED <<stack, sems, regs, main>>

Unlock(t, from, to) ==
  /\ Move(t, from, to)
  /\ mutex' = mutex \ {t}
  /\ UNCHANGED <<stack, sems, regs, main>>

(* stkPush *)

WaitFree(t) ==
  /\ Move(t, "push", "push_locking")
  /\ isEmpty > 0
  /\ isEmpty' = isEmpty - 1
  /\ UNCHANGED <<stack, isFull, mutex, regs, main>>

(* mutant of PushLock: the push does not take the mutex *)
PushLockSkipped(t) ==
  /\ Move(t, "push_locking", "storing")
  /\ UNCHANGED <<stack, sems, mutex, regs, main>>

PushLock(t) == Lock(t, "push_locking", "storing")

Store(t) ==
  /\ Move(t, "storing", "advancing")
  /\ stk' = [k \in Indices |-> IF k = idx THEN num[t] ELSE stk[k]]
  /\ UNCHANGED <<idx, sems, mutex, regs, main>>

Advance(t) ==
  /\ Move(t, "advancing", "pushed")
  /\ idx' = idx + 1
  /\ UNCHANGED <<stk, sems, mutex, regs, main>>

PushUnlock(t) == Unlock(t, "pushed", "push_done")

(* mutant of PostFull: posts the semaphore it waited for *)
PostFullSwapped(t) ==
  /\ Move(t, "push_done", "resting")
  /\ isEmpty' = isEmpty + 1
  /\ UNCHANGED <<stack, isFull, mutex, regs, main>>

PostFull(t) ==
  /\ Move(t, "push_done", "resting")
  /\ isFull' = isFull + 1
  /\ UNCHANGED <<stack, isEmpty, mutex, regs, main>>

(* stkPop *)

WaitItem(t) ==
  /\ Move(t, "pop", "pop_locking")
  /\ isFull > 0
  /\ isFull' = isFull - 1
  /\ UNCHANGED <<stack, isEmpty, mutex, regs, main>>

PopLock(t) == Lock(t, "pop_locking", "retreating")

Retreat(t) ==
  /\ Move(t, "retreating", "loading")
  /\ idx' = idx - 1
  /\ UNCHANGED <<stk, sems, mutex, regs, main>>

Load(t) ==
  /\ Move(t, "loading", "popped")
  /\ val' = [val EXCEPT ![t] = stk[idx]]
  /\ UNCHANGED <<stack, sems, mutex, num, main>>

PopUnlock(t) == Unlock(t, "popped", "pop_done")

(* mutant of PostEmpty: the freed slot is not signalled *)
PostEmptyForgotten(t) ==
  /\ Move(t, "pop_done", "resting")
  /\ UNCHANGED <<stack, sems, mutex, regs, main>>

PostEmpty(t) ==
  /\ Move(t, "pop_done", "resting")
  /\ isEmpty' = isEmpty + 1
  /\ UNCHANGED <<stack, isFull, mutex, regs, main>>

Push(t) ==
  \/ WaitFree(t) \/ PushLock(t) \/ Store(t) \/ Advance(t)
  \/ PushUnlock(t) \/ PostFull(t)

Pop(t) ==
  \/ WaitItem(t) \/ PopLock(t) \/ Retreat(t) \/ Load(t)
  \/ PopUnlock(t) \/ PostEmpty(t)

Step(t) == Create(t) \/ ChoosePush(t) \/ ChoosePop(t) \/ Push(t) \/ Pop(t)

Terminated == main = "returned" /\ UNCHANGED vars

Next == Sleep \/ Return \/ (\E t \in Threads : Step(t)) \/ Terminated

Spec == Init /\ [][Next]_vars
-----------------------------------------------------------------------------

At(S) == {t \in Threads : pc[t] \in S}

(* Every variable has the values its C counterpart can have. *)
TypeOK ==
  /\ stk \in [Indices -> Values]
  /\ idx \in 0..N
  /\ isFull \in 0..N /\ isEmpty \in 0..N
  /\ mutex \subseteq Threads
  /\ pc \in [Threads -> PCs]
  /\ num \in [Threads -> Values] /\ val \in [Threads -> Values]
  /\ main \in {"creating", "sleeping", "returned"}

Critical == {"storing", "advancing", "pushed",
             "retreating", "loading", "popped"}

(* Exactly the thread between its lock and its unlock is in the mutex. *)
MutexInv ==
  /\ mutex = At(Critical)
  /\ \A s, t \in mutex : s = t

Filling == {"push_locking", "storing", "advancing"}
Filled == {"pushed", "push_done"}
Taking == {"pop_locking", "retreating"}
Taken == {"loading", "popped", "pop_done"}

(* An occupied slot is announced in isFull, about to be, or being popped. *)
FullInv == idx = isFull + Cardinality(At(Filled)) + Cardinality(At(Taking))

(* A free slot is announced in isEmpty, about to be, or being filled. *)
EmptyInv ==
  N - idx = isEmpty + Cardinality(At(Taken)) + Cardinality(At(Filling))

(* A number that is stored is stored at the top, and is the one pushed. *)
StoreInv == \A t \in At({"advancing"}) : stk[idx] = num[t]

(***************************************************************************)
(* The inductive invariant.  isFull and isEmpty together never promise     *)
(* more than the array has, so stk[idx++] and stk[--idx] stay inside it.   *)
(***************************************************************************)
StackInv == TypeOK /\ MutexInv /\ FullInv /\ EmptyInv /\ StoreInv

(***************************************************************************)
(* The threads share one stack: what a pop returns is the number on top,   *)
(* pushed by whomever and popped by nobody else.  A push takes effect when *)
(* idx moves up, a pop when its number has been read.                      *)
(***************************************************************************)
contents ==
  [k \in 1..(idx + Cardinality(At({"loading"}))) |-> stk[k - 1]]

Shared == INSTANCE SharedStack
            WITH Capacity <- N, stack <- contents, returned <- val

ImplementsStack == Shared!Spec

(***************************************************************************)
(* Lines 53 and 66: a push blocks "if the stack is full", a pop "if the    *)
(* stack is empty".  All threads may block for good, and then all of them  *)
(* wait for the same thing and the stack really is at that limit.          *)
(***************************************************************************)
Blocked(t) ==
  \/ pc[t] = "push" /\ isEmpty = 0
  \/ pc[t] = "pop" /\ isFull = 0

StuckOnlyAtLimit ==
  (\A t \in Threads : pc[t] = "unborn" \/ Blocked(t)) =>
    \/ \A t \in Threads : pc[t] = "unborn"
    \/ idx = N /\ At({"pop"}) = {}
    \/ idx = 0 /\ At({"push"}) = {}
=============================================================================
