----------------------------- MODULE WorkerPool -----------------------------
(***************************************************************************)
(* The idiom by which car_thread (garage-simulator/threads.c) obtains one  *)
(* of several identical workers: wait on a counting semaphore, then scan   *)
(* an availability array under a mutex for a free entry and claim it.      *)
(* The program uses it twice, for mechanics (mechanic_sem,                 *)
(* mechanic_available, mechanic_mutex) and for pollution testers           *)
(* (pollution_worker_sem, tester_available, tester_mutex); Stations        *)
(* instantiates this module once for each.                                 *)
(*                                                                         *)
(* The semaphore's initial value, the length of the array and the number   *)
(* of 1s in its initialiser are three separate constants of the source     *)
(* (#define POLLUTION_WORKERS, #define TESTER, the literal {1, 1}), so     *)
(* they are three constants here.                                          *)
(*                                                                         *)
(* Releasing a worker happens outside the mutex, so it interleaves with    *)
(* the steps of a scan: the scan takes one step per entry.                 *)
(***************************************************************************)
EXTENDS Naturals, FiniteSets

CONSTANTS
  Cars,     \* the threads that use the pool
  Size,     \* length of the availability array
  Staffed,  \* number of leading 1s in the array's initialiser
  Permits   \* initial value of the counting semaphore

ASSUME PoolAssumption ==
  /\ IsFiniteSet(Cars)
  /\ Size \in Nat \ {0}
  /\ Staffed \in 0..Size
  /\ Permits \in Nat

VARIABLES
  sem,        \* value of the counting semaphore
  available,  \* the array: 1 = free, 0 = busy
  mutex,      \* the threads inside the mutex (at most one)
  stage,      \* per thread: where it is in the idiom
  worker      \* per thread: the entry under its scan, then the worker it holds

vars == <<sem, available, mutex, stage, worker>>

Workers == 1..Size

Stages == {"out",       \* holds nothing
           "permit",    \* semaphore taken, mutex not yet taken
           "probing",   \* inside the mutex, about to read an entry
           "claiming",  \* read a 1, about to write 0
           "busy",      \* owns its worker
           "unserved",  \* scanned every entry and found none free
           "freed"}     \* entry written back to 1, semaphore not yet posted

Init ==
  /\ sem = Permits
  /\ available = [w \in Workers |-> IF w <= Staffed THEN 1 ELSE 0]
  /\ mutex = {}
  /\ stage = [c \in Cars |-> "out"]
  /\ worker = [c \in Cars |-> 0]

Move(c, from, to) ==
  /\ stage[c] = from
  /\ stage' = [stage EXCEPT ![c] = to]

(* sem_wait *)
Wait(c) ==
  /\ Move(c, "out", "permit")
  /\ sem > 0
  /\ sem' = sem - 1
  /\ UNCHANGED <<available, mutex, worker>>

(* mutant of Lock: does not wait for the mutex *)
LockUnheld(c) ==
  /\ Move(c, "permit", "probing")
  /\ mutex' = mutex \cup {c}
  /\ worker' = [worker EXCEPT ![c] = 1]
  /\ UNCHANGED <<sem, available>>

(* pthread_mutex_lock, and the scan's index at the first entry *)
Lock(c) ==
  /\ Move(c, "permit", "probing")
  /\ mutex = {}
  /\ mutex' = {c}
  /\ worker' = [worker EXCEPT ![c] = 1]
  /\ UNCHANGED <<sem, available>>

SeeFree(c) ==
  /\ Move(c, "probing", "claiming")
  /\ available[worker[c]] = 1
  /\ UNCHANGED <<sem, available, mutex, worker>>

SeeBusy(c) ==
  /\ stage[c] = "probing"
  /\ available[worker[c]] = 0
  /\ worker[c] < Size
  /\ worker' = [worker EXCEPT ![c] = @ + 1]
  /\ UNCHANGED <<sem, available, mutex, stage>>

(* the loop ran off the array: my_mechanic / my_tester stays -1 *)
FindNone(c) ==
  /\ Move(c, "probing", "unserved")
  /\ available[worker[c]] = 0
  /\ worker[c] = Size
  /\ mutex' = mutex \ {c}
  /\ worker' = [worker EXCEPT ![c] = 0]
  /\ UNCHANGED <<sem, available>>

(* mutant of Claim: the entry stays 1 *)
ClaimUnwritten(c) ==
  /\ Move(c, "claiming", "busy")
  /\ mutex' = mutex \ {c}
  /\ UNCHANGED <<sem, available, worker>>

(* mutant of Claim: leaves the loop without unlocking *)
ClaimLocked(c) ==
  /\ Move(c, "claiming", "busy")
  /\ available' = [available EXCEPT ![worker[c]] = 0]
  /\ UNCHANGED <<sem, mutex, worker>>

(* write the 0, remember the worker, break and unlock *)
Claim(c) ==
  /\ Move(c, "claiming", "busy")
  /\ available' = [available EXCEPT ![worker[c]] = 0]
  /\ mutex' = mutex \ {c}
  /\ UNCHANGED <<sem, worker>>

(* the sem_post of the error path *)
GiveUp(c) ==
  /\ Move(c, "unserved", "out")
  /\ sem' = sem + 1
  /\ UNCHANGED <<available, mutex, worker>>

(* mutant of MarkFree: indexes with the 1-based number of the worker *)
MarkFreeUnshifted(c) ==
  /\ Move(c, "busy", "freed")
  /\ available' = [w \in Workers |->
                     IF w = worker[c] + 1 THEN 1 ELSE available[w]]
  /\ worker' = [worker EXCEPT ![c] = 0]
  /\ UNCHANGED <<sem, mutex>>

(* available[my - 1] = 1, written without the mutex *)
MarkFree(c) ==
  /\ Move(c, "busy", "freed")
  /\ available' = [available EXCEPT ![worker[c]] = 1]
  /\ worker' = [worker EXCEPT ![c] = 0]
  /\ UNCHANGED <<sem, mutex>>

(* the sem_post that follows it *)
Post(c) ==
  /\ Move(c, "freed", "out")
  /\ sem' = sem + 1
  /\ UNCHANGED <<available, mutex, worker>>

Search(c) == Lock(c) \/ SeeFree(c) \/ SeeBusy(c) \/ FindNone(c) \/ Claim(c)

Step(c) == Wait(c) \/ Search(c) \/ GiveUp(c) \/ MarkFree(c) \/ Post(c)

Next == \E c \in Cars : Step(c)

Spec == Init /\ [][Next]_vars

(***************************************************************************)
(* A thread that can take a step is eventually scheduled.  The lock is     *)
(* strongly fair: holders keep the mutex for a bounded scan, so it is free *)
(* again and again, and a waiter is not overtaken for ever.  No fairness   *)
(* on Wait: whether a thread asks for a worker is up to its environment.   *)
(***************************************************************************)
Fairness ==
  \A c \in Cars :
    /\ SF_vars(Lock(c))
    /\ WF_vars(SeeFree(c) \/ SeeBusy(c) \/ FindNone(c) \/ Claim(c))
    /\ WF_vars(GiveUp(c) \/ MarkFree(c) \/ Post(c))

FairSpec == Spec /\ Fairness

-----------------------------------------------------------------------------

Holding(S) == {c \in Cars : stage[c] \in S}

(* Every variable has the values its C counterpart can have. *)
TypeOK ==
  /\ sem \in 0..Permits
  /\ available \in [Workers -> {0, 1}]
  /\ mutex \subseteq Cars
  /\ stage \in [Cars -> Stages]
  /\ worker \in [Cars -> 0..Size]

(***************************************************************************)
(* No permit of the counting semaphore is lost or created, on the normal   *)
(* and on the error path of car_thread: its value and the threads that     *)
(* passed sem_wait and did not post yet always add up to its initial       *)
(* value.                                                                  *)
(***************************************************************************)
PermitsConserved ==
  sem + Cardinality(Holding(Stages \ {"out"})) = Permits

(***************************************************************************)
(* Two vehicles never work with the same mechanic (or tester), although    *)
(* entries are tested and then set by different threads and reset without  *)
(* the lock.                                                               *)
(***************************************************************************)
Exclusive ==
  \A c, d \in Holding({"busy"}) : worker[c] = worker[d] => c = d

(***************************************************************************)
(* threads.c:142 "The sem guarantees a free slot exists when we scan the   *)
(* array": a thread that passed the semaphore never leaves the scan empty  *)
(* handed, whatever is released behind its scan position.  It needs        *)
(* Permits <= Staffed.                                                     *)
(***************************************************************************)
Unserved == Holding({"unserved"})

NeverUnserved == Unserved = {}

(***************************************************************************)
(* What is left of that guarantee with more permits than workers: at any   *)
(* time no more threads have scanned in vain than there are permits too    *)
(* many.  One that does so because an entry was freed behind its back, or  *)
(* announced before it was free, would be one too many.                    *)
(***************************************************************************)
OnlyExcessUnserved ==
  Unserved # {} => Staffed + Cardinality(Unserved) <= Permits

(***************************************************************************)
(* Seen from outside, semaphore, array and mutex together behave like one  *)
(* indivisible hand-out of distinct workers: the module implements         *)
(* WorkerAssignment.                                                       *)
(***************************************************************************)
owned == [c \in Cars |-> IF stage[c] = "busy" THEN worker[c] ELSE 0]

Assignment == INSTANCE WorkerAssignment

ImplementsAssignment == Assignment!Spec

(***************************************************************************)
(* A thread that passed the semaphore leaves the scan: with a worker, or   *)
(* through the error path.                                                 *)
(***************************************************************************)
SearchEnds ==
  \A c \in Cars : stage[c] = "permit" ~> stage[c] \in {"busy", "unserved"}

(***************************************************************************)
(* The arrays are exact about ownership at every moment: the entries that  *)
(* read 0, less those never staffed, are as many as the threads between    *)
(* their claim and their write-back.  A lost or doubled write to an entry, *)
(* from inside or outside the mutex, would break it.  (threads.c:19 says   *)
(* the zeros match "active sem holders"; between sem_wait and the claim,   *)
(* and between the write-back and sem_post, they do not.)                  *)
(***************************************************************************)
SlotsMatchOwners ==
  Cardinality({w \in Workers : available[w] = 0})
    = (Size - Staffed) + Cardinality(Holding({"busy"}))

(***************************************************************************)
(* threads.c:18 says the arrays are "Protected by their respective         *)
(* mutexes": an entry would only change while some thread is inside the    *)
(* mutex.  The code writes the 1 back without locking.                     *)
(***************************************************************************)
WritesHoldMutex == [][available' # available => mutex # {}]_vars

(***************************************************************************)
(* The inductive invariant behind the three safety properties.             *)
(***************************************************************************)
Inside == {"probing", "claiming"}

(* Exactly the thread that is scanning is inside the mutex. *)
MutexInv ==
  /\ mutex = Holding(Inside)
  /\ \A c, d \in mutex : c = d

(* Where each thread's scan index or worker points. *)
WorkerInv ==
  \A c \in Cars :
    /\ stage[c] \in Inside \cup {"busy"} => worker[c] \in Workers
    /\ stage[c] = "claiming" => available[worker[c]] = 1
    /\ stage[c] = "busy" => available[worker[c]] = 0

(* A staffed entry that reads 0 is held by some thread. *)
OwnerInv ==
  \A w \in 1..Staffed :
    available[w] = 0 => \E c \in Holding({"busy"}) : worker[c] = w

(* Once as many threads are unserved as there are permits in excess, a      *)
(* scan has a free staffed entry at or ahead of its position.              *)
AheadInv ==
  Permits <= Staffed + Cardinality(Unserved) =>
    \A c \in Holding({"probing"}) :
      \E w \in worker[c]..Staffed : available[w] = 1

IInv ==
  /\ TypeOK
  /\ PermitsConserved
  /\ MutexInv
  /\ WorkerInv
  /\ Exclusive
  /\ OwnerInv
  /\ AheadInv
  /\ OnlyExcessUnserved
=============================================================================
