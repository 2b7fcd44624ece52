------------------------- MODULE BoundedStack_proofs -------------------------
(***************************************************************************)
(* Proofs about BoundedStack, for any number of threads and slots: the     *)
(* inductive invariant, that idx stays within the array, and that the code *)
(* implements SharedStack.                                                 *)
(***************************************************************************)
EXTENDS BoundedStack, FiniteSetTheorems, TLAPS

(* Any set of threads is finite, so it can be counted. *)
LEMMA AtFinite ==
  ASSUME NEW S
  PROVE  IsFiniteSet(At(S)) /\ Cardinality(At(S)) \in Nat
<1>1. At(S) \in SUBSET Threads
  BY DEF At
<1> QED
  BY <1>1, FS_Subset, FS_CardinalityType, StackAssumption

(* A thread that is somewhere in S makes the count positive. *)
LEMMA AtPositive ==
  ASSUME NEW S, NEW t \in Threads, pc[t] \in S
  PROVE  Cardinality(At(S)) >= 1
<1>1. t \in At(S)
  BY DEF At
<1>2. Cardinality(At(S)) # 0
  BY <1>1, AtFinite, FS_EmptySet
<1> QED
  BY <1>2, AtFinite

(* The counts before and after one thread moves. *)
LEMMA MoveCount ==
  ASSUME NEW S, NEW t \in Threads, NEW to,
         pc \in [Threads -> PCs],
         pc' = [pc EXCEPT ![t] = to]
  PROVE  Cardinality(At(S))' =
           Cardinality(At(S)) + (IF to \in S THEN 1 ELSE 0)
                              - (IF pc[t] \in S THEN 1 ELSE 0)
<1> DEFINE Before == At(S)
           After == At(S)'
           Others == Before \ {t}
<1>1. /\ IsFiniteSet(Before) /\ IsFiniteSet(Others)
      /\ Cardinality(Before) \in Nat /\ Cardinality(Others) \in Nat
  <2>1. Others \in SUBSET Threads
    BY DEF At
  <2> QED
    BY <2>1, AtFinite, FS_Subset, FS_CardinalityType, StackAssumption
<1>2. Cardinality(Before) =
        Cardinality(Others) + (IF pc[t] \in S THEN 1 ELSE 0)
  <2>1. CASE pc[t] \in S
    <3>1. t \in Before
      BY <2>1 DEF At
    <3>2. Cardinality(Others) = Cardinality(Before) - 1
      BY <3>1, <1>1, FS_RemoveElement
    <3> HIDE DEF Before, Others
    <3> QED
      BY <2>1, <3>2, <1>1
  <2>2. CASE pc[t] \notin S
    <3>1. Others = Before
      BY <2>2 DEF At
    <3> HIDE DEF Before, Others
    <3> QED
      BY <2>2, <3>1, <1>1
  <2> QED
    BY <2>1, <2>2
<1>3. Cardinality(After) =
        Cardinality(Others) + (IF to \in S THEN 1 ELSE 0)
  <2>1. CASE to \in S
    <3>1. After = Others \cup {t}
      BY <2>1 DEF At
    <3>2. Cardinality(Others \cup {t}) = Cardinality(Others) + 1
      BY <1>1, FS_AddElement
    <3> HIDE DEF After, Others
    <3> QED
      BY <2>1, <3>1, <3>2, <1>1
  <2>2. CASE to \notin S
    <3>1. After = Others
      BY <2>2 DEF At
    <3> HIDE DEF After, Others
    <3> QED
      BY <2>2, <3>1, <1>1
  <2> QED
    BY <2>1, <2>2
<1>4. Cardinality(After) = Cardinality(At(S))'
  OBVIOUS
<1> HIDE DEF Before, After, Others
<1>5. Before = At(S)
  BY DEF Before
<1> QED
  BY <1>1, <1>2, <1>3, <1>4, <1>5

-----------------------------------------------------------------------------

(* The four counts the invariant speaks of. *)
filling == Cardinality(At(Filling))
filled == Cardinality(At(Filled))
taking == Cardinality(At(Taking))
taken == Cardinality(At(Taken))

counts == <<filling, filled, taking, taken>>

LEMMA CountsNat ==
  /\ filling \in Nat /\ filled \in Nat /\ taking \in Nat /\ taken \in Nat
BY AtFinite DEF filling, filled, taking, taken

(* How the count of S changes when a thread moves. *)
Delta(S, from, to) == (IF to \in S THEN 1 ELSE 0) - (IF from \in S THEN 1 ELSE 0)

LEMMA Counts ==
  ASSUME NEW t \in Threads, NEW from, NEW to,
         pc \in [Threads -> PCs], Move(t, from, to)
  PROVE  /\ filling' = filling + Delta(Filling, from, to)
         /\ filled' = filled + Delta(Filled, from, to)
         /\ taking' = taking + Delta(Taking, from, to)
         /\ taken' = taken + Delta(Taken, from, to)
<1>1. pc' = [pc EXCEPT ![t] = to] /\ pc[t] = from
  BY DEF Move
<1>2. ASSUME NEW S
      PROVE  Cardinality(At(S))' = Cardinality(At(S)) + Delta(S, from, to)
  <2>1. Cardinality(At(S))' = Cardinality(At(S))
          + (IF to \in S THEN 1 ELSE 0) - (IF pc[t] \in S THEN 1 ELSE 0)
    BY <1>1, MoveCount
  <2> QED
    BY <1>1, <2>1, AtFinite DEF Delta
<1> QED
  BY <1>2 DEF filling, filled, taking, taken, Filled, Filling, Taking, Taken

-----------------------------------------------------------------------------

LEMMA InitStackInv == Init => StackInv
<1> SUFFICES ASSUME Init PROVE StackInv
  OBVIOUS
<1>1. \A S \in {Filled, Filling, Taking, Taken} :
        At(S) = {} /\ Cardinality(At(S)) = 0
  <2>1. \A S \in {Filled, Filling, Taking, Taken} : At(S) = {}
    BY DEF Init, At, Filled, Filling, Taking, Taken
  <2> QED
    BY <2>1, FS_EmptySet
<1>2. TypeOK
  BY StackAssumption DEF Init, TypeOK, PCs, AnyValue
<1>3. MutexInv
  BY DEF Init, MutexInv, At, Critical
<1>4. FullInv /\ EmptyInv
  BY <1>1, StackAssumption DEF Init, FullInv, EmptyInv
<1>5. StoreInv
  BY DEF Init, StoreInv, At
<1> QED
  BY <1>2, <1>3, <1>4, <1>5 DEF StackInv

(***************************************************************************)
(* The account of slots: what the semaphores promise, and what threads     *)
(* have taken from one and not yet posted to the other, adds up to the     *)
(* array; so neither a semaphore nor idx leaves 0 .. N.                    *)
(***************************************************************************)
LEMMA NextAccount ==
  ASSUME StackInv, [Next]_vars
  PROVE  /\ FullInv' /\ EmptyInv'
         /\ idx' \in 0..N /\ isFull' \in 0..N /\ isEmpty' \in 0..N
<1> DEFINE Account == /\ FullInv' /\ EmptyInv'
                      /\ idx' \in 0..N /\ isFull' \in 0..N /\ isEmpty' \in 0..N
<1>1. /\ idx \in 0..N /\ isFull \in 0..N /\ isEmpty \in 0..N
      /\ pc \in [Threads -> PCs]
      /\ idx = isFull + filled + taking
      /\ N - idx = isEmpty + taken + filling
      /\ N \in Nat
  BY StackAssumption
  DEF StackInv, TypeOK, FullInv, EmptyInv, filling, filled, taking, taken
<1>2. /\ filling' \in Nat /\ filled' \in Nat /\ taking' \in Nat /\ taken' \in Nat
  <2>1. ASSUME NEW S PROVE Cardinality(At(S))' \in Nat
    <3>1. At(S)' \in SUBSET Threads
      BY DEF At
    <3> QED
      BY <3>1, FS_Subset, FS_CardinalityType, StackAssumption
  <2> QED
    BY <2>1 DEF filling, filled, taking, taken, Filled, Filling, Taking, Taken
<1>3. ASSUME /\ idx' = isFull' + filled' + taking'
             /\ N - idx' = isEmpty' + taken' + filling'
             /\ idx' \in Int /\ isFull' \in Nat /\ isEmpty' \in Nat
      PROVE  Account
  BY <1>1, <1>2, <1>3 DEF FullInv, EmptyInv, filling, filled, taking, taken
<1>4. ASSUME UNCHANGED <<pc, idx, isFull, isEmpty>>
      PROVE  Account
  <2>1. UNCHANGED counts
    BY <1>4 DEF counts, filling, filled, taking, taken, At,
                Filling, Filled, Taking, Taken
  <2> QED
    BY <1>1, <1>3, <1>4, <2>1 DEF counts
<1>5. ASSUME NEW t \in Threads, Step(t)
      PROVE  Account
  <2> HIDE DEF Account
  <2>1. CASE Create(t)
    <3>1. Move(t, "unborn", "resting")
      BY <2>1 DEF Create
    <3>2. UNCHANGED counts
      BY <3>1, <1>1, Counts, CountsNat
      DEF Delta, counts, Filling, Filled, Taking, Taken
    <3> QED
      BY <2>1, <3>2, <1>1, <1>3, CountsNat DEF Create, counts, stack, sems
  <2>2. CASE ChoosePush(t)
    <3>1. Move(t, "resting", "push")
      BY <2>2 DEF ChoosePush
    <3>2. UNCHANGED counts
      BY <3>1, <1>1, Counts, CountsNat
      DEF Delta, counts, Filling, Filled, Taking, Taken
    <3> QED
      BY <2>2, <3>2, <1>1, <1>3, CountsNat DEF ChoosePush, counts, stack, sems
  <2>3. CASE ChoosePop(t)
    <3>1. Move(t, "resting", "pop")
      BY <2>3 DEF ChoosePop
    <3>2. UNCHANGED counts
      BY <3>1, <1>1, Counts, CountsNat
      DEF Delta, counts, Filling, Filled, Taking, Taken
    <3> QED
      BY <2>3, <3>2, <1>1, <1>3, CountsNat DEF ChoosePop, counts, stack, sems
  <2>4. CASE WaitFree(t)
    <3>1. Move(t, "push", "push_locking")
      BY <2>4 DEF WaitFree
    <3>2. /\ filling' = filling + 1 /\ filled' = filled
         /\ taking' = taking /\ taken' = taken
      BY <3>1, <1>1, Counts, CountsNat
      DEF Delta, counts, Filling, Filled, Taking, Taken
    <3> QED
      BY <2>4, <3>2, <1>1, <1>3, CountsNat DEF WaitFree, counts, stack, sems
  <2>5. CASE PushLock(t)
    <3>1. Move(t, "push_locking", "storing")
      BY <2>5 DEF PushLock, Lock
    <3>2. UNCHANGED counts
      BY <3>1, <1>1, Counts, CountsNat
      DEF Delta, counts, Filling, Filled, Taking, Taken
    <3> QED
      BY <2>5, <3>2, <1>1, <1>3, CountsNat DEF PushLock, Lock, counts, stack, sems
  <2>6. CASE Store(t)
    <3>1. Move(t, "storing", "advancing")
      BY <2>6 DEF Store
    <3>2. UNCHANGED counts
      BY <3>1, <1>1, Counts, CountsNat
      DEF Delta, counts, Filling, Filled, Taking, Taken
    <3> QED
      BY <2>6, <3>2, <1>1, <1>3, CountsNat DEF Store, counts, stack, sems
  <2>7. CASE Advance(t)
    <3>1. Move(t, "advancing", "pushed")
      BY <2>7 DEF Advance
    <3>2. /\ filling' = filling - 1 /\ filled' = filled + 1
         /\ taking' = taking /\ taken' = taken
      BY <3>1, <1>1, Counts, CountsNat
      DEF Delta, counts, Filling, Filled, Taking, Taken
    <3> QED
      BY <2>7, <3>2, <1>1, <1>3, CountsNat DEF Advance, counts, stack, sems
  <2>8. CASE PushUnlock(t)
    <3>1. Move(t, "pushed", "push_done")
      BY <2>8 DEF PushUnlock, Unlock
    <3>2. UNCHANGED counts
      BY <3>1, <1>1, Counts, CountsNat
      DEF Delta, counts, Filling, Filled, Taking, Taken
    <3> QED
      BY <2>8, <3>2, <1>1, <1>3, CountsNat DEF PushUnlock, Unlock, counts, stack, sems
  <2>9. CASE PostFull(t)
    <3>1. Move(t, "push_done", "resting")
      BY <2>9 DEF PostFull
    <3>2. /\ filling' = filling /\ filled' = filled - 1
         /\ taking' = taking /\ taken' = taken
      BY <3>1, <1>1, Counts, CountsNat
      DEF Delta, counts, Filling, Filled, Taking, Taken
    <3> QED
      BY <2>9, <3>2, <1>1, <1>3, CountsNat DEF PostFull, counts, stack, sems
  <2>10. CASE WaitItem(t)
    <3>1. Move(t, "pop", "pop_locking")
      BY <2>10 DEF WaitItem
    <3>2. /\ filling' = filling /\ filled' = filled
         /\ taking' = taking + 1 /\ taken' = taken
      BY <3>1, <1>1, Counts, CountsNat
      DEF Delta, counts, Filling, Filled, Taking, Taken
    <3> QED
      BY <2>10, <3>2, <1>1, <1>3, CountsNat DEF WaitItem, counts, stack, sems
  <2>11. CASE PopLock(t)
    <3>1. Move(t, "pop_locking", "retreating")
      BY <2>11 DEF PopLock, Lock
    <3>2. UNCHANGED counts
      BY <3>1, <1>1, Counts, CountsNat
      DEF Delta, counts, Filling, Filled, Taking, Taken
    <3> QED
      BY <2>11, <3>2, <1>1, <1>3, CountsNat DEF PopLock, Lock, counts, stack, sems
  <2>12. CASE Retreat(t)
    <3>1. Move(t, "retreating", "loading")
      BY <2>12 DEF Retreat
    <3>2. /\ filling' = filling /\ filled' = filled
         /\ taking' = taking - 1 /\ taken' = taken + 1
      BY <3>1, <1>1, Counts, CountsNat
      DEF Delta, counts, Filling, Filled, Taking, Taken
    <3> QED
      BY <2>12, <3>2, <1>1, <1>3, CountsNat DEF Retreat, counts, stack, sems
  <2>13. CASE Load(t)
    <3>1. Move(t, "loading", "popped")
      BY <2>13 DEF Load
    <3>2. UNCHANGED counts
      BY <3>1, <1>1, Counts, CountsNat
      DEF Delta, counts, Filling, Filled, Taking, Taken
    <3> QED
      BY <2>13, <3>2, <1>1, <1>3, CountsNat DEF Load, counts, stack, sems
  <2>14. CASE PopUnlock(t)
    <3>1. Move(t, "popped", "pop_done")
      BY <2>14 DEF PopUnlock, Unlock
    <3>2. UNCHANGED counts
      BY <3>1, <1>1, Counts, CountsNat
      DEF Delta, counts, Filling, Filled, Taking, Taken
    <3> QED
      BY <2>14, <3>2, <1>1, <1>3, CountsNat DEF PopUnlock, Unlock, counts, stack, sems
  <2>15. CASE PostEmpty(t)
    <3>1. Move(t, "pop_done", "resting")
      BY <2>15 DEF PostEmpty
    <3>2. /\ filling' = filling /\ filled' = filled
         /\ taking' = taking /\ taken' = taken - 1
      BY <3>1, <1>1, Counts, CountsNat
      DEF Delta, counts, Filling, Filled, Taking, Taken
    <3> QED
      BY <2>15, <3>2, <1>1, <1>3, CountsNat DEF PostEmpty, counts, stack, sems
  <2> QED
    BY <1>5, <2>1, <2>2, <2>3, <2>4, <2>5, <2>6, <2>7, <2>8, <2>9,
       <2>10, <2>11, <2>12, <2>13, <2>14, <2>15 DEF Step, Push, Pop
<1>6. CASE Sleep \/ Return \/ Terminated \/ UNCHANGED vars
  BY <1>6, <1>4 DEF Sleep, Return, Terminated, vars, stack, sems
<1> QED
  BY <1>5, <1>6 DEF Next

-----------------------------------------------------------------------------

(***************************************************************************)
(* What the account says where the array is accessed: a thread about to    *)
(* store has a free slot, one about to pop an occupied one, and a popped   *)
(* slot is still there when it is read.                                    *)
(***************************************************************************)
LEMMA SlotStored ==
  ASSUME StackInv, NEW t \in Threads, pc[t] \in {"storing", "advancing"}
  PROVE  idx \in Indices
<1>1. filling >= 1
  BY AtPositive DEF filling, Filling
<1> QED
  BY <1>1, CountsNat, StackAssumption
  DEF StackInv, TypeOK, EmptyInv, filling, taken, Indices

LEMMA SlotTaken ==
  ASSUME StackInv, NEW t \in Threads, pc[t] = "retreating"
  PROVE  idx - 1 \in Indices
<1>1. taking >= 1
  BY AtPositive DEF taking, Taking
<1> QED
  BY <1>1, CountsNat, StackAssumption
  DEF StackInv, TypeOK, FullInv, taking, filled, Indices

LEMMA SlotLoaded ==
  ASSUME StackInv, NEW t \in Threads, pc[t] = "loading"
  PROVE  idx \in Indices
<1>1. taken >= 1
  BY AtPositive DEF taken, Taken
<1> QED
  BY <1>1, CountsNat, StackAssumption
  DEF StackInv, TypeOK, EmptyInv, filling, taken, Indices

-----------------------------------------------------------------------------

LEMMA NextTypeOK ==
  ASSUME StackInv, [Next]_vars
  PROVE  TypeOK'
<1>1. idx' \in 0..N /\ isFull' \in 0..N /\ isEmpty' \in 0..N
  BY NextAccount
<1>2. ASSUME NEW t \in Threads, Step(t)
      PROVE  TypeOK'
  <2> USE <1>1 DEF StackInv, TypeOK, Move, stack, sems, regs
  <2>1. CASE Create(t) \/ ChoosePush(t) \/ ChoosePop(t)
    BY <2>1 DEF Create, ChoosePush, ChoosePop, PCs
  <2>2. CASE WaitFree(t) \/ PushLock(t) \/ PushUnlock(t) \/ PostFull(t)
    BY <2>2 DEF WaitFree, PushLock, PushUnlock, PostFull, Lock, Unlock, PCs
  <2>3. CASE Store(t) \/ Advance(t)
    BY <2>3 DEF Store, Advance, PCs
  <2>4. CASE WaitItem(t) \/ PopLock(t) \/ PopUnlock(t) \/ PostEmpty(t)
    BY <2>4 DEF WaitItem, PopLock, PopUnlock, PostEmpty, Lock, Unlock, PCs
  <2>5. CASE Retreat(t)
    BY <2>5 DEF Retreat, PCs
  <2>6. CASE Load(t)
    <3>1. idx \in Indices
      BY <2>6, SlotLoaded DEF Load
    <3> QED
      BY <2>6, <3>1 DEF Load, PCs
  <2> QED
    BY <1>2, <2>1, <2>2, <2>3, <2>4, <2>5, <2>6 DEF Step, Push, Pop
<1>3. CASE Sleep \/ Return \/ Terminated \/ UNCHANGED vars
  BY <1>1, <1>3
  DEF Sleep, Return, Terminated, vars, stack, sems, regs, StackInv, TypeOK
<1> QED
  BY <1>2, <1>3 DEF Next

LEMMA NextMutex ==
  ASSUME StackInv, [Next]_vars
  PROVE  MutexInv'
<1> USE DEF StackInv, TypeOK, MutexInv, At
<1>1. ASSUME NEW t \in Threads, Step(t)
      PROVE  MutexInv'
  <2> USE DEF Move, Critical
  <2>1. CASE Create(t) \/ ChoosePush(t) \/ ChoosePop(t)
    BY <2>1 DEF Create, ChoosePush, ChoosePop
  <2>2. CASE WaitFree(t) \/ PostFull(t) \/ WaitItem(t) \/ PostEmpty(t)
    BY <2>2 DEF WaitFree, PostFull, WaitItem, PostEmpty
  <2>3. CASE PushLock(t) \/ PopLock(t)
    BY <2>3 DEF PushLock, PopLock, Lock
  <2>4. CASE PushUnlock(t) \/ PopUnlock(t)
    BY <2>4 DEF PushUnlock, PopUnlock, Unlock
  <2>5. CASE Store(t) \/ Advance(t)
    BY <2>5 DEF Store, Advance
  <2>6. CASE Retreat(t) \/ Load(t)
    BY <2>6 DEF Retreat, Load
  <2> QED
    BY <1>1, <2>1, <2>2, <2>3, <2>4, <2>5, <2>6 DEF Step, Push, Pop
<1>2. CASE Sleep \/ Return \/ Terminated \/ UNCHANGED vars
  BY <1>2 DEF Sleep, Return, Terminated, vars
<1> QED
  BY <1>1, <1>2 DEF Next

(* Only the thread inside the mutex changes the array, idx or, having      *)
(* chosen it before it got there, the number it stores.                    *)
LEMMA NextStore ==
  ASSUME StackInv, [Next]_vars
  PROVE  StoreInv'
<1> USE DEF StackInv, TypeOK, MutexInv, StoreInv, At
<1>1. ASSUME NEW t \in Threads, Step(t)
      PROVE  StoreInv'
  <2> USE DEF Move, Critical, stack, regs
  <2>1. CASE Create(t) \/ ChoosePush(t) \/ ChoosePop(t)
    BY <2>1 DEF Create, ChoosePush, ChoosePop
  <2>2. CASE WaitFree(t) \/ PostFull(t) \/ WaitItem(t) \/ PostEmpty(t)
    BY <2>2 DEF WaitFree, PostFull, WaitItem, PostEmpty
  <2>3. CASE PushLock(t) \/ PopLock(t)
    BY <2>3 DEF PushLock, PopLock, Lock
  <2>4. CASE PushUnlock(t) \/ PopUnlock(t)
    BY <2>4 DEF PushUnlock, PopUnlock, Unlock
  <2>5. CASE Store(t)
    <3>1. idx \in Indices
      BY <2>5, SlotStored DEF Store
    <3>2. At({"advancing"})' = {t}
      BY <2>5 DEF Store
    <3> QED
      BY <2>5, <3>1, <3>2 DEF Store
  <2>6. CASE Advance(t)
    BY <2>6 DEF Advance
  <2>7. CASE Retreat(t) \/ Load(t)
    BY <2>7 DEF Retreat, Load
  <2> QED
    BY <1>1, <2>1, <2>2, <2>3, <2>4, <2>5, <2>6, <2>7 DEF Step, Push, Pop
<1>2. CASE Sleep \/ Return \/ Terminated \/ UNCHANGED vars
  BY <1>2 DEF Sleep, Return, Terminated, vars, stack, regs
<1> QED
  BY <1>1, <1>2 DEF Next

LEMMA NextStackInv == StackInv /\ [Next]_vars => StackInv'
BY NextAccount, NextTypeOK, NextMutex, NextStore DEF StackInv

(***************************************************************************)
(* The inductive invariant of the stack, for every number of threads and   *)
(* slots: semaphores, idx and the threads on their way agree.              *)
(***************************************************************************)
THEOREM StackInvariant == Spec => []StackInv
BY InitStackInv, NextStackInv, PTL DEF Spec

(***************************************************************************)
(* stk[idx++] (line 58) and stk[--idx] (line 71) never leave the array.    *)
(***************************************************************************)
THEOREM StackInBounds ==
  Spec => [](/\ At({"storing"}) # {} => idx \in Indices
             /\ At({"retreating"}) # {} => idx - 1 \in Indices
             /\ At({"loading"}) # {} => idx \in Indices)
<1>1. StackInv =>
        /\ At({"storing"}) # {} => idx \in Indices
        /\ At({"retreating"}) # {} => idx - 1 \in Indices
        /\ At({"loading"}) # {} => idx \in Indices
  BY SlotStored, SlotTaken, SlotLoaded DEF At
<1> QED
  BY <1>1, StackInvariant, PTL

(***************************************************************************)
(* When no thread can go on, all that were created wait for the same       *)
(* semaphore, and the stack is at the limit this semaphore stands for: no  *)
(* combination of pushes and pops blocks threads of both kinds for good.   *)
(***************************************************************************)
THEOREM StackStuckOnlyAtLimit == Spec => []StuckOnlyAtLimit
<1>1. ASSUME StackInv PROVE StuckOnlyAtLimit
  <2> SUFFICES ASSUME \A t \in Threads : pc[t] = "unborn" \/ Blocked(t),
                      NEW t \in Threads, pc[t] # "unborn"
               PROVE  \/ idx = N /\ At({"pop"}) = {}
                      \/ idx = 0 /\ At({"push"}) = {}
    BY DEF StuckOnlyAtLimit
  <2>1. /\ At(Filled) = {} /\ At(Taking) = {}
        /\ At(Taken) = {} /\ At(Filling) = {}
    BY DEF Blocked, At, Filled, Taking, Taken, Filling
  <2>2. idx = isFull /\ N - idx = isEmpty
    BY <1>1, <2>1, FS_EmptySet, StackAssumption
    DEF StackInv, TypeOK, FullInv, EmptyInv
  <2>3. CASE pc[t] = "push" /\ isEmpty = 0
    <3>1. idx = N /\ isFull # 0
      BY <1>1, <2>2, <2>3, StackAssumption DEF StackInv, TypeOK
    <3> QED
      BY <3>1 DEF At, Blocked
  <2>4. CASE pc[t] = "pop" /\ isFull = 0
    <3>1. idx = 0 /\ isEmpty # 0
      BY <1>1, <2>2, <2>4, StackAssumption DEF StackInv, TypeOK
    <3> QED
      BY <3>1 DEF At, Blocked
  <2> QED
    BY <2>3, <2>4 DEF Blocked
<1> QED
  BY <1>1, StackInvariant, PTL

-----------------------------------------------------------------------------
(***************************************************************************)
(* Refinement.  Length is how long contents is: idx, and one more while a  *)
(* popped number has not been read.                                        *)
(***************************************************************************)
Length == idx + Cardinality(At({"loading"}))

(* At most one thread reads a popped number: the one inside the mutex. *)
LEMMA LoadingCount ==
  ASSUME StackInv
  PROVE  /\ At({"loading"}) = {} => Length = idx
         /\ At({"loading"}) # {} => Length = idx + 1
<1>1. ASSUME At({"loading"}) = {}
      PROVE  Length = idx
  BY <1>1, FS_EmptySet DEF Length, StackInv, TypeOK
<1>2. ASSUME NEW t \in At({"loading"})
      PROVE  Length = idx + 1
  <2>1. At({"loading"}) = {t}
    BY <1>2 DEF StackInv, MutexInv, At, Critical
  <2>2. Cardinality({t}) = 1
    BY FS_Singleton
  <2> QED
    BY <2>1, <2>2 DEF Length
<1> QED
  BY <1>1, <1>2

(* Length stays within the array, and contents is a sequence of numbers. *)
LEMMA ContentsType ==
  ASSUME StackInv
  PROVE  /\ Length \in 0..N
         /\ contents = [k \in 1..Length |-> stk[k - 1]]
         /\ contents \in Seq(Values) /\ Len(contents) = Length
<1>1. Length \in 0..N
  <2>1. CASE At({"loading"}) = {}
    BY <2>1, LoadingCount DEF StackInv, TypeOK
  <2>2. ASSUME NEW t \in At({"loading"}) PROVE Length \in 0..N
    <3>1. idx \in Indices
      BY SlotLoaded DEF At
    <3> QED
      BY <2>2, <3>1, LoadingCount, StackAssumption DEF Indices
  <2> QED
    BY <2>1, <2>2
<1>2. contents = [k \in 1..Length |-> stk[k - 1]]
  BY DEF contents, Length
<1>3. \A k \in 1..Length : stk[k - 1] \in Values
  BY <1>1, StackAssumption DEF StackInv, TypeOK, Indices
<1> QED
  BY <1>1, <1>2, <1>3

LEMMA InitShared == Init => Shared!Init
<1> SUFFICES ASSUME Init PROVE Shared!Init
  OBVIOUS
<1>1. At({"loading"}) = {} /\ Length = 0
  BY InitStackInv, LoadingCount DEF Init, At
<1>2. contents = <<>>
  BY <1>1, InitStackInv, ContentsType
<1>3. val \in [Threads -> Values]
  BY InitStackInv DEF StackInv, TypeOK
<1> QED
  BY <1>2, <1>3 DEF Shared!Init

(* A step that leaves the length, the slots below it and val alone is not  *)
(* seen on the shared stack.                                               *)
LEMMA Stutters ==
  ASSUME StackInv, Length' = Length, UNCHANGED val,
         \A k \in 1..Length : stk'[k - 1] = stk[k - 1]
  PROVE  UNCHANGED <<contents, val>>
<1>1. contents' = [k \in 1..Length' |-> stk'[k - 1]]
  BY DEF contents, Length
<1>2. contents = [k \in 1..Length |-> stk[k - 1]]
  BY ContentsType
<1> QED
  BY <1>1, <1>2

(* Where Length goes when a thread moves. *)
LEMMA LengthStep ==
  ASSUME StackInv, NEW t \in Threads, NEW from, NEW to, Move(t, from, to),
         idx' \in Int
  PROVE  Length' = Length + (idx' - idx) + Delta({"loading"}, from, to)
<1>1. Cardinality(At({"loading"}))' =
        Cardinality(At({"loading"})) + Delta({"loading"}, from, to)
  BY MoveCount, AtFinite DEF Move, Delta, StackInv, TypeOK
<1>2. Delta({"loading"}, from, to) \in Int
  BY DEF Delta
<1> QED
  BY <1>1, <1>2, AtFinite DEF Length, StackInv, TypeOK

(***************************************************************************)
(* Every step of the code is a step of the shared stack or is not seen on  *)
(* it: stk[idx++] is seen when idx has moved, stk[--idx] when the number   *)
(* has been read.                                                          *)
(***************************************************************************)
LEMMA StepShared ==
  ASSUME StackInv, NEW t \in Threads, Step(t)
  PROVE  Shared!Next \/ UNCHANGED <<contents, val>>
<1> USE DEF stack, regs
<1>type. idx \in 0..N /\ N \in Nat /\ pc \in [Threads -> PCs]
  BY StackAssumption DEF StackInv, TypeOK
<1>quiet. ASSUME NEW from \in PCs \ {"loading"}, NEW to \in PCs \ {"loading"},
                 Move(t, from, to), UNCHANGED <<stk, idx, val>>
          PROVE  UNCHANGED <<contents, val>>
  <2>1. Length' = Length
    BY <1>type, <1>quiet, LengthStep, ContentsType DEF Delta
  <2> QED
    BY <1>quiet, <2>1, Stutters
<1>alone. ASSUME pc[t] \in Critical \ {"loading"}
          PROVE  At({"loading"}) = {} /\ Length = idx
  <2>1. At({"loading"}) = {}
    BY <1>alone DEF StackInv, MutexInv, At, Critical
  <2> QED
    BY <2>1, LoadingCount
<1>1. CASE Create(t) \/ ChoosePush(t) \/ ChoosePop(t)
  BY <1>1, <1>quiet DEF Create, ChoosePush, ChoosePop, PCs
<1>2. CASE WaitFree(t) \/ PushLock(t) \/ PushUnlock(t) \/ PostFull(t)
  BY <1>2, <1>quiet DEF WaitFree, PushLock, PushUnlock, PostFull, Lock, Unlock, PCs
<1>3. CASE WaitItem(t) \/ PopLock(t) \/ PopUnlock(t) \/ PostEmpty(t)
  BY <1>3, <1>quiet DEF WaitItem, PopLock, PopUnlock, PostEmpty, Lock, Unlock, PCs
<1>4. CASE Store(t)
  <2>1. Move(t, "storing", "advancing") /\ UNCHANGED <<idx, val>>
    BY <1>4 DEF Store
  <2>2. Length = idx
    BY <2>1, <1>alone DEF Move, Critical
  <2>3. Length' = Length
    BY <2>1, <2>2, <1>type, LengthStep DEF Delta
  <2>4. \A k \in 1..Length : stk'[k - 1] = stk[k - 1]
    BY <1>4, <2>2, <1>type DEF Store, Indices
  <2> QED
    BY <2>1, <2>3, <2>4, Stutters
<1>5. CASE Retreat(t)
  <2>1. /\ Move(t, "retreating", "loading")
        /\ idx' = idx - 1 /\ UNCHANGED <<stk, val>>
    BY <1>5 DEF Retreat
  <2>2. Length' = Length
    BY <2>1, <1>type, LengthStep, ContentsType DEF Delta
  <2> QED
    BY <2>1, <2>2, Stutters
<1>6. CASE Advance(t)
  <2>1. /\ Move(t, "advancing", "pushed")
        /\ idx' = idx + 1 /\ UNCHANGED <<stk, val>>
    BY <1>6 DEF Advance
  <2>2. idx \in Indices /\ stk[idx] = num[t] /\ num[t] \in Values
    BY <2>1, SlotStored DEF Move, StackInv, StoreInv, TypeOK, At
  <2>3. Length = idx /\ Len(contents) = idx
    BY <2>1, <1>alone, ContentsType DEF Move, Critical
  <2>4. Length' = idx + 1
    BY <2>1, <2>3, <1>type, LengthStep DEF Delta
  <2>5. contents' = Append(contents, num[t])
    <3>1. contents' = [k \in 1..(idx + 1) |-> stk[k - 1]]
      BY <2>1, <2>4 DEF contents, Length
    <3>2. contents = [k \in 1..idx |-> stk[k - 1]] /\ contents \in Seq(Values)
      BY <2>3, ContentsType
    <3> QED
      BY <3>1, <3>2, <2>2, <2>3, <1>type
  <2>6. Shared!Push(num[t])
    BY <2>1, <2>2, <2>3, <2>5, <1>type DEF Shared!Push, Indices
  <2> QED
    BY <2>2, <2>6 DEF Shared!Next
<1>7. CASE Load(t)
  <2>1. /\ Move(t, "loading", "popped")
        /\ val' = [val EXCEPT ![t] = stk[idx]] /\ UNCHANGED <<stk, idx>>
    BY <1>7 DEF Load
  <2>2. Length = idx + 1 /\ Len(contents) = idx + 1
    BY <2>1, LoadingCount, ContentsType DEF Move, At
  <2>3. Length' = idx
    BY <2>1, <2>2, <1>type, LengthStep DEF Delta
  <2>4. contents = [k \in 1..(idx + 1) |-> stk[k - 1]] /\ contents \in Seq(Values)
    BY <2>2, ContentsType
  <2>5. contents' = [k \in 1..idx |-> stk[k - 1]]
    BY <2>1, <2>3 DEF contents, Length
  <2>6. contents # <<>> /\ contents[Len(contents)] = stk[idx]
    BY <2>2, <2>4, <1>type
  <2>7. contents' = SubSeq(contents, 1, Len(contents) - 1)
    BY <2>2, <2>4, <2>5, <1>type
  <2>8. Shared!Pop(t)
    BY <2>1, <2>6, <2>7 DEF Shared!Pop, Shared!Last, Shared!Front
  <2> QED
    BY <2>8 DEF Shared!Next
<1> QED
  BY <1>1, <1>2, <1>3, <1>4, <1>5, <1>6, <1>7 DEF Step, Push, Pop

LEMMA NextShared ==
  StackInv /\ [Next]_vars => [Shared!Next]_<<contents, val>>
<1> SUFFICES ASSUME StackInv, [Next]_vars
             PROVE  Shared!Next \/ UNCHANGED <<contents, val>>
  OBVIOUS
<1>1. CASE Sleep \/ Return \/ Terminated \/ UNCHANGED vars
  BY <1>1
  DEF Sleep, Return, Terminated, vars, stack, regs, contents, At
<1> QED
  BY <1>1, StepShared DEF Next

(***************************************************************************)
(* The code implements the shared stack: last in, first out, for all       *)
(* threads together, each number popped by the thread that gets it only.   *)
(***************************************************************************)
THEOREM StackImplementsShared == Spec => ImplementsStack
BY InitShared, NextShared, StackInvariant, PTL DEF Spec, ImplementsStack, Shared!Spec

=============================================================================
