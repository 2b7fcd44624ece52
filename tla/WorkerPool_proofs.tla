-------------------------- MODULE WorkerPool_proofs --------------------------
(***************************************************************************)
(* Theorems about WorkerPool, for every number of threads, workers and     *)
(* permits: its inductive invariant IInv, the safety properties it         *)
(* implies, the implementation of WorkerAssignment, and that searches are  *)
(* bounded and wait only for what somebody holds.                          *)
(***************************************************************************)
EXTENDS WorkerPool, FiniteSetTheorems, TLAPS

(* A set of threads is finite, so its cardinality is a natural number. *)
LEMMA HoldingFinite ==
  ASSUME NEW S
  PROVE  /\ IsFiniteSet(Holding(S))
         /\ Cardinality(Holding(S)) \in Nat
<1>1. Holding(S) \in SUBSET Cars
  BY DEF Holding
<1>2. IsFiniteSet(Holding(S))
  BY <1>1, FS_Subset, PoolAssumption
<1> QED
  BY <1>2, FS_CardinalityType

(* A step that brings one thread past the semaphore adds one holder, ... *)
LEMMA EnterHolding ==
  ASSUME NEW S, NEW c \in Cars, NEW to \in S,
         stage \in [Cars -> Stages], stage[c] \notin S,
         stage' = [stage EXCEPT ![c] = to]
  PROVE  Cardinality(Holding(S)') = Cardinality(Holding(S)) + 1
<1>1. Holding(S)' = Holding(S) \cup {c}
  BY DEF Holding
<1>2. c \notin Holding(S)
  BY DEF Holding
<1> QED
  BY <1>1, <1>2, FS_AddElement, HoldingFinite

(* ... one that leads it out removes one, ... *)
LEMMA LeaveHolding ==
  ASSUME NEW S, NEW c \in Cars, NEW to, to \notin S,
         stage \in [Cars -> Stages], stage[c] \in S,
         stage' = [stage EXCEPT ![c] = to]
  PROVE  /\ Cardinality(Holding(S)') = Cardinality(Holding(S)) - 1
         /\ Cardinality(Holding(S)) >= 1
<1>1. Holding(S)' = Holding(S) \ {c}
  BY DEF Holding
<1>2. c \in Holding(S)
  BY DEF Holding
<1>3. Cardinality(Holding(S)') = Cardinality(Holding(S)) - 1
  BY <1>1, <1>2, FS_RemoveElement, HoldingFinite
<1>4. Cardinality(Holding(S)) # 0
  BY <1>2, FS_EmptySet, HoldingFinite
<1> QED
  BY <1>3, <1>4, HoldingFinite

(* ... and every other step leaves the holders alone. *)
LEMMA KeepHolding ==
  ASSUME NEW S, NEW c \in Cars, NEW to,
         stage \in [Cars -> Stages], stage[c] \in S <=> to \in S,
         stage' = [stage EXCEPT ![c] = to]
  PROVE  Holding(S)' = Holding(S)
BY DEF Holding

(***************************************************************************)
(* The pigeonhole argument behind threads.c:142 "The sem guarantees a free *)
(* slot exists": a thread that passed the semaphore and owns nothing, and  *)
(* those that scanned in vain, leave fewer owners than staffed entries,    *)
(* unless the permits are more; hence a staffed entry that reads 1.        *)
(***************************************************************************)
LEMMA FreeEntryExists ==
  ASSUME IInv, Permits <= Staffed + Cardinality(Unserved),
         NEW c \in Cars, stage[c] = "permit"
  PROVE  \E w \in 1..Staffed : available[w] = 1
<1> SUFFICES ASSUME \A w \in 1..Staffed : available[w] = 0
             PROVE  FALSE
  BY PoolAssumption DEF IInv, TypeOK, Workers
<1> DEFINE Busy == Holding({"busy"})
           Passed == Holding(Stages \ {"out"})
           ownerOf == [w \in 1..Staffed |->
                         CHOOSE d \in Busy : worker[d] = w]
<1>1. \A w \in 1..Staffed : ownerOf[w] \in Busy /\ worker[ownerOf[w]] = w
  <2> TAKE w \in 1..Staffed
  <2>1. \E d \in Busy : worker[d] = w
    BY DEF IInv, OwnerInv
  <2> QED
    BY <2>1
<1>2. ownerOf \in Injection(1..Staffed, Busy)
  BY <1>1 DEF Injection, IsInjective
<1>3. Staffed <= Cardinality(Busy)
  <2>1. Cardinality(1..Staffed) <= Cardinality(Busy)
    BY <1>2, FS_Injection, HoldingFinite
  <2> QED
    BY <2>1, FS_Interval, PoolAssumption
<1>4. Cardinality(Busy) + Cardinality(Unserved) < Cardinality(Passed)
  <2>1. Busy \cup Unserved \in SUBSET (Passed \ {c}) /\ Busy \cap Unserved = {}
    BY DEF Holding, Stages, Unserved
  <2>2. c \in Passed
    BY DEF Holding, Stages
  <2>3. /\ IsFiniteSet(Passed \ {c})
        /\ Cardinality(Passed \ {c}) = Cardinality(Passed) - 1
    BY <2>2, FS_RemoveElement, HoldingFinite
  <2>4. Cardinality(Busy \cup Unserved) <= Cardinality(Passed \ {c})
    BY <2>1, <2>3, FS_Subset
  <2>5. Cardinality(Busy \cup Unserved)
          = Cardinality(Busy) + Cardinality(Unserved)
    BY <2>1, HoldingFinite, FS_Union, FS_EmptySet DEF Unserved
  <2> QED
    BY <2>3, <2>4, <2>5, HoldingFinite DEF Unserved
<1>5. Cardinality(Passed) <= Permits
  BY HoldingFinite, PoolAssumption DEF IInv, TypeOK, PermitsConserved
<1> HIDE DEF Busy, Passed
<1> QED
  BY <1>3, <1>4, <1>5, HoldingFinite, PoolAssumption
  DEF Busy, Passed, Unserved

-----------------------------------------------------------------------------

LEMMA InitIInv == Init => IInv
<1> SUFFICES ASSUME Init PROVE IInv
  OBVIOUS
<1>1. Holding(Stages \ {"out"}) = {} /\ Holding(Inside) = {}
      /\ Holding({"busy"}) = {} /\ Holding({"probing"}) = {}
      /\ Holding({"unserved"}) = {}
  BY DEF Init, Holding, Stages, Inside
<1>2. TypeOK
  BY PoolAssumption DEF Init, TypeOK, Stages, Workers
<1>3. PermitsConserved
  <2>1. Cardinality(Holding(Stages \ {"out"})) = 0
    BY <1>1, FS_EmptySet
  <2> QED
    BY <2>1, PoolAssumption DEF Init, PermitsConserved
<1>4. OwnerInv
  BY PoolAssumption DEF Init, OwnerInv, Workers
<1>5. MutexInv /\ Exclusive /\ AheadInv /\ OnlyExcessUnserved
  BY <1>1
  DEF Init, MutexInv, Exclusive, AheadInv, Unserved, OnlyExcessUnserved
<1>6. WorkerInv
  BY DEF Init, WorkerInv, Inside
<1> QED
  BY <1>2, <1>3, <1>4, <1>5, <1>6 DEF IInv

(* The parts of IInv about one thread's stage only: types and the permits. *)
LEMMA NextPermits ==
  ASSUME IInv, NEW c \in Cars, Step(c)
  PROVE  TypeOK' /\ PermitsConserved'
<1> DEFINE Passed == Holding(Stages \ {"out"})
<1> USE PoolAssumption DEF IInv, TypeOK
<1>0. Cardinality(Passed) \in Nat /\ sem + Cardinality(Passed) = Permits
  BY HoldingFinite DEF PermitsConserved
<1>1. CASE Wait(c)
  <2>1. Cardinality(Passed') = Cardinality(Passed) + 1
    BY <1>1, EnterHolding DEF Wait, Move, Stages
  <2>2. TypeOK'
    BY <1>1 DEF Wait, Move, Stages
  <2> QED
    BY <1>0, <1>1, <2>1, <2>2 DEF Wait, PermitsConserved
<1>2. CASE GiveUp(c) \/ Post(c)
  <2>1. /\ Cardinality(Passed') = Cardinality(Passed) - 1
        /\ Cardinality(Passed) >= 1
    BY <1>2, LeaveHolding DEF GiveUp, Post, Move, Stages
  <2>2. sem' = sem + 1 /\ sem' \in 0..Permits
    BY <1>0, <1>2, <2>1 DEF GiveUp, Post
  <2>3. TypeOK'
    BY <1>2, <2>2 DEF GiveUp, Post, Move, Stages
  <2> QED
    BY <1>0, <2>1, <2>2, <2>3 DEF PermitsConserved
<1>3. CASE Search(c) \/ MarkFree(c)
  <2>1. Passed' = Passed
    BY <1>3, KeepHolding
    DEF Search, Lock, SeeFree, SeeBusy, FindNone, Claim, MarkFree, Move,
        Stages, Holding
  <2>2. sem' = sem
    BY <1>3 DEF Search, Lock, SeeFree, SeeBusy, FindNone, Claim, MarkFree
  <2>3. TypeOK'
    <3>1. CASE SeeBusy(c)
      BY <3>1 DEF SeeBusy
    <3>2. CASE Lock(c) \/ SeeFree(c) \/ FindNone(c)
      BY <3>2 DEF Lock, SeeFree, FindNone, Move, Stages
    <3>3. CASE Claim(c) \/ MarkFree(c)
      BY <3>3 DEF Claim, MarkFree, Move, Stages
    <3> QED
      BY <1>3, <3>1, <3>2, <3>3 DEF Search
  <2> QED
    BY <1>0, <2>1, <2>2, <2>3 DEF PermitsConserved
<1> QED
  BY <1>1, <1>2, <1>3 DEF Step

(* The parts about the mutex and about who owns which entry. *)
LEMMA NextOwners ==
  ASSUME IInv, NEW c \in Cars, Step(c)
  PROVE  MutexInv' /\ WorkerInv' /\ Exclusive' /\ OwnerInv'
<1> USE PoolAssumption DEF IInv, TypeOK, Workers, Holding, Inside
<1>1. CASE Wait(c) \/ GiveUp(c) \/ Post(c)
  BY <1>1 DEF Wait, GiveUp, Post, Move,
              MutexInv, WorkerInv, Exclusive, OwnerInv
<1>2. CASE Lock(c)
  BY <1>2 DEF Lock, Move, MutexInv, WorkerInv, Exclusive, OwnerInv
<1>3. CASE SeeFree(c)
  BY <1>3 DEF SeeFree, Move, MutexInv, WorkerInv, Exclusive, OwnerInv
<1>4. CASE SeeBusy(c)
  BY <1>4 DEF SeeBusy, MutexInv, WorkerInv, Exclusive, OwnerInv
<1>5. CASE FindNone(c)
  BY <1>5 DEF FindNone, Move, MutexInv, WorkerInv, Exclusive, OwnerInv
<1>6. CASE Claim(c)
  <2>1. /\ stage[c] = "claiming" /\ available[worker[c]] = 1
        /\ worker[c] \in Workers
    BY <1>6 DEF Claim, Move, WorkerInv
  <2>2. \A d \in Holding({"busy"}) : worker[d] # worker[c]
    BY <2>1 DEF WorkerInv
  <2>3. MutexInv'
    BY <1>6 DEF Claim, Move, MutexInv
  <2>4. WorkerInv'
    BY <1>6, <2>1, <2>2 DEF Claim, Move, WorkerInv, MutexInv
  <2>5. Exclusive'
    BY <1>6, <2>2 DEF Claim, Move, Exclusive
  <2>6. OwnerInv'
    BY <1>6, <2>1 DEF Claim, Move, OwnerInv
  <2> QED
    BY <2>3, <2>4, <2>5, <2>6
<1>7. CASE MarkFree(c)
  <2>1. stage[c] = "busy" /\ worker[c] \in Workers
    BY <1>7 DEF MarkFree, Move, WorkerInv
  <2>2. \A d \in Holding({"busy"}) \ {c} : worker[d] # worker[c]
    BY <2>1 DEF Exclusive
  <2>3. MutexInv'
    BY <1>7 DEF MarkFree, Move, MutexInv
  <2>4. WorkerInv'
    BY <1>7, <2>1, <2>2 DEF MarkFree, Move, WorkerInv
  <2>5. Exclusive'
    BY <1>7 DEF MarkFree, Move, Exclusive
  <2>6. OwnerInv'
    BY <1>7, <2>1 DEF MarkFree, Move, OwnerInv
  <2> QED
    BY <2>3, <2>4, <2>5, <2>6
<1> QED
  BY <1>1, <1>2, <1>3, <1>4, <1>5, <1>6, <1>7 DEF Step, Search

(***************************************************************************)
(* A scan never has only busy entries in front of it: it starts with a     *)
(* free one somewhere (FreeEntryExists), it passes over no free entry,     *)
(* only the scanning thread writes a 0, and the unlocked writes are all    *)
(* 1s.                                                                     *)
(***************************************************************************)
LEMMA NextAhead ==
  ASSUME IInv, NEW c \in Cars, Step(c)
  PROVE  AheadInv' /\ OnlyExcessUnserved'
<1> USE PoolAssumption DEF IInv, TypeOK, Workers
<1>0. Cardinality(Unserved) \in Nat
  BY HoldingFinite DEF Unserved
<1>1. CASE GiveUp(c)
  <2>0. Unserved # {}
    BY <1>1 DEF GiveUp, Move, Unserved, Holding
  <2>1. Cardinality(Unserved') = Cardinality(Unserved) - 1
    BY <1>1, LeaveHolding DEF GiveUp, Move, Unserved
  <2>2. UNCHANGED <<available, worker, Holding({"probing"})>>
    BY <1>1 DEF GiveUp, Move, Holding
  <2>3. OnlyExcessUnserved'
    BY <1>0, <2>0, <2>1 DEF OnlyExcessUnserved
  <2>4. Permits <= Staffed + Cardinality(Unserved') =>
          Permits <= Staffed + Cardinality(Unserved)
    BY <1>0, <2>1
  <2>5. AheadInv'
    BY <2>2, <2>4 DEF AheadInv
  <2> QED
    BY <2>3, <2>5
<1>2. CASE FindNone(c)
  <2>1. Cardinality(Unserved') = Cardinality(Unserved) + 1
    BY <1>2, EnterHolding DEF FindNone, Move, Unserved
  <2>2. ~(Permits <= Staffed + Cardinality(Unserved))
    BY <1>2 DEF FindNone, Move, AheadInv, Holding
  <2>3. Holding({"probing"})' = {}
    BY <1>2 DEF FindNone, Move, MutexInv, Inside, Holding
  <2> QED
    BY <1>0, <2>1, <2>2, <2>3 DEF AheadInv, OnlyExcessUnserved
<1>3. CASE Wait(c) \/ Lock(c) \/ SeeFree(c) \/ SeeBusy(c) \/ Claim(c)
             \/ MarkFree(c) \/ Post(c)
  <2>1. UNCHANGED Unserved
    BY <1>3 DEF Wait, Lock, SeeFree, SeeBusy, Claim, MarkFree, Post, Move,
                Unserved, Holding
  <2>2. OnlyExcessUnserved'
    BY <2>1 DEF OnlyExcessUnserved
  <2>3. SUFFICES ASSUME Permits <= Staffed + Cardinality(Unserved)
                 PROVE  AheadInv'
    BY <2>1, <2>2 DEF AheadInv
  <2> USE DEF Holding
  <2>4. CASE Wait(c) \/ Post(c)
    BY <2>3, <2>4 DEF Wait, Post, Move, AheadInv
  <2>5. CASE Lock(c)
    <3>1. \E w \in 1..Staffed : available[w] = 1
      BY <2>3, <2>5, FreeEntryExists DEF Lock, Move
    <3> QED
      BY <2>5, <3>1 DEF Lock, Move, AheadInv, MutexInv, Inside
  <2>6. CASE SeeFree(c)
    BY <2>3, <2>6 DEF SeeFree, Move, AheadInv
  <2>7. CASE SeeBusy(c)
    BY <2>3, <2>7 DEF SeeBusy, AheadInv
  <2>8. CASE Claim(c)
    <3>1. \A d \in Cars : stage[d] # "probing"
      BY <2>8 DEF Claim, Move, MutexInv, Inside
    <3> QED
      BY <2>8, <3>1 DEF Claim, Move, AheadInv
  <2>9. CASE MarkFree(c)
    BY <2>3, <2>9 DEF MarkFree, Move, AheadInv, WorkerInv
  <2> QED
    BY <1>3, <2>4, <2>5, <2>6, <2>7, <2>8, <2>9
<1> QED
  BY <1>1, <1>2, <1>3 DEF Step, Search

LEMMA NextIInv == IInv /\ [Next]_vars => IInv'
<1> SUFFICES ASSUME IInv, [Next]_vars PROVE IInv'
  OBVIOUS
<1>1. CASE Next
  BY <1>1, NextPermits, NextOwners, NextAhead DEF Next, IInv
<1>2. CASE UNCHANGED vars
  BY <1>2 DEF vars, IInv, TypeOK, PermitsConserved, MutexInv, WorkerInv,
              Exclusive, OwnerInv, AheadInv, Unserved, OnlyExcessUnserved,
              Holding
<1> QED
  BY <1>1, <1>2

-----------------------------------------------------------------------------

(* The inductive invariant holds in every reachable state. *)
THEOREM PoolInvariant == Spec => []IInv
<1> QED
  BY InitIInv, NextIInv, PTL DEF Spec

(* Every variable keeps the values its C counterpart can have. *)
THEOREM PoolTypeCorrect == Spec => []TypeOK
<1>1. IInv => TypeOK
  BY DEF IInv
<1> QED
  BY <1>1, PoolInvariant, PTL

(* No permit is lost or created, on the normal and on the error path. *)
THEOREM PoolPermitsConserved == Spec => []PermitsConserved
<1>1. IInv => PermitsConserved
  BY DEF IInv
<1> QED
  BY <1>1, PoolInvariant, PTL

(* Two threads never own the same worker, whatever the three constants. *)
THEOREM PoolExclusive == Spec => []Exclusive
<1>1. IInv => Exclusive
  BY DEF IInv
<1> QED
  BY <1>1, PoolInvariant, PTL

(***************************************************************************)
(* No more threads have scanned in vain than there are permits too many,   *)
(* whatever was freed meanwhile, behind a scan or ahead of it.             *)
(***************************************************************************)
THEOREM PoolOnlyExcessUnserved == Spec => []OnlyExcessUnserved
<1>1. IInv => OnlyExcessUnserved
  BY DEF IInv
<1> QED
  BY <1>1, PoolInvariant, PTL

(***************************************************************************)
(* With no more permits than staffed entries, which is how main.c and      *)
(* threads.c set both pools up, the error branches threads.c:157 and 219   *)
(* are never taken.                                                        *)
(***************************************************************************)
THEOREM PoolNeverUnserved ==
  ASSUME Permits <= Staffed
  PROVE  Spec => []NeverUnserved
<1>1. OnlyExcessUnserved => NeverUnserved
  <2> SUFFICES ASSUME Staffed + Cardinality(Unserved) <= Permits
               PROVE  Unserved = {}
    BY DEF OnlyExcessUnserved, NeverUnserved
  <2>1. Cardinality(Unserved) = 0
    BY PoolAssumption, HoldingFinite DEF Unserved
  <2> QED
    BY <2>1, HoldingFinite, FS_EmptySet DEF Unserved
<1> QED
  BY <1>1, PoolOnlyExcessUnserved, PTL

-----------------------------------------------------------------------------

LEMMA InitSlots == Init => SlotsMatchOwners
<1> DEFINE Zeros == {w \in Workers : available[w] = 0}
<1> SUFFICES ASSUME Init PROVE SlotsMatchOwners
  OBVIOUS
<1>1. Zeros = (Staffed + 1)..Size
  BY PoolAssumption DEF Init, Workers
<1>2. Cardinality((Staffed + 1)..Size) = Size - Staffed
  BY FS_Interval, PoolAssumption
<1>3. Holding({"busy"}) = {}
  BY DEF Init, Holding
<1>4. Cardinality(Holding({"busy"})) = 0
  BY <1>3, FS_EmptySet
<1>5. Cardinality(Zeros) = Size - Staffed
  <2> HIDE DEF Zeros
  <2> QED
    BY <1>1, <1>2
<1> QED
  BY <1>4, <1>5, PoolAssumption DEF SlotsMatchOwners

LEMMA NextSlots ==
  IInv /\ SlotsMatchOwners /\ [Next]_vars => SlotsMatchOwners'
<1> DEFINE Zeros == {w \in Workers : available[w] = 0}
           Busy == Holding({"busy"})
<1> SUFFICES ASSUME IInv, SlotsMatchOwners, [Next]_vars
             PROVE  SlotsMatchOwners'
  OBVIOUS
<1> USE PoolAssumption DEF IInv, TypeOK
<1>0. /\ IsFiniteSet(Zeros) /\ Cardinality(Zeros) \in Nat
      /\ Cardinality(Busy) \in Nat
      /\ Cardinality(Zeros) = (Size - Staffed) + Cardinality(Busy)
  <2>1. Zeros \in SUBSET (1..Size) /\ IsFiniteSet(1..Size)
    BY FS_Interval DEF Workers
  <2>2. IsFiniteSet(Zeros)
    BY <2>1, FS_Subset
  <2> QED
    BY <2>2, FS_CardinalityType, HoldingFinite DEF SlotsMatchOwners
<1>1. ASSUME NEW c \in Cars, Claim(c)
      PROVE  SlotsMatchOwners'
  <2>1. worker[c] \in Workers /\ worker[c] \notin Zeros
    BY <1>1 DEF Claim, Move, WorkerInv, Inside
  <2>2. Zeros' = Zeros \cup {worker[c]}
    BY <1>1, <2>1 DEF Claim, Workers
  <2>3. Cardinality(Zeros') = Cardinality(Zeros) + 1
    BY <1>0, <2>1, <2>2, FS_AddElement
  <2>4. Cardinality(Busy') = Cardinality(Busy) + 1
    BY <1>1, EnterHolding DEF Claim, Move
  <2> QED
    BY <1>0, <2>3, <2>4 DEF SlotsMatchOwners
<1>2. ASSUME NEW c \in Cars, MarkFree(c)
      PROVE  SlotsMatchOwners'
  <2>1. worker[c] \in Workers /\ worker[c] \in Zeros
    BY <1>2 DEF MarkFree, Move, WorkerInv
  <2>2. Zeros' = Zeros \ {worker[c]}
    BY <1>2, <2>1 DEF MarkFree, Workers
  <2>3. Cardinality(Zeros') = Cardinality(Zeros) - 1
    BY <1>0, <2>1, <2>2, FS_RemoveElement
  <2>4. Cardinality(Busy') = Cardinality(Busy) - 1
    BY <1>2, LeaveHolding DEF MarkFree, Move
  <2> QED
    BY <1>0, <2>3, <2>4 DEF SlotsMatchOwners
<1>3. ASSUME NEW c \in Cars,
             Wait(c) \/ Lock(c) \/ SeeFree(c) \/ SeeBusy(c) \/ FindNone(c)
               \/ GiveUp(c) \/ Post(c)
      PROVE  SlotsMatchOwners'
  <2>1. Busy' = Busy /\ available' = available
    BY <1>3 DEF Wait, Lock, SeeFree, SeeBusy, FindNone, GiveUp, Post, Move,
                Holding
  <2> QED
    BY <2>1 DEF SlotsMatchOwners
<1>4. CASE UNCHANGED vars
  BY <1>4 DEF vars, SlotsMatchOwners, Holding
<1> QED
  BY <1>1, <1>2, <1>3, <1>4 DEF Next, Step, Search

(***************************************************************************)
(* The corrected form of the comment at threads.c:19: zeros match owners   *)
(* at every moment, although the write-back is not under the mutex.        *)
(***************************************************************************)
THEOREM PoolSlotsMatchOwners == Spec => []SlotsMatchOwners
<1> QED
  BY InitSlots, NextSlots, PoolInvariant, PTL DEF Spec

(***************************************************************************)
(* A pool nobody uses is as main.c set it up: no permit is missing, and    *)
(* the entries that read 1 are the ones that did at the start.             *)
(***************************************************************************)
IdleAsStarted ==
  (\A c \in Cars : stage[c] = "out") =>
    /\ sem = Permits
    /\ available = [w \in Workers |-> IF w <= Staffed THEN 1 ELSE 0]

LEMMA Idle == IInv /\ SlotsMatchOwners => IdleAsStarted
<1> DEFINE Zeros == {w \in Workers : available[w] = 0}
           Unstaffed == (Staffed + 1)..Size
<1> SUFFICES ASSUME IInv, SlotsMatchOwners, \A c \in Cars : stage[c] = "out"
             PROVE  /\ sem = Permits
                    /\ available = [w \in Workers |->
                                      IF w <= Staffed THEN 1 ELSE 0]
  BY DEF IdleAsStarted
<1> USE PoolAssumption DEF IInv, TypeOK
<1>1. Holding(Stages \ {"out"}) = {} /\ Holding({"busy"}) = {}
  BY DEF Holding
<1>c. /\ Cardinality(Holding(Stages \ {"out"})) = 0
      /\ Cardinality(Holding({"busy"})) = 0
  BY <1>1, FS_EmptySet
<1>2. sem = Permits
  BY <1>c DEF PermitsConserved
<1>3. Zeros \in SUBSET Unstaffed
  BY <1>1 DEF OwnerInv, Workers
<1>4. IsFiniteSet(Unstaffed) /\ Cardinality(Unstaffed) = Size - Staffed
  BY FS_Interval
<1>5. Cardinality(Zeros) = Size - Staffed
  BY <1>c DEF SlotsMatchOwners
<1>6. Zeros = Unstaffed
  <2> HIDE DEF Zeros, Unstaffed
  <2> QED
    BY <1>3, <1>4, <1>5, FS_Subset
<1>7. \A w \in Workers : available[w] = IF w <= Staffed THEN 1 ELSE 0
  BY <1>6 DEF Workers
<1> QED
  BY <1>2, <1>7

(***************************************************************************)
(* When no thread is at the pool its semaphore and its array are as at the *)
(* start, after any number of releases outside the mutex and scans that    *)
(* found nobody (threads.c:154, 191-192 and 234-235).                      *)
(***************************************************************************)
THEOREM PoolIdleAsStarted == Spec => []IdleAsStarted
BY Idle, PoolInvariant, PoolSlotsMatchOwners, PTL

-----------------------------------------------------------------------------

LEMMA StepImplements ==
  ASSUME IInv, NEW c \in Cars, Step(c)
  PROVE  [Assignment!Next]_owned
<1> USE DEF IInv, TypeOK, owned
<1>1. CASE Claim(c)
  <2>1. /\ stage[c] = "claiming" /\ worker[c] \in 1..Size
        /\ available[worker[c]] = 1
    BY <1>1 DEF Claim, Move, WorkerInv, Workers, Inside
  <2>2. \A d \in Cars : owned[d] # worker[c]
    BY <2>1 DEF WorkerInv
  <2>3. owned[c] = 0 /\ owned' = [owned EXCEPT ![c] = worker[c]]
    BY <1>1, <2>1 DEF Claim, Move
  <2>4. Assignment!Take(c)
    BY <2>1, <2>2, <2>3 DEF Assignment!Take
  <2> QED
    BY <2>4 DEF Assignment!Next
<1>2. CASE MarkFree(c)
  <2>1. owned[c] # 0
    BY <1>2 DEF MarkFree, Move, WorkerInv, Workers
  <2>2. owned' = [owned EXCEPT ![c] = 0]
    BY <1>2 DEF MarkFree, Move
  <2>3. Assignment!Return(c)
    BY <2>1, <2>2 DEF Assignment!Return
  <2> QED
    BY <2>3 DEF Assignment!Next
<1>3. CASE Wait(c) \/ GiveUp(c) \/ Post(c) \/ Lock(c) \/ SeeFree(c)
             \/ SeeBusy(c) \/ FindNone(c)
  <2>1. owned' = owned
    BY <1>3 DEF Wait, GiveUp, Post, Lock, SeeFree, SeeBusy, FindNone, Move
  <2> QED
    BY <2>1
<1> QED
  BY <1>1, <1>2, <1>3 DEF Step, Search

(***************************************************************************)
(* Semaphore, array and mutex implement the indivisible hand-out of        *)
(* distinct workers, for every number of threads, workers and permits.     *)
(***************************************************************************)
THEOREM PoolImplementsAssignment == Spec => ImplementsAssignment
<1>1. Init => Assignment!Init
  BY DEF Init, Assignment!Init, owned
<1>2. IInv /\ [Next]_vars => [Assignment!Next]_owned
  <2> SUFFICES ASSUME IInv, [Next]_vars PROVE [Assignment!Next]_owned
    OBVIOUS
  <2>1. CASE Next
    BY <2>1, StepImplements DEF Next
  <2>2. CASE UNCHANGED vars
    BY <2>2 DEF vars, owned
  <2> QED
    BY <2>1, <2>2
<1> QED
  BY <1>1, <1>2, PoolInvariant, PTL
  DEF Spec, ImplementsAssignment, Assignment!Spec

-----------------------------------------------------------------------------
(* What keeps a waiting thread waiting, and for how long *)

(* Somebody has what sem_wait or pthread_mutex_lock waits for. *)
HeldBySomeone ==
  /\ Permits > 0 /\ sem = 0 => \E c \in Cars : stage[c] # "out"
  /\ mutex # {} => \E c \in Cars : stage[c] \in Inside

(***************************************************************************)
(* Nobody waits for a permit that no thread holds, or for a mutex that no  *)
(* thread is scanning under (threads.c:144-154, 205-217).                  *)
(***************************************************************************)
THEOREM PoolHeldBySomeone == Spec => []HeldBySomeone
<1>1. ASSUME IInv, Permits > 0, sem = 0
      PROVE  \E c \in Cars : stage[c] # "out"
  <2>1. CASE Holding(Stages \ {"out"}) = {}
    <3>1. Cardinality(Holding(Stages \ {"out"})) = 0
      BY <2>1, FS_EmptySet
    <3> QED
      BY <1>1, <3>1, PoolAssumption DEF IInv, PermitsConserved
  <2>2. CASE Holding(Stages \ {"out"}) # {}
    BY <2>2 DEF Holding
  <2> QED
    BY <2>1, <2>2
<1>2. ASSUME IInv, mutex # {}
      PROVE  \E c \in Cars : stage[c] \in Inside
  BY <1>2 DEF IInv, MutexInv, Holding
<1>3. IInv => HeldBySomeone
  BY <1>1, <1>2 DEF HeldBySomeone
<1> QED
  BY <1>3, PoolInvariant, PTL

(* The guards of SeeFree, SeeBusy, FindNone and Claim *)
ScanGoesOn(c) ==
  \/ stage[c] = "probing" /\ available[worker[c]] = 1
  \/ stage[c] = "probing" /\ available[worker[c]] = 0 /\ worker[c] < Size
  \/ stage[c] = "probing" /\ available[worker[c]] = 0 /\ worker[c] = Size
  \/ stage[c] = "claiming"

(* How far a thread is with its search; Size + 2 when that is over *)
ScanRank(c) ==
  CASE stage[c] = "permit" -> 0
    [] stage[c] = "probing" -> worker[c]
    [] stage[c] = "claiming" -> Size + 1
    [] OTHER -> Size + 2

(***************************************************************************)
(* A search ends: the thread inside the mutex is never blocked, and every  *)
(* step of a search brings it nearer to its end, which is at most          *)
(* Size + 2 steps away, whatever is released behind its back               *)
(* (threads.c:145-154).                                                    *)
(***************************************************************************)
THEOREM PoolSearchAdvances ==
  Spec => /\ [](\A c \in mutex : ScanGoesOn(c))
          /\ [][\A c \in Cars : Search(c) =>
                  /\ ScanRank(c)' > ScanRank(c)
                  /\ ScanRank(c) \in 0..(Size + 2)
                  /\ ScanRank(c)' \in 0..(Size + 2)]_vars
<1> USE PoolAssumption
<1>1. ASSUME IInv, NEW c \in mutex PROVE ScanGoesOn(c)
  <2>1. /\ c \in Cars /\ stage[c] \in Inside
        /\ worker[c] \in 1..Size /\ available[worker[c]] \in {0, 1}
    BY <1>1 DEF IInv, TypeOK, MutexInv, WorkerInv, Holding, Workers
  <2>2. worker[c] < Size \/ worker[c] = Size
    BY <2>1
  <2> QED
    BY <2>1, <2>2 DEF ScanGoesOn, Inside
<1>2. ASSUME IInv, NEW c \in Cars, Search(c)
      PROVE  /\ ScanRank(c)' > ScanRank(c)
             /\ ScanRank(c) \in 0..(Size + 2)
             /\ ScanRank(c)' \in 0..(Size + 2)
  <2>1. /\ stage \in [Cars -> Stages] /\ worker \in [Cars -> 0..Size]
        /\ Size \in Nat
    BY <1>2 DEF IInv, TypeOK
  <2>2. CASE Lock(c)
    BY <2>1, <2>2 DEF Lock, Move, ScanRank
  <2>3. CASE SeeFree(c)
    BY <2>1, <2>3 DEF SeeFree, Move, ScanRank
  <2>4. CASE SeeBusy(c)
    BY <2>1, <2>4 DEF SeeBusy, ScanRank
  <2>5. CASE FindNone(c)
    BY <2>1, <2>5 DEF FindNone, Move, ScanRank
  <2>6. CASE Claim(c)
    BY <2>1, <2>6 DEF Claim, Move, ScanRank
  <2> QED
    BY <1>2, <2>2, <2>3, <2>4, <2>5, <2>6 DEF Search
<1> DEFINE Held == \A c \in mutex : ScanGoesOn(c)
           Nearer == \A c \in Cars : Search(c) =>
                       /\ ScanRank(c)' > ScanRank(c)
                       /\ ScanRank(c) \in 0..(Size + 2)
                       /\ ScanRank(c)' \in 0..(Size + 2)
<1>3. IInv => Held
  BY <1>1
<1>4. IInv /\ [Next]_vars => [Nearer]_vars
  BY <1>2
<1> QED
  BY <1>3, <1>4, PoolInvariant, PTL DEF Spec
=============================================================================
