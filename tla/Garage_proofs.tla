---------------------------- MODULE Garage_proofs ----------------------------
(***************************************************************************)
(* Theorems about Stations and about the whole program, for every number   *)
(* of vehicles, places, workers and tools.                                 *)
(*                                                                         *)
(* What holds of the two pools of workers is taken from WorkerPool_proofs: *)
(* vehicles are shown to use the pools as WorkerPool says, so its theorems *)
(* apply to both.  What holds of the program's front half is taken in the  *)
(* same way from Admission_proofs.                                         *)
(*                                                                         *)
(* That nobody is stuck is proved with the guards of the blocking calls    *)
(* (Ready, SomeoneReady), and that everybody gets on with ranks that steps *)
(* raise (Rank, CarRank, MainRank, ManagerRank).                           *)
(***************************************************************************)
EXTENDS Garage, Sequences, FiniteSetTheorems, TLAPS

-----------------------------------------------------------------------------
(* The stations *)

MechPool ==
  INSTANCE WorkerPool_proofs WITH
    Cars <- Vehicles,
    Size <- MECHANIC, Staffed <- MechanicsStaffed, Permits <- MECHANIC,
    sem <- mechanic_sem, available <- mechanic_available,
    mutex <- mechanic_mutex, stage <- mech_stage, worker <- my_mechanic

TestPool ==
  INSTANCE WorkerPool_proofs WITH
    Cars <- Vehicles,
    Size <- TESTER, Staffed <- TestersStaffed, Permits <- POLLUTION_WORKERS,
    sem <- pollution_worker_sem, available <- tester_available,
    mutex <- tester_mutex, stage <- test_stage, worker <- my_tester

-----------------------------------------------------------------------------
(* The vehicles use the pools *)

LEMMA InitPools == Init => Mech!Init /\ Test!Init
BY DEF Init

LEMMA StepPools ==
  ASSUME NEW c \in Vehicles, Arrive(c) \/ Step(c)
  PROVE  /\ Mech!Step(c) \/ UNCHANGED mechVars
         /\ Test!Step(c) \/ UNCHANGED testVars
<1>1. CASE \/ FindMechanic(c) \/ NoMechanic(c) \/ FreeMechanic(c)
  BY <1>1 DEF FindMechanic, NoMechanic, FreeMechanic, Mech!Step
<1>2. CASE \/ TakeTesterPermit(c) \/ FindTester(c) \/ NoTester(c)
           \/ MarkTesterFree(c) \/ PostTester(c)
  BY <1>2 DEF TakeTesterPermit, FindTester, NoTester, MarkTesterFree,
              PostTester, Test!Step
<1>3. CASE \/ Arrive(c) \/ TakeTablet(c) \/ TakeWrench(c)
           \/ ReturnWrench(c) \/ ReturnTablet(c) \/ JoinTransfer(c)
           \/ LeaveTransfer(c) \/ TakeBox(c) \/ ReturnBox(c)
  BY <1>3 DEF Arrive, TakeTablet, TakeWrench, ReturnWrench, ReturnTablet,
              JoinTransfer, LeaveTransfer, TakeBox, ReturnBox, pools
<1> QED
  BY <1>1, <1>2, <1>3 DEF Step

LEMMA NextPools ==
  [Next]_vars => [Mech!Next]_(Mech!vars) /\ [Test!Next]_(Test!vars)
<1> SUFFICES ASSUME [Next]_vars
             PROVE  /\ Mech!Next \/ UNCHANGED mechVars
                    /\ Test!Next \/ UNCHANGED testVars
  BY DEF mechVars, testVars, Mech!vars, Test!vars
<1>1. CASE \E c \in Vehicles : Arrive(c) \/ Step(c)
  BY <1>1, StepPools DEF Mech!Next, Test!Next
<1>2. CASE UNCHANGED vars
  BY <1>2 DEF vars, pools
<1> QED
  BY <1>1, <1>2 DEF Next, Terminated

(* Every station takes and returns a worker through WorkerPool's steps. *)
LEMMA PoolSpecs == Spec => Mech!Spec /\ Test!Spec
BY InitPools, NextPools, PTL DEF Spec, Mech!Spec, Test!Spec

-----------------------------------------------------------------------------
(* What the pools' theorems say of them *)

(* Each instance of a module has a Cardinality of its own. *)
LEMMA SameCardinality ==
  /\ \A S : MechPool!Cardinality(S) = Cardinality(S)
  /\ \A S : TestPool!Cardinality(S) = Cardinality(S)
  /\ \A S : Mech!Cardinality(S) = Cardinality(S)
  /\ \A S : Test!Cardinality(S) = Cardinality(S)
<1>1. \A S : MechPool!Cardinality(S) = Cardinality(S)
  BY DEF Cardinality, MechPool!Cardinality
<1>2. \A S : TestPool!Cardinality(S) = Cardinality(S)
  BY DEF Cardinality, TestPool!Cardinality
<1>3. \A S : Mech!Cardinality(S) = Cardinality(S)
  BY DEF Cardinality, Mech!Cardinality
<1>4. \A S : Test!Cardinality(S) = Cardinality(S)
  BY DEF Cardinality, Test!Cardinality
<1> QED
  BY <1>1, <1>2, <1>3, <1>4

(* MechPool proves about the pool what Mech says of it. *)
LEMMA MechPoolSpec == Mech!Spec => MechPool!Spec
<1>1. Mech!Init => MechPool!Init
  BY DEF Mech!Init, MechPool!Init, Mech!Workers, MechPool!Workers
<1>2. [Mech!Next]_(Mech!vars) => [MechPool!Next]_(MechPool!vars)
  BY DEF Mech!Next, Mech!Step, Mech!Wait, Mech!Search, Mech!GiveUp,
         Mech!MarkFree, Mech!Post, Mech!Lock, Mech!SeeFree, Mech!SeeBusy,
         Mech!FindNone, Mech!Claim, Mech!Move, Mech!vars,
         MechPool!Next, MechPool!Step, MechPool!Wait, MechPool!Search,
         MechPool!GiveUp, MechPool!MarkFree, MechPool!Post, MechPool!Lock,
         MechPool!SeeFree, MechPool!SeeBusy, MechPool!FindNone,
         MechPool!Claim, MechPool!Move, MechPool!vars
<1> QED
  BY <1>1, <1>2, PTL DEF Mech!Spec, MechPool!Spec

MechAsStarted ==
  (\A c \in Vehicles : mech_stage[c] = "out") =>
    /\ mechanic_sem = MECHANIC
    /\ mechanic_available =
         [w \in 1..MECHANIC |-> IF w <= MechanicsStaffed THEN 1 ELSE 0]

MechHeld ==
  /\ mechanic_sem = 0 => \E c \in Vehicles : mech_stage[c] # "out"
  /\ mechanic_mutex # {} =>
       \E c \in Vehicles : mech_stage[c] \in {"probing", "claiming"}

LEMMA MechPoolHolds ==
  Mech!Spec =>
    [](/\ Mech!TypeOK
       /\ Mech!PermitsConserved
       /\ MechAsStarted
       /\ MechHeld
       /\ Mech!OnlyExcessUnserved)
<1>1. MechPool!IsFiniteSet(Vehicles)
  BY StationsAssumption DEF MechPool!IsFiniteSet, IsFiniteSet
<1>2. /\ MECHANIC \in Nat \ {0} /\ MechanicsStaffed \in 0..MECHANIC
      /\ MECHANIC \in Nat
  BY StationsAssumption
<1>3. MechPool!Spec => []MechPool!IInv
  BY <1>1, <1>2, MechPool!PoolInvariant
<1>4. MechPool!Spec => []MechPool!IdleAsStarted
  BY <1>1, <1>2, MechPool!PoolIdleAsStarted
<1>5. MechPool!IInv => Mech!TypeOK
  BY DEF Mech!TypeOK, Mech!Workers, Mech!Stages,
         MechPool!IInv, MechPool!TypeOK, MechPool!Workers, MechPool!Stages
<1>6. MechPool!IdleAsStarted => MechAsStarted
  BY DEF MechAsStarted, MechPool!IdleAsStarted, MechPool!Workers
<1>7. MechPool!Spec => []MechPool!HeldBySomeone
  BY <1>1, <1>2, MechPool!PoolHeldBySomeone
<1>8. MechPool!HeldBySomeone => MechHeld
  BY StationsAssumption
  DEF MechHeld, MechPool!HeldBySomeone, MechPool!Inside
<1>9. MechPool!IInv => Mech!PermitsConserved
  BY SameCardinality
  DEF Mech!PermitsConserved, Mech!Holding, Mech!Stages, MechPool!IInv,
      MechPool!PermitsConserved, MechPool!Holding, MechPool!Stages
<1>10. MechPool!IInv => Mech!OnlyExcessUnserved
  BY SameCardinality
  DEF Mech!OnlyExcessUnserved, Mech!Unserved, Mech!Holding, MechPool!IInv,
      MechPool!OnlyExcessUnserved, MechPool!Unserved, MechPool!Holding
<1> QED
  BY <1>3, <1>4, <1>5, <1>6, <1>7, <1>8, <1>9, <1>10, MechPoolSpec, PTL

(* TestPool proves about the pool what Test says of it. *)
LEMMA TestPoolSpec == Test!Spec => TestPool!Spec
<1>1. Test!Init => TestPool!Init
  BY DEF Test!Init, TestPool!Init, Test!Workers, TestPool!Workers
<1>2. [Test!Next]_(Test!vars) => [TestPool!Next]_(TestPool!vars)
  BY DEF Test!Next, Test!Step, Test!Wait, Test!Search, Test!GiveUp,
         Test!MarkFree, Test!Post, Test!Lock, Test!SeeFree, Test!SeeBusy,
         Test!FindNone, Test!Claim, Test!Move, Test!vars,
         TestPool!Next, TestPool!Step, TestPool!Wait, TestPool!Search,
         TestPool!GiveUp, TestPool!MarkFree, TestPool!Post, TestPool!Lock,
         TestPool!SeeFree, TestPool!SeeBusy, TestPool!FindNone,
         TestPool!Claim, TestPool!Move, TestPool!vars
<1> QED
  BY <1>1, <1>2, PTL DEF Test!Spec, TestPool!Spec

TestAsStarted ==
  (\A c \in Vehicles : test_stage[c] = "out") =>
    /\ pollution_worker_sem = POLLUTION_WORKERS
    /\ tester_available =
         [w \in 1..TESTER |-> IF w <= TestersStaffed THEN 1 ELSE 0]

TestHeld ==
  /\ pollution_worker_sem = 0 => \E c \in Vehicles : test_stage[c] # "out"
  /\ tester_mutex # {} =>
       \E c \in Vehicles : test_stage[c] \in {"probing", "claiming"}

LEMMA TestPoolHolds ==
  Test!Spec =>
    [](/\ Test!TypeOK
       /\ Test!PermitsConserved
       /\ TestAsStarted
       /\ TestHeld
       /\ Test!OnlyExcessUnserved)
<1>1. TestPool!IsFiniteSet(Vehicles)
  BY StationsAssumption DEF TestPool!IsFiniteSet, IsFiniteSet
<1>2. /\ TESTER \in Nat \ {0} /\ TestersStaffed \in 0..TESTER
      /\ POLLUTION_WORKERS \in Nat
  BY StationsAssumption
<1>3. TestPool!Spec => []TestPool!IInv
  BY <1>1, <1>2, TestPool!PoolInvariant
<1>4. TestPool!Spec => []TestPool!IdleAsStarted
  BY <1>1, <1>2, TestPool!PoolIdleAsStarted
<1>5. TestPool!IInv => Test!TypeOK
  BY DEF Test!TypeOK, Test!Workers, Test!Stages,
         TestPool!IInv, TestPool!TypeOK, TestPool!Workers, TestPool!Stages
<1>6. TestPool!IdleAsStarted => TestAsStarted
  BY DEF TestAsStarted, TestPool!IdleAsStarted, TestPool!Workers
<1>7. TestPool!Spec => []TestPool!HeldBySomeone
  BY <1>1, <1>2, TestPool!PoolHeldBySomeone
<1>8. TestPool!HeldBySomeone => TestHeld
  BY StationsAssumption
  DEF TestHeld, TestPool!HeldBySomeone, TestPool!Inside
<1>9. TestPool!IInv => Test!PermitsConserved
  BY SameCardinality
  DEF Test!PermitsConserved, Test!Holding, Test!Stages, TestPool!IInv,
      TestPool!PermitsConserved, TestPool!Holding, TestPool!Stages
<1>10. TestPool!IInv => Test!OnlyExcessUnserved
  BY SameCardinality
  DEF Test!OnlyExcessUnserved, Test!Unserved, Test!Holding, TestPool!IInv,
      TestPool!OnlyExcessUnserved, TestPool!Unserved, TestPool!Holding
<1> QED
  BY <1>3, <1>4, <1>5, <1>6, <1>7, <1>8, <1>9, <1>10, TestPoolSpec, PTL

(* All that is used of them from here on. *)
PoolsInv ==
  /\ Mech!TypeOK /\ MechAsStarted /\ MechHeld /\ Mech!PermitsConserved
  /\ Test!TypeOK /\ TestAsStarted /\ TestHeld /\ Test!PermitsConserved

LEMMA PoolsHold == Spec => []PoolsInv
BY PoolSpecs, MechPoolHolds, TestPoolHolds, PTL DEF PoolsInv

(***************************************************************************)
(* No more vehicles are on an error path of a pool (threads.c:156 and 219) *)
(* than its semaphore has permits too many, whatever the order in which    *)
(* workers are freed, semaphores posted and arrays scanned.                *)
(***************************************************************************)
THEOREM StationsOnlyExcessUnserved == Spec => []OnlyExcessUnserved
<1>1. Mech!OnlyExcessUnserved /\ Test!OnlyExcessUnserved => OnlyExcessUnserved
  BY DEF OnlyExcessUnserved
<1> QED
  BY <1>1, PoolSpecs, MechPoolHolds, TestPoolHolds, PTL

(***************************************************************************)
(* Where the source has as many 1s in an initialiser as permits in the     *)
(* semaphore, no vehicle takes the error path of that pool                 *)
(* (threads.c:156 and 219), whatever the order in which workers are freed. *)
(***************************************************************************)
THEOREM StationsNoErrorPath == Spec => []NoErrorPath
<1> USE StationsAssumption
<1>1. ASSUME Mech!OnlyExcessUnserved, MECHANIC <= MechanicsStaffed
      PROVE  Mech!NeverUnserved
  <2>1. /\ IsFiniteSet(Mech!Unserved)
        /\ Cardinality(Mech!Unserved) \in Nat
    BY FS_Subset, FS_CardinalityType DEF Mech!Unserved, Mech!Holding
  <2>2. Mech!Unserved # {} => Cardinality(Mech!Unserved) = 0
    BY <1>1, <2>1, SameCardinality DEF Mech!OnlyExcessUnserved
  <2> QED
    BY <2>1, <2>2, FS_EmptySet DEF Mech!NeverUnserved
<1>2. ASSUME Test!OnlyExcessUnserved, POLLUTION_WORKERS <= TestersStaffed
      PROVE  Test!NeverUnserved
  <2>1. /\ IsFiniteSet(Test!Unserved)
        /\ Cardinality(Test!Unserved) \in Nat
    BY FS_Subset, FS_CardinalityType DEF Test!Unserved, Test!Holding
  <2>2. Test!Unserved # {} => Cardinality(Test!Unserved) = 0
    BY <1>2, <2>1, SameCardinality DEF Test!OnlyExcessUnserved
  <2> QED
    BY <2>1, <2>2, FS_EmptySet DEF Test!NeverUnserved
<1>3. OnlyExcessUnserved => NoErrorPath
  BY <1>1, <1>2 DEF OnlyExcessUnserved, NoErrorPath
<1> QED
  BY <1>3, StationsOnlyExcessUnserved, PTL

-----------------------------------------------------------------------------
(* Which workers a vehicle has where *)

(***************************************************************************)
(* OneStationAtATime is not inductive: that a vehicle which joins the      *)
(* transfer queue still has its mechanic follows from where it comes from. *)
(* Aligned says for every place how far the vehicle is with either pool.   *)
(***************************************************************************)
Aligned(c) ==
  /\ at[c] \in {"outside", "cashier", "paying", "gone"} =>
       mech_stage[c] = "out" /\ test_stage[c] = "out"
  /\ at[c] = "bay" => mech_stage[c] # "freed" /\ test_stage[c] = "out"
  /\ at[c] \in {"tablet", "working", "wrench_back", "repaired"} =>
       mech_stage[c] = "busy" /\ test_stage[c] = "out"
  /\ at[c] = "transfer" =>
       mech_stage[c] \in {"busy", "freed", "out"} /\ test_stage[c] = "out"
  /\ at[c] = "assigned" => mech_stage[c] = "out" /\ test_stage[c] = "permit"
  /\ at[c] = "emissions" => mech_stage[c] = "out" /\ test_stage[c] # "out"

PlaceInv ==
  /\ at \in [Vehicles -> Places]
  /\ \A c \in Vehicles : Aligned(c)

LEMMA InitPlace == Init => PlaceInv
BY DEF Init, PlaceInv, Places, Aligned, Mech!Init, Test!Init

LEMMA StageTypes ==
  ASSUME PoolsInv
  PROVE  /\ mech_stage \in [Vehicles -> Mech!Stages]
         /\ test_stage \in [Vehicles -> Test!Stages]
BY DEF PoolsInv, Mech!TypeOK, Test!TypeOK

LEMMA StepPlace ==
  ASSUME PoolsInv, PlaceInv, NEW c \in Vehicles, Arrive(c) \/ Step(c)
  PROVE  PlaceInv'
<1> USE StageTypes DEF PlaceInv, Aligned, Places, Move
<1>1. CASE \/ Arrive(c) \/ TakeTablet(c) \/ TakeWrench(c)
           \/ ReturnWrench(c) \/ ReturnTablet(c) \/ JoinTransfer(c)
  BY <1>1 DEF Arrive, TakeTablet, TakeWrench, ReturnWrench, ReturnTablet,
              JoinTransfer, pools, mechVars, testVars
<1>2. CASE LeaveTransfer(c) \/ TakeBox(c) \/ ReturnBox(c)
  BY <1>2 DEF LeaveTransfer, TakeBox, ReturnBox, pools, mechVars, testVars
<1>3. CASE FindMechanic(c)
  BY <1>3 DEF FindMechanic, testVars, Mech!Wait, Mech!Search, Mech!Lock,
              Mech!SeeFree, Mech!SeeBusy, Mech!FindNone, Mech!Claim, Mech!Move
<1>4. CASE NoMechanic(c)
  BY <1>4 DEF NoMechanic, testVars, Mech!GiveUp, Mech!Move
<1>5. CASE FreeMechanic(c)
  BY <1>5 DEF FreeMechanic, testVars, Mech!MarkFree, Mech!Post, Mech!Move
<1>6. CASE TakeTesterPermit(c)
  BY <1>6 DEF TakeTesterPermit, MechanicFreed, mechVars, Test!Wait, Test!Move
<1>7. CASE FindTester(c)
  BY <1>7 DEF FindTester, mechVars, Test!Search, Test!Lock, Test!SeeFree,
              Test!SeeBusy, Test!FindNone, Test!Claim, Test!Move
<1>8. CASE NoTester(c) \/ MarkTesterFree(c) \/ PostTester(c)
  BY <1>8 DEF NoTester, MarkTesterFree, PostTester, mechVars, Test!GiveUp,
              Test!MarkFree, Test!Post, Test!Move
<1> QED
  BY <1>1, <1>2, <1>3, <1>4, <1>5, <1>6, <1>7, <1>8 DEF Step

LEMMA NextPlace == PoolsInv /\ PlaceInv /\ [Next]_vars => PlaceInv'
<1> SUFFICES ASSUME PoolsInv, PlaceInv, [Next]_vars PROVE PlaceInv'
  OBVIOUS
<1>1. CASE \E c \in Vehicles : Arrive(c) \/ Step(c)
  BY <1>1, StepPlace
<1>2. CASE UNCHANGED vars
  BY <1>2 DEF vars, pools, mechVars, testVars, PlaceInv, Aligned
<1> QED
  BY <1>1, <1>2 DEF Next, Terminated

LEMMA PlacesHold == Spec => []PlaceInv
BY InitPlace, NextPlace, PoolsHold, PTL DEF Spec

(***************************************************************************)
(* From its first tool to its test a vehicle always occupies a mechanic, a *)
(* place in the transfer queue or a tester, and never keeps a mechanic and *)
(* a tester at once (threads.c:187 "Mechanic is freed only after securing  *)
(* the slot").                                                             *)
(***************************************************************************)
THEOREM StationsOneAtATime == Spec => []OneStationAtATime
<1>1. PlaceInv => OneStationAtATime
  BY DEF PlaceInv, Aligned, Places, OneStationAtATime
<1> QED
  BY <1>1, PlacesHold, PTL

-----------------------------------------------------------------------------
(* Tools, places in the transfer queue and the payment box *)

Delta(S, from, to) ==
  (IF to \in S THEN 1 ELSE 0) - (IF from \in S THEN 1 ELSE 0)

LEMMA AtFinite ==
  ASSUME NEW S
  PROVE  IsFiniteSet(At(S)) /\ Cardinality(At(S)) \in Nat
<1>1. At(S) \in SUBSET Vehicles
  BY DEF At
<1> QED
  BY <1>1, FS_Subset, FS_CardinalityType, StationsAssumption

(* A vehicle that moves leaves one place and enters the other. *)
LEMMA MoveCounts ==
  ASSUME NEW S, at \in [Vehicles -> Places],
         NEW c \in Vehicles, NEW from, NEW to, Move(c, from, to)
  PROVE  Cardinality(At(S))' = Cardinality(At(S)) + Delta(S, from, to)
<1> DEFINE Others == {d \in Vehicles \ {c} : at[d] \in S}
<1>1. IsFiniteSet(Others) /\ Cardinality(Others) \in Nat
  <2>1. Others \in SUBSET Vehicles
    OBVIOUS
  <2> QED
    BY <2>1, FS_Subset, FS_CardinalityType, StationsAssumption
<1>2. Cardinality(Others \cup {c}) = Cardinality(Others) + 1
  BY <1>1, FS_AddElement
<1>3. At(S) = IF from \in S THEN Others \cup {c} ELSE Others
  BY DEF At, Move
<1>4. At(S)' = IF to \in S THEN Others \cup {c} ELSE Others
  BY DEF At, Move
<1>5. Cardinality(At(S))
        = Cardinality(Others) + (IF from \in S THEN 1 ELSE 0)
  BY <1>1, <1>2, <1>3
<1>6. Cardinality(At(S)')
        = Cardinality(Others) + (IF to \in S THEN 1 ELSE 0)
  BY <1>1, <1>2, <1>4
<1> QED
  BY <1>1, <1>5, <1>6 DEF Delta

(* Who holds a unit of which semaphore *)
WithTablet == {"tablet", "working", "wrench_back"}
InTransfer == {"transfer", "assigned"}

Accounts ==
  /\ diagnostic_sem \in Nat /\ torque_sem \in Nat
  /\ pollution_queue_sem \in Nat /\ payment_box \in Nat
  /\ diagnostic_sem + Cardinality(At(WithTablet)) = DIAGNOSTIC_TABLETS
  /\ torque_sem + Cardinality(At({"working"})) = TORQUE_WRENCH
  /\ pollution_queue_sem + Cardinality(At(InTransfer)) = POLLUTION_QUEUE
  /\ payment_box + Cardinality(At({"paying"})) = PAYMENT_BOX

LEMMA InitAccounts == Init => Accounts
<1> SUFFICES ASSUME Init PROVE Accounts
  OBVIOUS
<1>1. /\ At(WithTablet) = {} /\ At({"working"}) = {}
      /\ At(InTransfer) = {} /\ At({"paying"}) = {}
  BY DEF Init, At, WithTablet, InTransfer
<1> QED
  BY <1>1, FS_EmptySet, StationsAssumption DEF Init, Accounts

LEMMA StepAccounts ==
  ASSUME PlaceInv, Accounts, NEW c \in Vehicles, Arrive(c) \/ Step(c)
  PROVE  Accounts'
<1> DEFINE tablets == Cardinality(At(WithTablet))
           wrenches == Cardinality(At({"working"}))
           places == Cardinality(At(InTransfer))
           boxes == Cardinality(At({"paying"}))
<1>1. /\ tablets \in Nat /\ wrenches \in Nat
      /\ places \in Nat /\ boxes \in Nat
  BY AtFinite
<1>2. ASSUME NEW from, NEW to, Move(c, from, to)
      PROVE  /\ tablets' = tablets + Delta(WithTablet, from, to)
             /\ wrenches' = wrenches + Delta({"working"}, from, to)
             /\ places' = places + Delta(InTransfer, from, to)
             /\ boxes' = boxes + Delta({"paying"}, from, to)
  BY <1>2, MoveCounts DEF PlaceInv
<1>3. /\ diagnostic_sem \in Nat /\ torque_sem \in Nat
      /\ pollution_queue_sem \in Nat /\ payment_box \in Nat
      /\ diagnostic_sem + tablets = DIAGNOSTIC_TABLETS
      /\ torque_sem + wrenches = TORQUE_WRENCH
      /\ pollution_queue_sem + places = POLLUTION_QUEUE
      /\ payment_box + boxes = PAYMENT_BOX
  BY DEF Accounts
<1> SUFFICES /\ diagnostic_sem' \in Nat /\ torque_sem' \in Nat
             /\ pollution_queue_sem' \in Nat /\ payment_box' \in Nat
             /\ diagnostic_sem' + tablets' = DIAGNOSTIC_TABLETS
             /\ torque_sem' + wrenches' = TORQUE_WRENCH
             /\ pollution_queue_sem' + places' = POLLUTION_QUEUE
             /\ payment_box' + boxes' = PAYMENT_BOX
  BY DEF Accounts
<1> HIDE DEF tablets, wrenches, places, boxes
<1> USE <1>1, <1>3 DEF Delta, WithTablet, InTransfer, Take, Give
<1>4. CASE Arrive(c)
  BY <1>4, <1>2 DEF Arrive, sems
<1>5. CASE FindMechanic(c) \/ FreeMechanic(c)
  BY <1>5 DEF FindMechanic, FreeMechanic, sems, tablets, wrenches, places,
              boxes, At
<1>6. CASE NoMechanic(c)
  BY <1>6, <1>2 DEF NoMechanic, sems
<1>7. CASE TakeTablet(c)
  <2>1. Move(c, "bay", "tablet")
    BY <1>7 DEF TakeTablet
  <2>2. /\ tablets' = tablets + 1 /\ wrenches' = wrenches
        /\ places' = places /\ boxes' = boxes
    BY <2>1, <1>2
  <2> QED
    BY <1>7, <2>2 DEF TakeTablet
<1>8. CASE TakeWrench(c)
  <2>1. Move(c, "tablet", "working")
    BY <1>8 DEF TakeWrench
  <2>2. /\ tablets' = tablets /\ wrenches' = wrenches + 1
        /\ places' = places /\ boxes' = boxes
    BY <2>1, <1>2
  <2> QED
    BY <1>8, <2>2 DEF TakeWrench
<1>9. CASE ReturnWrench(c)
  <2>1. Move(c, "working", "wrench_back")
    BY <1>9 DEF ReturnWrench
  <2>2. /\ tablets' = tablets /\ wrenches' = wrenches - 1
        /\ places' = places /\ boxes' = boxes
    BY <2>1, <1>2
  <2> QED
    BY <1>9, <2>2 DEF ReturnWrench
<1>10. CASE ReturnTablet(c)
  <2>1. Move(c, "wrench_back", "repaired")
    BY <1>10 DEF ReturnTablet
  <2>2. /\ tablets' = tablets - 1 /\ wrenches' = wrenches
        /\ places' = places /\ boxes' = boxes
    BY <2>1, <1>2
  <2> QED
    BY <1>10, <2>2 DEF ReturnTablet
<1>11. CASE JoinTransfer(c)
  BY <1>11, <1>2 DEF JoinTransfer
<1>12. CASE TakeTesterPermit(c)
  BY <1>12, <1>2 DEF TakeTesterPermit, sems
<1>13. CASE LeaveTransfer(c)
  BY <1>13, <1>2 DEF LeaveTransfer
<1>14. CASE FindTester(c) \/ MarkTesterFree(c)
  BY <1>14 DEF FindTester, MarkTesterFree, sems, tablets, wrenches, places,
               boxes, At
<1>15. CASE NoTester(c)
  BY <1>15, <1>2 DEF NoTester, sems
<1>16. CASE PostTester(c)
  BY <1>16, <1>2 DEF PostTester, sems
<1>17. CASE TakeBox(c)
  BY <1>17, <1>2 DEF TakeBox
<1>18. CASE ReturnBox(c)
  BY <1>18, <1>2 DEF ReturnBox
<1> QED
  BY <1>4, <1>5, <1>6, <1>7, <1>8, <1>9, <1>10, <1>11, <1>12, <1>13, <1>14,
     <1>15, <1>16, <1>17, <1>18 DEF Step

LEMMA NextAccounts == PlaceInv /\ Accounts /\ [Next]_vars => Accounts'
<1> SUFFICES ASSUME PlaceInv, Accounts, [Next]_vars PROVE Accounts'
  OBVIOUS
<1>1. CASE \E c \in Vehicles : Arrive(c) \/ Step(c)
  BY <1>1, StepAccounts
<1>2. CASE UNCHANGED vars
  BY <1>2 DEF vars, sems, Accounts, At
<1> QED
  BY <1>1, <1>2 DEF Next, Terminated

LEMMA AccountsHold == Spec => []Accounts
BY InitAccounts, NextAccounts, PlacesHold, PTL DEF Spec

(***************************************************************************)
(* A tool, a place in the transfer queue or the payment box is never lost, *)
(* and never given back by a vehicle that does not have it: every          *)
(* sem_wait of car_thread has its sem_post on every way out.               *)
(***************************************************************************)
THEOREM StationsResources == Spec => []ResourcesConserved
<1>1. ASSUME PlaceInv, Accounts, PoolsInv
      PROVE  ResourcesConserved
  <2>1. ASSUME NEW S PROVE Cardinality(At(S)) \in Nat
    BY AtFinite
  <2>2. /\ diagnostic_sem \in 0..DIAGNOSTIC_TABLETS
        /\ torque_sem \in 0..TORQUE_WRENCH
        /\ pollution_queue_sem \in 0..POLLUTION_QUEUE
        /\ payment_box \in 0..PAYMENT_BOX
    BY <1>1, <2>1, StationsAssumption DEF Accounts
  <2> QED
    BY <1>1, <2>2 DEF PlaceInv, Accounts, PoolsInv, TypeOK,
                      ResourcesConserved, WithTablet, InTransfer
<1> QED
  BY <1>1, PlacesHold, AccountsHold, PoolsHold, PTL

(***************************************************************************)
(* When no vehicle is in the stations, every semaphore and both arrays are *)
(* as at the start, however many vehicles left through an error path       *)
(* (threads.c:119 "On error (missing worker slot), releases all held       *)
(* resources").                                                            *)
(***************************************************************************)
THEOREM StationsReturnEverything == Spec => []EverythingReturned
<1>1. ASSUME PlaceInv, Accounts, PoolsInv
      PROVE  EverythingReturned
  <2> SUFFICES ASSUME At({"outside", "gone"}) = Vehicles
               PROVE  EverythingReturned
    BY DEF EverythingReturned
  <2>1. \A c \in Vehicles : at[c] \in {"outside", "gone"}
    BY DEF At
  <2>2. \A c \in Vehicles : mech_stage[c] = "out" /\ test_stage[c] = "out"
    BY <1>1, <2>1 DEF PlaceInv, Aligned
  <2>3. /\ At(WithTablet) = {} /\ At({"working"}) = {}
        /\ At(InTransfer) = {} /\ At({"paying"}) = {}
    BY <2>1 DEF At, WithTablet, InTransfer
  <2>4. /\ Cardinality(At(WithTablet)) = 0 /\ Cardinality(At({"working"})) = 0
        /\ Cardinality(At(InTransfer)) = 0 /\ Cardinality(At({"paying"})) = 0
    BY <2>3, FS_EmptySet
  <2>5. /\ diagnostic_sem = DIAGNOSTIC_TABLETS /\ torque_sem = TORQUE_WRENCH
        /\ pollution_queue_sem = POLLUTION_QUEUE /\ payment_box = PAYMENT_BOX
    BY <1>1, <2>4, StationsAssumption DEF Accounts
  <2> QED
    BY <1>1, <2>2, <2>5
    DEF PoolsInv, MechAsStarted, TestAsStarted, EverythingReturned, sems
<1> QED
  BY <1>1, PlacesHold, AccountsHold, PoolsHold, PTL

-----------------------------------------------------------------------------
(* The vehicles are never stuck *)

(***************************************************************************)
(* A vehicle waits only for vehicles that are further on: the last places  *)
(* are left without waiting, and if all vehicles in a place are blocked    *)
(* then some vehicle is in a later one.  So there are none in the last     *)
(* place, none in the one before it, and so on to the bay.                 *)
(***************************************************************************)
StationsInv == PlaceInv /\ Accounts /\ PoolsInv

LEMMA StationsInvHolds == Spec => []StationsInv
BY PlacesHold, AccountsHold, PoolsHold, PTL DEF StationsInv

NoneReady == \A c \in Vehicles : ~Ready(c)

NobodyAt(S) == \A c \in Vehicles : at[c] \notin S

(* Where a semaphore is at zero, somebody has taken a unit of it. *)
LEMMA SomebodyAt ==
  ASSUME NEW S, Cardinality(At(S)) # 0
  PROVE  ~NobodyAt(S)
<1>1. At(S) # {}
  BY FS_EmptySet
<1> QED
  BY <1>1 DEF At, NobodyAt

LEMMA NobodyDone ==
  ASSUME StationsInv, NoneReady
  PROVE  NobodyAt({"cashier", "paying", "assigned", "working", "wrench_back"})
<1>1. NobodyAt({"paying", "assigned", "working", "wrench_back"})
  BY DEF NoneReady, NobodyAt, Ready
<1>2. ASSUME NEW c \in Vehicles, at[c] = "cashier" PROVE FALSE
  <2>1. payment_box = 0
    BY <1>2 DEF NoneReady, Ready, StationsInv, Accounts
  <2>2. Cardinality(At({"paying"})) # 0
    BY <2>1, AtFinite, StationsAssumption DEF StationsInv, Accounts
  <2> QED
    BY <1>1, <2>2, SomebodyAt DEF NobodyAt
<1> QED
  BY <1>1, <1>2 DEF NobodyAt

LEMMA NobodyTested ==
  ASSUME StationsInv, NoneReady
  PROVE  NobodyAt({"transfer", "assigned", "emissions"})
<1> USE DEF StationsInv, PlaceInv, Aligned, PoolsInv
<1>1. ASSUME NEW c \in Vehicles, at[c] = "emissions" PROVE FALSE
  <2>1. tester_mutex # {}
    BY <1>1 DEF NoneReady, Ready
  <2>2. PICK d \in Vehicles : test_stage[d] \in {"probing", "claiming"}
    BY <2>1 DEF TestHeld
  <2>3. at[d] = "emissions"
    BY <2>2 DEF Places
  <2> QED
    BY <2>2, <2>3 DEF NoneReady, Ready
<1>2. NobodyAt({"assigned"})
  BY NobodyDone DEF NobodyAt
<1>3. ASSUME NEW c \in Vehicles, at[c] = "transfer" PROVE FALSE
  <2>1. pollution_worker_sem = 0
    BY <1>3 DEF NoneReady, Ready, Test!TypeOK
  <2>2. PICK d \in Vehicles : test_stage[d] # "out"
    BY <2>1 DEF TestHeld
  <2>3. at[d] \in {"assigned", "emissions"}
    BY <2>2 DEF Places
  <2> QED
    BY <1>1, <1>2, <2>3 DEF NobodyAt
<1> QED
  BY <1>1, <1>2, <1>3 DEF NobodyAt

LEMMA NobodyRepaired ==
  ASSUME StationsInv, NoneReady
  PROVE  NobodyAt({"tablet", "working", "wrench_back", "repaired"})
<1>1. NobodyAt({"working", "wrench_back"}) /\ NobodyAt(InTransfer)
  BY NobodyDone, NobodyTested DEF NobodyAt, InTransfer
<1>2. ASSUME NEW c \in Vehicles, at[c] = "repaired" PROVE FALSE
  <2>1. pollution_queue_sem = 0
    BY <1>2 DEF NoneReady, Ready, StationsInv, Accounts
  <2>2. Cardinality(At(InTransfer)) # 0
    BY <2>1, AtFinite, StationsAssumption DEF StationsInv, Accounts
  <2> QED
    BY <1>1, <2>2, SomebodyAt
<1>3. ASSUME NEW c \in Vehicles, at[c] = "tablet" PROVE FALSE
  <2>1. torque_sem = 0
    BY <1>3 DEF NoneReady, Ready, StationsInv, Accounts
  <2>2. Cardinality(At({"working"})) # 0
    BY <2>1, AtFinite, StationsAssumption DEF StationsInv, Accounts
  <2> QED
    BY <1>1, <2>2, SomebodyAt DEF NobodyAt
<1> QED
  BY <1>1, <1>2, <1>3 DEF NobodyAt

LEMMA NobodyInBay ==
  ASSUME StationsInv, NoneReady
  PROVE  NobodyAt({"bay"})
<1> USE DEF StationsInv, PlaceInv, Aligned, PoolsInv
<1>1. ASSUME NEW c \in Vehicles, at[c] = "bay", mech_stage[c] = "busy"
      PROVE  FALSE
  <2>1. diagnostic_sem = 0
    BY <1>1 DEF NoneReady, Ready, Accounts
  <2>2. Cardinality(At(WithTablet)) # 0
    BY <2>1, AtFinite, StationsAssumption DEF Accounts
  <2> QED
    BY <2>2, SomebodyAt, NobodyRepaired DEF NobodyAt, WithTablet
<1>2. ASSUME NEW c \in Vehicles, at[c] = "bay", mech_stage[c] = "permit"
      PROVE  FALSE
  <2>1. mechanic_mutex # {}
    BY <1>2 DEF NoneReady, Ready
  <2>2. PICK d \in Vehicles : mech_stage[d] \in {"probing", "claiming"}
    BY <2>1 DEF MechHeld
  <2>3. at[d] = "bay"
    BY <2>2 DEF Places
  <2> QED
    BY <2>2, <2>3 DEF NoneReady, Ready
<1>3. ASSUME NEW c \in Vehicles, at[c] = "bay" PROVE mech_stage[c] = "out"
  BY <1>1, <1>2, <1>3 DEF NoneReady, Ready
<1>4. ASSUME NEW c \in Vehicles, at[c] = "bay" PROVE FALSE
  <2>1. mechanic_sem = 0
    BY <1>3, <1>4 DEF NoneReady, Ready, Mech!TypeOK
  <2>2. PICK d \in Vehicles : mech_stage[d] # "out"
    BY <2>1 DEF MechHeld
  <2>3. at[d] \in {"bay", "tablet", "working", "wrench_back", "repaired",
                   "transfer"}
    BY <2>2 DEF Places
  <2> QED
    BY <1>3, <2>2, <2>3, NobodyRepaired, NobodyTested DEF NobodyAt
<1> QED
  BY <1>4 DEF NobodyAt

LEMMA SomeVehicleReady == StationsInv => VehiclesNeverStuck
<1> SUFFICES ASSUME StationsInv, NoneReady
             PROVE  At({"outside", "gone"}) = Vehicles
  BY DEF VehiclesNeverStuck, NoneReady
<1>1. \A c \in Vehicles : at[c] \in {"outside", "gone"}
  BY NobodyDone, NobodyTested, NobodyRepaired, NobodyInBay
  DEF NobodyAt, StationsInv, PlaceInv, Places
<1> QED
  BY <1>1 DEF At

(***************************************************************************)
(* car_thread cannot deadlock with itself: while vehicles are in the       *)
(* stations one of them can go on, for every number of vehicles, workers,  *)
(* tools and places, fewer testers than permits (threads.c:219) included.  *)
(* It rests on every limit being at least 1.                               *)
(***************************************************************************)
THEOREM StationsNeverStuck == Spec => []VehiclesNeverStuck
BY SomeVehicleReady, StationsInvHolds, PTL

-----------------------------------------------------------------------------
(* The vehicles get on *)

(* How far a vehicle is with the search for a mechanic, and for a tester *)
MechRank(c) ==
  CASE mech_stage[c] = "out" -> 0
    [] mech_stage[c] = "permit" -> 1
    [] mech_stage[c] = "probing" -> 1 + my_mechanic[c]
    [] mech_stage[c] \in {"claiming", "unserved"} -> MECHANIC + 2
    [] OTHER -> MECHANIC + 3

TestRank(c) ==
  CASE test_stage[c] = "permit" -> 0
    [] test_stage[c] = "probing" -> my_tester[c]
    [] test_stage[c] \in {"claiming", "unserved"} -> TESTER + 1
    [] test_stage[c] = "busy" -> TESTER + 2
    [] OTHER -> TESTER + 3

ReleaseRank(c) ==
  CASE mech_stage[c] = "busy" -> 9
    [] mech_stage[c] = "freed" -> 10
    [] OTHER -> 11

(* How far it has come in the stations *)
Rank(c) ==
  CASE at[c] = "outside" -> 0
    [] at[c] = "bay" -> 1 + MechRank(c)
    [] at[c] = "tablet" -> MECHANIC + 5
    [] at[c] = "working" -> MECHANIC + 6
    [] at[c] = "wrench_back" -> MECHANIC + 7
    [] at[c] = "repaired" -> MECHANIC + 8
    [] at[c] = "transfer" -> MECHANIC + ReleaseRank(c)
    [] at[c] = "assigned" -> MECHANIC + 12
    [] at[c] = "emissions" -> MECHANIC + 13 + TestRank(c)
    [] at[c] = "cashier" -> MECHANIC + TESTER + 17
    [] at[c] = "paying" -> MECHANIC + TESTER + 18
    [] OTHER -> MECHANIC + TESTER + 19

LEMMA RankTypes ==
  ASSUME StationsInv, NEW c \in Vehicles
  PROVE  /\ MECHANIC \in Nat \ {0} /\ TESTER \in Nat \ {0}
         /\ at[c] \in Places
         /\ mech_stage[c] \in Mech!Stages /\ test_stage[c] \in Test!Stages
         /\ my_mechanic[c] \in 0..MECHANIC /\ my_tester[c] \in 0..TESTER
         /\ MechRank(c) \in 0..(MECHANIC + 3)
         /\ TestRank(c) \in 0..(TESTER + 3)
         /\ ReleaseRank(c) \in 9..11
<1>1. /\ MECHANIC \in Nat \ {0} /\ TESTER \in Nat \ {0}
      /\ at[c] \in Places
      /\ mech_stage[c] \in Mech!Stages /\ test_stage[c] \in Test!Stages
      /\ my_mechanic[c] \in 0..MECHANIC /\ my_tester[c] \in 0..TESTER
  BY StationsAssumption
  DEF StationsInv, PlaceInv, PoolsInv, Mech!TypeOK, Test!TypeOK
<1>2. MechRank(c) \in 0..(MECHANIC + 3)
  BY <1>1 DEF MechRank
<1>3. TestRank(c) \in 0..(TESTER + 3)
  BY <1>1 DEF TestRank
<1>4. ReleaseRank(c) \in 9..11
  BY DEF ReleaseRank
<1> QED
  BY <1>1, <1>2, <1>3, <1>4

LEMMA RankBounded ==
  ASSUME StationsInv, NEW c \in Vehicles
  PROVE  Rank(c) \in 0..(MECHANIC + TESTER + 19)
<1> DEFINE mr == MechRank(c)
           tr == TestRank(c)
           rr == ReleaseRank(c)
<1>1. /\ MECHANIC \in Nat \ {0} /\ TESTER \in Nat \ {0}
      /\ mr \in 0..(MECHANIC + 3) /\ tr \in 0..(TESTER + 3) /\ rr \in 9..11
  BY RankTypes
<1> HIDE DEF mr, tr, rr
<1>2. CASE at[c] = "bay"
  <2>1. Rank(c) = 1 + mr
    BY <1>2 DEF Rank, mr
  <2> QED
    BY <1>1, <2>1
<1>3. CASE at[c] = "transfer"
  <2>1. Rank(c) = MECHANIC + rr
    BY <1>3 DEF Rank, rr
  <2> QED
    BY <1>1, <2>1
<1>4. CASE at[c] = "emissions"
  <2>1. Rank(c) = MECHANIC + 13 + tr
    BY <1>4 DEF Rank, tr
  <2> QED
    BY <1>1, <2>1
<1>5. CASE at[c] \notin {"bay", "transfer", "emissions"}
  <2>1. Rank(c) \in {0, MECHANIC + 5, MECHANIC + 6, MECHANIC + 7,
                     MECHANIC + 8, MECHANIC + 12, MECHANIC + TESTER + 17,
                     MECHANIC + TESTER + 18, MECHANIC + TESTER + 19}
    BY <1>5, Zenon DEF Rank
  <2> QED
    BY <1>1, <2>1
<1> QED
  BY <1>2, <1>3, <1>4, <1>5

(* A step of one vehicle is nothing to the others. *)
LEMMA OthersStay ==
  ASSUME NEW c \in Vehicles, Arrive(c) \/ Step(c),
         NEW d \in Vehicles, d # c, StationsInv
  PROVE  Rank(d)' = Rank(d)
<1>1. /\ at'[d] = at[d]
      /\ mech_stage'[d] = mech_stage[d] /\ my_mechanic'[d] = my_mechanic[d]
      /\ test_stage'[d] = test_stage[d] /\ my_tester'[d] = my_tester[d]
  <2>1. at'[d] = at[d]
    BY DEF Arrive, Step, FindMechanic, NoMechanic, FreeMechanic,
           TakeTesterPermit, FindTester, NoTester, MarkTesterFree, PostTester,
           TakeTablet, TakeWrench, ReturnWrench, ReturnTablet, JoinTransfer,
           LeaveTransfer, TakeBox, ReturnBox, Move, StationsInv, PlaceInv
  <2>2. /\ mech_stage \in [Vehicles -> Mech!Stages]
        /\ my_mechanic \in [Vehicles -> 0..MECHANIC]
        /\ test_stage \in [Vehicles -> Test!Stages]
        /\ my_tester \in [Vehicles -> 0..TESTER]
    BY DEF StationsInv, PoolsInv, Mech!TypeOK, Test!TypeOK
  <2>3. Mech!Step(c) \/ UNCHANGED mechVars =>
          mech_stage'[d] = mech_stage[d] /\ my_mechanic'[d] = my_mechanic[d]
    BY <2>2 DEF mechVars, Mech!Step, Mech!Wait, Mech!Search, Mech!GiveUp,
                Mech!MarkFree, Mech!Post, Mech!Lock, Mech!SeeFree,
                Mech!SeeBusy, Mech!FindNone, Mech!Claim, Mech!Move
  <2>4. Test!Step(c) \/ UNCHANGED testVars =>
          test_stage'[d] = test_stage[d] /\ my_tester'[d] = my_tester[d]
    BY <2>2 DEF testVars, Test!Step, Test!Wait, Test!Search, Test!GiveUp,
                Test!MarkFree, Test!Post, Test!Lock, Test!SeeFree,
                Test!SeeBusy, Test!FindNone, Test!Claim, Test!Move
  <2> QED
    BY <2>1, <2>3, <2>4, StepPools
<1> QED
  BY <1>1 DEF Rank, MechRank, TestRank, ReleaseRank

LEMMA StepRank ==
  ASSUME StationsInv, NEW c \in Vehicles, Arrive(c) \/ Step(c)
  PROVE  Rank(c)' > Rank(c)
<1>0. /\ at \in [Vehicles -> Places]
      /\ mech_stage \in [Vehicles -> Mech!Stages]
      /\ my_mechanic \in [Vehicles -> 0..MECHANIC]
      /\ test_stage \in [Vehicles -> Test!Stages]
      /\ my_tester \in [Vehicles -> 0..TESTER]
      /\ Aligned(c)
  BY DEF StationsInv, PlaceInv, PoolsInv, Mech!TypeOK, Test!TypeOK
<1> USE <1>0, RankTypes DEF Move
<1>1. CASE TakeWrench(c) \/ ReturnWrench(c) \/ ReturnTablet(c) \/ TakeBox(c)
           \/ ReturnBox(c)
  BY <1>1 DEF TakeWrench, ReturnWrench, ReturnTablet, TakeBox, ReturnBox, Rank
<1>2. CASE Arrive(c)
  BY <1>2 DEF Arrive, Rank, Aligned, MechRank, pools, mechVars
<1>3. CASE TakeTablet(c)
  BY <1>3 DEF TakeTablet, Rank
<1>4. CASE JoinTransfer(c)
  BY <1>4 DEF JoinTransfer, Rank, Aligned, ReleaseRank, pools, mechVars
<1>5. CASE NoMechanic(c) \/ NoTester(c)
  BY <1>5 DEF NoMechanic, NoTester, Rank
<1>6. CASE FindMechanic(c)
  <2>1. at' = at /\ at[c] = "bay" /\ (Mech!Wait(c) \/ Mech!Search(c))
    BY <1>6 DEF FindMechanic
  <2>2. MechRank(c)' > MechRank(c)
    BY <2>1 DEF MechRank, Mech!Wait, Mech!Search, Mech!Lock, Mech!SeeFree,
                Mech!SeeBusy, Mech!FindNone, Mech!Claim, Mech!Move
  <2>3. MechRank(c)' \in Int
    BY <2>1 DEF MechRank, Mech!Wait, Mech!Search, Mech!Lock, Mech!SeeFree,
                Mech!SeeBusy, Mech!FindNone, Mech!Claim, Mech!Move
  <2> QED
    BY <2>1, <2>2, <2>3 DEF Rank
<1>7. CASE FreeMechanic(c)
  BY <1>7 DEF FreeMechanic, Rank, ReleaseRank, Mech!MarkFree, Mech!Post,
              Mech!Move
<1>8. CASE TakeTesterPermit(c)
  BY <1>8 DEF TakeTesterPermit, Rank
<1>9. CASE LeaveTransfer(c)
  BY <1>9 DEF LeaveTransfer, Rank, Aligned, TestRank, pools, testVars
<1>10. CASE FindTester(c) \/ MarkTesterFree(c)
  <2>1. /\ at' = at /\ at[c] = "emissions"
        /\ Test!Search(c) \/ Test!MarkFree(c)
    BY <1>10 DEF FindTester, MarkTesterFree
  <2>2. TestRank(c)' > TestRank(c)
    BY <2>1 DEF TestRank, Test!MarkFree, Test!Search, Test!Lock, Test!SeeFree,
                Test!SeeBusy, Test!FindNone, Test!Claim, Test!Move
  <2>3. TestRank(c)' \in Int
    BY <2>1 DEF TestRank, Test!MarkFree, Test!Search, Test!Lock, Test!SeeFree,
                Test!SeeBusy, Test!FindNone, Test!Claim, Test!Move
  <2> QED
    BY <2>1, <2>2, <2>3 DEF Rank
<1>11. CASE PostTester(c)
  BY <1>11 DEF PostTester, Rank
<1> QED
  BY <1>1, <1>2, <1>3, <1>4, <1>5, <1>6, <1>7, <1>8, <1>9, <1>10, <1>11
  DEF Step

(***************************************************************************)
(* No vehicle goes back or round: every step of car_thread between         *)
(* admission and exit brings its vehicle nearer to the exit, which is at   *)
(* most MECHANIC + TESTER + 19 steps from the entrance, and leaves all     *)
(* others where they are.  With StationsNeverStuck this is why the         *)
(* stations become empty.                                                  *)
(***************************************************************************)
THEOREM StationsAdvance ==
  Spec => /\ [](\A c \in Vehicles : Rank(c) \in 0..(MECHANIC + TESTER + 19))
          /\ [][\E c \in Vehicles :
                  /\ Rank(c)' > Rank(c)
                  /\ \A d \in Vehicles \ {c} : Rank(d)' = Rank(d)]_vars
<1> DEFINE Bounded == \A c \in Vehicles :
                        Rank(c) \in 0..(MECHANIC + TESTER + 19)
           Advance == \E c \in Vehicles :
                        /\ Rank(c)' > Rank(c)
                        /\ \A d \in Vehicles \ {c} : Rank(d)' = Rank(d)
<1>1. StationsInv => Bounded
  BY RankBounded
<1>2. StationsInv /\ [Next]_vars => [Advance]_vars
  <2> SUFFICES ASSUME StationsInv, Next, ~UNCHANGED vars PROVE Advance
    OBVIOUS
  <2>1. PICK c \in Vehicles : Arrive(c) \/ Step(c)
    BY DEF Next, Terminated
  <2> QED
    BY <2>1, StepRank, OthersStay
<1> QED
  BY <1>1, <1>2, StationsInvHolds, PTL DEF Spec

-----------------------------------------------------------------------------
(* The whole program *)

AP == INSTANCE Admission_proofs

-----------------------------------------------------------------------------
(* The program runs both halves *)

LEMMA NextHalves == [GarageNext]_garageVars => [A!Next]_(A!vars) /\ [Next]_vars
<1> SUFFICES ASSUME [GarageNext]_garageVars
             PROVE  /\ A!Next \/ UNCHANGED admissionVars
                    /\ Next \/ UNCHANGED stationVars
  BY DEF admissionVars, stationVars, A!vars
<1>1. ASSUME NEW c \in Vehicles, Enter(c) \/ FreeSlot(c)
      PROVE  /\ A!Next
             /\ Next \/ UNCHANGED stationVars
  BY <1>1, GarageAssumption
  DEF Enter, FreeSlot, A!Next, A!CarStep, Next, A!Cars
<1>2. ASSUME NEW c \in Vehicles, InStations(c)
      PROVE  Next /\ UNCHANGED admissionVars
  BY <1>2 DEF InStations, Next
<1>3. CASE Progress
  BY <1>1, <1>2, <1>3, GarageAssumption
  DEF Progress, A!Next, A!CarStep, A!Cars
<1>4. CASE (A!MonitorStep \/ A!Tick) /\ UNCHANGED stationVars
  BY <1>4 DEF A!Next
<1>5. CASE GarageTerminated
  BY <1>5 DEF GarageTerminated, A!Next
<1>6. CASE UNCHANGED garageVars
  BY <1>6 DEF garageVars
<1> QED
  BY <1>3, <1>4, <1>5, <1>6 DEF GarageNext

LEMMA Halves == GarageSpec => A!Spec /\ Spec
<1>1. GarageInit => A!Init /\ Init
  BY DEF GarageInit
<1> QED
  BY <1>1, NextHalves, PTL DEF GarageSpec, A!Spec, Spec

-----------------------------------------------------------------------------
(* AP and SP prove about the halves what A and S say of them.  The steps   *)
(* below only compare definitions.                                         *)

LEMMA AdmissionHalf == A!Spec => AP!Spec
<1>1. A!Init => AP!Init
  BY DEF A!Init, A!Cars, A!NoCar, AP!Init, AP!Cars, AP!NoCar
<1>2. A!MainStep => AP!MainStep
  BY
  DEF A!MainStep, A!Spawn, A!CountDone, A!Return, A!AllCounted, A!mainVars,
      A!vehicleVars, A!queueVars, A!managerVars, A!sems, AP!MainStep,
      AP!Spawn, AP!CountDone, AP!Return, AP!AllCounted, AP!mainVars,
      AP!vehicleVars, AP!queueVars, AP!managerVars, AP!sems
<1>3. A!CreateCar => AP!CreateCar
  BY
  DEF A!CreateCar, A!CreatorRuns, A!Running, A!Stopped, A!DoneUnless,
      A!mainVars, A!vehicleVars, A!queueVars, A!managerVars, A!sems,
      AP!CreateCar, AP!CreatorRuns, AP!Running, AP!Stopped, AP!DoneUnless,
      AP!mainVars, AP!vehicleVars, AP!queueVars, AP!managerVars, AP!sems
<1>4. ASSUME NEW c, A!CarStep(c) PROVE AP!CarStep(c)
  BY <1>4
  DEF A!CarStep, A!PqInsert, A!Enter, A!FreeSlot, A!SignalDone, A!Move,
      A!Running, A!Stopped, A!PqMutexFree, A!InsertSorted, A!InsertAt, A!Max,
      A!enter_time, A!Outranks, A!Cars, A!mainVars, A!vehicleVars,
      A!queueVars, A!managerVars, A!sems, AP!CarStep, AP!PqInsert, AP!Enter,
      AP!FreeSlot, AP!SignalDone, AP!Move, AP!Running, AP!Stopped,
      AP!PqMutexFree, AP!InsertSorted, AP!InsertAt, AP!Max, AP!enter_time,
      AP!Outranks, AP!Cars, AP!mainVars, AP!vehicleVars, AP!queueVars,
      AP!managerVars, AP!sems
<1>5. A!ManagerStep => AP!ManagerStep
  BY
  DEF A!ManagerStep, A!ManagerMove, A!TakeVehicle, A!TakeSlot, A!PqPop,
      A!PqMutexFree, A!PostCar, A!NoCar, A!mainVars, A!vehicleVars,
      A!queueVars, A!managerVars, A!sems, AP!ManagerStep, AP!ManagerMove,
      AP!TakeVehicle, AP!TakeSlot, AP!PqPop, AP!PqMutexFree, AP!PostCar,
      AP!NoCar, AP!mainVars, AP!vehicleVars, AP!queueVars, AP!managerVars,
      AP!sems
<1>6. A!Promote => AP!Promote
  BY
  DEF A!Promote, A!MonitorRuns, A!Running, A!Stopped, A!PqMutexFree,
      A!FirstKey, A!Scanned, A!ToSet, A!Overdue, A!enter_time, A!Cars,
      A!mainVars, A!vehicleVars, A!queueVars, A!managerVars, A!sems,
      AP!Promote, AP!MonitorRuns, AP!Running, AP!Stopped, AP!PqMutexFree,
      AP!FirstKey, AP!Scanned, AP!ToSet, AP!Overdue, AP!enter_time, AP!Cars,
      AP!mainVars, AP!vehicleVars, AP!queueVars, AP!managerVars, AP!sems
<1>7. A!Sort => AP!Sort
  BY
  DEF A!Sort, A!MonitorRuns, A!Running, A!Stopped, A!SortStep,
      A!InsertSorted, A!InsertAt, A!Max, A!enter_time, A!Outranks, A!Cars,
      A!mainVars, A!vehicleVars, A!queueVars, A!managerVars, A!sems, AP!Sort,
      AP!MonitorRuns, AP!Running, AP!Stopped, AP!SortStep, AP!InsertSorted,
      AP!InsertAt, AP!Max, AP!enter_time, AP!Outranks, AP!Cars, AP!mainVars,
      AP!vehicleVars, AP!queueVars, AP!managerVars, AP!sems
<1>8. A!Unlock \/ A!Tick \/ A!Terminated =>
        AP!Unlock \/ AP!Tick \/ AP!Terminated
  BY
  DEF A!Unlock, A!Tick, A!Terminated, A!MonitorRuns, A!Running, A!Stopped,
      A!vars, A!mainVars, A!vehicleVars, A!queueVars, A!managerVars, A!sems,
      AP!Unlock, AP!Tick, AP!Terminated, AP!MonitorRuns, AP!Running,
      AP!Stopped, AP!vars, AP!mainVars, AP!vehicleVars, AP!queueVars,
      AP!managerVars, AP!sems
<1>9. [A!Next]_(A!vars) => [AP!Next]_(AP!vars)
  BY <1>2, <1>3, <1>4, <1>5, <1>6, <1>7, <1>8
  DEF A!Next, A!MonitorStep, A!Cars, A!vars, AP!Next, AP!MonitorStep,
      AP!Cars, AP!vars
<1> QED
  BY <1>1, <1>9, PTL DEF A!Spec, AP!Spec

-----------------------------------------------------------------------------
(* What the halves' theorems say of the program *)

HalvesInv ==
  /\ AP!Inductive
  /\ PlaceInv
  /\ EverythingReturned
  /\ NoErrorPath
  /\ StationsInv
  /\ VehiclesNeverStuck

LEMMA HalvesHold == GarageSpec => []HalvesInv
<1>1. AP!AdmissionAssumption
  BY GarageAssumption DEF AP!AdmissionAssumption
<1>2. AP!Spec => []AP!Inductive
  BY <1>1, AP!InductiveHolds
<1> QED
  BY <1>2, Halves, AdmissionHalf, PlacesHold, StationsReturnEverything,
     StationsNoErrorPath, StationsInvHolds, StationsNeverStuck, PTL
  DEF HalvesInv

-----------------------------------------------------------------------------
(* Where a vehicle is in both halves *)

(***************************************************************************)
(* Neither half says it: a vehicle is in the stations exactly while it is  *)
(* inside, and it gives its slot back only when they are behind it.  And   *)
(* main has counted everybody when it returns.                             *)
(***************************************************************************)
Together ==
  /\ \A c \in Vehicles :
       /\ pc[c] \in {"uncreated", "created", "waiting", "failed"}
            <=> at[c] = "outside"
       /\ pc[c] \in {"leaving", "done"} => at[c] = "gone"
  /\ main = "closed" => finished = K_CARS

LEMMA Known ==
  ASSUME HalvesInv
  PROVE  /\ AP!Cars = Vehicles /\ A!Cars = Vehicles
         /\ pc \in [Vehicles -> {"uncreated", "created", "waiting", "inside",
                                 "leaving", "done", "failed"}]
         /\ at \in [Vehicles -> Places]
         /\ created \in 0..K_CARS /\ K_CARS \in Nat
         /\ \A c \in Vehicles : pc[c] = "uncreated" <=> c > created
<1>1. AP!Cars = Vehicles /\ A!Cars = Vehicles
  BY GarageAssumption DEF AP!Cars, A!Cars
<1> QED
  BY <1>1, GarageAssumption
  DEF HalvesInv, PlaceInv, AP!Inductive, AP!Local, AP!Types, AP!PCs,
      AP!CreatedInv

(* A step in the stations is one of a vehicle that is in them and stays. *)
LEMMA StaysInside ==
  ASSUME NEW c \in Vehicles, Step(c)
  PROVE  /\ at[c] \notin {"outside", "gone"}
         /\ at' = at \/ \E to : to # "outside" /\ at' = [at EXCEPT ![c] = to]
BY DEF Step, FindMechanic, NoMechanic, FreeMechanic, TakeTesterPermit,
       FindTester, NoTester, MarkTesterFree, PostTester, TakeTablet,
       TakeWrench, ReturnWrench, ReturnTablet, JoinTransfer, LeaveTransfer,
       TakeBox, ReturnBox, Move

LEMMA InitTogether == GarageInit => Together
BY GarageAssumption DEF GarageInit, Together, A!Init, Init, A!Cars

LEMMA NextTogether ==
  HalvesInv /\ Together /\ [GarageNext]_garageVars => Together'
<1> SUFFICES ASSUME HalvesInv, Together, [GarageNext]_garageVars
             PROVE  Together'
  OBVIOUS
<1> USE Known
<1>1. CASE A!CreateCar /\ UNCHANGED stationVars
  <2> DEFINE c == created + 1
  <2>1. c \in Vehicles /\ pc[c] = "uncreated"
    BY <1>1, GarageAssumption DEF A!CreateCar
  <2>2. pc' \in {[pc EXCEPT ![c] = "created"], [pc EXCEPT ![c] = "failed"]}
        /\ UNCHANGED <<at, main, finished>>
    BY <1>1 DEF A!CreateCar, A!mainVars, stationVars, vars
  <2> QED
    BY <2>1, <2>2 DEF Together
<1>2. ASSUME NEW c \in Vehicles, A!PqInsert(c) \/ A!SignalDone(c),
             UNCHANGED stationVars
      PROVE  Together'
  BY <1>2 DEF A!PqInsert, A!SignalDone, A!Move, A!mainVars, stationVars, vars,
              Together
<1>3. ASSUME NEW c \in Vehicles, Enter(c) PROVE Together'
  BY <1>3 DEF Enter, A!Enter, Arrive, A!Move, Move, A!mainVars, Together
<1>4. ASSUME NEW c \in Vehicles, InStations(c) PROVE Together'
  <2>1. UNCHANGED <<pc, main, finished>> /\ pc[c] = "inside"
    BY <1>4, StaysInside DEF InStations, admissionVars, Together
  <2> QED
    BY <1>4, <2>1, StaysInside DEF InStations, Together
<1>5. ASSUME NEW c \in Vehicles, FreeSlot(c) PROVE Together'
  BY <1>5 DEF FreeSlot, A!FreeSlot, A!Move, A!mainVars, stationVars, vars,
              Together
<1>6. CASE A!MainStep /\ UNCHANGED stationVars
  <2>1. UNCHANGED <<pc, at>>
    BY <1>6 DEF A!MainStep, A!Spawn, A!CountDone, A!Return, A!vehicleVars,
                stationVars, vars
  <2>2. main' = "closed" => finished' = K_CARS
    BY <1>6 DEF A!MainStep, A!Spawn, A!CountDone, A!Return, A!AllCounted
  <2> QED
    BY <2>1, <2>2 DEF Together
<1>7. CASE \/ /\ A!ManagerStep \/ A!MonitorStep \/ A!Tick
              /\ UNCHANGED stationVars
           \/ GarageTerminated \/ UNCHANGED garageVars
  <2>1. UNCHANGED <<pc, at, main, finished>>
    BY <1>7 DEF A!ManagerStep, A!TakeVehicle, A!TakeSlot, A!PqPop, A!PostCar,
                A!MonitorStep, A!Promote, A!Sort, A!Unlock, A!Tick,
                GarageTerminated, A!Terminated, A!mainVars, A!vehicleVars,
                A!vars, stationVars, vars, admissionVars, garageVars
  <2> QED
    BY <2>1 DEF Together
<1> QED
  BY <1>1, <1>2, <1>3, <1>4, <1>5, <1>6, <1>7 DEF GarageNext, Progress

LEMMA TogetherHolds == GarageSpec => []Together
BY InitTogether, NextTogether, HalvesHold, PTL DEF GarageSpec

-----------------------------------------------------------------------------
(* Capacity and the end *)

(* Admission_proofs has a cardinality operator of its own. *)
LEMMA SameCount == \A T : AP!Cardinality(T) = Cardinality(T)
BY DEF AP!Cardinality, Cardinality, AP!IsFiniteSet, IsFiniteSet

LEMMA VehiclesCounted ==
  /\ K_CARS \in Nat \ {0} /\ N_CAPACITY \in Nat \ {0}
  /\ IsFiniteSet(Vehicles) /\ Cardinality(Vehicles) = K_CARS
<1>1. K_CARS \in Nat \ {0} /\ N_CAPACITY \in Nat \ {0}
  BY GarageAssumption
<1>2. IsFiniteSet(1..K_CARS) /\ Cardinality(1..K_CARS) = K_CARS
  BY <1>1, FS_Interval
<1> QED
  BY <1>1, <1>2, GarageAssumption

LEMMA AtMostCapacity ==
  ASSUME HalvesInv
  PROVE  /\ Cardinality(AP!At({"inside"})) <= N_CAPACITY
         /\ AP!At({"inside"}) \subseteq Vehicles
<1>1. AP!At({"inside"}) \subseteq Vehicles /\ AP!Woken \subseteq Vehicles
      /\ IsFiniteSet(Vehicles)
  BY VehiclesCounted, GarageAssumption DEF AP!At, AP!Woken, AP!Cars
<1>2. Cardinality(AP!At({"inside"})) \in Nat /\ Cardinality(AP!Woken) \in Nat
  BY <1>1, FS_Subset, FS_CardinalityType
<1>3. slots_sem + (IF manager \in {"has_slot", "admitting"} THEN 1 ELSE 0)
        + Cardinality(AP!Woken) + Cardinality(AP!At({"inside"}))
        = N_CAPACITY
  <2>1. slots_sem + (IF manager \in {"has_slot", "admitting"} THEN 1 ELSE 0)
          + AP!Cardinality(AP!Woken) + AP!Cardinality(AP!At({"inside"}))
          = N_CAPACITY
    BY DEF HalvesInv, AP!Inductive, AP!Accounts, AP!CapacityAccounting
  <2> QED
    BY <2>1, SameCount
<1>4. slots_sem \in Nat
  BY DEF HalvesInv, AP!Inductive, AP!Local, AP!Types
<1> QED
  BY <1>1, <1>2, <1>3, <1>4

(***************************************************************************)
(* Only admitted vehicles use the stations, never more than N_CAPACITY of  *)
(* them, and a vehicle that gave its slot back (threads.c:245) holds no    *)
(* mechanic and no tester, on the error paths either.                      *)
(***************************************************************************)
THEOREM GarageOnlyAdmittedInside == GarageSpec => []OnlyAdmittedInside
<1>1. ASSUME HalvesInv, Together PROVE OnlyAdmittedInside
  <2>1. \A c \in InTheStations : pc[c] = "inside"
    BY <1>1, Known DEF InTheStations, Together
  <2>2. Cardinality(InTheStations) <= N_CAPACITY
    <3>1. InTheStations \subseteq AP!At({"inside"})
      BY <1>1, <2>1, Known DEF InTheStations, AP!At
    <3>2. IsFiniteSet(Vehicles)
      BY VehiclesCounted
    <3>3. IsFiniteSet(AP!At({"inside"}))
      BY <1>1, <3>2, AtMostCapacity, FS_Subset
    <3>4. /\ Cardinality(InTheStations) <= Cardinality(AP!At({"inside"}))
          /\ Cardinality(InTheStations) \in Nat
          /\ Cardinality(AP!At({"inside"})) \in Nat
      BY <3>1, <3>3, FS_Subset, FS_CardinalityType
    <3> QED
      BY <1>1, <3>4, AtMostCapacity, VehiclesCounted
  <2>3. ASSUME NEW c \in A!At({"leaving", "done"})
        PROVE  mech_stage[c] = "out" /\ test_stage[c] = "out"
    <3>1. c \in Vehicles /\ at[c] = "gone"
      BY <1>1, Known DEF A!At, Together
    <3> QED
      BY <1>1, <3>1 DEF HalvesInv, PlaceInv, Aligned
  <2> QED
    BY <2>1, <2>2, <2>3 DEF OnlyAdmittedInside
<1> QED
  BY <1>1, HalvesHold, TogetherHolds, PTL

(* When main has counted everybody, everybody has left or failed. *)
LEMMA AllOut ==
  ASSUME HalvesInv, Together, main = "closed"
  PROVE  \A c \in Vehicles : pc[c] \in {"done", "failed"}
<1> DEFINE Out == AP!At({"done", "failed"})
<1>1. /\ Out \in SUBSET Vehicles
      /\ IsFiniteSet(Vehicles) /\ Cardinality(Vehicles) = K_CARS
  BY VehiclesCounted, GarageAssumption DEF AP!At, AP!Cars
<1>2. done_sem + K_CARS = Cardinality(Out) /\ done_sem \in Nat
  <2>1. done_sem + finished = AP!Cardinality(Out) /\ done_sem \in Nat
    BY DEF HalvesInv, AP!Inductive, AP!Accounts, AP!DoneAccounting, AP!Local,
           AP!Types
  <2> QED
    BY <2>1, SameCount DEF Together
<1>3. Cardinality(Out) <= Cardinality(Vehicles)
      /\ (Cardinality(Vehicles) = Cardinality(Out) => Out = Vehicles)
  BY <1>1, FS_Subset
<1>4. Out = Vehicles
  BY <1>1, <1>2, <1>3, VehiclesCounted
<1> QED
  BY <1>4 DEF AP!At

(***************************************************************************)
(* When main returns every vehicle has been through the stations or never  *)
(* existed, and every semaphore, both arrays and the queue are as at the   *)
(* start (main.c:59-61 waits for K_CARS posts of done_sem).                *)
(***************************************************************************)
THEOREM GarageClosesClean == GarageSpec => []ClosesClean
<1>1. ASSUME HalvesInv, Together, main = "closed"
      PROVE  /\ \A c \in Vehicles : at[c] = "gone" \/ pc[c] = "failed"
             /\ EverythingReturned
             /\ slots_sem = N_CAPACITY
             /\ queue = <<>>
  <2>1. \A c \in Vehicles : pc[c] \in {"done", "failed"}
    BY <1>1, AllOut
  <2>2. \A c \in Vehicles : at[c] = "gone" \/ pc[c] = "failed"
    BY <1>1, <2>1 DEF Together
  <2>3. EverythingReturned
    BY <1>1 DEF HalvesInv
  <2>4. /\ AP!Placed /\ AP!QueueAccounting /\ AP!ManagerInv
        /\ queue \in Seq(Vehicles)
        /\ queue_sem \in Nat /\ slots_sem \in Nat
        /\ manager_car \in Vehicles \cup {AP!NoCar}
        /\ car_sem \in [Vehicles -> {0, 1}]
    BY <1>1, Known
    DEF HalvesInv, AP!Inductive, AP!Local, AP!Accounts, AP!Types
  <2>5. \A c \in Vehicles : ~AP!InQueue(c) /\ manager_car # c /\ car_sem[c] = 0
    BY <1>1, <2>1, <2>4, Known DEF AP!Placed
  <2>6. queue = <<>>
    BY <2>4, <2>5 DEF AP!InQueue, AP!Occurs
  <2>7. manager \notin {"has_slot", "admitting"}
    BY <2>4, <2>5, <2>6 DEF AP!QueueAccounting, AP!ManagerInv
  <2>8. AP!Woken = {} /\ AP!At({"inside"}) = {}
    BY <1>1, <2>1, <2>5, Known DEF AP!Woken, AP!At
  <2>9. Cardinality({}) = 0
    BY FS_EmptySet
  <2>10. slots_sem = N_CAPACITY
    <3>1. slots_sem + (IF manager \in {"has_slot", "admitting"} THEN 1 ELSE 0)
            + AP!Cardinality(AP!Woken) + AP!Cardinality(AP!At({"inside"}))
            = N_CAPACITY
      BY <1>1 DEF HalvesInv, AP!Inductive, AP!Accounts, AP!CapacityAccounting
    <3>2. AP!Cardinality({}) = 0
      BY <2>9, SameCount
    <3>3. /\ AP!Cardinality(AP!Woken) = 0
          /\ AP!Cardinality(AP!At({"inside"})) = 0
      BY <2>8, <3>2
    <3>4. slots_sem + 0 + 0 + 0 = N_CAPACITY
      BY <2>7, <3>1, <3>3
    <3> QED
      BY <2>4, <3>4
  <2> QED
    BY <2>2, <2>3, <2>6, <2>10
<1> QED
  BY <1>1, HalvesHold, TogetherHolds, PTL DEF ClosesClean

(***************************************************************************)
(* Where permits and staffed entries agree, as in the source, no vehicle   *)
(* of the program takes an error path (threads.c:156 and 219).             *)
(***************************************************************************)
THEOREM GarageNoErrorPath == GarageSpec => []NoErrorPath
<1>1. HalvesInv => NoErrorPath
  BY DEF HalvesInv
<1> QED
  BY <1>1, HalvesHold, PTL

-----------------------------------------------------------------------------
(* The program is never stuck *)

(* The monitor sorts only once it has been started. *)
MonitorBorn == sort_i > 0 => main \notin {"spawn_creator", "spawn_monitor"}

LEMMA MonitorBornHolds == GarageSpec => []MonitorBorn
<1>1. GarageInit => MonitorBorn
  BY DEF GarageInit, A!Init, MonitorBorn
<1>2. MonitorBorn /\ [GarageNext]_garageVars => MonitorBorn'
  <2> SUFFICES ASSUME MonitorBorn, [GarageNext]_garageVars PROVE MonitorBorn'
    OBVIOUS
  <2>1. CASE A!MainStep
    BY <2>1 DEF A!MainStep, A!Spawn, A!CountDone, A!Return, A!queueVars,
                MonitorBorn
  <2>2. CASE A!MonitorStep
    BY <2>2 DEF A!MonitorStep, A!Promote, A!Sort, A!Unlock, A!MonitorRuns,
                A!mainVars, MonitorBorn
  <2>3. CASE UNCHANGED <<main, sort_i>>
    BY <2>3 DEF MonitorBorn
  <2>4. A!MainStep \/ A!MonitorStep \/ UNCHANGED <<main, sort_i>>
    BY DEF GarageNext, Progress, GarageTerminated, Enter, InStations,
           FreeSlot, A!CreateCar, A!PqInsert, A!SignalDone, A!Enter,
           A!FreeSlot, A!ManagerStep, A!TakeVehicle, A!TakeSlot, A!PqPop,
           A!PostCar, A!Tick, A!Terminated, A!mainVars, A!queueVars, A!vars,
           admissionVars, garageVars
  <2> QED
    BY <2>1, <2>2, <2>3, <2>4
<1> QED
  BY <1>1, <1>2, PTL DEF GarageSpec

(* Everybody who is inside is in the stations or past them, and one of     *)
(* those who are can go on.                                                *)
LEMMA NobodyInside ==
  ASSUME HalvesInv, Together, ~SomeoneReady
  PROVE  \A c \in Vehicles : pc[c] # "inside"
<1> SUFFICES ASSUME NEW c \in Vehicles, pc[c] = "inside" PROVE FALSE
  OBVIOUS
<1>1. at[c] \notin {"outside", "gone"}
  BY DEF Together, SomeoneReady
<1>2. At({"outside", "gone"}) # Vehicles
  BY <1>1 DEF At
<1>3. PICK d \in Vehicles : Ready(d)
  BY <1>2 DEF HalvesInv, VehiclesNeverStuck
<1>4. at[d] \notin {"outside", "gone"}
  BY <1>3 DEF Ready
<1>5. pc[d] = "inside"
  BY <1>4, Known DEF Together
<1> QED
  BY <1>3, <1>5 DEF SomeoneReady

(* While main waits for vehicles, one of them is still waiting. *)
LEMMA SomebodyWaits ==
  ASSUME HalvesInv, Together, A!Running, ~SomeoneReady
  PROVE  \E c \in Vehicles : pc[c] = "waiting"
<1>1. /\ main = "counting" /\ finished # K_CARS /\ done_sem = 0
      /\ finished \in Nat
  BY DEF SomeoneReady, A!Running, A!Stopped, HalvesInv, AP!Inductive,
         AP!Local, AP!Types
<1>2. \A c \in Vehicles : pc[c] \in {"waiting", "done", "failed"}
  <2>1. \A c \in Vehicles : pc[c] \notin {"uncreated", "created", "leaving"}
    BY Known, GarageAssumption DEF SomeoneReady
  <2> QED
    BY <2>1, Known, NobodyInside
<1> SUFFICES ASSUME \A c \in Vehicles : pc[c] # "waiting" PROVE FALSE
  OBVIOUS
<1>3. AP!At({"done", "failed"}) = Vehicles
  BY <1>2, Known DEF AP!At
<1>4. done_sem + finished = AP!Cardinality(AP!At({"done", "failed"}))
  BY DEF HalvesInv, AP!Inductive, AP!Accounts, AP!DoneAccounting
<1>5. done_sem + finished = K_CARS
  BY <1>3, <1>4, SameCount, VehiclesCounted
<1> QED
  BY <1>1, <1>5

(* Nobody inside and nobody woken: every slot is free. *)
LEMMA SlotsFree ==
  ASSUME HalvesInv, Together, ~SomeoneReady
  PROVE  slots_sem = N_CAPACITY
<1>1. AP!Woken = {} /\ AP!At({"inside"}) = {}
  <2>1. \A c \in Vehicles : pc[c] = "waiting" => ~(car_sem[c] > 0)
    BY DEF SomeoneReady
  <2>2. \A c \in Vehicles : car_sem[c] = 1 => pc[c] = "waiting"
    BY Known DEF HalvesInv, AP!Inductive, AP!Local, AP!Placed
  <2> QED
    BY <2>1, <2>2, Known, NobodyInside DEF AP!Woken, AP!At
<1>2. slots_sem \in Nat /\ manager \notin {"has_slot", "admitting"}
  BY DEF SomeoneReady, HalvesInv, AP!Inductive, AP!Local, AP!Types
<1>3. slots_sem + (IF manager \in {"has_slot", "admitting"} THEN 1 ELSE 0)
        + AP!Cardinality(AP!Woken) + AP!Cardinality(AP!At({"inside"}))
        = N_CAPACITY
  BY DEF HalvesInv, AP!Inductive, AP!Accounts, AP!CapacityAccounting
<1>4. AP!Cardinality(AP!Woken) = 0 /\ AP!Cardinality(AP!At({"inside"})) = 0
  BY <1>1, SameCount, FS_EmptySet
<1>5. slots_sem + 0 + 0 + 0 = N_CAPACITY
  BY <1>2, <1>3, <1>4
<1> QED
  BY <1>2, <1>5

LEMMA SomeoneIsReady ==
  ASSUME HalvesInv, Together, A!Running PROVE SomeoneReady
<1> SUFFICES ASSUME ~SomeoneReady PROVE FALSE
  OBVIOUS
<1>1. PICK c \in Vehicles : pc[c] = "waiting"
  BY SomebodyWaits
<1>2. /\ AP!Placed /\ AP!QueueAccounting /\ AP!ManagerInv
      /\ queue \in Seq(Vehicles)
      /\ queue_sem \in Nat
      /\ car_sem \in [Vehicles -> {0, 1}]
      /\ manager \in {"idle", "has_vehicle", "has_slot", "admitting"}
  BY Known DEF HalvesInv, AP!Inductive, AP!Local, AP!Accounts, AP!Types
<1>3. manager \notin {"has_slot", "admitting"}
  BY DEF SomeoneReady
<1>4. AP!InQueue(c)
  <2>1. AP!InQueue(c) \/ manager_car = c \/ car_sem[c] = 1
    BY <1>1, <1>2, Known DEF AP!Placed
  <2>2. car_sem[c] # 1
    BY <1>1 DEF SomeoneReady
  <2>3. manager_car # c
    BY <1>2, <1>3, GarageAssumption DEF AP!ManagerInv, AP!NoCar
  <2> QED
    BY <2>1, <2>2, <2>3
<1>5. Len(queue) \in Nat \ {0}
  BY <1>2, <1>4 DEF AP!InQueue, AP!Occurs
<1>6. CASE manager = "idle"
  <2>1. queue_sem = Len(queue)
    BY <1>2, <1>5, <1>6 DEF AP!QueueAccounting
  <2> QED
    BY <1>5, <1>6, <2>1 DEF SomeoneReady
<1>7. CASE manager = "has_vehicle"
  BY <1>7, SlotsFree, VehiclesCounted DEF SomeoneReady
<1> QED
  BY <1>2, <1>3, <1>6, <1>7

(***************************************************************************)
(* Threads wait for each other on semaphores and mutexes, some while they  *)
(* hold what others wait for (threads.c:60, 63, 132 and 190).  Whatever    *)
(* the numbers of vehicles, slots, workers and tools, and whichever        *)
(* vehicles' threads could not be created, it is never everybody who       *)
(* waits: until main returns, some thread can step.                        *)
(***************************************************************************)
THEOREM GarageNeverStuck == GarageSpec => []NeverStuck
<1>1. HalvesInv /\ Together /\ MonitorBorn => NeverStuck
  <2>1. HalvesInv => sort_i \in 0..K_CARS
    BY DEF HalvesInv, AP!Inductive, AP!Local, AP!Types
  <2> QED
    BY <2>1, SomeoneIsReady, VehiclesCounted
    DEF NeverStuck, MonitorBorn, A!PqMutexFree, A!MonitorRuns
<1> QED
  BY <1>1, HalvesHold, TogetherHolds, MonitorBornHolds, PTL

-----------------------------------------------------------------------------
(* The program gets on *)

MainRank ==
  CASE main = "spawn_creator" -> 0
    [] main = "spawn_monitor" -> 1
    [] main = "spawn_manager" -> 2
    [] main = "counting" -> 3 + finished
    [] OTHER -> K_CARS + 4

WaitRank(c) ==
  IF car_sem[c] > 0 THEN 4 ELSE IF manager_car = c THEN 3 ELSE 2

(* How far a vehicle is on its way from the creator to done_sem *)
CarRank(c) ==
  CASE pc[c] = "uncreated" -> 0
    [] pc[c] = "created" -> 1
    [] pc[c] = "waiting" -> WaitRank(c)
    [] pc[c] = "inside" -> 4 + Rank(c)
    [] pc[c] = "leaving" -> MECHANIC + TESTER + 24
    [] OTHER -> MECHANIC + TESTER + 25

(* How far the manager is with its round *)
ManagerRank ==
  CASE manager = "idle" -> 0
    [] manager = "has_vehicle" -> 1
    [] OTHER -> 2

GarageInv ==
  /\ HalvesInv
  /\ Together
  /\ \A c \in Vehicles : Rank(c) \in 0..(MECHANIC + TESTER + 19)

LEMMA GarageInvHolds == GarageSpec => []GarageInv
<1>1. HalvesInv => \A c \in Vehicles : Rank(c) \in 0..(MECHANIC + TESTER + 19)
  BY RankBounded DEF HalvesInv
<1> QED
  BY <1>1, HalvesHold, TogetherHolds, PTL DEF GarageInv

LEMMA CarRankTypes ==
  ASSUME GarageInv, NEW c \in Vehicles
  PROVE  /\ MECHANIC \in Nat \ {0} /\ TESTER \in Nat \ {0}
         /\ Rank(c) \in 0..(MECHANIC + TESTER + 19)
         /\ WaitRank(c) \in 2..4
         /\ CarRank(c) \in 0..(MECHANIC + TESTER + 25)
<1> DEFINE r == Rank(c)
           w == WaitRank(c)
<1>1. /\ MECHANIC \in Nat \ {0} /\ TESTER \in Nat \ {0}
      /\ r \in 0..(MECHANIC + TESTER + 19)
  BY StationsAssumption DEF GarageInv
<1>2. w \in 2..4
  BY DEF WaitRank
<1> HIDE DEF r, w
<1>3. CarRank(c) \in {0, 1, w, 4 + r, MECHANIC + TESTER + 24,
                      MECHANIC + TESTER + 25}
  BY Zenon DEF CarRank, r, w
<1>4. CarRank(c) \in 0..(MECHANIC + TESTER + 25)
  BY <1>1, <1>2, <1>3
<1> QED
  BY <1>1, <1>2, <1>4 DEF r, w

LEMMA MainRankTypes ==
  ASSUME GarageInv
  PROVE  /\ MainRank \in 0..(K_CARS + 4) /\ ManagerRank \in 0..2
         /\ finished \in 0..K_CARS /\ K_CARS \in Nat
<1>1. finished \in 0..K_CARS /\ K_CARS \in Nat
  BY VehiclesCounted
  DEF GarageInv, HalvesInv, AP!Inductive, AP!Local, AP!Types
<1> QED
  BY <1>1 DEF MainRank, ManagerRank

(* What each vehicle's rank depends on *)
LEMMA CarRankStays ==
  ASSUME NEW c \in Vehicles,
         Rank(c)' = Rank(c), pc'[c] = pc[c], car_sem'[c] = car_sem[c],
         manager_car' = c <=> manager_car = c
  PROVE  CarRank(c)' = CarRank(c)
BY DEF CarRank, WaitRank

LEMMA RankStays ==
  ASSUME NEW c \in Vehicles, UNCHANGED stationVars
  PROVE  Rank(c)' = Rank(c)
BY DEF stationVars, vars, pools, mechVars, testVars, Rank, MechRank,
       TestRank, ReleaseRank

Raises(c) ==
  /\ CarRank(c)' > CarRank(c)
  /\ \A d \in Vehicles \ {c} : CarRank(d)' = CarRank(d)
  /\ MainRank' = MainRank

CarsKeep == \A c \in Vehicles : CarRank(c)' = CarRank(c)

LEMMA CreationRaises ==
  ASSUME GarageInv, A!CreateCar, UNCHANGED stationVars
  PROVE  \E c \in Vehicles : Raises(c)
<1> USE Known, CarRankTypes DEF GarageInv
<1>0. created + 1 \in Vehicles
  BY GarageAssumption DEF A!CreateCar
<1> PICK c \in Vehicles : c = created + 1
  BY <1>0
<1>1. c \in Vehicles /\ pc[c] = "uncreated"
  BY GarageAssumption DEF A!CreateCar
<1>2. /\ pc'[c] \in {"created", "failed"}
      /\ \A d \in Vehicles \ {c} : pc'[d] = pc[d]
      /\ UNCHANGED <<main, finished, car_sem, manager_car>>
  <2>1. /\ \/ pc' = [pc EXCEPT ![c] = "created"]
           \/ pc' = [pc EXCEPT ![c] = "failed"]
        /\ UNCHANGED <<main, finished, car_sem, manager_car>>
    BY DEF A!CreateCar, A!mainVars, A!managerVars
  <2> QED
    BY <2>1
<1>3. CarRank(c) = 0
  BY <1>1 DEF CarRank
<1>4. CarRank(c)' \in {1, MECHANIC + TESTER + 25}
  BY <1>1, <1>2 DEF CarRank
<1>5. \A d \in Vehicles \ {c} : CarRank(d)' = CarRank(d)
  BY <1>1, <1>2, RankStays, CarRankStays
<1>6. MainRank' = MainRank
  BY <1>2 DEF MainRank
<1> QED
  BY <1>1, <1>3, <1>4, <1>5, <1>6 DEF Raises

LEMMA VehicleRaises ==
  ASSUME GarageInv, GarageInv', NEW c \in Vehicles,
         \/ (A!PqInsert(c) \/ A!SignalDone(c)) /\ UNCHANGED stationVars
         \/ Enter(c) \/ InStations(c) \/ FreeSlot(c)
  PROVE  Raises(c)
<1> USE Known DEF GarageInv
<1>0. /\ MECHANIC \in Nat \ {0} /\ TESTER \in Nat \ {0}
      /\ Rank(c) \in 0..(MECHANIC + TESTER + 19)
      /\ Rank(c)' \in 0..(MECHANIC + TESTER + 19)
      /\ WaitRank(c) \in 2..4 /\ WaitRank(c)' \in 2..4
      /\ car_sem \in [Vehicles -> {0, 1}]
  <2>1. Rank(c)' \in 0..(MECHANIC + TESTER + 19) /\ WaitRank(c)' \in 2..4
    BY DEF WaitRank
  <2>2. car_sem \in [Vehicles -> {0, 1}]
    BY DEF HalvesInv, AP!Inductive, AP!Local, AP!Types
  <2> QED
    BY <2>1, <2>2, CarRankTypes
<1> DEFINE r == Rank(c)
           w == WaitRank(c)
<1>1. /\ \A d \in Vehicles \ {c} : pc'[d] = pc[d] /\ car_sem'[d] = car_sem[d]
      /\ UNCHANGED <<main, finished, manager_car>>
  BY <1>0
  DEF A!PqInsert, A!SignalDone, Enter, A!Enter, InStations, FreeSlot,
      A!FreeSlot, A!Move, A!mainVars, A!managerVars, admissionVars
<1>2. \A d \in Vehicles \ {c} : Rank(d)' = Rank(d)
  <2>1. UNCHANGED stationVars \/ Arrive(c) \/ Step(c)
    BY DEF Enter, InStations, FreeSlot
  <2> QED
    BY <2>1, RankStays, OthersStay DEF HalvesInv
<1>3. \A d \in Vehicles \ {c} : CarRank(d)' = CarRank(d)
  BY <1>1, <1>2, CarRankStays
<1>4. MainRank' = MainRank
  BY <1>1 DEF MainRank
<1>5. CASE A!PqInsert(c)
  <2>1. pc[c] = "created" /\ pc'[c] = "waiting"
    BY <1>5 DEF A!PqInsert, A!Move
  <2>2. CarRank(c) = 1 /\ CarRank(c)' = w'
    BY <2>1 DEF CarRank
  <2> QED
    BY <1>0, <1>3, <1>4, <2>2 DEF Raises
<1>6. CASE A!SignalDone(c)
  <2>1. pc[c] = "leaving" /\ pc'[c] = "done"
    BY <1>6 DEF A!SignalDone, A!Move
  <2>2. /\ CarRank(c) = MECHANIC + TESTER + 24
        /\ CarRank(c)' = MECHANIC + TESTER + 25
    BY <2>1 DEF CarRank
  <2> QED
    BY <1>0, <1>3, <1>4, <2>2 DEF Raises
<1>7. CASE Enter(c)
  <2>1. pc[c] = "waiting" /\ pc'[c] = "inside" /\ car_sem[c] > 0
    BY <1>7 DEF Enter, A!Enter, A!Move
  <2>2. CarRank(c) = 4 /\ CarRank(c)' = 4 + r'
    BY <2>1 DEF CarRank, WaitRank
  <2>3. r' > r
    BY <1>7, StepRank DEF Enter, HalvesInv
  <2> QED
    BY <1>0, <1>3, <1>4, <2>2, <2>3 DEF Raises
<1>8. CASE InStations(c)
  <2>1. pc[c] = "inside" /\ pc'[c] = "inside"
    BY <1>8, StaysInside DEF InStations, Together, admissionVars
  <2>2. CarRank(c) = 4 + r /\ CarRank(c)' = 4 + r'
    BY <2>1 DEF CarRank
  <2>3. r' > r
    BY <1>8, StepRank DEF InStations, HalvesInv
  <2> QED
    BY <1>0, <1>3, <1>4, <2>2, <2>3 DEF Raises
<1>9. CASE FreeSlot(c)
  <2>1. pc[c] = "inside" /\ pc'[c] = "leaving"
    BY <1>9 DEF FreeSlot, A!FreeSlot, A!Move
  <2>2. CarRank(c) = 4 + r /\ CarRank(c)' = MECHANIC + TESTER + 24
    BY <2>1 DEF CarRank
  <2> QED
    BY <1>0, <1>3, <1>4, <2>2 DEF Raises
<1> QED
  BY <1>5, <1>6, <1>7, <1>8, <1>9

(* The manager's round: every step raises its own rank, or the vehicle's.  *)
LEMMA ManagerRaises ==
  ASSUME GarageInv, A!ManagerStep, UNCHANGED stationVars
  PROVE  \/ \E c \in Vehicles : Raises(c)
         \/ CarsKeep /\ MainRank' = MainRank /\ ManagerRank' > ManagerRank
<1> USE Known DEF GarageInv
<1>0. /\ AP!Placed /\ AP!QueueAccounting /\ AP!ManagerInv
      /\ queue \in Seq(Vehicles) /\ queue_sem \in Nat
      /\ car_sem \in [Vehicles -> {0, 1}]
      /\ manager_car \in Vehicles \cup {AP!NoCar}
      /\ AP!NoCar \notin Vehicles
  BY GarageAssumption
  DEF HalvesInv, AP!Inductive, AP!Local, AP!Accounts, AP!Types, AP!NoCar
<1>1. \A d \in Vehicles : Rank(d)' = Rank(d)
  BY RankStays
<1>2. UNCHANGED <<main, finished, pc>> /\ MainRank' = MainRank
  BY DEF A!ManagerStep, A!TakeVehicle, A!TakeSlot, A!PqPop, A!PostCar,
         A!mainVars, A!vehicleVars, MainRank
<1>3. CASE A!TakeVehicle \/ A!TakeSlot
  <2>1. /\ UNCHANGED <<car_sem, manager_car>>
        /\ ManagerRank' > ManagerRank
    BY <1>3 DEF A!TakeVehicle, A!TakeSlot, A!ManagerMove, A!vehicleVars,
                ManagerRank
  <2>2. CarsKeep
    BY <1>1, <1>2, <2>1, CarRankStays DEF CarsKeep
  <2> QED
    BY <1>2, <2>1, <2>2
<1>4. CASE A!PqPop
  <2>1. manager = "has_slot" /\ car_sem' = car_sem
    BY <1>4 DEF A!PqPop, A!ManagerMove, A!vehicleVars
  <2>2. queue # <<>>
    BY <1>0, <2>1 DEF AP!QueueAccounting
  <2>4. Head(queue) \in Vehicles /\ AP!InQueue(Head(queue))
    BY <1>0, <2>2 DEF AP!InQueue, AP!Occurs
  <2> PICK c \in Vehicles : c = Head(queue) /\ AP!InQueue(c)
    BY <2>4
  <2>3. manager_car' = c
    BY <1>4, <2>2 DEF A!PqPop
  <2>5. pc[c] = "waiting" /\ car_sem[c] = 0
    BY <1>0 DEF AP!Placed
  <2>6. manager_car = AP!NoCar
    BY <1>0, <2>1 DEF AP!ManagerInv
  <2>7. CarRank(c) = 2 /\ CarRank(c)' = 3
    <3>1. WaitRank(c) = 2 /\ WaitRank(c)' = 3
      BY <1>0, <2>1, <2>3, <2>5, <2>6 DEF WaitRank
    <3> QED
      BY <1>2, <2>5, <3>1 DEF CarRank
  <2>8. \A d \in Vehicles \ {c} : CarRank(d)' = CarRank(d)
    BY <1>0, <1>1, <1>2, <2>1, <2>3, <2>6, CarRankStays
  <2> QED
    BY <1>2, <2>7, <2>8 DEF Raises
<1>5. CASE A!PostCar
  <2>0. manager_car \in Vehicles
    BY <1>0, <1>5 DEF A!PostCar, A!ManagerMove, AP!ManagerInv
  <2> PICK c \in Vehicles : c = manager_car
    BY <2>0
  <2>1. /\ manager = "admitting"
        /\ car_sem' = [car_sem EXCEPT ![c] = @ + 1]
        /\ manager_car' = AP!NoCar
    BY <1>5 DEF A!PostCar, A!ManagerMove, A!NoCar, AP!NoCar
  <2>2. pc[c] = "waiting" /\ car_sem[c] = 0
    BY <1>0 DEF AP!Placed
  <2>3. CarRank(c) = 3 /\ CarRank(c)' = 4
    <3>1. WaitRank(c) = 3 /\ WaitRank(c)' = 4
      BY <1>0, <2>1, <2>2 DEF WaitRank
    <3> QED
      BY <1>2, <2>2, <3>1 DEF CarRank
  <2>4. \A d \in Vehicles \ {c} : CarRank(d)' = CarRank(d)
    BY <1>0, <1>1, <1>2, <2>1, CarRankStays
  <2> QED
    BY <1>2, <2>3, <2>4 DEF Raises
<1> QED
  BY <1>3, <1>4, <1>5 DEF A!ManagerStep

LEMMA MainRaises ==
  ASSUME GarageInv, GarageInv', A!MainStep, UNCHANGED stationVars
  PROVE  CarsKeep /\ MainRank' > MainRank
<1>1. UNCHANGED <<pc, car_sem, manager_car>>
  BY DEF A!MainStep, A!Spawn, A!CountDone, A!Return, A!vehicleVars,
         A!managerVars
<1>2. CarsKeep
  BY <1>1, RankStays, CarRankStays DEF CarsKeep
<1>3. /\ finished \in 0..K_CARS /\ finished' \in 0..K_CARS
      /\ K_CARS \in Nat
  BY VehiclesCounted
  DEF GarageInv, HalvesInv, AP!Inductive, AP!Local, AP!Types
<1>4. MainRank' > MainRank
  BY <1>3 DEF A!MainStep, A!Spawn, A!CountDone, A!Return, MainRank
<1> QED
  BY <1>2, <1>4

(* The monitor and the clock move nobody. *)
LEMMA OthersKeep ==
  ASSUME \/ (A!MonitorStep \/ A!Tick) /\ UNCHANGED stationVars
         \/ GarageTerminated
  PROVE  CarsKeep /\ MainRank' = MainRank /\ ManagerRank' = ManagerRank
<1>1. UNCHANGED <<main, finished, manager, pc, car_sem, manager_car>>
      /\ UNCHANGED stationVars
  BY DEF A!MonitorStep, A!Promote, A!Sort, A!Unlock, A!Tick,
         GarageTerminated, A!Terminated, A!mainVars, A!vehicleVars,
         A!managerVars, A!vars
<1>2. CarsKeep
  BY <1>1, RankStays, CarRankStays DEF CarsKeep
<1> QED
  BY <1>1, <1>2 DEF MainRank, ManagerRank

(***************************************************************************)
(* No thread's work is undone or repeated for ever.  A step of main, the   *)
(* creator, the manager or a vehicle brings main or one vehicle further on *)
(* its way, of at most K_CARS + 4 and MECHANIC + TESTER + 25 steps, or     *)
(* else the manager in its round, and takes no vehicle and not main back;  *)
(* the monitor and the clock leave all of them where they are.  So main    *)
(* has at most finitely many such steps to wait for, and by                *)
(* GarageNeverStuck one of them can always be taken.                       *)
(***************************************************************************)
THEOREM GarageAdvances ==
  GarageSpec =>
    /\ [](/\ MainRank \in 0..(K_CARS + 4) /\ ManagerRank \in 0..2
          /\ \A c \in Vehicles : CarRank(c) \in 0..(MECHANIC + TESTER + 25))
    /\ [][IF Progress
            THEN \/ \E c \in Vehicles : Raises(c)
                 \/ CarsKeep /\ MainRank' > MainRank
                 \/ /\ CarsKeep /\ MainRank' = MainRank
                    /\ ManagerRank' > ManagerRank
            ELSE CarsKeep /\ MainRank' = MainRank
                          /\ ManagerRank' = ManagerRank]_garageVars
<1> DEFINE Bounded ==
             /\ MainRank \in 0..(K_CARS + 4) /\ ManagerRank \in 0..2
             /\ \A c \in Vehicles :
                  CarRank(c) \in 0..(MECHANIC + TESTER + 25)
           Further ==
             IF Progress
               THEN \/ \E c \in Vehicles : Raises(c)
                    \/ CarsKeep /\ MainRank' > MainRank
                    \/ /\ CarsKeep /\ MainRank' = MainRank
                       /\ ManagerRank' > ManagerRank
               ELSE CarsKeep /\ MainRank' = MainRank
                             /\ ManagerRank' = ManagerRank
<1>1. GarageInv => Bounded
  BY CarRankTypes, MainRankTypes
<1>2. GarageInv /\ GarageInv' /\ [GarageNext]_garageVars
        => [Further]_garageVars
  <2> SUFFICES ASSUME GarageInv, GarageInv', GarageNext
               PROVE  Further
    OBVIOUS
  <2>1. CASE Progress
    <3>1. CASE A!MainStep /\ UNCHANGED stationVars
      BY <2>1, <3>1, MainRaises
    <3>2. CASE A!CreateCar /\ UNCHANGED stationVars
      BY <2>1, <3>2, CreationRaises
    <3>3. CASE A!ManagerStep /\ UNCHANGED stationVars
      BY <2>1, <3>3, ManagerRaises
    <3>4. ASSUME NEW c \in Vehicles,
                 \/ /\ A!PqInsert(c) \/ A!SignalDone(c)
                    /\ UNCHANGED stationVars
                 \/ Enter(c) \/ InStations(c) \/ FreeSlot(c)
          PROVE  Further
      BY <2>1, <3>4, VehicleRaises
    <3> QED
      BY <2>1, <3>1, <3>2, <3>3, <3>4 DEF Progress
  <2>2. CASE ~Progress
    BY <2>2, OthersKeep DEF GarageNext
  <2> QED
    BY <2>1, <2>2
<1> QED
  BY <1>1, <1>2, GarageInvHolds, PTL DEF GarageSpec

=============================================================================
