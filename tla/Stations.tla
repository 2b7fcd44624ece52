------------------------------ MODULE Stations ------------------------------
(***************************************************************************)
(* The middle of car_thread (garage-simulator/threads.c): what an admitted *)
(* vehicle does from its admission to its exit.  Mechanic with two tools,  *)
(* hand-over through the transfer queue, pollution test, payment.          *)
(*                                                                         *)
(* The two pools of workers are instances of WorkerPool; this module adds  *)
(* the four counting semaphores and the order in which everything is taken *)
(* and given back.  Each array's length and each semaphore's initial value *)
(* is a constant of its own, as in the source.                             *)
(***************************************************************************)
EXTENDS Naturals, FiniteSets

CONSTANTS
  Vehicles,
  MECHANIC,            \* length of mechanic_available, value of mechanic_sem
  MechanicsStaffed,    \* 1s in its initialiser
  DIAGNOSTIC_TABLETS,
  TORQUE_WRENCH,
  POLLUTION_QUEUE,
  TESTER,              \* length of tester_available
  TestersStaffed,      \* 1s in its initialiser
  POLLUTION_WORKERS,   \* value of pollution_worker_sem
  PAYMENT_BOX

ASSUME StationsAssumption ==
  /\ IsFiniteSet(Vehicles)
  /\ MECHANIC \in Nat \ {0} /\ MechanicsStaffed \in 0..MECHANIC
  /\ TESTER \in Nat \ {0} /\ TestersStaffed \in 0..TESTER
  /\ POLLUTION_WORKERS \in Nat \ {0}
  /\ DIAGNOSTIC_TABLETS \in Nat \ {0} /\ TORQUE_WRENCH \in Nat \ {0}
  /\ POLLUTION_QUEUE \in Nat \ {0} /\ PAYMENT_BOX \in Nat \ {0}

VARIABLES
  at,                   \* per vehicle: the station its thread has reached
  diagnostic_sem,
  torque_sem,
  pollution_queue_sem,
  payment_box,
  \* the mechanics
  mechanic_sem, mechanic_available, mechanic_mutex, mech_stage, my_mechanic,
  \* the testers
  pollution_worker_sem, tester_available, tester_mutex, test_stage, my_tester

Mech ==
  INSTANCE WorkerPool WITH
    Cars <- Vehicles,
    Size <- MECHANIC, Staffed <- MechanicsStaffed, Permits <- MECHANIC,
    sem <- mechanic_sem, available <- mechanic_available,
    mutex <- mechanic_mutex, stage <- mech_stage, worker <- my_mechanic

Test ==
  INSTANCE WorkerPool WITH
    Cars <- Vehicles,
    Size <- TESTER, Staffed <- TestersStaffed, Permits <- POLLUTION_WORKERS,
    sem <- pollution_worker_sem, available <- tester_available,
    mutex <- tester_mutex, stage <- test_stage, worker <- my_tester

mechVars == <<mechanic_sem, mechanic_available, mechanic_mutex, mech_stage,
              my_mechanic>>
testVars == <<pollution_worker_sem, tester_available, tester_mutex,
              test_stage, my_tester>>
pools == <<mechVars, testVars>>
sems == <<diagnostic_sem, torque_sem, pollution_queue_sem, payment_box>>

vars == <<at, sems, pools>>

Places == {"outside",      \* not admitted yet
           "bay",          \* taking a mechanic
           "tablet",       \* has the diagnostic tablet, needs the wrench
           "working",      \* has both tools
           "wrench_back",  \* returned the wrench
           "repaired",     \* returned both, keeps the mechanic
           "transfer",     \* has a place in the transfer queue
           "assigned",     \* has a tester's permit as well
           "emissions",    \* left the transfer queue; finding its tester
           "cashier",      \* tested
           "paying",       \* at the payment box
           "gone"}         \* about to post slots_sem

Init ==
  /\ at = [c \in Vehicles |-> "outside"]
  /\ diagnostic_sem = DIAGNOSTIC_TABLETS
  /\ torque_sem = TORQUE_WRENCH
  /\ pollution_queue_sem = POLLUTION_QUEUE
  /\ payment_box = PAYMENT_BOX
  /\ Mech!Init
  /\ Test!Init

Move(c, from, to) ==
  /\ at[c] = from
  /\ at' = [at EXCEPT ![c] = to]

(* sem_wait and sem_post *)
Take(sem) == sem > 0 /\ sem' = sem - 1
Give(sem) == sem' = sem + 1

Arrive(c) == Move(c, "outside", "bay") /\ UNCHANGED <<sems, pools>>

-----------------------------------------------------------------------------
(* Station 1: mechanics *)

(* sem_wait(&mechanic_sem) and the scan of mechanic_available *)
FindMechanic(c) ==
  /\ at[c] = "bay"
  /\ Mech!Wait(c) \/ Mech!Search(c)
  /\ UNCHANGED <<at, sems, testVars>>

(* threads.c:157: no mechanic found; give the permit back and leave *)
NoMechanic(c) ==
  /\ Move(c, "bay", "gone") /\ Mech!GiveUp(c)
  /\ UNCHANGED <<sems, testVars>>

TakeTablet(c) ==
  /\ Move(c, "bay", "tablet") /\ mech_stage[c] = "busy"
  /\ Take(diagnostic_sem)
  /\ UNCHANGED <<torque_sem, pollution_queue_sem, payment_box, pools>>

TakeWrench(c) ==
  /\ Move(c, "tablet", "working") /\ Take(torque_sem)
  /\ UNCHANGED <<diagnostic_sem, pollution_queue_sem, payment_box, pools>>

ReturnWrench(c) ==
  /\ Move(c, "working", "wrench_back") /\ Give(torque_sem)
  /\ UNCHANGED <<diagnostic_sem, pollution_queue_sem, payment_box, pools>>

ReturnTablet(c) ==
  /\ Move(c, "wrench_back", "repaired") /\ Give(diagnostic_sem)
  /\ UNCHANGED <<torque_sem, pollution_queue_sem, payment_box, pools>>

(* The mechanic stays busy until the transfer queue has room. *)
JoinTransfer(c) ==
  /\ Move(c, "repaired", "transfer") /\ Take(pollution_queue_sem)
  /\ UNCHANGED <<diagnostic_sem, torque_sem, payment_box, pools>>

(* mutant of FreeMechanic: posts the semaphore before it writes the entry *)
FreeMechanicPostedFirst(c) ==
  /\ at[c] = "transfer"
  /\ \/ /\ Mech!Move(c, "busy", "freed") /\ Give(mechanic_sem)
        /\ UNCHANGED <<mechanic_available, my_mechanic>>
     \/ /\ Mech!Move(c, "freed", "out")
        /\ mechanic_available' =
             [mechanic_available EXCEPT ![my_mechanic[c]] = 1]
        /\ my_mechanic' = [my_mechanic EXCEPT ![c] = 0]
        /\ UNCHANGED mechanic_sem
  /\ UNCHANGED <<at, sems, mechanic_mutex, testVars>>

FreeMechanic(c) ==
  /\ at[c] = "transfer"
  /\ Mech!MarkFree(c) \/ Mech!Post(c)
  /\ UNCHANGED <<at, sems, testVars>>

-----------------------------------------------------------------------------
(* Station 2: air pollution *)

(* mutant of MechanicFreed: a tester is sought while the mechanic is kept *)
MechanicFreedOrNot(c) == TRUE

MechanicFreed(c) == mech_stage[c] = "out"

(* sem_wait(&pollution_worker_sem), still in the transfer queue *)
TakeTesterPermit(c) ==
  /\ Move(c, "transfer", "assigned") /\ MechanicFreed(c)
  /\ Test!Wait(c)
  /\ UNCHANGED <<sems, mechVars>>

(* mutant of LeaveTransfer: keeps the place in the transfer queue *)
LeaveTransferSilently(c) ==
  Move(c, "assigned", "emissions") /\ UNCHANGED <<sems, pools>>

LeaveTransfer(c) ==
  /\ Move(c, "assigned", "emissions") /\ Give(pollution_queue_sem)
  /\ UNCHANGED <<diagnostic_sem, torque_sem, payment_box, pools>>

(* the scan of tester_available *)
FindTester(c) ==
  /\ at[c] = "emissions" /\ Test!Search(c)
  /\ UNCHANGED <<at, sems, mechVars>>

(* threads.c:219: no tester found; give the permit back and leave *)
NoTester(c) ==
  /\ Move(c, "emissions", "gone") /\ Test!GiveUp(c)
  /\ UNCHANGED <<sems, mechVars>>

MarkTesterFree(c) ==
  /\ at[c] = "emissions" /\ Test!MarkFree(c)
  /\ UNCHANGED <<at, sems, mechVars>>

PostTester(c) ==
  /\ Move(c, "emissions", "cashier") /\ Test!Post(c)
  /\ UNCHANGED <<sems, mechVars>>

-----------------------------------------------------------------------------
(* Station 3: payment *)

TakeBox(c) ==
  /\ Move(c, "cashier", "paying") /\ Take(payment_box)
  /\ UNCHANGED <<diagnostic_sem, torque_sem, pollution_queue_sem, pools>>

ReturnBox(c) ==
  /\ Move(c, "paying", "gone") /\ Give(payment_box)
  /\ UNCHANGED <<diagnostic_sem, torque_sem, pollution_queue_sem, pools>>

-----------------------------------------------------------------------------

Step(c) ==
  \/ FindMechanic(c) \/ NoMechanic(c)
  \/ TakeTablet(c) \/ TakeWrench(c) \/ ReturnWrench(c) \/ ReturnTablet(c)
  \/ JoinTransfer(c) \/ FreeMechanic(c)
  \/ TakeTesterPermit(c) \/ LeaveTransfer(c)
  \/ FindTester(c) \/ NoTester(c) \/ MarkTesterFree(c) \/ PostTester(c)
  \/ TakeBox(c) \/ ReturnBox(c)

(* Every vehicle has left: TLC need not take this for a deadlock. *)
Terminated == (\A c \in Vehicles : at[c] = "gone") /\ UNCHANGED vars

Next == (\E c \in Vehicles : Arrive(c) \/ Step(c)) \/ Terminated

Spec == Init /\ [][Next]_vars

-----------------------------------------------------------------------------
(* Properties *)

At(S) == {c \in Vehicles : at[c] \in S}

(* Every variable has the values its C counterpart can have. *)
TypeOK ==
  /\ at \in [Vehicles -> Places]
  /\ diagnostic_sem \in 0..DIAGNOSTIC_TABLETS
  /\ torque_sem \in 0..TORQUE_WRENCH
  /\ pollution_queue_sem \in 0..POLLUTION_QUEUE
  /\ payment_box \in 0..PAYMENT_BOX
  /\ Mech!TypeOK
  /\ Test!TypeOK

(***************************************************************************)
(* Each counting semaphore and the vehicles that hold a unit of it add up  *)
(* to its initial value: a permit for a worker, a tool, a place in the     *)
(* transfer queue or the payment box is never lost, also on the error      *)
(* paths, and never given back by a vehicle that does not have it.         *)
(***************************************************************************)
ResourcesConserved ==
  /\ TypeOK
  /\ diagnostic_sem + Cardinality(At({"tablet", "working", "wrench_back"}))
       = DIAGNOSTIC_TABLETS
  /\ torque_sem + Cardinality(At({"working"})) = TORQUE_WRENCH
  /\ pollution_queue_sem + Cardinality(At({"transfer", "assigned"}))
       = POLLUTION_QUEUE
  /\ payment_box + Cardinality(At({"paying"})) = PAYMENT_BOX
  /\ Mech!PermitsConserved
  /\ Test!PermitsConserved

(***************************************************************************)
(* Between its first tool and its test a vehicle always occupies something *)
(* limited: a mechanic, a place in the transfer queue or a tester.  It     *)
(* leaves none of them before it has the next (threads.c:187 "Mechanic is  *)
(* freed only after securing the slot"), and never keeps a mechanic and a  *)
(* tester at once, or a tool without a mechanic: no vehicle blocks a       *)
(* station it has left.                                                    *)
(***************************************************************************)
OneStationAtATime ==
  \A c \in Vehicles :
    /\ at[c] \notin {"outside", "bay", "cashier", "paying", "gone"} =>
         \/ mech_stage[c] = "busy"
         \/ at[c] \in {"transfer", "assigned"}
         \/ test_stage[c] # "out"
    /\ at[c] \in {"tablet", "working", "wrench_back"} => mech_stage[c] = "busy"
    /\ mech_stage[c] # "out" => test_stage[c] = "out"

(***************************************************************************)
(* When no vehicle is in the stations, every semaphore and both arrays are *)
(* as at the start, also after the error paths (threads.c:119 "On error    *)
(* (missing worker slot), releases all held resources").                   *)
(***************************************************************************)
EverythingReturned ==
  At({"outside", "gone"}) = Vehicles =>
    /\ <<sems, mechanic_sem, pollution_worker_sem>>
         = <<<<DIAGNOSTIC_TABLETS, TORQUE_WRENCH, POLLUTION_QUEUE, PAYMENT_BOX>>,
             MECHANIC, POLLUTION_WORKERS>>
    /\ mechanic_available =
         [w \in 1..MECHANIC |-> IF w <= MechanicsStaffed THEN 1 ELSE 0]
    /\ tester_available =
         [w \in 1..TESTER |-> IF w <= TestersStaffed THEN 1 ELSE 0]

(***************************************************************************)
(* The sem_wait or pthread_mutex_lock that c's thread has reached would    *)
(* not block it now; statements that never block are always ready.         *)
(***************************************************************************)
Ready(c) ==
  /\ at[c] \notin {"outside", "gone"}
  /\ at[c] = "bay" =>
       /\ mech_stage[c] = "out" => mechanic_sem > 0
       /\ mech_stage[c] = "permit" => mechanic_mutex = {}
       /\ mech_stage[c] = "busy" => diagnostic_sem > 0
  /\ at[c] = "tablet" => torque_sem > 0
  /\ at[c] = "repaired" => pollution_queue_sem > 0
  /\ at[c] = "transfer" /\ mech_stage[c] = "out" => pollution_worker_sem > 0
  /\ at[c] = "emissions" /\ test_stage[c] = "permit" => tester_mutex = {}
  /\ at[c] = "cashier" => payment_box > 0

(***************************************************************************)
(* Vehicles keep a mechanic, a tool, a place in the transfer queue or a    *)
(* tester's permit while they wait for the next thing (threads.c:165, 190, *)
(* 205).  They never all wait for each other.                              *)
(***************************************************************************)
VehiclesNeverStuck ==
  At({"outside", "gone"}) # Vehicles => \E c \in Vehicles : Ready(c)

(***************************************************************************)
(* No more vehicles are on an error path (threads.c:156 and 219) than      *)
(* there are permits too many, although an entry is written back and its   *)
(* semaphore posted (lines 191 and 192) while others scan: nobody passes   *)
(* the semaphore before there is an entry for it to find.                  *)
(***************************************************************************)
OnlyExcessUnserved == Mech!OnlyExcessUnserved /\ Test!OnlyExcessUnserved

(***************************************************************************)
(* Where there are no more permits than workers, as in the source, no      *)
(* vehicle leaves through an error path.                                   *)
(***************************************************************************)
NoErrorPath ==
  /\ MECHANIC <= MechanicsStaffed => Mech!NeverUnserved
  /\ POLLUTION_WORKERS <= TestersStaffed => Test!NeverUnserved
=============================================================================
