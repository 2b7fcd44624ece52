------------------------------- MODULE Garage -------------------------------
(***************************************************************************)
(* The whole garage simulator: Admission and Stations run side by side,    *)
(* and each vehicle's thread passes from the first to the second when it   *)
(* is admitted and back when it is done.  Admission leaves open how long a *)
(* vehicle stays inside and assumes it comes out; here it comes out when   *)
(* its stations are behind it.                                             *)
(*                                                                         *)
(* Stations is extended and Admission an instance, A: Init, Step and Next  *)
(* are those of the stations, A!Init and A!Next the front half's, and what *)
(* the program does as a whole is named for the garage.                    *)
(***************************************************************************)
EXTENDS Stations

CONSTANTS K_CARS, N_CAPACITY, TicksPerSec, WAIT_THRESHOLD, MaxClock

ASSUME GarageAssumption ==
  /\ {K_CARS, N_CAPACITY, TicksPerSec} \subseteq Nat \ {0}
  /\ WAIT_THRESHOLD \in Nat /\ MaxClock \in Nat
  /\ Vehicles = 1..K_CARS

VARIABLES
  main, finished, created, pc, priority, arrived, car_sem, queue, sort_i,
  slots_sem, queue_sem, done_sem, manager, manager_car, clock

A == INSTANCE Admission

admissionVars ==
  <<main, finished, created, pc, priority, arrived, car_sem, queue, sort_i,
    slots_sem, queue_sem, done_sem, manager, manager_car, clock>>
stationVars == vars

garageVars == <<admissionVars, stationVars>>

GarageInit == A!Init /\ Init

Enter(c) == A!Enter(c) /\ Arrive(c)

InStations(c) == A!Running /\ Step(c) /\ UNCHANGED admissionVars

(* mutant of FreeSlot: gives the slot back while still in the stations *)
FreeSlotEarly(c) == A!FreeSlot(c) /\ UNCHANGED stationVars

(* the first statement after the stations, on all three ways out *)
FreeSlot(c) == A!FreeSlot(c) /\ at[c] = "gone" /\ UNCHANGED stationVars

GarageTerminated == A!Terminated /\ UNCHANGED stationVars

(* Every step of the program but the monitor's and the clock's *)
Progress ==
  \/ /\ \/ A!MainStep
        \/ A!CreateCar
        \/ \E c \in Vehicles : A!PqInsert(c) \/ A!SignalDone(c)
        \/ A!ManagerStep
     /\ UNCHANGED stationVars
  \/ \E c \in Vehicles : Enter(c) \/ InStations(c) \/ FreeSlot(c)

GarageNext ==
  \/ Progress
  \/ (A!MonitorStep \/ A!Tick) /\ UNCHANGED stationVars
  \/ GarageTerminated

GarageSpec == GarageInit /\ [][GarageNext]_garageVars

(***************************************************************************)
(* The fairness assumed of the scheduler is weaker than one condition per  *)
(* thread.  If main, the creator, the manager or a vehicle can step again  *)
(* and again, one of them eventually does: pq_insert and pq_pop, which     *)
(* contend with the monitor, find pq->mutex free while the monitor sleeps  *)
(* its MONITOR_INTERVAL.  A monitor that holds the mutex finishes its      *)
(* sort.  Nothing makes the monitor wake up or the clock advance, and      *)
(* nothing is assumed of vehicles coming out of the stations.              *)
(***************************************************************************)
Fairness ==
  /\ SF_garageVars(Progress)
  /\ WF_garageVars((A!Sort \/ A!Unlock) /\ UNCHANGED stationVars)

FairSpec == GarageSpec /\ Fairness

-----------------------------------------------------------------------------

InTheStations == {c \in Vehicles : at[c] \notin {"outside", "gone"}}

(***************************************************************************)
(* Only admitted vehicles use the stations, never more than N_CAPACITY of  *)
(* them, and a vehicle that gave its capacity slot back holds no mechanic, *)
(* tool, tester or box any more.                                           *)
(***************************************************************************)
OnlyAdmittedInside ==
  /\ \A c \in InTheStations : pc[c] = "inside"
  /\ Cardinality(InTheStations) <= N_CAPACITY
  /\ \A c \in A!At({"leaving", "done"}) :
       mech_stage[c] = "out" /\ test_stage[c] = "out"

(***************************************************************************)
(* When main returns, every vehicle has been through the stations or never *)
(* existed, and every resource of the institute is back in place.          *)
(***************************************************************************)
ClosesClean ==
  main = "closed" =>
    /\ \A c \in Vehicles : at[c] = "gone" \/ pc[c] = "failed"
    /\ EverythingReturned
    /\ slots_sem = N_CAPACITY
    /\ queue = <<>>

(***************************************************************************)
(* No deadlock, whatever the monitor and the clock do: until main returns, *)
(* and unless the monitor holds pq->mutex, some statement of main, the     *)
(* creator, the manager or a vehicle is not blocked.  (The monitor never   *)
(* is once it has the mutex, so that TLC's own check sees no deadlock of   *)
(* the others.)                                                            *)
(***************************************************************************)
SomeoneReady ==
  \/ main # "counting" \/ finished = K_CARS \/ done_sem > 0
  \/ created < K_CARS
  \/ \E c \in Vehicles :
       \/ pc[c] \in {"created", "leaving"}
       \/ pc[c] = "waiting" /\ car_sem[c] > 0
       \/ pc[c] = "inside" /\ (at[c] = "gone" \/ Ready(c))
  \/ manager = "idle" /\ queue_sem > 0
  \/ manager = "has_vehicle" /\ slots_sem > 0
  \/ manager \in {"has_slot", "admitting"}

NeverStuck ==
  A!Running => IF A!PqMutexFree THEN SomeoneReady ELSE A!MonitorRuns

(***************************************************************************)
(* The program ends: no interleaving of vehicles, manager and monitor, and *)
(* no failure to create a thread, leaves main waiting for ever             *)
(* (threads.c:31 and 120, "so main() does not hang").                      *)
(***************************************************************************)
Closes == <>(~A!Running)
=============================================================================
