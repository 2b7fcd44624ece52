------------------------------ MODULE ProcessTree ------------------------------
(***************************************************************************)
(* binary-tree/BinTree.c and BinTreeChild.c: a process forks two children  *)
(* and waits for them; the children do the same with a smaller depth.      *)
(* A process is named by its path from the root, which runs BinTree; the   *)
(* others run BinTreeChild when they have come through exec.               *)
(***************************************************************************)
EXTENDS Integers, SequencesExt

CONSTANTS
  Depths,      \* values of BinTree's argument
  MaxLevels    \* levels of the tree that are represented

VARIABLES
  argument,    \* BinTree's
  run,         \* per process: "none", "forked", "left", "right", "wait", "ended"
  mDepth,      \* per process
  broken       \* history: processes with a fork or exec that failed

vars == <<argument, run, mDepth, broken>>

Processes == UNION {[1..n -> {"left", "right"}] : n \in 0..(MaxLevels - 1)}

Root == <<>>
Children(p) == {Append(p, "left"), Append(p, "right")} \cap Processes

(* BinTree itself, up to the test of mDepth > 0 *)
Init ==
  /\ argument \in Depths
  /\ mDepth = [p \in Processes |-> IF p = Root THEN argument - 1 ELSE 0]
  /\ run = [p \in Processes |->
             IF p # Root THEN "none" ELSE IF argument > 1 THEN "left" ELSE "ended"]
  /\ broken = {}

After(side) == IF side = "left" THEN "right" ELSE "wait"

(* The depth a child starts with: BinTreeChild takes one off (mDepth--),   *)
(* BinTree does not.                                                       *)
Inherited(p) == IF p = Root THEN mDepth[p] ELSE mDepth[p] - 1

Fork(p) ==
  /\ run[p] \in {"left", "right"}
  /\ LET child == Append(p, run[p])
     IN  /\ run' = [run EXCEPT ![p] = After(@), ![child] = "forked"]
         /\ mDepth' = [mDepth EXCEPT ![child] = Inherited(p)]
  /\ UNCHANGED <<argument, broken>>

(* BinTree does not notice; BinTreeChild returns without waiting. *)
ForkFails(p) ==
  /\ run[p] \in {"left", "right"}
  /\ run' = [run EXCEPT ![p] = IF p = Root THEN After(@) ELSE "ended"]
  /\ broken' = broken \cup {p}
  /\ UNCHANGED <<argument, mDepth>>

(* BinTreeChild, from its first line *)
Exec(p) ==
  /\ run[p] = "forked" /\ mDepth[p] > 0
  /\ run' = [run EXCEPT ![p] = "left"]
  /\ mDepth' = [mDepth EXCEPT ![p] = @ - 1]
  /\ UNCHANGED <<argument, broken>>

ExecFails(p) ==
  /\ run[p] = "forked" /\ mDepth[p] > 0
  /\ run' = [run EXCEPT ![p] = "ended"]
  /\ broken' = broken \cup {p}
  /\ UNCHANGED <<argument, mDepth>>

(* a child with no depth left *)
Leaf(p) ==
  /\ run[p] = "forked" /\ mDepth[p] <= 0
  /\ run' = [run EXCEPT ![p] = "ended"]
  /\ UNCHANGED <<argument, mDepth, broken>>

(* mutant of Waited: one wait(NULL) for two children *)
WaitedOnce(p) == \E c \in Children(p) : run[c] \in {"none", "ended"}

Waited(p) == \A c \in Children(p) : run[c] \in {"none", "ended"}

(* wait(NULL) twice: for every child there is, at once if there is none *)
Wait(p) ==
  /\ run[p] = "wait" /\ Waited(p)
  /\ run' = [run EXCEPT ![p] = "ended"]
  /\ UNCHANGED <<argument, mDepth, broken>>

Next ==
  \E p \in Processes :
    Fork(p) \/ ForkFails(p) \/ Exec(p) \/ ExecFails(p) \/ Leaf(p) \/ Wait(p)

Over == \A p \in Processes : run[p] \in {"none", "ended"}

-----------------------------------------------------------------------------

(* BinTree hands mDepth on as it is, and a BinTreeChild and its child take  *)
(* two off together, so that only every other number adds a level.         *)
Levels == IF argument <= 1 THEN 1 ELSE 2 + argument \div 2

(***************************************************************************)
(* A process outlives its children, and their children, unless one of      *)
(* those forks failed (BinTreeChild then leaves its left child behind);    *)
(* and if nothing failed, a tree that has ended was complete.              *)
(***************************************************************************)
EndsBottomUp ==
  /\ \A p, q \in Processes :
       /\ run[p] = "ended" /\ IsPrefix(p, q)
       /\ \A b \in broken : ~IsPrefix(p, b)
       => run[q] \in {"none", "ended"}
  /\ run[Root] = "ended" /\ broken = {} =>
       {p \in Processes : run[p] = "ended"} = {p \in Processes : Len(p) < Levels}
=============================================================================
