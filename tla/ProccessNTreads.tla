---------------------------- MODULE ProccessNTreads ----------------------------
(***************************************************************************)
(* processes-threads/ProccessNTreads.c: main forks a child per term of the *)
(* Fibonacci sequence, the largest first, and waits for each before the    *)
(* next; the last term it prints itself.                                   *)
(***************************************************************************)
EXTENDS Integers, Sequences

CONSTANT Terms   \* N

VARIABLES
  i,        \* main's loop variable
  parent,   \* "fork", "wait", "done" or "failed"
  c1, c2,   \* of the child
  j,        \* of the child: its loop variable, or -1 when there is no child
  output

vars == <<i, parent, c1, c2, j, output>>

Init ==
  /\ i = 1 /\ parent = "fork"
  /\ c1 = 0 /\ c2 = 1 /\ j = -1
  /\ output = <<>>

(* The child starts from main's c1 and c2, which never change. *)
Fork ==
  /\ parent = "fork" /\ i < Terms
  /\ parent' = "wait"
  /\ c1' = 0 /\ c2' = 1 /\ j' = 0
  /\ UNCHANGED <<i, output>>

ForkFails ==
  /\ parent = "fork" /\ i < Terms
  /\ parent' = "failed"
  /\ UNCHANGED <<i, c1, c2, j, output>>

AddTerm ==
  /\ j \in 0..(Terms - i - 1)
  /\ c1' = c2 /\ c2' = c1 + c2
  /\ j' = j + 1
  /\ UNCHANGED <<i, parent, output>>

(* what the child printed is written when it returns *)
ChildReturns ==
  /\ j = Terms - i
  /\ output' = Append(output, c2)
  /\ j' = -1
  /\ UNCHANGED <<i, parent, c1, c2>>

(* mutant of ChildGone: main does not wait *)
ChildForgotten == TRUE

ChildGone == j = -1

Wait ==
  /\ parent = "wait" /\ ChildGone
  /\ parent' = "fork" /\ i' = i + 1
  /\ UNCHANGED <<c1, c2, j, output>>

PrintLast ==
  /\ parent = "fork" /\ i = Terms
  /\ parent' = "done"
  /\ output' = Append(output, 1)
  /\ UNCHANGED <<i, c1, c2, j>>

Next == Fork \/ ForkFails \/ AddTerm \/ ChildReturns \/ Wait \/ PrintLast

Over == parent \in {"done", "failed"} /\ ChildGone

-----------------------------------------------------------------------------

F[n \in Nat] == IF n <= 1 THEN n ELSE F[n - 1] + F[n - 2]

(***************************************************************************)
(* The processes print F(N) down to F(1) (lines 6-10), each once and in    *)
(* this order, up to the first fork that fails.                            *)
(***************************************************************************)
PrintsDownwards ==
  /\ \A k \in DOMAIN output : output[k] = F[Terms + 1 - k]
  /\ parent = "done" => Len(output) = Terms
=============================================================================
