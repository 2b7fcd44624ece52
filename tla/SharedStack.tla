----------------------------- MODULE SharedStack -----------------------------
(***************************************************************************)
(* What Threads-safe_stack.c promises: one stack of at most Capacity       *)
(* numbers, on which pushes and pops by many threads take effect one at a  *)
(* time and completely.  A push is refused entry while the stack is full,  *)
(* a pop while it is empty; returned[t] is what t's last pop gave back.    *)
(***************************************************************************)
EXTENDS Naturals, Sequences, SequencesExt

CONSTANTS Threads, Values, Capacity

VARIABLES stack, returned

Init ==
  /\ stack = <<>>
  /\ returned \in [Threads -> Values]

Push(v) ==
  /\ Len(stack) < Capacity
  /\ stack' = Append(stack, v)
  /\ UNCHANGED returned

Pop(t) ==
  /\ stack # <<>>
  /\ returned' = [returned EXCEPT ![t] = Last(stack)]
  /\ stack' = Front(stack)

Next == (\E v \in Values : Push(v)) \/ (\E t \in Threads : Pop(t))

Spec == Init /\ [][Next]_<<stack, returned>>
=============================================================================
