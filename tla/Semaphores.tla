------------------------------ MODULE Semaphores ------------------------------
(***************************************************************************)
(* semaphores/Semaphores.c: three threads pass each other the turn through *)
(* three semaphores and print their letters; main creates them, sleeps and *)
(* returns, which ends the program wherever the threads are.               *)
(***************************************************************************)
EXTENDS Naturals, Sequences

CONSTANT MaxPrinted   \* bound: letters printed before main returns

Threads == {"A", "B", "C"}

VARIABLES
  made,        \* threads created so far, or 4 when main has returned
  s1, s2, s3,
  stage,       \* per thread: "off", "wait", "print", "post_twice" or "post"
  odd,         \* C's flag % 2
  printed      \* the letters, in the order they were printed

vars == <<made, s1, s2, s3, stage, odd, printed>>

Running == made <= 3

Init ==
  /\ made = 0
  /\ s1 = 1 /\ s2 = 0 /\ s3 = 0
  /\ stage = [t \in Threads |-> "off"]
  /\ odd = FALSE
  /\ printed = <<>>

Create(t) ==
  /\ made <= 2 /\ t = <<"A", "B", "C">>[made + 1]
  /\ made' = made + 1
  /\ stage' = [stage EXCEPT ![t] = "wait"]
  /\ UNCHANGED <<s1, s2, s3, odd, printed>>

(* pthread_create fails, or the five seconds are over *)
Return ==
  /\ Running
  /\ made' = 4
  /\ UNCHANGED <<s1, s2, s3, stage, odd, printed>>

Goto(t, from, to) ==
  /\ Running /\ stage[t] = from
  /\ stage' = [stage EXCEPT ![t] = to]
  /\ UNCHANGED made

Wait(t) ==
  /\ Goto(t, "wait", "print")
  /\ \/ t = "A" /\ s1 > 0 /\ s1' = s1 - 1 /\ UNCHANGED <<s2, s3>>
     \/ t = "B" /\ s2 > 0 /\ s2' = s2 - 1 /\ UNCHANGED <<s1, s3>>
     \/ t = "C" /\ s3 > 0 /\ s3' = s3 - 1 /\ UNCHANGED <<s1, s2>>
  /\ odd' = IF t = "C" THEN ~odd ELSE odd
  /\ UNCHANGED printed

(* mutant of AfterLetter: C gives the turn back after its first letter *)
AfterLetterAlways(t) == IF t = "B" THEN "post_twice" ELSE "post"

(* C posts after every second letter only. *)
AfterLetter(t) ==
  CASE t = "A" -> "post" [] t = "B" -> "post_twice"
    [] t = "C" -> IF odd THEN "wait" ELSE "post"

PrintLetter(t) ==
  /\ Len(printed) < MaxPrinted
  /\ Goto(t, "print", AfterLetter(t))
  /\ printed' = Append(printed, t)
  /\ UNCHANGED <<s1, s2, s3, odd>>

Post(t) ==
  /\ Goto(t, "post", "wait") \/ Goto(t, "post_twice", "post")
  /\ s1' = IF t = "C" THEN s1 + 1 ELSE s1
  /\ s2' = IF t = "A" THEN s2 + 1 ELSE s2
  /\ s3' = IF t = "B" THEN s3 + 1 ELSE s3
  /\ UNCHANGED <<odd, printed>>

Step(t) == Create(t) \/ Wait(t) \/ PrintLetter(t) \/ Post(t)

Next == Return \/ \E t \in Threads : Step(t)

Over == ~Running

-----------------------------------------------------------------------------

(***************************************************************************)
(* The letters are A, B, C, C over and over (Semaphores.c:16), whatever    *)
(* the order in which the threads run and however far a thread gets        *)
(* between B's two posts; and they go on until main returns: no post is    *)
(* missing for the next thread.                                            *)
(***************************************************************************)
PrintsABCC ==
  /\ [](\A k \in DOMAIN printed :
          printed[k] = <<"A", "B", "C", "C">>[((k - 1) % 4) + 1])
  /\ <>(Len(printed) = MaxPrinted \/ ~Running)
=============================================================================
