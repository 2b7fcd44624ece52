------------------------------ MODULE CPUruntime ------------------------------
(***************************************************************************)
(* cpu-runtime/CPUruntime.c: N threads, each adding to a counter of its    *)
(* own, and one that prints all counters from time to time, with no lock   *)
(* anywhere.  main frees the counters when its sleep is over, while the    *)
(* threads still run, and then returns.                                    *)
(***************************************************************************)
EXTENDS Integers

CONSTANTS
  Size,       \* N
  MaxCount    \* bound: increments per thread; also what freed memory may hold

VARIABLES
  life,       \* "creating", "sleeping", "freed" or "returned"
  started,    \* threads started; the last of them is the printing thread
  counters,
  reg,        \* per counting thread: what it loaded, or -1
  cursor,         \* the printing thread: the next counter it prints
  shown       \* per counter: what was printed last

vars == <<life, started, counters, reg, cursor, shown>>

Threads == 1..Size

Running == life # "returned"
Freed == life \in {"freed", "returned"}

Init ==
  /\ life = "creating" /\ started = 0
  /\ counters = [c \in Threads |-> 0]
  /\ reg = [c \in Threads |-> -1]
  /\ cursor = 1
  /\ shown = [c \in Threads |-> 0]

Create ==
  /\ life = "creating"
  /\ started' = started + 1
  /\ life' = IF started' = Size + 1 THEN "sleeping" ELSE life
  /\ UNCHANGED <<counters, reg, cursor, shown>>

(* free(counters): after the sleep, or when pthread_create failed.  The    *)
(* allocator may write into the memory.                                    *)
Free ==
  /\ ~Freed
  /\ life' = "freed"
  /\ counters' \in [Threads -> 0..MaxCount]
  /\ UNCHANGED <<started, reg, cursor, shown>>

Return ==
  /\ life = "freed"
  /\ life' = "returned"
  /\ UNCHANGED <<started, counters, reg, cursor, shown>>

(* mutant of Own: every thread is given the first counter *)
OwnFirst(t) == 1

(* &arg.arr[i] *)
Own(t) == t

Load(t) ==
  /\ Running /\ t <= started /\ reg[t] = -1
  /\ counters[Own(t)] < MaxCount
  /\ reg' = [reg EXCEPT ![t] = counters[Own(t)]]
  /\ UNCHANGED <<life, started, counters, cursor, shown>>

Store(t) ==
  /\ Running /\ reg[t] # -1
  /\ counters' = [counters EXCEPT ![Own(t)] = reg[t] + 1]
  /\ reg' = [reg EXCEPT ![t] = -1]
  /\ UNCHANGED <<life, started, cursor, shown>>

(* one line of a snapshot *)
PrintLine ==
  /\ Running /\ started = Size + 1
  /\ shown' = [shown EXCEPT ![cursor] = counters[cursor]]
  /\ cursor' = (cursor % Size) + 1
  /\ UNCHANGED <<life, started, counters, reg>>

Next == Create \/ Free \/ Return \/ PrintLine \/ \E t \in Threads : Load(t) \/ Store(t)

Over == ~Running

-----------------------------------------------------------------------------

(***************************************************************************)
(* Although nothing is locked, no counter goes back from one snapshot to   *)
(* the next, because each has one writer (line 59, "the counter it was     *)
(* assigned").  That ends when main frees the counters (line 52): from     *)
(* then until it has returned, a snapshot may show anything.               *)
(***************************************************************************)
SnapshotsGrow ==
  [][~Freed => \A c \in Threads : shown'[c] >= shown[c]]_vars
=============================================================================
