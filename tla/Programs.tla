------------------------------- MODULE Programs -------------------------------
(***************************************************************************)
(* The small programs of the repository, and two functions of file_crypt,  *)
(* one of which is run at a time: a behaviour is a run of the program      *)
(* (runs, for createEncryptedCopy) named by the variable program, and the  *)
(* variables of the others do not change.                                  *)
(***************************************************************************)
EXTENDS Integers, Sequences

CONSTANTS
  MaxPrinted, Size, MaxCount, N, M, Values, Terms, Depths, MaxLevels,
  Source, Sizes, Strings, MaxRuns, Candidates, Passcode, Examples, Vectors

VARIABLES
  program,
  made, s1, s2, s3, stage, odd, printed,
  life, started, counters, reg, cursor, shown,
  func, joiner, created, matrix, column, sum, filled, total,
  i, parent, c1, c2, j, output,
  argument, run, mDepth, broken,
  dir, dest, pc, runs, size, suffix, pos, rbytes, off, intact, status, unread,
  candidate, taken, buffer, hash, phase, w, v, round, ok, compressed,
  state, ws, quarter, out

Sem == INSTANCE Semaphores
Cpu == INSTANCE CPUruntime
Mat == INSTANCE MatrixThreads
Fib == INSTANCE ProccessNTreads
Tree == INSTANCE ProcessTree
Copy == INSTANCE EncryptedCopy
Sha == INSTANCE Sha256
Cha == INSTANCE ChaCha20

semVars == <<made, s1, s2, s3, stage, odd, printed>>
cpuVars == <<life, started, counters, reg, cursor, shown>>
matVars == <<func, joiner, created, matrix, column, sum, filled, total>>
fibVars == <<i, parent, c1, c2, j, output>>
treeVars == <<argument, run, mDepth, broken>>
copyVars == <<dir, dest, pc, runs, size, suffix, pos, rbytes, off, intact,
              status, unread>>
shaVars == <<candidate, taken, buffer, hash, phase, w, v, round, ok,
             compressed>>
chaVars == <<state, ws, quarter, out>>

programsVars ==
  <<program, semVars, cpuVars, matVars, fibVars, treeVars, copyVars, shaVars,
    chaVars>>

(* The arguments and sizes the programs are written for: F(47) would no    *)
(* longer fit an int, and Sha256 has 32 bits for the number of bits.       *)
ASSUME ProgramsAssumption ==
  /\ Size \in Nat \ {0} /\ MaxCount \in Nat
  /\ {N, M} \subseteq Nat \ {0} /\ Values \subseteq Nat
  /\ Terms \in 1..46
  /\ Depths \subseteq Int /\ MaxLevels \in Nat \ {0}
  /\ \A d \in Depths : MaxLevels >= IF d <= 1 THEN 1 ELSE 2 + d \div 2
  /\ Sizes \subseteq Nat \ {0}
  /\ \A s \in Strings \cup {Source} : s \in Seq({s[k] : k \in DOMAIN s})
  /\ \A s \in Candidates \cup {Passcode} :
       s \in Seq(0..255) /\ Len(s) < 2^28

ProgramNames == {"Semaphores", "CPUruntime", "matrix_threads",
                  "ProccessNTreads", "BinTree", "createEncryptedCopy",
                  "verify_passcode", "chacha20_block"}

(* Arguments are chosen for the program that runs only. *)
ProgramsInit ==
  /\ program \in ProgramNames
  /\ Sem!Init /\ Cpu!Init /\ Mat!Init /\ Fib!Init /\ Copy!Init
  /\ Tree!Init /\ (program = "BinTree" \/ argument = 1)
  /\ \E c \in IF program = "verify_passcode" THEN Candidates ELSE {Passcode} :
       Sha!Start(c)
  /\ \E x \in IF program = "chacha20_block" THEN Vectors
              ELSE {CHOOSE x \in Vectors : TRUE} : Cha!Start(x)

(* The other programs do nothing. *)
Frame ==
  /\ UNCHANGED program
  /\ program # "Semaphores" => UNCHANGED semVars
  /\ program # "CPUruntime" => UNCHANGED cpuVars
  /\ program # "matrix_threads" => UNCHANGED matVars
  /\ program # "ProccessNTreads" => UNCHANGED fibVars
  /\ program # "BinTree" => UNCHANGED treeVars
  /\ program # "createEncryptedCopy" => UNCHANGED copyVars
  /\ program # "verify_passcode" => UNCHANGED shaVars
  /\ program # "chacha20_block" => UNCHANGED chaVars

SemStep(t) == program = "Semaphores" /\ Sem!Step(t) /\ Frame

ProgramsNext ==
  \/ \E t \in Sem!Threads : SemStep(t)
  \/ program = "Semaphores" /\ Sem!Return /\ Frame
  \/ program = "CPUruntime" /\ Cpu!Next /\ Frame
  \/ program = "matrix_threads" /\ Mat!Next /\ Frame
  \/ program = "ProccessNTreads" /\ Fib!Next /\ Frame
  \/ program = "BinTree" /\ Tree!Next /\ Frame
  \/ program = "createEncryptedCopy" /\ Copy!Next /\ Frame
  \/ program = "verify_passcode" /\ Sha!Next /\ Frame
  \/ program = "chacha20_block" /\ Cha!Next /\ Frame

(* The program has ended. *)
ProgramsTerminated ==
  /\ CASE program = "Semaphores" -> Sem!Over
       [] program = "CPUruntime" -> Cpu!Over
       [] program = "matrix_threads" -> Mat!Over
       [] program = "ProccessNTreads" -> Fib!Over
       [] program = "BinTree" -> Tree!Over
       [] program = "createEncryptedCopy" -> Copy!Over
       [] program = "verify_passcode" -> Sha!Over
       [] program = "chacha20_block" -> Cha!Over
  /\ UNCHANGED programsVars

(* The threads of Semaphores.c, and its main until it sleeps, run when     *)
(* they can; of the other programs nothing is promised that needs it.      *)
ProgramsSpec ==
  /\ ProgramsInit
  /\ [][ProgramsNext \/ ProgramsTerminated]_programsVars
  /\ \A t \in Sem!Threads : WF_programsVars(SemStep(t))

-----------------------------------------------------------------------------
(* What each program promises; see its module for the code it is about. *)

(* Semaphores.c: A, B, C, C over and over, until main returns. *)
PrintsABCC == program = "Semaphores" => Sem!PrintsABCC

(* CPUruntime.c: no counter goes back between snapshots, until it is freed. *)
SnapshotsGrow == Cpu!SnapshotsGrow

(* matrix_threads.c: the total is the sum of the matrix as it was printed. *)
TotalOfPrinted == Mat!TotalOfPrinted

(* ProccessNTreads.c: the terms of the sequence in order, each once. *)
PrintsDownwards == Fib!PrintsDownwards

(* BinTree.c: no process ends before those below it, and a tree in which   *)
(* nothing failed is complete.                                             *)
EndsBottomUp == Tree!EndsBottomUp

(* createEncryptedCopy.c: status 0 means a whole copy, if reading went well. *)
CopyComplete == Copy!CopyComplete

(* sha256.c, auth.c: FIPS 180-4 for every length; only "Cyber1234" passes. *)
OpensToThePasscode == Sha!OpensToThePasscode

(* chacha20.c: the keystream of RFC 8439. *)
MatchesRFC8439 == Cha!MatchesRFC8439
=============================================================================
