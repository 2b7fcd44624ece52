--------------------------- MODULE Programs_proofs ---------------------------
(***************************************************************************)
(* Proofs about the shells (LibShell) and about the small programs         *)
(* (Programs).                                                             *)
(*                                                                         *)
(* LibShell, for any lines the user may type, any names and any files at   *)
(* the start:                                                              *)
(*   ShellForeground   one process at a time reads the terminal or works   *)
(*   ShellEffect       a command but run changes what it names, as it says *)
(*                                                                         *)
(* Programs, for any sizes, arguments, files and numbers of runs:          *)
(*   LettersInOrder    Semaphores.c prints A, B, C, C over and over        *)
(*   LettersNeverStuck and one of its threads can always go on             *)
(*   CountersSnapshots CPUruntime.c: no counter goes back                  *)
(*   TotalIsOfPrinted  matrix_threads.c: the total is that of the matrix   *)
(*                     that was printed                                    *)
(*   MatrixJoinsEnd    and main never joins for ever                       *)
(*   TermsPrinted      ProccessNTreads.c: the terms in order, each once    *)
(*   TreeEnds          BinTree.c: no process ends before those below it    *)
(*   TreeNeverStuck    and never do all wait                               *)
(*   CopyIsWhole       createEncryptedCopy.c: status 0 is a whole copy     *)
(*   HashesThePadded   sha256.c: the blocks hashed are those of the padded *)
(*                     message, and the buffer is never overrun            *)
(*   RoundsLoseNothing chacha20.c: every quarter round can be undone       *)
(*   AdditionIsModulo  and Add, of the words of both, is + modulo 2^32     *)
(*                                                                         *)
(* Three of these compare a program with a function defined by recursion   *)
(* (Fibonacci's sequence, a sum over a set, the concatenation of a         *)
(* sequence of sequences), and Add is one.  TLA+ defines such a function   *)
(* by CHOOSE, so that nothing is known of it until one is shown to exist:  *)
(* Recursion below, from which each of them is built.                      *)
(***************************************************************************)
EXTENDS LibShell, Programs, FiniteSetTheorems, WellFoundedInduction, TLAPS

-----------------------------------------------------------------------------
(* Concatenation of sequences, index by index. *)
LEMMA ConcatIs ==
  ASSUME NEW S, NEW p \in Seq(S), NEW q \in Seq(S)
  PROVE  /\ p \o q \in Seq(S) /\ Len(p \o q) = Len(p) + Len(q)
         /\ \A k \in 1..Len(p) : (p \o q)[k] = p[k]
         /\ \A k \in 1..Len(q) : (p \o q)[Len(p) + k] = q[k]
OBVIOUS

-----------------------------------------------------------------------------
(* One process in the foreground.  OneInForeground is inductive as it is: *)
(* each step moves a shell and its child together.                         *)

LEMMA ForegroundInit == Init => OneInForeground
BY LibShellAssumption
DEF Init, OneInForeground, TypeOK, Kinds

LEMMA ForegroundNext == OneInForeground /\ [Next]_vars => OneInForeground'
<1> SUFFICES ASSUME OneInForeground, [Next]_vars PROVE OneInForeground'
  OBVIOUS
<1> USE LibShellAssumption DEF OneInForeground, TypeOK, Kinds
<1>1. CASE LibStep
  BY <1>1 DEF LibStep, EnterShell, LibPromptAgain, LibExit, LibWait, Type,
              shells, jobVars
<1>2. CASE StartShell \/ EndOfInput \/ Esc \/ NotSupported \/ TypeMore
  BY <1>2 DEF StartShell, EndOfInput, Esc, NotSupported, TypeMore, Type,
              NeedsInput, Leave, jobVars
<1>3. CASE ReaderLine
  BY <1>3 DEF ReaderLine, Type, Spawn, Waiting, PromptAgain, jobVars
<1>4. CASE CatalogCommand \/ ArchiveCommand
  BY <1>4 DEF CatalogCommand, ArchiveCommand, Spawn, Waiting, PromptAgain,
              jobVars
<1>5. CASE Wait
  BY <1>5 DEF Wait
<1>6. CASE NoEffect \/ RunProgram \/ OpenMerge \/ EndMerge
  BY <1>6 DEF NoEffect, RunProgram, OpenMerge, EndMerge, Exit, shells, jobVars
<1>7. CASE NewCat \/ Remove \/ Protect
  BY <1>7 DEF NewCat, Remove, Protect, Change, Exit, shells
<1>8. CASE CopyChunk
  BY <1>8 DEF CopyChunk, shells
<1>9. CASE UNCHANGED vars
  BY <1>9 DEF vars, shells, jobVars
<1> QED
  BY <1>1, <1>2, <1>3, <1>4, <1>5, <1>6, <1>7, <1>8, <1>9
  DEF Next, ShellStep, CommandStep, Terminated

(***************************************************************************)
(* One process at a time reads the terminal or works: libshell waits       *)
(* exactly as long as it has a child, and that shell exactly as long as it *)
(* has one, whatever forks and execs fail (libshell.c, and main of the     *)
(* three shells: fork, execl or a handler in the child, wait).             *)
(***************************************************************************)
THEOREM ShellForeground == Spec => []OneInForeground
BY ForegroundInit, ForegroundNext, PTL DEF Spec

-----------------------------------------------------------------------------
(* The effect of a command.  EffectAsNamed says nothing of how far a merge *)
(* has come; Working does, and what the other commands have not done yet.  *)

(* the modes protect gives are numbers *)
Entries == [type : {"none", "file", "dir"}, content : Seq(Chunks), mode : Int]

(***************************************************************************)
(* The inductive invariant.  A command that has not started has changed    *)
(* nothing; a merge that has copied some chunks has appended as many from  *)
(* the beginning of its source, as that is now, and changed nothing else;  *)
(* a command that has ended leaves what EffectAsNamed says.  Of run        *)
(* nothing is known but that it leaves files.                              *)
(***************************************************************************)
Working ==
  /\ files \in [Names -> Entries] /\ before \in [Names -> Entries]
  /\ cmd = "running" /\ job[1] # "run" => files = before /\ copied = 0
  /\ cmd = "copying" =>
       /\ job[1] = "merge" /\ {src, dst} \subseteq Names
       /\ copied \in 0..Len(files[src].content)
       /\ copied # 0 => before[src].content # <<>>
       /\ files = [before EXCEPT
                     ![dst] = Extended(@, files[src].content, copied)]
  /\ cmd = "zombie" => EffectAsNamed

(* Prefixes of sequences, index by index. *)
LEMMA PrefixIs ==
  ASSUME NEW S, NEW q \in Seq(S), NEW n \in 0..Len(q)
  PROVE  /\ SubSeq(q, 1, n) \in Seq(S) /\ Len(SubSeq(q, 1, n)) = n
         /\ \A k \in 1..n : SubSeq(q, 1, n)[k] = q[k]
OBVIOUS

(* Appending no chunk changes nothing; appending one more is one more. *)
LEMMA ExtendNothing ==
  ASSUME NEW S, NEW p \in Seq(S), NEW q \in Seq(S)
  PROVE  p \o SubSeq(q, 1, 0) = p
OBVIOUS

LEMMA ExtendOne ==
  ASSUME NEW S, NEW p \in Seq(S), NEW q \in Seq(S), NEW n \in 0..(Len(q) - 1)
  PROVE  Append(p \o SubSeq(q, 1, n), q[n + 1]) = p \o SubSeq(q, 1, n + 1)
<1>1. n \in 0..Len(q) /\ n + 1 \in 0..Len(q) /\ n + 1 \in 1..Len(q)
  OBVIOUS
<1> DEFINE a == SubSeq(q, 1, n)
           b == SubSeq(q, 1, n + 1)
<1>2. a \in Seq(S) /\ Len(a) = n /\ \A k \in 1..n : a[k] = q[k]
  BY <1>1, PrefixIs
<1>3. /\ b \in Seq(S) /\ Len(b) = n + 1
      /\ \A k \in 1..(n + 1) : b[k] = q[k]
  BY <1>1, PrefixIs
<1> HIDE DEF a, b
<1>4. b = Append(a, q[n + 1])
  BY <1>1, <1>2, <1>3
<1>5. q[n + 1] \in S
  BY <1>1
<1>6. Append(p \o a, q[n + 1]) = p \o Append(a, q[n + 1])
  BY <1>2, <1>5
<1> QED
  BY <1>4, <1>6 DEF a, b

(* What is appended to a sequence leaves its beginning as it is. *)
LEMMA FirstOfAppend ==
  ASSUME NEW S, NEW q \in Seq(S), NEW c \in S, NEW n \in 0..Len(q)
  PROVE  SubSeq(Append(q, c), 1, n) = SubSeq(q, 1, n)
OBVIOUS

LEMMA NewEntries == Nothing \in Entries /\ NewDirectory \in Entries
<1>1. <<>> \in Seq(Chunks)
  OBVIOUS
<1> QED
  BY <1>1 DEF Nothing, NewDirectory, Entry, Entries

LEMMA WorkingInit == Init => Working
<1> SUFFICES ASSUME Init PROVE Working
  OBVIOUS
<1>1. ASSUME NEW n \in DOMAIN Contents PROVE OldFile(Contents[n]) \in Entries
  BY LibShellAssumption DEF OldFile, Entry, Entries
<1>2. files \in [Names -> Entries]
  BY <1>1, NewEntries DEF Init
<1> QED
  BY <1>2 DEF Init, Working

(* A step of the shells alone does not disturb Working, nor does fork. *)
LEMMA SameWorking ==
  ASSUME Working, UNCHANGED <<cmd, job, copied, before, files>>
  PROVE  Working'
BY DEF Working, EffectAsNamed, Outcomes, Merged, src, dst

LEMMA SpawnWorking ==
  ASSUME Working, NEW words, Spawn(words)
  PROVE  Working'
BY DEF Working, Spawn

(* Nor does a command that ends with an outcome of its job. *)
LEMMA EndWorking ==
  ASSUME Working, cmd' = "zombie", UNCHANGED <<job, copied, before>>,
         files' \in [Names -> Entries],
         job[1] # "run" => \A n \in Names : files'[n] \in Outcomes(n)
  PROVE  Working'
BY DEF Working, EffectAsNamed, Outcomes, src, dst

(* The files in the middle of a merge are an outcome of it already. *)
LEMMA CopyingEffect ==
  ASSUME Working, cmd = "copying"
  PROVE  EffectAsNamed
<1>1. /\ job[1] = "merge" /\ {src, dst} \subseteq Names
      /\ copied \in 0..Len(files[src].content)
      /\ copied # 0 => before[src].content # <<>>
      /\ files = [before EXCEPT
                    ![dst] = Extended(@, files[src].content, copied)]
      /\ before \in [Names -> Entries] /\ files \in [Names -> Entries]
  BY DEF Working
<1>2. PICK e, d \in Entries : e = before[dst] /\ d = files[src]
  BY <1>1
<1>3. files[dst] = Extended(e, d.content, copied)
  BY <1>1, <1>2
<1>4. ASSUME NEW n \in Names, n # dst PROVE files[n] \in Outcomes(n)
  BY <1>1, <1>4 DEF Outcomes
<1>5. CASE copied = 0
  <2>1. e.content \o SubSeq(d.content, 1, 0) = e.content
    BY ExtendNothing DEF Entries
  <2>2. Extended(e, d.content, copied) = e
    BY <1>5, <2>1 DEF Extended, Entries
  <2>3. files[dst] \in Outcomes(dst)
    BY <1>1, <1>2, <1>3, <2>2 DEF Outcomes
  <2> QED
    BY <1>4, <2>3 DEF EffectAsNamed
<1>6. CASE copied # 0
  <2>1. copied \in 1..Len(files[src].content)
    BY <1>1, <1>2, <1>6 DEF Entries
  <2>2. Merged
    BY <1>1, <1>2, <1>3, <1>6, <2>1 DEF Merged
  <2> QED
    BY <1>1, <1>4, <2>2 DEF EffectAsNamed
<1> QED
  BY <1>5, <1>6

(* The step of a merge: one more chunk of the source, whether or not the   *)
(* source is the file that grows.                                          *)
LEMMA CopyWorking == Working /\ CopyChunk => Working'
<1> SUFFICES ASSUME Working, CopyChunk PROVE Working'
  OBVIOUS
<1>1. /\ cmd = "copying" /\ copied' = copied + 1
      /\ UNCHANGED <<cmd, job, before>>
      /\ copied < Len(files[src].content)
      /\ files' = [files EXCEPT ![dst].content =
                     Append(@, files[src].content[copied + 1])]
  BY DEF CopyChunk, Appended
<1>2. /\ job[1] = "merge" /\ {src, dst} \subseteq Names
      /\ copied \in 0..Len(files[src].content)
      /\ copied # 0 => before[src].content # <<>>
      /\ files = [before EXCEPT
                    ![dst] = Extended(@, files[src].content, copied)]
      /\ before \in [Names -> Entries] /\ files \in [Names -> Entries]
  BY <1>1 DEF Working
<1>3. PICK e, d \in Entries : e = before[dst] /\ d = files[src]
  BY <1>2
<1>4. PICK p, q \in Seq(Chunks) : p = e.content /\ q = d.content
  BY DEF Entries
<1>5. /\ copied \in 0..(Len(q) - 1) /\ copied + 1 \in 1..Len(q)
      /\ copied + 1 \in 0..Len(q)
  BY <1>1, <1>2, <1>3, <1>4
<1>6. files[dst] = Extended(e, q, copied)
  BY <1>2, <1>3, <1>4
<1>7. [Extended(e, q, copied) EXCEPT !.content = Append(@, q[copied + 1])]
        = Extended(e, q, copied + 1)
  <2>1. Append(p \o SubSeq(q, 1, copied), q[copied + 1])
          = p \o SubSeq(q, 1, copied + 1)
    BY <1>5, ExtendOne
  <2> QED
    BY <1>4, <2>1 DEF Extended, Entries
<1>8. /\ files'[dst] = Extended(e, q, copied + 1)
      /\ \A n \in Names \ {dst} : files'[n] = before[n]
  BY <1>1, <1>2, <1>3, <1>4, <1>6, <1>7
<1>9. Extended(e, q, copied + 1) \in Entries
  <2>1. p \o SubSeq(q, 1, copied + 1) \in Seq(Chunks)
    BY <1>5, PrefixIs, ConcatIs
  <2> QED
    BY <1>4, <2>1 DEF Extended, Entries
<1>10. files' \in [Names -> Entries]
  BY <1>1, <1>2, <1>8, <1>9
(* the chunks copied so far are still the first of the source *)
<1>11. PICK r \in Seq(Chunks) :
         /\ r = files'[src].content /\ copied + 1 <= Len(r)
         /\ SubSeq(r, 1, copied + 1) = SubSeq(q, 1, copied + 1)
  <2>1. CASE src # dst
    <3>1. files'[src].content = q
      BY <1>1, <1>2, <1>3, <1>4, <2>1
    <3> QED
      BY <1>5, <3>1
  <2>2. CASE src = dst
    <3>1. files'[src].content = Append(q, q[copied + 1])
      BY <1>1, <1>2, <1>3, <1>4, <2>2 DEF Entries
    <3>2. q[copied + 1] \in Chunks
      BY <1>5
    <3>3. /\ Append(q, q[copied + 1]) \in Seq(Chunks)
          /\ copied + 1 <= Len(Append(q, q[copied + 1]))
      BY <1>5, <3>2
    <3>4. SubSeq(Append(q, q[copied + 1]), 1, copied + 1)
            = SubSeq(q, 1, copied + 1)
      BY <1>5, <3>2, FirstOfAppend
    <3> QED
      BY <3>1, <3>3, <3>4
  <2> QED
    BY <2>1, <2>2
<1>12. files'[dst] = Extended(e, r, copied + 1)
  BY <1>8, <1>11 DEF Extended
<1>13. before[src].content # <<>>
  <2>1. CASE copied = 0
    <3>1. p \o SubSeq(q, 1, 0) = p
      BY ExtendNothing
    <3>2. Extended(e, q, copied) = e
      BY <1>4, <2>1, <3>1 DEF Extended, Entries
    <3>3. before[src] = files[src]
      BY <1>2, <1>3, <1>6, <3>2
    <3> QED
      BY <1>3, <1>4, <1>5, <3>3
  <2> QED
    BY <1>2, <2>1
<1>14. files' = [before EXCEPT ![dst] = Extended(@, r, copied + 1)]
  BY <1>2, <1>3, <1>8, <1>10, <1>12
<1>15. copied + 1 \in 0..Len(r)
  BY <1>5, <1>11
<1> QED
  BY <1>1, <1>2, <1>10, <1>11, <1>13, <1>14, <1>15 DEF Working, src, dst

LEMMA CommandWorking == Working /\ CommandStep => Working'
<1> SUFFICES ASSUME Working, CommandStep PROVE Working'
  OBVIOUS
<1>1. CASE NoEffect
  <2>1. /\ cmd' = "zombie" /\ UNCHANGED <<job, copied, before, files>>
        /\ job[1] # "run" => files = before
    BY <1>1 DEF NoEffect, Exit, Working
  <2>2. job[1] # "run" => \A n \in Names : files'[n] \in Outcomes(n)
    BY <2>1 DEF Outcomes
  <2> QED
    BY <2>1, <2>2, EndWorking DEF Working
<1>2. CASE RunProgram
  <2>1. /\ cmd = "running" /\ job[1] = "run" /\ UNCHANGED <<cmd, job, before>>
        /\ files' \in [Names -> Entries]
    BY <1>2, LibShellAssumption DEF RunProgram, Working, Entries, jobVars
  <2> QED
    BY <2>1 DEF Working
<1>3. CASE NewCat
  <2>1. /\ cmd' = "zombie" /\ UNCHANGED <<job, copied, before>>
        /\ files = before /\ job[1] = "newcat" /\ job[2] \in Names
        /\ files' = [files EXCEPT ![job[2]] = NewDirectory]
    BY <1>3 DEF NewCat, Change, Exit, Working
  <2>2. \A n \in Names : files'[n] \in Outcomes(n)
    BY <2>1 DEF Outcomes, Working
  <2> QED
    BY <2>1, <2>2, NewEntries, EndWorking DEF Working
<1>4. CASE Remove
  <2>1. /\ cmd' = "zombie" /\ UNCHANGED <<job, copied, before>>
        /\ files = before /\ job[1] = "remove" /\ job[2] \in Names
        /\ files' = [files EXCEPT ![job[2]] = Nothing]
    BY <1>4 DEF Remove, Change, Exit, Working
  <2>2. \A n \in Names : files'[n] \in Outcomes(n)
    BY <2>1 DEF Outcomes, Working
  <2> QED
    BY <2>1, <2>2, NewEntries, EndWorking DEF Working
<1>5. CASE Protect
  <2>1. /\ cmd' = "zombie" /\ UNCHANGED <<job, copied, before>>
        /\ files = before /\ job[1] = "protect" /\ job[3] \in Names
        /\ files' = [files EXCEPT ![job[3]] =
                       [files[job[3]] EXCEPT !.mode = ParseMode(job[2])]]
    BY <1>5 DEF Protect, Change, Exit, Working
  <2>2. ParseMode(job[2]) \in Int
    BY LibShellAssumption DEF ParseMode
  <2>3. files' \in [Names -> Entries]
    BY <2>1, <2>2 DEF Working, Entries
  <2>4. \A n \in Names : files'[n] \in Outcomes(n)
    BY <2>1 DEF Outcomes, Working
  <2> QED
    BY <2>1, <2>3, <2>4, EndWorking
<1>6. CASE OpenMerge
  <2>1. /\ cmd' = "copying" /\ UNCHANGED <<job, copied, before, files>>
        /\ job[1] = "merge" /\ {src, dst} \subseteq Names
        /\ files = before /\ copied = 0
    BY <1>6 DEF OpenMerge, Working
  <2>2. PICK e, d \in Entries : e = before[dst] /\ d = files[src]
    BY <2>1 DEF Working
  <2>3. Extended(e, d.content, 0) = e
    <3>1. e.content \o SubSeq(d.content, 1, 0) = e.content
      BY ExtendNothing DEF Entries
    <3> QED
      BY <3>1 DEF Extended, Entries
  <2>4. files = [before EXCEPT
                  ![dst] = Extended(@, files[src].content, copied)]
    BY <2>1, <2>2, <2>3 DEF Working
  <2>5. copied \in 0..Len(files[src].content)
    BY <2>1, <2>2 DEF Entries
  <2> QED
    BY <2>1, <2>4, <2>5 DEF Working, src, dst
<1>7. CASE CopyChunk
  BY <1>7, CopyWorking
<1>8. CASE EndMerge
  <2>1. /\ cmd = "copying" /\ cmd' = "zombie"
        /\ UNCHANGED <<job, copied, before, files>>
    BY <1>8 DEF EndMerge, Exit
  <2>2. EffectAsNamed
    BY <2>1, CopyingEffect
  <2>3. EffectAsNamed'
    BY <2>1, <2>2 DEF EffectAsNamed, Outcomes, Merged, src, dst
  <2> QED
    BY <2>1, <2>3 DEF Working
<1> QED
  BY <1>1, <1>2, <1>3, <1>4, <1>5, <1>6, <1>7, <1>8 DEF CommandStep

LEMMA WorkingNext == Working /\ [Next]_vars => Working'
<1> SUFFICES ASSUME Working, [Next]_vars PROVE Working'
  OBVIOUS
<1>1. CASE LibStep
  BY <1>1, SameWorking
  DEF LibStep, EnterShell, LibPromptAgain, LibExit, LibWait, jobVars
<1>2. CASE StartShell \/ EndOfInput \/ Esc \/ NotSupported \/ TypeMore
  BY <1>2, SameWorking
  DEF StartShell, EndOfInput, Esc, NotSupported, TypeMore, Leave, jobVars
<1>3. CASE ReaderLine \/ CatalogCommand \/ ArchiveCommand
  <2>1. PromptAgain \/ \E words : Spawn(words)
    BY <1>3 DEF ReaderLine, CatalogCommand, ArchiveCommand
  <2> QED
    BY <2>1, SameWorking, SpawnWorking DEF PromptAgain, jobVars
<1>4. CASE Wait
  BY <1>4 DEF Wait, Working
<1>5. CASE CommandStep
  BY <1>5, CommandWorking
<1>6. CASE UNCHANGED vars
  BY <1>6, SameWorking DEF vars, jobVars
<1> QED
  BY <1>1, <1>2, <1>3, <1>4, <1>5, <1>6 DEF Next, ShellStep, Terminated

LEMMA WorkingHolds == Spec => []Working
BY WorkingInit, WorkingNext, PTL DEF Spec

(* At every moment of a job, the files are an outcome of it. *)
LEMMA WorkingEffect == OneInForeground /\ Working => EffectAsNamed
<1> SUFFICES ASSUME OneInForeground, Working, cmd # "none", job[1] # "run"
             PROVE  EffectAsNamed
  BY DEF EffectAsNamed
<1>1. cmd \in {"running", "copying", "zombie"}
  BY DEF OneInForeground, TypeOK
<1>2. CASE cmd = "running"
  BY <1>2 DEF Working, Outcomes, EffectAsNamed
<1>3. CASE cmd = "zombie"
  BY <1>3 DEF Working
<1>4. CASE cmd = "copying"
  BY <1>4, CopyingEffect
<1> QED
  BY <1>1, <1>2, <1>3, <1>4

(***************************************************************************)
(* While a command's process exists, and when it has ended, every file is  *)
(* as it was when the command was forked, except that the one it names may *)
(* have changed as the command says, a merge in part (the handlers of      *)
(* catalog_shell.c and archive_shell.c).  A file merged into itself has    *)
(* grown by repeating itself.  The program that run starts may leave       *)
(* anything, and nothing is said of it.                                    *)
(***************************************************************************)
THEOREM ShellEffect == Spec => []EffectAsNamed
BY ShellForeground, WorkingHolds, WorkingEffect, PTL

-----------------------------------------------------------------------------
(* Functions defined by recursion over the natural numbers. *)

(* Induction over Nat, for a set of numbers. *)
LEMMA Induction ==
  ASSUME NEW S \in SUBSET Nat, 0 \in S, \A n \in S : n + 1 \in S
  PROVE  S = Nat
<1> DEFINE Out == Nat \ S
           R == {x \in Nat \X Nat : x[1] < x[2]}
<1> SUFFICES ASSUME Out # {} PROVE FALSE
  OBVIOUS
<1>1. IsWellFoundedOn(R, Nat)
  BY NatLessThanWellFounded DEF OpToRel
<1>2. Out \subseteq Nat
  OBVIOUS
<1>3. \E m \in Out : \A l \in Out : <<l, m>> \notin R
  <2> HIDE DEF Out, R
  <2> QED
    BY <1>1, <1>2, WFMin
<1>4. PICK m \in Out : \A l \in Out : <<l, m>> \notin R
  BY <1>3
<1>5. m \in Nat /\ m # 0 /\ m - 1 \in Nat /\ <<m - 1, m>> \in R
  BY <1>4
<1>6. m - 1 \in S
  BY <1>4, <1>5
<1> QED
  BY <1>4, <1>5, <1>6

(* step says what follows the n-th element of a sequence over S ... *)
StepOn(S, step) == step \in [Nat -> [S -> S]]

(* ... and f is the sequence it makes from a. *)
Iterates(f, S, a, step) ==
  f \in [Nat -> S] /\ f[0] = a /\ \A n \in Nat : f[n + 1] = step[n][f[n]]

(***************************************************************************)
(* There is such a sequence: initial parts of it exist for every length,   *)
(* two of them agree as far as both go, and its n-th element is that of    *)
(* the part of length n.                                                   *)
(***************************************************************************)
LEMMA Recursion ==
  ASSUME NEW S, NEW a, a \in S, NEW step, StepOn(S, step)
  PROVE  \E f : Iterates(f, S, a, step)
<1> USE DEF StepOn
<1> DEFINE Upto(f, m) == /\ f \in [0..m -> S] /\ f[0] = a
                         /\ \A n \in 0..(m - 1) : f[n + 1] = step[n][f[n]]
           Some == {m \in Nat : \E f : Upto(f, m)}
<1>1. Some = Nat
  <2>1. 0 \in Some
    <3>1. Upto([n \in 0..0 |-> a], 0)
      OBVIOUS
    <3> QED
      BY <3>1
  <2>2. ASSUME NEW m \in Some PROVE m + 1 \in Some
    <3>1. PICK f : Upto(f, m)
      BY <2>2
    <3>2. m \in Nat
      BY <2>2
    <3> DEFINE g == [n \in 0..(m + 1) |->
                       IF n <= m THEN f[n] ELSE step[m][f[m]]]
    <3>3. g \in [0..(m + 1) -> S] /\ g[0] = a
      BY <3>1, <3>2
    <3>4. ASSUME NEW n \in 0..((m + 1) - 1)
          PROVE  g[n + 1] = step[n][g[n]]
      <4>1. CASE n < m
        <5>1. n \in 0..(m - 1) /\ n \in 0..(m + 1) /\ n + 1 \in 0..(m + 1)
          BY <3>2, <4>1
        <5>2. g[n] = f[n] /\ g[n + 1] = f[n + 1]
          BY <3>2, <4>1, <5>1
        <5> QED
          BY <3>1, <5>1, <5>2
      <4>2. CASE n = m
        <5>1. n \in 0..(m + 1) /\ n + 1 \in 0..(m + 1) /\ ~(n + 1 <= m)
          BY <3>2, <4>2
        <5> QED
          BY <4>2, <5>1
      <4> QED
        BY <3>2, <4>1, <4>2
    <3>5. Upto(g, m + 1)
      BY <3>3, <3>4
    <3> HIDE DEF Upto, g
    <3> QED
      BY <3>2, <3>5
  <2> HIDE DEF Some
  <2>3. Some \subseteq Nat
    BY DEF Some
  <2> QED
    BY <2>1, <2>2, <2>3, Induction
<1> DEFINE First(m) == CHOOSE f : Upto(f, m)
<1>2. ASSUME NEW m \in Nat PROVE Upto(First(m), m)
  <2>1. \E f : Upto(f, m)
    BY <1>1
  <2> HIDE DEF Upto
  <2> QED
    BY <2>1
<1> HIDE DEF First
<1>3. ASSUME NEW m \in Nat PROVE First(m + 1)[m] = First(m)[m]
  <2> DEFINE Same == {n \in Nat : n <= m => First(m + 1)[n] = First(m)[n]}
  <2>1. Upto(First(m), m) /\ Upto(First(m + 1), m + 1)
    BY <1>2
  <2>2. 0 \in Same
    BY <2>1
  <2>3. ASSUME NEW n \in Same PROVE n + 1 \in Same
    <3>1. CASE n + 1 <= m
      <4>1. n \in 0..(m - 1) /\ n \in 0..((m + 1) - 1) /\ n <= m
        BY <2>3, <3>1
      <4>2. First(m + 1)[n] = First(m)[n]
        BY <2>3, <4>1
      <4>3. First(m)[n + 1] = step[n][First(m)[n]]
        BY <2>1, <4>1
      <4>4. First(m + 1)[n + 1] = step[n][First(m + 1)[n]]
        BY <2>1, <4>1
      <4> QED
        BY <2>3, <4>2, <4>3, <4>4
    <3>2. CASE ~(n + 1 <= m)
      BY <2>3, <3>2
    <3> QED
      BY <3>1, <3>2
  <2>4. Same = Nat
    <3>1. Same \subseteq Nat
      OBVIOUS
    <3> HIDE DEF Same
    <3> QED
      BY <2>2, <2>3, <3>1, Induction
  <2> QED
    BY <2>4
<1> DEFINE f == [n \in Nat |-> First(n)[n]]
<1>4. f \in [Nat -> S]
  <2>1. ASSUME NEW n \in Nat PROVE First(n)[n] \in S
    BY <1>2
  <2> QED
    BY <2>1
<1>5. f[0] = a
  BY <1>2
<1>6. ASSUME NEW n \in Nat PROVE f[n + 1] = step[n][f[n]]
  <2>1. n \in 0..((n + 1) - 1) /\ n + 1 \in Nat
    OBVIOUS
  <2>2. First(n + 1)[n + 1] = step[n][First(n + 1)[n]]
    BY <1>2, <2>1
  <2> QED
    BY <1>3, <2>1, <2>2
<1> HIDE DEF f
<1> QED
  BY <1>4, <1>5, <1>6 DEF Iterates

-----------------------------------------------------------------------------
(* Semaphores.c *)

(* the thread t does not exist yet, or is about to wait *)
Idle(t) == stage[t] \in {"off", "wait"}

(***************************************************************************)
(* Semaphores.c: whose turn it is, by the number of letters printed: one   *)
(* semaphore is up or one thread is on its way from its wait to its post,  *)
(* except that C may be a letter ahead of B's second post.                 *)
(***************************************************************************)
Turn ==
  /\ Len(printed) % 4 = 0 =>
       /\ ~odd /\ Idle("B") /\ s2 = 0 /\ s3 = 0
       /\ \/ s1 = 0 /\ Idle("A") /\ stage["C"] = "post"
          \/ s1 = 1 /\ Idle("A") /\ Idle("C")
          \/ s1 = 0 /\ stage["A"] = "print" /\ Idle("C")
  /\ Len(printed) % 4 = 1 =>
       /\ ~odd /\ Idle("C") /\ s1 = 0 /\ s3 = 0
       /\ \/ s2 = 0 /\ stage["A"] = "post" /\ Idle("B")
          \/ s2 = 1 /\ Idle("A") /\ Idle("B")
          \/ s2 = 0 /\ Idle("A") /\ stage["B"] = "print"
  /\ Len(printed) % 4 = 2 =>
       /\ Idle("A") /\ s1 = 0 /\ s2 = 0
       /\ \/ stage["B"] = "post_twice" /\ s3 = 0 /\ Idle("C") /\ ~odd
          \/ stage["B"] = "post" /\ s3 = 1 /\ Idle("C") /\ ~odd
          \/ stage["B"] = "post" /\ s3 = 0 /\ stage["C"] = "print" /\ odd
          \/ Idle("B") /\ s3 = 2 /\ Idle("C") /\ ~odd
          \/ Idle("B") /\ s3 = 1 /\ stage["C"] = "print" /\ odd
  /\ Len(printed) % 4 = 3 =>
       /\ Idle("A") /\ s1 = 0 /\ s2 = 0
       /\ \/ stage["B"] = "post" /\ s3 = 0 /\ Idle("C") /\ odd
          \/ Idle("B") /\ s3 = 1 /\ Idle("C") /\ odd
          \/ Idle("B") /\ s3 = 0 /\ stage["C"] = "print" /\ ~odd

(* the k-th letter *)
Letter(k) == <<"A", "B", "C", "C">>[((k - 1) % 4) + 1]

InOrder == \A k \in DOMAIN printed : printed[k] = Letter(k)

(***************************************************************************)
(* The inductive invariant: the letters so far, whose turn it is, and that *)
(* a thread main has not created yet is not running.                       *)
(***************************************************************************)
Printing ==
  /\ stage \in [Sem!Threads ->
                  {"off", "wait", "print", "post_twice", "post"}]
  /\ made \in 0..4 /\ odd \in BOOLEAN
  /\ made = 0 => stage["A"] = "off"
  /\ made <= 1 => stage["B"] = "off"
  /\ made <= 2 => stage["C"] = "off"
  /\ printed \in Seq(Sem!Threads)
  /\ InOrder
  /\ Turn

LEMMA PrintingInit == ProgramsInit => Printing
<1> SUFFICES ASSUME Sem!Init PROVE Printing
  BY DEF ProgramsInit
<1>1. printed = <<>> /\ Len(printed) = 0 /\ DOMAIN printed = {}
      /\ printed \in Seq(Sem!Threads)
  BY DEF Sem!Init
<1>2. 0 % 4 = 0
  OBVIOUS
<1>3. Turn
  BY <1>1, <1>2 DEF Sem!Init, Sem!Threads, Turn, Idle
<1>4. /\ stage = [t \in Sem!Threads |-> "off"] /\ made = 0 /\ odd = FALSE
  BY DEF Sem!Init
<1>5. /\ stage \in [Sem!Threads ->
                      {"off", "wait", "print", "post_twice", "post"}]
      /\ \A t \in Sem!Threads : stage[t] = "off"
  BY <1>4
<1>6. "A" \in Sem!Threads /\ "B" \in Sem!Threads /\ "C" \in Sem!Threads
  BY DEF Sem!Threads
<1>7. InOrder
  BY <1>1 DEF InOrder
<1>8. made = 0 /\ made \in 0..4
  BY <1>4
<1>9. odd \in BOOLEAN
  BY <1>4
<1> QED
  BY <1>1, <1>3, <1>5, <1>6, <1>7, <1>8, <1>9 DEF Printing

LEMMA Remainders ==
  ASSUME NEW n \in Nat
  PROVE  /\ n % 4 \in 0..3
         /\ (n + 1) % 4 = IF n % 4 = 3 THEN 0 ELSE (n % 4) + 1
OBVIOUS

LEMMA PrintingStep ==
  ASSUME Printing, NEW t \in Sem!Threads, Sem!Step(t)
  PROVE  Printing'
<1> USE DEF Sem!Threads
<1>0. /\ stage \in [Sem!Threads ->
                      {"off", "wait", "print", "post_twice", "post"}]
      /\ odd \in BOOLEAN /\ printed \in Seq(Sem!Threads) /\ Turn
      /\ Len(printed) \in Nat /\ Len(printed) % 4 \in 0..3
  BY Remainders DEF Printing
<1>1. CASE Sem!Create(t)
  <2>1. /\ made \in 0..2 /\ made' = made + 1
        /\ stage' = [stage EXCEPT ![t] = "wait"]
        /\ UNCHANGED <<s1, s2, s3, odd, printed>>
    BY <1>1 DEF Sem!Create, Printing
  <2>2. /\ t = "A" => made = 0 /\ stage["A"] = "off"
        /\ t = "B" => made = 1 /\ stage["B"] = "off"
        /\ t = "C" => made = 2 /\ stage["C"] = "off"
    BY <1>1, <2>1 DEF Sem!Create, Printing
  <2>3. Turn'
    BY <1>0, <2>1, <2>2 DEF Turn, Idle
  <2> QED
    BY <1>0, <2>1, <2>2, <2>3 DEF Printing, InOrder
<1>2. CASE Sem!Wait(t)
  <2>1. /\ stage[t] = "wait" /\ stage' = [stage EXCEPT ![t] = "print"]
        /\ UNCHANGED <<made, printed>>
        /\ odd' = IF t = "C" THEN ~odd ELSE odd
        /\ \/ t = "A" /\ s1 > 0 /\ s1' = s1 - 1 /\ UNCHANGED <<s2, s3>>
           \/ t = "B" /\ s2 > 0 /\ s2' = s2 - 1 /\ UNCHANGED <<s1, s3>>
           \/ t = "C" /\ s3 > 0 /\ s3' = s3 - 1 /\ UNCHANGED <<s1, s2>>
    BY <1>2 DEF Sem!Wait, Sem!Goto
  <2>2. Turn'
    <3>1. CASE t = "A"
      BY <1>0, <2>1, <3>1 DEF Turn, Idle
    <3>2. CASE t = "B"
      BY <1>0, <2>1, <3>2 DEF Turn, Idle
    <3>3. CASE t = "C"
      <4>1. odd' <=> ~odd
        BY <1>0, <2>1, <3>3
      <4>2. s3 > 0 /\ s3' = s3 - 1 /\ UNCHANGED <<s1, s2>>
        BY <2>1, <3>3
      <4> QED
        BY <1>0, <2>1, <3>3, <4>1, <4>2 DEF Turn, Idle
    <3> QED
      BY <3>1, <3>2, <3>3
  <2> QED
    BY <1>0, <2>1, <2>2 DEF Printing, InOrder
<1>3. CASE Sem!PrintLetter(t)
  <2>1. /\ stage[t] = "print"
        /\ stage' = [stage EXCEPT ![t] = Sem!AfterLetter(t)]
        /\ printed' = Append(printed, t)
        /\ UNCHANGED <<made, s1, s2, s3, odd>>
    BY <1>3 DEF Sem!PrintLetter, Sem!Goto
  <2>2. /\ Len(printed') = Len(printed) + 1
        /\ Len(printed') % 4 = IF Len(printed) % 4 = 3 THEN 0
                               ELSE (Len(printed) % 4) + 1
    BY <1>0, <2>1, Remainders
  <2>3. Turn'
    BY <1>0, <2>1, <2>2 DEF Turn, Idle, Sem!AfterLetter
  <2>4. t = <<"A", "B", "C", "C">>[(Len(printed) % 4) + 1]
    <3>1. /\ Len(printed) % 4 = 0 => t = "A"
          /\ Len(printed) % 4 = 1 => t = "B"
          /\ Len(printed) % 4 \in {2, 3} => t = "C"
      BY <1>0, <2>1 DEF Turn, Idle
    <3>2. ASSUME NEW m \in 0..3
          PROVE  <<"A", "B", "C", "C">>[m + 1] =
                   IF m = 0 THEN "A" ELSE IF m = 1 THEN "B" ELSE "C"
      OBVIOUS
    <3> QED
      BY <1>0, <3>1, <3>2
  <2>5. t = Letter(Len(printed) + 1)
    <3>1. (Len(printed) + 1) - 1 = Len(printed)
      BY <1>0
    <3> QED
      BY <2>4, <3>1 DEF Letter
  <2>6. InOrder'
    BY <1>0, <2>1, <2>5 DEF Printing, InOrder
  <2> QED
    BY <1>0, <2>1, <2>3, <2>6 DEF Printing, Sem!AfterLetter
<1>4. CASE Sem!Post(t)
  <2>1. /\ \/ stage[t] = "post" /\ stage' = [stage EXCEPT ![t] = "wait"]
           \/ stage[t] = "post_twice" /\ stage' = [stage EXCEPT ![t] = "post"]
        /\ s1' = IF t = "C" THEN s1 + 1 ELSE s1
        /\ s2' = IF t = "A" THEN s2 + 1 ELSE s2
        /\ s3' = IF t = "B" THEN s3 + 1 ELSE s3
        /\ UNCHANGED <<made, odd, printed>>
    BY <1>4 DEF Sem!Post, Sem!Goto
  <2>2. Turn'
    BY <1>0, <2>1 DEF Turn, Idle
  <2> QED
    BY <1>0, <2>1, <2>2 DEF Printing, InOrder
<1> QED
  BY <1>1, <1>2, <1>3, <1>4 DEF Sem!Step

LEMMA ReturnPrinting == Printing /\ Sem!Return => Printing'
BY DEF Printing, Turn, Idle, InOrder, Sem!Return, Sem!Running

LEMMA SamePrinting == Printing /\ UNCHANGED semVars => Printing'
BY DEF Printing, Turn, Idle, InOrder, semVars

LEMMA SemSteps ==
  ASSUME [ProgramsNext \/ ProgramsTerminated]_programsVars
  PROVE  \/ \E t \in Sem!Threads : Sem!Step(t)
         \/ Sem!Return
         \/ UNCHANGED semVars
BY DEF ProgramsNext, ProgramsTerminated, programsVars, SemStep, Frame

(***************************************************************************)
(* Semaphores.c prints A, B, C, C over and over (line 16), in whatever     *)
(* order its threads run: the part of PrintsABCC that holds at every       *)
(* moment.  That they go on is left to TLC.                                *)
(***************************************************************************)
THEOREM LettersInOrder ==
  ProgramsSpec =>
    [](\A k \in DOMAIN printed :
         printed[k] = <<"A", "B", "C", "C">>[((k - 1) % 4) + 1])
<1>1. Printing /\ [ProgramsNext \/ ProgramsTerminated]_programsVars => Printing'
  BY PrintingStep, ReturnPrinting, SamePrinting, SemSteps
<1>2. Printing => \A k \in DOMAIN printed :
                    printed[k] = <<"A", "B", "C", "C">>[((k - 1) % 4) + 1]
  BY DEF Printing, InOrder, Letter
<1> QED
  BY PrintingInit, <1>1, <1>2, PTL DEF ProgramsSpec

(* Threads that main has created stay in their loops. *)
Begun ==
  /\ made \in {1, 2, 3} => stage["A"] # "off"
  /\ made \in {2, 3} => stage["B"] # "off"
  /\ made = 3 => stage["C"] # "off"

LEMMA BegunStep ==
  ASSUME Printing, Begun, Sem!Return \/ \E t \in Sem!Threads : Sem!Step(t)
  PROVE  Begun'
<1> USE DEF Printing, Begun, Sem!Threads
<1>1. CASE Sem!Return
  BY <1>1 DEF Sem!Return
<1>2. ASSUME NEW t \in Sem!Threads, Sem!Create(t) PROVE Begun'
  BY <1>2 DEF Sem!Create
<1>3. ASSUME NEW t \in Sem!Threads, Sem!Wait(t) PROVE Begun'
  BY <1>3 DEF Sem!Wait, Sem!Goto
<1>4. ASSUME NEW t \in Sem!Threads, Sem!PrintLetter(t) PROVE Begun'
  BY <1>4 DEF Sem!PrintLetter, Sem!Goto, Sem!AfterLetter
<1>5. ASSUME NEW t \in Sem!Threads, Sem!Post(t) PROVE Begun'
  BY <1>5 DEF Sem!Post, Sem!Goto
<1> QED
  BY <1>1, <1>2, <1>3, <1>4, <1>5 DEF Sem!Step

(* Thread t runs and the sem_wait it may have reached does not stop it. *)
CanPrintOn(t) ==
  \/ stage[t] \in {"print", "post_twice", "post"}
  \/ /\ stage[t] = "wait"
     /\ \/ t = "A" /\ s1 > 0
        \/ t = "B" /\ s2 > 0
        \/ t = "C" /\ s3 > 0

(***************************************************************************)
(* Semaphores.c: no post is missing.  Once main has created the threads,   *)
(* and until it returns, one of the three can go on (lines 47-49, 55-58    *)
(* and 65-68), so that nothing but main's return ends the letters.         *)
(***************************************************************************)
THEOREM LettersNeverStuck ==
  ProgramsSpec => [](made = 3 => \E t \in Sem!Threads : CanPrintOn(t))
<1> DEFINE Goes == made = 3 => \E t \in Sem!Threads : CanPrintOn(t)
<1>1. ProgramsInit => Printing /\ Begun
  BY PrintingInit DEF ProgramsInit, Sem!Init, Begun
<1>2. Printing /\ Begun /\ [ProgramsNext \/ ProgramsTerminated]_programsVars
        => (Printing /\ Begun)'
  <2>1. Begun /\ UNCHANGED semVars => Begun'
    BY DEF Begun, semVars
  <2> QED
    BY <2>1, BegunStep, PrintingStep, ReturnPrinting, SamePrinting, SemSteps
<1>3. Printing /\ Begun => Goes
  <2> SUFFICES ASSUME Printing, Begun, made = 3
               PROVE  \E t \in Sem!Threads : CanPrintOn(t)
    OBVIOUS
  <2>1. Turn /\ Len(printed) % 4 \in 0..3
    BY Remainders DEF Printing
  <2>2. stage["A"] # "off" /\ stage["B"] # "off" /\ stage["C"] # "off"
    BY DEF Begun
  <2>3. \/ stage["A"] = "wait" /\ s1 = 1
        \/ stage["B"] = "wait" /\ s2 = 1
        \/ stage["C"] = "wait" /\ s3 \in {1, 2}
        \/ \E t \in {"A", "B", "C"} :
             stage[t] \in {"print", "post_twice", "post"}
    BY <2>1, <2>2 DEF Turn, Idle
  <2> QED
    BY <2>3 DEF CanPrintOn, Sem!Threads
<1> QED
  BY <1>1, <1>2, <1>3, PTL DEF ProgramsSpec

-----------------------------------------------------------------------------
(* CPUruntime.c *)

(***************************************************************************)
(* While the counters are allocated, each has one writer and what that     *)
(* writer loaded is what the counter still holds.                          *)
(***************************************************************************)
Counted ==
  /\ started \in 0..(Size + 1) /\ cursor \in Cpu!Threads
  /\ life = "creating" => started <= Size
  /\ counters \in [Cpu!Threads -> Nat] /\ shown \in [Cpu!Threads -> Nat]
  /\ ~Cpu!Freed =>
       \A t \in Cpu!Threads : /\ shown[t] <= counters[t]
                              /\ reg[t] \in {-1, counters[t]}

(* and a thread's register is empty or a number *)
CountedReg == Counted /\ reg \in [Cpu!Threads -> Nat \cup {-1}]

LEMMA CpuSizes == Size \in Nat \ {0} /\ MaxCount \in Nat
BY ProgramsAssumption

LEMMA CountedInit == ProgramsInit => CountedReg
BY CpuSizes
DEF ProgramsInit, Cpu!Init, CountedReg, Counted, Cpu!Threads, Cpu!Freed

LEMMA CountedStep == CountedReg /\ Cpu!Next => CountedReg'
<1> SUFFICES ASSUME CountedReg, Cpu!Next PROVE CountedReg'
  OBVIOUS
<1> USE CpuSizes DEF CountedReg, Counted, Cpu!Threads, Cpu!Freed
<1>1. CASE Cpu!Create
  BY <1>1 DEF Cpu!Create
<1>2. CASE Cpu!Free
  <2>1. counters' \in [Cpu!Threads -> Nat]
    BY <1>2 DEF Cpu!Free
  <2> QED
    BY <1>2, <2>1 DEF Cpu!Free
<1>3. CASE Cpu!PrintLine
  BY <1>3 DEF Cpu!PrintLine, Cpu!Running
<1>4. ASSUME NEW t \in Cpu!Threads, Cpu!Load(t) PROVE CountedReg'
  BY <1>4 DEF Cpu!Load, Cpu!Own, Cpu!Running
<1>5. ASSUME NEW t \in Cpu!Threads, Cpu!Store(t) PROVE CountedReg'
  <2>1. /\ counters' = [counters EXCEPT ![t] = reg[t] + 1]
        /\ reg' = [reg EXCEPT ![t] = -1]
        /\ UNCHANGED <<life, started, cursor, shown>>
        /\ reg[t] \in Nat
    BY <1>5 DEF Cpu!Store, Cpu!Own
  <2>2. counters' \in [Cpu!Threads -> Nat]
    BY <2>1
  <2>3. reg' \in [Cpu!Threads -> Nat \cup {-1}]
    BY <2>1
  <2> QED
    BY <2>1, <2>2, <2>3
<1>6. CASE Cpu!Return
  BY <1>6 DEF Cpu!Return
<1> QED
  BY <1>1, <1>2, <1>3, <1>4, <1>5, <1>6 DEF Cpu!Next

LEMMA SameCounted == CountedReg /\ UNCHANGED cpuVars => CountedReg'
BY DEF CountedReg, Counted, cpuVars, Cpu!Freed, Cpu!Threads

LEMMA CpuSteps ==
  ASSUME [ProgramsNext \/ ProgramsTerminated]_programsVars
  PROVE  Cpu!Next \/ UNCHANGED cpuVars
BY DEF ProgramsNext, ProgramsTerminated, programsVars, SemStep, Frame

LEMMA CountedHolds == ProgramsSpec => []CountedReg
<1>1. CountedReg /\ [ProgramsNext \/ ProgramsTerminated]_programsVars =>
        CountedReg'
  BY CountedStep, SameCounted, CpuSteps
<1> QED
  BY CountedInit, <1>1, PTL DEF ProgramsSpec

LEMMA GrowStep ==
  CountedReg /\ (Cpu!Next \/ UNCHANGED cpuVars) =>
    [~Cpu!Freed => \A c \in Cpu!Threads : shown'[c] >= shown[c]]_(Cpu!vars)
<1> SUFFICES ASSUME CountedReg, Cpu!Next \/ UNCHANGED cpuVars,
                    ~Cpu!Freed, NEW c \in Cpu!Threads, shown' # shown
             PROVE  shown'[c] >= shown[c]
  BY DEF Cpu!vars, CountedReg, Counted
<1>1. Cpu!PrintLine
  BY DEF Cpu!Next, Cpu!Create, Cpu!Free, Cpu!Return, Cpu!Load, Cpu!Store,
         cpuVars
<1> QED
  BY <1>1, CpuSizes DEF Cpu!PrintLine, CountedReg, Counted, Cpu!Threads

(***************************************************************************)
(* CPUruntime.c: no counter goes back from one snapshot to the next until  *)
(* main frees the counters, although nothing is locked: each has one       *)
(* writer (line 59).                                                       *)
(***************************************************************************)
THEOREM CountersSnapshots == ProgramsSpec => SnapshotsGrow
<1>1. CountedReg /\ [ProgramsNext \/ ProgramsTerminated]_programsVars =>
        [~Cpu!Freed => \A c \in Cpu!Threads : shown'[c] >= shown[c]]_(Cpu!vars)
  BY GrowStep, CpuSteps
<1> QED
  BY CountedHolds, <1>1, PTL DEF ProgramsSpec, SnapshotsGrow, Cpu!SnapshotsGrow

-----------------------------------------------------------------------------
(* Sums over finite sets, as MapThenSumSet defines them. *)

(* the element the sums over sets take next *)
Pick(T) == CHOOSE x \in T : TRUE

(* the equation by which MapThenSumSet sums fn over the subsets of S *)
Sums(f, fn, S) ==
  f = [T \in SUBSET S |->
         IF T = {} THEN 0 ELSE fn[Pick(T)] + f[T \ {Pick(T)}]]

LEMMA PickIs == ASSUME NEW T, T # {} PROVE Pick(T) \in T
BY DEF Pick

(* Subsets of a finite set, counted, and with an element taken out. *)
LEMMA SubsetCount ==
  ASSUME NEW S, IsFiniteSet(S), NEW T \in SUBSET S
  PROVE  /\ IsFiniteSet(T) /\ Cardinality(T) \in Nat
         /\ Cardinality(T) <= Cardinality(S)
         /\ Cardinality(T) = 0 <=> T = {}
         /\ \A x \in T : Cardinality(T \ {x}) = Cardinality(T) - 1
<1>1. IsFiniteSet(T) /\ Cardinality(T) <= Cardinality(S)
  BY FS_Subset
<1> QED
  BY <1>1, FS_CardinalityType, FS_EmptySet, FS_RemoveElement

(* Such an f exists: it settles for the sets of n elements in n steps. *)
LEMMA SumsExist ==
  ASSUME NEW S, IsFiniteSet(S), NEW fn \in [S -> Nat]
  PROVE  \E f : Sums(f, fn, S)
<1> DEFINE V == [SUBSET S -> Nat]
           zero == [T \in SUBSET S |-> 0]
           Once(h) == [T \in SUBSET S |->
                         IF T = {} THEN 0
                         ELSE fn[Pick(T)] + h[T \ {Pick(T)}]]
           step == [n \in Nat |-> [h \in V |-> Once(h)]]
<1>1. ASSUME NEW h \in V PROVE Once(h) \in V
  <2>1. ASSUME NEW T \in SUBSET S
        PROVE  (IF T = {} THEN 0 ELSE fn[Pick(T)] + h[T \ {Pick(T)}]) \in Nat
    BY PickIs
  <2> QED
    BY <2>1
<1>2. StepOn(V, step) /\ zero \in V
  <2> HIDE DEF V, Once
  <2>1. StepOn(V, step)
    BY <1>1 DEF StepOn
  <2>2. zero \in V
    BY DEF V
  <2> QED
    BY <2>1, <2>2
<1>3. PICK g : Iterates(g, V, zero, step)
  <2> HIDE DEF V, zero, step
  <2> QED
    BY <1>2, Recursion
<1>4. /\ g[0] = zero /\ \A n \in Nat : g[n] \in V
      /\ \A n \in Nat : g[n + 1] = Once(g[n])
  <2> HIDE DEF V, Once
  <2> QED
    BY <1>3 DEF Iterates
<1>5. ASSUME NEW n \in Nat, NEW T \in SUBSET S
      PROVE  g[n + 1][T] = IF T = {} THEN 0
                           ELSE fn[Pick(T)] + g[n][T \ {Pick(T)}]
  <2>1. g[n + 1] = Once(g[n])
    BY <1>4
  <2> QED
    BY <2>1
<1> DEFINE Settled == {n \in Nat : \A T \in SUBSET S :
                         Cardinality(T) <= n => g[n + 1][T] = g[n][T]}
<1>6. 0 \in Settled
  <2> SUFFICES ASSUME NEW T \in SUBSET S, Cardinality(T) <= 0
               PROVE  g[0 + 1][T] = g[0][T]
    OBVIOUS
  <2>1. T = {}
    BY SubsetCount
  <2>2. g[0 + 1][T] = 0
    BY <1>5, <2>1
  <2>3. g[0][T] = 0
    BY <1>4
  <2> QED
    BY <2>2, <2>3
<1>7. ASSUME NEW n \in Settled PROVE n + 1 \in Settled
  <2> SUFFICES ASSUME NEW T \in SUBSET S, Cardinality(T) <= n + 1
               PROVE  g[(n + 1) + 1][T] = g[n + 1][T]
    OBVIOUS
  <2>1. n \in Nat /\ n + 1 \in Nat
    BY <1>7
  <2>2. CASE T = {}
    BY <1>5, <2>1, <2>2
  <2>3. CASE T # {}
    <3>1. T \ {Pick(T)} \in SUBSET S /\ Cardinality(T \ {Pick(T)}) <= n
      BY <2>1, <2>3, PickIs, SubsetCount
    <3>2. g[n + 1][T \ {Pick(T)}] = g[n][T \ {Pick(T)}]
      BY <1>7, <3>1
    <3> QED
      BY <1>5, <2>1, <2>3, <3>2
  <2> QED
    BY <2>2, <2>3
<1>8. Settled = Nat
  <2>1. Settled \subseteq Nat
    OBVIOUS
  <2> HIDE DEF Settled
  <2> QED
    BY <1>6, <1>7, <2>1, Induction
<1>9. PICK c \in Nat : c = Cardinality(S)
  BY FS_CardinalityType
<1>10. \A T \in SUBSET S : g[c + 1][T] = g[c][T]
  <2>1. c \in Settled
    BY <1>8
  <2> QED
    BY <1>9, <2>1, SubsetCount
<1>11. \A T \in SUBSET S :
         g[c][T] = IF T = {} THEN 0 ELSE fn[Pick(T)] + g[c][T \ {Pick(T)}]
  BY <1>5, <1>10
<1>12. g[c] = [T \in SUBSET S |-> g[c][T]]
  BY <1>4
<1>13. Sums(g[c], fn, S)
  BY <1>11, <1>12 DEF Sums
<1> QED
  BY <1>13

(* f does not depend on the element taken first. *)
AddsUp(f, fn, S) ==
  \A T \in SUBSET S : /\ f[T] \in Nat /\ f[{}] = 0
                      /\ \A x \in T : f[T] = fn[x] + f[T \ {x}]

LEMMA SumsAre ==
  ASSUME NEW S, IsFiniteSet(S), NEW fn \in [S -> Nat], NEW f, Sums(f, fn, S)
  PROVE  AddsUp(f, fn, S)
<1>1. \A T \in SUBSET S :
        f[T] = IF T = {} THEN 0 ELSE fn[Pick(T)] + f[T \ {Pick(T)}]
  BY DEF Sums
<1>2. f[{}] = 0
  BY <1>1
<1> DEFINE Good(T) == /\ f[T] \in Nat
                      /\ \A x \in T : f[T] = fn[x] + f[T \ {x}]
           HoldsAt == {n \in Nat : \A T \in SUBSET S :
                       Cardinality(T) <= n => Good(T)}
<1>3. 0 \in HoldsAt
  <2>1. ASSUME NEW T \in SUBSET S, Cardinality(T) <= 0 PROVE Good(T)
    <3>1. T = {}
      BY <2>1, SubsetCount
    <3> QED
      BY <1>2, <3>1
  <2> QED
    BY <2>1
<1>4. ASSUME NEW n \in HoldsAt PROVE n + 1 \in HoldsAt
  <2> SUFFICES ASSUME NEW T \in SUBSET S, Cardinality(T) <= n + 1, T # {}
               PROVE  Good(T)
    <3>1. Good({})
      BY <1>2
    <3>2. n \in Nat
      BY <1>4
    <3> HIDE DEF Good
    <3> QED
      BY <3>1, <3>2
  <2>1. n \in Nat
    BY <1>4
  <2>2. PICK p \in T : p = Pick(T)
    BY PickIs
  <2>3. f[T] = fn[p] + f[T \ {p}]
    BY <1>1, <2>2
  <2>4. ASSUME NEW x \in T PROVE Good(T \ {x}) /\ fn[x] \in Nat
    <3>1. T \ {x} \in SUBSET S /\ Cardinality(T \ {x}) <= n
      BY <2>1, SubsetCount
    <3> QED
      BY <1>4, <3>1
  <2>5. f[T] \in Nat
    <3>1. f[T \ {p}] \in Nat /\ fn[p] \in Nat
      BY <2>4
    <3> QED
      BY <2>3, <3>1
  <2>6. ASSUME NEW x \in T PROVE f[T] = fn[x] + f[T \ {x}]
    <3>1. CASE x = p
      BY <2>3, <3>1
    <3>2. CASE x # p
      <4>1. x \in T \ {p} /\ p \in T \ {x}
        BY <3>2
      <4>2. (T \ {p}) \ {x} = (T \ {x}) \ {p}
        OBVIOUS
      <4> DEFINE rest == f[(T \ {x}) \ {p}]
      <4>3. f[T \ {p}] = fn[x] + rest
        <5>1. Good(T \ {p})
          BY <2>4
        <5>2. f[T \ {p}] = fn[x] + f[(T \ {p}) \ {x}]
          BY <4>1, <5>1
        <5> QED
          BY <4>2, <5>2
      <4>4. f[T \ {x}] = fn[p] + rest
        <5>1. Good(T \ {x})
          BY <2>4
        <5> QED
          BY <4>1, <5>1
      <4>5. rest \in Nat
        <5>1. (T \ {x}) \ {p} \in SUBSET S
          OBVIOUS
        <5>2. Cardinality(T \ {x}) = Cardinality(T) - 1
          BY SubsetCount
        <5>3. Cardinality((T \ {x}) \ {p}) = Cardinality(T \ {x}) - 1
          BY <4>1, SubsetCount
        <5>4. Cardinality((T \ {x}) \ {p}) <= n
          BY <2>1, <5>2, <5>3, SubsetCount
        <5> QED
          BY <1>4, <5>1, <5>4
      <4> HIDE DEF rest
      <4> QED
        BY <2>3, <2>4, <4>3, <4>4, <4>5
    <3> QED
      BY <3>1, <3>2
  <2> QED
    BY <2>5, <2>6
<1>5. HoldsAt = Nat
  <2>1. HoldsAt \subseteq Nat
    OBVIOUS
  <2> HIDE DEF HoldsAt
  <2> QED
    BY <1>3, <1>4, <2>1, Induction
<1>6. ASSUME NEW T \in SUBSET S PROVE Good(T)
  <2>1. Cardinality(T) \in Nat /\ Cardinality(T) \in HoldsAt
    <3> HIDE DEF HoldsAt
    <3> QED
      BY <1>5, SubsetCount
  <2>2. Cardinality(T) <= Cardinality(T)
    BY SubsetCount
  <2> QED
    BY <2>1, <2>2
<1> QED
  BY <1>2, <1>6 DEF AddsUp

(* the sums of fn over the subsets of S *)
SumOver(fn, S) == CHOOSE f : Sums(f, fn, S)

LEMMA SumOverIs ==
  ASSUME NEW S, IsFiniteSet(S), NEW fn \in [S -> Nat]
  PROVE  Sums(SumOver(fn, S), fn, S)
BY SumsExist DEF SumOver

(* There is one such f. *)
LEMMA SumsSame ==
  ASSUME NEW S, IsFiniteSet(S), NEW fn \in [S -> Nat],
         NEW f, AddsUp(f, fn, S), NEW g, AddsUp(g, fn, S)
  PROVE  \A T \in SUBSET S : f[T] = g[T]
<1> DEFINE HoldsAt == {n \in Nat : \A T \in SUBSET S :
                       Cardinality(T) = n => f[T] = g[T]}
<1>1. 0 \in HoldsAt
  <2> SUFFICES ASSUME NEW T \in SUBSET S, Cardinality(T) = 0
               PROVE  f[T] = g[T]
    OBVIOUS
  <2>1. T = {}
    BY SubsetCount
  <2> QED
    BY <2>1 DEF AddsUp
<1>2. ASSUME NEW n \in HoldsAt PROVE n + 1 \in HoldsAt
  <2> SUFFICES ASSUME NEW T \in SUBSET S, Cardinality(T) = n + 1
               PROVE  f[T] = g[T]
    OBVIOUS
  <2>1. n \in Nat /\ T # {}
    BY <1>2, SubsetCount
  <2>2. PICK x \in T : TRUE
    BY <2>1
  <2>3. T \ {x} \in SUBSET S /\ Cardinality(T \ {x}) = n
    BY <2>1, SubsetCount
  <2>4. f[T] = fn[x] + f[T \ {x}] /\ g[T] = fn[x] + g[T \ {x}]
    BY DEF AddsUp
  <2>5. f[T \ {x}] = g[T \ {x}]
    BY <1>2, <2>3
  <2> QED
    BY <2>4, <2>5
<1>3. HoldsAt = Nat
  <2>1. HoldsAt \subseteq Nat
    OBVIOUS
  <2> HIDE DEF HoldsAt
  <2> QED
    BY <1>1, <1>2, <2>1, Induction
<1> SUFFICES ASSUME NEW T \in SUBSET S PROVE f[T] = g[T]
  OBVIOUS
<1>4. Cardinality(T) \in Nat /\ Cardinality(T) \in HoldsAt
  <2> HIDE DEF HoldsAt
  <2> QED
    BY <1>3, SubsetCount
<1> QED
  BY <1>4

(* The sum over two disjoint sets. *)
LEMMA SumsJoin ==
  ASSUME NEW S, IsFiniteSet(S), NEW fn \in [S -> Nat], NEW f, AddsUp(f, fn, S),
         NEW A \in SUBSET S, NEW B \in SUBSET S, A \cap B = {}
  PROVE  f[A \cup B] = f[A] + f[B]
<1> DEFINE HoldsAt == {n \in Nat : \A T \in SUBSET B :
                       Cardinality(T) = n => f[A \cup T] = f[A] + f[T]}
<1>1. 0 \in HoldsAt
  <2> SUFFICES ASSUME NEW T \in SUBSET B, Cardinality(T) = 0
               PROVE  f[A \cup T] = f[A] + f[T]
    OBVIOUS
  <2>1. T \in SUBSET S /\ T = {}
    BY SubsetCount
  <2>2. f[T] = 0 /\ f[A] \in Nat
    BY <2>1 DEF AddsUp
  <2>3. A \cup T = A
    BY <2>1
  <2> QED
    BY <2>2, <2>3
<1>2. ASSUME NEW n \in HoldsAt PROVE n + 1 \in HoldsAt
  <2>n. n \in Nat /\ n + 1 \in Nat
    BY <1>2
  <2> SUFFICES ASSUME NEW T \in SUBSET B, Cardinality(T) = n + 1
               PROVE  f[A \cup T] = f[A] + f[T]
    BY <2>n
  <2>1. T \in SUBSET S
    OBVIOUS
  <2>0. n \in Nat /\ T # {}
    <3> HIDE DEF HoldsAt
    <3> QED
      BY <2>n, <2>1, SubsetCount
  <2>2. PICK x \in T : TRUE
    BY <2>0
  <2>3. T \ {x} \in SUBSET B /\ Cardinality(T \ {x}) = n
    BY <2>0, <2>1, SubsetCount
  <2>4. f[T] = fn[x] + f[T \ {x}]
    BY <2>1 DEF AddsUp
  <2>5. A \cup T \in SUBSET S /\ x \in A \cup T
    BY <2>1, <2>2
  <2>6. (A \cup T) \ {x} = A \cup (T \ {x})
    BY <2>1, <2>2
  <2>7. f[A \cup T] = fn[x] + f[A \cup (T \ {x})]
    BY <2>5, <2>6 DEF AddsUp
  <2>8. f[A \cup (T \ {x})] = f[A] + f[T \ {x}]
    BY <1>2, <2>3
  <2>9. f[A] \in Nat /\ f[T \ {x}] \in Nat /\ fn[x] \in Nat
    <3>1. T \ {x} \in SUBSET S
      BY <2>1
    <3> QED
      BY <2>1, <3>1 DEF AddsUp
  <2> QED
    BY <2>4, <2>7, <2>8, <2>9
<1>3. HoldsAt = Nat
  <2>1. HoldsAt \subseteq Nat
    OBVIOUS
  <2> HIDE DEF HoldsAt
  <2> QED
    BY <1>1, <1>2, <2>1, Induction
<1>4. B \in SUBSET B /\ Cardinality(B) \in Nat /\ Cardinality(B) \in HoldsAt
  <2> HIDE DEF HoldsAt
  <2> QED
    BY <1>3, SubsetCount
<1> QED
  BY <1>4

(* gn is the sum of each row *)
RowSums(gn, f, R, C) == \A r \in R : gn[r] = f[{r} \X C]

(* Adding up row by row is adding up. *)
LEMMA SumsByRow ==
  ASSUME NEW R, NEW C, IsFiniteSet(R), IsFiniteSet(C),
         NEW S, S = R \X C,
         NEW fn \in [S -> Nat], NEW f, AddsUp(f, fn, S),
         NEW gn \in [R -> Nat], NEW g, AddsUp(g, gn, R),
         RowSums(gn, f, R, C)
  PROVE  g[R] = f[S]
<1>0. IsFiniteSet(S)
  BY FS_Product
<1> DEFINE HoldsAt == {n \in Nat : \A T \in SUBSET R :
                       Cardinality(T) = n => g[T] = f[T \X C]}
<1>1. 0 \in HoldsAt
  <2> SUFFICES ASSUME NEW T \in SUBSET R, Cardinality(T) = 0
               PROVE  g[T] = f[T \X C]
    OBVIOUS
  <2>1. T = {} /\ T \X C = {}
    BY SubsetCount
  <2>2. g[{}] = 0 /\ f[{}] = 0
    BY DEF AddsUp
  <2> QED
    BY <2>1, <2>2
<1>2. ASSUME NEW n \in HoldsAt PROVE n + 1 \in HoldsAt
  <2> SUFFICES ASSUME NEW T \in SUBSET R, Cardinality(T) = n + 1
               PROVE  g[T] = f[T \X C]
    BY <1>2
  <2>1. n \in Nat /\ T # {}
    BY <1>2, SubsetCount
  <2>2. PICK x \in T : TRUE
    BY <2>1
  <2>3. T \ {x} \in SUBSET R /\ Cardinality(T \ {x}) = n
    <3>1. Cardinality(T \ {x}) = Cardinality(T) - 1
      BY SubsetCount
    <3> QED
      BY <2>1, <3>1
  <2>4. g[T] = gn[x] + g[T \ {x}]
    BY DEF AddsUp
  <2>5. g[T \ {x}] = f[(T \ {x}) \X C]
    BY <1>2, <2>3
  <2> DEFINE A == {x} \X C
             B == (T \ {x}) \X C
  <2>6. A \cap B = {} /\ A \cup B = T \X C
    BY <2>2
  <2>7. A \in SUBSET S /\ B \in SUBSET S
    BY <2>2
  <2>8. gn[x] = f[A]
    BY <2>2 DEF RowSums
  <2> HIDE DEF A, B
  <2>9. f[A \cup B] = f[A] + f[B]
    BY <1>0, <2>6, <2>7, SumsJoin
  <2> QED
    BY <2>4, <2>5, <2>6, <2>8, <2>9 DEF B
<1>3. HoldsAt = Nat
  <2>1. HoldsAt \subseteq Nat
    OBVIOUS
  <2> HIDE DEF HoldsAt
  <2> QED
    BY <1>1, <1>2, <2>1, Induction
<1>4. R \in SUBSET R /\ Cardinality(R) \in Nat /\ Cardinality(R) \in HoldsAt
  <2> HIDE DEF HoldsAt
  <2> QED
    BY <1>3, SubsetCount
<1> QED
  BY <1>4

-----------------------------------------------------------------------------
(* matrix_threads.c *)

(* the places of the matrix, and a matrix as a function of them *)
Cells == Mat!Rows \X Mat!Columns

ElementsOf(h) == [x \in Cells |-> h[x[1]][x[2]]]

(* the sums of the elements of the matrix h over sets of places *)
SumOf(h) == SumOver(ElementsOf(h), Cells)

Matrices == [Mat!Rows -> [Mat!Columns -> Nat]]

LEMMA MatSizes ==
  /\ N \in Nat \ {0} /\ M \in Nat \ {0} /\ Values \subseteq Nat
  /\ IsFiniteSet(Mat!Rows) /\ IsFiniteSet(Mat!Columns) /\ IsFiniteSet(Cells)
<1>1. N \in Nat \ {0} /\ M \in Nat \ {0} /\ Values \subseteq Nat
  BY ProgramsAssumption
<1>2. IsFiniteSet(1..N) /\ IsFiniteSet(1..M)
  BY <1>1, FS_Interval
<1> QED
  BY <1>1, <1>2, FS_Product DEF Cells, Mat!Rows, Mat!Columns

LEMMA SumOfIs ==
  ASSUME NEW h \in Matrices
  PROVE  /\ ElementsOf(h) \in [Cells -> Nat]
         /\ Sums(SumOf(h), ElementsOf(h), Cells)
         /\ AddsUp(SumOf(h), ElementsOf(h), Cells)
<1>1. ElementsOf(h) \in [Cells -> Nat]
  BY DEF ElementsOf, Matrices, Cells
<1>2. Sums(SumOf(h), ElementsOf(h), Cells)
  BY <1>1, MatSizes, SumOverIs DEF SumOf
<1> QED
  BY <1>1, <1>2, MatSizes, SumsAre

(* The total of a matrix, as TotalOfPrinted has it, ... *)
LEMMA TotalIs ==
  ASSUME NEW h \in Matrices
  PROVE  Mat!MapThenSumSet(LAMBDA x : h[x[1]][x[2]], Cells) = SumOf(h)[Cells]
<1> DEFINE E(f) == f = [s \in SUBSET Cells |->
                          IF s = {} THEN 0
                          ELSE h[(CHOOSE x \in s : TRUE)[1]]
                                [(CHOOSE x \in s : TRUE)[2]]
                               + f[s \ {CHOOSE x \in s : TRUE}]]
           it == CHOOSE f : E(f)
<1>1. Mat!MapThenSumSet(LAMBDA x : h[x[1]][x[2]], Cells) = it[Cells]
  BY DEF Mat!MapThenSumSet, Mat!MapThenFoldSet
<1>2. ASSUME NEW f PROVE E(f) <=> Sums(f, ElementsOf(h), Cells)
  <2>1. ASSUME NEW s \in SUBSET Cells, s # {}
        PROVE ElementsOf(h)[Pick(s)] = h[(CHOOSE x \in s : TRUE)[1]]
                                [(CHOOSE x \in s : TRUE)[2]]
    BY <2>1, PickIs DEF ElementsOf, Pick
  <2> QED
    BY <2>1 DEF Sums, Pick
<1>3. E(it)
  <2>1. E(SumOf(h))
    BY <1>2, SumOfIs
  <2> HIDE DEF E
  <2> QED
    BY <2>1
<1>4. Sums(it, ElementsOf(h), Cells)
  BY <1>2, <1>3
<1> HIDE DEF it
<1>5. AddsUp(it, ElementsOf(h), Cells)
  BY <1>4, SumOfIs, MatSizes, SumsAre
<1>6. it[Cells] = SumOf(h)[Cells]
  BY <1>5, SumOfIs, MatSizes, SumsSame
<1> QED
  BY <1>1, <1>6

(* the sum of the first c elements of row r of the matrix h, and of all *)
Part(h, r, c) == SumOf(h)[{r} \X (1..c)]
Whole(h) == SumOf(h)[Cells]

(* ... and as main computes it from the last column. *)
LEMMA StoredTotalIs ==
  ASSUME NEW h \in Matrices, NEW g \in Matrices,
         \A r \in Mat!Rows : g[r][M] = Part(h, r, M)
  PROVE  Mat!MapThenSumSet(LAMBDA r : g[r][M], Mat!Rows) = Whole(h)
<1> DEFINE gn == [r \in Mat!Rows |-> g[r][M]]
           E(f) == f = [s \in SUBSET Mat!Rows |->
                          IF s = {} THEN 0
                          ELSE g[CHOOSE x \in s : TRUE][M]
                               + f[s \ {CHOOSE x \in s : TRUE}]]
           it == CHOOSE f : E(f)
<1>1. Mat!MapThenSumSet(LAMBDA r : g[r][M], Mat!Rows) = it[Mat!Rows]
  BY DEF Mat!MapThenSumSet, Mat!MapThenFoldSet
<1>2. gn \in [Mat!Rows -> Nat]
  BY MatSizes DEF Matrices, Mat!Columns
<1>3. ASSUME NEW f PROVE E(f) <=> Sums(f, gn, Mat!Rows)
  <2>1. ASSUME NEW s \in SUBSET Mat!Rows, s # {}
        PROVE  gn[Pick(s)] = g[CHOOSE x \in s : TRUE][M]
    BY <2>1, PickIs DEF Pick
  <2> QED
    BY <2>1 DEF Sums, Pick
<1>4. E(it)
  <2>1. E(SumOver(gn, Mat!Rows))
    <3>1. Sums(SumOver(gn, Mat!Rows), gn, Mat!Rows)
      <4> HIDE DEF gn
      <4> QED
        BY <1>2, MatSizes, SumOverIs
    <3> HIDE DEF E, gn
    <3> QED
      BY <1>3, <3>1
  <2> HIDE DEF E
  <2> QED
    BY <2>1
<1>5. Sums(it, gn, Mat!Rows)
  BY <1>3, <1>4
<1>6. \A r \in Mat!Rows : gn[r] = SumOf(h)[{r} \X Mat!Columns]
  BY DEF Part, Mat!Columns
<1> HIDE DEF it, gn
<1>7. AddsUp(it, gn, Mat!Rows)
  BY <1>2, <1>5, MatSizes, SumsAre
<1>8. it[Mat!Rows] = SumOf(h)[Cells]
  <2>1. /\ ElementsOf(h) \in [Cells -> Nat]
        /\ AddsUp(SumOf(h), ElementsOf(h), Cells)
    BY SumOfIs
  <2>2. Cells = Mat!Rows \X Mat!Columns
    BY DEF Cells
  <2> QED
    <3>1. ASSUME NEW f, f = SumOf(h), NEW S, S = Cells
          PROVE  it[Mat!Rows] = f[S]
      <4> DEFINE fn == ElementsOf(h)
                 R == Mat!Rows
                 C == Mat!Columns
      <4>1. /\ fn \in [S -> Nat] /\ AddsUp(f, fn, S) /\ S = R \X C
            /\ IsFiniteSet(R) /\ IsFiniteSet(C)
            /\ gn \in [R -> Nat] /\ AddsUp(it, gn, R)
            /\ RowSums(gn, f, R, C)
        BY <1>2, <1>6, <1>7, <2>1, <2>2, <3>1, MatSizes DEF RowSums
      <4> HIDE DEF fn, R, C
      <4>2. it[R] = f[S]
        BY <4>1, SumsByRow
      <4> QED
        BY <4>2 DEF R
    <3> QED
      BY <3>1
<1> QED
  BY <1>1, <1>8 DEF Whole

(* One more element of a row. *)
LEMMA NextPart ==
  ASSUME NEW h \in Matrices, NEW r \in Mat!Rows, NEW c \in Mat!Columns
  PROVE  Part(h, r, c) = Part(h, r, c - 1) + h[r][c]
<1> DEFINE T == {r} \X (1..c)
<1>1. c \in Nat \ {0} /\ c <= M
  BY MatSizes DEF Mat!Columns
<1>2. T \in SUBSET Cells /\ <<r, c>> \in T
  BY <1>1, MatSizes DEF Cells, Mat!Columns
<1>3. T \ {<<r, c>>} = {r} \X (1..(c - 1))
  BY <1>1
<1>4. ElementsOf(h)[<<r, c>>] = h[r][c]
  BY DEF ElementsOf, Cells
<1>5. h[r][c] \in Nat
  BY DEF Matrices
<1> HIDE DEF T
<1>6. SumOf(h)[T \ {<<r, c>>}] \in Nat
  BY <1>2, SumOfIs DEF AddsUp
<1>7. SumOf(h)[T] = ElementsOf(h)[<<r, c>>] + SumOf(h)[T \ {<<r, c>>}]
  BY <1>2, SumOfIs DEF AddsUp
<1>8. Part(h, r, c) = SumOf(h)[T]
      /\ Part(h, r, c - 1) = SumOf(h)[T \ {<<r, c>>}]
  BY <1>3 DEF T, Part
<1> QED
  BY <1>4, <1>5, <1>6, <1>7, <1>8

LEMMA NoPart ==
  ASSUME NEW h \in Matrices, NEW r \in Mat!Rows
  PROVE  Part(h, r, 0) = 0
<1>1. {r} \X (1..0) = {}
  OBVIOUS
<1>2. SumOf(h)[{}] = 0
  BY SumOfIs DEF AddsUp
<1> QED
  BY <1>1, <1>2 DEF Part

(***************************************************************************)
(* matrix_threads.c, while the second kind of thread runs: a row that is   *)
(* not stored over is as it was printed, its thread's sum is that of the   *)
(* elements before its column; a row that is ends in the sum of the row as *)
(* it was printed.                                                         *)
(***************************************************************************)
SumOfRow(r) ==
  IF column[r] <= M + 1
  THEN /\ matrix[r] = filled[r]
       /\ sum[r] = Part(filled, r, column[r] - 1)
  ELSE matrix[r][M] = Part(filled, r, M)

(* the inductive invariant *)
Summing ==
  /\ func \in {"fill_row", "sum_of_rows"}
  /\ created \in Nat /\ matrix \in Matrices /\ filled \in Matrices
  /\ column \in [Mat!Rows -> 1..(M + 2)] /\ sum \in [Mat!Rows -> Nat]
  /\ func = "fill_row" =>
       joiner # "done" /\ sum = [r \in Mat!Rows |-> 0]
  /\ func = "sum_of_rows" => \A r \in Mat!Rows : SumOfRow(r)
  /\ joiner = "done" => total = Whole(filled)

LEMMA SummingInit == ProgramsInit => Summing
BY MatSizes DEF ProgramsInit, Mat!Init, Summing, Matrices, Mat!Rows, Mat!Columns

LEMMA SummingStep == Summing /\ Mat!Next => Summing'
<1> SUFFICES ASSUME Summing, Mat!Next PROVE Summing'
  OBVIOUS
<1> USE MatSizes
<1>1. CASE Mat!Create
  BY <1>1 DEF Mat!Create, Summing, SumOfRow
<1>2. CASE Mat!CreateFails
  BY <1>2 DEF Mat!CreateFails, Summing, SumOfRow
<1>3. CASE Mat!PrintMatrix
  <2>1. /\ func = "fill_row" /\ joiner = "joining" /\ filled' = matrix
        /\ func' = "sum_of_rows" /\ joiner' = "creating" /\ created' = 0
        /\ column' = [r \in Mat!Rows |-> 1]
        /\ UNCHANGED <<matrix, sum, total>>
    BY <1>3 DEF Mat!PrintMatrix
  <2>2. ASSUME NEW r \in Mat!Rows PROVE SumOfRow(r)'
    <3>1. column'[r] = 1 /\ 1 - 1 = 0 /\ sum[r] = 0
      BY <2>1 DEF Summing
    <3>2. Part(matrix, r, 0) = 0
      BY NoPart DEF Summing
    <3> QED
      BY <2>1, <3>1, <3>2 DEF SumOfRow
  <2> QED
    BY <2>1, <2>2 DEF Summing
<1>4. CASE Mat!PrintTotal
  <2>1. /\ func = "sum_of_rows" /\ Mat!AllEnded /\ joiner' = "done"
        /\ total' = Mat!MapThenSumSet(LAMBDA r : matrix[r][M], Mat!Rows)
        /\ UNCHANGED <<func, created, matrix, column, sum, filled>>
    BY <1>4 DEF Mat!PrintTotal
  <2>2. ASSUME NEW r \in Mat!Rows
        PROVE  matrix[r][M] = Part(filled, r, M)
    <3>1. column[r] = M + 2 /\ SumOfRow(r)
      BY <2>1 DEF Mat!AllEnded, Mat!Ended, Summing
    <3> QED
      BY <3>1 DEF SumOfRow, Mat!Columns
  <2>3. total' = Whole(filled)
    BY <2>1, <2>2, StoredTotalIs DEF Summing
  <2> QED
    BY <2>1, <2>3 DEF Summing, SumOfRow
<1>5. ASSUME NEW r \in Mat!Rows, Mat!FillCell(r) PROVE Summing'
  <2>1. PICK x \in Values :
          matrix' = [matrix EXCEPT ![r][column[r]] = x]
    BY <1>5 DEF Mat!FillCell
  <2>2. /\ func = "fill_row" /\ column[r] <= M
        /\ column' = [column EXCEPT ![r] = @ + 1]
        /\ UNCHANGED <<func, joiner, created, sum, filled, total>>
    BY <1>5 DEF Mat!FillCell
  <2>3. matrix' \in Matrices
    BY <2>1, <2>2 DEF Summing, Matrices, Mat!Columns
  <2> QED
    BY <2>2, <2>3 DEF Summing
<1>6. ASSUME NEW r \in Mat!Rows, Mat!AddCell(r) PROVE Summing'
  <2>1. /\ func = "sum_of_rows" /\ column[r] <= M
        /\ sum' = [sum EXCEPT ![r] = @ + matrix[r][column[r]]]
        /\ column' = [column EXCEPT ![r] = @ + 1]
        /\ UNCHANGED <<func, joiner, created, matrix, filled, total>>
    BY <1>6 DEF Mat!AddCell
  <2>2. column[r] \in Mat!Columns /\ column[r] + 1 - 1 = column[r]
    BY <2>1 DEF Summing, Mat!Columns
  <2>3. matrix[r][column[r]] \in Nat
    BY <2>2 DEF Summing, Matrices
  <2>4. /\ sum' \in [Mat!Rows -> Nat]
        /\ column' \in [Mat!Rows -> 1..(M + 2)]
    BY <2>1, <2>3 DEF Summing
  <2>5. ASSUME NEW q \in Mat!Rows PROVE SumOfRow(q)'
    <3>1. CASE q = r
      <4>1. matrix[r] = filled[r]
            /\ sum[r] = Part(filled, r, column[r] - 1)
        BY <2>1 DEF Summing, SumOfRow
      <4>2. sum'[r] = Part(filled, r, column[r])
        BY <2>1, <2>2, <4>1, NextPart DEF Summing
      <4>3. column'[r] = column[r] + 1 /\ column'[r] <= M + 1
        BY <2>1, <2>2 DEF Summing
      <4>4. column'[r] - 1 = column[r] /\ UNCHANGED <<matrix, filled>>
        <5>1. column[r] \in Nat
          BY DEF Summing
        <5> QED
          BY <2>1, <4>3, <5>1
      <4>5. sum'[r] = Part(filled', r, column'[r] - 1)
        BY <4>2, <4>4
      <4> QED
        BY <3>1, <4>1, <4>3, <4>4, <4>5 DEF SumOfRow
    <3>2. CASE q # r
      BY <2>1, <3>2 DEF Summing, SumOfRow
    <3> QED
      BY <3>1, <3>2
  <2> QED
    BY <2>1, <2>4, <2>5 DEF Summing
<1>7. ASSUME NEW r \in Mat!Rows, Mat!StoreSum(r) PROVE Summing'
  <2>1. /\ func = "sum_of_rows" /\ column[r] = M + 1
        /\ matrix' = [matrix EXCEPT ![r][M] = sum[r]]
        /\ column' = [column EXCEPT ![r] = @ + 1]
        /\ UNCHANGED <<func, joiner, created, sum, filled, total>>
    BY <1>7 DEF Mat!StoreSum
  <2>2. /\ matrix' \in Matrices
        /\ column' \in [Mat!Rows -> 1..(M + 2)]
    BY <2>1 DEF Summing, Matrices, Mat!Columns
  <2>3. ASSUME NEW q \in Mat!Rows PROVE SumOfRow(q)'
    <3>1. CASE q = r
      <4>1. sum[r] = Part(filled, r, M)
        BY <2>1 DEF Summing, SumOfRow
      <4>2. matrix'[r][M] = sum[r] /\ ~(column'[r] <= M + 1)
        BY <2>1 DEF Summing, Matrices, Mat!Columns
      <4> QED
        BY <2>1, <3>1, <4>1, <4>2 DEF SumOfRow
    <3>2. CASE q # r
      BY <2>1, <3>2 DEF Summing, SumOfRow
    <3> QED
      BY <3>1, <3>2
  <2> QED
    BY <2>1, <2>2, <2>3 DEF Summing
<1> QED
  BY <1>1, <1>2, <1>3, <1>4, <1>5, <1>6, <1>7 DEF Mat!Next

LEMMA SameSumming == Summing /\ UNCHANGED matVars => Summing'
BY DEF Summing, SumOfRow, matVars

LEMMA MatSteps ==
  ASSUME [ProgramsNext \/ ProgramsTerminated]_programsVars
  PROVE  Mat!Next \/ UNCHANGED matVars
BY DEF ProgramsNext, ProgramsTerminated, programsVars, SemStep, Frame

(***************************************************************************)
(* matrix_threads.c: the total that is printed last is the sum of the      *)
(* matrix that was printed first, although each thread stores its row's    *)
(* sum over the last element of the row.                                   *)
(***************************************************************************)
THEOREM TotalIsOfPrinted == ProgramsSpec => []TotalOfPrinted
<1>1. Summing /\ [ProgramsNext \/ ProgramsTerminated]_programsVars => Summing'
  BY SummingStep, SameSumming, MatSteps
<1>2. Summing => TotalOfPrinted
  <2> SUFFICES ASSUME Summing, joiner = "done"
               PROVE  total = Mat!MapThenSumSet(
                                LAMBDA x : filled[x[1]][x[2]], Cells)
    BY DEF TotalOfPrinted, Mat!TotalOfPrinted, Cells
  <2> QED
    BY TotalIs DEF Summing, Whole
<1> QED
  BY SummingInit, <1>1, <1>2, PTL DEF ProgramsSpec

(* How many threads there are, and how far they may be. *)
Crew ==
  /\ joiner \in {"creating", "joining", "done", "failed"}
  /\ joiner = "creating" => created < N
  /\ joiner = "joining" => created = N
  /\ func = "fill_row" => \A r \in Mat!Rows : column[r] <= M + 1

LEMMA CrewStep == Summing /\ Crew /\ Mat!Next => Crew'
<1> SUFFICES ASSUME Summing, Crew, Mat!Next PROVE Crew'
  OBVIOUS
<1> USE MatSizes DEF Summing, Crew
<1>1. CASE Mat!Create \/ Mat!CreateFails
  BY <1>1 DEF Mat!Create, Mat!CreateFails
<1>2. CASE Mat!PrintMatrix \/ Mat!PrintTotal
  BY <1>2 DEF Mat!PrintMatrix, Mat!PrintTotal
<1>3. ASSUME NEW r \in Mat!Rows, Mat!FillCell(r) PROVE Crew'
  BY <1>3 DEF Mat!FillCell
<1>4. ASSUME NEW r \in Mat!Rows, Mat!AddCell(r) \/ Mat!StoreSum(r)
      PROVE  Crew'
  BY <1>4 DEF Mat!AddCell, Mat!StoreSum
<1> QED
  BY <1>1, <1>2, <1>3, <1>4 DEF Mat!Next

(***************************************************************************)
(* matrix_threads.c: main never joins for ever.  While it waits for the    *)
(* threads of a phase, all of them exist, and one that has not ended still *)
(* has a column to go.                                                     *)
(***************************************************************************)
THEOREM MatrixJoinsEnd ==
  ProgramsSpec =>
    [](joiner = "joining" /\ ~Mat!AllEnded =>
         \E r \in Mat!Rows :
           /\ Mat!Runs(r)
           /\ column[r] <= IF func = "fill_row" THEN M ELSE M + 1)
<1> DEFINE Goes ==
             joiner = "joining" /\ ~Mat!AllEnded =>
               \E r \in Mat!Rows :
                 /\ Mat!Runs(r)
                 /\ column[r] <= IF func = "fill_row" THEN M ELSE M + 1
<1>1. ProgramsInit => Summing /\ Crew
  BY SummingInit, MatSizes DEF ProgramsInit, Mat!Init, Crew
<1>2. Summing /\ Crew /\ [ProgramsNext \/ ProgramsTerminated]_programsVars
        => (Summing /\ Crew)'
  <2>1. Crew /\ UNCHANGED matVars => Crew'
    BY DEF Crew, matVars
  <2> QED
    BY <2>1, CrewStep, SummingStep, SameSumming, MatSteps
<1>3. Summing /\ Crew => Goes
  <2> SUFFICES ASSUME Summing, Crew, joiner = "joining", NEW r \in Mat!Rows,
                      ~Mat!Ended(r)
               PROVE  /\ Mat!Runs(r)
                      /\ column[r] <= IF func = "fill_row" THEN M ELSE M + 1
    BY DEF Mat!AllEnded
  <2> QED
    BY MatSizes DEF Summing, Crew, Mat!Ended, Mat!Runs, Mat!Rows
<1> QED
  BY <1>1, <1>2, <1>3, PTL DEF ProgramsSpec

-----------------------------------------------------------------------------
(* ProccessNTreads.c *)

(* The function defined by F's equation exists, so that F satisfies it. *)
LEMMA FibonacciIs ==
  \A n \in Nat : /\ Fib!F[n] \in Nat
                 /\ Fib!F[n] = IF n <= 1 THEN n
                               ELSE Fib!F[n - 1] + Fib!F[n - 2]
<1> DEFINE Pairs == Nat \X Nat
           step == [n \in Nat |-> [x \in Pairs |-> <<x[2], x[1] + x[2]>>]]
<1>1. StepOn(Pairs, step)
  BY DEF StepOn
<1> DEFINE first == <<0, 1>>
<1>2. first \in Pairs
  OBVIOUS
<1>3. PICK f : Iterates(f, Pairs, first, step)
  <2> HIDE DEF Pairs, step, first
  <2> QED
    BY <1>1, <1>2, Recursion
<1>4. /\ f \in [Nat -> Pairs] /\ f[0] = <<0, 1>>
      /\ \A n \in Nat : f[n + 1] = <<f[n][2], f[n][1] + f[n][2]>>
  BY <1>3 DEF Iterates
<1> DEFINE G == [n \in Nat |-> f[n][1]]
<1>5. ASSUME NEW n \in Nat
      PROVE  G[n] = IF n <= 1 THEN n ELSE G[n - 1] + G[n - 2]
  <2>1. CASE n = 0
    BY <1>4, <2>1
  <2>2. CASE n = 1
    <3>1. f[0 + 1] = <<f[0][2], f[0][1] + f[0][2]>>
      BY <1>4
    <3> QED
      BY <1>4, <2>2, <3>1
  <2>3. CASE n > 1
    <3>1. /\ n - 1 \in Nat /\ n - 2 \in Nat
          /\ (n - 2) + 1 = n - 1 /\ (n - 1) + 1 = n
      BY <2>3
    <3>2. f[n] = <<f[n - 1][2], f[n - 1][1] + f[n - 1][2]>>
      BY <1>4, <3>1
    <3>3. f[n - 1] = <<f[n - 2][2], f[n - 2][1] + f[n - 2][2]>>
      BY <1>4, <3>1
    <3>4. f[n][1] = f[n - 1][1] + f[n - 2][1]
      <4>1. f[n - 1] \in Pairs /\ f[n - 2] \in Pairs
        BY <1>4, <3>1
      <4> QED
        BY <3>2, <3>3, <4>1
    <3> QED
      BY <2>3, <3>1, <3>4
  <2> QED
    BY <2>1, <2>2, <2>3
<1>6. G = [n \in Nat |-> IF n <= 1 THEN n ELSE G[n - 1] + G[n - 2]]
  <2> DEFINE H == [n \in Nat |-> IF n <= 1 THEN n ELSE G[n - 1] + G[n - 2]]
  <2>1. \A n \in Nat : G[n] = H[n]
    BY <1>5
  <2>2. DOMAIN G = Nat /\ DOMAIN H = Nat
    OBVIOUS
  <2> QED
    BY <2>1, <2>2
<1>7. Fib!F = [n \in Nat |-> IF n <= 1 THEN n ELSE Fib!F[n - 1] + Fib!F[n - 2]]
  <2> HIDE DEF G
  <2> QED
    BY <1>6 DEF Fib!F
<1> DEFINE HoldsAt == {n \in Nat : Fib!F[n] \in Nat /\ Fib!F[n + 1] \in Nat}
<1>8. ASSUME NEW n \in Nat
      PROVE  Fib!F[n] = IF n <= 1 THEN n ELSE Fib!F[n - 1] + Fib!F[n - 2]
  BY <1>7
<1>9. HoldsAt = Nat
  <2>1. Fib!F[0] = 0 /\ Fib!F[1] = 1
    BY <1>8
  <2>2. 0 \in HoldsAt
    BY <2>1
  <2>3. ASSUME NEW n \in HoldsAt PROVE n + 1 \in HoldsAt
    <3>1. /\ (n + 1) + 1 \in Nat /\ ~((n + 1) + 1 <= 1)
          /\ ((n + 1) + 1) - 1 = n + 1 /\ ((n + 1) + 1) - 2 = n
      OBVIOUS
    <3>2. Fib!F[(n + 1) + 1] = Fib!F[n + 1] + Fib!F[n]
      BY <1>8, <3>1
    <3> QED
      BY <3>2
  <2>4. HoldsAt \subseteq Nat
    OBVIOUS
  <2> HIDE DEF HoldsAt
  <2> QED
    BY <2>2, <2>3, <2>4, Induction
<1>10. ASSUME NEW n \in Nat PROVE Fib!F[n] \in Nat
  <2>1. n \in HoldsAt
    BY <1>9
  <2> QED
    BY <2>1
<1> QED
  BY <1>8, <1>10

(* terms written so far *)
Written ==
  IF parent = "done" \/ (parent = "wait" /\ j = -1) THEN i ELSE i - 1

(***************************************************************************)
(* The inductive invariant: the child's c1 and c2 are two neighbours of    *)
(* the sequence, and what is written is its terms from the largest down,   *)
(* one for each child that has returned.                                   *)
(***************************************************************************)
Computing ==
  /\ i \in 1..Terms /\ parent \in {"fork", "wait", "done", "failed"}
  /\ j \in -1..(Terms - i)
  /\ j # -1 => parent = "wait" /\ c1 = Fib!F[j] /\ c2 = Fib!F[j + 1]
  /\ parent = "wait" => i < Terms
  /\ parent = "done" => i = Terms
  /\ output \in Seq(Nat) /\ Len(output) = Written
  /\ \A k \in 1..Len(output) : output[k] = Fib!F[Terms + 1 - k]

LEMMA FibSizes == Terms \in 1..46
BY ProgramsAssumption

LEMMA FirstTerms == Fib!F[0] = 0 /\ Fib!F[1] = 1
BY FibonacciIs

LEMMA ComputingInit == ProgramsInit => Computing
BY FibSizes DEF ProgramsInit, Fib!Init, Computing, Written

LEMMA ComputingStep == Computing /\ Fib!Next => Computing'
<1> SUFFICES ASSUME Computing, Fib!Next PROVE Computing'
  OBVIOUS
<1> USE FibSizes
<1>1. CASE Fib!Fork
  BY <1>1, FirstTerms DEF Fib!Fork, Computing, Written
<1>2. CASE Fib!ForkFails
  BY <1>2 DEF Fib!ForkFails, Computing, Written
<1>3. CASE Fib!AddTerm
  <2>1. /\ j \in 0..(Terms - i - 1) /\ j' = j + 1 /\ c1' = c2 /\ c2' = c1 + c2
        /\ UNCHANGED <<i, parent, output>>
    BY <1>3 DEF Fib!AddTerm
  <2>2. parent = "wait" /\ i < Terms /\ c1 = Fib!F[j] /\ c2 = Fib!F[j + 1]
    BY <2>1 DEF Computing
  <2>3. /\ j + 2 \in Nat /\ ~(j + 2 <= 1) /\ (j + 2) - 1 = j + 1
        /\ (j + 2) - 2 = j /\ (j + 1) + 1 = j + 2
    BY <2>1 DEF Computing
  <2>4. Fib!F[j + 2] = Fib!F[j + 1] + Fib!F[j]
    BY <2>3, FibonacciIs
  <2>5. Fib!F[j] \in Nat /\ Fib!F[j + 1] \in Nat
    BY <2>1, FibonacciIs DEF Computing
  <2>6. c1' = Fib!F[j'] /\ c2' = Fib!F[j' + 1]
    BY <2>1, <2>2, <2>3, <2>4, <2>5
  <2>7. Written' = Written
    BY <2>1, <2>2 DEF Written, Computing
  <2> QED
    BY <2>1, <2>2, <2>6, <2>7 DEF Computing
<1>4. CASE Fib!ChildReturns
  <2>1. /\ j = Terms - i /\ j' = -1 /\ output' = Append(output, c2)
        /\ UNCHANGED <<i, parent>>
    BY <1>4 DEF Fib!ChildReturns
  <2>2. /\ i \in 1..Terms /\ j # -1 /\ parent = "wait" /\ i < Terms
        /\ c2 = Fib!F[j + 1] /\ c2 \in Nat
    BY <2>1, FibonacciIs DEF Computing
  <2>3. Len(output) = i - 1 /\ Written' = i
    BY <2>1, <2>2 DEF Computing, Written
  <2>4. c2 = Fib!F[Terms + 1 - i]
    <3>1. j + 1 = Terms + 1 - i
      BY <2>1, <2>2
    <3> QED
      BY <2>2, <3>1
  <2>5. \A k \in 1..Len(output') : output'[k] = Fib!F[Terms + 1 - k]
    BY <2>1, <2>2, <2>3, <2>4 DEF Computing
  <2> QED
    BY <2>1, <2>2, <2>3, <2>5 DEF Computing
<1>5. CASE Fib!Wait
  BY <1>5 DEF Fib!Wait, Fib!ChildGone, Computing, Written
<1>6. CASE Fib!PrintLast
  <2>1. /\ parent = "fork" /\ i = Terms /\ parent' = "done"
        /\ output' = Append(output, 1) /\ UNCHANGED <<i, c1, c2, j>>
    BY <1>6 DEF Fib!PrintLast
  <2>2. Len(output) = i - 1 /\ Written' = i
    BY <2>1 DEF Computing, Written
  <2>3. Fib!F[Terms + 1 - i] = 1
    BY <2>1, FirstTerms
  <2>4. \A k \in 1..Len(output') : output'[k] = Fib!F[Terms + 1 - k]
    BY <2>1, <2>2, <2>3 DEF Computing
  <2> QED
    BY <2>1, <2>2, <2>4 DEF Computing
<1> QED
  BY <1>1, <1>2, <1>3, <1>4, <1>5, <1>6 DEF Fib!Next

LEMMA SameComputing == Computing /\ UNCHANGED fibVars => Computing'
BY DEF Computing, Written, fibVars

LEMMA FibSteps ==
  ASSUME [ProgramsNext \/ ProgramsTerminated]_programsVars
  PROVE  Fib!Next \/ UNCHANGED fibVars
BY DEF ProgramsNext, ProgramsTerminated, programsVars, SemStep, Frame

(***************************************************************************)
(* ProccessNTreads.c prints F(N) down to F(1), each once and in this       *)
(* order, up to the first fork that fails (lines 6-10).                    *)
(***************************************************************************)
THEOREM TermsPrinted == ProgramsSpec => []PrintsDownwards
<1>1. Computing /\ [ProgramsNext \/ ProgramsTerminated]_programsVars =>
        Computing'
  BY ComputingStep, SameComputing, FibSteps
<1>2. Computing => PrintsDownwards
  BY FibSizes DEF Computing, Written, PrintsDownwards, Fib!PrintsDownwards
<1> QED
  BY ComputingInit, <1>1, <1>2, PTL DEF ProgramsSpec

-----------------------------------------------------------------------------
(* BinTree.c, BinTreeChild.c *)

(* the names of processes: sequences of sides *)
Paths == Seq({"left", "right"})

(* p is above q in the tree, or q itself *)
Above(p, q) == Len(p) <= Len(q) /\ \A k \in 1..Len(p) : p[k] = q[k]

(* The processes that are represented, and the order of the tree. *)
LEMMA ProcessesAre ==
  \A p : p \in Tree!Processes <=> p \in Paths /\ Len(p) < MaxLevels
<1>1. MaxLevels \in Nat \ {0}
  BY ProgramsAssumption
<1>2. ASSUME NEW p \in Tree!Processes PROVE p \in Paths /\ Len(p) < MaxLevels
  <2>1. PICK n \in 0..(MaxLevels - 1) : p \in [1..n -> {"left", "right"}]
    BY DEF Tree!Processes
  <2>2. n \in Nat /\ p \in Paths /\ Len(p) = n
    BY <1>1, <2>1 DEF Paths
  <2> QED
    BY <1>1, <2>1, <2>2
<1>3. ASSUME NEW p \in Paths, Len(p) < MaxLevels PROVE p \in Tree!Processes
  <2>1. Len(p) \in 0..(MaxLevels - 1) /\ p \in [1..Len(p) -> {"left", "right"}]
    BY <1>1, <1>3 DEF Paths
  <2> QED
    BY <2>1 DEF Tree!Processes
<1> QED
  BY <1>2, <1>3

LEMMA PrefixIsAbove ==
  ASSUME NEW p \in Paths, NEW q \in Paths
  PROVE  Tree!IsPrefix(p, q) <=> Above(p, q)
<1>1. CASE Len(p) <= Len(q)
  <2>1. /\ SubSeq(q, 1, Len(p)) \in Paths /\ Len(SubSeq(q, 1, Len(p))) = Len(p)
        /\ \A k \in 1..Len(p) : SubSeq(q, 1, Len(p))[k] = q[k]
    BY <1>1 DEF Paths
  <2>2. SubSeq(p, 1, Len(p)) = p
    BY DEF Paths
  <2>3. SubSeq(q, 1, Len(p)) = p <=> \A k \in 1..Len(p) : p[k] = q[k]
    BY <2>1 DEF Paths
  <2> QED
    BY <1>1, <2>2, <2>3 DEF Tree!IsPrefix, Above
<1>2. CASE ~(Len(p) <= Len(q))
  BY <1>2 DEF Tree!IsPrefix, Above
<1> QED
  BY <1>1, <1>2

(* What is above and below a child is what is above and below its parent. *)
LEMMA ChildIs ==
  ASSUME NEW p \in Paths, NEW side \in {"left", "right"}
  PROVE  /\ Append(p, side) \in Paths /\ Len(Append(p, side)) = Len(p) + 1
         /\ Append(p, side) # p /\ Above(p, Append(p, side))
BY DEF Paths, Above

LEMMA AboveItself == ASSUME NEW p \in Paths PROVE Above(p, p)
BY DEF Paths, Above

LEMMA AboveAbove ==
  ASSUME NEW a \in Paths, NEW p \in Paths, NEW q \in Paths,
         Above(a, p), Above(p, q)
  PROVE  Above(a, q)
BY DEF Paths, Above

LEMMA AboveEqual ==
  ASSUME NEW p \in Paths, NEW q \in Paths, Above(p, q), p # q
  PROVE  Len(p) < Len(q)
BY DEF Paths, Above

LEMMA BelowChild ==
  ASSUME NEW p \in Paths, NEW q \in Paths, Above(p, q), p # q
  PROVE  \E side \in {"left", "right"} : Above(Append(p, side), q)
<1>1. Len(p) < Len(q)
  BY AboveEqual
<1>2. q[Len(p) + 1] \in {"left", "right"}
  BY <1>1 DEF Paths
<1>3. Above(Append(p, q[Len(p) + 1]), q)
  BY <1>1, <1>2 DEF Paths, Above
<1> QED
  BY <1>2, <1>3

LEMMA AboveChild ==
  ASSUME NEW a \in Paths, NEW p \in Paths, NEW side \in {"left", "right"},
         Above(a, Append(p, side)), a # Append(p, side)
  PROVE  Above(a, p)
<1>1. Len(a) < Len(Append(p, side))
  BY AboveEqual, ChildIs
<1>2. Len(a) <= Len(p) /\ \A k \in 1..Len(a) : Append(p, side)[k] = p[k]
  BY <1>1 DEF Paths
<1> QED
  BY <1>2 DEF Above

LEMMA SameParent ==
  ASSUME NEW a \in Paths, NEW p \in Paths, NEW s \in {"left", "right"},
         NEW t \in {"left", "right"}, Append(a, s) = Append(p, t)
  PROVE  a = p /\ s = t
BY DEF Paths

LEMMA OneChildAbove ==
  ASSUME NEW p \in Paths, NEW q \in Paths, Above(Append(p, "right"), q)
  PROVE  q # Append(p, "left") /\ q # p
BY DEF Paths, Above

Stages == {"none", "forked", "left", "right", "wait", "ended"}

TreeTypes ==
  /\ argument \in Depths
  /\ run \in [Tree!Processes -> Stages]
  /\ mDepth \in [Tree!Processes -> Int]
  /\ broken \subseteq Tree!Processes

(* no process from p down has failed *)
Unbroken(p) == \A b \in broken : ~Above(p, b)

(* what the stage x of p says of the stage y of a process q below it *)
Allows(p, q, x, y) ==
  /\ x \in {"none", "forked", "left"} => y = "none"
  /\ x = "right" /\ Above(Append(p, "right"), q) => y = "none"
  /\ x = "ended" /\ Unbroken(p) => y \in {"none", "ended"}

(***************************************************************************)
(* The inductive invariant is Growing, of four parts.  Ordered: what the   *)
(* stage of a process says of every process below it.                      *)
(***************************************************************************)
Ordered ==
  \A p, q \in Tree!Processes :
    Above(p, q) /\ p # q => Allows(p, q, run[p], run[q])

(* p forks: its depth is not used up *)
Inner(p) == argument > 1 /\ 2 * Len(p) <= argument

(* Sized: the depth of a process by its level *)
Sized ==
  \A p \in Tree!Processes :
    /\ run[p] = "forked" =>
         p # <<>> /\ mDepth[p] = argument + 1 - 2 * Len(p)
    /\ run[p] \in {"left", "right", "wait"} =>
         /\ Inner(p)
         /\ mDepth[p] = IF p = <<>> THEN argument - 1
                        ELSE argument - 2 * Len(p)
    /\ run[p] # "none" /\ p # <<>> =>
         argument > 1 /\ 2 * (Len(p) - 1) <= argument

(* Forked: if nothing failed, a process past a fork has that child. *)
Forked ==
  broken = {} =>
    \A p \in Tree!Processes :
      Inner(p) =>
        /\ run[p] \in {"right", "wait", "ended"} =>
             run[Append(p, "left")] # "none"
        /\ run[p] \in {"wait", "ended"} => run[Append(p, "right")] # "none"

Growing == TreeTypes /\ Ordered /\ Sized /\ Forked

LEMMA TreeSizes ==
  /\ Depths \subseteq Int /\ MaxLevels \in Nat \ {0}
  /\ \A d \in Depths : IF d <= 1 THEN MaxLevels >= 1
                       ELSE MaxLevels >= 2 + d \div 2
BY ProgramsAssumption

LEMMA HalfIs ==
  ASSUME NEW d \in Int
  PROVE  d \div 2 \in Int /\ 2 * (d \div 2) <= d /\ d < 2 * (d \div 2) + 2
OBVIOUS

(* The children of a process that forks are represented. *)
LEMMA ChildrenOfInner ==
  ASSUME TreeTypes, NEW p \in Tree!Processes, Inner(p),
         NEW side \in {"left", "right"}
  PROVE  Append(p, side) \in Tree!Processes
<1>1. /\ p \in Paths /\ Append(p, side) \in Paths
      /\ Len(Append(p, side)) = Len(p) + 1
  BY ProcessesAre, ChildIs
<1>2. argument \in Int /\ MaxLevels \in Nat /\ MaxLevels >= 2 + argument \div 2
  BY TreeSizes DEF TreeTypes, Inner
<1>3. Len(p) \in Nat /\ 2 * Len(p) <= argument
  BY <1>1 DEF Inner, Paths
<1>4. Len(p) + 1 < MaxLevels
  BY <1>2, <1>3, HalfIs
<1> QED
  BY <1>1, <1>4, ProcessesAre

LEMMA RootIs == <<>> \in Tree!Processes /\ <<>> \in Paths /\ Len(<<>>) = 0
<1>1. <<>> \in Paths /\ Len(<<>>) = 0
  BY DEF Paths
<1>2. 0 < MaxLevels
  BY TreeSizes
<1> QED
  BY <1>1, <1>2, ProcessesAre

(* The stages of two processes after a step that changes only p's, from a  *)
(* live one.                                                               *)
LEMMA MoveOrdered ==
  ASSUME Growing, NEW p \in Tree!Processes, run[p] \notin {"none", "ended"},
         NEW x \in Stages \ {"none"}, run' = [run EXCEPT ![p] = x],
         broken \subseteq broken', broken' \subseteq Tree!Processes,
         \A q \in Tree!Processes :
           Above(p, q) /\ p # q => Allows(p, q, x, run[q])'
  PROVE  Ordered'
<1> SUFFICES ASSUME NEW a \in Tree!Processes, NEW q \in Tree!Processes,
                    Above(a, q), a # q
             PROVE  Allows(a, q, run[a], run[q])'
  BY DEF Ordered
<1>1. /\ run \in [Tree!Processes -> Stages] /\ Allows(a, q, run[a], run[q])
      /\ run' \in [Tree!Processes -> Stages]
  BY DEF Growing, TreeTypes, Ordered
<1>2. CASE a = p
  <2>1. run'[a] = x /\ run'[q] = run[q]
    BY <1>1, <1>2
  <2> QED
    BY <1>2, <2>1 DEF Allows
<1>3. CASE a # p
  <2>1. run'[a] = run[a]
    BY <1>1, <1>3
  <2>2. Unbroken(a)' => Unbroken(a)
    BY DEF Unbroken
  <2>3. CASE q = p
    BY <1>1, <2>1, <2>2, <2>3 DEF Allows
  <2>4. CASE q # p
    <3>1. run'[q] = run[q]
      BY <1>1, <2>4
    <3> QED
      BY <1>1, <2>1, <2>2, <3>1 DEF Allows
  <2> QED
    BY <2>3, <2>4
<1> QED
  BY <1>2, <1>3

(* A child is not above its parent. *)
LEMMA ForkOrdered ==
  ASSUME Growing, NEW p \in Tree!Processes, NEW side \in {"left", "right"},
         run[p] = side, Append(p, side) \in Tree!Processes,
         run' = [run EXCEPT ![p] = Tree!After(@),
                            ![Append(p, side)] = "forked"],
         broken' = broken
  PROVE  Ordered'
<1> DEFINE child == Append(p, side)
<1>1. /\ p \in Paths /\ child \in Paths /\ child # p /\ Above(p, child)
      /\ \A a \in Tree!Processes : a \in Paths
  BY ProcessesAre, ChildIs
<1>2. /\ run \in [Tree!Processes -> Stages]
      /\ run'[p] = IF side = "left" THEN "right" ELSE "wait"
      /\ run'[child] = "forked"
      /\ \A a \in Tree!Processes : a # p /\ a # child => run'[a] = run[a]
  BY <1>1 DEF Growing, TreeTypes, Tree!After
<1>3. \A a, q \in Tree!Processes :
        Above(a, q) /\ a # q => Allows(a, q, run[a], run[q])
  BY DEF Growing, Ordered
<1> SUFFICES ASSUME NEW a \in Tree!Processes, NEW q \in Tree!Processes,
                    Above(a, q), a # q
             PROVE  Allows(a, q, run[a], run[q])'
  BY DEF Ordered
<1>4. a \in Paths /\ q \in Paths /\ (Unbroken(a)' <=> Unbroken(a))
  BY <1>1 DEF Unbroken
<1> HIDE DEF child
<1>5. CASE a = child
  <2>1. Above(p, q) /\ p # q /\ q # child
    BY <1>1, <1>4, <1>5, AboveAbove, AboveEqual DEF Above, Paths
  <2>2. run[q] = "none"
    <3>1. Allows(p, q, run[p], run[q])
      BY <1>3, <2>1
    <3> QED
      BY <1>5, <3>1 DEF Allows, child
  <2> QED
    BY <1>2, <1>5, <2>1, <2>2 DEF Allows
<1>6. CASE a = p
  <2>1. CASE side = "left"
    <3>1. Allows(p, q, "left", run[q])
      BY <1>3, <1>6, <2>1
    <3>2. run[q] = "none"
      BY <3>1 DEF Allows
    <3>3. Above(Append(p, "right"), q) => q # child /\ q # p
      BY <1>4, <1>1, <2>1, OneChildAbove DEF child
    <3> QED
      BY <1>2, <1>6, <2>1, <3>2, <3>3 DEF Allows
  <2>2. CASE side = "right"
    BY <1>2, <1>6, <2>2 DEF Allows
  <2> QED
    BY <2>1, <2>2
<1>7. CASE a # child /\ a # p
  <2>1. run'[a] = run[a]
    BY <1>2, <1>7
  <2>2. CASE q = p
    <3>1. Allows(a, p, run[a], side)
      BY <1>3, <2>2
    <3> QED
      BY <1>4, <2>1, <2>2, <3>1 DEF Allows
  <2>3. CASE q = child
    <3>1. Above(a, p)
      BY <1>1, <1>4, <1>7, <2>3, AboveChild DEF child
    <3>2. Allows(a, p, run[a], side)
      BY <1>3, <1>7, <3>1
    <3>3. Above(Append(a, "right"), child) => Above(Append(a, "right"), p)
      <4>1. Append(a, "right") # child /\ Append(a, "right") \in Paths
        BY <1>1, <1>4, <1>7, SameParent, ChildIs DEF child
      <4> QED
        BY <1>1, <4>1, AboveChild DEF child
    <3> QED
      BY <1>4, <2>1, <2>3, <3>2, <3>3 DEF Allows
  <2>4. CASE q # p /\ q # child
    <3>1. run'[q] = run[q] /\ Allows(a, q, run[a], run[q])
      BY <1>2, <1>3, <2>4
    <3> QED
      BY <1>4, <2>1, <3>1 DEF Allows
  <2> QED
    BY <2>2, <2>3, <2>4
<1> QED
  BY <1>5, <1>6, <1>7

(* A step of one process that forks nothing preserves Growing, ... *)
LEMMA MoveGrowing ==
  ASSUME Growing, NEW p \in Tree!Processes, run[p] \notin {"none", "ended"},
         NEW x \in {"left", "right", "wait", "ended"},
         run' = [run EXCEPT ![p] = x], argument' = argument,
         mDepth' \in [Tree!Processes -> Int],
         \A q \in Tree!Processes : q # p => mDepth'[q] = mDepth[q],
         broken \subseteq broken', broken' \subseteq Tree!Processes,
         \A q \in Tree!Processes :
           Above(p, q) /\ p # q => Allows(p, q, x, run[q])',
         x # "ended" => /\ Inner(p)
                        /\ mDepth'[p] = IF p = <<>> THEN argument - 1
                                        ELSE argument - 2 * Len(p),
         broken' = {} /\ Inner(p) =>
           /\ x \in {"right", "wait", "ended"} =>
                run[Append(p, "left")] # "none"
           /\ x \in {"wait", "ended"} => run[Append(p, "right")] # "none"
  PROVE  Growing'
<1>1. Ordered'
  <2>1. x \in Stages \ {"none"}
    BY DEF Stages
  <2> QED
    BY <2>1, MoveOrdered
<1>2. TreeTypes'
  BY DEF Growing, TreeTypes, Stages
<1>3. /\ run'[p] = x
      /\ \A q \in Tree!Processes : q # p => run'[q] = run[q]
      /\ \A q \in Tree!Processes : Inner(q)' <=> Inner(q)
  BY DEF Growing, TreeTypes, Inner
<1>4. Sized'
  <2> SUFFICES ASSUME NEW q \in Tree!Processes
               PROVE  /\ run'[q] = "forked" =>
                           q # <<>> /\ mDepth'[q] = argument + 1 - 2 * Len(q)
                      /\ run'[q] \in {"left", "right", "wait"} =>
                           /\ Inner(q)
                           /\ mDepth'[q] = IF q = <<>> THEN argument - 1
                                           ELSE argument - 2 * Len(q)
                      /\ run'[q] # "none" /\ q # <<>> =>
                           argument > 1 /\ 2 * (Len(q) - 1) <= argument
    BY <1>3 DEF Sized
  <2>1. CASE q = p
    BY <1>3, <2>1 DEF Growing, Sized
  <2>2. CASE q # p
    BY <1>3, <2>2 DEF Growing, Sized
  <2> QED
    BY <2>1, <2>2
<1>5. Forked'
  <2> SUFFICES ASSUME broken' = {}, NEW q \in Tree!Processes, Inner(q)
               PROVE  /\ run'[q] \in {"right", "wait", "ended"} =>
                           run'[Append(q, "left")] # "none"
                      /\ run'[q] \in {"wait", "ended"} =>
                           run'[Append(q, "right")] # "none"
    BY <1>3 DEF Forked
  <2>1. /\ Append(q, "left") \in Tree!Processes
        /\ Append(q, "right") \in Tree!Processes
    BY ChildrenOfInner DEF Growing
  <2>2. ASSUME NEW r \in Tree!Processes, run[r] # "none"
        PROVE  run'[r] # "none"
    BY <1>3, <2>2
  <2>3. CASE q = p
    BY <1>3, <2>1, <2>2, <2>3
  <2>4. CASE q # p
    <3>1. broken = {} /\ run'[q] = run[q]
      BY <1>3, <2>4
    <3> QED
      BY <2>1, <2>2, <3>1 DEF Growing, Forked
  <2> QED
    BY <2>3, <2>4
<1> QED
  BY <1>1, <1>2, <1>4, <1>5 DEF Growing

(* ... and so does a fork. *)
LEMMA ForkGrowing ==
  ASSUME Growing, NEW p \in Tree!Processes, Tree!Fork(p)
  PROVE  Growing'
<1>1. PICK side \in {"left", "right"} : run[p] = side
  BY DEF Tree!Fork
<1> DEFINE child == Append(p, side)
<1>2. /\ run' = [run EXCEPT ![p] = Tree!After(@), ![child] = "forked"]
      /\ mDepth' = [mDepth EXCEPT ![child] = Tree!Inherited(p)]
      /\ argument' = argument /\ broken' = broken
  BY <1>1 DEF Tree!Fork
<1>3. /\ p \in Paths /\ Len(p) \in Nat /\ argument \in Int /\ TreeTypes
      /\ Inner(p)
      /\ mDepth[p] = IF p = <<>> THEN argument - 1 ELSE argument - 2 * Len(p)
  BY <1>1, ProcessesAre, TreeSizes
  DEF Growing, Sized, TreeTypes, Paths
<1>4. /\ child \in Tree!Processes /\ child \in Paths /\ child # p
      /\ Len(child) = Len(p) + 1 /\ child # <<>>
  <2>1. /\ child \in Tree!Processes /\ child \in Paths /\ child # p
        /\ Len(child) = Len(p) + 1
    BY <1>3, ChildrenOfInner, ChildIs
  <2> HIDE DEF child
  <2>2. child # <<>>
    BY <1>3, <2>1, RootIs
  <2> QED
    BY <2>1, <2>2
<1>5. Ordered'
  BY <1>1, <1>2, <1>4, ForkOrdered
<1> HIDE DEF child
<1>6. Tree!Inherited(p) = argument + 1 - 2 * Len(child)
  <2>1. CASE p = <<>>
    <3>1. Len(p) = 0
      BY <2>1, RootIs
    <3> QED
      BY <1>3, <1>4, <2>1, <3>1 DEF Tree!Inherited, Tree!Root
  <2>2. CASE p # <<>>
    BY <1>3, <1>4, <2>2 DEF Tree!Inherited, Tree!Root
  <2> QED
    BY <2>1, <2>2
<1>7. /\ run'[p] = IF side = "left" THEN "right" ELSE "wait"
      /\ run'[child] = "forked"
      /\ \A q \in Tree!Processes : q # p /\ q # child => run'[q] = run[q]
      /\ mDepth'[child] = Tree!Inherited(p)
      /\ \A q \in Tree!Processes : q # child => mDepth'[q] = mDepth[q]
      /\ \A q \in Tree!Processes : Inner(q)' <=> Inner(q)
  BY <1>1, <1>2, <1>3, <1>4 DEF TreeTypes, Tree!After, Inner
<1>8. TreeTypes'
  BY <1>1, <1>2, <1>3, <1>4, <1>6 DEF TreeTypes, Stages, Tree!After
<1>9. Sized'
  <2> SUFFICES ASSUME NEW q \in Tree!Processes
               PROVE  /\ run'[q] = "forked" =>
                           q # <<>> /\ mDepth'[q] = argument + 1 - 2 * Len(q)
                      /\ run'[q] \in {"left", "right", "wait"} =>
                           /\ Inner(q)
                           /\ mDepth'[q] = IF q = <<>> THEN argument - 1
                                           ELSE argument - 2 * Len(q)
                      /\ run'[q] # "none" /\ q # <<>> =>
                           argument > 1 /\ 2 * (Len(q) - 1) <= argument
    BY <1>2, <1>7 DEF Sized
  <2>1. CASE q = child
    BY <1>3, <1>4, <1>6, <1>7, <2>1 DEF Inner
  <2>2. CASE q = p
    BY <1>1, <1>3, <1>4, <1>7, <2>2 DEF Growing, Sized
  <2>3. CASE q # p /\ q # child
    BY <1>7, <2>3 DEF Growing, Sized
  <2> QED
    BY <2>1, <2>2, <2>3
<1>10. Forked'
  <2> SUFFICES ASSUME broken' = {}, NEW q \in Tree!Processes, Inner(q)
               PROVE  /\ run'[q] \in {"right", "wait", "ended"} =>
                           run'[Append(q, "left")] # "none"
                      /\ run'[q] \in {"wait", "ended"} =>
                           run'[Append(q, "right")] # "none"
    BY <1>7 DEF Forked
  <2>1. /\ Append(q, "left") \in Tree!Processes
        /\ Append(q, "right") \in Tree!Processes
    BY <1>3, ChildrenOfInner
  <2>2. ASSUME NEW r \in Tree!Processes, run[r] # "none" \/ r = child
        PROVE  run'[r] # "none"
    BY <1>7, <2>2
  <2>3. /\ run[q] \in {"right", "wait", "ended"} =>
             run[Append(q, "left")] # "none"
        /\ run[q] \in {"wait", "ended"} => run[Append(q, "right")] # "none"
    BY <1>2 DEF Growing, Forked
  <2>4. CASE q = child
    BY <1>7, <2>4
  <2>5. CASE q = p
    BY <1>1, <1>7, <2>1, <2>2, <2>3, <2>5 DEF child
  <2>6. CASE q # p /\ q # child
    BY <1>7, <2>1, <2>2, <2>3, <2>6
  <2> QED
    BY <2>4, <2>5, <2>6
<1> QED
  BY <1>5, <1>8, <1>9, <1>10 DEF Growing

LEMMA GrowingInit == ProgramsInit => Growing
<1> SUFFICES ASSUME Tree!Init PROVE Growing
  BY DEF ProgramsInit
<1>1. /\ argument \in Depths /\ argument \in Int /\ broken = {}
      /\ mDepth = [p \in Tree!Processes |->
                     IF p = <<>> THEN argument - 1 ELSE 0]
      /\ run = [p \in Tree!Processes |->
                  IF p # <<>> THEN "none"
                  ELSE IF argument > 1 THEN "left" ELSE "ended"]
  BY TreeSizes DEF Tree!Init, Tree!Root
<1>2. TreeTypes
  BY <1>1 DEF TreeTypes, Stages
<1>3. Ordered
  <2> SUFFICES ASSUME NEW p \in Tree!Processes, NEW q \in Tree!Processes,
                      Above(p, q), p # q
               PROVE  Allows(p, q, run[p], run[q])
    BY DEF Ordered
  <2>1. p \in Paths /\ q \in Paths /\ Len(p) < Len(q) /\ Len(p) \in Nat
    BY ProcessesAre, AboveEqual DEF Paths
  <2>2. q # <<>>
    BY <2>1, RootIs
  <2> QED
    BY <1>1, <2>2 DEF Allows
<1>4. Sized
  BY <1>1, RootIs DEF Sized, Inner
<1>5. Forked
  BY <1>1 DEF Forked, Inner
<1> QED
  BY <1>2, <1>3, <1>4, <1>5 DEF Growing

LEMMA GrowingStep == Growing /\ Tree!Next => Growing'
<1> SUFFICES ASSUME Growing, NEW p \in Tree!Processes,
                    \/ Tree!Fork(p) \/ Tree!ForkFails(p) \/ Tree!Exec(p)
                    \/ Tree!ExecFails(p) \/ Tree!Leaf(p) \/ Tree!Wait(p)
             PROVE  Growing'
  BY DEF Tree!Next
<1>1. /\ TreeTypes /\ argument \in Int /\ mDepth[p] \in Int
      /\ p \in Paths /\ Len(p) \in Nat /\ Above(p, p)
      /\ \A q \in Tree!Processes :
           Above(p, q) /\ p # q => Allows(p, q, run[p], run[q])
      /\ run[p] = "forked" =>
           p # <<>> /\ mDepth[p] = argument + 1 - 2 * Len(p)
      /\ run[p] = "forked" => argument > 1
      /\ run[p] \in {"left", "right", "wait"} =>
           /\ Inner(p)
           /\ mDepth[p] = IF p = <<>> THEN argument - 1
                          ELSE argument - 2 * Len(p)
  BY TreeSizes, ProcessesAre, AboveItself
  DEF Growing, TreeTypes, Ordered, Sized, Paths
<1>2. CASE Tree!Fork(p)
  BY <1>2, ForkGrowing
<1>3. CASE Tree!ForkFails(p)
  <2>1. PICK x \in {"right", "wait", "ended"} : run' = [run EXCEPT ![p] = x]
    BY <1>3 DEF Tree!ForkFails, Tree!After
  <2>2. /\ run[p] \in {"left", "right"} /\ broken' = broken \cup {p}
        /\ argument' = argument /\ mDepth' = mDepth
    BY <1>3 DEF Tree!ForkFails
  <2>3. \/ x = "ended"
        \/ x = "wait" /\ run[p] = "right"
        \/ x = "right" /\ run[p] = "left"
    BY <1>1, <1>3, <2>1, <2>2 DEF Tree!ForkFails, Tree!After, TreeTypes
  <2>4. ~Unbroken(p)'
    BY <1>1, <2>2 DEF Unbroken
  <2>5. ASSUME NEW q \in Tree!Processes, Above(p, q), p # q
        PROVE  Allows(p, q, x, run[q])'
    <3>1. run'[q] = run[q] /\ Allows(p, q, run[p], run[q])
      BY <1>1, <2>1, <2>5 DEF TreeTypes
    <3> QED
      BY <2>2, <2>3, <2>4, <3>1 DEF Allows
  <2>6. /\ broken \subseteq broken' /\ broken' \subseteq Tree!Processes
        /\ broken' # {} /\ mDepth' \in [Tree!Processes -> Int]
    BY <1>1, <2>2 DEF TreeTypes
  <2>7. /\ Inner(p)
        /\ mDepth'[p] = IF p = <<>> THEN argument - 1
                        ELSE argument - 2 * Len(p)
    BY <1>1, <2>2
  <2>8. x \in {"left", "right", "wait", "ended"}
        /\ run[p] \notin {"none", "ended"}
    BY <2>2
  <2> QED
    BY <2>1, <2>2, <2>5, <2>6, <2>7, <2>8, MoveGrowing
<1>4. CASE Tree!Exec(p)
  <2>1. /\ run[p] = "forked" /\ mDepth[p] > 0
        /\ run' = [run EXCEPT ![p] = "left"]
        /\ mDepth' = [mDepth EXCEPT ![p] = @ - 1]
        /\ argument' = argument /\ broken' = broken
    BY <1>4 DEF Tree!Exec
  <2>2. /\ Inner(p) /\ p # <<>> /\ mDepth'[p] = argument - 2 * Len(p)
        /\ mDepth' \in [Tree!Processes -> Int]
        /\ \A q \in Tree!Processes : q # p => mDepth'[q] = mDepth[q]
    BY <1>1, <2>1 DEF Inner, TreeTypes
  <2>3. ASSUME NEW q \in Tree!Processes, Above(p, q), p # q
        PROVE  Allows(p, q, "left", run[q])'
    <3>1. run'[q] = run[q] /\ Allows(p, q, run[p], run[q])
      BY <1>1, <2>1, <2>3 DEF TreeTypes
    <3> QED
      BY <2>1, <3>1 DEF Allows
  <2> QED
    BY <1>1, <2>1, <2>2, <2>3, MoveGrowing DEF TreeTypes
<1>5. CASE Tree!ExecFails(p)
  <2>1. /\ run[p] = "forked" /\ run' = [run EXCEPT ![p] = "ended"]
        /\ mDepth' = mDepth /\ argument' = argument
        /\ broken' = broken \cup {p}
    BY <1>5 DEF Tree!ExecFails
  <2>2. ASSUME NEW q \in Tree!Processes, Above(p, q), p # q
        PROVE  Allows(p, q, "ended", run[q])'
    <3>1. run'[q] = run[q] /\ Allows(p, q, run[p], run[q])
      BY <1>1, <2>1, <2>2 DEF TreeTypes
    <3> QED
      BY <2>1, <3>1 DEF Allows
  <2> QED
    BY <1>1, <2>1, <2>2, MoveGrowing DEF TreeTypes
<1>6. CASE Tree!Leaf(p)
  <2>1. /\ run[p] = "forked" /\ mDepth[p] <= 0
        /\ run' = [run EXCEPT ![p] = "ended"]
        /\ mDepth' = mDepth /\ argument' = argument /\ broken' = broken
    BY <1>6 DEF Tree!Leaf
  <2>2. ~Inner(p)
    BY <1>1, <2>1 DEF Inner
  <2>3. ASSUME NEW q \in Tree!Processes, Above(p, q), p # q
        PROVE  Allows(p, q, "ended", run[q])'
    <3>1. run'[q] = run[q] /\ Allows(p, q, run[p], run[q])
      BY <1>1, <2>1, <2>3 DEF TreeTypes
    <3> QED
      BY <2>1, <3>1 DEF Allows
  <2> QED
    BY <1>1, <2>1, <2>2, <2>3, MoveGrowing DEF TreeTypes
<1>7. CASE Tree!Wait(p)
  <2>1. /\ run[p] = "wait" /\ Tree!Waited(p)
        /\ run' = [run EXCEPT ![p] = "ended"]
        /\ mDepth' = mDepth /\ argument' = argument /\ broken' = broken
    BY <1>7 DEF Tree!Wait
  <2>2. ASSUME NEW side \in {"left", "right"}
        PROVE  /\ Append(p, side) \in Tree!Processes
               /\ run[Append(p, side)] \in {"none", "ended"}
    <3>1. Append(p, side) \in Tree!Processes
      BY <1>1, <2>1, ChildrenOfInner
    <3> QED
      BY <2>1, <3>1 DEF Tree!Waited, Tree!Children
  <2>3. ASSUME NEW q \in Tree!Processes, Above(p, q), p # q
        PROVE  Allows(p, q, "ended", run[q])'
    <3>1. run'[q] = run[q] /\ (Unbroken(p)' <=> Unbroken(p))
      BY <1>1, <2>1, <2>3 DEF TreeTypes, Unbroken
    <3>2. q \in Paths
      BY ProcessesAre
    <3>3. PICK side \in {"left", "right"} : Above(Append(p, side), q)
      BY <1>1, <2>3, <3>2, BelowChild
    <3>4. CASE q = Append(p, side)
      BY <2>2, <3>1, <3>4 DEF Allows
    <3>5. CASE q # Append(p, side)
      <4>1. Allows(Append(p, side), q, run[Append(p, side)], run[q])
        BY <2>2, <3>3, <3>5 DEF Growing, Ordered
      <4>2. Unbroken(p) => Unbroken(Append(p, side))
        <5>1. /\ Append(p, side) \in Paths /\ Above(p, Append(p, side))
              /\ \A b \in broken : b \in Paths
          BY <1>1, ChildIs, ProcessesAre DEF TreeTypes
        <5> QED
          BY <1>1, <5>1, AboveAbove DEF Unbroken
      <4> QED
        BY <2>2, <3>1, <4>1, <4>2 DEF Allows
    <3> QED
      BY <3>4, <3>5
  <2>4. broken' = {} /\ Inner(p) => /\ run[Append(p, "left")] # "none"
                                   /\ run[Append(p, "right")] # "none"
    BY <2>1 DEF Growing, Forked
  <2> QED
    BY <1>1, <2>1, <2>3, <2>4, MoveGrowing DEF TreeTypes
<1> QED
  BY <1>2, <1>3, <1>4, <1>5, <1>6, <1>7

(* By induction on the level: every process of a complete tree has ended. *)
LEMMA GrowingEnds == Growing => EndsBottomUp
<1> SUFFICES ASSUME Growing PROVE Tree!EndsBottomUp
  BY DEF EndsBottomUp
<1>1. /\ TreeTypes /\ argument \in Int
      /\ \A p \in Tree!Processes : p \in Paths
  BY TreeSizes, ProcessesAre DEF Growing, TreeTypes
<1>2. ASSUME NEW p \in Tree!Processes, NEW q \in Tree!Processes,
             run[p] = "ended", Above(p, q), Unbroken(p)
      PROVE  run[q] \in {"none", "ended"}
  <2>1. CASE p = q
    BY <1>2, <2>1
  <2>2. CASE p # q
    BY <1>2, <2>2 DEF Growing, Ordered, Allows
  <2> QED
    BY <2>1, <2>2
<1>3. ASSUME NEW p \in Tree!Processes, NEW q \in Tree!Processes,
             run[p] = "ended", Tree!IsPrefix(p, q),
             \A b \in broken : ~Tree!IsPrefix(p, b)
      PROVE  run[q] \in {"none", "ended"}
  <2>1. Above(p, q)
    BY <1>1, <1>3, PrefixIsAbove
  <2>2. Unbroken(p)
    BY <1>1, <1>3, PrefixIsAbove DEF Unbroken, TreeTypes
  <2> QED
    BY <1>2, <1>3, <2>1, <2>2
<1>4. ASSUME run[<<>>] = "ended", broken = {}
      PROVE  {p \in Tree!Processes : run[p] = "ended"}
               = {p \in Tree!Processes : Len(p) < Tree!Levels}
  <2>1. ASSUME NEW p \in Tree!Processes PROVE run[p] \in {"none", "ended"}
    <3>1. Above(<<>>, p) /\ Unbroken(<<>>)
      BY <1>1, <1>4, RootIs DEF Above, Unbroken, Paths
    <3> QED
      BY <1>2, <1>4, <3>1, RootIs
  <2>2. /\ Tree!Levels \in Int
        /\ argument <= 1 => Tree!Levels = 1
        /\ argument > 1 => /\ 2 * (Tree!Levels - 2) <= argument
                           /\ argument < 2 * (Tree!Levels - 2) + 2
    BY <1>1, HalfIs DEF Tree!Levels
  <2>3. ASSUME NEW p \in Tree!Processes, run[p] = "ended"
        PROVE  Len(p) < Tree!Levels
    <3>1. Len(p) \in Nat
      BY <1>1 DEF Paths
    <3>2. CASE p = <<>>
      <4>1. Len(p) = 0
        BY <3>2, RootIs
      <4> QED
        BY <1>1, <2>2, <4>1
    <3>3. CASE p # <<>>
      <4>1. argument > 1 /\ 2 * (Len(p) - 1) <= argument
        BY <2>3, <3>3 DEF Growing, Sized
      <4> QED
        BY <1>1, <2>2, <3>1, <4>1
    <3> QED
      BY <3>2, <3>3
  <2> DEFINE Reached ==
        {n \in Nat : n < Tree!Levels =>
           \A p \in Tree!Processes : Len(p) = n => run[p] = "ended"}
  <2>4. 0 \in Reached
    <3>1. ASSUME NEW p \in Tree!Processes, Len(p) = 0 PROVE p = <<>>
      BY <1>1, <3>1 DEF Paths
    <3> QED
      BY <1>4, <3>1
  <2>5. ASSUME NEW n \in Reached PROVE n + 1 \in Reached
    <3> SUFFICES ASSUME n + 1 < Tree!Levels, NEW p \in Tree!Processes,
                        Len(p) = n + 1
                 PROVE  run[p] = "ended"
      OBVIOUS
    <3>1. n \in Nat /\ p \in Paths /\ p # <<>>
      BY <1>1, RootIs
    <3> DEFINE a == SubSeq(p, 1, n)
    <3>2. /\ a \in Paths /\ Len(a) = n
          /\ p[n + 1] \in {"left", "right"} /\ p = Append(a, p[n + 1])
      BY <3>1 DEF Paths
    <3> HIDE DEF a
    <3>3. a \in Tree!Processes
      BY <3>1, <3>2, ProcessesAre, TreeSizes
    <3>4. run[a] = "ended"
      BY <2>2, <2>5, <3>1, <3>2, <3>3
    <3>5. argument > 1 /\ 2 * n <= argument
      BY <1>1, <2>2, <3>1
    <3>6. Inner(a)
      BY <3>2, <3>5 DEF Inner
    <3>7. run[Append(a, "left")] # "none" /\ run[Append(a, "right")] # "none"
      BY <1>4, <3>3, <3>4, <3>6 DEF Growing, Forked
    <3> QED
      BY <2>1, <3>2, <3>7
  <2>6. Reached = Nat
    <3>1. Reached \subseteq Nat
      OBVIOUS
    <3> HIDE DEF Reached
    <3> QED
      BY <2>4, <2>5, <3>1, Induction
  <2>7. ASSUME NEW p \in Tree!Processes, Len(p) < Tree!Levels
        PROVE  run[p] = "ended"
    <3>1. Len(p) \in Reached
      BY <1>1, <2>6 DEF Paths
    <3> QED
      BY <2>7, <3>1
  <2> QED
    BY <2>3, <2>7
<1> QED
  BY <1>3, <1>4 DEF Tree!EndsBottomUp, Tree!Root

LEMMA SameGrowing == Growing /\ UNCHANGED treeVars => Growing'
BY DEF Growing, TreeTypes, Ordered, Allows, Unbroken, Sized, Forked, Inner,
       treeVars

LEMMA TreeSteps ==
  ASSUME [ProgramsNext \/ ProgramsTerminated]_programsVars
  PROVE  Tree!Next \/ UNCHANGED treeVars
BY DEF ProgramsNext, ProgramsTerminated, programsVars, SemStep, Frame

(***************************************************************************)
(* BinTree.c, BinTreeChild.c: a process outlives those below it unless one *)
(* of them failed to fork or exec, and a tree in which nothing failed is   *)
(* complete when its root has ended, whatever the depth.                   *)
(***************************************************************************)
THEOREM TreeEnds == ProgramsSpec => []EndsBottomUp
<1>1. Growing /\ [ProgramsNext \/ ProgramsTerminated]_programsVars => Growing'
  BY GrowingStep, SameGrowing, TreeSteps
<1> QED
  BY GrowingInit, <1>1, GrowingEnds, PTL DEF ProgramsSpec

(* What a process that has not ended is about to do does not block it:     *)
(* everything but wait(NULL) with a child that has not ended.              *)
CanEnd(p) ==
  \/ run[p] \in {"forked", "left", "right"}
  \/ run[p] = "wait" /\ Tree!Waited(p)

(***************************************************************************)
(* BinTree.c, BinTreeChild.c: processes that wait for their children never *)
(* all wait.  Until the whole tree has ended, some process can go on, for  *)
(* every depth, and whichever forks and execs have failed: the deepest one *)
(* that waits has no child that does not.                                  *)
(***************************************************************************)
THEOREM TreeNeverStuck ==
  ProgramsSpec => [](~Tree!Over => \E p \in Tree!Processes : CanEnd(p))
<1>1. TreeTypes /\ ~Tree!Over => \E p \in Tree!Processes : CanEnd(p)
  <2> SUFFICES ASSUME TreeTypes, \A p \in Tree!Processes : ~CanEnd(p),
                      NEW q \in Tree!Processes, run[q] \notin {"none", "ended"}
               PROVE  FALSE
    BY DEF Tree!Over
  <2>1. MaxLevels \in Nat \ {0}
    BY TreeSizes
  <2>2. \A p \in Tree!Processes : run[p] \in {"none", "ended", "wait"}
    BY DEF TreeTypes, Stages, CanEnd
  <2>3. ASSUME NEW p \in Tree!Processes, run[p] = "wait"
        PROVE  \E c \in Tree!Processes : run[c] = "wait" /\ Len(c) = Len(p) + 1
    <3>1. PICK c \in Tree!Children(p) : run[c] \notin {"none", "ended"}
      BY <2>3 DEF CanEnd, Tree!Waited
    <3>2. p \in Paths
      BY ProcessesAre
    <3>3. c \in Tree!Processes /\ Len(c) = Len(p) + 1
      BY <3>1, <3>2, ChildIs DEF Tree!Children
    <3> QED
      BY <2>2, <3>1, <3>3
  <2> DEFINE Shallow == {n \in Nat : \A p \in Tree!Processes :
                           run[p] = "wait" => Len(p) + n < MaxLevels}
  <2>4. 0 \in Shallow
    BY <2>1, ProcessesAre DEF Paths
  <2>5. ASSUME NEW n \in Shallow PROVE n + 1 \in Shallow
    <3> SUFFICES ASSUME NEW p \in Tree!Processes, run[p] = "wait"
                 PROVE  Len(p) + (n + 1) < MaxLevels
      OBVIOUS
    <3>1. PICK c \in Tree!Processes : run[c] = "wait" /\ Len(c) = Len(p) + 1
      BY <2>3
    <3>2. Len(c) + n < MaxLevels /\ Len(p) \in Nat
      BY <3>1, ProcessesAre DEF Paths
    <3> QED
      BY <2>1, <3>1, <3>2
  <2>6. Shallow = Nat
    <3>1. Shallow \subseteq Nat
      OBVIOUS
    <3> HIDE DEF Shallow
    <3> QED
      BY <2>4, <2>5, <3>1, Induction
  <2>7. run[q] = "wait" /\ Len(q) \in Nat
    BY <2>2, ProcessesAre DEF Paths
  <2>8. Len(q) + MaxLevels < MaxLevels
    <3>1. MaxLevels \in Shallow
      <4> HIDE DEF Shallow
      <4> QED
        BY <2>1, <2>6
    <3> QED
      BY <2>7, <3>1
  <2> QED
    BY <2>1, <2>7, <2>8
<1>2. Growing /\ [ProgramsNext \/ ProgramsTerminated]_programsVars => Growing'
  BY GrowingStep, SameGrowing, TreeSteps
<1>3. Growing => TreeTypes
  BY DEF Growing
<1> QED
  BY GrowingInit, <1>1, <1>2, <1>3, PTL DEF ProgramsSpec

-----------------------------------------------------------------------------
(* createEncryptedCopy.c *)

(* FlattenSeq by its parts: the concatenation of the first k of s. *)
Flattening(s) ==
  LET flatten[k \in 1..Len(s)] ==
        IF k = 1 THEN s[k] ELSE flatten[k - 1] \o s[k]
  IN  flatten

Joined(s, k) == IF k = 0 THEN <<>> ELSE Flattening(s)[k]

LEMMA FlattenIsJoined ==
  ASSUME NEW s
  PROVE  Len(s) # 0 => Copy!FlattenSeq(s) = Joined(s, Len(s))
BY DEF Copy!FlattenSeq, Joined, Flattening

LEMMA FlatteningIs ==
  ASSUME NEW S, NEW s \in Seq(Seq(S)), NEW k \in 1..Len(s)
  PROVE  Flattening(s)[k] = IF k = 1 THEN s[k] ELSE Flattening(s)[k - 1] \o s[k]
<1> DEFINE T == Seq(S)
           step == [n \in Nat |->
                      [x \in T |-> IF n + 2 <= Len(s)
                                   THEN x \o s[n + 2] ELSE x]]
           first == s[1]
<1>1. StepOn(T, step)
  <2>1. ASSUME NEW n \in Nat, NEW x \in T
        PROVE  (IF n + 2 <= Len(s) THEN x \o s[n + 2] ELSE x) \in T
    <3>1. CASE n + 2 <= Len(s)
      <4>1. s[n + 2] \in T
        BY <3>1
      <4> QED
        BY <3>1, <4>1
    <3> QED
      BY <3>1
  <2> HIDE DEF T
  <2> QED
    BY <2>1 DEF StepOn
<1>2. first \in T
  OBVIOUS
<1>3. PICK g : Iterates(g, T, first, step)
  <2> HIDE DEF T, step, first
  <2> QED
    BY <1>1, <1>2, Recursion
<1>4. /\ g \in [Nat -> T] /\ g[0] = s[1]
      /\ \A n \in Nat : n + 2 <= Len(s) => g[n + 1] = g[n] \o s[n + 2]
  BY <1>3 DEF Iterates
<1> DEFINE h == [m \in 1..Len(s) |-> g[m - 1]]
<1>5. h = [m \in 1..Len(s) |-> IF m = 1 THEN s[m] ELSE h[m - 1] \o s[m]]
  <2>1. ASSUME NEW m \in 1..Len(s)
        PROVE  h[m] = IF m = 1 THEN s[m] ELSE h[m - 1] \o s[m]
    <3>1. CASE m = 1
      BY <1>4, <3>1
    <3>2. CASE m # 1
      <4>1. PICK n \in Nat : m = n + 2 /\ n + 2 <= Len(s)
        <5>1. m - 2 \in Nat /\ m = (m - 2) + 2
          BY <3>2
        <5> QED
          BY <5>1
      <4>2. g[n + 1] = g[n] \o s[n + 2]
        BY <1>4, <4>1
      <4>3. /\ n + 2 \in 1..Len(s) /\ n + 1 \in 1..Len(s)
            /\ (n + 2) - 1 = n + 1 /\ (n + 1) - 1 = n
        BY <4>1
      <4>4. h[n + 2] = g[n + 1] /\ h[n + 1] = g[n]
        BY <4>3
      <4> HIDE DEF h
      <4> QED
        BY <3>2, <4>1, <4>2, <4>3, <4>4
    <3> QED
      BY <3>1, <3>2
  <2> HIDE DEF h
  <2>2. h = [m \in 1..Len(s) |-> h[m]]
    BY DEF h
  <2> QED
    BY <2>1, <2>2
<1>6. Flattening(s) =
        [m \in 1..Len(s) |->
           IF m = 1 THEN s[m] ELSE Flattening(s)[m - 1] \o s[m]]
  <2> HIDE DEF h
  <2> QED
    BY <1>5 DEF Flattening
<1> QED
  BY <1>6

LEMMA JoinedIs ==
  ASSUME NEW S, NEW s \in Seq(Seq(S)), NEW k \in 0..Len(s)
  PROVE  /\ Joined(s, k) \in Seq(S)
         /\ Joined(s, 0) = <<>>
         /\ k < Len(s) => Joined(s, k + 1) = Joined(s, k) \o s[k + 1]
<1>1. ASSUME NEW m \in 1..Len(s)
      PROVE  Joined(s, m) = Joined(s, m - 1) \o s[m]
  <2>1. Joined(s, m) = Flattening(s)[m]
    BY DEF Joined
  <2>2. Flattening(s)[m] =
          IF m = 1 THEN s[m] ELSE Flattening(s)[m - 1] \o s[m]
    BY FlatteningIs
  <2>3. CASE m = 1
    <3>1. s[m] \in Seq(S) /\ <<>> \o s[m] = s[m]
      OBVIOUS
    <3> QED
      BY <2>1, <2>2, <2>3, <3>1 DEF Joined
  <2>4. CASE m # 1
    <3>1. m - 1 # 0
      BY <2>4
    <3>2. Joined(s, m - 1) = Flattening(s)[m - 1]
      BY <3>1 DEF Joined
    <3> QED
      BY <2>1, <2>2, <2>4, <3>2
  <2> QED
    BY <2>3, <2>4
<1>2. Joined(s, 0) = <<>>
  BY DEF Joined
<1> DEFINE HoldsAt == {m \in Nat : m <= Len(s) => Joined(s, m) \in Seq(S)}
<1>3. 0 \in HoldsAt
  <2>1. <<>> \in Seq(S)
    OBVIOUS
  <2> QED
    BY <1>2, <2>1
<1>4. ASSUME NEW m \in HoldsAt PROVE m + 1 \in HoldsAt
  <2> SUFFICES ASSUME m + 1 <= Len(s) PROVE Joined(s, m + 1) \in Seq(S)
    OBVIOUS
  <2>1. Joined(s, m) \in Seq(S) /\ s[m + 1] \in Seq(S)
    BY <1>4
  <2>2. Joined(s, m + 1) = Joined(s, m) \o s[m + 1]
    <3>1. m + 1 \in 1..Len(s) /\ (m + 1) - 1 = m
      BY <1>4
    <3> QED
      BY <1>1, <3>1
  <2>3. Joined(s, m) \o s[m + 1] \in Seq(S)
    BY <2>1, ConcatIs
  <2> QED
    BY <2>2, <2>3
<1>5. HoldsAt = Nat
  <2>1. HoldsAt \subseteq Nat
    OBVIOUS
  <2> HIDE DEF HoldsAt
  <2> QED
    BY <1>3, <1>4, <2>1, Induction
<1>6. k < Len(s) => k + 1 \in 1..Len(s) /\ (k + 1) - 1 = k
  OBVIOUS
<1>7. Joined(s, k) \in Seq(S)
  <2>1. k \in HoldsAt
    BY <1>5
  <2> QED
    BY <2>1
<1> QED
  BY <1>1, <1>2, <1>6, <1>7

(* what a byte may be: those of the source and of the strings *)
Bytes == UNION {{s[k] : k \in DOMAIN s} : s \in Strings \cup {Source}}

LEMMA SourceBytes == Source \in Seq(Bytes) /\ Strings \subseteq Seq(Bytes)
<1>1. ASSUME NEW s \in Strings \cup {Source} PROVE s \in Seq(Bytes)
  <2>1. s \in Seq({s[k] : k \in DOMAIN s})
    BY ProgramsAssumption
  <2>2. {s[k] : k \in DOMAIN s} \subseteq Bytes
    BY DEF Bytes
  <2> QED
    BY <2>1, <2>2
<1> QED
  BY <1>1

(* the chunks read reads, how many they are, and where each ends *)
Last == (Len(Source) + size - 1) \div size
Chunk(k) ==
  SubSeq(Source, size * (k - 1) + 1, Copy!Min({size * k, Len(Source)}))
Pieces == [k \in 1..Last |-> Chunk(k) \o suffix]
EndOf(k) == IF k = Last THEN Len(Source) ELSE size * k

LEMMA MinIs ==
  ASSUME NEW a \in Int, NEW b \in Int
  PROVE  Copy!Min({a, b}) = IF a <= b THEN a ELSE b
BY DEF Copy!Min

LEMMA TimesMonotonic ==
  ASSUME NEW a \in Nat, NEW b \in Nat, NEW c \in Nat, a <= b
  PROVE  c * a \in Nat /\ c * b \in Nat /\ c * a <= c * b
OBVIOUS

LEMMA LastIs ==
  ASSUME size \in Nat \ {0}
  PROVE  /\ Last \in Nat
         /\ size * Last \in Nat /\ size * Last >= Len(Source)
         /\ Last # 0 => size * (Last - 1) < Len(Source)
<1>1. Len(Source) \in Nat
  BY SourceBytes
<1> DEFINE a == Len(Source) + size - 1
<1>2. a \in Nat /\ Last = a \div size
  BY <1>1 DEF Last
<1>3. /\ a \div size \in Int /\ size * (a \div size) <= a
      /\ a < size * (a \div size) + size
  BY <1>2
<1> QED
  BY <1>1, <1>2, <1>3

LEMMA ChunksAre ==
  ASSUME size \in Nat \ {0}, suffix \in Seq(Bytes), NEW k \in 0..(Last - 1)
  PROVE  /\ EndOf(k) = size * k /\ EndOf(k) < EndOf(k + 1)
         /\ EndOf(k + 1) = Copy!Min({size * k + size, Len(Source)})
         /\ Chunk(k + 1) = SubSeq(Source, EndOf(k) + 1, EndOf(k + 1))
         /\ Chunk(k + 1) \in Seq(Bytes)
         /\ Len(Chunk(k + 1)) = EndOf(k + 1) - EndOf(k)
<1>1. /\ Source \in Seq(Bytes) /\ Len(Source) \in Nat
      /\ Last \in Nat /\ Last - 1 \in Nat /\ size * (Last - 1) < Len(Source)
      /\ size * Last \in Nat /\ size * Last >= Len(Source) /\ k \in Nat
  BY SourceBytes, LastIs
<1>2. size * k \in Nat /\ size * k <= size * (Last - 1)
  BY <1>1, TimesMonotonic
<1>3. EndOf(k) = size * k
  BY <1>1 DEF EndOf
<1>4. size * (k + 1) = size * k + size
  OBVIOUS
<1>9. Copy!Min({size * k + size, Len(Source)}) =
        IF size * k + size <= Len(Source) THEN size * k + size
        ELSE Len(Source)
  BY <1>1, <1>2, MinIs
<1>5. EndOf(k + 1) = Copy!Min({size * k + size, Len(Source)})
  <2>1. CASE k + 1 = Last
    BY <1>1, <1>2, <1>4, <1>9, <2>1 DEF EndOf
  <2>2. CASE k + 1 # Last
    <3>1. k + 1 \in Nat /\ k + 1 <= Last - 1
      BY <1>1, <2>2
    <3>2. size * (k + 1) <= size * (Last - 1) /\ size * (k + 1) \in Nat
          /\ size * (Last - 1) \in Nat
      BY <1>1, <3>1, TimesMonotonic
    <3>3. EndOf(k + 1) = size * k + size
      BY <1>4, <2>2 DEF EndOf
    <3>4. size * k + size <= Len(Source)
      BY <1>1, <1>4, <3>2
    <3> QED
      BY <1>9, <3>3, <3>4
  <2> QED
    BY <2>1, <2>2
<1>6. /\ EndOf(k + 1) \in Nat /\ EndOf(k) < EndOf(k + 1)
      /\ EndOf(k + 1) <= Len(Source)
  BY <1>1, <1>2, <1>3, <1>5, <1>9
<1>7. Chunk(k + 1) = SubSeq(Source, EndOf(k) + 1, EndOf(k + 1))
  <2>1. (k + 1) - 1 = k
    OBVIOUS
  <2> QED
    BY <1>3, <1>4, <1>5, <2>1 DEF Chunk
<1>8. /\ SubSeq(Source, EndOf(k) + 1, EndOf(k + 1)) \in Seq(Bytes)
      /\ Len(SubSeq(Source, EndOf(k) + 1, EndOf(k + 1)))
           = EndOf(k + 1) - EndOf(k)
  BY <1>1, <1>2, <1>3, <1>6
<1> QED
  BY <1>3, <1>5, <1>6, <1>7, <1>8

LEMMA PiecesAre ==
  ASSUME size \in Nat \ {0}, suffix \in Seq(Bytes)
  PROVE  /\ Pieces \in Seq(Seq(Bytes)) /\ Len(Pieces) = Last
         /\ \A k \in 1..Last : Pieces[k] = Chunk(k) \o suffix
<1>1. Last \in Nat
  BY LastIs
<1>2. ASSUME NEW k \in 1..Last PROVE Chunk(k) \o suffix \in Seq(Bytes)
  <2>1. PICK m \in 0..(Last - 1) : k = m + 1
    <3>1. k - 1 \in 0..(Last - 1) /\ k = (k - 1) + 1
      BY <1>1
    <3> QED
      BY <3>1
  <2>2. Chunk(m + 1) \in Seq(Bytes)
    BY ChunksAre
  <2> QED
    BY <2>1, <2>2, ConcatIs
<1> QED
  BY <1>1, <1>2 DEF Pieces

LEMMA InterleavedIs ==
  ASSUME size \in Nat \ {0}, suffix \in Seq(Bytes)
  PROVE  Copy!Interleaved = Joined(Pieces, Last)
<1>1. Copy!Interleaved = Copy!FlattenSeq(Pieces)
  BY DEF Copy!Interleaved, Pieces, Chunk, Last
<1>2. Pieces \in Seq(Seq(Bytes)) /\ Len(Pieces) = Last /\ Last \in Nat
  BY PiecesAre, LastIs
<1>3. CASE Last = 0
  <2>1. Pieces = <<>>
    BY <1>2, <1>3
  <2>2. Copy!FlattenSeq(Pieces) = Pieces
    BY <1>2, <1>3 DEF Copy!FlattenSeq
  <2> QED
    BY <1>1, <1>3, <2>1, <2>2 DEF Joined
<1>4. CASE Last # 0
  BY <1>1, <1>2, <1>4, FlattenIsJoined
<1> QED
  BY <1>3, <1>4

(* the first k chunks, each with the string after it *)
Copied(k) == Joined(Pieces, k)

(***************************************************************************)
(* The inductive invariant: the file is empty as long as there is no       *)
(* directory; a run that has made the directory has copied the chunks up   *)
(* to its position, or one half of the next, unless a write was short.     *)
(***************************************************************************)
Copying ==
  /\ size \in Nat \ {0} /\ suffix \in Seq(Bytes)
  /\ dir \in BOOLEAN /\ dest \in Seq(Bytes) /\ rbytes \in Seq(Bytes)
  /\ ~dir => dest = <<>>
  /\ pc \in {"mkdir", "read", "write", "append", "ended"}
  /\ pc = "mkdir" => pos = 0 /\ off = 0 /\ intact
  /\ pc \in {"read", "write", "append"} => dir /\ off = Len(dest)
  /\ pc = "read" =>
       /\ intact
       /\ \E k \in 0..Last : pos = EndOf(k) /\ dest = Copied(k)
  /\ pc = "write" =>
       \E k \in 0..(Last - 1) :
         pos = EndOf(k + 1) /\ rbytes = Chunk(k + 1) /\ dest = Copied(k)
  /\ pc = "append" /\ intact =>
       \E k \in 0..(Last - 1) :
         pos = EndOf(k + 1) /\ dest = Copied(k) \o Chunk(k + 1)
  /\ CopyComplete

LEMMA ConcatAssociative ==
  ASSUME NEW S, NEW a \in Seq(S), NEW b \in Seq(S), NEW c \in Seq(S)
  PROVE  a \o (b \o c) = (a \o b) \o c
OBVIOUS

LEMMA CopiedIs ==
  ASSUME size \in Nat \ {0}, suffix \in Seq(Bytes), NEW k \in 0..Last
  PROVE  /\ Copied(k) \in Seq(Bytes) /\ Copied(0) = <<>>
         /\ k < Last =>
              Copied(k + 1) = (Copied(k) \o Chunk(k + 1)) \o suffix
<1>1. /\ Pieces \in Seq(Seq(Bytes)) /\ Len(Pieces) = Last /\ Last \in Nat
      /\ \A m \in 1..Last : Pieces[m] = Chunk(m) \o suffix
  BY PiecesAre, LastIs
<1>2. /\ Copied(k) \in Seq(Bytes) /\ Copied(0) = <<>>
      /\ k < Last => Copied(k + 1) = Copied(k) \o Pieces[k + 1]
  BY <1>1, JoinedIs DEF Copied
<1>3. ASSUME k < Last
      PROVE  Copied(k + 1) = (Copied(k) \o Chunk(k + 1)) \o suffix
  <2>1. k \in 0..(Last - 1) /\ k + 1 \in 1..Last
    BY <1>1, <1>3
  <2>2. Chunk(k + 1) \in Seq(Bytes)
    BY <2>1, ChunksAre
  <2>3. Pieces[k + 1] = Chunk(k + 1) \o suffix
    BY <1>1, <2>1
  <2>4. Copied(k) \o (Chunk(k + 1) \o suffix)
          = (Copied(k) \o Chunk(k + 1)) \o suffix
    <3>1. PICK a, b, c \in Seq(Bytes) :
            a = Copied(k) /\ b = Chunk(k + 1) /\ c = suffix
      BY <1>2, <2>2
    <3>2. a \o (b \o c) = (a \o b) \o c
      BY ConcatAssociative
    <3> QED
      BY <3>1, <3>2
  <2> QED
    BY <1>2, <1>3, <2>3, <2>4
<1> QED
  BY <1>2, <1>3

(* A write at the end of the file appends. *)
LEMMA WriteAppends ==
  ASSUME dest \in Seq(Bytes), off = Len(dest), NEW bytes \in Seq(Bytes),
         NEW n \in 0..Len(bytes), Copy!Write(bytes, n)
  PROVE  /\ dest' = dest \o SubSeq(bytes, 1, n)
         /\ dest' \in Seq(Bytes) /\ off' = Len(dest')
         /\ n = Len(bytes) => dest' = dest \o bytes
<1>1. /\ SubSeq(dest, 1, Len(dest)) = dest
      /\ SubSeq(bytes, 1, n) \in Seq(Bytes) /\ Len(SubSeq(bytes, 1, n)) = n
      /\ n = Len(bytes) => SubSeq(bytes, 1, n) = bytes
  OBVIOUS
<1>2. SubSeq(dest, Len(dest) + n + 1, Len(dest)) = <<>>
  OBVIOUS
<1> DEFINE b == SubSeq(bytes, 1, n)
<1> HIDE DEF b
<1>3. dest \o b \in Seq(Bytes) /\ Len(dest \o b) = Len(dest) + n
  BY <1>1, ConcatIs DEF b
<1>4. (dest \o b) \o <<>> = dest \o b
  BY <1>3
<1>5. dest' = dest \o b /\ off' = Len(dest) + n
  BY <1>1, <1>2, <1>4 DEF Copy!Write, b
<1> QED
  BY <1>1, <1>3, <1>5 DEF b

(* What the arguments determine stays as long as they do. *)
LEMMA SameArguments ==
  ASSUME size' = size, suffix' = suffix
  PROVE  /\ Last' = Last /\ Copy!Interleaved' = Copy!Interleaved
         /\ \A k : /\ EndOf(k)' = EndOf(k) /\ Chunk(k)' = Chunk(k)
                   /\ Copied(k)' = Copied(k)
<1>1. Last' = Last
  BY DEF Last
<1>2. Copy!Interleaved' = Copy!Interleaved
  BY DEF Copy!Interleaved
<1>3. ASSUME NEW k PROVE EndOf(k)' = EndOf(k) /\ Chunk(k)' = Chunk(k)
  BY <1>1 DEF EndOf, Chunk
<1>4. Pieces' = Pieces
  BY <1>1 DEF Pieces, Chunk
<1>5. ASSUME NEW k PROVE Copied(k)' = Copied(k)
  BY <1>4 DEF Copied, Joined, Flattening
<1> QED
  BY <1>1, <1>2, <1>3, <1>5

LEMMA CopyingInit == ProgramsInit => Copying
<1> SUFFICES ASSUME Copy!Init PROVE Copying
  BY DEF ProgramsInit
<1>1. <<>> \in Seq(Bytes)
  OBVIOUS
<1>2. /\ dest = <<>> /\ rbytes = <<>> /\ suffix = <<>> /\ size = 1
      /\ dir = FALSE /\ pc = "ended" /\ status = 1
  BY DEF Copy!Init
<1>3. dest \in Seq(Bytes) /\ rbytes \in Seq(Bytes) /\ suffix \in Seq(Bytes)
  BY <1>1, <1>2
<1>4. CopyComplete
  BY <1>2 DEF CopyComplete, Copy!CopyComplete
<1>5. /\ pc \in {"mkdir", "read", "write", "append", "ended"}
      /\ pc \notin {"mkdir", "read", "write", "append"}
  BY <1>2
<1>6. size \in Nat \ {0}
  BY <1>2
<1>7. dir \in BOOLEAN
  BY <1>2
<1>8. (~dir => dest = <<>>)
  BY <1>2
<1> QED
  BY <1>3, <1>4, <1>5, <1>6, <1>7, <1>8 DEF Copying

LEMMA CopyingStep == Copying /\ Copy!Next => Copying'
<1> SUFFICES ASSUME Copying, Copy!Next PROVE Copying'
  OBVIOUS
<1>1. CASE Copy!Start
  <2>1. /\ size' \in Sizes /\ suffix' \in Strings /\ pos' = 0 /\ rbytes' = <<>>
        /\ off' = 0 /\ intact' = TRUE /\ UNCHANGED <<dir, dest>>
        /\ pc' = "mkdir" \/ (pc' = "ended" /\ status' = 2)
    BY <1>1 DEF Copy!Start
  <2>2. /\ size' \in Nat \ {0} /\ suffix' \in Seq(Bytes)
        /\ <<>> \in Seq(Bytes)
    <3>1. Sizes \subseteq Nat \ {0}
      BY ProgramsAssumption
    <3> QED
      BY <2>1, <3>1, SourceBytes
  <2>3. CopyComplete'
    BY <2>1 DEF CopyComplete, Copy!CopyComplete
  <2> QED
    BY <2>1, <2>2, <2>3 DEF Copying
<1>2. ASSUME size' = size, suffix' = suffix,
             Copy!Create \/ Copy!Read \/ Copy!ReadFails
               \/ Copy!WriteChunk \/ Copy!WriteString
      PROVE  Copying'
  <2>1. /\ size \in Nat \ {0} /\ suffix \in Seq(Bytes) /\ Last \in Nat
        /\ dest \in Seq(Bytes) /\ rbytes \in Seq(Bytes)
    BY LastIs DEF Copying
  <2>2. /\ Last' = Last /\ Copy!Interleaved' = Copy!Interleaved
        /\ \A k : /\ EndOf(k)' = EndOf(k) /\ Chunk(k)' = Chunk(k)
                  /\ Copied(k)' = Copied(k)
    BY <1>2, SameArguments
  <2>3. CASE Copy!Create
    <3>1. pc = "mkdir" /\ UNCHANGED <<dest, pos, rbytes, off, intact, unread>>
      BY <2>3 DEF Copy!Create
    <3>2. CASE dir' = dir /\ pc' = "ended" /\ status' = 1
      BY <1>2, <2>1, <3>1, <3>2
      DEF Copying, CopyComplete, Copy!CopyComplete
    <3>3. CASE ~dir /\ dir' = TRUE /\ pc' = "ended" /\ status' = 3
      BY <1>2, <2>1, <3>1, <3>3
      DEF Copying, CopyComplete, Copy!CopyComplete
    <3>4. CASE ~dir /\ dir' = TRUE /\ pc' = "read"
      <4>1. /\ dest = <<>> /\ pos = 0 /\ off = 0 /\ intact /\ Len(dest) = 0
        BY <3>1, <3>4 DEF Copying
      <4>2. 0 \in 0..Last /\ EndOf(0) = 0 /\ Copied(0) = <<>>
        <5>1. CASE Last = 0
          <6>1. size * Last >= Len(Source) /\ size * Last = 0
            BY <2>1, <5>1, LastIs
          <6>2. Len(Source) \in Nat
            BY SourceBytes
          <6> QED
            BY <2>1, <5>1, <6>1, <6>2, CopiedIs DEF EndOf
        <5>2. CASE Last # 0
          BY <2>1, <5>2, CopiedIs DEF EndOf
        <5> QED
          BY <5>1, <5>2
      <4>3. CopyComplete'
        BY <3>4 DEF CopyComplete, Copy!CopyComplete
      <4> QED
        BY <1>2, <2>1, <2>2, <3>1, <3>4, <4>1, <4>2, <4>3 DEF Copying
    <3> QED
      BY <2>3, <3>2, <3>3, <3>4
      DEF Copy!Create, Copy!End, Copy!MayCreate, Copying
  <2>4. CASE Copy!Read
    <3>1. /\ pc = "read" /\ dir /\ off = Len(dest) /\ intact
          /\ UNCHANGED <<dir, dest, off, intact, unread>>
          /\ rbytes' = SubSeq(Source, pos + 1,
                             Copy!Min({pos + size, Len(Source)}))
          /\ pos' = pos + Len(rbytes')
          /\ IF rbytes' = <<>> THEN pc' = "ended" /\ status' = 0
             ELSE pc' = "write"
      BY <2>4 DEF Copy!Read, Copy!End, Copying
    <3>2. PICK k \in 0..Last : pos = EndOf(k) /\ dest = Copied(k)
      BY <3>1 DEF Copying
    <3>3. CASE k = Last
      <4>1. pos = Len(Source) /\ Len(Source) \in Nat
        BY <3>2, <3>3, SourceBytes DEF EndOf
      <4>2. Copy!Min({pos + size, Len(Source)}) = Len(Source)
        BY <2>1, <4>1, MinIs
      <4>3. rbytes' = <<>>
        BY <3>1, <4>1, <4>2, SourceBytes
      <4>4. dest' = Copy!Interleaved'
        BY <2>1, <2>2, <3>1, <3>2, <3>3, InterleavedIs DEF Copied
      <4>5. <<>> \in Seq(Bytes)
        OBVIOUS
      <4> QED
        BY <1>2, <2>1, <3>1, <4>3, <4>4, <4>5
        DEF Copying, CopyComplete, Copy!CopyComplete
    <3>4. CASE k # Last
      <4>1. k \in 0..(Last - 1) /\ k \in Nat
        BY <2>1, <3>4
      <4>2. /\ EndOf(k) = size * k /\ EndOf(k) < EndOf(k + 1)
            /\ EndOf(k + 1) = Copy!Min({size * k + size, Len(Source)})
            /\ Chunk(k + 1) = SubSeq(Source, EndOf(k) + 1, EndOf(k + 1))
            /\ Chunk(k + 1) \in Seq(Bytes)
            /\ Len(Chunk(k + 1)) = EndOf(k + 1) - EndOf(k)
        BY <2>1, <4>1, ChunksAre
      <4>3. rbytes' = Chunk(k + 1)
        BY <3>1, <3>2, <4>2
      <4>4. EndOf(k) \in Nat /\ EndOf(k + 1) \in Int
        <5>1. size * k \in Nat /\ size * k + size \in Nat
          BY <2>1, <4>1
        <5>2. Len(Source) \in Nat
          BY SourceBytes
        <5>3. Copy!Min({size * k + size, Len(Source)}) \in Int
          BY <5>1, <5>2, MinIs
        <5> QED
          BY <4>2, <5>1, <5>3
      <4>5. pos' = EndOf(k + 1) /\ rbytes' # <<>>
        <5>1. Len(rbytes') = EndOf(k + 1) - EndOf(k)
          BY <4>2, <4>3
        <5>2. pos' = EndOf(k) + Len(rbytes')
          BY <3>1, <3>2
        <5>4. pos' = EndOf(k + 1)
          BY <4>4, <5>1, <5>2
        <5>3. Len(rbytes') # 0
          BY <4>2, <4>4, <5>1
        <5> QED
          BY <5>3, <5>4
      <4>6. pc' = "write" /\ CopyComplete'
        BY <3>1, <4>5 DEF CopyComplete, Copy!CopyComplete
      <4> QED
        BY <1>2, <2>1, <2>2, <3>1, <3>2, <4>1, <4>2, <4>3, <4>5, <4>6
        DEF Copying
    <3> QED
      BY <3>3, <3>4
  <2>5. CASE Copy!ReadFails
    BY <1>2, <2>1, <2>5
    DEF Copy!ReadFails, Copy!End, Copying, CopyComplete, Copy!CopyComplete
  <2>6. CASE Copy!WriteChunk
    <3>1. PICK n \in 0..Len(rbytes) :
            Copy!Write(rbytes, n) /\ intact' = (n = Len(rbytes))
      BY <2>6 DEF Copy!WriteChunk
    <3>2. /\ pc = "write" /\ pc' = "append" /\ dir /\ off = Len(dest)
          /\ UNCHANGED <<dir, pos, rbytes, unread>>
      BY <2>6 DEF Copy!WriteChunk, Copying
    <3>3. /\ dest' \in Seq(Bytes) /\ off' = Len(dest')
          /\ n = Len(rbytes) => dest' = dest \o rbytes
      BY <2>1, <3>1, <3>2, WriteAppends
    <3>4. PICK k \in 0..(Last - 1) :
            pos = EndOf(k + 1) /\ rbytes = Chunk(k + 1) /\ dest = Copied(k)
      BY <3>2 DEF Copying
    <3>5. CopyComplete'
      BY <3>2 DEF CopyComplete, Copy!CopyComplete
    <3> QED
      BY <1>2, <2>1, <2>2, <3>1, <3>2, <3>3, <3>4, <3>5 DEF Copying
  <2>7. CASE Copy!WriteString
    <3>1. PICK n \in 0..Len(suffix) :
            /\ Copy!Write(suffix, n)
            /\ IF intact /\ n = Len(suffix) THEN pc' = "read"
               ELSE pc' = "ended" /\ status' = 4
      BY <2>7 DEF Copy!WriteString, Copy!End
    <3>2. /\ pc = "append" /\ dir /\ off = Len(dest)
          /\ UNCHANGED <<dir, pos, rbytes, intact, unread>>
      BY <2>7 DEF Copy!WriteString, Copying
    <3>3. /\ dest' \in Seq(Bytes) /\ off' = Len(dest')
          /\ n = Len(suffix) => dest' = dest \o suffix
      BY <2>1, <3>1, <3>2, WriteAppends
    <3>4. CASE intact /\ n = Len(suffix)
      <4>1. PICK k \in 0..(Last - 1) :
              pos = EndOf(k + 1) /\ dest = Copied(k) \o Chunk(k + 1)
        BY <3>2, <3>4 DEF Copying
      <4>2. k \in 0..Last /\ k < Last /\ k + 1 \in 0..Last
        BY <2>1
      <4>3. dest' = Copied(k + 1)
        BY <2>1, <3>3, <3>4, <4>1, <4>2, CopiedIs
      <4>4. pc' = "read" /\ CopyComplete'
        BY <3>1, <3>4 DEF CopyComplete, Copy!CopyComplete
      <4> QED
        BY <1>2, <2>1, <2>2, <3>2, <3>3, <3>4, <4>1, <4>2, <4>3, <4>4
        DEF Copying
    <3>5. CASE ~(intact /\ n = Len(suffix))
      <4>1. pc' = "ended" /\ status' = 4 /\ CopyComplete'
        BY <3>1, <3>5 DEF CopyComplete, Copy!CopyComplete
      <4> QED
        BY <1>2, <2>1, <3>2, <3>3, <4>1 DEF Copying
    <3> QED
      BY <3>4, <3>5
  <2> QED
    BY <1>2, <2>3, <2>4, <2>5, <2>6, <2>7
<1>3. Copy!Next /\ ~Copy!Start => size' = size /\ suffix' = suffix
  BY DEF Copy!Next, Copy!Create, Copy!Read, Copy!ReadFails,
         Copy!WriteChunk, Copy!WriteString, Copy!arguments
<1> QED
  BY <1>1, <1>2, <1>3 DEF Copy!Next

LEMMA SameCopying == Copying /\ UNCHANGED copyVars => Copying'
<1> SUFFICES ASSUME Copying, UNCHANGED copyVars PROVE Copying'
  OBVIOUS
<1>1. /\ Last' = Last /\ Copy!Interleaved' = Copy!Interleaved
      /\ \A k : /\ EndOf(k)' = EndOf(k) /\ Chunk(k)' = Chunk(k)
                /\ Copied(k)' = Copied(k)
  BY SameArguments DEF copyVars
<1> QED
  BY <1>1 DEF Copying, CopyComplete, Copy!CopyComplete, copyVars

LEMMA CopySteps ==
  ASSUME [ProgramsNext \/ ProgramsTerminated]_programsVars
  PROVE  Copy!Next \/ UNCHANGED copyVars
BY DEF ProgramsNext, ProgramsTerminated, programsVars, SemStep, Frame

(***************************************************************************)
(* createEncryptedCopy.c: a run that ends with status 0, and could read    *)
(* its source, has left every chunk with the string after it, and nothing  *)
(* of an earlier run: a run that finds the directory stops (line 38).      *)
(***************************************************************************)
THEOREM CopyIsWhole == ProgramsSpec => []CopyComplete
<1>1. Copying /\ [ProgramsNext \/ ProgramsTerminated]_programsVars => Copying'
  BY CopyingStep, SameCopying, CopySteps
<1>2. Copying => CopyComplete
  BY DEF Copying
<1> QED
  BY CopyingInit, <1>1, <1>2, PTL DEF ProgramsSpec
-----------------------------------------------------------------------------
(* sha256.c *)

Byte == 0..255
(* what FIPS 180-4 makes of the message *)
Padded == Sha!PaddedMessage

LEMMA CandidatesAre == Candidates \cup {Passcode} \subseteq Seq(Byte)
BY ProgramsAssumption DEF Byte

LEMMA ByteConcat ==
  ASSUME NEW p \in Seq(Byte), NEW q \in Seq(Byte)
  PROVE  /\ p \o q \in Seq(Byte) /\ Len(p \o q) = Len(p) + Len(q)
         /\ \A k \in 1..Len(p) : (p \o q)[k] = p[k]
         /\ \A k \in 1..Len(q) : (p \o q)[Len(p) + k] = q[k]
OBVIOUS

LEMMA LowByte ==
  ASSUME NEW x \in Nat, NEW d \in Nat \ {0}
  PROVE  (x \div d) % 256 \in Byte
<1>1. x \div d \in Int
  OBVIOUS
<1> QED
  BY <1>1 DEF Byte

LEMMA PowersArePositive ==
  ASSUME NEW k \in 1..4 PROVE 256^(4 - k) \in Nat \ {0}
<1>1. /\ 256^0 \in Nat \ {0} /\ 256^1 \in Nat \ {0}
      /\ 256^2 \in Nat \ {0} /\ 256^3 \in Nat \ {0}
  OBVIOUS
<1>2. 4 - k = 0 \/ 4 - k = 1 \/ 4 - k = 2 \/ 4 - k = 3
  OBVIOUS
<1>3. 256^(4 - k) \in {256^0, 256^1, 256^2, 256^3}
  BY <1>2, Zenon
<1> QED
  BY <1>1, <1>3, Zenon

LEMMA ZerosAre ==
  ASSUME NEW n \in Nat
  PROVE  /\ Sha!Zeros(n) \in Seq(Byte) /\ Len(Sha!Zeros(n)) = n
         /\ \A k \in 1..n : Sha!Zeros(n)[k] = 0
BY DEF Sha!Zeros, Byte

LEMMA LengthFieldIs ==
  ASSUME candidate \in Seq(Byte)
  PROVE  Sha!LengthField \in Seq(Byte) /\ Len(Sha!LengthField) = 8
<1> DEFINE low == [k \in 1..4 |-> ((Len(candidate) * 8) \div 256^(4 - k)) % 256]
<1>1. ASSUME NEW k \in 1..4
      PROVE  ((Len(candidate) * 8) \div 256^(4 - k)) % 256 \in Byte
  <2>1. 256^(4 - k) \in Nat \ {0}
    BY PowersArePositive
  <2>2. Len(candidate) * 8 \in Nat
    OBVIOUS
  <2> QED
    BY <2>1, <2>2, LowByte
<1>2. low \in Seq(Byte) /\ Len(low) = 4
  BY <1>1
<1> DEFINE high == Sha!Zeros(4)
<1>3. high \in Seq(Byte) /\ Len(high) = 4
  BY ZerosAre
<1>4. Sha!LengthField = high \o low
  BY DEF Sha!LengthField
<1> HIDE DEF low, high
<1>5. high \o low \in Seq(Byte) /\ Len(high \o low) = Len(high) + Len(low)
  BY <1>2, <1>3, ByteConcat, Zenon
<1> QED
  BY <1>2, <1>3, <1>4, <1>5

(* The padded message: its length, in whole blocks, and its bytes. *)
LEMMA PaddedIs ==
  ASSUME candidate \in Seq(Byte)
  PROVE  /\ Padded \in Seq(Byte)
         /\ Len(Padded) = Len(candidate) + 9 + ((55 - Len(candidate)) % 64)
         /\ \A k \in 1..Len(candidate) : Padded[k] = candidate[k]
         /\ Padded[Len(candidate) + 1] = 128
         /\ \A k \in (Len(candidate) + 2)..(Len(Padded) - 8) : Padded[k] = 0
         /\ \A k \in 1..8 : Padded[Len(Padded) - 8 + k] = Sha!LengthField[k]
<1> DEFINE L == Len(candidate)
           z == (55 - L) % 64
           a == candidate \o <<128>>
           zeros == Sha!Zeros(z)
           b == a \o zeros
<1>1. L \in Nat /\ z \in Nat
  OBVIOUS
<1>2. <<128>> \in Seq(Byte) /\ Len(<<128>>) = 1 /\ <<128>>[1] = 128
  BY DEF Byte
<1>3. /\ a \in Seq(Byte) /\ Len(a) = L + 1
      /\ \A k \in 1..L : a[k] = candidate[k]
      /\ a[L + 1] = 128
  BY <1>1, <1>2, ByteConcat
<1>4. zeros \in Seq(Byte) /\ Len(zeros) = z /\ \A k \in 1..z : zeros[k] = 0
  BY <1>1, ZerosAre
<1> HIDE DEF z, a, zeros
<1>5. /\ b \in Seq(Byte) /\ Len(b) = L + 1 + z
      /\ \A k \in 1..(L + 1) : b[k] = a[k]
      /\ \A k \in 1..z : b[L + 1 + k] = 0
  BY <1>1, <1>3, <1>4, ByteConcat
<1>6. Sha!LengthField \in Seq(Byte) /\ Len(Sha!LengthField) = 8
  BY LengthFieldIs
<1> DEFINE field == Sha!LengthField
<1>7. Padded = b \o field
  BY DEF Padded, Sha!PaddedMessage, Sha!BLOCK, z, a, zeros
<1> HIDE DEF b, field
<1>7a. /\ b \o field \in Seq(Byte) /\ Len(b \o field) = Len(b) + Len(field)
       /\ \A k \in 1..Len(b) : (b \o field)[k] = b[k]
       /\ \A k \in 1..Len(field) : (b \o field)[Len(b) + k] = field[k]
  BY <1>5, <1>6, ByteConcat, Zenon DEF field
<1>8. /\ Padded \in Seq(Byte) /\ Len(Padded) = L + 1 + z + 8
      /\ \A k \in 1..(L + 1 + z) : Padded[k] = b[k]
      /\ \A k \in 1..8 : Padded[L + 1 + z + k] = Sha!LengthField[k]
  BY <1>1, <1>5, <1>6, <1>7, <1>7a DEF field
<1>9. \A k \in (L + 2)..(L + 1 + z) : Padded[k] = 0
  <2>1. ASSUME NEW k \in (L + 2)..(L + 1 + z) PROVE Padded[k] = 0
    <3>1. /\ k - (L + 1) \in 1..z /\ k = L + 1 + (k - (L + 1))
          /\ k \in 1..(L + 1 + z)
      BY <1>1
    <3> QED
      BY <3>1, <1>5, <1>8
  <2> QED
    BY <2>1
<1>10. \A k \in 1..L : Padded[k] = candidate[k]
  <2>1. ASSUME NEW k \in 1..L PROVE Padded[k] = candidate[k]
    <3>1. k \in 1..(L + 1) /\ k \in 1..(L + 1 + z)
      BY <1>1
    <3> QED
      BY <3>1, <1>3, <1>5, <1>8, Zenon
  <2> QED
    BY <2>1
<1>11. Padded[L + 1] = 128
  <2>1. L + 1 \in 1..(L + 1) /\ L + 1 \in 1..(L + 1 + z)
    BY <1>1
  <2> QED
    BY <2>1, <1>3, <1>5, <1>8, Zenon
<1>12. Len(Padded) - 8 = L + 1 + z
  BY <1>1, <1>8
<1> QED
  BY <1>1, <1>8, <1>9, <1>10, <1>11, <1>12 DEF z

(* The length of the padded message, by how far the last block is filled. *)
LEMMA PaddedBlocks ==
  ASSUME NEW L \in Nat, NEW n \in Nat, NEW r \in 0..63, L = 64 * n + r
  PROVE  L + 9 + ((55 - L) % 64) = IF r <= 55 THEN 64 * n + 64 ELSE 64 * n + 128
OBVIOUS

LEMMA SameBytes ==
  ASSUME NEW b \in Seq(Byte), NEW q \in Seq(Byte), Len(b) = Len(q),
         \A k \in 1..Len(b) : b[k] = q[k]
  PROVE  b = q
OBVIOUS

(* The block of p that b agrees with, byte by byte. *)
BlockAt(p, n) == SubSeq(p, 64 * n + 1, 64 * (n + 1))
AgreesAt(p, b, n) == \A k \in 1..64 : b[k] = p[64 * n + k]

LEMMA BlockIs ==
  ASSUME NEW p \in Seq(Byte), NEW b \in Seq(Byte), NEW n \in Nat,
         Len(b) = 64, 64 * (n + 1) <= Len(p),
         AgreesAt(p, b, n)
  PROVE  b = BlockAt(p, n)
<1> DEFINE q == SubSeq(p, 64 * n + 1, 64 * (n + 1))
<1>1. q \in Seq(Byte) /\ Len(q) = 64
  OBVIOUS
<1>2. ASSUME NEW k \in 1..64 PROVE b[k] = q[k]
  <2>1. q[k] = p[(64 * n + 1) + k - 1] /\ (64 * n + 1) + k - 1 = 64 * n + k
    OBVIOUS
  <2>2. b[k] = p[64 * n + k]
    BY DEF AgreesAt
  <2> HIDE DEF q
  <2> QED
    BY <2>1, <2>2, Zenon
<1> HIDE DEF q
<1>3. Len(b) = Len(q) /\ \A k \in 1..Len(b) : b[k] = q[k]
  BY <1>1, <1>2
<1>4. b = q
  BY <1>1, <1>3, SameBytes
<1> QED
  BY <1>4 DEF q, BlockAt

(* The next bytes of the padded message after the blocks compressed so far *)
NextBytes(b) ==
  \A k \in 1..Len(b) : b[k] = Padded[64 * Len(compressed) + k]

(* the number of its bytes that have been compressed or are in the buffer *)
Gathered == 64 * Len(compressed) + IF Sha!Transforming THEN 0 ELSE Len(buffer)

HashTypes ==
  /\ candidate \in Seq(Byte) /\ taken \in 0..Len(candidate)
  /\ round \in 0..64 /\ compressed \in Seq(Seq(Byte))
  /\ buffer \in Seq(Byte) /\ Len(buffer) <= 64
  /\ phase \in {"update", "pad", "length", "compare", "done"}

Compressed ==
  \A m \in 1..Len(compressed) :
    compressed[m] = SubSeq(Padded, 64 * (m - 1) + 1, 64 * m)

Progress ==
  /\ phase = "update" => Gathered = taken
  /\ phase = "pad" => Gathered = Len(candidate) /\ taken = Len(candidate)
  /\ phase \in {"update", "pad"} /\ ~Sha!Transforming => Len(buffer) < 64
  /\ phase = "length" => /\ Gathered > Len(candidate)
                         /\ Len(Padded) = 64 * (Len(compressed) + 1)
  /\ phase = "length" /\ ~Sha!Transforming => Len(buffer) <= 56
  /\ phase \in {"compare", "done"} => Len(Padded) = 64 * Len(compressed)

(***************************************************************************)
(* The inductive invariant: the blocks compressed are the first ones of    *)
(* the padded message, the buffer holds the bytes that follow, and where   *)
(* the call is says how far that is.                                       *)
(***************************************************************************)
Hashing ==
  /\ HashTypes /\ Compressed /\ Progress
  /\ ~Sha!Transforming => NextBytes(buffer)

LEMMA HashingInit == ProgramsInit => Hashing
<1> SUFFICES ASSUME ProgramsInit PROVE Hashing
  OBVIOUS
<1>1. PICK c \in Candidates \cup {Passcode} : Sha!Start(c)
  BY DEF ProgramsInit
<1>2. candidate \in Seq(Byte) /\ taken = 0 /\ buffer = <<>> /\ phase = "update"
      /\ round = 64 /\ compressed = <<>>
  BY <1>1, CandidatesAre DEF Sha!Start
<1> QED
  BY <1>2 DEF Hashing, HashTypes, Compressed, Progress, Gathered, NextBytes,
              Sha!Transforming

LEMMA SamePadded == candidate' = candidate => Padded' = Padded
BY DEF Padded, Sha!PaddedMessage, Sha!LengthField

(* The bytes b go into the buffer, and a full one is compressed. *)
LEMMA FillIs ==
  ASSUME Hashing, ~Sha!Transforming, NEW b \in Seq(Byte), Len(b) <= 64,
         NextBytes(b), 64 * Len(compressed) + Len(b) <= Len(Padded),
         Sha!Fill(b)
  PROVE  /\ candidate' = candidate /\ Padded' = Padded
         /\ round' \in 0..64 /\ buffer' = b
         /\ compressed' \in Seq(Seq(Byte)) /\ Compressed'
         /\ Sha!Transforming' <=> Len(b) = 64
         /\ Len(compressed') =
              Len(compressed) + IF Len(b) = 64 THEN 1 ELSE 0
         /\ Gathered' = 64 * Len(compressed) + Len(b)
         /\ ~Sha!Transforming' => NextBytes(buffer)'
<1> DEFINE n == Len(compressed)
<1>1. n \in Nat /\ candidate \in Seq(Byte) /\ round = 64
      /\ compressed \in Seq(Seq(Byte))
  BY DEF Hashing, HashTypes, Sha!Transforming
<1>2. candidate' = candidate /\ Padded' = Padded /\ buffer' = b
  BY SamePadded DEF Sha!Fill
<1>3. Padded \in Seq(Byte)
  BY <1>1, PaddedIs
<1>4. CASE Len(b) = 64
  <2>1. compressed' = Append(compressed, b) /\ round' = 0
    BY <1>4 DEF Sha!Fill, Sha!BLOCK, Sha!Transform
  <2>2. b = SubSeq(Padded, 64 * n + 1, 64 * (n + 1))
    <3>1. 64 * (n + 1) <= Len(Padded)
      BY <1>1, <1>3, <1>4
    <3>2. AgreesAt(Padded, b, n)
      BY <1>4 DEF NextBytes, AgreesAt
    <3>3. b = BlockAt(Padded, n)
      BY <1>1, <1>3, <1>4, <3>1, <3>2, BlockIs
    <3> QED
      BY <3>3 DEF BlockAt
  <2>3. /\ compressed' \in Seq(Seq(Byte)) /\ Len(compressed') = n + 1
        /\ \A m \in 1..n : compressed'[m] = compressed[m]
        /\ compressed'[n + 1] = b
    BY <1>1, <2>1
  <2>4. ASSUME NEW m \in 1..(n + 1)
        PROVE  compressed'[m] = SubSeq(Padded, 64 * (m - 1) + 1, 64 * m)
    <3>1. CASE m \in 1..n
      BY <3>1, <2>3 DEF Hashing, Compressed
    <3>2. CASE m = n + 1
      <4>1. (n + 1) - 1 = n
        BY <1>1
      <4> QED
        BY <3>2, <4>1, <2>2, <2>3
    <3> QED
      BY <1>1, <3>1, <3>2
  <2>5. Compressed'
    BY <1>2, <2>3, <2>4 DEF Compressed
  <2>6. Sha!Transforming'
    BY <2>1 DEF Sha!Transforming
  <2>7. Gathered' = 64 * n + 64
    BY <1>1, <2>3, <2>6 DEF Gathered
  <2> QED
    BY <1>2, <1>4, <2>1, <2>3, <2>5, <2>6, <2>7
<1>5. CASE Len(b) # 64
  <2>1. UNCHANGED <<round, compressed>>
    BY <1>5 DEF Sha!Fill, Sha!BLOCK, Sha!rounds
  <2>2. ~Sha!Transforming'
    BY <1>1, <2>1 DEF Sha!Transforming
  <2>3. Compressed'
    BY <1>2, <2>1 DEF Hashing, Compressed
  <2>4. NextBytes(buffer)'
    BY <1>2, <2>1 DEF NextBytes
  <2>5. Gathered' = 64 * n + Len(b)
    BY <1>2, <2>1, <2>2 DEF Gathered
  <2> QED
    BY <1>1, <1>2, <1>5, <2>1, <2>2, <2>3, <2>4, <2>5
<1> QED
  BY <1>4, <1>5

(* What holds before a step of the call that is not a round. *)
LEMMA BetweenRounds ==
  ASSUME Hashing, ~Sha!Transforming
  PROVE  /\ Len(compressed) \in Nat /\ Len(buffer) \in Nat /\ round = 64
         /\ Len(candidate) \in Nat
         /\ Gathered = 64 * Len(compressed) + Len(buffer)
         /\ \A k \in 1..Len(buffer) :
              buffer[k] = Padded[64 * Len(compressed) + k]
         /\ Padded \in Seq(Byte)
<1>1. Hashing /\ HashTypes
  BY DEF Hashing
<1>2. /\ Len(compressed) \in Nat /\ Len(buffer) \in Nat /\ round = 64
      /\ candidate \in Seq(Byte) /\ Len(candidate) \in Nat
  BY <1>1 DEF HashTypes, Sha!Transforming
<1>3. Padded \in Seq(Byte)
  BY <1>2, PaddedIs
<1>4. NextBytes(buffer)
  BY DEF Hashing
<1> QED
  BY <1>2, <1>3, <1>4 DEF Gathered, NextBytes

LEMMA RoundHashing == Hashing /\ Sha!Round => Hashing'
<1> SUFFICES ASSUME Hashing, Sha!Round PROVE Hashing'
  OBVIOUS
<1>1. /\ Sha!Transforming /\ round \in 0..63 /\ round' = round + 1
      /\ UNCHANGED <<candidate, taken, phase, compressed>>
      /\ buffer' = IF round' = 64 THEN <<>> ELSE buffer
  BY DEF Hashing, HashTypes, Sha!Round, Sha!Transforming
<1>2. Padded' = Padded
  BY <1>1, SamePadded
<1>3. Gathered = 64 * Len(compressed) /\ Gathered' = 64 * Len(compressed)
  <2>1. Len(compressed) \in Nat /\ Len(<<>>) = 0
    BY DEF Hashing, HashTypes
  <2>2. ~Sha!Transforming' => round' = 64 /\ Len(buffer') = 0
    BY <1>1, <2>1 DEF Sha!Transforming
  <2>3. Gathered = 64 * Len(compressed)
    BY <1>1, <2>1 DEF Gathered
  <2>4. Len(compressed') = Len(compressed)
    BY <1>1
  <2>5. Gathered' = 64 * Len(compressed')
    <3>1. CASE Sha!Transforming'
      BY <2>1, <2>4, <3>1 DEF Gathered
    <3>2. CASE ~Sha!Transforming'
      BY <2>1, <2>2, <2>4, <3>2 DEF Gathered
    <3> QED
      BY <3>1, <3>2
  <2> QED
    BY <2>3, <2>4, <2>5
<1>4. HashTypes'
  BY <1>1 DEF Hashing, HashTypes
<1>5. Compressed'
  BY <1>1, <1>2 DEF Hashing, Compressed
<1>6. ~Sha!Transforming' => Len(buffer') = 0 /\ NextBytes(buffer)'
  BY <1>1 DEF Sha!Transforming, NextBytes
<1>7. Progress'
  BY <1>1, <1>2, <1>3, <1>6 DEF Hashing, Progress
<1> QED
  BY <1>4, <1>5, <1>6, <1>7 DEF Hashing

LEMMA MinOfTwo ==
  ASSUME NEW a \in Int, NEW b \in Int
  PROVE  Sha!Min({a, b}) = IF a <= b THEN a ELSE b
BY DEF Sha!Min

(* sha256_update: the bytes it takes are the next of the message. *)
LEMMA UpdateHashing == Hashing /\ Sha!Update => Hashing'
<1> SUFFICES ASSUME Hashing, Sha!Update PROVE Hashing'
  OBVIOUS
<1> DEFINE n == Len(compressed)
           t == Sha!Take
           more == SubSeq(candidate, taken + 1, taken + t)
           b == buffer \o more
<1>1. /\ phase = "update" /\ ~Sha!Transforming /\ Sha!Fill(b)
      /\ taken' = taken + t
      /\ phase' = IF taken' = Len(candidate) THEN "pad" ELSE "update"
  BY DEF Sha!Update
<1> DEFINE f == Len(buffer)
           l == Len(candidate)
<1>2. /\ n \in Nat /\ f \in 0..63 /\ l \in Nat
      /\ taken = 64 * n + f /\ taken \in 0..l
  <2>1. /\ n \in Nat /\ f \in Nat /\ l \in Nat
        /\ Gathered = 64 * n + f
    BY <1>1, BetweenRounds
  <2>2. f < 64 /\ Gathered = taken
    BY <1>1 DEF Hashing, Progress
  <2>3. taken \in 0..l
    BY DEF Hashing, HashTypes
  <2> HIDE DEF n, f, l
  <2> QED
    BY <2>1, <2>2, <2>3
<1>2a. candidate \in Seq(Byte) /\ buffer \in Seq(Byte)
  BY DEF Hashing, HashTypes
<1>3. t \in 0..(64 - f) /\ taken + t <= l
  <2>1. 64 - f \in Int /\ l - taken \in Int
    BY <1>2
  <2>2. t = IF 64 - f <= l - taken THEN 64 - f ELSE l - taken
    BY <2>1, MinOfTwo DEF Sha!Take, Sha!BLOCK
  <2> HIDE DEF t, f, l, n
  <2> QED
    BY <1>2, <2>2
<1> HIDE DEF t
<1>4. /\ more \in Seq(Byte) /\ Len(more) = t
      /\ \A k \in 1..t : more[k] = candidate[taken + k]
  <2>1. more \in Seq(Byte) /\ Len(more) = t
    BY <1>2, <1>3, <1>2a
  <2>2. ASSUME NEW k \in 1..t PROVE more[k] = candidate[taken + k]
    <3>1. more[k] = candidate[(taken + 1) + k - 1]
          /\ (taken + 1) + k - 1 = taken + k
      BY <1>2, <1>3, <1>2a
    <3> QED
      BY <3>1
  <2> QED
    BY <2>1, <2>2
<1> HIDE DEF more
<1>5. /\ b \in Seq(Byte) /\ Len(b) = Len(buffer) + Len(more)
      /\ \A k \in 1..Len(buffer) : b[k] = buffer[k]
      /\ \A k \in 1..Len(more) : b[Len(buffer) + k] = more[k]
  BY <1>2a, <1>4, ByteConcat, Zenon DEF b
<1> HIDE DEF b
<1>6. NextBytes(b)
  <2>1. ASSUME NEW k \in 1..Len(b) PROVE b[k] = Padded[64 * n + k]
    <3>1. CASE k \in 1..Len(buffer)
      BY <1>1, <1>5, <3>1, BetweenRounds
    <3>2. CASE k \notin 1..Len(buffer)
      <4> DEFINE m == k - Len(buffer)
      <4>1. m \in 1..t /\ k = Len(buffer) + m /\ taken + m = 64 * n + k
            /\ taken + m \in 1..Len(candidate)
        <5>1. k \in Nat /\ k > Len(buffer) /\ k <= Len(buffer) + t
          BY <1>2, <1>3, <1>4, <1>5, <3>2
        <5> QED
          BY <5>1, <1>2, <1>3
      <4> HIDE DEF m
      <4>2. b[k] = more[m] /\ more[m] = candidate[taken + m]
        BY <1>4, <1>5, <4>1
      <4>3. Padded[taken + m] = candidate[taken + m]
        BY <1>2a, <4>1, PaddedIs
      <4> QED
        BY <4>1, <4>2, <4>3
    <3> QED
      BY <3>1, <3>2
  <2> QED
    BY <2>1 DEF NextBytes
<1>7. Len(b) = Len(buffer) + t /\ Len(b) <= 64
      /\ 64 * n + Len(b) <= Len(candidate)
  BY <1>2, <1>3, <1>4, <1>5
<1>8. Len(candidate) <= Len(Padded)
  <2>1. Len(Padded) = Len(candidate) + 9 + ((55 - Len(candidate)) % 64)
    BY <1>2a, PaddedIs
  <2> QED
    BY <1>2, <2>1
<1>9. 64 * n + Len(b) <= Len(Padded)
  BY <1>2, <1>7, <1>8
<1>10. /\ candidate' = candidate /\ round' \in 0..64 /\ buffer' = b
       /\ compressed' \in Seq(Seq(Byte)) /\ Compressed'
       /\ Sha!Transforming' <=> Len(b) = 64
       /\ Gathered' = 64 * n + Len(b)
       /\ ~Sha!Transforming' => NextBytes(buffer)'
  BY <1>1, <1>5, <1>6, <1>7, <1>9, FillIs
<1>11. HashTypes'
  BY <1>1, <1>2, <1>3, <1>5, <1>7, <1>10, <1>2a DEF HashTypes
<1>12. Progress'
  BY <1>1, <1>2, <1>3, <1>7, <1>10 DEF Progress
<1> QED
  BY <1>10, <1>11, <1>12 DEF Hashing

(* The bytes of the padding, by their position in the message. *)
LEMMA PaddingIs ==
  ASSUME Hashing, Len(compressed) \in Nat, Len(buffer) \in 0..63,
         Len(candidate) = 64 * Len(compressed) + Len(buffer)
  PROVE  LET n == Len(compressed)
             f == Len(buffer)
         IN  /\ Len(Padded) = IF f <= 55 THEN 64 * n + 64 ELSE 64 * n + 128
             /\ Padded[64 * n + (f + 1)] = 128
             /\ \A k \in Nat : k >= f + 2 /\ 64 * n + k <= Len(Padded) - 8 =>
                                 Padded[64 * n + k] = 0
<1> DEFINE n == Len(compressed)
           f == Len(buffer)
<1> DEFINE l == Len(candidate)
<1>1. candidate \in Seq(Byte) /\ l \in Nat /\ l = 64 * n + f
      /\ n \in Nat /\ f \in 0..63
  BY DEF Hashing, HashTypes
<1>2. /\ Len(Padded) = l + 9 + ((55 - l) % 64)
      /\ Padded[l + 1] = 128
      /\ \A k \in (l + 2)..(Len(Padded) - 8) : Padded[k] = 0
  BY <1>1, PaddedIs
<1> HIDE DEF l, n, f
<1>3. l + 9 + ((55 - l) % 64) = IF f <= 55 THEN 64 * n + 64 ELSE 64 * n + 128
  BY <1>1, PaddedBlocks
<1>4. 64 * n + (f + 1) = l + 1
  BY <1>1
<1>5. ASSUME NEW k \in Nat, k >= f + 2, 64 * n + k <= Len(Padded) - 8
      PROVE  Padded[64 * n + k] = 0
  <2>1. Len(Padded) \in Nat
    BY <1>2, <1>3
  <2>2. 64 * n + k \in (l + 2)..(Len(Padded) - 8)
    BY <1>1, <1>5, <2>1
  <2> QED
    BY <1>2, <2>2
<1> QED
  BY <1>2, <1>3, <1>4, <1>5 DEF n, f

(* sha256_final, up to the point where the length fits the buffer *)
LEMMA PadHashing == Hashing /\ Sha!Pad => Hashing'
<1> SUFFICES ASSUME Hashing, Sha!Pad PROVE Hashing'
  OBVIOUS
<1> DEFINE n == Len(compressed)
           f == Len(buffer)
           l == Len(candidate)
           a == Append(buffer, 128)
           b == IF Sha!LengthFits(Len(a)) THEN a
                ELSE a \o Sha!Zeros(64 - Len(a))
<1>1. /\ phase = "pad" /\ ~Sha!Transforming /\ Sha!Fill(b)
      /\ phase' = "length" /\ taken' = taken
  BY DEF Sha!Pad, Sha!BLOCK
<1>2. n \in Nat /\ f \in 0..63 /\ l \in Nat /\ l = 64 * n + f
  <2>1. n \in Nat /\ f \in Nat /\ l \in Nat /\ Gathered = 64 * n + f
    BY <1>1, BetweenRounds
  <2>2. f < 64 /\ Gathered = l
    BY <1>1 DEF Hashing, Progress
  <2> HIDE DEF n, f, l
  <2> QED
    BY <2>1, <2>2
<1>3. candidate \in Seq(Byte) /\ buffer \in Seq(Byte)
      /\ taken \in 0..Len(candidate)
  BY DEF Hashing, HashTypes
<1>4. /\ Len(Padded) = IF f <= 55 THEN 64 * n + 64 ELSE 64 * n + 128
      /\ Padded[64 * n + (f + 1)] = 128
      /\ \A k \in Nat : k >= f + 2 /\ 64 * n + k <= Len(Padded) - 8 =>
                          Padded[64 * n + k] = 0
  BY <1>2, PaddingIs
<1>5. \A k \in 1..f : buffer[k] = Padded[64 * n + k]
  BY <1>1, BetweenRounds
<1>6. /\ a \in Seq(Byte) /\ Len(a) = f + 1
      /\ \A k \in 1..f : a[k] = buffer[k]
      /\ a[f + 1] = 128
  BY <1>3 DEF Byte
<1> HIDE DEF a
<1>7. \A k \in 1..(f + 1) : a[k] = Padded[64 * n + k]
  <2>1. ASSUME NEW k \in 1..(f + 1) PROVE a[k] = Padded[64 * n + k]
    <3>1. k \in 1..f \/ k = f + 1
      BY <1>2
    <3> QED
      BY <3>1, <1>4, <1>5, <1>6
  <2> QED
    BY <2>1
<1>8. /\ b \in Seq(Byte) /\ Len(b) = IF f <= 55 THEN f + 1 ELSE 64
      /\ NextBytes(b)
  <2>1. CASE f <= 55
    <3>1. b = a
      BY <1>2, <1>6, <2>1 DEF Sha!LengthFits
    <3> HIDE DEF b
    <3> QED
      BY <1>6, <1>7, <2>1, <3>1 DEF NextBytes
  <2>2. CASE ~(f <= 55)
    <3> DEFINE z == Sha!Zeros(63 - f)
    <3>1. b = a \o z
      <4>1. ~(f + 1 <= 56) /\ 64 - (f + 1) = 63 - f
        BY <1>2, <2>2
      <4> QED
        BY <1>6, <4>1 DEF Sha!LengthFits
    <3>2. z \in Seq(Byte) /\ Len(z) = 63 - f /\ \A k \in 1..(63 - f) : z[k] = 0
      <4> HIDE DEF f
      <4>1. 63 - f \in Nat
        BY <1>2
      <4> QED
        BY <4>1, ZerosAre, Zenon
    <3> HIDE DEF b, z
    <3>6. a \in Seq(Byte) /\ z \in Seq(Byte)
      BY <1>6, <3>2
    <3>3. /\ a \o z \in Seq(Byte) /\ Len(a \o z) = Len(a) + Len(z)
          /\ \A k \in 1..Len(a) : (a \o z)[k] = a[k]
          /\ \A k \in 1..Len(z) : (a \o z)[Len(a) + k] = z[k]
      BY <3>6, ByteConcat, Zenon
    <3>4. b \in Seq(Byte) /\ Len(b) = 64
      BY <1>2, <1>6, <3>1, <3>2, <3>3
    <3>5. ASSUME NEW k \in 1..64 PROVE b[k] = Padded[64 * n + k]
      <4>1. CASE k \in 1..(f + 1)
        BY <1>6, <1>7, <3>1, <3>3, <4>1
      <4>2. CASE k \notin 1..(f + 1)
        <5>1. k - (f + 1) \in 1..(63 - f) /\ k = (f + 1) + (k - (f + 1))
          BY <1>2, <4>2
        <5>2. b[k] = 0
          BY <1>6, <3>1, <3>2, <3>3, <5>1
        <5>3. k \in Nat /\ k >= f + 2 /\ 64 * n + k <= Len(Padded) - 8
          BY <1>2, <1>4, <2>2, <4>2
        <5> QED
          BY <1>4, <5>2, <5>3
      <4> QED
        BY <4>1, <4>2
    <3> QED
      BY <2>2, <3>4, <3>5 DEF NextBytes
  <2> QED
    BY <2>1, <2>2
<1> HIDE DEF b
<1>9. Len(b) <= 64 /\ 64 * n + Len(b) <= Len(Padded)
      /\ 64 * n + Len(b) > l
  <2> HIDE DEF n, f, l
  <2> QED
    BY <1>2, <1>4, <1>8
<1>10. /\ candidate' = candidate /\ Padded' = Padded
       /\ round' \in 0..64 /\ buffer' = b
       /\ compressed' \in Seq(Seq(Byte)) /\ Compressed'
       /\ Sha!Transforming' <=> Len(b) = 64
       /\ Len(compressed') = n + IF Len(b) = 64 THEN 1 ELSE 0
       /\ Gathered' = 64 * n + Len(b)
       /\ ~Sha!Transforming' => NextBytes(buffer)'
  BY <1>1, <1>8, <1>9, FillIs
<1>11. HashTypes'
  BY <1>1, <1>3, <1>8, <1>9, <1>10 DEF HashTypes
<1>12. Len(Padded) = 64 * (Len(compressed') + 1)
  BY <1>2, <1>4, <1>8, <1>10
<1>13. ~Sha!Transforming' => Len(buffer') <= 56
  BY <1>2, <1>8, <1>10
<1>14. Progress'
  BY <1>1, <1>9, <1>10, <1>12, <1>13 DEF Progress
<1> QED
  BY <1>10, <1>11, <1>14 DEF Hashing

(* sha256_final: zeros and the length complete the last block. *)
LEMMA FinishHashing == Hashing /\ Sha!Finish => Hashing'
<1> SUFFICES ASSUME Hashing, Sha!Finish PROVE Hashing'
  OBVIOUS
<1> DEFINE n == Len(compressed)
           f == Len(buffer)
           l == Len(candidate)
           z == Sha!Zeros(56 - f)
           field == Sha!LengthField
           a == buffer \o z
           b == a \o field
<1>1. /\ phase = "length" /\ ~Sha!Transforming /\ Sha!Fill(b)
      /\ phase' = "compare" /\ taken' = taken
  BY DEF Sha!Finish
<1>2. /\ n \in Nat /\ f \in 0..56 /\ l \in Nat /\ 64 * n + f > l
      /\ Len(Padded) = 64 * (n + 1)
  <2>1. n \in Nat /\ f \in Nat /\ l \in Nat /\ Gathered = 64 * n + f
    BY <1>1, BetweenRounds
  <2>2. f <= 56 /\ Gathered > l /\ Len(Padded) = 64 * (n + 1)
    BY <1>1 DEF Hashing, Progress
  <2> HIDE DEF n, f, l
  <2> QED
    BY <2>1, <2>2
<1>3. candidate \in Seq(Byte) /\ buffer \in Seq(Byte)
      /\ taken \in 0..Len(candidate)
  BY DEF Hashing, HashTypes
<1>4. \A k \in 1..f : buffer[k] = Padded[64 * n + k]
  BY <1>1, BetweenRounds
<1>5. z \in Seq(Byte) /\ Len(z) = 56 - f /\ \A k \in 1..(56 - f) : z[k] = 0
  <2> HIDE DEF f
  <2>1. 56 - f \in Nat
    BY <1>2
  <2> QED
    BY <2>1, ZerosAre, Zenon
<1> HIDE DEF z
<1>6. /\ a \in Seq(Byte) /\ Len(a) = Len(buffer) + Len(z)
      /\ \A k \in 1..Len(buffer) : a[k] = buffer[k]
      /\ \A k \in 1..Len(z) : a[Len(buffer) + k] = z[k]
  <2>1. buffer \in Seq(Byte) /\ z \in Seq(Byte)
    BY <1>3, <1>5
  <2> QED
    BY <2>1, ByteConcat, Zenon
<1> HIDE DEF a
<1>7. field \in Seq(Byte) /\ Len(field) = 8
  BY <1>3, LengthFieldIs
<1>8. \A k \in 1..8 : field[k] = Padded[64 * n + (56 + k)]
  <2>1. \A k \in 1..8 : Padded[Len(Padded) - 8 + k] = field[k]
    BY <1>3, PaddedIs
  <2> HIDE DEF field, n
  <2>2. ASSUME NEW k \in 1..8
        PROVE  Len(Padded) - 8 + k = 64 * n + (56 + k)
    BY <1>2
  <2> QED
    BY <2>1, <2>2
<1> HIDE DEF field
<1>9. /\ b \in Seq(Byte) /\ Len(b) = Len(a) + Len(field)
      /\ \A k \in 1..Len(a) : b[k] = a[k]
      /\ \A k \in 1..Len(field) : b[Len(a) + k] = field[k]
  <2>1. a \in Seq(Byte) /\ field \in Seq(Byte)
    BY <1>6, <1>7
  <2> QED
    BY <2>1, ByteConcat, Zenon
<1> HIDE DEF b
<1>10. Len(a) = 56 /\ Len(b) = 64
  <2> HIDE DEF n, l
  <2> QED
    BY <1>2, <1>5, <1>6, <1>7, <1>9
<1>11. \A k \in (l + 2)..(64 * n + 56) : Padded[k] = 0
  <2>1. \A k \in (l + 2)..(Len(Padded) - 8) : Padded[k] = 0
    BY <1>3, PaddedIs
  <2>2. Len(Padded) - 8 = 64 * n + 56
    <3> HIDE DEF n
    <3> QED
      BY <1>2
  <2> QED
    BY <2>1, <2>2
<1>12. NextBytes(b)
  <2>1. ASSUME NEW k \in 1..64 PROVE b[k] = Padded[64 * n + k]
    <3> HIDE DEF n, l
    <3>1. CASE k \in 1..f
      <4>1. k \in 1..Len(a)
        <5> HIDE DEF f
        <5> QED
          BY <1>2, <1>10, <3>1
      <4> QED
        BY <4>1, <3>1, <1>4, <1>6, <1>9
    <3>2. CASE k \in (f + 1)..56
      <4> HIDE DEF f
      <4> DEFINE m == k - f
      <4>1. m \in 1..(56 - f) /\ k = f + m /\ k \in 1..56
            /\ 64 * n + k \in (l + 2)..(64 * n + 56)
        BY <1>2, <3>2
      <4> HIDE DEF m
      <4>2. b[k] = a[k] /\ a[k] = z[m] /\ z[m] = 0
        BY <4>1, <1>5, <1>6, <1>9, <1>10 DEF f
      <4> QED
        BY <4>1, <4>2, <1>11
    <3>3. CASE k \in 57..64
      <4> DEFINE m == k - 56
      <4>1. m \in 1..8 /\ k = 56 + m
        BY <3>3
      <4> HIDE DEF m
      <4>2. b[56 + m] = field[m]
        BY <4>1, <1>7, <1>9, <1>10
      <4> QED
        BY <4>1, <4>2, <1>8
    <3> QED
      BY <1>2, <3>1, <3>2, <3>3
  <2> QED
    BY <1>10, <2>1 DEF NextBytes
<1>13. Len(b) <= 64 /\ 64 * n + Len(b) <= Len(Padded)
  <2> HIDE DEF n
  <2> QED
    BY <1>2, <1>10
<1>14. /\ candidate' = candidate /\ Padded' = Padded
       /\ round' \in 0..64 /\ buffer' = b
       /\ compressed' \in Seq(Seq(Byte)) /\ Compressed'
       /\ Sha!Transforming'
       /\ Len(compressed') = n + 1
  BY <1>1, <1>9, <1>10, <1>12, <1>13, FillIs
<1>15. HashTypes'
  BY <1>1, <1>3, <1>9, <1>13, <1>14 DEF HashTypes
<1>16. Progress'
  BY <1>1, <1>2, <1>14 DEF Progress
<1> QED
  BY <1>14, <1>15, <1>16 DEF Hashing

LEMMA CompareHashing == Hashing /\ Sha!Compare => Hashing'
<1> SUFFICES ASSUME Hashing, Sha!Compare PROVE Hashing'
  OBVIOUS
<1>1. /\ phase = "compare" /\ phase' = "done"
      /\ UNCHANGED <<candidate, taken, buffer, round, compressed>>
  BY DEF Sha!Compare, Sha!context, Sha!rounds
<1>2. Padded' = Padded
  BY <1>1, SamePadded
<1>3. Sha!Transforming' = Sha!Transforming
  BY <1>1 DEF Sha!Transforming
<1> QED
  BY <1>1, <1>2, <1>3
  DEF Hashing, HashTypes, Compressed, Progress, NextBytes

LEMMA SameHashing == Hashing /\ UNCHANGED shaVars => Hashing'
<1> SUFFICES ASSUME Hashing, UNCHANGED shaVars PROVE Hashing'
  OBVIOUS
<1>1. UNCHANGED <<candidate, taken, buffer, round, compressed, phase>>
  BY DEF shaVars
<1>2. Padded' = Padded
  BY <1>1, SamePadded
<1>3. Sha!Transforming' = Sha!Transforming /\ Gathered' = Gathered
  BY <1>1 DEF Sha!Transforming, Gathered
<1> QED
  BY <1>1, <1>2, <1>3
  DEF Hashing, HashTypes, Compressed, Progress, NextBytes

LEMMA ShaSteps ==
  ASSUME [ProgramsNext \/ ProgramsTerminated]_programsVars
  PROVE  Sha!Next \/ UNCHANGED shaVars
BY DEF ProgramsNext, ProgramsTerminated, programsVars, SemStep, Frame

LEMMA HashedBlocks ==
  ASSUME Hashing, phase = "done"
  PROVE  compressed = Sha!Blocks
<1> DEFINE n == Len(compressed)
           blocks == [k \in 1..n |->
                        SubSeq(Padded, 64 * (k - 1) + 1, 64 * k)]
<1>1. /\ compressed \in Seq(Seq(Byte)) /\ n \in Nat /\ Len(Padded) = 64 * n
      /\ \A m \in 1..n : compressed[m] =
                          SubSeq(Padded, 64 * (m - 1) + 1, 64 * m)
  BY DEF Hashing, HashTypes, Compressed, Progress
<1>2. Len(Padded) \div 64 = n
  <2> HIDE DEF n
  <2> QED
    BY <1>1
<1>3. Sha!Blocks = blocks
  BY <1>2 DEF Sha!Blocks, Sha!BLOCK, Padded
<1>4. compressed = [k \in 1..n |-> compressed[k]]
  BY <1>1
<1> QED
  BY <1>1, <1>3, <1>4

(***************************************************************************)
(* sha256.c: for a candidate of any length, sha256_update and sha256_final *)
(* never write behind the 64 bytes of their buffer, and what they have     *)
(* compressed in the end are the blocks of the message padded as FIPS      *)
(* 180-4 says (lines 80-116).                                              *)
(***************************************************************************)
THEOREM HashesThePadded ==
  ProgramsSpec => [](/\ Len(buffer) <= 64
                     /\ phase = "done" => compressed = Sha!Blocks)
<1>1. Hashing /\ [ProgramsNext \/ ProgramsTerminated]_programsVars => Hashing'
  BY RoundHashing, UpdateHashing, PadHashing, FinishHashing, CompareHashing,
     SameHashing, ShaSteps DEF Sha!Next
<1>2. Hashing => /\ Len(buffer) <= 64
                 /\ phase = "done" => compressed = Sha!Blocks
  BY HashedBlocks DEF Hashing, HashTypes
<1> QED
  BY HashingInit, <1>1, <1>2, PTL DEF ProgramsSpec

-----------------------------------------------------------------------------
(* Words: addition *)

Uint32 == SUBSET (0..31)

Bit(x, b) == IF b \in x THEN 1 ELSE 0

(* The number that bits 31 to 32 - n of x stand for, for all n *)
High(x) ==
  LET high[n \in Nat] == IF n = 0 THEN 0 ELSE 2 * high[n - 1] + Bit(x, 32 - n)
  IN  high

(* The number a word stands for *)
Value(x) == High(x)[32]

LEMMA HighIs ==
  ASSUME NEW x
  PROVE  /\ High(x)[0] = 0
         /\ \A n \in Nat : /\ High(x)[n] \in Nat
                           /\ High(x)[n + 1] = 2 * High(x)[n] + Bit(x, 31 - n)
<1> DEFINE step == [n \in Nat |-> [k \in Nat |-> 2 * k + Bit(x, 31 - n)]]
<1>1. StepOn(Nat, step)
  BY DEF StepOn, Bit
<1>2. PICK f : Iterates(f, Nat, 0, step)
  <2> HIDE DEF step
  <2> QED
    BY <1>1, Recursion
<1>3. /\ f \in [Nat -> Nat] /\ f[0] = 0
      /\ \A n \in Nat : f[n + 1] = 2 * f[n] + Bit(x, 31 - n)
  BY <1>2 DEF Iterates
<1> DEFINE Satisfies(h) ==
             h = [n \in Nat |-> IF n = 0 THEN 0
                                ELSE 2 * h[n - 1] + Bit(x, 32 - n)]
<1>4. Satisfies(f)
  <2>1. ASSUME NEW n \in Nat
        PROVE  f[n] = IF n = 0 THEN 0 ELSE 2 * f[n - 1] + Bit(x, 32 - n)
    <3>1. CASE n = 0
      BY <1>3, <3>1
    <3>2. CASE n # 0
      <4>1. n - 1 \in Nat /\ (n - 1) + 1 = n /\ 31 - (n - 1) = 32 - n
        BY <3>2
      <4>2. f[(n - 1) + 1] = 2 * f[n - 1] + Bit(x, 31 - (n - 1))
        BY <1>3, <4>1
      <4> QED
        BY <3>2, <4>1, <4>2
    <3> QED
      BY <3>1, <3>2
  <2>2. f = [n \in Nat |-> f[n]]
    BY <1>3
  <2> QED
    BY <2>1, <2>2
<1>5. Satisfies(High(x))
  BY <1>4 DEF High
<1>6. \A n \in Nat : High(x)[n] = IF n = 0 THEN 0
                                  ELSE 2 * High(x)[n - 1] + Bit(x, 32 - n)
  BY <1>5
<1>7. \A n \in Nat : High(x)[n + 1] = 2 * High(x)[n] + Bit(x, 31 - n)
  <2> SUFFICES ASSUME NEW n \in Nat
               PROVE  High(x)[n + 1] = 2 * High(x)[n] + Bit(x, 31 - n)
    OBVIOUS
  <2>1. n + 1 \in Nat /\ n + 1 # 0 /\ (n + 1) - 1 = n /\ 32 - (n + 1) = 31 - n
    OBVIOUS
  <2> QED
    BY <1>6, <2>1
<1> DEFINE Natural == {n \in Nat : High(x)[n] \in Nat}
<1>8. Natural = Nat
  <2>1. 0 \in Natural
    BY <1>6
  <2>2. ASSUME NEW n \in Natural PROVE n + 1 \in Natural
    BY <1>7 DEF Bit
  <2>3. Natural \subseteq Nat
    OBVIOUS
  <2> HIDE DEF Natural
  <2> QED
    BY <2>1, <2>2, <2>3, Induction
<1> QED
  BY <1>6, <1>7, <1>8

(* 2^n; what ^ means for a variable exponent is not known to the provers. *)
Power ==
  LET power[n \in Nat] == IF n = 0 THEN 1 ELSE 2 * power[n - 1]
  IN  power

LEMMA PowerIs ==
  /\ Power[0] = 1
  /\ \A n \in Nat : Power[n] \in Nat /\ Power[n + 1] = 2 * Power[n]
<1> DEFINE step == [n \in Nat |-> [k \in Nat |-> 2 * k]]
<1>1. StepOn(Nat, step)
  BY DEF StepOn
<1>2. PICK f : Iterates(f, Nat, 1, step)
  <2> HIDE DEF step
  <2> QED
    BY <1>1, Recursion
<1>3. /\ f \in [Nat -> Nat] /\ f[0] = 1
      /\ \A n \in Nat : f[n + 1] = 2 * f[n]
  BY <1>2 DEF Iterates
<1> DEFINE Satisfies(h) ==
             h = [n \in Nat |-> IF n = 0 THEN 1 ELSE 2 * h[n - 1]]
<1>4. Satisfies(f)
  <2>1. ASSUME NEW n \in Nat
        PROVE  f[n] = IF n = 0 THEN 1 ELSE 2 * f[n - 1]
    <3>1. CASE n = 0
      BY <1>3, <3>1
    <3>2. CASE n # 0
      <4>1. n - 1 \in Nat /\ (n - 1) + 1 = n
        BY <3>2
      <4> QED
        BY <1>3, <3>2, <4>1
    <3> QED
      BY <3>1, <3>2
  <2>2. f = [n \in Nat |-> f[n]]
    BY <1>3
  <2> QED
    BY <2>1, <2>2
<1>5. Satisfies(Power)
  BY <1>4 DEF Power
<1>6. \A n \in Nat : Power[n] = IF n = 0 THEN 1 ELSE 2 * Power[n - 1]
  BY <1>5
<1>7. \A n \in Nat : Power[n + 1] = 2 * Power[n]
  <2> SUFFICES ASSUME NEW n \in Nat PROVE Power[n + 1] = 2 * Power[n]
    OBVIOUS
  <2>1. n + 1 \in Nat /\ n + 1 # 0 /\ (n + 1) - 1 = n
    OBVIOUS
  <2> QED
    BY <1>6, <2>1
<1> DEFINE Natural == {n \in Nat : Power[n] \in Nat}
<1>8. Natural = Nat
  <2>1. 0 \in Natural
    BY <1>6
  <2>2. ASSUME NEW n \in Natural PROVE n + 1 \in Natural
    BY <1>7
  <2>3. Natural \subseteq Nat
    OBVIOUS
  <2> HIDE DEF Natural
  <2> QED
    BY <2>1, <2>2, <2>3, Induction
<1> QED
  BY <1>6, <1>7, <1>8

LEMMA PowerOf32 == Power[32] = 2^32
<1>1. Power[4] = 16
  <2>1. Power[0 + 1] = 2 /\ Power[1 + 1] = 4 /\ Power[2 + 1] = 8
    BY PowerIs
  <2> QED
    BY <2>1, PowerIs
<1>2. \A n \in Nat : Power[n + 4] = 16 * Power[n]
  <2> SUFFICES ASSUME NEW n \in Nat PROVE Power[n + 4] = 16 * Power[n]
    OBVIOUS
  <2>1. /\ Power[n + 1] = 2 * Power[n] /\ Power[(n + 1) + 1] = 2 * Power[n + 1]
        /\ Power[(n + 2) + 1] = 2 * Power[n + 2]
        /\ Power[(n + 3) + 1] = 2 * Power[n + 3]
        /\ Power[n] \in Nat
    BY PowerIs
  <2>2. (n + 1) + 1 = n + 2 /\ (n + 2) + 1 = n + 3 /\ (n + 3) + 1 = n + 4
    OBVIOUS
  <2> QED
    BY <2>1, <2>2
<1>3. Power[4 + 4] = 256 /\ Power[8 + 4] = 4096 /\ Power[12 + 4] = 65536
  BY <1>1, <1>2
<1>4. /\ Power[16 + 4] = 1048576 /\ Power[20 + 4] = 16777216
      /\ Power[24 + 4] = 268435456 /\ Power[28 + 4] = 4294967296
  BY <1>2, <1>3
<1> QED
  BY <1>4

LEMMA HighBounded ==
  ASSUME NEW x, NEW n \in Nat
  PROVE  High(x)[n] < Power[n]
<1> DEFINE Bounded == {k \in Nat : High(x)[k] < Power[k]}
<1>1. 0 \in Bounded
  BY HighIs, PowerIs
<1>2. ASSUME NEW k \in Bounded PROVE k + 1 \in Bounded
  <2>1. /\ High(x)[k + 1] = 2 * High(x)[k] + Bit(x, 31 - k)
        /\ Power[k + 1] = 2 * Power[k]
        /\ High(x)[k] \in Nat /\ Power[k] \in Nat
        /\ High(x)[k] < Power[k] /\ k + 1 \in Nat
    BY HighIs, PowerIs
  <2>2. Bit(x, 31 - k) \in {0, 1}
    BY DEF Bit
  <2> QED
    BY <2>1, <2>2
<1>3. Bounded \subseteq Nat
  OBVIOUS
<1>4. Bounded = Nat
  <2> HIDE DEF Bounded
  <2> QED
    BY <1>1, <1>2, <1>3, Induction
<1> QED
  BY <1>4

(* The bits that differ, and twice those that are in both *)
LEMMA HighSplits ==
  ASSUME NEW x, NEW y, NEW n \in Nat
  PROVE  High(Cha!(+)(x, y))[n] + 2 * High(x \cap y)[n] = High(x)[n] + High(y)[n]
<1> DEFINE a == Cha!(+)(x, y)
           b == x \cap y
           Split == {k \in Nat : High(a)[k] + 2 * High(b)[k] = High(x)[k] + High(y)[k]}
<1>1. 0 \in Split
  <2>1. High(a)[0] = 0 /\ High(b)[0] = 0 /\ High(x)[0] = 0 /\ High(y)[0] = 0
    <3> HIDE DEF a, b
    <3> QED
      BY HighIs
  <2> QED
    BY <2>1
<1>2. ASSUME NEW k \in Split PROVE k + 1 \in Split
  <2>1. /\ High(a)[k + 1] = 2 * High(a)[k] + Bit(a, 31 - k)
        /\ High(b)[k + 1] = 2 * High(b)[k] + Bit(b, 31 - k)
        /\ High(x)[k + 1] = 2 * High(x)[k] + Bit(x, 31 - k)
        /\ High(y)[k + 1] = 2 * High(y)[k] + Bit(y, 31 - k)
        /\ {High(a)[k], High(b)[k], High(x)[k], High(y)[k]} \subseteq Nat
    <3> HIDE DEF a, b
    <3> QED
      BY HighIs
  <2>2. Bit(a, 31 - k) + 2 * Bit(b, 31 - k) = Bit(x, 31 - k) + Bit(y, 31 - k)
    BY DEF Bit, Cha!(+)
  <2>3. /\ High(a)[k] + 2 * High(b)[k] = High(x)[k] + High(y)[k]
        /\ k + 1 \in Nat
    OBVIOUS
  <2>4. {Bit(a, 31 - k), Bit(b, 31 - k), Bit(x, 31 - k), Bit(y, 31 - k)}
          \subseteq {0, 1}
    BY DEF Bit
  <2> HIDE DEF a, b
  <2> QED
    BY <2>1, <2>2, <2>3, <2>4
<1>3. Split \subseteq Nat
  OBVIOUS
<1>4. Split = Nat
  <2> HIDE DEF Split
  <2> QED
    BY <1>1, <1>2, <1>3, Induction
<1> QED
  BY <1>4

(* What is carried, shifted by one: twice the number, but for the last bit *)
Carry(x, y) == Cha!Up(x \cap y, 1) \cap Cha!Bits

LEMMA CarryDoubles ==
  ASSUME NEW x \in Uint32, NEW y \in Uint32
  PROVE  2 * Value(x \cap y) = Value(Carry(x, y)) + 2^32 * Bit(x \cap y, 31)
<1> DEFINE z == x \cap y
           c == Carry(x, y)
           Doubles == {n \in Nat : High(z)[n + 1] =
                         High(c)[n] + (IF 31 \in z THEN Power[n] ELSE 0)}
<1>1. \A b \in Int : b \in c <=> b - 1 \in z /\ b <= 31
  BY DEF Carry, Cha!Up, Cha!Bits, Uint32
<1>2. z \subseteq 0..31
  BY DEF Uint32
<1> HIDE DEF z, c
<1>3. 0 \in Doubles
  <2>1. High(z)[0 + 1] = 2 * High(z)[0] + Bit(z, 31 - 0) /\ High(z)[0] = 0
    BY HighIs
  <2>2. High(c)[0] = 0 /\ Power[0] = 1
    BY HighIs, PowerIs
  <2> QED
    BY <2>1, <2>2 DEF Bit
<1>4. ASSUME NEW n \in Doubles PROVE n + 1 \in Doubles
  <2>1. /\ n \in Nat /\ n + 1 \in Nat /\ 31 - (n + 1) = 30 - n
        /\ High(z)[n + 1] = High(c)[n] + (IF 31 \in z THEN Power[n] ELSE 0)
    OBVIOUS
  <2>2. /\ High(z)[(n + 1) + 1] = 2 * High(z)[n + 1] + Bit(z, 30 - n)
        /\ High(c)[n + 1] = 2 * High(c)[n] + Bit(c, 31 - n)
        /\ Power[n + 1] = 2 * Power[n]
        /\ High(z)[n + 1] \in Nat /\ High(c)[n] \in Nat /\ Power[n] \in Nat
    BY <2>1, HighIs, PowerIs
  <2>3. Bit(c, 31 - n) = Bit(z, 30 - n)
    <3>1. 31 - n \in Int /\ (31 - n) - 1 = 30 - n /\ 31 - n <= 31
      BY <2>1
    <3>2. 31 - n \in c <=> 30 - n \in z
      BY <1>1, <3>1
    <3> QED
      BY <3>2 DEF Bit
  <2>4. Bit(z, 30 - n) \in Nat
    BY DEF Bit
  <2>5. High(z)[(n + 1) + 1] = High(c)[n + 1]
                                 + (IF 31 \in z THEN Power[n + 1] ELSE 0)
    <3>1. CASE 31 \in z
      BY <2>1, <2>2, <2>3, <2>4, <3>1
    <3>2. CASE 31 \notin z
      BY <2>1, <2>2, <2>3, <2>4, <3>2
    <3> QED
      BY <3>1, <3>2
  <2> QED
    BY <2>1, <2>5
<1>5. Doubles = Nat
  <2>1. Doubles \subseteq Nat
    OBVIOUS
  <2> HIDE DEF Doubles
  <2> QED
    BY <1>3, <1>4, <2>1, Induction
<1>6. High(z)[32 + 1] = High(c)[32] + (IF 31 \in z THEN Power[32] ELSE 0)
  BY <1>5
<1>7. High(z)[32 + 1] = 2 * High(z)[32] /\ High(z)[32] \in Nat
  <2>1. High(z)[32 + 1] = 2 * High(z)[32] + Bit(z, 31 - 32)
    BY HighIs
  <2>2. Bit(z, 31 - 32) = 0
    BY <1>2 DEF Bit
  <2> QED
    BY <2>1, <2>2, HighIs
<1>8. High(c)[32] \in Nat
  BY HighIs
<1> QED
  BY <1>6, <1>7, <1>8, PowerOf32 DEF Value, Bit, z, c

LEMMA ValueIs ==
  ASSUME NEW x \in Uint32
  PROVE  Value(x) \in 0..(2^32 - 1)
<1>1. High(x)[32] \in Nat /\ High(x)[32] < 2^32
  BY HighIs, HighBounded, PowerOf32
<1> QED
  BY <1>1 DEF Value

(* One turn of the addition keeps the sum, modulo 2^32. *)
LEMMA AddOnceKeepsSum ==
  ASSUME NEW x \in Uint32, NEW y \in Uint32
  PROVE  (Value(Cha!(+)(x, y)) + Value(Carry(x, y))) % 2^32
           = (Value(x) + Value(y)) % 2^32
<1>1. Cha!(+)(x, y) \in Uint32 /\ x \cap y \in Uint32 /\ Carry(x, y) \in Uint32
  BY DEF Uint32, Cha!(+), Carry, Cha!Bits
<1> DEFINE a == Value(Cha!(+)(x, y))
           b == Value(x \cap y)
           c == Value(Carry(x, y))
<1>2. a + 2 * b = Value(x) + Value(y)
  BY HighSplits DEF Value
<1>3. 2 * b = c + 2^32 * Bit(x \cap y, 31)
  BY CarryDoubles
<1>4. a \in Int /\ b \in Int /\ c \in Int /\ Value(x) \in Int /\ Value(y) \in Int
  BY <1>1, ValueIs
<1> HIDE DEF a, b, c
<1>5. CASE 31 \in x \cap y
  <2>1. Value(x) + Value(y) = (a + c) + 2^32
    BY <1>2, <1>3, <1>4, <1>5 DEF Bit
  <2>2. ((a + c) + 2^32) % 2^32 = (a + c) % 2^32
    BY <1>4
  <2> QED
    BY <2>1, <2>2 DEF a, c
<1>6. CASE 31 \notin x \cap y
  <2>1. Value(x) + Value(y) = a + c
    BY <1>2, <1>3, <1>4, <1>6 DEF Bit
  <2> QED
    BY <2>1 DEF a, c
<1> QED
  BY <1>5, <1>6

(***************************************************************************)
(* Add's recursion ends: with every turn the lowest bit that is carried    *)
(* moves up by one at least.                                               *)
(***************************************************************************)
Addends == Uint32 \X Uint32

AddOnce(p) == <<Cha!(+)(p[1], p[2]), Carry(p[1], p[2])>>

(* nothing is carried into a bit below 32 - n *)
CarriedFrom(p, n) == \A b \in p[2] : b >= 32 - n

LEMMA AddOnceIs ==
  ASSUME NEW p \in Addends
  PROVE  /\ AddOnce(p) \in Addends
         /\ \A n \in Nat : CarriedFrom(p, n + 1) => CarriedFrom(AddOnce(p), n)
         /\ CarriedFrom(p, 32)
         /\ CarriedFrom(p, 0) => p[2] = {}
         /\ p[2] = {} => AddOnce(p) = p
<1>1. p[1] \in Uint32 /\ p[2] \in Uint32 /\ p = <<p[1], p[2]>>
  BY DEF Addends
<1>2. AddOnce(p) \in Addends
  BY <1>1 DEF AddOnce, Addends, Uint32, Cha!(+), Carry, Cha!Bits
<1>3. ASSUME NEW n \in Nat, CarriedFrom(p, n + 1) PROVE CarriedFrom(AddOnce(p), n)
  <2> SUFFICES ASSUME NEW b \in Carry(p[1], p[2]) PROVE b >= 32 - n
    BY DEF CarriedFrom, AddOnce
  <2>1. PICK d \in p[2] : b = d + 1 /\ d \in 0..31
    BY <1>1 DEF Carry, Cha!Up, Uint32
  <2>2. d >= 32 - (n + 1)
    BY <1>3, <2>1 DEF CarriedFrom
  <2> QED
    BY <2>1, <2>2
<1>4. CarriedFrom(p, 32)
  BY <1>1 DEF CarriedFrom, Uint32
<1>5. ASSUME CarriedFrom(p, 0) PROVE p[2] = {}
  <2>1. \A b \in p[2] : b \in 0..31 /\ b >= 32 - 0
    BY <1>1, <1>5 DEF CarriedFrom, Uint32
  <2> QED
    BY <2>1
<1>6. ASSUME p[2] = {} PROVE AddOnce(p) = p
  BY <1>1, <1>6 DEF AddOnce, Cha!(+), Carry, Cha!Up
<1> QED
  BY <1>2, <1>3, <1>4, <1>5, <1>6

(* the recursive function in Add *)
Adding ==
  LET add[p \in (SUBSET Cha!Bits) \X (SUBSET Cha!Bits)] ==
        IF p[2] = {} THEN p[1]
        ELSE add[<<Cha!(+)(p[1], p[2]),
                   Cha!Up(p[1] \cap p[2], 1) \cap Cha!Bits>>]
  IN  add

LEMMA AddIsAdding ==
  ASSUME NEW x, NEW y
  PROVE  Cha!Add(x, y) = Adding[<<x, y>>]
BY DEF Cha!Add, Adding

(* Add(x, y) satisfies its equation, since 32 turns from any x and y make  *)
(* a function that does.                                                   *)
LEMMA AddingIs ==
  ASSUME NEW p \in Addends
  PROVE  Adding[p] = IF p[2] = {} THEN p[1] ELSE Adding[AddOnce(p)]
<1> DEFINE Turns == [Addends -> Addends]
           step == [n \in Nat |-> [h \in Turns |-> [q \in Addends |-> h[AddOnce(q)]]]]
           none == [q \in Addends |-> q]
<1>1. StepOn(Turns, step)
  <2>1. ASSUME NEW h \in Turns PROVE [q \in Addends |-> h[AddOnce(q)]] \in Turns
    BY AddOnceIs
  <2> HIDE DEF Turns
  <2> QED
    BY <2>1 DEF StepOn
<1>2. none \in Turns
  OBVIOUS
<1>3. PICK f : Iterates(f, Turns, none, step)
  <2> HIDE DEF Turns, none, step
  <2> QED
    BY <1>1, <1>2, Recursion
<1>4. /\ \A n \in Nat : f[n] \in Turns
      /\ \A q \in Addends : f[0][q] = q
      /\ \A n \in Nat : \A q \in Addends : f[n + 1][q] = f[n][AddOnce(q)]
  <2>1. /\ f \in [Nat -> Turns] /\ f[0] = none
        /\ \A n \in Nat : f[n + 1] = step[n][f[n]]
    <3> HIDE DEF Turns, step, none
    <3> QED
      BY <1>3 DEF Iterates
  <2>2. ASSUME NEW n \in Nat PROVE f[n] \in Turns
    <3> HIDE DEF Turns
    <3> QED
      BY <2>1
  <2>3. ASSUME NEW n \in Nat PROVE step[n][f[n]] = [q \in Addends |-> f[n][AddOnce(q)]]
    <3> HIDE DEF Turns
    <3> QED
      BY <2>2
  <2>4. ASSUME NEW n \in Nat, NEW q \in Addends
        PROVE  f[n + 1][q] = f[n][AddOnce(q)]
    <3>1. f[n + 1] = [r \in Addends |-> f[n][AddOnce(r)]]
      <4>1. f[n + 1] = step[n][f[n]]
        <5> HIDE DEF Turns, step
        <5> QED
          BY <2>1
      <4> HIDE DEF Turns, step
      <4> QED
        BY <2>3, <4>1
    <3> HIDE DEF Turns, step
    <3> QED
      BY <3>1
  <2> HIDE DEF Turns, step
  <2> QED
    BY <2>1, <2>2, <2>4
<1> HIDE DEF Turns, step, none
<1> DEFINE Settled == {n \in Nat : \A q \in Addends :
                         CarriedFrom(q, n) => f[n + 1][q] = f[n][q]}
<1>5. 0 \in Settled
  <2> SUFFICES ASSUME NEW q \in Addends, CarriedFrom(q, 0)
               PROVE  f[0 + 1][q] = f[0][q]
    OBVIOUS
  <2>1. AddOnce(q) = q
    BY AddOnceIs
  <2>2. f[0 + 1][q] = f[0][AddOnce(q)]
    BY <1>4
  <2> QED
    BY <2>1, <2>2
<1>6. ASSUME NEW n \in Settled PROVE n + 1 \in Settled
  <2> SUFFICES ASSUME NEW q \in Addends, CarriedFrom(q, n + 1)
               PROVE  f[(n + 1) + 1][q] = f[n + 1][q]
    OBVIOUS
  <2>1. n \in Nat /\ n + 1 \in Nat
    OBVIOUS
  <2>2. AddOnce(q) \in Addends /\ CarriedFrom(AddOnce(q), n)
    BY <2>1, AddOnceIs
  <2>3. f[n + 1][AddOnce(q)] = f[n][AddOnce(q)]
    BY <2>2
  <2>4. f[(n + 1) + 1][q] = f[n + 1][AddOnce(q)] /\ f[n + 1][q] = f[n][AddOnce(q)]
    BY <1>4, <2>1
  <2> QED
    BY <2>3, <2>4
<1>7. Settled = Nat
  <2>1. Settled \subseteq Nat
    OBVIOUS
  <2> HIDE DEF Settled
  <2> QED
    BY <1>5, <1>6, <2>1, Induction
<1>8. \A q \in Addends : f[32 + 1][q] = f[32][q]
  BY <1>7, AddOnceIs
<1> HIDE DEF Settled
<1> DEFINE g == [q \in Addends |-> f[32][q][1]]
           Satisfies(h) == h = [q \in Addends |->
                                  IF q[2] = {} THEN q[1] ELSE h[AddOnce(q)]]
           Kept == {n \in Nat : \A q \in Addends : q[2] = {} => f[n][q] = q}
<1>9. Kept = Nat
  <2>1. 0 \in Kept
    BY <1>4
  <2>2. ASSUME NEW n \in Kept PROVE n + 1 \in Kept
    BY <1>4, AddOnceIs
  <2>3. Kept \subseteq Nat
    OBVIOUS
  <2> HIDE DEF Kept
  <2> QED
    BY <2>1, <2>2, <2>3, Induction
<1>10. Satisfies(g)
  <2>1. ASSUME NEW q \in Addends
        PROVE  g[q] = IF q[2] = {} THEN q[1] ELSE g[AddOnce(q)]
    <3>1. CASE q[2] = {}
      BY <1>9, <3>1
    <3>2. CASE q[2] # {}
      <4>1. AddOnce(q) \in Addends /\ f[32 + 1][q] = f[32][AddOnce(q)]
        BY <1>4, AddOnceIs
      <4> QED
        BY <1>8, <3>2, <4>1
    <3> QED
      BY <3>1, <3>2
  <2> HIDE DEF g
  <2>2. g = [q \in Addends |-> g[q]]
    BY DEF g
  <2> QED
    BY <2>1, <2>2
<1>11. Adding = CHOOSE h : Satisfies(h)
  BY DEF Adding, Addends, Uint32, AddOnce, Carry, Cha!Bits
<1>12. Satisfies(Adding)
  <2> HIDE DEF g, Satisfies
  <2> QED
    BY <1>10, <1>11
<1> QED
  BY <1>12

LEMMA AddingAdds ==
  ASSUME NEW x \in Uint32, NEW y \in Uint32
  PROVE  /\ Cha!Add(x, y) \in Uint32
         /\ Value(Cha!Add(x, y)) = (Value(x) + Value(y)) % 2^32
<1> DEFINE Adds(p) == /\ Adding[p] \in Uint32
                      /\ Value(Adding[p]) = (Value(p[1]) + Value(p[2])) % 2^32
           Right == {n \in Nat : \A p \in Addends : CarriedFrom(p, n) => Adds(p)}
<1>1. ASSUME NEW p \in Addends, p[2] = {} PROVE Adds(p)
  <2>1. Adding[p] = p[1] /\ p[1] \in Uint32
    BY <1>1, AddingIs DEF Addends
  <2>2. Value({}) = 0
    <3> DEFINE Zero == {n \in Nat : High({})[n] = 0}
    <3>1. 0 \in Zero
      BY HighIs
    <3>2. ASSUME NEW n \in Zero PROVE n + 1 \in Zero
      BY HighIs DEF Bit
    <3>3. Zero \subseteq Nat
      OBVIOUS
    <3>4. Zero = Nat
      <4> HIDE DEF Zero
      <4> QED
        BY <3>1, <3>2, <3>3, Induction
    <3> QED
      BY <3>4 DEF Value
  <2>3. Value(p[1]) \in 0..(2^32 - 1)
    BY <2>1, ValueIs
  <2>4. (Value(p[1]) + 0) % 2^32 = Value(p[1])
    BY <2>3
  <2> QED
    BY <1>1, <2>1, <2>2, <2>4
<1>2. 0 \in Right
  BY <1>1, AddOnceIs
<1>3. ASSUME NEW n \in Right PROVE n + 1 \in Right
  <2> SUFFICES ASSUME NEW p \in Addends, CarriedFrom(p, n + 1) PROVE Adds(p)
    OBVIOUS
  <2>1. CASE p[2] = {}
    BY <1>1, <2>1
  <2>2. CASE p[2] # {}
    <3>1. AddOnce(p) \in Addends /\ CarriedFrom(AddOnce(p), n) /\ n \in Nat
      BY AddOnceIs
    <3>2. Adds(AddOnce(p))
      BY <3>1
    <3>3. Adding[p] = Adding[AddOnce(p)]
      BY <2>2, AddingIs
    <3>4. p[1] \in Uint32 /\ p[2] \in Uint32
      BY DEF Addends
    <3>5. AddOnce(p)[1] = Cha!(+)(p[1], p[2]) /\ AddOnce(p)[2] = Carry(p[1], p[2])
      BY DEF AddOnce
    <3>6. (Value(AddOnce(p)[1]) + Value(AddOnce(p)[2])) % 2^32
            = (Value(p[1]) + Value(p[2])) % 2^32
      BY <3>4, <3>5, AddOnceKeepsSum
    <3> QED
      BY <3>2, <3>3, <3>6
  <2> QED
    BY <2>1, <2>2
<1>4. Right = Nat
  <2>1. Right \subseteq Nat
    OBVIOUS
  <2> HIDE DEF Right
  <2> QED
    BY <1>2, <1>3, <2>1, Induction
<1> DEFINE q == <<x, y>>
<1>5. q \in Addends /\ q[1] = x /\ q[2] = y
  BY DEF Addends
<1>6. CarriedFrom(q, 32)
  <2> HIDE DEF q
  <2> QED
    BY <1>5, AddOnceIs
<1>7. Adds(q)
  <2> HIDE DEF q, Adds
  <2> QED
    BY <1>4, <1>5, <1>6
<1> QED
  BY <1>5, <1>7, AddIsAdding

(* A word is determined by the number it stands for. *)
LEMMA ValueDetermines ==
  ASSUME NEW x \in Uint32, NEW y \in Uint32, Value(x) = Value(y)
  PROVE  x = y
<1> DEFINE Same == {n \in Nat : n <= 32 => High(x)[32 - n] = High(y)[32 - n]}
<1>1. ASSUME NEW n \in Nat, High(x)[n + 1] = High(y)[n + 1]
      PROVE  High(x)[n] = High(y)[n] /\ Bit(x, 31 - n) = Bit(y, 31 - n)
  <2>1. /\ High(x)[n + 1] = 2 * High(x)[n] + Bit(x, 31 - n)
        /\ High(y)[n + 1] = 2 * High(y)[n] + Bit(y, 31 - n)
        /\ High(x)[n] \in Nat /\ High(y)[n] \in Nat
    BY HighIs
  <2>2. Bit(x, 31 - n) \in {0, 1} /\ Bit(y, 31 - n) \in {0, 1}
    BY DEF Bit
  <2>3. \A h, k \in Nat : \A b, d \in {0, 1} :
          2 * h + b = 2 * k + d => h = k /\ b = d
    OBVIOUS
  <2>4. 2 * High(x)[n] + Bit(x, 31 - n) = 2 * High(y)[n] + Bit(y, 31 - n)
    BY <1>1, <2>1
  <2> QED
    BY <2>1, <2>2, <2>3, <2>4
<1>2. 0 \in Same
  BY DEF Value
<1>3. ASSUME NEW n \in Same PROVE n + 1 \in Same
  <2> SUFFICES ASSUME n + 1 <= 32
               PROVE  High(x)[32 - (n + 1)] = High(y)[32 - (n + 1)]
    OBVIOUS
  <2>1. n \in Nat /\ 31 - n \in Nat /\ (31 - n) + 1 = 32 - n
        /\ 32 - (n + 1) = 31 - n
    OBVIOUS
  <2>2. High(x)[32 - n] = High(y)[32 - n]
    BY <2>1
  <2> QED
    BY <1>1, <2>1, <2>2
<1>4. Same = Nat
  <2>1. Same \subseteq Nat
    OBVIOUS
  <2> HIDE DEF Same
  <2> QED
    BY <1>2, <1>3, <2>1, Induction
<1>5. ASSUME NEW b \in 0..31 PROVE b \in x <=> b \in y
  <2>1. b \in Nat /\ b <= 32 /\ 31 - b \in Nat /\ 32 - b = (31 - b) + 1
        /\ 31 - (31 - b) = b
    OBVIOUS
  <2>2. High(x)[32 - b] = High(y)[32 - b]
    BY <1>4, <2>1
  <2>3. Bit(x, b) = Bit(y, b)
    BY <1>1, <2>1, <2>2
  <2> QED
    BY <2>3 DEF Bit
<1> QED
  BY <1>5 DEF Uint32

(***************************************************************************)
(* sha256.c, chacha20.c: the + of two uint32_t.  Add, which works on sets  *)
(* of bits, gives the one word whose value is the sum modulo 2^32.         *)
(***************************************************************************)
THEOREM AdditionIsModulo ==
  \A x, y \in Uint32 :
    /\ \A s \in Uint32 :
         s = Cha!Add(x, y) <=> Value(s) = (Value(x) + Value(y)) % 2^32
    /\ Sha!Add(x, y) = Cha!Add(x, y)
<1> TAKE x, y \in Uint32
<1>1. ASSUME NEW s \in Uint32
      PROVE  s = Cha!Add(x, y)
               <=> Value(s) = (Value(x) + Value(y)) % 2^32
  BY AddingAdds, ValueDetermines
<1>2. Sha!Add(x, y) = Cha!Add(x, y)
  BY DEF Sha!Add, Cha!Add, Sha!(+), Cha!(+), Sha!Up, Cha!Up, Sha!Bits, Cha!Bits
<1> QED
  BY <1>1, <1>2

-----------------------------------------------------------------------------
(* chacha20.c *)

States == [1..16 -> Uint32]
Quads == [1..4 -> Uint32]

LEMMA AddCancels ==
  ASSUME NEW x \in Uint32, NEW y \in Uint32, NEW z \in Uint32,
         Cha!Add(x, z) = Cha!Add(y, z)
  PROVE  x = y
<1> DEFINE a == Value(x)
           b == Value(y)
           c == Value(z)
<1>1. a \in 0..(2^32 - 1) /\ b \in 0..(2^32 - 1) /\ c \in 0..(2^32 - 1)
  BY ValueIs
<1>2. (a + c) % 2^32 = (b + c) % 2^32
  BY AddingAdds
<1>3. a = b
  <2> HIDE DEF a, b, c
  <2> QED
    BY <1>1, <1>2
<1> QED
  BY <1>3, ValueDetermines

LEMMA XorCancels ==
  ASSUME NEW x, NEW y, NEW z, Cha!(+)(x, z) = Cha!(+)(y, z)
  PROVE  \A b : b \in x <=> b \in y
<1> TAKE b
<1>1. b \in Cha!(+)(x, z) <=> b \in Cha!(+)(y, z)
  OBVIOUS
<1> QED
  BY <1>1 DEF Cha!(+)

LEMMA RotationIs ==
  ASSUME NEW x \in Uint32, NEW n \in 0..31
  PROVE  /\ Cha!rotl32(x, n) \in Uint32
         /\ \A b \in 0..31 : b \in x <=> (b + n) % 32 \in Cha!rotl32(x, n)
<1>1. \A b, d \in 0..31 : (b + n) % 32 = (d + n) % 32 => b = d
  OBVIOUS
<1>2. \A b \in 0..31 : (b + n) % 32 \in 0..31
  OBVIOUS
<1>3. \A b \in x : b \in 0..31
  BY DEF Uint32
<1>4. Cha!rotl32(x, n) \in Uint32
  BY <1>2, <1>3 DEF Cha!rotl32, Uint32
<1>5. ASSUME NEW b \in 0..31, (b + n) % 32 \in Cha!rotl32(x, n) PROVE b \in x
  <2>1. PICK d \in x : (b + n) % 32 = (d + n) % 32
    BY <1>5 DEF Cha!rotl32
  <2>2. d \in 0..31
    BY <1>3, <2>1
  <2> QED
    BY <1>1, <2>1, <2>2
<1>6. ASSUME NEW b \in x PROVE (b + n) % 32 \in Cha!rotl32(x, n)
  BY DEF Cha!rotl32
<1> QED
  BY <1>4, <1>5, <1>6

LEMMA RotationCancels ==
  ASSUME NEW x \in Uint32, NEW y \in Uint32, NEW n \in 0..31,
         Cha!rotl32(x, n) = Cha!rotl32(y, n)
  PROVE  x = y
<1>1. \A b \in 0..31 : b \in x <=> b \in y
  BY RotationIs
<1> QED
  BY <1>1 DEF Uint32

LEMMA XorIsWord ==
  ASSUME NEW x \in Uint32, NEW y \in Uint32
  PROVE  Cha!(+)(x, y) \in Uint32
BY DEF Uint32, Cha!(+)

(* Two of the four lines of quarter_round can be undone. *)
LEMMA HalfRoundIs ==
  ASSUME NEW q \in Quads, NEW n \in 0..31, NEW m \in 0..31
  PROVE  Cha!Half(q, n, m) \in Quads
<1> DEFINE a == Cha!Add(q[1], q[2])
           d == Cha!rotl32(Cha!(+)(q[4], a), n)
           c == Cha!Add(q[3], d)
           b == Cha!rotl32(Cha!(+)(q[2], c), m)
<1>1. \A k \in 1..4 : q[k] \in Uint32
  BY DEF Quads
<1>2. a \in Uint32
  BY <1>1, AddingAdds
<1>3. d \in Uint32
  <2> HIDE DEF a
  <2> QED
    BY <1>1, <1>2, XorIsWord, RotationIs
<1>4. c \in Uint32
  <2> HIDE DEF d
  <2> QED
    BY <1>1, <1>3, AddingAdds
<1>5. b \in Uint32
  <2> HIDE DEF c
  <2> QED
    BY <1>1, <1>4, XorIsWord, RotationIs
<1>6. Cha!Half(q, n, m) = <<a, b, c, d>>
  BY DEF Cha!Half
<1> HIDE DEF a, b, c, d
<1> QED
  BY <1>2, <1>3, <1>4, <1>5, <1>6 DEF Quads

LEMMA HalfRoundUndone ==
  ASSUME NEW q \in Quads, NEW r \in Quads, NEW n \in 0..31, NEW m \in 0..31,
         Cha!Half(q, n, m) = Cha!Half(r, n, m)
  PROVE  q = r
<1> DEFINE A(p) == Cha!Add(p[1], p[2])
           D(p) == Cha!rotl32(Cha!(+)(p[4], A(p)), n)
           C(p) == Cha!Add(p[3], D(p))
           B(p) == Cha!rotl32(Cha!(+)(p[2], C(p)), m)
<1>1. \A p \in Quads : \A k \in 1..4 : p[k] \in Uint32
  BY DEF Quads
<1>2. \A p \in Quads : Cha!Half(p, n, m) = <<A(p), B(p), C(p), D(p)>>
  BY DEF Cha!Half
<1>3. A(q) = A(r) /\ B(q) = B(r) /\ C(q) = C(r) /\ D(q) = D(r)
  <2> HIDE DEF A, B, C, D
  <2> QED
    BY <1>2
<1>4. A(q) \in Uint32 /\ C(q) \in Uint32 /\ D(q) \in Uint32
  <2>1. A(q) \in Uint32
    BY <1>1, AddingAdds
  <2>2. D(q) \in Uint32
    <3> HIDE DEF A
    <3> QED
      BY <1>1, <2>1, XorIsWord, RotationIs
  <2>3. C(q) \in Uint32
    <3> HIDE DEF D
    <3> QED
      BY <1>1, <2>2, AddingAdds
  <2> QED
    BY <2>1, <2>2, <2>3
<1>5. q[4] = r[4]
  <2> HIDE DEF A
  <2>1. Cha!rotl32(Cha!(+)(q[4], A(q)), n) = Cha!rotl32(Cha!(+)(r[4], A(q)), n)
    BY <1>3
  <2>2. /\ Cha!(+)(q[4], A(q)) \in Uint32 /\ Cha!(+)(r[4], A(q)) \in Uint32
    BY <1>1, <1>4, XorIsWord
  <2>3. Cha!(+)(q[4], A(q)) = Cha!(+)(r[4], A(q))
    BY <2>1, <2>2, RotationCancels
  <2> QED
    BY <1>1, <2>3, XorCancels
<1>6. q[3] = r[3]
  <2> HIDE DEF D
  <2> QED
    BY <1>1, <1>3, <1>4, AddCancels
<1>7. q[2] = r[2]
  <2> HIDE DEF C
  <2>1. Cha!rotl32(Cha!(+)(q[2], C(q)), m) = Cha!rotl32(Cha!(+)(r[2], C(q)), m)
    BY <1>3
  <2>2. /\ Cha!(+)(q[2], C(q)) \in Uint32 /\ Cha!(+)(r[2], C(q)) \in Uint32
    BY <1>1, <1>4, XorIsWord
  <2>3. Cha!(+)(q[2], C(q)) = Cha!(+)(r[2], C(q))
    BY <2>1, <2>2, RotationCancels
  <2> QED
    BY <1>1, <2>3, XorCancels
<1>8. q[1] = r[1]
  BY <1>1, <1>3, <1>7, AddCancels
<1> QED
  BY <1>5, <1>6, <1>7, <1>8 DEF Quads

LEMMA QuarterIs ==
  ASSUME NEW q \in Quads
  PROVE  /\ Cha!quarter_round(q) \in Quads
         /\ \A r \in Quads :
              Cha!quarter_round(q) = Cha!quarter_round(r) => q = r
<1> DEFINE A(p) == Cha!Half(p, 16, 12)
           B(p) == Cha!Half(p, 8, 7)
<1>1. \A p \in Quads : A(p) \in Quads /\ B(p) \in Quads
  BY HalfRoundIs
<1>2. \A p, r \in Quads : /\ A(p) = A(r) => p = r
                          /\ B(p) = B(r) => p = r
  BY HalfRoundUndone
<1>3. \A p : Cha!quarter_round(p) = B(A(p))
  BY DEF Cha!quarter_round
<1> HIDE DEF A, B
<1> QED
  BY <1>1, <1>2, <1>3

(* What the n-th quarter round makes of the 16 words *)
Rounded(s, n) ==
  LET lane == Cha!Lanes[(n % 8) + 1]
  IN  Cha!Place(s, lane, Cha!quarter_round([k \in 1..4 |-> s[lane[k]]]))

(* No quarter round has a word twice. *)
LEMMA LanesAre ==
  ASSUME NEW n \in 1..8
  PROVE  /\ \A k \in 1..4 : Cha!Lanes[n][k] \in 1..16
         /\ \A k, l \in 1..4 : Cha!Lanes[n][k] = Cha!Lanes[n][l] => k = l
<1>1. n \in {1, 2, 3, 4, 5, 6, 7, 8}
  OBVIOUS
<1> QED
  BY <1>1 DEF Cha!Lanes

LEMMA PlaceIs ==
  ASSUME NEW s \in States, NEW n \in 1..8, NEW q \in Quads
  PROVE  /\ Cha!Place(s, Cha!Lanes[n], q) \in States
         /\ \A k \in 1..4 :
              Cha!Place(s, Cha!Lanes[n], q)[Cha!Lanes[n][k]] = q[k]
         /\ \A p \in 1..16 :
              (\A k \in 1..4 : p # Cha!Lanes[n][k])
                => Cha!Place(s, Cha!Lanes[n], q)[p] = s[p]
<1> DEFINE lane == Cha!Lanes[n]
<1>1. /\ \A k \in 1..4 : lane[k] \in 1..16
      /\ \A k, l \in 1..4 : lane[k] = lane[l] => k = l
  BY LanesAre
<1>2. Cha!Place(s, lane, q) =
        [s EXCEPT ![lane[1]] = q[1], ![lane[2]] = q[2],
                  ![lane[3]] = q[3], ![lane[4]] = q[4]]
  BY DEF Cha!Place
<1> HIDE DEF lane
<1>3. q[1] \in Uint32 /\ q[2] \in Uint32 /\ q[3] \in Uint32 /\ q[4] \in Uint32
  BY DEF Quads
<1>4. lane[1] # lane[2] /\ lane[1] # lane[3] /\ lane[1] # lane[4]
      /\ lane[2] # lane[3] /\ lane[2] # lane[4] /\ lane[3] # lane[4]
  BY <1>1
<1>5. {lane[1], lane[2], lane[3], lane[4]} \subseteq 1..16
  BY <1>1
<1>6. Cha!Place(s, lane, q) \in States
  BY <1>2, <1>3, <1>5 DEF States
<1>7. \A k \in 1..4 : Cha!Place(s, lane, q)[lane[k]] = q[k]
  BY <1>2, <1>4, <1>5 DEF States
<1>8. \A p \in 1..16 : (\A k \in 1..4 : p # lane[k])
                          => Cha!Place(s, lane, q)[p] = s[p]
  BY <1>2, <1>5 DEF States
<1> QED
  BY <1>6, <1>7, <1>8 DEF lane

LEMMA RoundUndone ==
  ASSUME NEW s \in States, NEW n \in Nat
  PROVE  /\ Rounded(s, n) \in States
         /\ \A t \in States : Rounded(s, n) = Rounded(t, n) => s = t
<1> DEFINE m == (n % 8) + 1
           lane == Cha!Lanes[m]
           Of(t) == [k \in 1..4 |-> t[lane[k]]]
<1>1. m \in 1..8
  OBVIOUS
<1> HIDE DEF m
<1>2. \A k \in 1..4 : lane[k] \in 1..16
  BY <1>1, LanesAre
<1>3. ASSUME NEW t \in States
      PROVE  /\ Of(t) \in Quads
             /\ Rounded(t, n) = Cha!Place(t, lane, Cha!quarter_round(Of(t)))
  <2>1. Of(t) \in Quads
    BY <1>2 DEF States, Quads
  <2> QED
    BY <2>1 DEF Rounded, m
<1>4. ASSUME NEW t \in States, NEW q \in Quads
      PROVE  /\ Cha!Place(t, lane, q) \in States
             /\ \A k \in 1..4 : Cha!Place(t, lane, q)[lane[k]] = q[k]
             /\ \A p \in 1..16 : (\A k \in 1..4 : p # lane[k])
                                  => Cha!Place(t, lane, q)[p] = t[p]
  BY <1>1, PlaceIs
<1> HIDE DEF Of, lane
<1>5. Rounded(s, n) \in States
  <2>1. Cha!quarter_round(Of(s)) \in Quads
    BY <1>3, QuarterIs
  <2> QED
    BY <1>3, <1>4, <2>1
<1>6. ASSUME NEW t \in States, Rounded(s, n) = Rounded(t, n) PROVE s = t
  <2> DEFINE q == Cha!quarter_round(Of(s))
             r == Cha!quarter_round(Of(t))
  <2>1. q \in Quads /\ r \in Quads
    BY <1>3, QuarterIs
  <2>2. Cha!Place(s, lane, q) = Cha!Place(t, lane, r)
    BY <1>3, <1>6
  <2> HIDE DEF q, r
  <2>3. \A k \in 1..4 : q[k] = r[k]
    BY <1>4, <2>1, <2>2
  <2>4. q = r
    BY <2>1, <2>3 DEF Quads
  <2>5. Of(s) = Of(t)
    BY <1>3, <2>4, QuarterIs DEF q, r
  <2>6. \A k \in 1..4 : s[lane[k]] = t[lane[k]]
    BY <2>5 DEF Of
  <2>7. ASSUME NEW p \in 1..16, \A k \in 1..4 : p # lane[k]
        PROVE  s[p] = t[p]
    BY <1>4, <2>1, <2>2, <2>7
  <2>8. \A p \in 1..16 : s[p] = t[p]
    BY <2>6, <2>7
  <2> QED
    BY <2>8 DEF States
<1> QED
  BY <1>5, <1>6

LEMMA LiteralIs ==
  ASSUME NEW a, NEW b
  PROVE  Cha!W(a, b) \in Uint32
<1>1. Cha!BitsOf(b) \subseteq 0..15
  BY DEF Cha!BitsOf
<1>2. Cha!Up(Cha!BitsOf(a), 16) \subseteq 0..31
  BY DEF Cha!Up, Cha!BitsOf
<1> QED
  BY <1>1, <1>2 DEF Cha!W, Uint32

(* s is a sequence of n words *)
HasWords(s, n) == s \in Seq(Uint32) /\ Len(s) = n

LEMMA JoinedWords ==
  ASSUME NEW p, NEW q, NEW m \in Nat, NEW n \in Nat,
         HasWords(p, m), HasWords(q, n)
  PROVE  HasWords(p \o q, m + n)
BY DEF HasWords

LEMMA StateOfWords ==
  ASSUME NEW n \in Nat, NEW p, HasWords(p, n)
  PROVE  p \in [1..n -> Uint32]
BY DEF HasWords

LEMMA InitialWords ==
  ASSUME NEW key, NEW nonce, NEW counter
  PROVE  Cha!InitialState(key, nonce, counter) \in States
<1> DEFINE keyWords == [n \in 1..8 |-> Cha!WordAt(key, n)]
           nonceWords == [n \in 1..3 |-> Cha!WordAt(nonce, n)]
           one == <<Cha!W(0, counter)>>
           a == Cha!Sigma \o keyWords
           b == a \o one
           c == b \o nonceWords
<1>1. \A bytes, n : Cha!WordAt(bytes, n) \in Uint32
  BY LiteralIs DEF Cha!WordAt, Cha!load32_le, Cha!BigEndian
<1>2. HasWords(keyWords, 8)
  BY <1>1 DEF HasWords
<1>3. HasWords(nonceWords, 3)
  BY <1>1 DEF HasWords
<1>4. HasWords(one, 1)
  BY LiteralIs DEF HasWords
<1>5. HasWords(Cha!Sigma, 4)
  BY LiteralIs DEF Cha!Sigma, HasWords
<1>6. Cha!InitialState(key, nonce, counter) = c
  BY DEF Cha!InitialState
<1> HIDE DEF keyWords, nonceWords, one
<1>7. HasWords(a, 12)
  <2>1. HasWords(a, 4 + 8)
    BY <1>2, <1>5, JoinedWords
  <2> QED
    BY <2>1
<1> HIDE DEF a
<1>8. HasWords(b, 13)
  <2>1. HasWords(b, 12 + 1)
    BY <1>4, <1>7, JoinedWords
  <2> QED
    BY <2>1
<1> HIDE DEF b
<1>9. HasWords(c, 16)
  <2>1. HasWords(c, 13 + 3)
    BY <1>3, <1>8, JoinedWords
  <2> QED
    BY <2>1
<1> HIDE DEF c
<1> QED
  BY <1>6, <1>9, StateOfWords DEF States

Mixing == state \in States /\ ws \in States /\ quarter \in Nat

LEMMA MixingInit == ProgramsInit => Mixing
<1> SUFFICES ASSUME ProgramsInit PROVE Mixing
  OBVIOUS
<1>1. PICK x : Cha!Start(x)
  BY DEF ProgramsInit
<1> QED
  BY <1>1, InitialWords DEF Cha!Start, Mixing

(* The only 16 words that this quarter round turns into the new ones are   *)
(* those that were there.                                                  *)
OneBefore == \A s \in States : Rounded(s, quarter) = ws' <=> s = ws

LEMMA MixingStep ==
  ASSUME Mixing, Cha!Next \/ UNCHANGED chaVars
  PROVE  Mixing' /\ (quarter' # quarter => OneBefore)
<1>1. CASE Cha!QuarterRound
  <2>1. ws' = Rounded(ws, quarter) /\ UNCHANGED state /\ quarter' = quarter + 1
    BY <1>1 DEF Cha!QuarterRound, Rounded
  <2>2. ws' \in States
    BY <2>1, RoundUndone DEF Mixing
  <2>3. ASSUME NEW s \in States PROVE Rounded(s, quarter) = ws' <=> s = ws
    BY <2>1, RoundUndone DEF Mixing
  <2> QED
    BY <2>1, <2>2, <2>3 DEF Mixing, OneBefore
<1>2. CASE Cha!FeedForward \/ UNCHANGED chaVars
  BY <1>2 DEF Cha!FeedForward, chaVars, Mixing
<1> QED
  BY <1>1, <1>2 DEF Cha!Next

(***************************************************************************)
(* chacha20.c: its additions, XORs and rotations mix the 16 words of the   *)
(* state and lose nothing.  From what a quarter round leaves (lines 19-24, *)
(* 44-55), what was there before can be told, so that two states that      *)
(* differ at first still do after the last round (line 55).                *)
(***************************************************************************)
THEOREM RoundsLoseNothing ==
  ProgramsSpec => /\ [](state \in States /\ ws \in States)
                  /\ [][quarter' # quarter => OneBefore]_chaVars
<1>1. [ProgramsNext \/ ProgramsTerminated]_programsVars
        => Cha!Next \/ UNCHANGED chaVars
  BY DEF ProgramsNext, ProgramsTerminated, programsVars, SemStep, Frame
<1>2. Mixing /\ [ProgramsNext \/ ProgramsTerminated]_programsVars
        => Mixing' /\ [quarter' # quarter => OneBefore]_chaVars
  BY <1>1, MixingStep
<1>3. Mixing => state \in States /\ ws \in States
  BY DEF Mixing
<1> QED
  BY MixingInit, <1>2, <1>3, PTL DEF ProgramsSpec
=============================================================================
