------------------------------ MODULE LibShell ------------------------------
(***************************************************************************)
(* The shells of "proccsses and threads": libshell forks reader_shell,     *)
(* catalog_shell or archive_shell and waits for it; that shell forks one   *)
(* child per command and waits for it.  All read the same terminal.        *)
(*                                                                         *)
(* libshell and reader_shell take a line at a time (fgets).  catalog_shell *)
(* and archive_shell take a word at a time (scanf): what they do not use   *)
(* of a line stays in their stdin buffer (typed) for the next command.     *)
(* catalog_shell reads a command's arguments from the rest of the line     *)
(* (fgets, sscanf), archive_shell from the next words, on whatever line.   *)
(*                                                                         *)
(* A program started by run may do anything to the files and need not end. *)
(* A merge of a file into itself reads what it writes, as long as there is *)
(* room.  Lines longer than the buffers are outside the model.             *)
(***************************************************************************)
EXTENDS Integers, Sequences

CONSTANTS
  Lines,      \* what the user may type: nonempty sequences of words
  Names,      \* names of files and directories
  Octal,      \* words that start with octal digits |-> the number read
  Chunks,     \* what read and write move at a time
  Contents,   \* the files at the start: name |-> sequence of chunks
  Anything,   \* what a program may leave under a name
  FileSize,   \* bound: chunks a file can grow to before write fails
  MaxLines    \* bound: lines typed

ASSUME LibShellAssumption ==
  /\ DOMAIN Contents \subseteq Names
  /\ \A n \in DOMAIN Contents : Contents[n] \in Seq(Chunks)
  /\ Anything \subseteq [type : {"none", "file", "dir"},
                         content : Seq(Chunks), mode : Int]
  /\ \A w \in DOMAIN Octal : Octal[w] \in Int
  /\ FileSize \in Nat /\ MaxLines \in Nat
  /\ <<>> \notin Lines

VARIABLES
  lines,     \* number of lines typed
  lib,       \* libshell
  sub,       \* its child, a shell
  kind,      \* which shell that is
  typed,     \* words in that shell's stdin buffer
  cmd,       \* the shell's child
  job,       \* the command that child executes: its words
  copied,    \* chunks merge has copied
  files,     \* per name: what is there, its content and its mode
  before     \* files when the job was forked

shells == <<lib, sub, kind, typed>>
jobVars == <<cmd, job, copied, before>>
vars == <<lines, shells, jobVars, files>>

Kinds == {"reader", "catalog", "archive"}

(* The commands of each shell, with the number of their arguments. *)
Arity == [date |-> 0, whoami |-> 0, pwd |-> 0, uptime |-> 0,
          find |-> 2, ls |-> 1, newcat |-> 1, run |-> 2,
          merge |-> 2, count |-> 1, remove |-> 1, protect |-> 2]

Commands == [reader |-> {"date", "whoami", "pwd", "uptime"},
             catalog |-> {"find", "ls", "newcat", "run"},
             archive |-> {"merge", "count", "remove", "protect"}]

(* strtol(mode, NULL, 8): no digits, no error, zero *)
ParseMode(word) == IF word \in DOMAIN Octal THEN Octal[word] ELSE 0

Entry(type, content, mode) == [type |-> type, content |-> content, mode |-> mode]

Nothing == Entry("none", <<>>, 0)
NewDirectory == Entry("dir", <<>>, 493)            \* 0755
OldFile(content) == Entry("file", content, 420)    \* 0644

Init ==
  /\ lines = 0
  /\ lib = "prompt" /\ sub = "none" /\ kind = "reader" /\ typed = <<>>
  /\ cmd = "none" /\ job = <<>> /\ copied = 0
  /\ files = [n \in Names |-> IF n \in DOMAIN Contents
                              THEN OldFile(Contents[n]) ELSE Nothing]
  /\ before = files

Type(line) == line \in Lines /\ lines < MaxLines /\ lines' = lines + 1

-----------------------------------------------------------------------------
(* libshell *)

(* the name of a shell: fork, and wait for it *)
EnterShell ==
  /\ lib = "prompt"
  /\ \E k \in Kinds : Type(<<k>>) /\ kind' = k
  /\ lib' = "waiting" /\ sub' = "starting" /\ typed' = <<>>
  /\ UNCHANGED <<jobVars, files>>

(* fork fails, or the line is not a command: prompt again *)
LibPromptAgain ==
  /\ lib = "prompt"
  /\ \E line \in Lines \ {<<"exit">>} : Type(line)
  /\ UNCHANGED <<shells, jobVars, files>>

(* "exit", or end of input *)
LibExit ==
  /\ lib = "prompt"
  /\ lib' = "exited"
  /\ UNCHANGED <<lines, sub, kind, typed, jobVars, files>>

(* wait(NULL) *)
LibWait ==
  /\ lib = "waiting" /\ sub = "zombie"
  /\ lib' = "prompt" /\ sub' = "none"
  /\ UNCHANGED <<lines, kind, typed, jobVars, files>>

-----------------------------------------------------------------------------
(* the second-level shells *)

(* execl succeeds, or fails and the child exits *)
StartShell ==
  /\ sub = "starting"
  /\ sub' \in {"prompt", "zombie"}
  /\ UNCHANGED <<lines, lib, kind, typed, jobVars, files>>

(* what scanf finds in the stdin buffer of the catalog or the archive *)
Command == IF typed = <<>> THEN "none" ELSE Head(typed)

Known == Command \in Commands[kind]

Arguments ==
  IF Known THEN SubSeq(typed, 2, Arity[Command] + 1) ELSE <<>>

AllArguments == Known => Len(typed) > Arity[Command]

(* fgets reads a line; scanf does if it finds nothing, or too few words *)
NeedsInput ==
  /\ sub = "prompt"
  /\ \/ typed = <<>>
     \/ kind = "archive" /\ ~AllArguments

(* the shell exits, and its stdin buffer with it *)
Leave ==
  /\ sub' = "zombie" /\ typed' = <<>>
  /\ UNCHANGED <<lines, lib, kind, jobVars, files>>

(* the line "Esc" in the reader, or end of input in any shell *)
EndOfInput == NeedsInput /\ Leave

(* mutant of Waiting: the shell does not wait for its child *)
NotWaiting == "prompt"

Waiting == "waiting"

(* fork a child for the command, and wait for it *)
Spawn(words) ==
  /\ sub' = Waiting
  /\ cmd' = "running" /\ job' = words /\ copied' = 0 /\ before' = files
  /\ UNCHANGED <<lib, kind, files>>

(* fork fails, or the command is refused: prompt again *)
PromptAgain == UNCHANGED <<lib, sub, kind, jobVars, files>>

ReaderLine ==
  /\ sub = "prompt" /\ kind = "reader"
  /\ \E line \in Lines \ {<<"Esc">>} :
       /\ Type(line)
       /\ typed' = typed
       /\ \/ /\ line \in {<<c>> : c \in Commands.reader}
             /\ Spawn(line)
          \/ PromptAgain

(* another line for scanf *)
TypeMore ==
  /\ NeedsInput /\ kind # "reader"
  /\ \E line \in Lines : Type(line) /\ typed' = typed \o line
  /\ UNCHANGED <<lib, sub, kind, jobVars, files>>

(* the word "Esc" in the catalog or the archive *)
Esc == sub = "prompt" /\ kind # "reader" /\ Command = "Esc" /\ Leave

(* "Not Supported": only the word is used up *)
NotSupported ==
  /\ sub = "prompt" /\ kind # "reader" /\ typed # <<>>
  /\ ~Known /\ Command # "Esc"
  /\ typed' = Tail(typed)
  /\ UNCHANGED <<lines, lib, sub, kind, jobVars, files>>

CatalogCommand ==
  /\ sub = "prompt" /\ kind = "catalog" /\ Known
  /\ typed' = <<>>
  /\ UNCHANGED lines
  /\ \/ /\ AllArguments
        /\ Command = "ls" => typed[2] = "-l"
        /\ Spawn(<<Command>> \o Arguments)
     \/ PromptAgain

ArchiveCommand ==
  /\ sub = "prompt" /\ kind = "archive" /\ Known /\ AllArguments
  /\ typed' = SubSeq(typed, Arity[Command] + 2, Len(typed))
  /\ UNCHANGED lines
  /\ \/ /\ Command = "protect" => ParseMode(typed[2]) \in 0..511
        /\ Spawn(<<Command>> \o Arguments)
     \/ PromptAgain

(* wait(NULL) *)
Wait ==
  /\ sub = "waiting" /\ cmd = "zombie"
  /\ sub' = "prompt" /\ cmd' = "none"
  /\ UNCHANGED <<lines, lib, kind, typed, job, copied, before, files>>

-----------------------------------------------------------------------------
(* the commands' processes *)

Exit == cmd' = "zombie" /\ UNCHANGED <<lines, shells, job, copied, before>>

Change(n, entry) == Exit /\ files' = [files EXCEPT ![n] = entry]

(* mutant of NoEffect: the child of a failed exec does not exit *)
NoEffectStays == cmd = "running" /\ UNCHANGED vars

(* a program that only prints, or a command that fails *)
NoEffect == cmd = "running" /\ Exit /\ UNCHANGED files

(* the program run starts does as it likes with the files, one at a time *)
RunProgram ==
  /\ cmd = "running" /\ job[1] = "run"
  /\ \E n \in Names, entry \in Anything : files' = [files EXCEPT ![n] = entry]
  /\ UNCHANGED <<lines, shells, jobVars>>

NewCat ==
  /\ cmd = "running" /\ job[1] = "newcat"
  /\ job[2] \in Names /\ files[job[2]].type = "none"
  /\ Change(job[2], NewDirectory)

Remove ==
  /\ cmd = "running" /\ job[1] = "remove"
  /\ job[2] \in Names /\ files[job[2]].type = "file"
  /\ Change(job[2], Nothing)

Protect ==
  /\ cmd = "running" /\ job[1] = "protect"
  /\ job[3] \in Names /\ files[job[3]].type # "none"
  /\ Change(job[3], [files[job[3]] EXCEPT !.mode = ParseMode(job[2])])

src == job[2]
dst == job[3]

(* open both files *)
OpenMerge ==
  /\ cmd = "running" /\ job[1] = "merge"
  /\ {src, dst} \subseteq {n \in Names : files[n].type = "file"}
  /\ cmd' = "copying"
  /\ UNCHANGED <<lines, shells, job, copied, before, files>>

(* mutant of Appended: opened without O_APPEND, so that it overwrites *)
Overwritten(content, n, chunk) ==
  SubSeq(content, 1, n) \o <<chunk>> \o SubSeq(content, n + 2, Len(content))

(* the content of dst after writing the n-th chunk (from 0) *)
Appended(content, n, chunk) == Append(content, chunk)

(* read a chunk and append it *)
CopyChunk ==
  /\ cmd = "copying" /\ copied < Len(files[src].content)
  /\ Len(files[dst].content) < FileSize
  /\ copied' = copied + 1
  /\ files' = [files EXCEPT ![dst].content =
                 Appended(@, copied, files[src].content[copied + 1])]
  /\ UNCHANGED <<lines, shells, cmd, job, before>>

(* the source ends, or a read or write fails *)
EndMerge == cmd = "copying" /\ Exit /\ UNCHANGED files

-----------------------------------------------------------------------------

LibStep == EnterShell \/ LibPromptAgain \/ LibExit \/ LibWait

ShellStep ==
  \/ StartShell \/ EndOfInput \/ ReaderLine \/ TypeMore \/ Esc
  \/ NotSupported \/ CatalogCommand \/ ArchiveCommand \/ Wait

CommandStep ==
  \/ NoEffect \/ RunProgram \/ NewCat \/ Remove \/ Protect
  \/ OpenMerge \/ CopyChunk \/ EndMerge

Terminated == lib = "exited" /\ UNCHANGED vars

Next == LibStep \/ ShellStep \/ CommandStep \/ Terminated

Spec == Init /\ [][Next]_vars

(***************************************************************************)
(* Processes run, and the programs a shell executes end, except one that   *)
(* run starts.  Whether and what the user types is the user's affair.      *)
(***************************************************************************)
Fairness ==
  /\ WF_vars(CommandStep /\ job[1] # "run") /\ WF_vars(Wait)
  /\ WF_vars(LibWait) /\ WF_vars(StartShell)

FairSpec == Spec /\ Fairness

-----------------------------------------------------------------------------

(* Every variable has the values its C counterpart can have. *)
TypeOK ==
  /\ lines \in 0..MaxLines
  /\ lib \in {"prompt", "waiting", "exited"}
  /\ sub \in {"none", "starting", "prompt", "waiting", "zombie"}
  /\ kind \in Kinds
  /\ cmd \in {"none", "running", "copying", "zombie"}
  /\ DOMAIN files = Names /\ DOMAIN before = Names

(***************************************************************************)
(* README.md "parent blocks until child terminates (no zombie processes)": *)
(* one process at a time reads the terminal or works, and a shell that     *)
(* prompts or exits leaves no child behind, alive or unreaped, also after  *)
(* failing forks and execs.                                                *)
(***************************************************************************)
OneInForeground ==
  /\ TypeOK
  /\ lib = "waiting" <=> sub # "none"
  /\ sub = "waiting" <=> cmd # "none"

(***************************************************************************)
(* While a command's process exists, and when it has ended, the files are  *)
(* as they were when it was forked, except that the one it names may have  *)
(* changed as the command says.  A merge has appended the first chunks of  *)
(* the source and no others; of the source as it is now, so that a file    *)
(* merged into itself repeats its old content.  Nothing is claimed of run. *)
(***************************************************************************)
Outcomes(n) ==
  CASE job[1] = "newcat" /\ n = job[2] -> {before[n], NewDirectory}
    [] job[1] = "remove" /\ n = job[2] -> {before[n], Nothing}
    [] job[1] = "protect" /\ n = job[3] ->
         {before[n], [before[n] EXCEPT !.mode = ParseMode(job[2])]}
    [] OTHER -> {before[n]}

(* a file to which k chunks of another one have been appended *)
Extended(entry, content, k) ==
  [entry EXCEPT !.content = @ \o SubSeq(content, 1, k)]

Merged ==
  /\ {src, dst} \subseteq Names /\ before[src].content # <<>>
  /\ \E k \in 1..Len(files[src].content) :
       files[dst] = Extended(before[dst], files[src].content, k)

EffectAsNamed ==
  cmd # "none" /\ job[1] # "run" =>
    \A n \in Names :
      files[n] \in Outcomes(n) \/ (job[1] = "merge" /\ n = dst /\ Merged)

(***************************************************************************)
(* Once a command is forked, its shell prompts again: unless the program   *)
(* that run started goes on, or a file is merged into itself, which ends   *)
(* only when nothing more can be written.                                  *)
(***************************************************************************)
MayGoOn ==
  \/ cmd = "running" /\ job[1] = "run"
  \/ cmd = "copying" /\ src = dst

EveryCommandReturns == sub = "waiting" ~> (sub = "prompt" \/ MayGoOn)
=============================================================================
