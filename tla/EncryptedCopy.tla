----------------------------- MODULE EncryptedCopy -----------------------------
(***************************************************************************)
(* file-encryptor/createEncryptedCopy.c: runs of the program, each copying *)
(* the source to encrypted/a.txt in chunks with a string after each chunk. *)
(* The directory is made by the run itself; the file is opened without     *)
(* O_TRUNC.  A byte is any value.                                          *)
(***************************************************************************)
EXTENDS Integers, SequencesExt

CONSTANTS
  Source,    \* contents of the source file
  Sizes,     \* values of <buffer_size>, positive: a VLA of 0 is undefined
  Strings,   \* values of <string_to_append>
  MaxRuns    \* bound: runs of the program

VARIABLES
  dir,       \* whether the directory encrypted exists
  dest,      \* contents of encrypted/a.txt, empty if it does not exist
  runs, pc,
  size, suffix, \* arguments of the current run
  pos,       \* bytes read
  rbytes,    \* the bytes in the buffer
  off,       \* offset of the output file
  intact,    \* whether wbytes = rbytes
  status,    \* exit status
  unread     \* history: a read of this run failed

arguments == <<runs, size, suffix>>
vars == <<dir, dest, pc, arguments, pos, rbytes, off, intact, status, unread>>

Init ==
  /\ dir = FALSE /\ dest = <<>>
  /\ runs = 0 /\ pc = "ended" /\ size = 1 /\ suffix = <<>>
  /\ pos = 0 /\ rbytes = <<>> /\ off = 0 /\ intact = TRUE
  /\ status = 1 /\ unread = FALSE

Start ==
  /\ pc = "ended" /\ runs < MaxRuns
  /\ runs' = runs + 1 /\ size' \in Sizes /\ suffix' \in Strings
  /\ pos' = 0 /\ rbytes' = <<>> /\ off' = 0 /\ intact' = TRUE
  /\ unread' = FALSE
  /\ \/ pc' = "mkdir" /\ status' = 0
     \/ pc' = "ended" /\ status' = 2     \* the source cannot be opened
  /\ UNCHANGED <<dir, dest>>

End(code) == pc' = "ended" /\ status' = code

(* mutant of MayCreate: the result of mkdir is not looked at *)
MayCreateAlways == TRUE

MayCreate == ~dir

(* mkdir and open(O_WRONLY | O_CREAT) *)
Create ==
  /\ pc = "mkdir"
  /\ \/ /\ MayCreate
        /\ dir' = TRUE
        /\ \/ pc' = "read" /\ UNCHANGED status
           \/ End(3)
     \/ End(1) /\ UNCHANGED dir          \* it exists, or cannot be made
  /\ UNCHANGED <<dest, arguments, pos, rbytes, off, intact, unread>>

Read ==
  /\ pc = "read"
  /\ rbytes' = SubSeq(Source, pos + 1, Min({pos + size, Len(Source)}))
  /\ pos' = pos + Len(rbytes')
  /\ IF rbytes' = <<>> THEN End(0) ELSE pc' = "write" /\ UNCHANGED status
  /\ UNCHANGED <<dir, dest, arguments, off, intact, unread>>

(* read returns -1: the loop ends like at the end of the file *)
ReadFails ==
  /\ pc = "read"
  /\ End(0) /\ unread' = TRUE
  /\ UNCHANGED <<dir, dest, arguments, pos, rbytes, off, intact>>

(* write: all of the bytes, or fewer, at the file's offset *)
Write(bytes, n) ==
  /\ dest' = SubSeq(dest, 1, off) \o SubSeq(bytes, 1, n)
             \o SubSeq(dest, off + n + 1, Len(dest))
  /\ off' = off + n

WriteChunk ==
  /\ pc = "write"
  /\ \E n \in 0..Len(rbytes) : Write(rbytes, n) /\ intact' = (n = Len(rbytes))
  /\ pc' = "append"
  /\ UNCHANGED <<dir, arguments, pos, rbytes, status, unread>>

(* The string is written after a short chunk, too. *)
WriteString ==
  /\ pc = "append"
  /\ \E n \in 0..Len(suffix) :
       /\ Write(suffix, n)
       /\ IF intact /\ n = Len(suffix) THEN pc' = "read" /\ UNCHANGED status ELSE End(4)
  /\ UNCHANGED <<dir, arguments, pos, rbytes, intact, unread>>

Next == Start \/ Create \/ Read \/ ReadFails \/ WriteChunk \/ WriteString

Over == pc = "ended" /\ runs = MaxRuns

-----------------------------------------------------------------------------

(* lines 13-17: the chunks, each with the string after it *)
Interleaved ==
  FlattenSeq([k \in 1..((Len(Source) + size - 1) \div size) |->
                SubSeq(Source, size * (k - 1) + 1, Min({size * k, Len(Source)}))
                \o suffix])

(***************************************************************************)
(* A run that ends with status 0, and could read its source, has left      *)
(* exactly the chunks and strings in encrypted/a.txt.  The file is opened  *)
(* without O_TRUNC, so this depends on mkdir: a run that finds the         *)
(* directory stops there (line 38), and what an earlier run left, complete *)
(* or not, stays.                                                          *)
(***************************************************************************)
CopyComplete ==
  pc = "ended" /\ status = 0 /\ ~unread => dest = Interleaved
=============================================================================
