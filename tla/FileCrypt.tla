------------------------------ MODULE FileCrypt ------------------------------
(***************************************************************************)
(* file_crypt ("crypto and auth"): runs of the program, one after another, *)
(* over the files it reads and writes.  A run checks its arguments, opens  *)
(* its input, then its output, and XORs the one into the other block by    *)
(* block with a ChaCha20 keystream.                                        *)
(*                                                                         *)
(* A byte is a pair <<datum, masks>>: what it was before any XOR, and the  *)
(* set of keystream bytes XORed into it so far, each named by its key,     *)
(* nonce, block counter and place in the block.  XORing the same keystream *)
(* byte twice cancels out.  chacha20_block and sha256 are not computed.    *)
(*                                                                         *)
(* Any file may be the input, the run's own output file too: main compares *)
(* no names.  fopen "wb" then empties the file that is being read, and the *)
(* run goes on with what stdio has read ahead.                             *)
(***************************************************************************)
EXTENDS Integers, Sequences, FiniteSets

CONSTANTS
  Data,             \* what a byte may be before any XOR
  Plain,            \* contents of the user's file
  Passphrases,      \* encryption keys as typed: sequences of characters
  KEY_SIZE, MIN_KEY_CHARS,
  Nonces,           \* what /dev/urandom may return: sequences of bytes
  NONCE_SIZE,
  CHACHA_BLOCK,
  CounterValues,    \* how many values the block counter (uint32_t) has
  BUFFER,           \* the size of a stdio stream's buffer
  MaxRuns           \* bound: runs of the program

(* bytes into which nothing has been XORed *)
Raw == {<<d, {}>> : d \in Data}

ASSUME FileCryptAssumption ==
  /\ KEY_SIZE \in Nat \ {0} /\ MIN_KEY_CHARS \in Nat \ {0}
  /\ CHACHA_BLOCK \in Nat \ {0} /\ CounterValues \in Nat \ {0}
  /\ MaxRuns \in Nat /\ NONCE_SIZE \in Nat \ {0}
  /\ Plain \in Seq(Raw)
  /\ Nonces \subseteq [1..NONCE_SIZE -> Raw] /\ Nonces # {}
  /\ BUFFER \in Nat /\ BUFFER >= NONCE_SIZE /\ BUFFER >= CHACHA_BLOCK

Paths == {"plain", "encrypted_output.dat", "decrypted_output.dat"}

VARIABLES
  exists,    \* the files that exist
  disk,      \* what is on the disk, per file
  runs,      \* number of runs started
  pc,        \* where the current run is
  flag,      \* its action: 0 encrypts, 1 decrypts
  input,     \* its input file
  key,       \* its derived key
  nonce,     \* its nonce
  given,     \* history: what its input held when it was opened
  pos,       \* bytes of the input read so far
  ahead,     \* bytes in the input stream's buffer, not yet read
  counter,   \* its block counter
  held,      \* bytes in the output stream's buffer, not yet on the disk
  status,    \* its exit status
  closed,    \* whether fclose(fout) succeeded
  sealed,    \* what the intact encrypted file was made from, if it was
  displaced  \* history: the files whose bytes have moved by NONCE_SIZE

files == <<exists, disk>>
reading == <<given, pos, ahead>>
args == <<flag, input, key>>
past == <<sealed, displaced>>
vars == <<files, runs, pc, args, nonce, reading, counter, held, status, closed,
          past>>

-----------------------------------------------------------------------------

(* derive_key: the characters of the passphrase, over and over *)
DeriveKey(p) == [k \in 1..KEY_SIZE |-> p[((k - 1) % Len(p)) + 1]]

(* XOR with one keystream byte *)
Xor(byte, stream) ==
  <<byte[1], (byte[2] \ {stream}) \cup ({stream} \ byte[2])>>

(* one block of the input, masked with the keystream for counter ctr *)
XorBlock(block, ctr) ==
  [k \in 1..Len(block) |-> Xor(block[k], <<key, nonce, ctr, k>>)]

out == IF flag = 0 THEN "encrypted_output.dat" ELSE "decrypted_output.dat"

FirstOf(s, n) == SubSeq(s, 1, IF n < Len(s) THEN n ELSE Len(s))

AfterFirst(s, n) == SubSeq(s, n + 1, Len(s))

(***************************************************************************)
(* fread of at most n bytes: what the stream has in its buffer and, if     *)
(* that is too little, another buffer full of the file as it now is.       *)
(***************************************************************************)
Fetched(n) ==
  IF Len(ahead) >= n THEN ahead
  ELSE ahead \o FirstOf(AfterFirst(disk[input], pos + Len(ahead)), BUFFER)

None == [key |-> <<>>, content |-> <<>>]

Init ==
  /\ exists = {"plain"}
  /\ disk = [p \in Paths |-> IF p = "plain" THEN Plain ELSE <<>>]
  /\ runs = 0 /\ pc = "exited"
  /\ flag = 0 /\ input = "plain" /\ key = <<>>
  /\ nonce = <<>> /\ given = <<>> /\ pos = 0 /\ ahead = <<>>
  /\ counter = 0 /\ held = <<>> /\ status = 1 /\ closed = FALSE
  /\ sealed = None /\ displaced = {}

-----------------------------------------------------------------------------
(* main *)

(* a key that is too short, a bad flag, a wrong passcode: exit status 1 *)
Refuse ==
  /\ pc = "exited" /\ runs < MaxRuns
  /\ runs' = runs + 1
  /\ status' = 1 /\ closed' = FALSE
  /\ UNCHANGED <<files, pc, args, nonce, reading, counter, held, past>>

Start ==
  /\ pc = "exited" /\ runs < MaxRuns
  /\ runs' = runs + 1
  /\ \E p \in Passphrases :
       Len(p) >= MIN_KEY_CHARS /\ key' = DeriveKey(p)
  /\ flag' \in {0, 1}
  /\ input' \in Paths
  /\ pc' = "open_in"
  /\ nonce' = <<>> /\ given' = <<>> /\ pos' = 0 /\ ahead' = <<>>
  /\ counter' = 0 /\ held' = <<>> /\ status' = 1 /\ closed' = FALSE
  /\ UNCHANGED <<files, past>>

Goto(from, to) == pc = from /\ pc' = to

(* return 0 from encrypt_file or decrypt_file before the output is opened *)
FailTo(from) ==
  /\ Goto(from, "exited")
  /\ UNCHANGED <<files, runs, args, nonce, reading, counter, held, status,
                 closed, past>>

(* fill_random fails, or fopen of the input does *)
OpenInFails == FailTo("open_in")

(* fill_random (encryption only), then fopen of the input *)
OpenIn ==
  /\ Goto("open_in", IF flag = 0 THEN "open_out" ELSE "read_nonce")
  /\ input \in exists
  /\ IF flag = 0 THEN nonce' \in Nonces ELSE nonce' = nonce
  /\ given' = disk[input]
  /\ UNCHANGED <<files, runs, args, pos, ahead, counter, held, status, closed,
                 past>>

(* mutant of DataStart: the header is read again as data *)
DataRewound == 0

DataStart == NONCE_SIZE

(* mutant of HeaderPresent: the result of fread is not looked at *)
HeaderAssumed == TRUE

HeaderPresent == Len(Fetched(NONCE_SIZE)) >= NONCE_SIZE

(* A header that bytes have been XORed into is a nonce like any other, and *)
(* which one is not computed.                                              *)
NoncesOf(header) ==
  IF header \in [1..NONCE_SIZE -> Raw] THEN {header} ELSE Nonces

(* decryption: the header of the input *)
ReadNonce ==
  /\ Goto("read_nonce", "open_out") /\ HeaderPresent
  /\ nonce' \in NoncesOf(FirstOf(Fetched(NONCE_SIZE), NONCE_SIZE))
  /\ ahead' = AfterFirst(Fetched(NONCE_SIZE), DataStart)
  /\ pos' = DataStart
  /\ UNCHANGED <<files, runs, args, given, counter, held, status, closed, past>>

(* input too short to contain a nonce, or unreadable *)
ReadNonceFails == FailTo("read_nonce")

OpenOutFails == FailTo("open_out")

(***************************************************************************)
(* fopen(out_path, "wb") creates or empties the output.  What decrypts its *)
(* own output takes a header off a file that has none.                     *)
(***************************************************************************)
Displaces ==
  \/ flag = 1 /\ input = out
  \/ input # out /\ input \in displaced

OpenOut ==
  /\ Goto("open_out", IF flag = 0 THEN "header" ELSE "xor")
  /\ exists' = exists \cup {out}
  /\ disk' = [disk EXCEPT ![out] = <<>>]
  /\ sealed' = IF flag = 0 THEN None ELSE sealed
  /\ displaced' = IF Displaces THEN displaced \cup {out} ELSE displaced \ {out}
  /\ UNCHANGED <<runs, args, nonce, reading, counter, held, status, closed>>

(***************************************************************************)
(* fwrite: the bytes go to the stream's buffer.  When it has no room for   *)
(* them, it is filled and written to the disk first.                       *)
(***************************************************************************)
Write(bytes) ==
  LET all == held \o bytes
  IN  \/ Len(all) <= BUFFER /\ held' = all /\ UNCHANGED disk
      \/ /\ Len(all) > BUFFER
         /\ disk' = [disk EXCEPT ![out] = @ \o FirstOf(all, BUFFER)]
         /\ held' = AfterFirst(all, BUFFER)

(* The disk is full and fwrite falls short: some of the bytes get there,    *)
(* now or when fclose tries once more.                                     *)
WriteFails(bytes) ==
  /\ held' = <<>>
  /\ \E n \in 0..Len(held \o bytes) :
       disk' = [disk EXCEPT ![out] = @ \o FirstOf(held \o bytes, n)]

Header ==
  /\ Goto("header", "xor")
  /\ Write(nonce)
  /\ UNCHANGED <<exists, runs, args, nonce, reading, counter, status, closed,
                 past>>

HeaderFails ==
  /\ Goto("header", "close")
  /\ WriteFails(nonce)
  /\ UNCHANGED <<exists, runs, args, nonce, reading, counter, status, closed,
                 past>>

(* chacha20_xor_stream: one round of its loop *)
Block == FirstOf(Fetched(CHACHA_BLOCK), CHACHA_BLOCK)

ReadBlock ==
  /\ Block # <<>>
  /\ pos' = pos + Len(Block)
  /\ ahead' = AfterFirst(Fetched(CHACHA_BLOCK), Len(Block))
  /\ UNCHANGED given

(* mutant of NextCounter: the counter is never advanced *)
NextCounterStuck == counter

NextCounter == (counter + 1) % CounterValues

XorNext ==
  /\ Goto("xor", "xor")
  /\ ReadBlock
  /\ Write(XorBlock(Block, counter))
  /\ counter' = NextCounter
  /\ UNCHANGED <<exists, runs, args, nonce, status, closed, past>>

XorFails ==
  /\ Goto("xor", "close")
  /\ ReadBlock
  /\ WriteFails(XorBlock(Block, counter))
  /\ UNCHANGED <<exists, runs, args, nonce, counter, status, closed, past>>

(* fread returns 0 because of an error: return 0, so the status stays 1 *)
ReadFails ==
  /\ Goto("xor", "close")
  /\ UNCHANGED <<files, runs, args, nonce, reading, counter, held, status,
                 closed, past>>

(* mutant of AtEnd: a short block is taken for the end of the input *)
AtEndShort == Len(Block) < CHACHA_BLOCK

AtEnd == Block = <<>>

EndOfInput ==
  /\ Goto("xor", "close") /\ AtEnd
  /\ status' = 0
  /\ UNCHANGED <<files, runs, args, nonce, reading, counter, held, closed, past>>

(***************************************************************************)
(* fclose(fout) writes out what is held, and its result is ignored; then   *)
(* main returns ok ? 0 : 1.                                                *)
(***************************************************************************)
CloseOutput ==
  \/ /\ disk' = [disk EXCEPT ![out] = @ \o held]
     /\ closed' = TRUE
  \/ /\ \E n \in 0..(Len(held) - 1) :
          disk' = [disk EXCEPT ![out] = @ \o FirstOf(held, n)]
     /\ closed' = FALSE

Close ==
  /\ Goto("close", "exited")
  /\ CloseOutput
  /\ held' = <<>>
  /\ sealed' = IF flag = 0 /\ status = 0 /\ closed' /\ input # out
               THEN [key |-> key, content |-> given] ELSE sealed
  /\ UNCHANGED <<exists, runs, args, nonce, reading, counter, status, displaced>>

(* the process is killed: what is held is lost *)
Kill ==
  /\ pc # "exited"
  /\ pc' = "exited" /\ status' = 1 /\ held' = <<>>
  /\ UNCHANGED <<files, runs, args, nonce, reading, counter, closed, past>>

Terminated == pc = "exited" /\ runs = MaxRuns /\ UNCHANGED vars

Next ==
  \/ Refuse \/ Start
  \/ OpenInFails \/ OpenIn \/ ReadNonce \/ ReadNonceFails
  \/ OpenOutFails \/ OpenOut \/ Header \/ HeaderFails
  \/ XorNext \/ XorFails \/ ReadFails \/ EndOfInput
  \/ Close \/ Kill \/ Terminated

Spec == Init /\ [][Next]_vars

-----------------------------------------------------------------------------

Statuses == {0, 1}

(* Every variable has the values its C counterpart can have. *)
TypeOK ==
  /\ exists \subseteq Paths
  /\ runs \in 0..MaxRuns
  /\ pc \in {"open_in", "read_nonce", "open_out", "header", "xor", "close",
             "exited"}
  /\ flag \in {0, 1} /\ input \in Paths
  /\ counter \in 0..(CounterValues - 1)
  /\ pos \in 0..Len(given) /\ Len(held) <= BUFFER
  /\ status \in Statuses /\ closed \in BOOLEAN /\ displaced \subseteq Paths

(***************************************************************************)
(* file_io.h "Returns 1 on success, 0 on failure", and what that is worth. *)
(* A run that exits with status 0 has made the header and every byte of    *)
(* the input, each masked with the keystream byte of its own position,     *)
(* however reads and writes were buffered.  But a run whose input is its   *)
(* own output loses all of it when it encrypts, and all beyond the first   *)
(* buffer full when it decrypts; and when fclose of the output fails, up   *)
(* to a buffer full at the end of what was made is not on the disk.        *)
(***************************************************************************)
Masked(content) ==
  [p \in 1..Len(content) |->
     Xor(content[p], <<key, nonce, ((p - 1) \div CHACHA_BLOCK) % CounterValues,
                       ((p - 1) % CHACHA_BLOCK) + 1>>)]

Readable ==
  IF input # out THEN given ELSE FirstOf(given, IF flag = 0 THEN 0 ELSE BUFFER)

Made ==
  IF flag = 0 THEN nonce \o Masked(Readable)
              ELSE Masked(AfterFirst(Readable, NONCE_SIZE))

Complete ==
  /\ TypeOK
  /\ pc = "exited" /\ status = 0 =>
       \E lost \in 0..BUFFER :
         /\ closed <=> lost = 0
         /\ lost <= Len(Made) /\ disk[out] = FirstOf(Made, Len(Made) - lost)

(***************************************************************************)
(* Decrypting the encrypted file with a passphrase that derives the same   *)
(* key gives back what was encrypted, whatever runs (failed, refused or    *)
(* killed ones included) lie between the two.                              *)
(***************************************************************************)
RoundTrip ==
  (/\ pc = "exited" /\ status = 0 /\ closed
   /\ flag = 1 /\ input = "encrypted_output.dat"
   /\ sealed # None /\ sealed.key = key)
    => disk[out] = sealed.content

(***************************************************************************)
(* No keystream byte masks two bytes of one file (a stream cipher gives    *)
(* away their XOR if it does), as long as the file has no more blocks than *)
(* the counter has values (line 44: uint32_t) and no run has taken for a   *)
(* header what was none.                                                   *)
(***************************************************************************)
Body(f) == IF f = "encrypted_output.dat" THEN Len(disk[f]) - NONCE_SIZE
                                         ELSE Len(disk[f])

KeystreamUsedOnce ==
  \A f \in Paths \ displaced :
    Body(f) <= CHACHA_BLOCK * CounterValues =>
      \A p, q \in DOMAIN disk[f] : p # q => disk[f][p][2] \cap disk[f][q][2] = {}

(***************************************************************************)
(* A run that cannot read its input, or finds it too short for a nonce,    *)
(* leaves the output of the run before it as it was.                       *)
(***************************************************************************)
OldOutputKept ==
  [][disk' # disk =>
       /\ input \in exists
       /\ flag = 1 => Len(given) >= NONCE_SIZE]_vars
=============================================================================
