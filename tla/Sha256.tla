-------------------------------- MODULE Sha256 --------------------------------
(***************************************************************************)
(* verify_passcode ("crypto and auth/auth.c") and the hash it computes     *)
(* (sha256.c): sha256_init, sha256_update one turn of its loop at a time,  *)
(* sha256_final in two steps, sha256_transform one round at a time.  Bytes *)
(* are numbers.  Candidates are command-line arguments, so that four of    *)
(* the eight bytes of the length field are always zero.                    *)
(***************************************************************************)
EXTENDS Words

CONSTANTS
  Candidates,   \* what may be typed: sequences of bytes
  Passcode,     \* "Cyber1234"
  Examples      \* of FIPS 180-4: records of message and digest

VARIABLES
  candidate,
  taken,        \* bytes of the candidate read so far
  buffer, hash, \* of sha256_ctx
  phase,        \* of the call: "update", "pad", "length", "compare" or "done"
  w, v, round,  \* of sha256_transform: 64 rounds are done when it returns
  ok,           \* result of verify_passcode
  compressed    \* history: the blocks given to sha256_transform

context == <<candidate, taken, buffer, hash>>
rounds == <<w, v, round>>
vars == <<context, phase, rounds, ok, compressed>>

BLOCK == 64

SHA256_K == <<
  W(\h428a,\h2f98), W(\h7137,\h4491), W(\hb5c0,\hfbcf), W(\he9b5,\hdba5), W(\h3956,\hc25b),
  W(\h59f1,\h11f1), W(\h923f,\h82a4), W(\hab1c,\h5ed5), W(\hd807,\haa98), W(\h1283,\h5b01),
  W(\h2431,\h85be), W(\h550c,\h7dc3), W(\h72be,\h5d74), W(\h80de,\hb1fe), W(\h9bdc,\h06a7),
  W(\hc19b,\hf174), W(\he49b,\h69c1), W(\hefbe,\h4786), W(\h0fc1,\h9dc6), W(\h240c,\ha1cc),
  W(\h2de9,\h2c6f), W(\h4a74,\h84aa), W(\h5cb0,\ha9dc), W(\h76f9,\h88da), W(\h983e,\h5152),
  W(\ha831,\hc66d), W(\hb003,\h27c8), W(\hbf59,\h7fc7), W(\hc6e0,\h0bf3), W(\hd5a7,\h9147),
  W(\h06ca,\h6351), W(\h1429,\h2967), W(\h27b7,\h0a85), W(\h2e1b,\h2138), W(\h4d2c,\h6dfc),
  W(\h5338,\h0d13), W(\h650a,\h7354), W(\h766a,\h0abb), W(\h81c2,\hc92e), W(\h9272,\h2c85),
  W(\ha2bf,\he8a1), W(\ha81a,\h664b), W(\hc24b,\h8b70), W(\hc76c,\h51a3), W(\hd192,\he819),
  W(\hd699,\h0624), W(\hf40e,\h3585), W(\h106a,\ha070), W(\h19a4,\hc116), W(\h1e37,\h6c08),
  W(\h2748,\h774c), W(\h34b0,\hbcb5), W(\h391c,\h0cb3), W(\h4ed8,\haa4a), W(\h5b9c,\hca4f),
  W(\h682e,\h6ff3), W(\h748f,\h82ee), W(\h78a5,\h636f), W(\h84c8,\h7814), W(\h8cc7,\h0208),
  W(\h90be,\hfffa), W(\ha450,\h6ceb), W(\hbef9,\ha3f7), W(\hc671,\h78f2)>>

InitialHash == <<
  W(\h6a09,\he667), W(\hbb67,\hae85), W(\h3c6e,\hf372), W(\ha54f,\hf53a),
  W(\h510e,\h527f), W(\h9b05,\h688c), W(\h1f83,\hd9ab), W(\h5be0,\hcd19)>>

PASSCODE_DIGEST == <<
  \h99, \h4e, \h11, \ha8, \h5e, \h9a, \h40, \h17, \h1f, \he0, \hc7, \h45, \hb0, \h3b, \hf4, \hca,
  \h62, \he4, \h93, \hc1, \h4d, \hc4, \h56, \h81, \ha6, \h65, \he4, \hda, \ha8, \hdb, \h55, \h5b>>

-----------------------------------------------------------------------------
(* sha256_transform *)

Transforming == round < 64

(* a full buffer is handed to sha256_transform *)
Transform(block) ==
  /\ w' = [i \in 1..16 |-> BigEndian(SubSeq(block, 4 * i - 3, 4 * i))]
  /\ v' = hash
  /\ round' = 0
  /\ compressed' = Append(compressed, block)

(* x rotated right by k and by m, and shifted or rotated by a third amount *)
Sigma(x, k, m, last) == rotr32(x, k) (+) rotr32(x, m) (+) last

(* The schedule as a window: the source computes its 64 words beforehand,  *)
(* each from the 16 before it.                                             *)
NextWord ==
  LET s0 == Sigma(w[2],   7, 18, ShiftRight(w[2], 3))
      s1 == Sigma(w[15], 17, 19, ShiftRight(w[15], 10))
  IN  Add(Add(w[1], s0), Add(w[10], s1))

(* one round on the working variables <<a, b, cc, d, e, f, g, h>> *)
Mix ==
  LET S1   == Sigma(v[5], 6, 11, rotr32(v[5], 25))
      ch   == (v[5] \cap v[6]) (+) (Complement(v[5]) \cap v[7])
      tmp1 == Add(Add(v[8], S1), Add(ch, Add(SHA256_K[round + 1], w[1])))
      S0   == Sigma(v[1], 2, 13, rotr32(v[1], 22))
      maj  == (v[1] \cap v[2]) (+) (v[1] \cap v[3]) (+) (v[2] \cap v[3])
  IN  <<Add(tmp1, Add(S0, maj)), v[1], v[2], v[3], Add(v[4], tmp1), v[5], v[6], v[7]>>

(* The last round also adds the result to the hash and empties the buffer. *)
Round ==
  /\ Transforming
  /\ v' = Mix
  /\ w' = Append(Tail(w), NextWord)
  /\ round' = round + 1
  /\ IF round' = 64
     THEN hash' = [i \in 1..8 |-> Add(hash[i], v'[i])] /\ buffer' = <<>>
     ELSE UNCHANGED <<hash, buffer>>
  /\ UNCHANGED <<candidate, taken, phase, ok, compressed>>

-----------------------------------------------------------------------------

Zeros(n) == [i \in 1..n |-> 0]

(* bit_count *)
LengthField ==
  Zeros(4) \o [i \in 1..4 |-> ((Len(candidate) * 8) \div 256^(4 - i)) % 256]

Digest == [k \in 1..32 |-> ByteAt(hash[((k - 1) \div 4) + 1], 3 - ((k - 1) % 4))]

Start(c) ==
  /\ candidate = c /\ taken = 0
  /\ buffer = <<>> /\ hash = InitialHash
  /\ phase = "update" /\ round = 64 /\ w = <<>> /\ v = <<>>
  /\ ok = FALSE /\ compressed = <<>>

(* The buffer becomes b; a full one is transformed before the call goes on. *)
Fill(b) ==
  /\ buffer' = b
  /\ IF Len(b) = BLOCK THEN Transform(b) ELSE UNCHANGED <<rounds, compressed>>
  /\ UNCHANGED <<candidate, hash, ok>>

Take == Min({BLOCK - Len(buffer), Len(candidate) - taken})

Update ==
  /\ phase = "update" /\ ~Transforming
  /\ Fill(buffer \o SubSeq(candidate, taken + 1, taken + Take))
  /\ taken' = taken + Take
  /\ phase' = IF taken' = Len(candidate) THEN "pad" ELSE "update"

(* mutant of LengthFits: a byte too strict *)
LengthFitsLess(n) == n < 56

LengthFits(n) == n <= 56

(* 0x80, and if the length no longer fits, zeros to the end of the block *)
Pad ==
  /\ phase = "pad" /\ ~Transforming
  /\ LET b == Append(buffer, 128)
     IN  Fill(IF LengthFits(Len(b)) THEN b ELSE b \o Zeros(BLOCK - Len(b)))
  /\ phase' = "length"
  /\ UNCHANGED taken

(* zeros, the length and the last transformation *)
Finish ==
  /\ phase = "length" /\ ~Transforming
  /\ Fill(buffer \o Zeros(56 - Len(buffer)) \o LengthField)
  /\ phase' = "compare"
  /\ UNCHANGED taken

(* ct_memcmp of the two digests *)
Compare ==
  /\ phase = "compare" /\ ~Transforming
  /\ ok' = (Digest = PASSCODE_DIGEST)
  /\ phase' = "done"
  /\ UNCHANGED <<context, rounds, compressed>>

Next == Round \/ Update \/ Pad \/ Finish \/ Compare

Over == phase = "done"

-----------------------------------------------------------------------------

(* FIPS 180-4, 5.1.1: the message, a 1 bit, as few zeros as make whole     *)
(* blocks with the length                                                  *)
PaddedMessage ==
  candidate \o <<128>> \o Zeros((55 - Len(candidate)) % BLOCK) \o LengthField

Blocks ==
  [k \in 1..(Len(PaddedMessage) \div BLOCK) |->
     SubSeq(PaddedMessage, BLOCK * (k - 1) + 1, BLOCK * k)]

(***************************************************************************)
(* sha256.c:2 "FIPS 180-4": whatever the length of the candidate, around   *)
(* the lengths where the bytes or the padding just fill a block in         *)
(* particular, the blocks transformed are those of the padded message, and *)
(* the standard's examples give the standard's digests.  auth.c:4: the     *)
(* program opens to "Cyber1234" and to no other candidate, so the digest   *)
(* written down in auth.c is the one this code computes.                   *)
(***************************************************************************)
OpensToThePasscode ==
  phase = "done" =>
    /\ compressed = Blocks
    /\ \A x \in Examples : x.message = candidate => Digest = x.digest
    /\ ok <=> candidate = Passcode
=============================================================================
