--------------------------- MODULE FileCrypt_proofs ---------------------------
(***************************************************************************)
(* Theorems about FileCrypt, for every plaintext, every set of nonces and  *)
(* passphrases, and every size of block, counter and stream buffer: what a *)
(* run that reports success has written, decryption undoes encryption, no  *)
(* keystream byte is used twice in a file, and a run without usable input  *)
(* spares the old output.                                                  *)
(***************************************************************************)
EXTENDS FileCrypt, TLAPS

-----------------------------------------------------------------------------
(* Arithmetic *)

(* Division with remainder is unique, ... *)
LEMMA Division ==
  ASSUME NEW B \in Nat \ {0}, NEW x \in Nat
  PROVE  /\ x \div B \in Nat /\ x % B \in 0..(B - 1)
         /\ x = (x \div B) * B + (x % B)
OBVIOUS

LEMMA OneDivision ==
  ASSUME NEW B \in Nat \ {0}, NEW q \in Nat, NEW d \in Nat,
         NEW r \in 0..(B - 1), NEW m \in 0..(B - 1), q * B + r = d * B + m
  PROVE  q = d /\ r = m
<1>1. ASSUME NEW a \in Nat, NEW b \in Nat, a < b PROVE b * B >= a * B + B
  <2>1. b - a - 1 \in Nat /\ b = a + 1 + (b - a - 1)
    BY <1>1
  <2>2. PICK e \in Nat : b = a + 1 + e
    BY <2>1
  <2>3. b * B = a * B + B + e * B /\ e * B >= 0
    BY <2>2
  <2> QED
    BY <2>3
<1>2. ~ q < d /\ ~ d < q
  BY <1>1
<1> QED
  BY <1>2

(* ... so that quotient and remainder can be read off, ... *)
LEMMA DivisionOf ==
  ASSUME NEW B \in Nat \ {0}, NEW q \in Nat, NEW r \in 0..(B - 1)
  PROVE  (q * B + r) \div B = q /\ (q * B + r) % B = r
<1> DEFINE x == q * B + r
<1>1. x \in Nat
  OBVIOUS
<1>2. x \div B \in Nat /\ x % B \in 0..(B - 1) /\ x = (x \div B) * B + (x % B)
  BY <1>1, Division
<1> HIDE DEF x
<1>3. \A d \in Nat, m \in 0..(B - 1) : q * B + r = d * B + m => q = d /\ r = m
  BY OneDivision
<1> QED
  BY <1>2, <1>3 DEF x

(* ... and a number below B * W has a quotient below W. *)
LEMMA QuotientBelow ==
  ASSUME NEW B \in Nat \ {0}, NEW W \in Nat, NEW x \in Nat, x < B * W
  PROVE  x \div B < W
<1>1. x \div B \in Nat /\ x % B \in 0..(B - 1) /\ x = (x \div B) * B + (x % B)
  BY Division
<1>2. PICK d \in Nat : d = x \div B
  BY <1>1
<1>3. CASE d >= W
  <2>1. PICK e \in Nat : d = W + e
    <3>1. d - W \in Nat /\ d = W + (d - W)
      BY <1>3
    <3> QED
      BY <3>1
  <2>2. d * B = B * W + e * B /\ e * B >= 0
    BY <2>1
  <2> QED
    BY <1>1, <1>2, <2>2
<1> QED
  BY <1>2, <1>3

LEMMA Below == ASSUME NEW W \in Nat \ {0}, NEW x \in 0..(W - 1) PROVE x % W = x
OBVIOUS

(* A counter that wraps counts modulo the number of its values. *)
LEMMA NextIs ==
  ASSUME NEW W \in Nat \ {0}, NEW q \in Nat
  PROVE  ((q % W) + 1) % W = (q + 1) % W
<1>1. q \div W \in Nat /\ q % W \in 0..(W - 1) /\ q = (q \div W) * W + (q % W)
  BY Division
<1>2. PICK d \in Nat, m \in 0..(W - 1) : m = q % W /\ q = d * W + m
  BY <1>1
<1>3. CASE m < W - 1
  <2>1. q + 1 = d * W + (m + 1) /\ m + 1 \in 0..(W - 1)
    BY <1>2, <1>3
  <2>2. (q + 1) % W = m + 1
    BY <2>1, DivisionOf
  <2>3. (m + 1) % W = m + 1
    BY <2>1, Below
  <2> QED
    BY <1>2, <2>2, <2>3
<1>4. CASE m = W - 1
  <2>1. q + 1 = (d + 1) * W + 0 /\ d + 1 \in Nat /\ 0 \in 0..(W - 1)
    BY <1>2, <1>4
  <2>2. (q + 1) % W = 0
    <3>1. \A r \in 0..(W - 1) : ((d + 1) * W + r) % W = r
      BY <2>1, DivisionOf
    <3>2. ((d + 1) * W + 0) % W = 0
      BY <2>1, <3>1
    <3> QED
      BY <2>1, <3>2
  <2>3. (1 * W + 0) % W = 0
    BY <2>1, DivisionOf
  <2>4. m + 1 = W /\ 1 * W + 0 = W
    BY <1>4
  <2>5. ((q % W) + 1) % W = 0
    BY <1>2, <2>3, <2>4
  <2> QED
    BY <2>2, <2>5
<1> QED
  BY <1>2, <1>3, <1>4

-----------------------------------------------------------------------------
(* Bytes, files and where a keystream byte belongs *)

B == CHACHA_BLOCK
W == CounterValues
N == NONCE_SIZE

Keys == {DeriveKey(p) : p \in Passphrases}
Headers == [1..N -> Raw]
Streams == Keys \X Headers \X (0..(W - 1)) \X (1..B)
Byte == Data \X SUBSET Streams

(* The p-th byte of a body is masked with byte Place(p) of block Ctr(p). *)
Ctr(p) == ((p - 1) \div B) % W
Place(p) == ((p - 1) % B) + 1

LEMMA Sizes ==
  /\ B \in Nat \ {0} /\ W \in Nat \ {0} /\ N \in Nat
  /\ Plain \in Seq(Raw) /\ Nonces \subseteq Headers
BY FileCryptAssumption DEF B, W, N, Headers

LEMMA BufferSize == BUFFER \in Nat /\ N \in Nat \ {0} /\ N <= BUFFER /\ B <= BUFFER
BY FileCryptAssumption DEF B, N

LEMMA PlaceType ==
  ASSUME NEW p \in Nat \ {0}
  PROVE  Ctr(p) \in 0..(W - 1) /\ Place(p) \in 1..B
<1>1. p - 1 \in Nat
  OBVIOUS
<1>2. (p - 1) \div B \in Nat /\ (p - 1) % B \in 0..(B - 1)
  BY <1>1, Sizes, Division
<1>3. ((p - 1) \div B) % W \in 0..(W - 1)
  BY <1>2, Sizes, Division
<1> QED
  BY <1>2, <1>3, Sizes DEF Ctr, Place

(* Two bytes of a body not longer than the counter's range have different  *)
(* keystream bytes.                                                        *)
LEMMA PlacesDiffer ==
  ASSUME NEW p \in 1..(B * W), NEW q \in 1..(B * W),
         Ctr(p) = Ctr(q), Place(p) = Place(q)
  PROVE  p = q
<1>1. B * W \in Nat
  BY Sizes
<1>2. p - 1 \in Nat /\ p - 1 < B * W /\ q - 1 \in Nat /\ q - 1 < B * W
  BY <1>1
<1>3. /\ (p - 1) \div B \in Nat /\ (p - 1) % B \in 0..(B - 1)
      /\ p - 1 = ((p - 1) \div B) * B + ((p - 1) % B)
  BY <1>2, Sizes, Division
<1>4. /\ (q - 1) \div B \in Nat /\ (q - 1) % B \in 0..(B - 1)
      /\ q - 1 = ((q - 1) \div B) * B + ((q - 1) % B)
  BY <1>2, Sizes, Division
<1>5. (p - 1) \div B < W /\ (q - 1) \div B < W
  BY <1>2, Sizes, QuotientBelow
<1>6. /\ ((p - 1) \div B) % W = (p - 1) \div B
      /\ ((q - 1) \div B) % W = (q - 1) \div B
  <2>1. (p - 1) \div B \in 0..(W - 1) /\ (q - 1) \div B \in 0..(W - 1)
    BY <1>3, <1>4, <1>5, Sizes
  <2> QED
    BY <2>1, Sizes, Below
<1>7. (p - 1) \div B = (q - 1) \div B
  BY <1>6 DEF Ctr
<1>8. (p - 1) % B = (q - 1) % B
  BY <1>3, <1>4, Sizes DEF Place
<1>9. p - 1 = q - 1
  BY <1>3, <1>4, <1>7, <1>8
<1> QED
  BY <1>9

(* The j-th byte of the q-th block *)
LEMMA PlaceOf ==
  ASSUME NEW q \in Nat, NEW j \in 1..B
  PROVE  Ctr(q * B + j) = q % W /\ Place(q * B + j) = j
<1>1. (q * B + j) - 1 = q * B + (j - 1) /\ j - 1 \in 0..(B - 1)
  BY Sizes
<1>2. (q * B + (j - 1)) \div B = q /\ (q * B + (j - 1)) % B = j - 1
  BY <1>1, Sizes, DivisionOf
<1> QED
  BY <1>1, <1>2, Sizes DEF Ctr, Place

(* XOR changes nothing but the masks, and twice is as good as not at all. *)
LEMMA XorIs ==
  ASSUME NEW b \in Byte, NEW s \in Streams
  PROVE  /\ Xor(b, s) \in Byte
         /\ \A m \in Xor(b, s)[2] : m \in b[2] \/ m = s
         /\ Xor(Xor(b, s), s) = b
<1>1. PICK d \in Data, M \in SUBSET Streams : b = <<d, M>>
  BY DEF Byte
<1>2. b[1] = d /\ b[2] = M
  BY <1>1
<1>3. Xor(b, s) = <<d, (M \ {s}) \cup ({s} \ M)>>
  BY <1>2 DEF Xor
<1> DEFINE X == (M \ {s}) \cup ({s} \ M)
<1>4. X \in SUBSET Streams /\ \A m \in X : m \in M \/ m = s
  OBVIOUS
<1>5. (X \ {s}) \cup ({s} \ X) = M
  OBVIOUS
<1> HIDE DEF X
<1>6. Xor(b, s) = <<d, X>>
  BY <1>3 DEF X
<1>7. Xor(Xor(b, s), s) = <<d, (X \ {s}) \cup ({s} \ X)>>
  BY <1>6 DEF Xor
<1> QED
  BY <1>1, <1>2, <1>4, <1>5, <1>6, <1>7 DEF Byte

LEMMA RawIs ==
  /\ Raw \subseteq Byte
  /\ \A b \in Raw : b[2] = {}
BY DEF Raw, Byte

-----------------------------------------------------------------------------
(* Sequences *)

LEMMA ConcatIs ==
  ASSUME NEW S, NEW s \in Seq(S), NEW t \in Seq(S)
  PROVE  /\ s \o t \in Seq(S)
         /\ Len(s \o t) = Len(s) + Len(t)
         /\ \A k \in 1..Len(s) : (s \o t)[k] = s[k]
         /\ \A k \in 1..Len(t) : (s \o t)[Len(s) + k] = t[k]
OBVIOUS

LEMMA SameSequence ==
  ASSUME NEW S, NEW s \in Seq(S), NEW t \in Seq(S), Len(s) = Len(t),
         \A k \in 1..Len(s) : s[k] = t[k]
  PROVE  s = t
OBVIOUS

LEMMA ConcatAssoc ==
  ASSUME NEW S, NEW s \in Seq(S), NEW t \in Seq(S), NEW u \in Seq(S)
  PROVE  (s \o t) \o u = s \o (t \o u)
OBVIOUS

LEMMA EmptyConcat ==
  ASSUME NEW S, NEW s \in Seq(S)
  PROVE  s \o <<>> = s /\ <<>> \o s = s
OBVIOUS

LEMMA FirstOfIs ==
  ASSUME NEW S, NEW s \in Seq(S), NEW n \in Nat
  PROVE  /\ FirstOf(s, n) \in Seq(S)
         /\ Len(FirstOf(s, n)) = IF n < Len(s) THEN n ELSE Len(s)
         /\ \A k \in 1..Len(FirstOf(s, n)) : FirstOf(s, n)[k] = s[k]
BY DEF FirstOf

LEMMA SequenceOf ==
  ASSUME NEW S, NEW n \in Nat, NEW f, f = [j \in 1..n |-> f[j]],
         \A j \in 1..n : f[j] \in S
  PROVE  f \in Seq(S) /\ Len(f) = n
<1>1. f \in [1..n -> S]
  OBVIOUS
<1> QED
  BY <1>1

LEMMA AfterFirstIs ==
  ASSUME NEW S, NEW s \in Seq(S), NEW n \in Nat
  PROVE  /\ AfterFirst(s, n) \in Seq(S)
         /\ Len(AfterFirst(s, n)) = IF n < Len(s) THEN Len(s) - n ELSE 0
         /\ \A k \in 1..Len(AfterFirst(s, n)) : AfterFirst(s, n)[k] = s[n + k]
BY DEF AfterFirst

LEMMA Split ==
  ASSUME NEW S, NEW s \in Seq(S), NEW n \in 0..Len(s)
  PROVE  FirstOf(s, n) \o AfterFirst(s, n) = s
<1>0. n \in Nat /\ n <= Len(s) /\ Len(s) \in Nat
  OBVIOUS
<1>1. PICK t \in Seq(S) : t = FirstOf(s, n)
  BY <1>0, FirstOfIs
<1>2. Len(t) = n /\ \A k \in 1..n : t[k] = s[k]
  BY <1>0, <1>1, FirstOfIs
<1>3. PICK u \in Seq(S) : u = AfterFirst(s, n)
  BY <1>0, AfterFirstIs
<1>4. Len(u) = Len(s) - n /\ \A k \in 1..Len(u) : u[k] = s[n + k]
  BY <1>0, <1>3, AfterFirstIs
<1>5. /\ t \o u \in Seq(S) /\ Len(t \o u) = Len(s)
      /\ \A k \in 1..n : (t \o u)[k] = t[k]
      /\ \A k \in 1..Len(u) : (t \o u)[n + k] = u[k]
  BY <1>0, <1>2, <1>4, ConcatIs
<1>6. ASSUME NEW k \in 1..Len(s) PROVE (t \o u)[k] = s[k]
  <2>1. CASE k <= n
    BY <1>2, <1>5, <2>1
  <2>2. CASE k > n
    <3>1. k - n \in 1..Len(u) /\ n + (k - n) = k
      BY <1>0, <1>4, <2>2
    <3>2. PICK j \in 1..Len(u) : n + j = k
      BY <3>1
    <3> QED
      BY <1>4, <1>5, <3>2
  <2>3. k <= n \/ k > n
    BY <1>0
  <2> QED
    BY <2>1, <2>2, <2>3
<1>7. t \o u = s
  BY <1>5, <1>6, SameSequence
<1> QED
  BY <1>1, <1>3, <1>7

-----------------------------------------------------------------------------
(* What a run knows *)

(* what the run has given to its output stream *)
Written == disk[out] \o held

(* past fopen of the input, up to an exit that counts as a success *)
Using ==
  \/ pc \in {"open_out", "header", "xor", "close"}
  \/ pc = "exited" /\ status = 0

Types ==
  /\ exists \in SUBSET Paths /\ displaced \in SUBSET Paths
  /\ disk \in [Paths -> Seq(Byte)] /\ disk["plain"] \in Seq(Raw)
  /\ runs \in 0..MaxRuns
  /\ pc \in {"open_in", "read_nonce", "open_out", "header", "xor", "close",
             "exited"}
  /\ flag \in {0, 1} /\ input \in Paths
  /\ counter \in 0..(W - 1)
  /\ given \in Seq(Byte) /\ ahead \in Seq(Byte) /\ pos \in 0..Len(given)
  /\ held \in Seq(Byte) /\ Len(held) <= BUFFER
  /\ status \in Statuses /\ closed \in BOOLEAN

(* Where a run is, and what it has got there with. *)
RunInv ==
  /\ pc # "exited" \/ Using => key \in Keys
  /\ pc \in {"open_in", "read_nonce"} => pos = 0 /\ ahead = <<>>
  /\ pc = "read_nonce" => flag = 1
  /\ pc \in {"read_nonce", "open_out", "header", "xor", "close"} =>
       input \in exists
  /\ Using =>
       /\ nonce \in Headers
       /\ flag = 1 =>
            /\ Len(given) >= N
            /\ FirstOf(given, N) \in Headers => nonce = FirstOf(given, N)
  /\ pc \in {"open_in", "read_nonce", "open_out", "header"} => counter = 0
  /\ pc = "open_out" => pos = IF flag = 0 THEN 0 ELSE N
  /\ pc = "header" => flag = 0 /\ pos = 0 /\ disk[out] = <<>>
  /\ pc \notin {"xor", "close"} => held = <<>>
  /\ status = 0 => pc \in {"close", "exited"}

(***************************************************************************)
(* What the input stream gives: the file as it was opened.  Nobody else    *)
(* writes to it; a run that writes to it itself has emptied it, and goes   *)
(* on with what it had read ahead, none of its own output being on the     *)
(* disk before it has read all of that.                                    *)
(***************************************************************************)
StreamInv ==
  /\ pc \in {"read_nonce", "open_out"} => disk[input] = given
  /\ Using /\ input # out => disk[input] = given
  /\ pc \in {"header", "xor"} /\ input = out => disk[out] = <<>>
  /\ pc \in {"open_out", "header", "xor"} =>
       /\ pos + Len(ahead) <= Len(Readable)
       /\ \A j \in 1..Len(ahead) : ahead[j] = Readable[pos + j]
       /\ input = out => pos + Len(ahead) = Len(Readable)

(***************************************************************************)
(* The output, up to what has been read: the header, if the run encrypts,  *)
(* and each byte of the input masked as its position demands.  k is a      *)
(* position in the output, BodyAt(k) one after a header.                   *)
(***************************************************************************)
BodyAt(k) == IF flag = 0 THEN k - N ELSE k

InputAt(k) == IF flag = 0 THEN k - N ELSE k + N

OutByte(k) ==
  IF flag = 0 /\ k <= N THEN nonce[k]
  ELSE Xor(Readable[InputAt(k)],
           <<key, nonce, Ctr(BodyAt(k)), Place(BodyAt(k))>>)

OutputTo(w, n) ==
  /\ Len(w) = IF flag = 0 THEN N + n ELSE n - N
  /\ \A k \in 1..Len(w) : w[k] = OutByte(k)

(* The counter goes with the position; only the last block may be short. *)
CounterInv ==
  pc = "xor" =>
    \E q \in Nat :
      /\ counter = q % W
      /\ pos = (IF flag = 0 THEN 0 ELSE N) + q * B \/ pos = Len(Readable)

Begins(s, t) == Len(s) <= Len(t) /\ \A k \in 1..Len(s) : s[k] = t[k]

(* How much of w is not on the disk *)
Missing(w) == Len(w) - Len(disk[out])

OutputInv ==
  /\ pc = "xor" => OutputTo(Written, pos)
  /\ pc = "close" /\ status = 0 => OutputTo(Written, Len(Readable))
  /\ pc = "exited" /\ status = 0 =>
       \E w \in Seq(Byte) :
         /\ OutputTo(w, Len(Readable)) /\ Begins(disk[out], w)
         /\ Missing(w) \in 0..BUFFER
         /\ closed => Missing(w) = 0
         /\ ~closed => Missing(w) # 0

(***************************************************************************)
(* Every keystream byte in a file stands at its own position.  It stays so *)
(* when an output becomes the input of the next run, since neither adding  *)
(* a header nor taking it off moves a byte within the body, unless what is *)
(* taken off was no header.                                                *)
(***************************************************************************)
HasHeader(f) == f = "encrypted_output.dat"

InPlace(f, s) ==
  \A k \in 1..Len(s) :
    IF HasHeader(f) /\ k <= N THEN s[k] \in Raw
    ELSE \A m \in s[k][2] :
           LET p == IF HasHeader(f) THEN k - N ELSE k
           IN  m[3] = Ctr(p) /\ m[4] = Place(p)

PlaceInv ==
  /\ \A f \in Paths \ displaced : InPlace(f, disk[f])
  /\ pc \in {"header", "xor", "close"} /\ out \notin displaced => ~Displaces
  /\ out \notin displaced => InPlace(out, Written)

(* The intact encrypted file is what was encrypted, masked. *)
EncryptedIs(e, k, c) ==
  /\ Len(e) = N + Len(c)
  /\ FirstOf(e, N) \in Headers
  /\ \A p \in 1..Len(c) :
       e[N + p] = Xor(c[p], <<k, FirstOf(e, N), Ctr(p), Place(p)>>)

SealedInv ==
  sealed # None =>
    /\ ~(flag = 0 /\ pc \in {"header", "xor", "close"})
    /\ sealed.content \in Seq(Byte) /\ sealed.key \in Keys
    /\ EncryptedIs(disk["encrypted_output.dat"], sealed.key, sealed.content)

CryptInv ==
  /\ Types /\ RunInv /\ StreamInv /\ CounterInv /\ OutputInv /\ PlaceInv
  /\ SealedInv

LEMMA InitCrypt == Init => CryptInv
<1> SUFFICES ASSUME Init PROVE CryptInv
  OBVIOUS
<1>0. Plain \in Seq(Byte) /\ \A k \in 1..Len(Plain) : Plain[k] \in Raw
  BY Sizes, RawIs
<1>1. Types
  <2>1. disk \in [Paths -> Seq(Byte)] /\ disk["plain"] = Plain
    <3>1. <<>> \in Seq(Byte)
      OBVIOUS
    <3> QED
      BY <1>0, <3>1 DEF Init, Paths
  <2>2. counter \in 0..(W - 1) /\ runs \in 0..MaxRuns
    BY Sizes, FileCryptAssumption DEF Init
  <2>3. /\ held \in Seq(Byte) /\ given \in Seq(Byte) /\ ahead \in Seq(Byte)
        /\ Len(held) <= BUFFER /\ pos \in 0..Len(given)
    BY BufferSize DEF Init
  <2> QED
    BY <2>1, <2>2, <2>3, Sizes DEF Init, Types, Paths, Statuses
<1>2. RunInv
  BY DEF Init, RunInv, Using, out
<1>3. StreamInv /\ CounterInv /\ OutputInv /\ SealedInv
  BY DEF Init, StreamInv, Using, CounterInv, OutputInv, SealedInv
<1>4. \A f \in Paths : InPlace(f, disk[f])
  <2>1. ASSUME NEW k \in 1..Len(Plain) PROVE Plain[k][2] = {}
    BY <1>0, RawIs
  <2>2. InPlace("plain", Plain)
    BY <2>1 DEF InPlace, HasHeader
  <2>3. \A f : InPlace(f, <<>>)
    BY DEF InPlace
  <2> QED
    BY <2>2, <2>3 DEF Init, Paths
<1>5. Written = <<>>
  BY DEF Init, Written, out, Paths
<1>6. InPlace(out, Written) /\ pc = "exited"
  BY <1>5 DEF InPlace, Init
<1>7. PlaceInv
  BY <1>4, <1>6 DEF PlaceInv
<1> QED
  BY <1>1, <1>2, <1>3, <1>7 DEF CryptInv

-----------------------------------------------------------------------------
(* What a step does to the output *)

(* The output stream loses at most the end of what it was given. *)
Keeps(sent) ==
  /\ disk' \in [Paths -> Seq(Byte)]
  /\ held' \in Seq(Byte) /\ Len(held') <= BUFFER
  /\ \A f \in Paths \ {out} : disk'[f] = disk[f]
  /\ Begins(disk'[out], sent)
  /\ Begins(disk'[out] \o held', sent)

LEMMA OutIs == out \in Paths
BY DEF out, Paths

LEMMA LengthOfJoin ==
  ASSUME NEW S, NEW s \in Seq(S), NEW t \in Seq(S)
  PROVE  Len(s \o t) = Len(s) + Len(t)
OBVIOUS

LEMMA Joined ==
  \A s, t, u \in Seq(Byte) :
    /\ s \o t \in Seq(Byte) /\ s \o <<>> = s
    /\ (s \o t) \o u = s \o (t \o u)
    /\ Begins(s, s) /\ Begins(s, s \o t)
<1> SUFFICES ASSUME NEW s \in Seq(Byte), NEW t \in Seq(Byte),
                    NEW u \in Seq(Byte)
             PROVE  /\ s \o t \in Seq(Byte) /\ s \o <<>> = s
                    /\ (s \o t) \o u = s \o (t \o u)
                    /\ Begins(s, s) /\ Begins(s, s \o t)
  OBVIOUS
<1>1. /\ s \o t \in Seq(Byte) /\ Len(s \o t) = Len(s) + Len(t)
      /\ \A k \in 1..Len(s) : (s \o t)[k] = s[k]
  BY ConcatIs
<1>2. (s \o t) \o u = s \o (t \o u)
  BY ConcatAssoc
<1>3. s \o <<>> = s
  BY EmptyConcat
<1> QED
  BY <1>1, <1>2, <1>3 DEF Begins

LEMMA WrittenThen ==
  ASSUME disk[out] \in Seq(Byte), held \in Seq(Byte), NEW bytes \in Seq(Byte)
  PROVE  Written \o bytes = disk[out] \o (held \o bytes)
<1>1. PICK s \in Seq(Byte) : s = disk[out]
  OBVIOUS
<1>2. PICK t \in Seq(Byte) : t = held
  OBVIOUS
<1>3. (s \o t) \o bytes = s \o (t \o bytes)
  BY ConcatAssoc
<1> QED
  BY <1>1, <1>2, <1>3 DEF Written

(* disk[out] with the first n of the bytes still to come *)
LEMMA PartOf ==
  ASSUME NEW s \in Seq(Byte), NEW t \in Seq(Byte), NEW n \in Nat
  PROVE  /\ s \o FirstOf(t, n) \in Seq(Byte)
         /\ Begins(s \o FirstOf(t, n), s \o t)
<1>1. /\ FirstOf(t, n) \in Seq(Byte) /\ Len(FirstOf(t, n)) <= Len(t)
      /\ \A k \in 1..Len(FirstOf(t, n)) : FirstOf(t, n)[k] = t[k]
  BY FirstOfIs
<1>2. PICK u \in Seq(Byte) : u = FirstOf(t, n)
  BY <1>1
<1> QED
  BY <1>1, <1>2 DEF Begins

LEMMA WriteDoes ==
  ASSUME Types, NEW bytes \in Seq(Byte), Len(bytes) <= BUFFER, Write(bytes)
  PROVE  Keeps(Written \o bytes) /\ disk'[out] \o held' = Written \o bytes
<1>1. /\ disk[out] \in Seq(Byte) /\ held \in Seq(Byte)
      /\ Written \in Seq(Byte) /\ Len(held) <= BUFFER /\ BUFFER \in Nat
  BY OutIs, BufferSize DEF Types, Written
<1>2. Written \o bytes = disk[out] \o (held \o bytes)
  BY <1>1, WrittenThen
<1>3. CASE /\ Len(held \o bytes) <= BUFFER
           /\ held' = held \o bytes /\ UNCHANGED disk
  <2>1. /\ held' \in Seq(Byte) /\ Len(held') <= BUFFER
        /\ disk'[out] \o held' = Written \o bytes
    BY <1>1, <1>2, <1>3 DEF Written
  <2>2. Begins(disk[out], disk[out] \o (held \o bytes))
    BY <1>1, Joined
  <2>3. Begins(Written \o bytes, Written \o bytes)
    BY <1>1, Joined
  <2>4. disk'[out] = disk[out] /\ Written \o bytes = disk[out] \o (held \o bytes)
    BY <1>2, <1>3 DEF Written
  <2> QED
    BY <1>3, <2>1, <2>2, <2>3, <2>4 DEF Keeps, Types
<1>4. CASE /\ Len(held \o bytes) > BUFFER
           /\ disk' = [disk EXCEPT ![out] = @ \o FirstOf(held \o bytes, BUFFER)]
           /\ held' = AfterFirst(held \o bytes, BUFFER)
  <2>1. PICK all \in Seq(Byte) : all = held \o bytes
    BY <1>1, ConcatIs
  <2>2. Len(all) = Len(held) + Len(bytes)
    BY <1>1, <2>1, ConcatIs
  <2>3. /\ held' \in Seq(Byte) /\ Len(held') = Len(all) - BUFFER
    BY <1>1, <1>4, <2>1, AfterFirstIs
  <2>4. PICK d \in Seq(Byte) : d = disk[out]
    BY <1>1
  <2>5. PICK u \in Seq(Byte) : u = FirstOf(all, BUFFER)
    BY <1>1, FirstOfIs
  <2>6. disk'[out] = d \o u
    BY <1>4, <2>1, <2>4, <2>5, OutIs DEF Types
  <2>7. disk'[out] \in Seq(Byte) /\ Begins(disk'[out], d \o all)
    BY <1>1, <2>5, <2>6, PartOf
  <2>8. u \o held' = all
    <3>1. BUFFER \in 0..Len(all)
      BY <1>1, <1>4, <2>1
    <3> QED
      BY <1>4, <2>1, <2>5, <3>1, Split
  <2>9. disk'[out] \o held' = d \o all
    <3>1. (d \o u) \o held' = d \o (u \o held')
      BY <2>3, ConcatAssoc
    <3> QED
      BY <2>6, <2>8, <3>1
  <2>10. Begins(d \o all, d \o all)
    BY Joined
  <2>11. disk' \in [Paths -> Seq(Byte)]
    BY <1>4, <2>7, OutIs DEF Types
  <2>12. Len(held') <= BUFFER
    BY <1>1, <2>2, <2>3
  <2> QED
    BY <1>2, <1>4, <2>1, <2>3, <2>4, <2>7, <2>9, <2>10, <2>11, <2>12
    DEF Keeps, Types
<1> QED
  BY <1>3, <1>4 DEF Write

LEMMA CutDoes ==
  ASSUME Types, NEW t \in Seq(Byte), NEW n \in Nat,
         disk' = [disk EXCEPT ![out] = @ \o FirstOf(t, n)], held' = <<>>
  PROVE  Keeps(disk[out] \o t)
<1>1. disk[out] \in Seq(Byte)
  BY OutIs DEF Types
<1>2. disk'[out] \in Seq(Byte) /\ Begins(disk'[out], disk[out] \o t)
  BY <1>1, PartOf, OutIs DEF Types
<1>3. disk'[out] \o held' = disk'[out]
  BY <1>2, Joined
<1>4. disk' \in [Paths -> Seq(Byte)]
  BY <1>2 DEF Types
<1>5. Len(held') <= BUFFER /\ held' \in Seq(Byte)
  BY BufferSize
<1> QED
  BY <1>2, <1>3, <1>4, <1>5 DEF Keeps, Types

LEMMA WriteFailsDoes ==
  ASSUME Types, NEW bytes \in Seq(Byte), WriteFails(bytes)
  PROVE  Keeps(Written \o bytes)
<1>1. /\ disk[out] \in Seq(Byte) /\ held \in Seq(Byte)
      /\ held \o bytes \in Seq(Byte)
  BY OutIs DEF Types
<1>2. Written \o bytes = disk[out] \o (held \o bytes)
  BY <1>1, WrittenThen
<1>3. PICK n \in 0..Len(held \o bytes) :
        disk' = [disk EXCEPT ![out] = @ \o FirstOf(held \o bytes, n)]
  BY DEF WriteFails
<1>4. n \in Nat /\ held' = <<>>
  BY <1>1, <1>3 DEF WriteFails
<1> QED
  BY <1>1, <1>2, <1>3, <1>4, CutDoes

LEMMA CloseDoes ==
  ASSUME Types, CloseOutput, held' = <<>>
  PROVE  /\ Keeps(Written) /\ closed' \in BOOLEAN
         /\ Len(Written) - Len(disk'[out]) \in 0..BUFFER
         /\ closed' => Len(Written) - Len(disk'[out]) = 0
         /\ ~closed' => Len(Written) - Len(disk'[out]) # 0
<1>0. Len(held') <= BUFFER /\ held' \in Seq(Byte)
  BY BufferSize
<1>1. /\ disk[out] \in Seq(Byte) /\ held \in Seq(Byte)
      /\ Written \in Seq(Byte) /\ Len(held) <= BUFFER /\ BUFFER \in Nat
      /\ Len(Written) = Len(disk[out]) + Len(held)
  BY OutIs, BufferSize DEF Types, Written
<1>2. CASE disk' = [disk EXCEPT ![out] = @ \o held] /\ closed' = TRUE
  <2>1. disk'[out] = Written
    BY <1>2, OutIs DEF Types, Written
  <2>2. disk'[out] \o held' = Written
    BY <1>1, <1>2, <2>1, Joined
  <2>3. disk' \in [Paths -> Seq(Byte)]
    <3>1. disk'[out] \in Seq(Byte)
      BY <1>1, <2>1
    <3> QED
      BY <1>1, <1>2, <3>1 DEF Types
  <2>4. /\ Len(Written) - Len(disk'[out]) = 0
        /\ Len(Written) - Len(disk'[out]) \in 0..BUFFER
    BY <1>1, <2>1
  <2>5. Keeps(Written)
    BY <1>0, <1>1, <1>2, <2>1, <2>2, <2>3, Joined DEF Keeps, Types
  <2> QED
    BY <1>2, <2>4, <2>5
<1>3. CASE /\ \E n \in 0..(Len(held) - 1) :
                disk' = [disk EXCEPT ![out] = @ \o FirstOf(held, n)]
           /\ closed' = FALSE
  <2>1. PICK n \in 0..(Len(held) - 1) :
          disk' = [disk EXCEPT ![out] = @ \o FirstOf(held, n)]
    BY <1>3
  <2>2. n \in Nat /\ n < Len(held)
    BY <1>1
  <2>3. Len(disk'[out]) = Len(disk[out]) + n
    <3>1. PICK t \in Seq(Byte) : t = FirstOf(held, n) /\ Len(t) = n
      BY <1>1, <2>2, FirstOfIs
    <3>2. disk'[out] = disk[out] \o t
      BY <2>1, <3>1, OutIs DEF Types
    <3>3. Len(disk[out] \o t) = Len(disk[out]) + Len(t)
      BY <1>1, <3>1, LengthOfJoin
    <3> QED
      BY <3>1, <3>2, <3>3
  <2>4. Keeps(Written)
    BY <1>1, <1>3, <2>1, <2>2, CutDoes DEF Written
  <2>5. /\ Len(Written) - Len(disk'[out]) \in 0..BUFFER
        /\ Len(Written) - Len(disk'[out]) # 0
    BY <1>1, <2>2, <2>3
  <2> QED
    BY <1>3, <2>4, <2>5
<1> QED
  BY <1>2, <1>3 DEF CloseOutput

-----------------------------------------------------------------------------
(* What the input gives *)

LEMMA ReadableIs ==
  ASSUME Types
  PROVE  /\ Readable \in Seq(Byte) /\ Len(Readable) <= Len(given)
         /\ \A k \in 1..Len(Readable) : Readable[k] = given[k]
         /\ input # out => Readable = given
         /\ input = out /\ flag = 0 => Len(Readable) = 0
         /\ input = out /\ flag = 1 =>
              Len(Readable) = IF BUFFER < Len(given) THEN BUFFER ELSE Len(given)
<1>1. given \in Seq(Byte) /\ flag \in {0, 1} /\ BUFFER \in Nat /\ 0 \in Nat
  BY BufferSize DEF Types
<1>2. CASE input # out
  BY <1>1, <1>2 DEF Readable
<1>3. CASE input = out /\ flag = 0
  <2>1. Readable = FirstOf(given, 0)
    BY <1>3 DEF Readable
  <2> QED
    BY <1>1, <1>3, <2>1, FirstOfIs
<1>4. CASE input = out /\ flag = 1
  <2>1. Readable = FirstOf(given, BUFFER)
    BY <1>4 DEF Readable
  <2> QED
    BY <1>1, <1>4, <2>1, FirstOfIs
<1> QED
  BY <1>1, <1>2, <1>3, <1>4

(* The first fread of a decryption fills the buffer, up to the end. *)
LEMMA FetchedFirst ==
  ASSUME Types, RunInv, StreamInv, pc = "read_nonce"
  PROVE  /\ Fetched(N) \in Seq(Byte)
         /\ Len(Fetched(N)) = IF BUFFER < Len(given) THEN BUFFER ELSE Len(given)
         /\ \A j \in 1..Len(Fetched(N)) : Fetched(N)[j] = given[j]
<1>1. /\ ahead = <<>> /\ pos = 0 /\ Len(ahead) = 0 /\ disk[input] = given
      /\ BUFFER \in Nat /\ N \in Nat \ {0} /\ 0 \in Nat
  BY BufferSize DEF RunInv, StreamInv
<1>2. PICK g \in Seq(Byte) : g = given
  BY DEF Types
<1>3. PICK u \in Seq(Byte) : u = AfterFirst(g, 0)
  BY <1>1, AfterFirstIs
<1>4. Len(u) = Len(g) /\ \A j \in 1..Len(u) : u[j] = g[j]
  BY <1>1, <1>3, AfterFirstIs
<1>5. PICK v \in Seq(Byte) : v = FirstOf(u, BUFFER)
  BY <1>1, FirstOfIs
<1>6. /\ Len(v) = IF BUFFER < Len(u) THEN BUFFER ELSE Len(u)
      /\ \A j \in 1..Len(v) : v[j] = u[j]
  BY <1>1, <1>5, FirstOfIs
<1>7. Fetched(N) = v
  <2>1. Fetched(N) = <<>> \o v
    BY <1>1, <1>2, <1>3, <1>5 DEF Fetched
  <2>2. <<>> \o v = v
    BY EmptyConcat
  <2> QED
    BY <2>1, <2>2
<1> QED
  BY <1>1, <1>2, <1>4, <1>6, <1>7

(* Any later one gives the bytes that follow, and falls short at the end. *)
LEMMA FetchedIs ==
  ASSUME Types, StreamInv, pc = "xor"
  PROVE  /\ Fetched(B) \in Seq(Byte)
         /\ pos + Len(Fetched(B)) <= Len(Readable)
         /\ \A j \in 1..Len(Fetched(B)) : Fetched(B)[j] = Readable[pos + j]
         /\ Len(Fetched(B)) >= B \/ pos + Len(Fetched(B)) = Len(Readable)
         /\ input = out => pos + Len(Fetched(B)) = Len(Readable)
<1>1. /\ pos \in Nat /\ B \in Nat /\ BUFFER \in Nat /\ B <= BUFFER
      /\ pos + Len(ahead) <= Len(Readable)
      /\ \A j \in 1..Len(ahead) : ahead[j] = Readable[pos + j]
      /\ input = out => pos + Len(ahead) = Len(Readable)
  BY Sizes, BufferSize DEF Types, StreamInv
<1>2. PICK a \in Seq(Byte) : a = ahead
  BY DEF Types
<1>3. PICK g \in Seq(Byte) : g = Readable
  BY ReadableIs
<1>4. CASE Len(ahead) >= B
  <2>1. Fetched(B) = ahead
    BY <1>4 DEF Fetched
  <2> QED
    BY <1>1, <1>2, <1>4, <2>1
<1>5. CASE input # out /\ ~(Len(ahead) >= B)
  <2>1. disk[input] = g
    BY <1>3, <1>5, ReadableIs DEF StreamInv, Using
  <2> DEFINE r == pos + Len(a)
  <2>2. r \in Nat /\ r <= Len(g)
    BY <1>1, <1>2, <1>3
  <2> HIDE DEF r
  <2>3. PICK u \in Seq(Byte) : u = AfterFirst(g, r)
    BY <2>2, AfterFirstIs
  <2>4. Len(u) = Len(g) - r /\ \A j \in 1..Len(u) : u[j] = g[r + j]
    BY <2>2, <2>3, AfterFirstIs
  <2>5. PICK v \in Seq(Byte) : v = FirstOf(u, BUFFER)
    BY <1>1, FirstOfIs
  <2>6. /\ Len(v) = IF BUFFER < Len(u) THEN BUFFER ELSE Len(u)
        /\ \A j \in 1..Len(v) : v[j] = u[j]
    BY <1>1, <2>5, FirstOfIs
  <2>7. Fetched(B) = a \o v
    BY <1>2, <1>5, <2>1, <2>3, <2>5 DEF Fetched, r
  <2>8. /\ a \o v \in Seq(Byte) /\ Len(a \o v) = Len(a) + Len(v)
        /\ \A k \in 1..Len(a) : (a \o v)[k] = a[k]
        /\ \A k \in 1..Len(v) : (a \o v)[Len(a) + k] = v[k]
    BY ConcatIs
  <2>9. /\ r = pos + Len(a) /\ Len(a) \in Nat /\ Len(v) \in Nat
        /\ Len(g) \in Nat /\ Len(v) <= Len(g) - r
        /\ Len(v) = BUFFER \/ Len(v) = Len(g) - r
    BY <1>1, <2>2, <2>4, <2>6 DEF r
  <2>10. ASSUME NEW k \in 1..Len(a \o v) PROVE (a \o v)[k] = g[pos + k]
    <3>1. CASE k <= Len(a)
      <4>1. k \in 1..Len(a)
        BY <2>8, <2>9, <3>1
      <4> QED
        BY <1>1, <1>2, <1>3, <2>8, <4>1
    <3>2. CASE k > Len(a)
      <4>1. k - Len(a) \in 1..Len(v) /\ Len(a) + (k - Len(a)) = k
        BY <2>8, <2>9, <3>2
      <4>2. PICK j \in 1..Len(v) : Len(a) + j = k
        BY <4>1
      <4>3. (a \o v)[Len(a) + j] = g[r + j]
        <5>1. j \in 1..Len(u) /\ j \in 1..Len(v)
          BY <2>6
        <5>2. (a \o v)[Len(a) + j] = v[j] /\ v[j] = u[j] /\ u[j] = g[r + j]
          BY <2>4, <2>6, <2>8, <5>1
        <5> QED
          BY <5>2
      <4>4. r + j = pos + k
        <5>1. PICK l \in Nat : l = Len(a)
          BY <2>9
        <5>2. r = pos + l /\ l + j = k /\ j \in Nat /\ pos \in Nat
          BY <1>1, <2>9, <4>2, <5>1
        <5> QED
          BY <5>2
      <4> QED
        BY <4>2, <4>3, <4>4
    <3>3. k <= Len(a) \/ k > Len(a)
      BY <2>9
    <3> QED
      BY <3>1, <3>2, <3>3
  <2>11. /\ pos + Len(a \o v) <= Len(g)
         /\ Len(a \o v) >= B \/ pos + Len(a \o v) = Len(g)
    BY <1>1, <2>8, <2>9
  <2> QED
    BY <1>3, <1>5, <2>7, <2>8, <2>10, <2>11
<1>6. CASE input = out /\ ~(Len(ahead) >= B)
  <2>1. disk[input] = <<>>
    BY <1>6 DEF StreamInv
  <2> DEFINE r == pos + Len(ahead)
  <2>2. r \in Nat /\ <<>> \in Seq(Byte)
    BY <1>1, <1>2
  <2> HIDE DEF r
  <2>3. AfterFirst(<<>>, r) = <<>>
    BY <2>2 DEF AfterFirst
  <2>4. FirstOf(<<>>, BUFFER) = <<>>
    BY <1>1 DEF FirstOf
  <2>5. Fetched(B) = ahead \o <<>>
    BY <1>6, <2>1, <2>3, <2>4 DEF Fetched, r
  <2>6. Fetched(B) = ahead
    BY <1>2, <2>5, EmptyConcat
  <2> QED
    BY <1>1, <1>2, <1>6, <2>6
<1> QED
  BY <1>4, <1>5, <1>6

LEMMA BlockIs ==
  ASSUME Types, StreamInv, pc = "xor"
  PROVE  /\ Block \in Seq(Byte)
         /\ Len(Block) \in 0..B /\ pos + Len(Block) <= Len(Readable)
         /\ Len(Block) < B => pos + Len(Block) = Len(Readable)
         /\ \A j \in 1..Len(Block) : Block[j] = Readable[pos + j]
<1>1. PICK f \in Seq(Byte) : f = Fetched(B)
  BY FetchedIs
<1>2. PICK b \in Seq(Byte) : b = FirstOf(f, B)
  BY Sizes, FirstOfIs
<1>3. /\ Len(b) = IF B < Len(f) THEN B ELSE Len(f)
      /\ \A j \in 1..Len(b) : b[j] = f[j]
  BY <1>2, Sizes, FirstOfIs
<1>4. Block = b
  BY <1>1, <1>2 DEF Block, B
<1>5. /\ pos + Len(f) <= Len(Readable) /\ pos \in Nat /\ Len(Readable) \in Nat
      /\ \A j \in 1..Len(f) : f[j] = Readable[pos + j]
      /\ Len(f) >= B \/ pos + Len(f) = Len(Readable)
  <2>1. pos \in Nat /\ Len(Readable) \in Nat
    BY ReadableIs DEF Types
  <2> QED
    BY <1>1, <2>1, FetchedIs
<1>6. Len(b) \in Nat /\ Len(f) \in Nat /\ B \in Nat
  BY Sizes
<1>7. /\ Len(b) \in 0..B /\ pos + Len(b) <= Len(Readable)
      /\ Len(b) < B => pos + Len(b) = Len(Readable)
  BY <1>3, <1>5, <1>6
<1>8. \A j \in 1..Len(b) : b[j] = Readable[pos + j]
  <2>1. \A j \in 1..Len(b) : j \in 1..Len(f)
    BY <1>3, <1>6
  <2> QED
    BY <1>3, <1>5, <2>1
<1> QED
  BY <1>4, <1>7, <1>8

(* What fread leaves in the buffer follows what it gives. *)
LEMMA RestIs ==
  ASSUME Types, StreamInv, pc = "xor"
  PROVE  LET rest == AfterFirst(Fetched(B), Len(Block)) IN
         /\ rest \in Seq(Byte)
         /\ (pos + Len(Block)) + Len(rest) <= Len(Readable)
         /\ \A j \in 1..Len(rest) : rest[j] = Readable[(pos + Len(Block)) + j]
         /\ input = out => (pos + Len(Block)) + Len(rest) = Len(Readable)
<1>1. PICK f \in Seq(Byte) : f = Fetched(B)
  BY FetchedIs
<1>2. PICK n \in Nat : n = Len(Block) /\ n <= Len(f)
  <2>1. PICK b \in Seq(Byte) : b = FirstOf(f, B)
    BY Sizes, FirstOfIs
  <2>2. Len(b) = IF B < Len(f) THEN B ELSE Len(f)
    BY <2>1, Sizes, FirstOfIs
  <2>3. Block = b
    BY <1>1, <2>1 DEF Block, B
  <2> QED
    BY <2>2, <2>3, Sizes
<1>3. PICK t \in Seq(Byte) : t = AfterFirst(f, n)
  BY AfterFirstIs
<1>4. Len(t) = Len(f) - n /\ \A j \in 1..Len(t) : t[j] = f[n + j]
  BY <1>2, <1>3, AfterFirstIs
<1>5. /\ pos + Len(f) <= Len(Readable) /\ pos \in Nat /\ Len(Readable) \in Nat
      /\ \A j \in 1..Len(f) : f[j] = Readable[pos + j]
      /\ input = out => pos + Len(f) = Len(Readable)
  <2>1. pos \in Nat /\ Len(Readable) \in Nat
    BY ReadableIs DEF Types
  <2> QED
    BY <1>1, <2>1, FetchedIs
<1>6. ASSUME NEW j \in 1..Len(t) PROVE t[j] = Readable[(pos + n) + j]
  <2>1. n + j \in 1..Len(f) /\ pos + (n + j) = (pos + n) + j
    BY <1>2, <1>4, <1>5
  <2>2. f[n + j] = Readable[pos + (n + j)]
    BY <1>5, <2>1
  <2> QED
    BY <1>4, <2>1, <2>2
<1>7. /\ (pos + n) + Len(t) <= Len(Readable)
      /\ input = out => (pos + n) + Len(t) = Len(Readable)
  <2>1. (pos + n) + Len(t) = pos + Len(f)
    <3>1. Len(f) \in Nat /\ Len(t) = Len(f) - n /\ n \in Nat /\ pos \in Nat
      BY <1>4, <1>5
    <3> QED
      BY <3>1
  <2> QED
    BY <1>5, <2>1
<1> QED
  BY <1>1, <1>2, <1>3, <1>6, <1>7

-----------------------------------------------------------------------------
(* What is given to the output *)

LEMMA StreamType ==
  ASSUME RunInv, Using, NEW p \in Nat \ {0}
  PROVE  <<key, nonce, Ctr(p), Place(p)>> \in Streams
BY PlaceType DEF RunInv, Streams

(* Every byte that OutByte speaks of is one of the input, and has a place. *)
LEMMA OutByteIs ==
  ASSUME Types, RunInv, Using, NEW n \in 0..Len(Readable),
         NEW k \in 1..(IF flag = 0 THEN N + n ELSE n - N)
  PROVE  /\ OutByte(k) \in Byte
         /\ flag = 0 /\ k <= N => OutByte(k) \in Raw
         /\ ~(flag = 0 /\ k <= N) =>
              /\ InputAt(k) \in 1..Len(Readable)
              /\ BodyAt(k) \in Nat \ {0}
              /\ \A m \in OutByte(k)[2] :
                   \/ m \in Readable[InputAt(k)][2]
                   \/ m[3] = Ctr(BodyAt(k)) /\ m[4] = Place(BodyAt(k))
<1>0. Readable \in Seq(Byte) /\ Len(Readable) \in Nat /\ N \in Nat
  BY Sizes, ReadableIs
<1>1. CASE flag = 0 /\ k <= N
  <2>1. nonce \in [1..N -> Raw] /\ k \in 1..N
    BY <1>0, <1>1 DEF RunInv, Headers
  <2>2. OutByte(k) \in Raw
    BY <1>1, <2>1 DEF OutByte
  <2> QED
    BY <1>1, <2>2, RawIs
<1>2. CASE ~(flag = 0 /\ k <= N)
  <2>1. InputAt(k) \in 1..Len(Readable) /\ BodyAt(k) \in Nat \ {0}
    BY <1>0, <1>2 DEF InputAt, BodyAt, Types
  <2> DEFINE b == Readable[InputAt(k)]
             s == <<key, nonce, Ctr(BodyAt(k)), Place(BodyAt(k))>>
  <2>2. b \in Byte
    BY <1>0, <2>1
  <2>3. s \in Streams
    BY <2>1, StreamType
  <2>4. s[3] = Ctr(BodyAt(k)) /\ s[4] = Place(BodyAt(k))
    OBVIOUS
  <2>5. OutByte(k) = Xor(b, s)
    BY <1>2 DEF OutByte
  <2> HIDE DEF b, s
  <2>6. Xor(b, s) \in Byte /\ \A m \in Xor(b, s)[2] : m \in b[2] \/ m = s
    BY <2>2, <2>3, XorIs
  <2>7. OutByte(k) \in Byte
    BY <2>5, <2>6
  <2>8. \A m \in OutByte(k)[2] :
          \/ m \in b[2]
          \/ m[3] = Ctr(BodyAt(k)) /\ m[4] = Place(BodyAt(k))
    BY <2>4, <2>5, <2>6
  <2> QED
    BY <1>2, <2>1, <2>7, <2>8 DEF b
<1> QED
  BY <1>1, <1>2

LEMMA OutputInPlace ==
  ASSUME Types, RunInv, StreamInv, PlaceInv, out \notin displaced,
         pc \in {"header", "xor", "close"},
         NEW n \in 0..Len(Readable), NEW w \in Seq(Byte), OutputTo(w, n)
  PROVE  InPlace(out, w)
<1>0. Using
  BY DEF Using
<1> SUFFICES ASSUME NEW k \in 1..Len(w)
             PROVE  IF HasHeader(out) /\ k <= N THEN w[k] \in Raw
                    ELSE \A m \in w[k][2] :
                           LET p == IF HasHeader(out) THEN k - N ELSE k
                           IN  m[3] = Ctr(p) /\ m[4] = Place(p)
  BY DEF InPlace
<1>1. HasHeader(out) <=> flag = 0
  BY DEF HasHeader, out
<1>2. /\ w[k] = OutByte(k)
      /\ k \in 1..(IF flag = 0 THEN N + n ELSE n - N)
  BY DEF OutputTo
<1>3. CASE flag = 0 /\ k <= N
  BY <1>0, <1>1, <1>2, <1>3, OutByteIs
<1>4. CASE ~(flag = 0 /\ k <= N)
  <2>1. /\ InputAt(k) \in 1..Len(Readable)
        /\ BodyAt(k) = IF HasHeader(out) THEN k - N ELSE k
        /\ \A m \in w[k][2] :
             \/ m \in Readable[InputAt(k)][2]
             \/ m[3] = Ctr(BodyAt(k)) /\ m[4] = Place(BodyAt(k))
    BY <1>0, <1>1, <1>2, <1>4, OutByteIs DEF BodyAt
  <2>2. ASSUME NEW m \in Readable[InputAt(k)][2]
        PROVE  m[3] = Ctr(BodyAt(k)) /\ m[4] = Place(BodyAt(k))
    <3>1. ~Displaces
      BY DEF PlaceInv
    <3>2. input # out
      <4>1. CASE input = out /\ flag = 0
        BY <2>1, <4>1, ReadableIs
      <4> QED
        BY <3>1, <4>1 DEF Displaces, Types
    <3>3. Readable = disk[input] /\ InPlace(input, disk[input])
      BY <1>0, <3>1, <3>2, ReadableIs DEF StreamInv, Displaces, PlaceInv, Types
    <3>4. CASE input = "plain"
      <4>1. Readable[InputAt(k)] \in Raw
        BY <2>1, <3>3, <3>4 DEF Types
      <4> QED
        BY <4>1, RawIs
    <3>5. CASE input = "decrypted_output.dat"
      <4>1. flag = 0 /\ ~HasHeader(input)
        BY <3>2, <3>5 DEF out, Types, HasHeader
      <4>2. InputAt(k) = BodyAt(k)
        BY <4>1 DEF InputAt, BodyAt
      <4> QED
        BY <2>1, <3>3, <4>1, <4>2 DEF InPlace
    <3>6. CASE input = "encrypted_output.dat"
      <4>1. flag = 1 /\ HasHeader(input)
        BY <3>2, <3>6 DEF out, Types, HasHeader
      <4>2. InputAt(k) = k + N /\ BodyAt(k) = k /\ k \in Nat \ {0}
        BY <4>1 DEF InputAt, BodyAt
      <4>3. InputAt(k) - N = BodyAt(k) /\ ~(InputAt(k) <= N)
        BY <4>2, Sizes
      <4> QED
        BY <2>1, <3>3, <4>1, <4>3 DEF InPlace
    <3> QED
      BY <3>4, <3>5, <3>6 DEF Types, Paths
  <2> QED
    BY <1>1, <1>4, <2>1, <2>2
<1> QED
  BY <1>3, <1>4

LEMMA BlockOutput ==
  ASSUME Types, RunInv, StreamInv, CounterInv, OutputInv, pc = "xor"
  PROVE  /\ XorBlock(Block, counter) \in Seq(Byte)
         /\ Len(XorBlock(Block, counter)) = Len(Block)
         /\ Block # <<>> =>
              OutputTo(Written \o XorBlock(Block, counter), pos + Len(Block))
<1>0. /\ Readable \in Seq(Byte) /\ Len(Readable) \in Nat
      /\ N \in Nat /\ pos \in Nat
  BY Sizes, ReadableIs DEF Types
<1>1. /\ Block \in Seq(Byte)
      /\ Len(Block) \in 0..B /\ pos + Len(Block) <= Len(Readable)
      /\ \A j \in 1..Len(Block) : Block[j] = Readable[pos + j]
  BY BlockIs
<1>2. Using
  BY DEF Using
<1> DEFINE x == XorBlock(Block, counter)
<1>3. ASSUME NEW j \in 1..Len(Block)
      PROVE  /\ <<key, nonce, counter, j>> \in Streams
             /\ x[j] = Xor(Readable[pos + j], <<key, nonce, counter, j>>)
             /\ x[j] \in Byte
  <2>1. <<key, nonce, counter, j>> \in Streams
    BY <1>1, <1>2, Sizes DEF Types, RunInv, Streams
  <2>2. x[j] = Xor(Block[j], <<key, nonce, counter, j>>)
    BY DEF XorBlock
  <2>3. Block[j] \in Byte
    BY <1>1
  <2> QED
    BY <1>1, <2>1, <2>2, <2>3, XorIs
<1>4. x \in Seq(Byte) /\ Len(x) = Len(Block)
  <2>1. x = [j \in 1..Len(Block) |-> x[j]]
    BY DEF XorBlock
  <2>2. Len(Block) \in Nat
    BY <1>1
  <2> HIDE DEF x
  <2> QED
    BY <1>3, <2>1, <2>2, SequenceOf
<1> HIDE DEF x
<1>5. Written \in Seq(Byte)
  BY OutIs DEF Written, Types
<1>6. ASSUME Block # <<>>
      PROVE  OutputTo(Written \o x, pos + Len(Block))
  <2>1. Len(Block) > 0
    BY <1>1, <1>6
  <2>2. /\ Len(Written) = IF flag = 0 THEN N + pos ELSE pos - N
        /\ \A k \in 1..Len(Written) : Written[k] = OutByte(k)
    BY DEF OutputInv, OutputTo
  <2>3. PICK q \in Nat :
          /\ counter = q % W
          /\ pos = (IF flag = 0 THEN 0 ELSE N) + q * B
             \/ pos = Len(Readable)
    BY DEF CounterInv
  <2>4. pos = (IF flag = 0 THEN 0 ELSE N) + q * B /\ q * B \in Nat
    BY <1>0, <1>1, <2>1, <2>3, Sizes
  <2>5. /\ Len(Written \o x) = Len(Written) + Len(Block)
        /\ \A k \in 1..Len(Written) : (Written \o x)[k] = Written[k]
        /\ \A j \in 1..Len(Block) : (Written \o x)[Len(Written) + j] = x[j]
    <3>1. PICK s \in Seq(Byte) : s = Written
      BY <1>5
    <3>2. PICK t \in Seq(Byte) : t = x
      BY <1>4
    <3>3. /\ Len(s \o t) = Len(s) + Len(t)
          /\ \A k \in 1..Len(s) : (s \o t)[k] = s[k]
          /\ \A k \in 1..Len(t) : (s \o t)[Len(s) + k] = t[k]
      BY ConcatIs
    <3> QED
      BY <1>4, <3>1, <3>2, <3>3
  <2>6. ASSUME NEW j \in 1..Len(Block)
        PROVE  x[j] = OutByte(Len(Written) + j)
    <3>1. /\ InputAt(Len(Written) + j) = pos + j
          /\ BodyAt(Len(Written) + j) = q * B + j
          /\ ~(flag = 0 /\ Len(Written) + j <= N)
      <4>1. PICK b \in Nat : b = q * B
        BY <2>4
      <4>2. PICK w \in Nat : w = Len(Written)
        BY <1>5
      <4>3. j \in Nat \ {0}
        BY <1>1
      <4>4. CASE flag = 0
        BY <1>0, <2>2, <2>4, <4>1, <4>2, <4>3, <4>4 DEF InputAt, BodyAt
      <4>5. CASE flag = 1
        BY <1>0, <2>2, <2>4, <4>1, <4>2, <4>3, <4>5 DEF InputAt, BodyAt
      <4> QED
        BY <4>4, <4>5 DEF Types
    <3>2. Ctr(q * B + j) = counter /\ Place(q * B + j) = j
      <4>1. j \in 1..B
        BY <1>1, Sizes
      <4> QED
        BY <2>3, <4>1, PlaceOf
    <3> QED
      BY <1>3, <3>1, <3>2 DEF OutByte
  <2>7. Len(Written) \in Nat /\ Len(Block) \in Nat
    BY <1>1, <1>5
  <2>8. ASSUME NEW k \in 1..(Len(Written) + Len(Block))
        PROVE  (Written \o x)[k] = OutByte(k)
    <3>1. CASE k <= Len(Written)
      BY <2>2, <2>5, <2>7, <3>1
    <3>2. CASE k > Len(Written)
      <4>1. PICK j \in 1..Len(Block) : Len(Written) + j = k
        <5>1. k - Len(Written) \in 1..Len(Block)
              /\ Len(Written) + (k - Len(Written)) = k
          BY <2>7, <3>2
        <5> QED
          BY <5>1
      <4>2. (Written \o x)[Len(Written) + j] = OutByte(Len(Written) + j)
        BY <2>5, <2>6
      <4> QED
        BY <4>1, <4>2
    <3>3. k <= Len(Written) \/ k > Len(Written)
      BY <2>7
    <3> QED
      BY <3>1, <3>2, <3>3
  <2>9. Len(Written) + Len(Block) = IF flag = 0 THEN N + (pos + Len(Block))
                                              ELSE (pos + Len(Block)) - N
    BY <1>0, <2>2, <2>7
  <2> QED
    BY <2>5, <2>8, <2>9 DEF OutputTo
<1> QED
  BY <1>4, <1>6 DEF x

-----------------------------------------------------------------------------
(* The steps that write *)

WriteStep == Header \/ HeaderFails \/ XorNext \/ XorFails \/ Close

LEMMA HeaderGiven ==
  ASSUME Types, RunInv, pc = "header"
  PROVE  /\ nonce \in Seq(Byte) /\ Written \o nonce \in Seq(Byte)
         /\ Len(nonce) = N /\ Written = <<>>
         /\ OutputTo(Written \o nonce, 0) /\ flag = 0
<1>1. nonce \in [1..N -> Raw] /\ flag = 0 /\ N \in Nat
  BY Sizes DEF RunInv, Using, Headers
<1>2. nonce \in Seq(Byte) /\ Len(nonce) = N
  BY <1>1, RawIs
<1>3. Written \o nonce = nonce /\ Written = <<>>
  <2>1. disk[out] = <<>> /\ held = <<>>
    BY DEF RunInv
  <2>2. Written = <<>>
    BY <2>1 DEF Written
  <2> QED
    BY <1>2, <2>2, EmptyConcat
<1>4. \A k \in 1..N : nonce[k] = OutByte(k)
  BY <1>1 DEF OutByte
<1> QED
  BY <1>1, <1>2, <1>3, <1>4 DEF OutputTo

(* What has been given to the output, when it is closed, too, is in place. *)
LEMMA WriteSteps ==
  ASSUME CryptInv, WriteStep
  PROVE  /\ \E sent \in Seq(Byte) :
              (out \notin displaced => InPlace(out, sent)) /\ Keeps(sent)
         /\ UNCHANGED <<exists, runs, args, nonce, given, displaced>>
         /\ pc \in {"header", "xor", "close"}
         /\ pc' \in {"xor", "close", "exited"} /\ (pc' = "exited" => pc = "close")
         /\ pos' \in 0..Len(given) /\ ahead' \in Seq(Byte)
         /\ counter' \in 0..(W - 1)
         /\ pc' = "exited" => held' = <<>>
         /\ status' = status
         /\ closed' \in BOOLEAN
<1>0. /\ Types /\ RunInv /\ StreamInv /\ CounterInv /\ OutputInv /\ PlaceInv
      /\ Written \in Seq(Byte) /\ Readable \in Seq(Byte)
      /\ Len(Readable) \in Nat /\ Len(Readable) <= Len(given)
  BY OutIs, ReadableIs DEF CryptInv, Types, Written
<1>1. CASE Header \/ HeaderFails
  <2>1. pc = "header" /\ Using
    BY <1>1 DEF Header, HeaderFails, Goto, Using
  <2>2. /\ nonce \in Seq(Byte) /\ Written \o nonce \in Seq(Byte)
        /\ OutputTo(Written \o nonce, 0) /\ Len(nonce) <= BUFFER
    BY <1>0, <2>1, HeaderGiven, BufferSize
  <2>3. out \notin displaced => InPlace(out, Written \o nonce)
    <3>1. 0 \in 0..Len(Readable)
      BY <1>0
    <3> QED
      BY <1>0, <2>1, <2>2, <3>1, OutputInPlace
  <2>4. Keeps(Written \o nonce)
    BY <1>0, <1>1, <2>2, WriteDoes, WriteFailsDoes DEF Header, HeaderFails
  <2> QED
    BY <1>0, <1>1, <2>2, <2>3, <2>4
    DEF Header, HeaderFails, Goto, Types, reading, past
<1>2. CASE XorNext \/ XorFails
  <2>1. pc = "xor" /\ Using /\ Block # <<>>
    BY <1>2 DEF XorNext, XorFails, Goto, Using, ReadBlock
  <2> DEFINE x == XorBlock(Block, counter)
             n == pos + Len(Block)
  <2>2. /\ x \in Seq(Byte) /\ OutputTo(Written \o x, n)
        /\ Len(x) = Len(Block) /\ Len(Block) \in 0..B
    BY <1>0, <2>1, BlockOutput, BlockIs
  <2>3. n \in 0..Len(Readable) /\ n \in 0..Len(given)
    <3>1. pos \in Nat /\ Len(Block) \in Nat /\ pos + Len(Block) <= Len(Readable)
      BY <1>0, <2>1, Sizes, BlockIs DEF Types
    <3> QED
      BY <1>0, <3>1 DEF Types
  <2>4. pos' = n /\ counter' \in 0..(W - 1) /\ ahead' \in Seq(Byte)
    <3>1. (counter + 1) % W \in 0..(W - 1)
      BY <1>0, Sizes, Division DEF Types
    <3>2. AfterFirst(Fetched(CHACHA_BLOCK), Len(Block)) \in Seq(Byte)
      BY <1>0, <2>1, RestIs DEF B
    <3> QED
      BY <1>0, <1>2, <3>1, <3>2
      DEF XorNext, XorFails, ReadBlock, NextCounter, W, Types
  <2>5. Keeps(Written \o x)
    <3>1. Write(x) \/ WriteFails(x)
      BY <1>2 DEF XorNext, XorFails
    <3>2. Len(x) <= BUFFER
      BY <2>2, BufferSize, Sizes
    <3> HIDE DEF x
    <3> QED
      BY <1>0, <2>2, <3>1, <3>2, WriteDoes, WriteFailsDoes
  <2> HIDE DEF x, n
  <2>6. Written \o x \in Seq(Byte)
    BY <1>0, <2>2, ConcatIs
  <2>7. out \notin displaced => InPlace(out, Written \o x)
    BY <1>0, <2>1, <2>2, <2>3, <2>6, OutputInPlace
  <2> QED
    BY <1>0, <1>2, <2>3, <2>4, <2>5, <2>6, <2>7
    DEF XorNext, XorFails, ReadBlock, Goto, Types, past
<1>3. CASE Close
  <2>1. Keeps(Written) /\ closed' \in BOOLEAN
    BY <1>0, <1>3, CloseDoes DEF Close
  <2>2. out \notin displaced => InPlace(out, Written)
    BY <1>0 DEF PlaceInv
  <2> QED
    BY <1>0, <1>3, <2>1, <2>2 DEF Close, Goto, Types, args, reading
<1> QED
  BY <1>1, <1>2, <1>3 DEF WriteStep

LEMMA BeginsInPlace ==
  ASSUME NEW f, NEW s \in Seq(Byte), NEW t \in Seq(Byte),
         Begins(s, t), InPlace(f, t)
  PROVE  InPlace(f, s)
BY DEF Begins, InPlace

(* A step that writes leaves every other file alone. *)
LEMMA KeepsIs ==
  ASSUME Types, NEW sent \in Seq(Byte), Keeps(sent)
  PROVE  /\ disk' \in [Paths -> Seq(Byte)]
         /\ held' \in Seq(Byte) /\ Len(held') <= BUFFER
         /\ disk'["plain"] \in Seq(Raw)
         /\ input # out => disk'[input] = disk[input]
BY DEF Types, Keeps, out, Paths

(* What is written stays in the buffer as long as there is room. *)
LEMMA HeldBack ==
  ASSUME Types, NEW bytes \in Seq(Byte), Write(bytes),
         Len(held) + Len(bytes) <= BUFFER
  PROVE  UNCHANGED disk
<1>1. Len(held \o bytes) = Len(held) + Len(bytes)
  BY ConcatIs DEF Types
<1>2. ~(Len(held \o bytes) > BUFFER)
  BY <1>1, BufferSize DEF Types
<1> QED
  BY <1>2 DEF Write

-----------------------------------------------------------------------------
(* Types and RunInv *)

(* The header of the input, as the first fread gives it *)
LEMMA HeaderIs ==
  ASSUME Types, RunInv, StreamInv, pc = "read_nonce"
  PROVE  /\ HeaderPresent <=> Len(given) >= N
         /\ HeaderPresent => FirstOf(Fetched(NONCE_SIZE), NONCE_SIZE) = FirstOf(given, N)
<1>1. PICK f \in Seq(Byte) : f = Fetched(N)
  BY FetchedFirst
<1>2. PICK g \in Seq(Byte) : g = given
  BY DEF Types
<1>3. /\ Len(f) = IF BUFFER < Len(g) THEN BUFFER ELSE Len(g)
      /\ \A j \in 1..Len(f) : f[j] = g[j]
  BY <1>1, <1>2, FetchedFirst
<1>4. BUFFER \in Nat /\ N \in Nat /\ N <= BUFFER
  BY BufferSize
<1>5. Len(f) >= N <=> Len(g) >= N
  BY <1>3, <1>4
<1>6. ASSUME Len(f) >= N PROVE FirstOf(f, N) = FirstOf(g, N)
  <2>1. PICK a \in Seq(Byte) : a = FirstOf(f, N)
    BY <1>4, FirstOfIs
  <2>2. PICK b \in Seq(Byte) : b = FirstOf(g, N)
    BY <1>4, FirstOfIs
  <2>3. Len(a) = N /\ \A j \in 1..N : a[j] = f[j]
    BY <1>4, <1>6, <2>1, FirstOfIs
  <2>4. Len(b) = N /\ \A j \in 1..N : b[j] = g[j]
    BY <1>4, <1>5, <1>6, <2>2, FirstOfIs
  <2>5. \A j \in 1..N : f[j] = g[j]
    BY <1>3, <1>4, <1>6
  <2>6. a = b
    BY <2>3, <2>4, <2>5, SameSequence
  <2> QED
    BY <2>1, <2>2, <2>6
<1> QED
  BY <1>1, <1>2, <1>5, <1>6 DEF HeaderPresent, N

LEMMA NonceIs ==
  ASSUME Types, RunInv, StreamInv, ReadNonce
  PROVE  /\ flag = 1 /\ Len(given) >= N /\ nonce' \in Headers
         /\ FirstOf(given, N) \in Headers => nonce' = FirstOf(given, N)
<1>1. pc = "read_nonce" /\ flag = 1 /\ HeaderPresent
  BY DEF ReadNonce, Goto, RunInv
<1>2. /\ Len(given) >= N
      /\ FirstOf(Fetched(NONCE_SIZE), NONCE_SIZE) = FirstOf(given, N)
  BY <1>1, HeaderIs
<1>3. nonce' \in NoncesOf(FirstOf(given, N))
  BY <1>2 DEF ReadNonce
<1>4. Headers = [1..NONCE_SIZE -> Raw]
  BY DEF Headers, N
<1> QED
  BY <1>1, <1>2, <1>3, <1>4, Sizes DEF NoncesOf

(* The buffer after the header has been taken from it *)
LEMMA AheadIs ==
  ASSUME Types, RunInv, StreamInv, ReadNonce
  PROVE  /\ ahead' \in Seq(Byte)
         /\ Len(ahead') = (IF BUFFER < Len(given) THEN BUFFER ELSE Len(given)) - N
         /\ \A j \in 1..Len(ahead') : ahead'[j] = given[N + j]
<1>1. pc = "read_nonce" /\ Len(given) >= N
  BY NonceIs DEF ReadNonce, Goto
<1>2. PICK f \in Seq(Byte) : f = Fetched(N)
  BY <1>1, FetchedFirst
<1>3. /\ Len(f) = IF BUFFER < Len(given) THEN BUFFER ELSE Len(given)
      /\ \A j \in 1..Len(f) : f[j] = given[j]
  BY <1>1, <1>2, FetchedFirst
<1>4. BUFFER \in Nat /\ N \in Nat /\ N <= BUFFER /\ Len(given) \in Nat
  BY BufferSize DEF Types
<1>5. PICK t \in Seq(Byte) : t = AfterFirst(f, N)
  BY <1>4, AfterFirstIs
<1>6. /\ Len(t) = IF N < Len(f) THEN Len(f) - N ELSE 0
      /\ \A j \in 1..Len(t) : t[j] = f[N + j]
  BY <1>4, <1>5, AfterFirstIs
<1>7. Len(f) \in Nat /\ Len(f) >= N
  BY <1>1, <1>3, <1>4
<1>8. Len(t) = Len(f) - N
  BY <1>4, <1>6, <1>7
<1>9. ASSUME NEW j \in 1..Len(t) PROVE t[j] = given[N + j]
  <2>1. N + j \in 1..Len(f)
    BY <1>4, <1>7, <1>8
  <2> QED
    BY <1>3, <1>6, <2>1
<1>10. ahead' = t
  BY <1>2, <1>5 DEF ReadNonce, DataStart, N
<1> QED
  BY <1>3, <1>8, <1>9, <1>10

Leaves == OpenInFails \/ ReadNonceFails \/ OpenOutFails

LEMMA ByKind ==
  Next => \/ Refuse \/ Start \/ Leaves \/ OpenIn \/ ReadNonce \/ OpenOut
          \/ WriteStep \/ ReadFails \/ EndOfInput \/ Kill \/ UNCHANGED vars
BY DEF Next, Leaves, WriteStep, Terminated

LEMMA NextTypes == CryptInv /\ [Next]_vars => Types'
<1> SUFFICES ASSUME CryptInv, [Next]_vars PROVE Types'
  OBVIOUS
<1>0. Types /\ RunInv /\ StreamInv /\ PlaceInv
  BY DEF CryptInv
<1>1. CASE Refuse
  <2>1. runs' \in 0..MaxRuns
    BY <1>0, <1>1, FileCryptAssumption DEF Refuse, Types
  <2> QED
    BY <1>0, <1>1, <2>1 DEF Refuse, Types, Statuses, files, args, reading, past
<1>2. CASE Start
  <2>1. /\ flag' \in {0, 1} /\ input' \in Paths /\ pos' = 0 /\ counter' = 0
        /\ held' = <<>> /\ given' = <<>> /\ ahead' = <<>>
        /\ UNCHANGED <<exists, disk, displaced>> /\ runs' = runs + 1
        /\ pc' = "open_in" /\ status' = 1 /\ closed' = FALSE /\ runs < MaxRuns
    BY <1>2 DEF Start, files, past
  <2>2. /\ held' \in Seq(Byte) /\ given' \in Seq(Byte) /\ ahead' \in Seq(Byte)
        /\ Len(held') <= BUFFER /\ pos' \in 0..Len(given')
    BY <2>1, BufferSize
  <2>3. runs' \in 0..MaxRuns /\ counter' \in 0..(W - 1)
    BY <1>0, <2>1, Sizes, FileCryptAssumption DEF Types
  <2> QED
    BY <1>0, <2>1, <2>2, <2>3 DEF Types, Statuses
<1>3. CASE Leaves \/ ReadFails \/ EndOfInput
  BY <1>0, <1>3
  DEF Leaves, OpenInFails, ReadNonceFails, OpenOutFails, FailTo, Goto,
      ReadFails, EndOfInput, Types, Statuses, files, args, reading, past
<1>4. CASE OpenIn
  <2>1. pos' = 0 /\ given' \in Seq(Byte)
    BY <1>0, <1>4 DEF OpenIn, Goto, RunInv, Types
  <2> QED
    BY <1>0, <1>4, <2>1 DEF OpenIn, Goto, Types, files, args, past
<1>5. CASE ReadNonce
  <2>1. N \in 0..Len(given) /\ ahead' \in Seq(Byte)
    BY <1>0, <1>5, NonceIs, AheadIs, Sizes DEF Types
  <2> QED
    BY <1>0, <1>5, <2>1 DEF ReadNonce, Goto, Types, files, args, past, DataStart, N
<1>6. CASE OpenOut
  <2>1. <<>> \in Seq(Byte) /\ out \in Paths
    BY OutIs
  <2>2. disk' \in [Paths -> Seq(Byte)]
    BY <1>0, <1>6, <2>1 DEF OpenOut, Types
  <2>3. disk'["plain"] = disk["plain"]
    BY <1>0, <1>6 DEF OpenOut, Types, out, Paths
  <2>4. exists' \in SUBSET Paths /\ displaced' \in SUBSET Paths
    BY <1>0, <1>6, <2>1 DEF OpenOut, Types
  <2> QED
    BY <1>0, <1>6, <2>2, <2>3, <2>4 DEF OpenOut, Goto, Types, args, reading
<1>7. CASE WriteStep
  <2>1. PICK sent \in Seq(Byte) : Keeps(sent)
    BY <1>7, WriteSteps
  <2>2. /\ disk' \in [Paths -> Seq(Byte)]
        /\ held' \in Seq(Byte) /\ Len(held') <= BUFFER
        /\ disk'["plain"] \in Seq(Raw)
    BY <1>0, <2>1, KeepsIs
  <2>3. /\ UNCHANGED <<exists, runs, args, nonce, given, displaced>>
        /\ pc' \in {"xor", "close", "exited"}
        /\ pos' \in 0..Len(given) /\ ahead' \in Seq(Byte)
        /\ counter' \in 0..(W - 1)
        /\ status' = status /\ closed' \in BOOLEAN
    BY <1>7, WriteSteps
  <2> QED
    BY <1>0, <2>2, <2>3 DEF Types, args
<1>8. CASE Kill
  <2>1. held' \in Seq(Byte) /\ Len(held') <= BUFFER
    BY <1>8, BufferSize DEF Kill
  <2> QED
    BY <1>0, <1>8, <2>1 DEF Kill, Types, Statuses, files, args, reading, past
<1>9. CASE UNCHANGED vars
  BY <1>0, <1>9 DEF Types, vars, files, args, reading, past
<1> QED
  BY <1>1, <1>2, <1>3, <1>4, <1>5, <1>6, <1>7, <1>8, <1>9, ByKind

LEMMA NextRun == CryptInv /\ [Next]_vars => RunInv'
<1> SUFFICES ASSUME CryptInv, [Next]_vars PROVE RunInv'
  OBVIOUS
<1>0. Types /\ RunInv /\ StreamInv /\ PlaceInv
  BY DEF CryptInv
<1>1. CASE Refuse
  BY <1>0, <1>1 DEF Refuse, Types, RunInv, Using, out, files, args, reading
<1>2. CASE Start
  <2>1. key' \in Keys
    BY <1>2 DEF Start, Keys
  <2> QED
    BY <1>2, <2>1 DEF Start, RunInv, Using, files
<1>3. CASE Leaves \/ ReadFails \/ EndOfInput
  BY <1>0, <1>3
  DEF Leaves, OpenInFails, ReadNonceFails, OpenOutFails, FailTo, Goto,
      ReadFails, EndOfInput, Types, RunInv, Using, out, files, args, reading
<1>4. CASE OpenIn
  <2>1. flag = 0 => nonce' \in Headers
    BY <1>4, Sizes DEF OpenIn
  <2> QED
    BY <1>0, <1>4, <2>1 DEF OpenIn, Goto, Types, RunInv, Using, out, files, args
<1>5. CASE ReadNonce
  <2>1. /\ flag = 1 /\ Len(given) >= N /\ nonce' \in Headers /\ pos' = N
        /\ FirstOf(given, N) \in Headers => nonce' = FirstOf(given, N)
    BY <1>0, <1>5, NonceIs DEF ReadNonce, DataStart, N
  <2> QED
    BY <1>0, <1>5, <2>1
    DEF ReadNonce, Goto, RunInv, Using, out, files, args
<1>6. CASE OpenOut
  <2>1. disk'[out] = <<>>
    BY <1>0, <1>6 DEF OpenOut, Types, out, Paths
  <2> QED
    BY <1>0, <1>6, <2>1 DEF OpenOut, Goto, Types, RunInv, Using, out, args,
                            reading
<1>7. CASE WriteStep
  <2>3. /\ UNCHANGED <<exists, flag, input, key, nonce, given>>
        /\ pc \in {"header", "xor", "close"}
        /\ pc' \in {"xor", "close", "exited"} /\ (pc' = "exited" => pc = "close")
        /\ pc' = "exited" => held' = <<>>
        /\ status' = status
    BY <1>7, WriteSteps DEF args
  <2>4. Using /\ out' = out
    BY <2>3 DEF Using, out
  <2>5. status' = 0 => pc' \in {"close", "exited"}
    BY <1>0, <1>7, <2>3
    DEF RunInv, WriteStep, Header, HeaderFails, XorNext, XorFails, Close, Goto
  <2> QED
    BY <1>0, <2>3, <2>4, <2>5 DEF RunInv, Types
<1>8. CASE Kill
  BY <1>0, <1>8 DEF Kill, RunInv, Using, out, files, args, reading
<1>9. CASE UNCHANGED vars
  BY <1>0, <1>9 DEF RunInv, Using, out, vars, files, args, reading
<1> QED
  BY <1>1, <1>2, <1>3, <1>4, <1>5, <1>6, <1>7, <1>8, <1>9, ByKind

-----------------------------------------------------------------------------
(* StreamInv *)

LEMMA ReadableStays ==
  ASSUME UNCHANGED <<args, given>> PROVE Readable' = Readable
BY DEF args, Readable, out

(* A run that reads what it writes to writes nothing to the disk meanwhile: *)
(* all it can read, and so all it can make, fits into the buffer.           *)
LEMMA NothingWritten ==
  ASSUME CryptInv, input = out, Header \/ XorNext
  PROVE  UNCHANGED disk
<1>0. /\ Types /\ RunInv /\ StreamInv /\ CounterInv /\ OutputInv
      /\ BUFFER \in Nat /\ N \in Nat /\ N <= BUFFER
  BY BufferSize DEF CryptInv
<1>1. CASE Header
  <2>1. pc = "header" /\ Write(nonce)
    BY <1>1 DEF Header, Goto
  <2>2. nonce \in Seq(Byte) /\ Len(nonce) = N /\ held = <<>>
    BY <1>0, <2>1, HeaderGiven DEF RunInv
  <2>3. Len(held) = 0
    BY <2>2
  <2> QED
    BY <1>0, <2>1, <2>2, <2>3, HeldBack
<1>2. CASE XorNext
  <2> DEFINE x == XorBlock(Block, counter)
  <2>1. pc = "xor" /\ Block # <<>> /\ Write(x)
    BY <1>2 DEF XorNext, Goto, ReadBlock
  <2>2. /\ x \in Seq(Byte) /\ Len(x) = Len(Block)
        /\ OutputTo(Written \o x, pos + Len(Block))
    BY <1>0, <2>1, BlockOutput
  <2> HIDE DEF x
  <2>3. /\ Block \in Seq(Byte) /\ pos \in Nat
        /\ pos + Len(Block) <= Len(Readable) /\ Len(Readable) \in Nat
    BY <1>0, <2>1, BlockIs, ReadableIs DEF Types
  <2>4. flag = 1 /\ Len(Readable) <= BUFFER
    <3>1. Len(Block) > 0
      BY <2>1, <2>3
    <3>2. flag # 0
      BY <1>0, <2>3, <3>1, ReadableIs
    <3> QED
      BY <1>0, <3>2, ReadableIs DEF Types
  <2>5. Written = held
    <3>1. disk[out] = <<>>
      BY <1>0, <2>1 DEF StreamInv
    <3>2. <<>> \o held = held
      BY <1>0, EmptyConcat DEF Types
    <3> QED
      BY <3>1, <3>2 DEF Written
  <2>6. Len(held) + Len(x) <= BUFFER
    <3>1. Len(held \o x) = Len(held) + Len(x)
      BY <1>0, <2>2, ConcatIs DEF Types
    <3>2. Len(held \o x) = (pos + Len(Block)) - N
      BY <2>2, <2>4, <2>5 DEF OutputTo
    <3>3. Len(Block) \in Nat
      BY <2>3
    <3> QED
      BY <1>0, <2>3, <2>4, <3>1, <3>2, <3>3
  <2> QED
    BY <1>0, <2>1, <2>2, <2>6, HeldBack
<1> QED
  BY <1>1, <1>2

LEMMA NextStream == CryptInv /\ [Next]_vars => StreamInv'
<1> SUFFICES ASSUME CryptInv, [Next]_vars PROVE StreamInv'
  OBVIOUS
<1>0. /\ Types /\ RunInv /\ StreamInv /\ Len(given) \in Nat
      /\ BUFFER \in Nat /\ N \in Nat /\ N <= BUFFER
  BY BufferSize DEF CryptInv, Types
<1>1. CASE Refuse \/ Start \/ Leaves \/ Kill
  <2>1. pc' \in {"open_in", "exited"} /\ (pc' = "exited" => status' # 0)
    BY <1>0, <1>1 DEF Refuse, Start, Leaves, OpenInFails, ReadNonceFails,
                OpenOutFails, FailTo, Goto, Kill, RunInv
  <2> QED
    BY <2>1 DEF StreamInv, Using
<1>2. CASE OpenIn
  <2>1. /\ disk' = disk /\ given' = disk[input] /\ input' = input /\ flag' = flag
        /\ pos' = 0 /\ ahead' = <<>> /\ pc' \in {"open_out", "read_nonce"}
        /\ pc' = "open_out" => flag = 0
        /\ out' = out /\ Len(ahead') = 0 /\ given' \in Seq(Byte)
    BY <1>0, <1>2 DEF OpenIn, Goto, RunInv, files, args, Types, out
  <2>2. CASE input # out
    <3>1. Readable' = given'
      BY <2>1, <2>2 DEF Readable
    <3> QED
      BY <2>1, <2>2, <3>1 DEF StreamInv
  <2>3. CASE input = out /\ flag = 0
    <3>1. Readable' = FirstOf(given', 0)
      BY <2>1, <2>3 DEF Readable
    <3>2. Len(Readable') = 0
      BY <2>1, <3>1, FirstOfIs
    <3> QED
      BY <2>1, <2>3, <3>2 DEF StreamInv
  <2>4. CASE input = out /\ flag = 1
    <3>1. pc' = "read_nonce"
      BY <2>1, <2>4
    <3> QED
      BY <2>1, <3>1 DEF StreamInv, Using
  <2> QED
    BY <1>0, <2>2, <2>3, <2>4 DEF Types
<1>3. CASE ReadNonce
  <2>1. /\ UNCHANGED <<disk, given, args>> /\ pos' = N /\ pc' = "open_out"
        /\ pc = "read_nonce" /\ flag = 1
    BY <1>0, <1>3, NonceIs DEF ReadNonce, Goto, DataStart, N, files
  <2>2. Readable' = Readable /\ out' = out /\ input' = input
    BY <2>1, ReadableStays DEF args, out
  <2>3. Len(given) >= N
    BY <1>0, <1>3, NonceIs
  <2>4. /\ Len(ahead') = (IF BUFFER < Len(given) THEN BUFFER ELSE Len(given)) - N
        /\ \A j \in 1..Len(ahead') : ahead'[j] = given[N + j]
    BY <1>0, <1>3, AheadIs
  <2>5. /\ N + Len(ahead') <= Len(Readable)
        /\ input = out => N + Len(ahead') = Len(Readable)
    BY <1>0, <2>1, <2>3, <2>4, ReadableIs
  <2>6. ASSUME NEW j \in 1..Len(ahead') PROVE ahead'[j] = Readable[N + j]
    <3>1. Len(ahead') \in Nat /\ Len(Readable) \in Nat
      BY <1>0, <2>3, <2>4, ReadableIs
    <3>2. N + j \in 1..Len(Readable)
      BY <1>0, <2>5, <3>1
    <3> QED
      BY <1>0, <2>4, <3>2, ReadableIs
  <2>7. disk'[input'] = given'
    BY <1>0, <2>1, <2>2 DEF StreamInv
  <2> QED
    BY <2>1, <2>2, <2>5, <2>6, <2>7 DEF StreamInv
<1>4. CASE OpenOut
  <2>1. /\ UNCHANGED <<given, args, pos, ahead>> /\ pc = "open_out"
        /\ pc' \in {"header", "xor"} /\ disk' = [disk EXCEPT ![out] = <<>>]
    BY <1>4 DEF OpenOut, Goto, reading
  <2>2. Readable' = Readable /\ out' = out /\ input' = input
    BY <2>1, ReadableStays DEF args, out
  <2>3. disk'[out] = <<>> /\ (input # out => disk'[input] = given)
    BY <1>0, <2>1, OutIs DEF StreamInv, Types
  <2> QED
    BY <1>0, <2>1, <2>2, <2>3 DEF StreamInv
<1>5. CASE WriteStep
  <2>1. /\ UNCHANGED <<args, given>> /\ Using
    BY <1>5, WriteSteps DEF Using
  <2>2. Readable' = Readable /\ out' = out /\ input' = input
    BY <2>1, ReadableStays DEF args, out
  <2>3. input # out => disk'[input] = given
    <3>1. PICK sent \in Seq(Byte) : Keeps(sent)
      BY <1>5, WriteSteps
    <3> QED
      BY <1>0, <2>1, <3>1, KeepsIs DEF StreamInv
  <2>4. CASE pc' \in {"close", "exited"}
    BY <2>1, <2>2, <2>3, <2>4 DEF StreamInv
  <2>5. CASE Header
    <3>1. UNCHANGED <<pos, ahead>> /\ pc = "header" /\ pc' = "xor"
      BY <2>5 DEF Header, Goto, reading
    <3>2. input = out => disk'[out] = <<>>
      BY <1>0, <2>5, <3>1, NothingWritten DEF StreamInv
    <3> QED
      BY <1>0, <2>1, <2>2, <2>3, <3>1, <3>2 DEF StreamInv
  <2>6. CASE XorNext
    <3>1. pc = "xor" /\ pc' = "xor" /\ pos' = pos + Len(Block)
          /\ ahead' = AfterFirst(Fetched(B), Len(Block))
      BY <2>6 DEF XorNext, Goto, ReadBlock, B
    <3>2. input = out => disk'[out] = <<>>
      BY <1>0, <2>6, <3>1, NothingWritten DEF StreamInv
    <3>3. /\ (pos + Len(Block)) + Len(ahead') <= Len(Readable)
          /\ \A j \in 1..Len(ahead') :
               ahead'[j] = Readable[(pos + Len(Block)) + j]
          /\ input = out => (pos + Len(Block)) + Len(ahead') = Len(Readable)
      BY <1>0, <3>1, RestIs
    <3> QED
      BY <2>1, <2>2, <2>3, <3>1, <3>2, <3>3 DEF StreamInv
  <2>7. pc' \in {"close", "exited"} \/ Header \/ XorNext
    BY <1>5 DEF WriteStep, HeaderFails, XorFails, Close, Goto
  <2> QED
    BY <2>4, <2>5, <2>6, <2>7
<1>6. CASE ReadFails \/ EndOfInput
  BY <1>0, <1>6 DEF ReadFails, EndOfInput, Goto, StreamInv, Using, files, args,
                    reading, out
<1>7. CASE UNCHANGED vars
  BY <1>0, <1>7 DEF StreamInv, Using, Readable, out, vars, files, args, reading
<1> QED
  BY <1>1, <1>2, <1>3, <1>4, <1>5, <1>6, <1>7, ByKind

-----------------------------------------------------------------------------
(* CounterInv and OutputInv *)

LEMMA NextCounterInv == CryptInv /\ [Next]_vars => CounterInv'
<1> SUFFICES ASSUME CryptInv, [Next]_vars, pc' = "xor"
             PROVE  \E q \in Nat :
                      /\ counter' = q % W
                      /\ \/ pos' = (IF flag' = 0 THEN 0 ELSE N) + q * B
                         \/ pos' = Len(Readable')
  BY DEF CounterInv
<1>0. Types /\ RunInv /\ StreamInv /\ CounterInv
  BY DEF CryptInv
<1>1. CASE OpenOut \/ Header
  <2>1. counter' = 0 /\ pos' = IF flag' = 0 THEN 0 ELSE N
    BY <1>0, <1>1 DEF OpenOut, Header, Goto, RunInv, args, reading
  <2>2. 0 % W = 0 /\ 0 * B = 0
    BY Sizes, Below
  <2>3. pos' = (IF flag' = 0 THEN 0 ELSE N) + 0 * B
    BY <2>1, <2>2, Sizes
  <2> QED
    BY <2>1, <2>2, <2>3
<1>2. CASE XorNext
  <2>1. /\ pc = "xor" /\ Block # <<>> /\ counter' = (counter + 1) % W
        /\ pos' = pos + Len(Block) /\ UNCHANGED <<args, given>>
    BY <1>2 DEF XorNext, Goto, NextCounter, W, ReadBlock
  <2>2. PICK q \in Nat :
          /\ counter = q % W
          /\ \/ pos = (IF flag = 0 THEN 0 ELSE N) + q * B
             \/ pos = Len(Readable)
    BY <1>0, <2>1 DEF CounterInv
  <2>3. Len(Readable) \in Nat /\ pos \in Nat
    BY <1>0, ReadableIs DEF Types
  <2>4. /\ Block \in Seq(Byte)
        /\ Len(Block) \in 0..B /\ pos + Len(Block) <= Len(Readable)
        /\ Len(Block) < B => pos + Len(Block) = Len(Readable)
    BY <1>0, <2>1, BlockIs
  <2>5. Len(Block) > 0
    BY <2>1, <2>4, Sizes
  <2>6. pos = (IF flag = 0 THEN 0 ELSE N) + q * B
    BY <2>2, <2>3, <2>4, <2>5
  <2>7. counter' = (q + 1) % W
    BY <2>1, <2>2, Sizes, NextIs
  <2>8. Readable' = Readable
    BY <2>1, ReadableStays
  <2>9. CASE Len(Block) < B
    BY <2>1, <2>4, <2>7, <2>8, <2>9
  <2>10. CASE Len(Block) = B
    <3>1. (q + 1) * B = q * B + B /\ q * B \in Nat
      BY Sizes
    <3>2. pos' = (IF flag' = 0 THEN 0 ELSE N) + (q + 1) * B
      BY <2>1, <2>6, <2>10, <3>1, Sizes DEF args
    <3> QED
      BY <2>7, <3>2
  <2> QED
    BY <2>4, <2>9, <2>10, Sizes
<1>3. CASE UNCHANGED vars
  BY <1>0, <1>3 DEF CounterInv, Readable, out, vars, files, args, reading
<1>4. OpenOut \/ Header \/ XorNext \/ UNCHANGED vars
  BY DEF Next, Refuse, Start, OpenInFails, OpenIn, ReadNonce, ReadNonceFails,
         OpenOutFails, FailTo, HeaderFails, XorFails, ReadFails, EndOfInput,
         Close, Kill, Terminated, Goto
<1> QED
  BY <1>1, <1>2, <1>3, <1>4

LEMMA OutByteStays ==
  ASSUME UNCHANGED <<args, nonce, given>>
  PROVE  \A k : OutByte(k)' = OutByte(k)
BY ReadableStays DEF args, OutByte, InputAt, BodyAt

LEMMA OutputStarts == CryptInv /\ [Next]_vars /\ pc' = "xor" => OutputTo(Written, pos)'
<1> SUFFICES ASSUME CryptInv, [Next]_vars, pc' = "xor"
             PROVE  OutputTo(Written, pos)'
  OBVIOUS
<1>0. /\ Types /\ RunInv /\ StreamInv /\ CounterInv /\ OutputInv
  BY DEF CryptInv
<1>1. CASE OpenOut
  <2>1. flag = 1 /\ flag' = 1 /\ pos' = N /\ held = <<>> /\ held' = <<>>
    BY <1>0, <1>1 DEF OpenOut, Goto, RunInv, Types, args, reading
  <2>2. disk'[out'] = <<>>
    BY <1>0, <1>1, OutIs DEF OpenOut, Types, out, args
  <2>3. Written' = <<>>
    BY <2>1, <2>2 DEF Written
  <2> QED
    BY <2>1, <2>3, Sizes DEF OutputTo
<1>2. CASE Header \/ XorNext
  <2>1. WriteStep /\ UNCHANGED <<args, nonce, given>> /\ out' = out
    BY <1>2 DEF WriteStep, Header, XorNext, ReadBlock, reading, args, out
  <2>2. PICK w : w = Written' /\ OutputTo(w, pos')
    <3>1. CASE Header
      <4>1. /\ pc = "header" /\ pos = 0 /\ pos' = 0 /\ Write(nonce)
        BY <1>0, <3>1 DEF Header, Goto, RunInv, reading
      <4>2. /\ nonce \in Seq(Byte) /\ OutputTo(Written \o nonce, 0)
            /\ Len(nonce) <= BUFFER
        BY <1>0, <4>1, HeaderGiven, BufferSize
      <4>3. disk'[out] \o held' = Written \o nonce
        BY <1>0, <4>1, <4>2, WriteDoes
      <4>4. Written' = Written \o nonce
        BY <2>1, <4>3 DEF Written
      <4> QED
        BY <4>1, <4>2, <4>4
    <3>2. CASE XorNext
      <4> DEFINE x == XorBlock(Block, counter)
      <4>1. /\ pc = "xor" /\ Block # <<>> /\ pos' = pos + Len(Block)
            /\ Write(x)
        BY <3>2 DEF XorNext, Goto, ReadBlock
      <4>2. /\ x \in Seq(Byte) /\ OutputTo(Written \o x, pos + Len(Block))
            /\ Len(x) = Len(Block)
        BY <1>0, <4>1, BlockOutput
      <4> HIDE DEF x
      <4>3. Len(x) <= BUFFER
        BY <1>0, <4>1, <4>2, BlockIs, BufferSize, Sizes
      <4>4. disk'[out] \o held' = Written \o x
        BY <1>0, <4>1, <4>2, <4>3, WriteDoes
      <4>5. Written' = Written \o x
        BY <2>1, <4>4 DEF Written
      <4> QED
        BY <4>1, <4>2, <4>5
    <3> QED
      BY <1>2, <3>1, <3>2
  <2>3. \A k : OutByte(k)' = OutByte(k)
    BY <2>1, OutByteStays
  <2> QED
    BY <2>1, <2>2, <2>3 DEF OutputTo, args
<1>3. CASE UNCHANGED vars
  <2>1. OutputTo(Written, pos)
    BY <1>0, <1>3 DEF OutputInv, vars
  <2> QED
    BY <1>3, <2>1 DEF OutputTo, OutByte, InputAt, BodyAt, Readable, Written, out,
                      vars, files, args, reading
<1>4. OpenOut \/ Header \/ XorNext \/ UNCHANGED vars
  BY DEF Next, Refuse, Start, OpenInFails, OpenIn, ReadNonce, ReadNonceFails,
         OpenOutFails, FailTo, HeaderFails, XorFails, ReadFails, EndOfInput,
         Close, Kill, Terminated, Goto
<1> QED
  BY <1>1, <1>2, <1>3, <1>4

LEMMA OutputAtEnd ==
  CryptInv /\ [Next]_vars /\ pc' = "close" /\ status' = 0
    => OutputTo(Written, Len(Readable))'
<1> SUFFICES ASSUME CryptInv, [Next]_vars, pc' = "close", status' = 0
             PROVE  OutputTo(Written, Len(Readable))'
  OBVIOUS
<1>0. /\ Types /\ RunInv /\ StreamInv /\ OutputInv
  BY DEF CryptInv
<1>1. CASE EndOfInput
  <2>1. /\ pc = "xor" /\ Block = <<>>
        /\ UNCHANGED <<disk, flag, input, key, nonce, given, held>>
    BY <1>1 DEF EndOfInput, Goto, AtEnd, files, args, reading
  <2>2. pos = Len(Readable)
    <3>1. Len(Block) = 0 /\ pos \in Nat
      BY <1>0, <2>1 DEF Types
    <3>2. Len(Block) < B => pos + Len(Block) = Len(Readable)
      BY <1>0, <2>1, BlockIs
    <3> QED
      BY <3>1, <3>2, Sizes
  <2>3. OutputTo(Written, Len(Readable))
    BY <1>0, <2>1, <2>2 DEF OutputInv
  <2> QED
    BY <2>1, <2>3 DEF OutputTo, OutByte, InputAt, BodyAt, Readable, Written, out
<1>2. CASE UNCHANGED vars
  <2>1. OutputTo(Written, Len(Readable))
    BY <1>0, <1>2 DEF OutputInv, vars
  <2> QED
    BY <1>2, <2>1 DEF OutputTo, OutByte, InputAt, BodyAt, Readable, Written, out,
                      vars, files, args, reading
<1>3. EndOfInput \/ UNCHANGED vars
  BY <1>0
  DEF RunInv, Next, Refuse, Start, OpenInFails, OpenIn, ReadNonce,
      ReadNonceFails, OpenOutFails, OpenOut, FailTo, Header, HeaderFails,
      XorNext, XorFails, ReadFails, Close, Kill, Terminated, Goto
<1> QED
  BY <1>1, <1>2, <1>3

LEMMA OutputEnds ==
  CryptInv /\ [Next]_vars /\ pc' = "exited" /\ status' = 0
    => \E w \in Seq(Byte) :
         /\ OutputTo(w, Len(Readable))' /\ Begins(disk'[out'], w)
         /\ Missing(w)' \in 0..BUFFER
         /\ closed' => Missing(w)' = 0
         /\ ~closed' => Missing(w)' # 0
<1> SUFFICES ASSUME CryptInv, [Next]_vars, pc' = "exited", status' = 0
             PROVE  \E w \in Seq(Byte) :
                      /\ OutputTo(w, Len(Readable))' /\ Begins(disk'[out'], w)
                      /\ Missing(w)' \in 0..BUFFER
                      /\ closed' => Missing(w)' = 0
                      /\ ~closed' => Missing(w)' # 0
  OBVIOUS
<1>0. /\ Types /\ RunInv /\ OutputInv
  BY DEF CryptInv
<1>1. CASE Close
  <2>1. /\ pc = "close" /\ status = 0 /\ CloseOutput /\ held' = <<>>
        /\ UNCHANGED <<args, nonce, given>> /\ out' = out
    BY <1>1 DEF Close, Goto, args, reading, out
  <2>2. PICK w \in Seq(Byte) : w = Written
    <3>1. disk[out] \in Seq(Byte) /\ held \in Seq(Byte)
      BY <1>0, OutIs DEF Types
    <3>2. Written \in Seq(Byte)
      BY <3>1, ConcatIs DEF Written
    <3> QED
      BY <3>2
  <2>3. /\ Begins(disk'[out], w) /\ Len(w) - Len(disk'[out]) \in 0..BUFFER
        /\ closed' => Len(w) - Len(disk'[out]) = 0
        /\ ~closed' => Len(w) - Len(disk'[out]) # 0
    BY <1>0, <2>1, <2>2, CloseDoes DEF Keeps
  <2>4. OutputTo(w, Len(Readable))
    BY <1>0, <2>1, <2>2 DEF OutputInv
  <2>5. (\A k : OutByte(k)' = OutByte(k)) /\ Readable' = Readable /\ flag' = flag
    BY <2>1, OutByteStays, ReadableStays DEF args
  <2>6. OutputTo(w, Len(Readable))'
    BY <2>4, <2>5 DEF OutputTo
  <2> QED
    BY <2>1, <2>3, <2>6 DEF Missing
<1>2. CASE UNCHANGED vars
  <2>1. PICK w \in Seq(Byte) :
          /\ OutputTo(w, Len(Readable)) /\ Begins(disk[out], w)
          /\ Missing(w) \in 0..BUFFER
          /\ closed => Missing(w) = 0
          /\ ~closed => Missing(w) # 0
    BY <1>0, <1>2 DEF OutputInv, vars
  <2>2. /\ UNCHANGED <<disk, closed, args, nonce, given>> /\ out' = out
    BY <1>2 DEF vars, files, args, reading, out
  <2>3. (\A k : OutByte(k)' = OutByte(k)) /\ Readable' = Readable /\ flag' = flag
    BY <2>2, OutByteStays, ReadableStays DEF args
  <2>4. OutputTo(w, Len(Readable))'
    BY <2>1, <2>3 DEF OutputTo
  <2> QED
    BY <2>1, <2>2, <2>4 DEF Missing
<1>3. Close \/ UNCHANGED vars
  BY <1>0
  DEF RunInv, Next, Refuse, Start, OpenInFails, OpenIn, ReadNonce,
      ReadNonceFails, OpenOutFails, OpenOut, FailTo, Header, HeaderFails,
      XorNext, XorFails, ReadFails, EndOfInput, Kill, Terminated, Goto
<1> QED
  BY <1>1, <1>2, <1>3

LEMMA NextOutput == CryptInv /\ [Next]_vars => OutputInv'
BY OutputStarts, OutputAtEnd, OutputEnds DEF OutputInv

-----------------------------------------------------------------------------
(* PlaceInv *)

LEMMA NextPlace == CryptInv /\ [Next]_vars => PlaceInv'
<1> SUFFICES ASSUME CryptInv, [Next]_vars PROVE PlaceInv'
  OBVIOUS
<1>0. /\ Types /\ RunInv /\ PlaceInv /\ Types'
      /\ Written \in Seq(Byte) /\ out \in Paths /\ out' \in Paths
  BY NextTypes, OutIs DEF CryptInv, Types, Written, out, Paths
<1>1. CASE Refuse \/ Leaves \/ OpenIn \/ ReadNonce \/ ReadFails \/ EndOfInput
           \/ UNCHANGED vars
  <2>1. /\ UNCHANGED <<disk, flag, input, held, displaced>>
        /\ pc' \in {"header", "xor", "close"} =>
             pc \in {"header", "xor", "close"}
    BY <1>0, <1>1
    DEF Refuse, Leaves, OpenInFails, ReadNonceFails, OpenOutFails, FailTo, Goto,
        OpenIn, ReadNonce, ReadFails, EndOfInput, vars, files, args, past
  <2> QED
    BY <1>0, <2>1 DEF PlaceInv, Written, Displaces, out
<1>2. CASE Start \/ Kill
  <2>1. UNCHANGED <<disk, displaced>> /\ held' = <<>> /\ pc' \in {"open_in", "exited"}
    BY <1>2 DEF Start, Kill, files, past
  <2>2. Written' = disk[out']
    <3>1. disk[out'] \in Seq(Byte)
      BY <1>0 DEF Types
    <3>2. disk[out'] \o <<>> = disk[out']
      BY <3>1, EmptyConcat
    <3> QED
      BY <2>1, <3>2 DEF Written
  <2>3. out' \notin displaced => InPlace(out', disk[out'])
    BY <1>0 DEF PlaceInv
  <2> QED
    BY <1>0, <2>1, <2>2, <2>3 DEF PlaceInv
<1>3. CASE OpenOut
  <2>1. /\ disk' = [disk EXCEPT ![out] = <<>>] /\ out' = out
        /\ held = <<>> /\ held' = <<>> /\ flag' = flag /\ input' = input
        /\ displaced' = IF Displaces THEN displaced \cup {out} ELSE displaced \ {out}
    BY <1>0, <1>3 DEF OpenOut, Goto, RunInv, args, out
  <2>2. disk'[out] = <<>>
    BY <1>0, <2>1 DEF Types
  <2>3. Written' = <<>>
    BY <2>1, <2>2 DEF Written
  <2>4. \A f : InPlace(f, <<>>)
    BY DEF InPlace
  <2>5. \A f \in Paths \ displaced' : InPlace(f, disk'[f])
    BY <1>0, <2>1, <2>2, <2>4 DEF PlaceInv, Types
  <2>6. out' \notin displaced' => ~Displaces'
    BY <2>1 DEF Displaces
  <2> QED
    BY <2>1, <2>3, <2>4, <2>5, <2>6 DEF PlaceInv
<1>4. CASE WriteStep
  <2>1. PICK sent \in Seq(Byte) :
          (out \notin displaced => InPlace(out, sent)) /\ Keeps(sent)
    BY <1>4, WriteSteps
  <2>2. /\ out' = out /\ UNCHANGED <<flag, input, displaced>>
        /\ pc \in {"header", "xor", "close"}
    BY <1>4, WriteSteps DEF args, out
  <2>3. disk'[out] \in Seq(Byte) /\ disk'[out] \o held' \in Seq(Byte)
    <3>1. PICK s \in Seq(Byte) : s = disk'[out]
      BY <1>0, <2>1 DEF Keeps
    <3>2. PICK t \in Seq(Byte) : t = held'
      BY <2>1 DEF Keeps
    <3> QED
      BY <3>1, <3>2
  <2>4. out \notin displaced =>
          InPlace(out, disk'[out]) /\ InPlace(out, disk'[out] \o held')
    BY <2>1, <2>3, BeginsInPlace DEF Keeps
  <2>5. \A f \in Paths \ displaced' : InPlace(f, disk'[f])
    BY <1>0, <2>1, <2>2, <2>4 DEF PlaceInv, Keeps
  <2>6. out' \notin displaced' => ~Displaces'
    BY <1>0, <2>2 DEF PlaceInv, Displaces
  <2> QED
    BY <2>2, <2>4, <2>5, <2>6 DEF PlaceInv, Written
<1> QED
  BY <1>1, <1>2, <1>3, <1>4, ByKind

-----------------------------------------------------------------------------
(* SealedInv *)

LEMMA OutputEncrypts ==
  ASSUME Types, RunInv, Using, flag = 0, NEW w \in Seq(Byte),
         OutputTo(w, Len(Readable))
  PROVE  /\ EncryptedIs(w, key, Readable)
         /\ FirstOf(w, N) = nonce /\ \A k \in 1..N : w[k] = nonce[k]
<1>1. /\ Readable \in Seq(Byte) /\ N \in Nat /\ Len(Readable) \in Nat
      /\ nonce \in [1..N -> Raw]
  BY Sizes, ReadableIs DEF RunInv, Headers
<1>2. /\ Len(w) = N + Len(Readable)
      /\ \A k \in 1..Len(w) : w[k] = OutByte(k)
  BY DEF OutputTo
<1>3. FirstOf(w, N) = nonce /\ \A k \in 1..N : w[k] = nonce[k]
  <2>1. /\ FirstOf(w, N) \in Seq(Byte) /\ Len(FirstOf(w, N)) = N
        /\ \A k \in 1..N : FirstOf(w, N)[k] = w[k]
    <3>1. Len(w) \in Nat /\ N <= Len(w)
      BY <1>1, <1>2
    <3>2. PICK u \in Seq(Byte) : u = FirstOf(w, N)
      BY <1>1, FirstOfIs
    <3>3. Len(u) = N /\ \A k \in 1..Len(u) : u[k] = w[k]
      BY <1>1, <3>1, <3>2, FirstOfIs
    <3> QED
      BY <3>2, <3>3
  <2>2. nonce \in Seq(Byte) /\ Len(nonce) = N
    BY <1>1, RawIs
  <2>3. ASSUME NEW k \in 1..N PROVE w[k] = nonce[k]
    <3>1. k \in 1..Len(w) /\ k <= N
      BY <1>1, <1>2
    <3> QED
      BY <1>2, <3>1 DEF OutByte
  <2> QED
    BY <2>1, <2>2, <2>3, SameSequence
<1>4. ASSUME NEW p \in 1..Len(Readable)
      PROVE  w[N + p] = Xor(Readable[p], <<key, nonce, Ctr(p), Place(p)>>)
  <2>1. N + p \in 1..Len(w) /\ ~(N + p <= N) /\ (N + p) - N = p
    BY <1>1, <1>2
  <2>2. InputAt(N + p) = p /\ BodyAt(N + p) = p
    BY <2>1 DEF InputAt, BodyAt
  <2> QED
    BY <1>2, <2>1, <2>2 DEF OutByte
<1> QED
  BY <1>1, <1>2, <1>3, <1>4 DEF EncryptedIs, Headers

LEMMA NextSealed == CryptInv /\ [Next]_vars => SealedInv'
<1> SUFFICES ASSUME CryptInv, [Next]_vars, (sealed # None)'
             PROVE  /\ ~(flag' = 0 /\ pc' \in {"header", "xor", "close"})
                    /\ sealed.content' \in Seq(Byte) /\ sealed.key' \in Keys
                    /\ EncryptedIs(disk'["encrypted_output.dat"],
                                   sealed.key', sealed.content')
  BY DEF SealedInv
<1>0. /\ Types /\ RunInv /\ OutputInv
  BY DEF CryptInv
<1>1. sealed # None =>
        /\ ~(flag = 0 /\ pc \in {"header", "xor", "close"})
        /\ sealed.content \in Seq(Byte) /\ sealed.key \in Keys
        /\ EncryptedIs(disk["encrypted_output.dat"], sealed.key, sealed.content)
  BY DEF CryptInv, SealedInv
<1>2. CASE Close /\ flag = 0 /\ status = 0 /\ closed' /\ input # out
  <2>1. /\ pc = "close" /\ pc' = "exited" /\ CloseOutput /\ held' = <<>>
        /\ sealed' = [key |-> key, content |-> given]
    BY <1>2 DEF Close, Goto
  <2>2. /\ Using /\ OutputTo(Written, Len(Readable)) /\ key \in Keys
        /\ Readable = given /\ given \in Seq(Byte)
    BY <1>0, <1>2, <2>1, ReadableIs DEF OutputInv, Using, RunInv, Types
  <2>3. PICK w \in Seq(Byte) : w = Written
    BY <1>0, OutIs, ConcatIs DEF Written, Types
  <2>4. disk'[out] = w
    <3>1. /\ Begins(disk'[out], w) /\ Len(w) - Len(disk'[out]) = 0
          /\ disk'[out] \in Seq(Byte)
      BY <1>0, <1>2, <2>1, <2>3, CloseDoes, OutIs DEF Keeps
    <3>2. PICK d \in Seq(Byte) : d = disk'[out]
      BY <3>1
    <3>3. Len(d) = Len(w)
      BY <3>1, <3>2
    <3> QED
      BY <3>1, <3>2, <3>3, SameSequence DEF Begins
  <2>5. EncryptedIs(w, key, given)
    BY <1>0, <1>2, <2>2, <2>3, OutputEncrypts
  <2> QED
    BY <1>0, <1>2, <2>1, <2>2, <2>4, <2>5 DEF out
<1>3. CASE ~(Close /\ flag = 0 /\ status = 0 /\ closed' /\ input # out)
  <2>1. sealed' = sealed \/ sealed' = None
    BY <1>3
    DEF Next, Refuse, Start, OpenInFails, OpenIn, ReadNonce, ReadNonceFails,
        OpenOutFails, FailTo, OpenOut, Header, HeaderFails, XorNext, XorFails,
        ReadFails, EndOfInput, Close, Kill, Terminated, vars, past
  <2>2. sealed # None /\ sealed' = sealed
    BY <2>1 DEF None
  <2>3. ~(flag' = 0 /\ pc' \in {"header", "xor", "close"})
    BY <1>0, <1>1, <2>1, <2>2
    DEF Next, Refuse, Start, OpenInFails, OpenIn, ReadNonce, ReadNonceFails,
        OpenOutFails, FailTo, OpenOut, Header, HeaderFails, XorNext, XorFails,
        ReadFails, EndOfInput, Close, Kill, Terminated, vars, Goto, files,
        args, past, Types
  <2>4. disk'["encrypted_output.dat"] = disk["encrypted_output.dat"]
    <3>1. CASE WriteStep
      <4>1. PICK sent \in Seq(Byte) : Keeps(sent)
        BY <3>1, WriteSteps
      <4>2. flag = 1
        BY <1>0, <1>1, <2>2, <3>1, WriteSteps DEF Types
      <4> QED
        BY <4>1, <4>2 DEF Keeps, out, Paths
    <3>2. CASE OpenOut
      BY <1>0, <1>1, <2>1, <2>2, <2>3, <3>2
      DEF OpenOut, Goto, Types, out, Paths, args
    <3>3. CASE UNCHANGED disk
      BY <3>3
    <3>4. WriteStep \/ OpenOut \/ UNCHANGED disk
      BY ByKind
      DEF Refuse, Start, Leaves, OpenInFails, ReadNonceFails, OpenOutFails,
          FailTo, OpenIn, ReadNonce, ReadFails, EndOfInput, Kill, vars, files
    <3> QED
      BY <3>1, <3>2, <3>3, <3>4
  <2> QED
    BY <1>1, <2>1, <2>2, <2>3, <2>4
<1> QED
  BY <1>2, <1>3

-----------------------------------------------------------------------------
(* The theorems *)

LEMMA CryptHolds == Spec => []CryptInv
<1>1. Init => CryptInv
  BY InitCrypt
<1>2. CryptInv /\ [Next]_vars => CryptInv'
  BY NextTypes, NextRun, NextStream, NextCounterInv, NextOutput, NextPlace,
     NextSealed
  DEF CryptInv
<1> QED
  BY <1>1, <1>2, PTL DEF Spec

LEMMA MaskedIs ==
  ASSUME RunInv, Using, NEW c \in Seq(Byte)
  PROVE  /\ Masked(c) \in Seq(Byte) /\ Len(Masked(c)) = Len(c)
         /\ \A p \in 1..Len(c) :
              Masked(c)[p] = Xor(c[p], <<key, nonce, Ctr(p), Place(p)>>)
<1>1. ASSUME NEW p \in 1..Len(c)
      PROVE  /\ Masked(c)[p] = Xor(c[p], <<key, nonce, Ctr(p), Place(p)>>)
             /\ Masked(c)[p] \in Byte
  <2>1. Masked(c)[p] = Xor(c[p], <<key, nonce, Ctr(p), Place(p)>>)
    BY DEF Masked, Ctr, Place, W, B
  <2>2. <<key, nonce, Ctr(p), Place(p)>> \in Streams /\ c[p] \in Byte
    BY StreamType
  <2> QED
    BY <2>1, <2>2, XorIs
<1>2. Masked(c) = [p \in 1..Len(c) |-> Masked(c)[p]] /\ Len(c) \in Nat
  BY DEF Masked
<1>3. PICK m : m = Masked(c)
  OBVIOUS
<1>4. m \in Seq(Byte) /\ Len(m) = Len(c)
  BY <1>1, <1>2, <1>3, SequenceOf
<1> QED
  BY <1>1, <1>3, <1>4

(* All of the output is what the whole of what could be read makes. *)
LEMMA MadeIs ==
  ASSUME Types, RunInv, Using, NEW o \in Seq(Byte), OutputTo(o, Len(Readable))
  PROVE  o = Made
<1>1. PICK s \in Seq(Byte) : s = Readable
  BY ReadableIs
<1>2. nonce \in Seq(Byte) /\ Len(nonce) = N /\ N \in Nat
  <2>1. nonce \in [1..N -> Raw]
    BY DEF RunInv, Headers
  <2> QED
    BY <2>1, RawIs, Sizes
<1>3. CASE flag = 0
  <2>1. PICK m \in Seq(Byte) : m = Masked(s)
    BY MaskedIs
  <2>2. /\ Len(m) = Len(s)
        /\ \A p \in 1..Len(s) :
             m[p] = Xor(s[p], <<key, nonce, Ctr(p), Place(p)>>)
    BY <2>1, MaskedIs
  <2>3. /\ EncryptedIs(o, key, s) /\ FirstOf(o, N) = nonce
        /\ \A k \in 1..N : o[k] = nonce[k]
    BY <1>1, <1>3, OutputEncrypts
  <2>4. PICK h \in Seq(Byte) : h = nonce /\ Len(h) = N
    BY <1>2
  <2>5. /\ h \o m \in Seq(Byte) /\ Len(h \o m) = N + Len(s)
        /\ \A k \in 1..N : (h \o m)[k] = h[k]
        /\ \A p \in 1..Len(s) : (h \o m)[N + p] = m[p]
    BY <2>2, <2>4, ConcatIs
  <2>6. \A p \in 1..Len(s) : o[N + p] = m[p]
    BY <2>2, <2>3 DEF EncryptedIs
  <2>7. ASSUME NEW k \in 1..Len(o) PROVE o[k] = (h \o m)[k]
    <3>1. Len(o) = N + Len(s)
      BY <2>3 DEF EncryptedIs
    <3>2. CASE k <= N
      <4>1. k \in 1..N
        BY <1>2, <3>2
      <4> QED
        BY <2>3, <2>4, <2>5, <4>1
    <3>3. CASE k > N
      <4>1. k - N \in 1..Len(s) /\ N + (k - N) = k
        BY <1>2, <3>1, <3>3
      <4>2. PICK p \in 1..Len(s) : N + p = k
        BY <4>1
      <4>3. o[N + p] = (h \o m)[N + p]
        BY <2>5, <2>6
      <4> QED
        BY <4>2, <4>3
    <3>4. k <= N \/ k > N
      BY <1>2
    <3> QED
      BY <3>2, <3>3, <3>4
  <2>8. o = h \o m
    BY <2>3, <2>5, <2>7, SameSequence DEF EncryptedIs
  <2> QED
    BY <1>1, <1>3, <2>1, <2>4, <2>8 DEF Made
<1>4. CASE flag = 1
  <2>1. Len(s) >= N
    BY <1>1, <1>4, ReadableIs, BufferSize DEF RunInv, Using
  <2>2. PICK d \in Seq(Byte) : d = AfterFirst(s, N)
    <3>1. AfterFirst(s, N) \in Seq(Byte)
      BY <1>2, AfterFirstIs
    <3> QED
      BY <3>1
  <2>3. Len(d) = Len(s) - N /\ \A k \in 1..Len(d) : d[k] = s[k + N]
    <3>1. N \in Nat /\ Len(s) \in Nat /\ (N < Len(s) \/ Len(s) - N = 0)
      BY <1>2, <2>1
    <3>2. /\ Len(d) = IF N < Len(s) THEN Len(s) - N ELSE 0
          /\ \A k \in 1..Len(d) : d[k] = s[N + k]
      BY <2>2, <3>1, AfterFirstIs
    <3>3. \A k \in 1..Len(d) : N + k = k + N
      BY <3>1
    <3> QED
      BY <3>1, <3>2, <3>3
  <2>4. PICK m \in Seq(Byte) : m = Masked(d)
    BY MaskedIs
  <2>5. /\ Len(m) = Len(d)
        /\ \A p \in 1..Len(d) :
             m[p] = Xor(d[p], <<key, nonce, Ctr(p), Place(p)>>)
    BY <2>4, MaskedIs
  <2>6. /\ Len(o) = Len(s) - N
        /\ \A k \in 1..Len(o) :
             o[k] = Xor(s[k + N], <<key, nonce, Ctr(k), Place(k)>>)
    BY <1>1, <1>4 DEF OutputTo, OutByte, InputAt, BodyAt
  <2>7. ASSUME NEW k \in 1..Len(o) PROVE o[k] = m[k]
    BY <2>3, <2>5, <2>6
  <2>8. o = m
    BY <2>3, <2>5, <2>6, <2>7, SameSequence
  <2> QED
    BY <1>1, <1>4, <2>2, <2>4, <2>8 DEF Made, N
<1> QED
  BY <1>3, <1>4 DEF Types

(***************************************************************************)
(* What exit status 0 is worth (file_io.h "Returns 1 on success").  The    *)
(* run has made the header and every byte it could read, masked with the   *)
(* keystream byte of its own position, whatever the sizes of block and     *)
(* buffer and wherever the counter wraps.  That is all of the input unless *)
(* the input is the output, and all of it is on the disk unless fclose     *)
(* failed, which costs at most a buffer full at the end.                   *)
(***************************************************************************)
THEOREM FileComplete == Spec => []Complete
<1>1. ASSUME CryptInv PROVE Complete
  <2>0. Types /\ RunInv /\ OutputInv
    BY <1>1 DEF CryptInv
  <2>1. TypeOK
    BY <2>0 DEF Types, TypeOK, W
  <2>2. ASSUME pc = "exited", status = 0
        PROVE  \E lost \in 0..BUFFER :
                 /\ closed <=> lost = 0
                 /\ lost <= Len(Made) /\ disk[out] = FirstOf(Made, Len(Made) - lost)
    <3>1. PICK w \in Seq(Byte) :
            /\ OutputTo(w, Len(Readable)) /\ Begins(disk[out], w)
            /\ Missing(w) \in 0..BUFFER
            /\ closed => Missing(w) = 0
            /\ ~closed => Missing(w) # 0
      BY <2>0, <2>2 DEF OutputInv
    <3>2. w = Made
      BY <2>0, <2>2, <3>1, MadeIs DEF Using
    <3>3. PICK o \in Seq(Byte) : o = disk[out]
      BY <2>0, OutIs DEF Types
    <3>4. PICK lost \in 0..BUFFER : lost = Missing(w)
      BY <3>1
    <3>5. /\ Len(w) - lost = Len(o) /\ lost <= Len(w) /\ Len(o) <= Len(w)
          /\ \A k \in 1..Len(o) : o[k] = w[k]
      BY <3>1, <3>3, <3>4, BufferSize DEF Missing, Begins
    <3>6. o = FirstOf(w, Len(w) - lost)
      <4>1. Len(w) - lost \in Nat
        BY <3>5
      <4>2. PICK n \in Nat : n = Len(w) - lost /\ n = Len(o) /\ n <= Len(w)
        BY <3>5, <4>1
      <4>3. PICK u \in Seq(Byte) : u = FirstOf(w, n)
        BY FirstOfIs
      <4>4. Len(u) = n /\ \A k \in 1..Len(u) : u[k] = w[k]
        BY <4>2, <4>3, FirstOfIs
      <4>5. u = o
        BY <3>5, <4>2, <4>4, SameSequence
      <4> QED
        BY <4>2, <4>3, <4>5
    <3>7. closed <=> lost = 0
      BY <3>1, <3>4
    <3> QED
      BY <3>2, <3>3, <3>5, <3>6, <3>7
  <2> QED
    BY <2>1, <2>2 DEF Complete
<1> QED
  BY <1>1, CryptHolds, PTL

(***************************************************************************)
(* Decrypting the intact encrypted file under the key it was made with     *)
(* gives back what was encrypted, whatever runs lie in between: the XORs   *)
(* cancel, byte by byte.                                                   *)
(***************************************************************************)
THEOREM FileRoundTrip == Spec => []RoundTrip
<1>1. ASSUME CryptInv PROVE RoundTrip
  <2> SUFFICES ASSUME pc = "exited", status = 0, closed, flag = 1,
                      input = "encrypted_output.dat",
                      sealed # None, sealed.key = key
               PROVE  disk[out] = sealed.content
    BY DEF RoundTrip
  <2>0. Types /\ RunInv /\ OutputInv
    BY <1>1 DEF CryptInv
  <2>1. Using /\ input # out
    BY DEF Using, out
  <2>2. PICK o \in Seq(Byte) : o = disk[out]
    BY <2>0, OutIs DEF Types
  <2>3. PICK e \in Seq(Byte) : e = Readable
    BY <2>0, ReadableIs
  <2>4. PICK c \in Seq(Byte) : c = sealed.content
    BY <1>1 DEF CryptInv, SealedInv
  <2>5. EncryptedIs(e, key, c)
    <3>1. e = disk["encrypted_output.dat"]
      BY <1>1, <2>0, <2>1, <2>3, ReadableIs DEF CryptInv, StreamInv
    <3> QED
      BY <1>1, <2>4, <3>1 DEF CryptInv, SealedInv
  <2>6. nonce = FirstOf(e, N) /\ N \in Nat
    <3>1. e = given
      BY <2>0, <2>1, <2>3, ReadableIs
    <3> QED
      BY <2>0, <2>1, <2>5, <3>1, Sizes DEF RunInv, EncryptedIs
  <2>7. OutputTo(o, Len(e))
    <3>1. PICK w \in Seq(Byte) :
            /\ OutputTo(w, Len(Readable)) /\ Begins(disk[out], w)
            /\ Missing(w) = 0
      BY <2>0 DEF OutputInv
    <3>2. w = o
      BY <2>2, <3>1, SameSequence DEF Missing, Begins
    <3> QED
      BY <2>3, <3>1, <3>2
  <2>8. Len(o) = Len(c)
    BY <2>5, <2>6, <2>7 DEF OutputTo, EncryptedIs
  <2>9. ASSUME NEW k \in 1..Len(o) PROVE o[k] = c[k]
    <3> DEFINE s == <<key, nonce, Ctr(k), Place(k)>>
    <3>1. s \in Streams
      BY <2>0, <2>1, StreamType
    <3>2. o[k] = Xor(e[k + N], s)
      BY <2>3, <2>7 DEF OutputTo, OutByte, InputAt, BodyAt
    <3>3. e[N + k] = Xor(c[k], s)
      BY <2>5, <2>6, <2>8 DEF EncryptedIs
    <3>4. N + k = k + N
      BY <2>6
    <3>5. c[k] \in Byte
      BY <2>8
    <3> HIDE DEF s
    <3> QED
      BY <3>1, <3>2, <3>3, <3>4, <3>5, XorIs
  <2> QED
    BY <2>2, <2>4, <2>8, <2>9, SameSequence
<1> QED
  BY <1>1, CryptHolds, PTL

(***************************************************************************)
(* No keystream byte masks two bytes of a file that has no more blocks     *)
(* than the counter has values, whatever runs have written to it, failed   *)
(* and killed ones included, as long as none has taken for a header what   *)
(* was none.                                                               *)
(***************************************************************************)
THEOREM FileKeystreamUsedOnce == Spec => []KeystreamUsedOnce
<1>1. ASSUME CryptInv PROVE KeystreamUsedOnce
  <2> SUFFICES ASSUME NEW f \in Paths \ displaced,
                      Body(f) <= CHACHA_BLOCK * CounterValues,
                      NEW p \in DOMAIN disk[f], NEW q \in DOMAIN disk[f],
                      p # q, NEW m \in disk[f][p][2], m \in disk[f][q][2]
               PROVE  FALSE
    BY DEF KeystreamUsedOnce
  <2>1. PICK s \in Seq(Byte) : s = disk[f] /\ InPlace(f, s)
    BY <1>1 DEF CryptInv, Types, PlaceInv
  <2>2. p \in 1..Len(s) /\ q \in 1..Len(s)
    BY <2>1
  <2> DEFINE At(k) == IF HasHeader(f) THEN k - N ELSE k
  <2>3. ASSUME NEW k \in 1..Len(s), m \in s[k][2]
        PROVE  /\ At(k) \in 1..(B * W)
               /\ m[3] = Ctr(At(k)) /\ m[4] = Place(At(k))
    <3>1. ~(HasHeader(f) /\ k <= N)
      BY <2>1, <2>3, RawIs DEF InPlace
    <3>2. m[3] = Ctr(At(k)) /\ m[4] = Place(At(k))
      BY <2>1, <2>3, <3>1 DEF InPlace
    <3>3. At(k) \in 1..Body(f)
      BY <2>1, <3>1, Sizes DEF Body, HasHeader, N
    <3>4. Body(f) <= B * W /\ B * W \in Nat /\ Body(f) \in Int
      BY <2>1, Sizes DEF B, W, Body, N
    <3> QED
      BY <3>2, <3>3, <3>4
  <2>4. At(p) = At(q)
    BY <2>1, <2>2, <2>3, PlacesDiffer
  <2> QED
    BY <2>2, <2>4, Sizes
<1> QED
  BY <1>1, CryptHolds, PTL

(***************************************************************************)
(* A run changes a file only when it could open its input and, decrypting, *)
(* found a nonce in it.                                                    *)
(***************************************************************************)
THEOREM FileOldOutputKept == Spec => OldOutputKept
<1>1. CryptInv /\ [Next]_vars =>
        [disk' # disk => /\ input \in exists
                         /\ flag = 1 => Len(given) >= NONCE_SIZE]_vars
  <2> SUFFICES ASSUME CryptInv, [Next]_vars, disk' # disk
               PROVE  /\ input \in exists
                      /\ flag = 1 => Len(given) >= NONCE_SIZE
    OBVIOUS
  <2>1. WriteStep \/ OpenOut
    BY ByKind
    DEF Refuse, Start, Leaves, OpenInFails, ReadNonceFails, OpenOutFails,
        FailTo, OpenIn, ReadNonce, ReadFails, EndOfInput, Kill, vars, files
  <2>2. pc \in {"open_out", "header", "xor", "close"}
    BY <2>1, WriteSteps DEF OpenOut, Goto
  <2> QED
    BY <2>2 DEF CryptInv, RunInv, Using, N
<1> QED
  BY <1>1, CryptHolds, PTL DEF Spec, OldOutputKept
=============================================================================
