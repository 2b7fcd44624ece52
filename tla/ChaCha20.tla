------------------------------- MODULE ChaCha20 -------------------------------
(***************************************************************************)
(* chacha20_block ("crypto and auth/chacha20.c"): one quarter_round after  *)
(* the other over the working copy of the state, then the feed-forward.    *)
(***************************************************************************)
EXTENDS Words

CONSTANT
  Vectors   \* test vectors: records of key, nonce, counter and block

VARIABLES
  state,    \* the 16 words made of constants, key, counter and nonce
  ws,       \* the working copy
  quarter,  \* quarter rounds done, of the 80
  out       \* the 64 bytes of keystream, when they are complete

vars == <<state, ws, quarter, out>>

Sigma == <<W(\h6170, \h7865), W(\h3320, \h646e), W(\h7962, \h2d32),
           W(\h6b20, \h6574)>>

(* the n-th word of a byte array *)
WordAt(bytes, n) == load32_le(SubSeq(bytes, 4 * n - 3, 4 * n))

InitialState(key, nonce, counter) ==
  Sigma \o [n \in 1..8 |-> WordAt(key, n)] \o <<W(0, counter)>>
        \o [n \in 1..3 |-> WordAt(nonce, n)]

(* The words of each quarter round of a double round: four columns, then   *)
(* four diagonals.                                                         *)
Lanes == <<<<1, 5,  9, 13>>, <<2, 6, 10, 14>>, <<3, 7, 11, 15>>, <<4, 8, 12, 16>>,
           <<1, 6, 11, 16>>, <<2, 7, 12, 13>>, <<3, 8,  9, 14>>, <<4, 5, 10, 15>>>>

(* mutant of Half: the word is rotated before it is mixed *)
HalfUnmixed(q, n, m) ==
  LET a == Add(q[1], q[2])
      d == rotl32(q[4], n) (+) a
      c == Add(q[3], d)
  IN  <<a, rotl32(q[2] (+) c, m), c, d>>

(* two of the four lines of quarter_round *)
Half(q, n, m) ==
  LET a == Add(q[1], q[2])
      d == rotl32(q[4] (+) a, n)
      c == Add(q[3], d)
  IN  <<a, rotl32(q[2] (+) c, m), c, d>>

quarter_round(q) == Half(Half(q, 16, 12), 8, 7)

Place(s, lane, q) ==
  [s EXCEPT ![lane[1]] = q[1], ![lane[2]] = q[2],
            ![lane[3]] = q[3], ![lane[4]] = q[4]]

Start(v) ==
  /\ state = InitialState(v.key, v.nonce, v.counter)
  /\ ws = state
  /\ quarter = 0
  /\ out = <<>>

QuarterRound ==
  /\ quarter < 80
  /\ LET lane == Lanes[(quarter % 8) + 1]
     IN  ws' = Place(ws, lane, quarter_round([k \in 1..4 |-> ws[lane[k]]]))
  /\ quarter' = quarter + 1
  /\ UNCHANGED <<state, out>>

(* the original state is added back in; little-endian bytes *)
FeedForward ==
  /\ quarter = 80 /\ out = <<>>
  /\ out' = [k \in 1..64 |->
               LET n == ((k - 1) \div 4) + 1
               IN  ByteAt(Add(ws[n], state[n]), (k - 1) % 4)]
  /\ UNCHANGED <<state, ws, quarter>>

Next == QuarterRound \/ FeedForward

Over == out # <<>>

-----------------------------------------------------------------------------

(***************************************************************************)
(* The block is the one RFC 8439 gives for this key, nonce and counter     *)
(* (chacha20.c:2).  Encrypting and decrypting with the same wrong block    *)
(* function would still round-trip, so nothing else notices a slip here.   *)
(***************************************************************************)
MatchesRFC8439 ==
  out # <<>> =>
    \E v \in Vectors :
      /\ state = InitialState(v.key, v.nonce, v.counter)
      /\ out = v.block
=============================================================================
