-------------------------------- MODULE Words --------------------------------
(***************************************************************************)
(* uint32_t and the operations of sha256.c, chacha20.c and common.h on it. *)
(* A word is the set of the positions of its 1 bits.                       *)
(***************************************************************************)
EXTENDS Integers, Sequences, FiniteSetsExt

Bits == 0..31

(* bits of a number below 2^16; TLC's integers are too short for more *)
BitsOf(n) == {b \in 0..15 : (n \div 2^b) % 2 = 1}

Up(x, n) == {b + n : b \in x}

(* the literal 0x<hi><lo> *)
W(hi, lo) == BitsOf(lo) \cup Up(BitsOf(hi), 16)

(* (uint8_t)(x >> 8 * n) *)
ByteAt(x, n) ==
  MapThenSumSet(LAMBDA b : 2^(b - 8 * n), x \cap ((8 * n)..(8 * n + 7)))

(* four bytes, the most significant one first *)
BigEndian(p) == W(256 * p[1] + p[2], 256 * p[3] + p[4])

(* mutant of load32_le *)
load32_be(p) == BigEndian(p)

load32_le(p) == BigEndian(<<p[4], p[3], p[2], p[1]>>)

x (+) y == (x \ y) \cup (y \ x)        \* x ^ y

Complement(x) == Bits \ x              \* ~x

rotl32(x, n) == {(b + n) % 32 : b \in x}
rotr32(x, n) == {(b - n) % 32 : b \in x}
ShiftRight(x, n) == {b - n : b \in x} \cap Bits

(* x + y modulo 2^32: the carries are added until there are none left *)
Add(x, y) ==
  LET add[p \in (SUBSET Bits) \X (SUBSET Bits)] ==
        IF p[2] = {} THEN p[1]
        ELSE add[<<p[1] (+) p[2], Up(p[1] \cap p[2], 1) \cap Bits>>]
  IN  add[<<x, y>>]
=============================================================================
