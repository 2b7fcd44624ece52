-------------------------- MODULE ArrayQueue_proofs --------------------------
(***************************************************************************)
(* Theorems about the loops of garage-simulator/queue.c, for arrays of any *)
(* length and every priority and arrival time.  First what the operators   *)
(* of VehicleQueue keep of a queue and determine, then the inductive       *)
(* invariant of the loops, then the theorems.                              *)
(***************************************************************************)
EXTENDS ArrayQueue, FiniteSetTheorems, WellFoundedInduction, TLAPS

(***************************************************************************)
(* A set of naturals with a bound has a largest element: Max, a CHOOSE, is *)
(* what its name says.  The distances to the bound have a least element    *)
(* because < is well-founded.                                              *)
(***************************************************************************)
LEMMA MaxOfBounded ==
  ASSUME NEW n \in Nat, NEW T \in SUBSET (0..n), T # {}
  PROVE  /\ Max(T) \in T
         /\ \A y \in T : y <= Max(T)
<1> DEFINE R == {p \in Nat \X Nat : p[1] < p[2]}
           D == {d \in 0..n : n - d \in T}
<1>1. IsWellFoundedOn(OpToRel(<, Nat), Nat)
  BY NatLessThanWellFounded
<1>2. OpToRel(<, Nat) = R
  BY DEF OpToRel
<1>3. D \subseteq Nat /\ D # {}
  <2>1. PICK x \in T : TRUE
    OBVIOUS
  <2>2. x \in 0..n /\ n - (n - x) = x /\ n - x \in 0..n
    BY <2>1
  <2>3. n - x \in D
    BY <2>1, <2>2
  <2>4. D # {}
    <3> HIDE DEF D
    <3> QED
      BY <2>3
  <2> QED
    BY <2>4
<1>4. \E d \in D : \A e \in D : <<e, d>> \notin R
  <2> HIDE DEF D, R
  <2> QED
    BY <1>1, <1>2, <1>3, WFMin
<1>5. PICK d \in D : \A e \in D : <<e, d>> \notin R
  BY <1>4
<1>6. ASSUME NEW e \in D PROVE d <= e
  <2>1. <<e, d>> \notin R
    BY <1>5
  <2>2. e \in Nat /\ d \in Nat
    BY <1>3
  <2>3. ~ e < d
    BY <2>1, <2>2
  <2> QED
    BY <2>2, <2>3
<1>7. ASSUME NEW y \in T PROVE y <= n - d
  <2>1. n - (n - y) = y /\ n - y \in 0..n /\ y \in 0..n
    OBVIOUS
  <2>2. n - y \in D
    BY <2>1
  <2> QED
    BY <2>1, <2>2, <1>6
<1>8. n - d \in T /\ \A y \in T : n - d >= y
  BY <1>7
<1>9. Max(T) \in T /\ \A y \in T : Max(T) >= y
  <2> HIDE DEF D
  <2> QED
    BY <1>8, Zenon DEF Max
<1> QED
  BY <1>9

-----------------------------------------------------------------------------
(* Sequences *)

LEMMA PrefixIs ==
  ASSUME NEW S, NEW q \in Seq(S), NEW u \in 0..Len(q)
  PROVE  /\ SubSeq(q, 1, u) \in Seq(S)
         /\ Len(SubSeq(q, 1, u)) = u
         /\ \A k \in 1..u : SubSeq(q, 1, u)[k] = q[k]
OBVIOUS

LEMMA SuffixIs ==
  ASSUME NEW S, NEW q \in Seq(S), NEW u \in 1..(Len(q) + 1)
  PROVE  /\ SubSeq(q, u, Len(q)) \in Seq(S)
         /\ Len(SubSeq(q, u, Len(q))) = Len(q) - u + 1
         /\ \A k \in 1..(Len(q) - u + 1) :
              SubSeq(q, u, Len(q))[k] = q[u + k - 1]
OBVIOUS

LEMMA ConcatIs ==
  ASSUME NEW S, NEW q \in Seq(S), NEW r \in Seq(S)
  PROVE  /\ q \o r \in Seq(S)
         /\ Len(q \o r) = Len(q) + Len(r)
         /\ \A k \in 1..(Len(q) + Len(r)) :
              (q \o r)[k] = IF k <= Len(q) THEN q[k] ELSE r[k - Len(q)]
OBVIOUS

(* InsertAt puts c at position u and moves what was there and behind. *)
InsertedAt(r, q, u, c) ==
  /\ Len(r) = Len(q) + 1
  /\ \A k \in 1..(Len(q) + 1) :
       r[k] = IF k < u THEN q[k] ELSE IF k = u THEN c ELSE q[k - 1]

LEMMA InsertAtIs ==
  ASSUME NEW S, NEW q \in Seq(S), NEW u \in 1..(Len(q) + 1), NEW c \in S
  PROVE  /\ InsertAt(q, u, c) \in Seq(S)
         /\ InsertedAt(InsertAt(q, u, c), q, u, c)
<1> DEFINE front == SubSeq(q, 1, u - 1)
           back == SubSeq(q, u, Len(q))
           upTo == front \o <<c>>
<1>1. /\ front \in Seq(S) /\ Len(front) = u - 1
      /\ \A k \in 1..(u - 1) : front[k] = q[k]
  BY PrefixIs
<1>2. /\ back \in Seq(S) /\ Len(back) = Len(q) - u + 1
      /\ \A k \in 1..(Len(q) - u + 1) : back[k] = q[u + k - 1]
  BY SuffixIs
<1>3. <<c>> \in Seq(S) /\ Len(<<c>>) = 1 /\ <<c>>[1] = c
  OBVIOUS
<1> HIDE DEF front, back
<1>4. /\ upTo \in Seq(S) /\ Len(upTo) = u
      /\ \A k \in 1..u : upTo[k] = IF k < u THEN q[k] ELSE c
  <2>1. /\ upTo \in Seq(S) /\ Len(upTo) = (u - 1) + 1
        /\ \A k \in 1..u : upTo[k] = IF k <= u - 1 THEN front[k]
                                     ELSE <<c>>[k - (u - 1)]
    BY <1>1, <1>3, ConcatIs
  <2> QED
    BY <2>1, <1>1, <1>3
<1> HIDE DEF upTo
<1>5. InsertAt(q, u, c) = upTo \o back
  BY DEF InsertAt, front, back, upTo
<1>6. /\ upTo \o back \in Seq(S)
      /\ Len(upTo \o back) = Len(q) + 1
      /\ \A k \in 1..(Len(q) + 1) :
           (upTo \o back)[k] = IF k <= u THEN upTo[k] ELSE back[k - u]
  BY <1>2, <1>4, ConcatIs
<1>7. ASSUME NEW k \in 1..(Len(q) + 1), k > u
      PROVE  back[k - u] = q[k - 1]
  BY <1>2, <1>7
<1>8. InsertedAt(upTo \o back, q, u, c)
  BY <1>4, <1>6, <1>7 DEF InsertedAt
<1> QED
  BY <1>5, <1>6, <1>8

-----------------------------------------------------------------------------
(* The order of the vehicles *)

Ranked(S, prio, time) ==
  \A c \in S : prio[c] \in Int /\ time[c] \in Int

LEMMA OutranksOrder ==
  ASSUME NEW S, NEW prio, NEW time, Ranked(S, prio, time)
  PROVE  /\ \A c, d \in S :
              Outranks(prio, time, c, d) =>
                ~Outranks(prio, time, d, c)
         /\ \A c, d, e \in S :
              /\ ~Outranks(prio, time, c, d)
              /\ ~Outranks(prio, time, d, e)
              => ~Outranks(prio, time, c, e)
BY DEF Ranked, Outranks

(***************************************************************************)
(* The shift loop puts c behind the first p vehicles: the last of them is  *)
(* not outranked by c, and all behind them are.                            *)
(***************************************************************************)
PlacedBehind(r, q, c, p, prio, time) ==
  /\ Len(r) = Len(q) + 1
  /\ \A k \in 1..(Len(q) + 1) :
       r[k] = IF k <= p THEN q[k] ELSE IF k = p + 1 THEN c ELSE q[k - 1]
  /\ p > 0 => ~Outranks(prio, time, c, q[p])
  /\ \A k \in (p + 1)..Len(q) : Outranks(prio, time, c, q[k])

LEMMA InsertSortedIs ==
  ASSUME NEW S, NEW q \in Seq(S), NEW c \in S,
         NEW prio, NEW time
  PROVE  /\ InsertSorted(q, c, prio, time) \in Seq(S)
         /\ \E p \in 0..Len(q) :
              PlacedBehind(InsertSorted(q, c, prio, time), q, c, p,
                           prio, time)
<1> DEFINE stops == {u \in 1..Len(q) : ~Outranks(prio, time, c, q[u])}
           T == stops \cup {0}
           p == Max(T)
           r == InsertSorted(q, c, prio, time)
<1>1. Len(q) \in Nat /\ T \in SUBSET (0..Len(q)) /\ T # {}
  OBVIOUS
<1>2. p \in T /\ \A y \in T : y <= p
  <2> HIDE DEF T
  <2> QED
    BY <1>1, MaxOfBounded
<1>3. r = InsertAt(q, p + 1, c)
  BY DEF InsertSorted
<1>4. p \in 0..Len(q)
  BY <1>1, <1>2
<1>5. p > 0 => ~Outranks(prio, time, c, q[p])
  BY <1>2
<1>6. ASSUME NEW k \in (p + 1)..Len(q)
      PROVE  Outranks(prio, time, c, q[k])
  <2>1. k \in 1..Len(q) /\ ~ k <= p
    BY <1>4
  <2>2. k \notin T
    BY <2>1, <1>2
  <2> QED
    BY <2>1, <2>2
<1> HIDE DEF p, r
<1>7. p + 1 \in 1..(Len(q) + 1)
  BY <1>4
<1>8. /\ r \in Seq(S) /\ Len(r) = Len(q) + 1
      /\ \A k \in 1..(Len(q) + 1) :
           r[k] = IF k < p + 1 THEN q[k] ELSE IF k = p + 1 THEN c ELSE q[k - 1]
  <2>1. r \in Seq(S) /\ InsertedAt(r, q, p + 1, c)
    BY <1>3, <1>7, InsertAtIs
  <2> QED
    BY <2>1 DEF InsertedAt
<1>9. PlacedBehind(r, q, c, p, prio, time)
  BY <1>4, <1>5, <1>6, <1>8 DEF PlacedBehind
<1> QED
  BY <1>4, <1>8, <1>9 DEF r

(* What was sorted is sorted with c in its place. *)
LEMMA PlacedSorted ==
  ASSUME NEW S, NEW q \in Seq(S), NEW c \in S, NEW r \in Seq(S),
         NEW prio, NEW time, Ranked(S, prio, time),
         NEW p \in 0..Len(q),
         PlacedBehind(r, q, c, p, prio, time),
         InRankOrder(q, prio, time)
  PROVE  InRankOrder(r, prio, time)
<1> DEFINE Above(d, e) == Outranks(prio, time, d, e)
<1>1. /\ \A d, e \in S : Above(d, e) => ~Above(e, d)
      /\ \A d, e, f \in S : ~Above(d, e) /\ ~Above(e, f) => ~Above(d, f)
  BY OutranksOrder
<1>2. \A k \in 1..Len(q) : q[k] \in S
  OBVIOUS
<1>3. \A u, w \in 1..Len(q) : u < w => ~Above(q[w], q[u])
  BY DEF InRankOrder
<1>4. /\ p > 0 => ~Above(c, q[p])
      /\ \A k \in (p + 1)..Len(q) : Above(c, q[k])
      /\ Len(r) = Len(q) + 1
      /\ \A k \in 1..(Len(q) + 1) :
           r[k] = IF k <= p THEN q[k] ELSE IF k = p + 1 THEN c ELSE q[k - 1]
  BY DEF PlacedBehind
<1> SUFFICES ASSUME NEW u \in 1..Len(r), NEW w \in 1..Len(r), u < w
             PROVE  ~Above(r[w], r[u])
  BY DEF InRankOrder
<1> HIDE DEF Above
<1>5. CASE u = p + 1
  <2>1. r[u] = c /\ r[w] = q[w - 1] /\ w - 1 \in (p + 1)..Len(q)
    BY <1>4, <1>5
  <2> QED
    BY <2>1, <1>1, <1>2, <1>4
<1>6. CASE w = p + 1
  <2>1. r[w] = c /\ r[u] = q[u] /\ u \in 1..p /\ p \in 1..Len(q)
    BY <1>4, <1>6
  <2>2. ~Above(c, q[p])
    BY <2>1, <1>4
  <2>3. CASE u = p
    BY <2>1, <2>2, <2>3
  <2>4. CASE u # p
    <3>1. u < p /\ u \in 1..Len(q)
      BY <2>1, <2>4
    <3>2. ~Above(q[p], q[u])
      BY <2>1, <3>1, <1>3
    <3> QED
      BY <2>1, <2>2, <3>1, <3>2, <1>1, <1>2
  <2> QED
    BY <2>3, <2>4
<1>7. CASE u # p + 1 /\ w # p + 1
  <2>1. PICK k, l \in 1..Len(q) : k < l /\ r[u] = q[k] /\ r[w] = q[l]
    <3>1. CASE w <= p
      <4>1. r[u] = q[u] /\ r[w] = q[w] /\ u \in 1..Len(q) /\ w \in 1..Len(q)
        BY <3>1, <1>4
      <4> QED
        BY <4>1
    <3>2. CASE u <= p /\ w > p + 1
      <4>1. r[u] = q[u] /\ r[w] = q[w - 1] /\ u < w - 1
            /\ u \in 1..Len(q) /\ w - 1 \in 1..Len(q)
        BY <3>2, <1>4
      <4> QED
        BY <4>1
    <3>3. CASE u > p + 1
      <4>1. r[u] = q[u - 1] /\ r[w] = q[w - 1] /\ u - 1 < w - 1
            /\ u - 1 \in 1..Len(q) /\ w - 1 \in 1..Len(q)
        BY <3>3, <1>4
      <4> QED
        BY <4>1
    <3> QED
      BY <3>1, <3>2, <3>3, <1>7
  <2> QED
    BY <2>1, <1>3
<1> QED
  BY <1>5, <1>6, <1>7

(***************************************************************************)
(* One outer iteration of insertion_sort takes entry u + 1 out and puts it *)
(* behind the first p of the u entries in front of it.                     *)
(***************************************************************************)
StepTo(r, q, u, p) ==
  /\ Len(r) = Len(q)
  /\ \A k \in 1..Len(q) :
       r[k] = IF k <= p THEN q[k]
              ELSE IF k = p + 1 THEN q[u + 1]
              ELSE IF k <= u + 1 THEN q[k - 1]
              ELSE q[k]

(* where the shift loop of this iteration stops *)
StopsBehind(q, u, p, prio, time) ==
  /\ p > 0 => ~Outranks(prio, time, q[u + 1], q[p])
  /\ \A k \in (p + 1)..u : Outranks(prio, time, q[u + 1], q[k])

LEMMA SortStepIs ==
  ASSUME NEW S, NEW q \in Seq(S), NEW u \in 1..(Len(q) - 1),
         NEW prio, NEW time, Ranked(S, prio, time)
  PROVE  LET r == SortStep(q, u, prio, time) IN
         /\ r \in Seq(S)
         /\ \E p \in 0..u :
              StepTo(r, q, u, p) /\ StopsBehind(q, u, p, prio, time)
         /\ InRankOrder(SubSeq(q, 1, u), prio, time) =>
              InRankOrder(SubSeq(r, 1, u + 1), prio, time)
<1> DEFINE front == SubSeq(q, 1, u)
           back == SubSeq(q, u + 2, Len(q))
           c == q[u + 1]
           new == InsertSorted(front, c, prio, time)
           r == new \o back
<1>1. front \in Seq(S) /\ Len(front) = u /\ \A k \in 1..u : front[k] = q[k]
  BY PrefixIs
<1>2. /\ back \in Seq(S) /\ Len(back) = Len(q) - u - 1
      /\ \A k \in 1..(Len(q) - u - 1) : back[k] = q[u + k + 1]
  <2> DEFINE b == u + 2
  <2>1. b \in 1..(Len(q) + 1)
    OBVIOUS
  <2> HIDE DEF b
  <2>2. /\ SubSeq(q, b, Len(q)) \in Seq(S)
        /\ Len(SubSeq(q, b, Len(q))) = Len(q) - b + 1
        /\ \A k \in 1..(Len(q) - b + 1) :
             SubSeq(q, b, Len(q))[k] = q[b + k - 1]
    BY <2>1, SuffixIs
  <2> QED
    BY <2>2 DEF b
<1>3. c \in S
  OBVIOUS
<1> HIDE DEF front, back, c
<1>4. /\ new \in Seq(S)
      /\ \E p \in 0..Len(front) :
           PlacedBehind(new, front, c, p, prio, time)
  BY <1>1, <1>3, InsertSortedIs
<1>5. PICK p \in 0..u : PlacedBehind(new, front, c, p, prio, time)
  BY <1>1, <1>4
<1> HIDE DEF new
<1>6. /\ Len(new) = u + 1
      /\ \A k \in 1..(u + 1) :
           new[k] = IF k <= p THEN front[k]
                    ELSE IF k = p + 1 THEN c ELSE front[k - 1]
  BY <1>1, <1>5 DEF PlacedBehind
<1>7. /\ r \in Seq(S) /\ Len(r) = Len(q)
      /\ \A k \in 1..Len(q) :
           r[k] = IF k <= u + 1 THEN new[k] ELSE back[k - (u + 1)]
  <2>1. Len(new) + Len(back) = Len(q)
    BY <1>2, <1>6
  <2>2. /\ r \in Seq(S) /\ Len(r) = Len(new) + Len(back)
        /\ \A k \in 1..(Len(new) + Len(back)) :
             r[k] = IF k <= Len(new) THEN new[k] ELSE back[k - Len(new)]
    BY <1>2, <1>4, ConcatIs
  <2> QED
    BY <2>1, <2>2, <1>6
<1> HIDE DEF r
<1>8. StepTo(r, q, u, p)
  <2>1. ASSUME NEW k \in 1..Len(q), k > u + 1
        PROVE  back[k - (u + 1)] = q[k]
    BY <1>2, <2>1
  <2>2. ASSUME NEW k \in 1..Len(q), k <= u + 1
        PROVE  new[k] = IF k <= p THEN q[k]
                        ELSE IF k = p + 1 THEN q[u + 1] ELSE q[k - 1]
    BY <1>1, <1>6, <2>2 DEF c
  <2> QED
    BY <1>7, <2>1, <2>2 DEF StepTo
<1>9. SubSeq(r, 1, u + 1) = new
  <2> DEFINE s == SubSeq(r, 1, u + 1)
  <2>1. s \in Seq(S) /\ Len(s) = u + 1 /\ \A k \in 1..(u + 1) : s[k] = r[k]
    <3> DEFINE b == u + 1
    <3>1. b \in 0..Len(r)
      BY <1>7
    <3> HIDE DEF b
    <3>2. /\ SubSeq(r, 1, b) \in Seq(S) /\ Len(SubSeq(r, 1, b)) = b
          /\ \A k \in 1..b : SubSeq(r, 1, b)[k] = r[k]
      BY <1>7, <3>1, PrefixIs
    <3> QED
      BY <3>2 DEF b
  <2> HIDE DEF s
  <2>2. \A k \in 1..(u + 1) : s[k] = new[k]
    BY <2>1, <1>7
  <2>3. s = new
    BY <2>1, <2>2, <1>4, <1>6
  <2> QED
    BY <2>3 DEF s
<1>10. InRankOrder(front, prio, time) =>
         InRankOrder(new, prio, time)
  BY <1>1, <1>3, <1>4, <1>5, PlacedSorted
<1>11. r = SortStep(q, u, prio, time)
  BY DEF SortStep, r, new, front, back, c
<1>12. StopsBehind(q, u, p, prio, time)
  <2>1. \A k \in 1..u : front[k] = q[k]
    BY <1>1
  <2>2. /\ p > 0 => ~Outranks(prio, time, c, front[p])
        /\ \A k \in (p + 1)..u : Outranks(prio, time, c, front[k])
    BY <1>1, <1>5 DEF PlacedBehind
  <2> QED
    BY <2>1, <2>2 DEF StopsBehind, c
<1> QED
  BY <1>7, <1>8, <1>9, <1>10, <1>11, <1>12 DEF front

-----------------------------------------------------------------------------
(* Nobody lost, nobody doubled *)

Occurs(d, q) == \E k \in 1..Len(q) : q[k] = d

NoRepeat(q) == \A k, l \in 1..Len(q) : q[k] = q[l] => k = l

LEMMA PlacedKeeps ==
  ASSUME NEW S, NEW q \in Seq(S), NEW c \in S, NEW r \in Seq(S),
         NEW prio, NEW time, NEW p \in 0..Len(q),
         PlacedBehind(r, q, c, p, prio, time)
  PROVE  /\ \A d : Occurs(d, r) <=> d = c \/ Occurs(d, q)
         /\ NoRepeat(q) /\ ~Occurs(c, q) => NoRepeat(r)
<1>1. /\ Len(q) \in Nat /\ Len(r) = Len(q) + 1
      /\ \A k \in 1..(Len(q) + 1) :
           r[k] = IF k <= p THEN q[k] ELSE IF k = p + 1 THEN c ELSE q[k - 1]
  BY DEF PlacedBehind
<1>2. ASSUME NEW d, Occurs(d, r) PROVE d = c \/ Occurs(d, q)
  <2>1. PICK k \in 1..Len(r) : r[k] = d
    BY <1>2 DEF Occurs
  <2>2. k <= p => k \in 1..Len(q) /\ q[k] = d
    BY <1>1, <2>1
  <2>3. k > p + 1 => k - 1 \in 1..Len(q) /\ q[k - 1] = d
    BY <1>1, <2>1
  <2>4. k = p + 1 => d = c
    BY <1>1, <2>1
  <2> QED
    BY <2>2, <2>3, <2>4, <1>1 DEF Occurs
<1>3. ASSUME NEW d, d = c \/ Occurs(d, q) PROVE Occurs(d, r)
  <2>1. CASE d = c
    <3>1. p + 1 \in 1..Len(r) /\ r[p + 1] = d
      BY <1>1, <2>1
    <3> QED
      BY <3>1 DEF Occurs
  <2>2. CASE Occurs(d, q)
    <3>1. PICK k \in 1..Len(q) : q[k] = d
      BY <2>2 DEF Occurs
    <3>2. k <= p => k \in 1..Len(r) /\ r[k] = d
      BY <1>1, <3>1
    <3>3. k > p => k + 1 \in 1..Len(r) /\ r[k + 1] = d
      <4> SUFFICES ASSUME k > p
                   PROVE  k + 1 \in 1..Len(r) /\ r[k + 1] = d
        OBVIOUS
      <4>1. k + 1 \in 1..(Len(q) + 1) /\ ~(k + 1 <= p) /\ k + 1 # p + 1
            /\ (k + 1) - 1 = k
        BY <1>1
      <4> QED
        BY <4>1, <1>1, <3>1
    <3> QED
      BY <3>2, <3>3 DEF Occurs
  <2> QED
    BY <1>3, <2>1, <2>2
<1>4. ASSUME NoRepeat(q), ~Occurs(c, q) PROVE NoRepeat(r)
  <2> DEFINE from(k) == IF k <= p THEN k ELSE k - 1
  <2>1. ASSUME NEW k \in 1..Len(r), k # p + 1
        PROVE  from(k) \in 1..Len(q) /\ r[k] = q[from(k)] /\ r[k] # c
    <3>1. from(k) \in 1..Len(q)
      BY <1>1, <2>1
    <3>2. r[k] = q[from(k)]
      BY <1>1, <2>1
    <3> HIDE DEF from
    <3> QED
      BY <1>4, <3>1, <3>2 DEF Occurs
  <2>2. ASSUME NEW k \in 1..Len(r), NEW l \in 1..Len(r), r[k] = r[l]
        PROVE  k = l
    <3>1. r[p + 1] = c
      BY <1>1
    <3>2. CASE k = p + 1 \/ l = p + 1
      BY <2>1, <2>2, <3>1, <3>2
    <3>3. CASE k # p + 1 /\ l # p + 1
      <4>1. from(k) = from(l)
        BY <1>4, <2>1, <2>2, <3>3 DEF NoRepeat
      <4> QED
        BY <4>1, <3>3, <1>1
    <3> QED
      BY <3>2, <3>3
  <2> QED
    BY <2>2 DEF NoRepeat
<1> QED
  BY <1>2, <1>3, <1>4

LEMMA StepKeeps ==
  ASSUME NEW S, NEW q \in Seq(S), NEW r \in Seq(S),
         NEW u \in 1..(Len(q) - 1), NEW p \in 0..u, StepTo(r, q, u, p)
  PROVE  /\ \A d : Occurs(d, r) <=> Occurs(d, q)
         /\ NoRepeat(q) => NoRepeat(r)
<1> DEFINE from(k) == IF k <= p THEN k
                      ELSE IF k = p + 1 THEN u + 1
                      ELSE IF k <= u + 1 THEN k - 1
                      ELSE k
           to(k) == IF k <= p THEN k
                    ELSE IF k <= u THEN k + 1
                    ELSE IF k = u + 1 THEN p + 1
                    ELSE k
<1>1. Len(q) \in Nat /\ Len(r) = Len(q)
  BY DEF StepTo
<1>2. \A k \in 1..Len(q) : from(k) \in 1..Len(q) /\ r[k] = q[from(k)]
  BY <1>1 DEF StepTo
<1>3. \A k \in 1..Len(q) : to(k) \in 1..Len(q) /\ from(to(k)) = k
  BY <1>1
<1>4. \A k, l \in 1..Len(q) : from(k) = from(l) => k = l
  BY <1>1
<1> HIDE DEF from, to
<1>5. ASSUME NEW d PROVE Occurs(d, r) <=> Occurs(d, q)
  <2>1. ASSUME NEW k \in 1..Len(r), r[k] = d PROVE Occurs(d, q)
    BY <1>1, <1>2, <2>1 DEF Occurs
  <2>2. ASSUME NEW k \in 1..Len(q), q[k] = d PROVE Occurs(d, r)
    <3>1. to(k) \in 1..Len(r) /\ r[to(k)] = d
      BY <1>1, <1>2, <1>3, <2>2
    <3> QED
      BY <3>1 DEF Occurs
  <2> QED
    BY <2>1, <2>2 DEF Occurs
<1>6. ASSUME NoRepeat(q), NEW k \in 1..Len(q), NEW l \in 1..Len(q), r[k] = r[l]
      PROVE  k = l
  <2>1. /\ from(k) \in 1..Len(q) /\ from(l) \in 1..Len(q)
        /\ q[from(k)] = q[from(l)]
    BY <1>2, <1>6
  <2>2. from(k) = from(l)
    BY <1>6, <2>1 DEF NoRepeat
  <2> QED
    BY <1>4, <2>2
<1>7. NoRepeat(q) => NoRepeat(r)
  BY <1>1, <1>6 DEF NoRepeat
<1> QED
  BY <1>5, <1>7

-----------------------------------------------------------------------------
(***************************************************************************)
(* Where the shift loop stops is determined, so a sequence with c placed   *)
(* there is the one InsertSorted says.                                     *)
(***************************************************************************)
LEMMA PlacedUnique ==
  ASSUME NEW S, NEW q \in Seq(S), NEW c \in S, NEW r \in Seq(S),
         NEW prio, NEW time, NEW p \in 0..Len(q),
         PlacedBehind(r, q, c, p, prio, time)
  PROVE  r = InsertSorted(q, c, prio, time)
<1> DEFINE s == InsertSorted(q, c, prio, time)
<1>1. /\ s \in Seq(S)
      /\ \E o \in 0..Len(q) : PlacedBehind(s, q, c, o, prio, time)
  BY InsertSortedIs
<1> HIDE DEF s
<1>2. PICK o \in 0..Len(q) : PlacedBehind(s, q, c, o, prio, time)
  BY <1>1
<1>3. Len(q) \in Nat
  OBVIOUS
<1>4. ~(p < o) /\ ~(o < p)
  BY <1>2, <1>3 DEF PlacedBehind
<1>5. p = o
  BY <1>3, <1>4
<1>6. Len(r) = Len(s) /\ \A k \in 1..Len(r) : r[k] = s[k]
  BY <1>2, <1>3, <1>5 DEF PlacedBehind
<1> QED
  BY <1>1, <1>6 DEF s

LEMMA StepUnique ==
  ASSUME NEW S, NEW q \in Seq(S), NEW u \in 1..(Len(q) - 1), NEW r \in Seq(S),
         NEW prio, NEW time, Ranked(S, prio, time),
         NEW p \in 0..u,
         StepTo(r, q, u, p), StopsBehind(q, u, p, prio, time)
  PROVE  r = SortStep(q, u, prio, time)
<1> DEFINE s == SortStep(q, u, prio, time)
<1>1. /\ s \in Seq(S)
      /\ \E o \in 0..u :
           StepTo(s, q, u, o) /\ StopsBehind(q, u, o, prio, time)
  BY SortStepIs
<1> HIDE DEF s
<1>2. PICK o \in 0..u :
        StepTo(s, q, u, o) /\ StopsBehind(q, u, o, prio, time)
  BY <1>1
<1>3. ~(p < o) /\ ~(o < p)
  BY <1>2 DEF StopsBehind
<1>4. p = o
  BY <1>3
<1>5. Len(r) = Len(s) /\ \A k \in 1..Len(r) : r[k] = s[k]
  BY <1>2, <1>4 DEF StepTo
<1> QED
  BY <1>1, <1>5 DEF s

-----------------------------------------------------------------------------
(***************************************************************************)
(* The queue after the iterations of insertion_sort up to n, as the        *)
(* recursive function in InsertionSort.  That the function has the values  *)
(* its equation says is proved by the least n for which no function has    *)
(* them up to n.                                                           *)
(***************************************************************************)
Iterations(q, prio, time) ==
  LET after[n \in 0..Len(q)] ==
        IF n < 2 THEN q
        ELSE SortStep(after[n - 1], n - 1, prio, time)
  IN  after

LEMMA SortIsIterated ==
  ASSUME NEW q, NEW prio, NEW time
  PROVE  InsertionSort(q, prio, time)
           = Iterations(q, prio, time)[Len(q)]
BY DEF InsertionSort, Iterations

LEMMA IterationsAre ==
  ASSUME NEW S, NEW q \in Seq(S), NEW prio, NEW time,
         NEW n \in 0..Len(q)
  PROVE  Iterations(q, prio, time)[n] =
           IF n < 2 THEN q
           ELSE SortStep(Iterations(q, prio, time)[n - 1], n - 1,
                         prio, time)
<1> DEFINE Step(s, k) == SortStep(s, k, prio, time)
           Upto(f, m) ==
             f = [k \in 0..m |-> IF k < 2 THEN q ELSE Step(f[k - 1], k - 1)]
           None == {m \in Nat : \A f : ~Upto(f, m)}
           R == {x \in Nat \X Nat : x[1] < x[2]}
<1>1. IsWellFoundedOn(R, Nat)
  BY NatLessThanWellFounded DEF OpToRel
<1>2. None = {}
  <2> SUFFICES ASSUME None # {} PROVE FALSE
    OBVIOUS
  <2>1. None \subseteq Nat
    OBVIOUS
  <2>2. \E m \in None : \A l \in None : <<l, m>> \notin R
    <3> HIDE DEF None, R
    <3> QED
      BY <1>1, <2>1, WFMin
  <2>3. PICK m \in None : \A l \in None : <<l, m>> \notin R
    BY <2>2
  <2>4. m \in Nat /\ \A f : ~Upto(f, m)
    BY <2>3
  <2>5. m # 0
    <3> DEFINE f == [k \in 0..0 |-> q]
    <3>1. Upto(f, 0)
      OBVIOUS
    <3> QED
      BY <3>1, <2>4
  <2>6. m - 1 \in Nat /\ <<m - 1, m>> \in R
    BY <2>4, <2>5
  <2>7. m - 1 \notin None
    BY <2>3, <2>6
  <2>8. PICK g : Upto(g, m - 1)
    BY <2>6, <2>7
  <2> DEFINE f == [k \in 0..m |-> IF k < m THEN g[k]
                                  ELSE IF m < 2 THEN q
                                  ELSE Step(g[m - 1], m - 1)]
  <2> HIDE DEF Step
  <2>9. \A k \in 0..(m - 1) : g[k] = IF k < 2 THEN q ELSE Step(g[k - 1], k - 1)
    BY <2>8
  <2>10. ASSUME NEW k \in 0..m
         PROVE  f[k] = IF k < 2 THEN q ELSE Step(f[k - 1], k - 1)
    <3>1. CASE k < m
      <4>1. k \in 0..(m - 1) /\ (~(k < 2) => k - 1 \in 0..m /\ k - 1 < m)
        BY <2>4, <3>1
      <4>2. f[k] = g[k] /\ (~(k < 2) => f[k - 1] = g[k - 1])
        BY <3>1, <4>1
      <4> QED
        BY <2>9, <4>1, <4>2
    <3>2. CASE k = m
      <4>1. ~(m < 2) => m - 1 \in 0..m /\ m - 1 < m
        BY <2>4
      <4>2. f[m] = IF m < 2 THEN q ELSE Step(g[m - 1], m - 1)
        BY <2>4
      <4>3. ~(m < 2) => f[m - 1] = g[m - 1]
        BY <4>1
      <4> QED
        BY <3>2, <4>2, <4>3
    <3> QED
      BY <2>4, <3>1, <3>2
  <2>11. Upto(f, m)
    <3>1. DOMAIN f = 0..m /\ f = [k \in 0..m |-> f[k]]
      OBVIOUS
    <3> HIDE DEF f
    <3> QED
      BY <3>1, <2>10
  <2> QED
    BY <2>4, <2>11
<1>3. Len(q) \in Nat
  OBVIOUS
<1>4. PICK f : Upto(f, Len(q))
  BY <1>2, <1>3
<1> DEFINE a == CHOOSE g : Upto(g, Len(q))
<1>5. Upto(a, Len(q))
  BY <1>4
<1>6. a = Iterations(q, prio, time)
  BY DEF Iterations
<1>7. a[n] = IF n < 2 THEN q ELSE Step(a[n - 1], n - 1)
  <2> HIDE DEF a, Step
  <2> QED
    BY <1>5
<1> QED
  BY <1>6, <1>7

-----------------------------------------------------------------------------
(***************************************************************************)
(* What the iterations up to n have made of q: the same vehicles, the      *)
(* first n of them in rank order, and those of q that need not change      *)
(* places in the order they had.                                           *)
(***************************************************************************)
SortedTo(r, n, prio, time) ==
  \A k, l \in 1..Len(r) :
    k < l /\ l <= n => ~Outranks(prio, time, r[l], r[k])

KeepsOrder(r, q, prio, time) ==
  \A k, l \in 1..Len(q) :
    k < l /\ ~Outranks(prio, time, q[l], q[k]) =>
      \E m, n \in 1..Len(r) : m < n /\ r[m] = q[k] /\ r[n] = q[l]

StablePrefix(r, q, n, prio, time) ==
  /\ Len(r) = Len(q)
  /\ NoRepeat(r)
  /\ \A d : Occurs(d, r) <=> Occurs(d, q)
  /\ SortedTo(r, n, prio, time)
  /\ KeepsOrder(r, q, prio, time)

LEMMA StartsStable ==
  ASSUME NEW S, NEW q \in Seq(S), NoRepeat(q), NEW prio, NEW time
  PROVE  StablePrefix(q, q, 1, prio, time)
<1>1. Len(q) \in Nat
  OBVIOUS
<1> QED
  BY <1>1 DEF StablePrefix, SortedTo, KeepsOrder

LEMMA PrefixSorted ==
  ASSUME NEW S, NEW r \in Seq(S), NEW n \in 0..Len(r),
         NEW prio, NEW time
  PROVE  SortedTo(r, n, prio, time)
           <=> InRankOrder(SubSeq(r, 1, n), prio, time)
<1>1. /\ Len(SubSeq(r, 1, n)) = n
      /\ \A k \in 1..n : SubSeq(r, 1, n)[k] = r[k]
  BY PrefixIs
<1> DEFINE s == SubSeq(r, 1, n)
           Above(c, d) == Outranks(prio, time, c, d)
<1> HIDE DEF s, Above
<1>2. (\A k, l \in 1..Len(r) : k < l /\ l <= n => ~Above(r[l], r[k]))
        <=> (\A k, l \in 1..Len(s) : k < l => ~Above(s[l], s[k]))
  <2>1. Len(s) = n /\ \A k \in 1..n : s[k] = r[k]
    BY <1>1 DEF s
  <2> QED
    BY <2>1
<1> QED
  BY <1>2 DEF SortedTo, InRankOrder, s, Above

LEMMA StepStable ==
  ASSUME NEW S, NEW q \in Seq(S), NEW s \in Seq(S), NEW r \in Seq(S),
         NEW u \in 1..(Len(s) - 1), NEW p \in 0..u,
         NEW prio, NEW time, Ranked(S, prio, time),
         StepTo(r, s, u, p), StopsBehind(s, u, p, prio, time),
         StablePrefix(s, q, u, prio, time)
  PROVE  StablePrefix(r, q, u + 1, prio, time)
<1>1. Len(q) \in Nat /\ Len(s) = Len(q) /\ Len(r) = Len(q)
  BY DEF StepTo, StablePrefix
<1>2. /\ NoRepeat(r)
      /\ \A d : Occurs(d, r) <=> Occurs(d, q)
  BY StepKeeps DEF StablePrefix
<1>3. SortedTo(r, u + 1, prio, time)
  <2>1. r = SortStep(s, u, prio, time)
    BY StepUnique
  <2>2. InRankOrder(SubSeq(s, 1, u), prio, time) =>
          InRankOrder(SubSeq(r, 1, u + 1), prio, time)
    BY <2>1, SortStepIs
  <2>3. u \in 0..Len(s) /\ u + 1 \in 0..Len(r)
    BY <1>1
  <2> QED
    BY <2>2, <2>3, PrefixSorted DEF StablePrefix
<1>4. ASSUME NEW k \in 1..Len(q), NEW l \in 1..Len(q), k < l,
             ~Outranks(prio, time, q[l], q[k])
      PROVE  \E m, n \in 1..Len(r) : m < n /\ r[m] = q[k] /\ r[n] = q[l]
  <2>1. PICK a, b \in 1..Len(s) : a < b /\ s[a] = q[k] /\ s[b] = q[l]
    BY <1>4 DEF StablePrefix, KeepsOrder
  <2> DEFINE to(m) == IF m <= p THEN m
                      ELSE IF m <= u THEN m + 1
                      ELSE IF m = u + 1 THEN p + 1
                      ELSE m
  <2>2. \A m \in 1..Len(s) : to(m) \in 1..Len(r) /\ r[to(m)] = s[m]
    <3> SUFFICES ASSUME NEW m \in 1..Len(s)
                 PROVE  to(m) \in 1..Len(r) /\ r[to(m)] = s[m]
      OBVIOUS
    <3>1. \A e \in 1..Len(s) :
            r[e] = IF e <= p THEN s[e]
                   ELSE IF e = p + 1 THEN s[u + 1]
                   ELSE IF e <= u + 1 THEN s[e - 1]
                   ELSE s[e]
      BY DEF StepTo
    <3>2. CASE m <= p
      BY <1>1, <3>1, <3>2
    <3>3. CASE m > p /\ m <= u
      <4>1. /\ to(m) = m + 1 /\ m + 1 \in 1..Len(s) /\ ~(m + 1 <= p)
            /\ m + 1 # p + 1 /\ m + 1 <= u + 1 /\ (m + 1) - 1 = m
        BY <3>3
      <4> QED
        BY <1>1, <3>1, <4>1
    <3>4. CASE m = u + 1
      <4>1. to(m) = p + 1 /\ p + 1 \in 1..Len(s) /\ ~(p + 1 <= p)
        BY <3>4
      <4> QED
        BY <1>1, <3>1, <3>4, <4>1
    <3>5. CASE m > u + 1
      BY <1>1, <3>1, <3>5
    <3> QED
      BY <3>2, <3>3, <3>4, <3>5
  <2>3. ~(b = u + 1 /\ a \in (p + 1)..u)
    BY <1>4, <2>1 DEF StopsBehind
  <2>4. to(a) < to(b)
    BY <2>1, <2>3
  <2> HIDE DEF to
  <2> QED
    BY <2>1, <2>2, <2>4
<1> QED
  BY <1>1, <1>2, <1>3, <1>4 DEF StablePrefix, KeepsOrder

-----------------------------------------------------------------------------
(***************************************************************************)
(* The inductive invariant.  It says of every iteration what ArrayInv      *)
(* leaves out: which entries a loop has moved and which not, and, for the  *)
(* queue the operation began with, where each of them comes from.          *)
(***************************************************************************)

(* a queue of vehicles that have called pq_insert, each once *)
Vehicles(q) ==
  /\ q \in Seq(Cars)
  /\ NoRepeat(q)
  /\ \A k \in 1..Len(q) : q[k] \notin outside

(* the array holds q at the indices from..to *)
Holds(q, from, to) == \A k \in from..to : cars[k] = q[k + 1]

(* The shift loop over the first vehicles of q: those behind the gap, all   *)
(* of which the key outranks, have been moved by one.                      *)
GapIn(q, last) ==
  /\ j \in -1..(last - 1)
  /\ Holds(q, 0, j)
  /\ \A k \in (j + 1)..(last - 1) :
       cars[k + 1] = q[k + 1] /\ Ahead(key, q[k + 1])

(* The queue after the iterations of insertion_sort that have ended.  In    *)
(* an empty queue there is none, though i is 1.                            *)
Sorted == Iterations(before, priority, enter_time)[IF size = 0 THEN 0 ELSE i]

(* between operations: a queue in rank order *)
Idle ==
  op = "idle" =>
    /\ key = NULL
    /\ Vehicles(Contents)
    /\ InRankOrder(Contents, priority, enter_time)

(* within one: the queue it began with, of as many vehicles *)
Began ==
  op # "idle" => Len(before) = size /\ Vehicles(before)

(* pq_insert: a new vehicle, and a gap for it *)
Inserting ==
  op = "insert" =>
    /\ key \in Cars \ outside /\ ~Occurs(key, before)
    /\ size < K_CARS
    /\ InRankOrder(before, priority, enter_time)
    /\ GapIn(before, size)

(* pq_pop: the entries up to j have been moved by one *)
Popping ==
  op = "pop" =>
    /\ size > 0
    /\ InRankOrder(before, priority, enter_time)
    /\ key = before[1]
    /\ j \in 0..(size - 1)
    /\ \A k \in 0..(j - 1) : cars[k] = before[k + 2]
    /\ Holds(before, j, size - 1)

(* insertion_sort: between iterations the array holds their result; within *)
(* one, it does but for the gap and what has been moved.                   *)
Sorting ==
  op = "sort" =>
    /\ i \in 1..K_CARS
    /\ i <= size \/ i = 1
    /\ Sorted \in Seq(Cars)
    /\ StablePrefix(Sorted, before, i, priority, enter_time)
    /\ key = NULL => Holds(Sorted, 0, size - 1)
    /\ key # NULL =>
         /\ i < size
         /\ key = Sorted[i + 1]
         /\ GapIn(Sorted, i)
         /\ Holds(Sorted, i + 1, size - 1)

Loops == TypeOK /\ Idle /\ Began /\ Inserting /\ Popping /\ Sorting

-----------------------------------------------------------------------------
(* what the types and the assumption on the constants give *)
LEMMA Known ==
  ASSUME TypeOK
  PROVE  /\ K_CARS \in Nat /\ size \in Nat
         /\ Ranked(Cars, priority, enter_time)
         /\ NULL \notin Cars /\ Cars = 1..K_CARS
BY ArrayAssumption DEF TypeOK, Ranked, Cars, NULL

(* An array that holds q is q. *)
LEMMA ContentsIs ==
  ASSUME NEW q \in Seq(Cars), NEW n \in Nat, Len(q) = n, NEW a,
         \A k \in 0..(n - 1) : a[k] = q[k + 1]
  PROVE  [k \in 1..n |-> a[k - 1]] = q
<1>1. \A k \in 1..n : a[k - 1] = q[k]
  <2> TAKE k \in 1..n
  <2>1. k - 1 \in 0..(n - 1) /\ (k - 1) + 1 = k
    OBVIOUS
  <2> QED
    BY <2>1
<1>2. q = [k \in 1..n |-> q[k]]
  OBVIOUS
<1> QED
  BY <1>1, <1>2

LEMMA ContentsLength ==
  ASSUME Contents \in Seq(Cars), size \in Nat
  PROVE  /\ Len(Contents) = size
         /\ \A k \in 0..(size - 1) : cars[k] = Contents[k + 1]
<1>1. DOMAIN Contents = 1..size
  BY DEF Contents
<1>2. Len(Contents) = size
  BY <1>1
<1>3. \A k \in 1..size : Contents[k] = cars[k - 1]
  BY DEF Contents
<1>4. ASSUME NEW k \in 0..(size - 1) PROVE cars[k] = Contents[k + 1]
  <2>1. k + 1 \in 1..size /\ (k + 1) - 1 = k
    OBVIOUS
  <2> QED
    BY <1>3, <2>1
<1> QED
  BY <1>2, <1>4

-----------------------------------------------------------------------------
(* The array is empty at first. *)
LEMMA InitLoops == Init => Loops
<1> SUFFICES ASSUME Init PROVE Loops
  OBVIOUS
<1>1. TypeOK
  <2>1. <<>> \in Seq(Cars)
    OBVIOUS
  <2> QED
    BY <2>1, ArrayAssumption DEF Init, TypeOK, NULL
<1>2. Contents = <<>>
  BY DEF Init, Contents
<1>3. Idle
  BY <1>2 DEF Init, Idle, Vehicles, NoRepeat, InRankOrder
<1>4. op = "idle"
  BY DEF Init
<1> QED
  BY <1>1, <1>3, <1>4 DEF Loops, Began, Inserting, Popping, Sorting

(* The steps of a loop keep the types. *)
LEMMA StepTypes == Loops /\ [Next]_vars => TypeOK'
<1> SUFFICES ASSUME Loops, [Next]_vars PROVE TypeOK'
  OBVIOUS
<1>0. TypeOK
  BY DEF Loops
<1> USE <1>0, Known
<1>1. CASE ShiftBack
  <2>1. j \in Nat /\ j + 1 \in 0..(K_CARS - 1)
    <3>1. CASE op = "insert"
      BY <1>1, <3>1 DEF Loops, Inserting, GapIn, ShiftBack, TypeOK
    <3>2. CASE op = "sort"
      BY <1>1, <3>2 DEF Loops, Sorting, GapIn, ShiftBack, TypeOK
    <3> QED
      BY <1>1, <3>1, <3>2 DEF ShiftBack
  <2>2. cars[j] \in Cars \cup {NULL}
    BY <2>1 DEF TypeOK
  <2> QED
    BY <1>1, <2>1, <2>2 DEF ShiftBack, Shifted, TypeOK, fields
<1>2. ASSUME NEW c \in Cars, BeginInsert(c) PROVE TypeOK'
  <2>1. Contents \in Seq(Cars)
    BY <1>2 DEF BeginInsert, Begin, Loops, Idle, Vehicles
  <2> QED
    BY <1>2, <2>1 DEF BeginInsert, Begin, TypeOK, fields
<1>3. CASE EndInsert
  <2>1. j + 1 \in 0..(K_CARS - 1) /\ size < K_CARS /\ key \in Cars
    BY <1>3 DEF EndInsert, Loops, Inserting, GapIn, TypeOK
  <2> QED
    BY <1>3, <2>1 DEF EndInsert, Return, TypeOK, fields
<1>4. CASE BeginPop
  <2>1. Contents \in Seq(Cars)
    BY <1>4 DEF BeginPop, Begin, Loops, Idle, Vehicles
  <2>2. 0 \in 0..(K_CARS - 1)
    BY ArrayAssumption
  <2>3. cars[0] \in Cars \cup {NULL}
    BY <2>2 DEF TypeOK
  <2> QED
    BY <1>4, <2>1, <2>2, <2>3 DEF BeginPop, Begin, TypeOK, fields
<1>5. CASE ShiftFront
  <2>1. j \in 0..(K_CARS - 1) /\ j + 1 \in 0..(K_CARS - 1)
    BY <1>5 DEF ShiftFront, Loops, Popping, TypeOK
  <2> QED
    BY <1>5, <2>1 DEF ShiftFront, TypeOK, fields
<1>6. CASE EndPop
  <2>1. size - 1 \in 0..K_CARS
    BY <1>6 DEF EndPop, Loops, Popping, TypeOK
  <2> QED
    BY <1>6, <2>1 DEF EndPop, Return, TypeOK, fields
<1>7. ASSUME NEW now \in 0..(MaxTime + 1), BeginSort(now) PROVE TypeOK'
  <2>1. Contents \in Seq(Cars)
    BY <1>7 DEF BeginSort, Begin, Loops, Idle, Vehicles
  <2>2. 1 \in 0..K_CARS
    BY ArrayAssumption
  <2>3. priority' \in [Cars -> {0, 1}]
    BY <1>7 DEF BeginSort, TypeOK
  <2> QED
    BY <1>7, <2>1, <2>2, <2>3 DEF BeginSort, Begin, TypeOK
<1>8. CASE PickKey
  <2>1. i \in 1..(K_CARS - 1)
    BY <1>8 DEF PickKey, Loops, Sorting, TypeOK
  <2> QED
    BY <1>8, <2>1 DEF PickKey, TypeOK, fields
<1>9. CASE PlaceKey
  <2>0. i \in 1..K_CARS /\ i < size /\ j \in -1..(i - 1)
    BY <1>9 DEF PlaceKey, Loops, Sorting, GapIn
  <2>1. i \in 1..(K_CARS - 1) /\ j + 1 \in 0..(K_CARS - 1)
    BY <2>0 DEF TypeOK
  <2> QED
    BY <1>9, <2>1 DEF PlaceKey, TypeOK, fields
<1>10. CASE EndSort
  BY <1>10 DEF EndSort, Return, TypeOK, fields
<1>11. CASE UNCHANGED vars
  BY <1>11 DEF vars, fields, TypeOK
<1> QED
  BY <1>1, <1>2, <1>3, <1>4, <1>5, <1>6, <1>7, <1>8, <1>9, <1>10, <1>11
  DEF Next

-----------------------------------------------------------------------------
(* The shift loop *)

LEMMA ShiftKeepsGap ==
  ASSUME TypeOK, NEW q \in Seq(Cars), NEW last \in 0..(K_CARS - 1),
         last <= Len(q), GapIn(q, last), ShiftBack
  PROVE  GapIn(q, last)'
<1>1. /\ j \in 0..(last - 1) /\ j' = j - 1 /\ j + 1 \in 0..(K_CARS - 1)
      /\ cars \in [0..(K_CARS - 1) -> Cars \cup {NULL}]
      /\ cars' = [cars EXCEPT ![j + 1] = cars[j]]
      /\ UNCHANGED <<key, priority, enter_time>>
      /\ Ahead(key, cars[j]) /\ K_CARS \in Nat
  BY Known DEF GapIn, ShiftBack, Shifted, fields, TypeOK
<1>2. /\ \A k \in 0..j : cars[k] = q[k + 1]
      /\ \A k \in (j + 1)..(last - 1) :
           cars[k + 1] = q[k + 1] /\ Ahead(key, q[k + 1])
  BY DEF GapIn, Holds
<1>3. /\ cars'[j + 1] = q[j + 1] /\ Ahead(key, q[j + 1])
      /\ \A k \in 0..(K_CARS - 1) : k # j + 1 => cars'[k] = cars[k]
  BY <1>1, <1>2
<1>4. \A k \in 0..j' : cars'[k] = q[k + 1]
  BY <1>1, <1>2, <1>3
<1>5. ASSUME NEW k \in (j' + 1)..(last - 1)
      PROVE  cars'[k + 1] = q[k + 1] /\ Ahead(key, q[k + 1])
  <2>1. CASE k = j
    BY <1>3, <2>1
  <2>2. CASE k # j
    <3>1. /\ k \in (j + 1)..(last - 1)
          /\ k + 1 \in 0..(K_CARS - 1) /\ k + 1 # j + 1
      BY <1>1, <2>2
    <3> QED
      BY <3>1, <1>2, <1>3
  <2> QED
    BY <2>1, <2>2
<1>6. \A c, d : Ahead(c, d)' <=> Ahead(c, d)
  BY <1>1 DEF Ahead
<1>7. j' \in -1..(last - 1)
  BY <1>1
<1> QED
  BY <1>4, <1>5, <1>6, <1>7, <1>1 DEF GapIn, Holds, Ahead

(* Where it stops, storing the key places it behind the first j + 1. *)
LEMMA StoreAtGap ==
  ASSUME TypeOK, NEW q \in Seq(Cars), NEW last \in 0..(K_CARS - 1),
         last <= Len(q), GapIn(q, last), StopsAt,
         cars' = [cars EXCEPT ![j + 1] = key]
  PROVE  /\ j + 1 \in 0..last
         /\ \A k \in 0..last :
              cars'[k] = IF k < j + 1 THEN q[k + 1]
                         ELSE IF k = j + 1 THEN key ELSE q[k]
         /\ \A k \in (last + 1)..(K_CARS - 1) : cars'[k] = cars[k]
         /\ j + 1 > 0 => ~Ahead(key, q[j + 1])
         /\ \A k \in (j + 2)..last : Ahead(key, q[k])
<1>1. /\ j \in -1..(last - 1) /\ K_CARS \in Nat /\ last \in Nat
      /\ cars \in [0..(K_CARS - 1) -> Cars \cup {NULL}]
  BY Known DEF GapIn, TypeOK
<1>2. /\ \A k \in 0..j : cars[k] = q[k + 1]
      /\ \A k \in (j + 1)..(last - 1) :
           cars[k + 1] = q[k + 1] /\ Ahead(key, q[k + 1])
  BY DEF GapIn, Holds
<1>3. j + 1 \in 0..last /\ j + 1 \in 0..(K_CARS - 1)
  BY <1>1
<1>4. ASSUME NEW k \in (j + 2)..last PROVE cars[k] = q[k] /\ Ahead(key, q[k])
  <2>1. k - 1 \in (j + 1)..(last - 1) /\ (k - 1) + 1 = k
    BY <1>1
  <2> QED
    BY <2>1, <1>2
<1>5. ASSUME NEW k \in 0..last
      PROVE  cars'[k] = IF k < j + 1 THEN q[k + 1]
                        ELSE IF k = j + 1 THEN key ELSE q[k]
  <2>1. k \in 0..(K_CARS - 1)
    BY <1>1
  <2>2. CASE k < j + 1
    <3>1. k \in 0..j /\ k # j + 1
      BY <1>1, <2>2
    <3> QED
      BY <3>1, <2>1, <2>2, <1>1, <1>2
  <2>3. CASE k = j + 1
    BY <2>1, <2>3, <1>1
  <2>4. CASE k > j + 1
    <3>1. k \in (j + 2)..last /\ k # j + 1 /\ ~(k < j + 1)
      BY <1>1, <2>4
    <3> QED
      BY <3>1, <2>1, <1>1, <1>4
  <2> QED
    BY <1>1, <2>2, <2>3, <2>4
<1>6. \A k \in (last + 1)..(K_CARS - 1) : cars'[k] = cars[k]
  BY <1>1, <1>3
<1>7. j + 1 > 0 => ~Ahead(key, q[j + 1])
  <2>1. j + 1 > 0 => j >= 0 /\ j \in 0..j
    BY <1>1
  <2> QED
    BY <2>1, <1>2 DEF StopsAt
<1> QED
  BY <1>3, <1>4, <1>5, <1>6, <1>7

-----------------------------------------------------------------------------
(* Preservation, operation by operation *)

LEMMA ShiftBackLoops == Loops /\ ShiftBack => Loops'
<1> SUFFICES ASSUME Loops, ShiftBack PROVE Loops'
  OBVIOUS
<1>1. /\ TypeOK /\ TypeOK' /\ key # NULL /\ op \in {"insert", "sort"}
      /\ UNCHANGED <<size, op, key, i, outside, priority, enter_time, before>>
  BY StepTypes DEF Loops, ShiftBack, fields, Next
<1>2. Len(before) = size /\ Vehicles(before) /\ before \in Seq(Cars)
  BY <1>1 DEF Loops, Began, Vehicles
<1>3. Began'
  BY <1>1, <1>2 DEF Began, Vehicles
<1>4. CASE op = "insert"
  <2>1. GapIn(before, size) /\ size \in 0..(K_CARS - 1)
    <3>1. GapIn(before, size) /\ size < K_CARS
      BY <1>4 DEF Loops, Inserting
    <3> QED
      BY <1>1, <3>1, Known
  <2>2. GapIn(before, size)'
    <3>1. PICK q \in Seq(Cars), n \in 0..(K_CARS - 1) : q = before /\ n = size
      BY <1>2, <2>1
    <3>2. GapIn(q, n)'
      BY <1>1, <1>2, <2>1, <3>1, ShiftKeepsGap
    <3> QED
      BY <1>1, <3>1, <3>2 DEF GapIn, Holds
  <2>3. Inserting'
    BY <1>1, <1>4, <2>2 DEF Loops, Inserting
  <2> QED
    BY <1>1, <1>3, <1>4, <2>3 DEF Loops, Idle, Popping, Sorting
<1>5. CASE op = "sort"
  <2>1. /\ Sorted \in Seq(Cars) /\ Len(Sorted) = size
        /\ i < size /\ i \in 0..(K_CARS - 1) /\ GapIn(Sorted, i)
        /\ Holds(Sorted, i + 1, size - 1) /\ key = Sorted[i + 1]
    <3>1. /\ Sorted \in Seq(Cars) /\ Len(Sorted) = Len(before)
          /\ i < size /\ i \in 1..K_CARS /\ GapIn(Sorted, i)
          /\ Holds(Sorted, i + 1, size - 1) /\ key = Sorted[i + 1]
      BY <1>1, <1>5 DEF Loops, Sorting, StablePrefix
    <3>2. size \in 0..K_CARS /\ K_CARS \in Nat
      BY <1>1, Known DEF TypeOK
    <3>3. i \in 0..(K_CARS - 1)
      BY <3>1, <3>2
    <3> QED
      BY <1>2, <3>1, <3>3
  <2>2. Sorted' = Sorted
    BY <1>1 DEF Sorted
  <2>3. PICK q \in Seq(Cars), n \in 0..(K_CARS - 1) : q = Sorted /\ n = i
    BY <2>1
  <2>4. GapIn(Sorted, i)'
    <3>1. n <= Len(q)
      BY <1>1, <2>1, <2>3, Known
    <3>2. GapIn(q, n)'
      BY <1>1, <2>1, <2>3, <3>1, ShiftKeepsGap
    <3> QED
      BY <1>1, <2>2, <2>3, <3>2 DEF GapIn, Holds
  <2>5. Holds(Sorted, i + 1, size - 1)'
    <3>1. j + 1 \in 0..(K_CARS - 1) /\ j + 1 < i + 1
      <4>1. j \in -1..(i - 1) /\ i \in 0..(K_CARS - 1) /\ K_CARS \in Nat
        BY <1>1, <2>1, Known DEF GapIn
      <4> QED
        BY <4>1
    <3>2. \A k \in (i + 1)..(size - 1) : cars'[k] = cars[k]
      BY <1>1, <2>1, <3>1 DEF ShiftBack, Shifted, TypeOK
    <3> QED
      BY <1>1, <2>1, <2>2, <3>2 DEF Holds
  <2>6. Sorting'
    BY <1>1, <1>5, <2>1, <2>2, <2>4, <2>5 DEF Loops, Sorting
  <2> QED
    BY <1>1, <1>3, <1>5, <2>6 DEF Loops, Idle, Popping, Inserting
<1> QED
  BY <1>1, <1>4, <1>5

(* A queue on which an operation begins is the array's contents. *)
LEMMA BeginsWith ==
  ASSUME Loops, op = "idle", before' = Contents, UNCHANGED <<size, cars>>
  PROVE  /\ before' \in Seq(Cars) /\ Len(before') = size
         /\ NoRepeat(before')
         /\ \A k \in 1..Len(before') : before'[k] \notin outside
         /\ InRankOrder(before', priority, enter_time)
         /\ \A k \in 0..(size - 1) : cars'[k] = before'[k + 1]
BY ContentsLength, Known DEF Loops, Idle, Vehicles

(* There is room for a vehicle that is not in the queue. *)
LEMMA RoomForOne ==
  ASSUME Loops, op = "idle", NEW c \in outside
  PROVE  size < K_CARS
<1>1. /\ size \in Nat /\ K_CARS \in Nat /\ c \in Cars /\ Cars = 1..K_CARS
  BY Known DEF Loops, TypeOK
<1>2. /\ Contents \in Seq(Cars) /\ Len(Contents) = size
      /\ NoRepeat(Contents)
      /\ \A k \in 1..Len(Contents) : Contents[k] \notin outside
  BY <1>1, ContentsLength DEF Loops, Idle, Vehicles
<1> DEFINE in == [k \in 1..size |-> Contents[k]]
<1>3. in \in [1..size -> Cars \ {c}]
  BY <1>1, <1>2
<1>4. \A k, l \in 1..size : k # l => in[k] # in[l]
  BY <1>2 DEF NoRepeat
<1>5. IsFiniteSet(Cars) /\ Cardinality(Cars) = K_CARS
  BY <1>1, FS_Interval
<1>6. IsFiniteSet(Cars \ {c}) /\ Cardinality(Cars \ {c}) = K_CARS - 1
  BY <1>1, <1>5, FS_RemoveElement
<1>7. IsFiniteSet(1..size) /\ Cardinality(1..size) = size
  BY <1>1, FS_Interval
<1> HIDE DEF in
<1>8. ~(K_CARS - 1 < size)
  <2> SUFFICES ASSUME K_CARS - 1 < size PROVE FALSE
    OBVIOUS
  <2>1. Cardinality(Cars \ {c}) < Cardinality(1..size)
    BY <1>6, <1>7
  <2>2. \E k, l \in 1..size : k # l /\ in[k] = in[l]
    BY <1>3, <1>6, <1>7, <2>1, FS_PigeonHole
  <2> QED
    BY <1>4, <2>2
<1> QED
  BY <1>1, <1>8

LEMMA BeginInsertLoops ==
  ASSUME Loops, NEW c \in Cars, BeginInsert(c)
  PROVE  Loops'
<1>1. /\ TypeOK /\ TypeOK' /\ op = "idle" /\ op' = "insert"
      /\ before' = Contents /\ c \in outside
      /\ key' = c /\ j' = size - 1
      /\ outside' = outside \ {c}
      /\ UNCHANGED <<cars, size, i, priority, enter_time>>
  BY StepTypes DEF Loops, BeginInsert, Begin, fields, Next
<1>2. /\ before' \in Seq(Cars) /\ Len(before') = size
      /\ NoRepeat(before')
      /\ \A k \in 1..Len(before') : before'[k] \notin outside
      /\ InRankOrder(before', priority, enter_time)
      /\ \A k \in 0..(size - 1) : cars'[k] = before'[k + 1]
  BY <1>1, BeginsWith
<1>3. Began'
  BY <1>1, <1>2 DEF Began, Vehicles
<1>4. GapIn(before, size)'
  BY <1>1, <1>2, Known DEF GapIn, Holds
<1>5. Inserting'
  <2>1. size < K_CARS
    BY <1>1, RoomForOne
  <2> QED
    BY <1>1, <1>2, <1>4, <2>1 DEF Inserting, Occurs
<1> QED
  BY <1>1, <1>3, <1>5 DEF Loops, Idle, Popping, Sorting

(* The end of pq_insert. *)
LEMMA EndInsertIs ==
  ASSUME Loops, EndInsert
  PROVE  /\ Contents' = InsertSorted(before, key, priority, enter_time)
         /\ Vehicles(Contents)'
         /\ InRankOrder(Contents', priority, enter_time)
<1>1. /\ TypeOK /\ op = "insert" /\ StopsAt /\ size' = size + 1 /\ size \in Nat
      /\ cars' = [cars EXCEPT ![j + 1] = key]
      /\ UNCHANGED <<outside, priority, enter_time>>
      /\ Ranked(Cars, priority, enter_time)
  BY Known DEF Loops, EndInsert, Return, fields
<1>2. /\ Len(before) = size /\ before \in Seq(Cars) /\ NoRepeat(before)
      /\ \A k \in 1..Len(before) : before[k] \notin outside
      /\ key \in Cars \ outside /\ ~Occurs(key, before)
      /\ size \in 0..(K_CARS - 1)
      /\ InRankOrder(before, priority, enter_time)
      /\ GapIn(before, size)
  <2>1. Vehicles(before) /\ Len(before) = size
    BY <1>1 DEF Loops, Began
  <2>2. /\ key \in Cars \ outside /\ ~Occurs(key, before)
        /\ size < K_CARS
        /\ InRankOrder(before, priority, enter_time)
        /\ GapIn(before, size)
    BY <1>1 DEF Loops, Inserting
  <2>3. size \in 0..(K_CARS - 1)
    BY <1>1, <2>2, Known
  <2> QED
    BY <2>1, <2>2, <2>3 DEF Vehicles
<1> DEFINE r == InsertSorted(before, key, priority, enter_time)
           p == j + 1
<1>3. /\ p \in 0..size
      /\ \A k \in 0..size :
           cars'[k] = IF k < p THEN before[k + 1]
                      ELSE IF k = p THEN key ELSE before[k]
      /\ p > 0 => ~Ahead(key, before[p])
      /\ \A k \in (p + 1)..size : Ahead(key, before[k])
  <2>1. size <= Len(before)
    BY <1>1, <1>2
  <2>2. (j + 1) + 1 = j + 2
    BY <1>2 DEF GapIn
  <2> QED
    BY <1>1, <1>2, <2>1, <2>2, StoreAtGap
<1> HIDE DEF p
<1> DEFINE s == [k \in 1..(size + 1) |-> cars'[k - 1]]
<1>4. s = Contents'
  BY <1>1 DEF Contents
<1>5. \A k \in 1..(size + 1) :
        s[k] = IF k <= p THEN before[k]
               ELSE IF k = p + 1 THEN key ELSE before[k - 1]
  <2> SUFFICES ASSUME NEW k \in 1..(size + 1)
               PROVE  s[k] = IF k <= p THEN before[k]
                             ELSE IF k = p + 1 THEN key ELSE before[k - 1]
    OBVIOUS
  <2>1. /\ k - 1 \in 0..size /\ (k - 1) + 1 = k
        /\ (k - 1 < p <=> k <= p) /\ (k - 1 = p <=> k = p + 1)
    BY <1>1, <1>3
  <2> QED
    BY <1>3, <2>1
<1>6. s \in Seq(Cars) /\ Len(s) = size + 1
  <2>1. \A k \in 1..(size + 1) : s[k] \in Cars
    <3> SUFFICES ASSUME NEW k \in 1..(size + 1) PROVE s[k] \in Cars
      OBVIOUS
    <3>1. k <= p => k \in 1..Len(before)
      BY <1>2, <1>3
    <3>2. k > p + 1 => k - 1 \in 1..Len(before)
      BY <1>2, <1>3
    <3> HIDE DEF s
    <3> QED
      BY <1>2, <1>3, <1>5, <3>1, <3>2
  <2>2. DOMAIN s = 1..(size + 1) /\ size + 1 \in Nat
    BY <1>1
  <2>3. s = [k \in 1..(size + 1) |-> s[k]]
    BY <2>2
  <2> HIDE DEF s
  <2> QED
    BY <2>1, <2>2, <2>3
<1> HIDE DEF s
<1>7. PlacedBehind(s, before, key, p, priority, enter_time)
  BY <1>1, <1>2, <1>3, <1>5, <1>6 DEF PlacedBehind, Ahead
<1>8. s = r
  BY <1>2, <1>3, <1>6, <1>7, PlacedUnique
<1>9. /\ \A d : Occurs(d, s) <=> d = key \/ Occurs(d, before)
      /\ NoRepeat(s)
  BY <1>2, <1>3, <1>6, <1>7, PlacedKeeps
<1>10. InRankOrder(s, priority, enter_time)
  BY <1>1, <1>2, <1>3, <1>6, <1>7, PlacedSorted
<1>11. \A k \in 1..Len(s) : s[k] \notin outside
  BY <1>2, <1>9 DEF Occurs
<1> QED
  BY <1>1, <1>4, <1>6, <1>8, <1>9, <1>10, <1>11 DEF Vehicles

LEMMA EndInsertLoops == Loops /\ EndInsert => Loops'
<1> SUFFICES ASSUME Loops, EndInsert PROVE Loops'
  OBVIOUS
<1>1. /\ TypeOK' /\ op' = "idle" /\ key' = NULL
      /\ UNCHANGED <<priority, enter_time>>
  BY StepTypes DEF EndInsert, Return, fields, Next
<1>2. Idle'
  BY <1>1, EndInsertIs DEF Idle
<1> QED
  BY <1>1, <1>2 DEF Loops, Began, Inserting, Popping, Sorting

LEMMA BeginPopLoops == Loops /\ BeginPop => Loops'
<1> SUFFICES ASSUME Loops, BeginPop PROVE Loops'
  OBVIOUS
<1>1. /\ TypeOK /\ TypeOK' /\ op = "idle" /\ op' = "pop" /\ before' = Contents
      /\ size > 0 /\ key' = cars[0] /\ j' = 0
      /\ UNCHANGED <<cars, size, i, outside, priority, enter_time>>
  BY StepTypes DEF Loops, BeginPop, Begin, fields, Next
<1>2. /\ before' \in Seq(Cars) /\ Len(before') = size
      /\ NoRepeat(before')
      /\ \A k \in 1..Len(before') : before'[k] \notin outside
      /\ InRankOrder(before', priority, enter_time)
      /\ \A k \in 0..(size - 1) : cars'[k] = before'[k + 1]
  BY <1>1, BeginsWith
<1>3. Began'
  BY <1>1, <1>2 DEF Began, Vehicles
<1>4. 0 \in 0..(size - 1) /\ size \in Nat
  BY <1>1, Known
<1>5. Popping'
  BY <1>1, <1>2, <1>4 DEF Popping, Holds
<1> QED
  BY <1>1, <1>3, <1>5 DEF Loops, Idle, Inserting, Sorting

LEMMA ShiftFrontLoops == Loops /\ ShiftFront => Loops'
<1> SUFFICES ASSUME Loops, ShiftFront PROVE Loops'
  OBVIOUS
<1>1. /\ TypeOK /\ TypeOK' /\ op = "pop" /\ j < size - 1
      /\ cars' = [cars EXCEPT ![j] = cars[j + 1]] /\ j' = j + 1
      /\ UNCHANGED <<size, op, key, i, outside, priority, enter_time, before>>
      /\ size \in 0..K_CARS /\ K_CARS \in Nat
      /\ cars \in [0..(K_CARS - 1) -> Cars \cup {NULL}]
  BY StepTypes, Known DEF Loops, ShiftFront, fields, Next, TypeOK
<1>2. /\ j \in 0..(size - 1)
      /\ \A k \in 0..(j - 1) : cars[k] = before[k + 2]
      /\ \A k \in j..(size - 1) : cars[k] = before[k + 1]
      /\ InRankOrder(before, priority, enter_time)
      /\ key = before[1] /\ size > 0
  BY <1>1 DEF Loops, Popping, Holds
<1>3. /\ j \in 0..(K_CARS - 1)
      /\ cars'[j] = before[j + 2]
      /\ \A k \in 0..(K_CARS - 1) : k # j => cars'[k] = cars[k]
  <2>1. j \in 0..(K_CARS - 1) /\ j + 1 \in j..(size - 1) /\ (j + 1) + 1 = j + 2
    BY <1>1, <1>2
  <2> QED
    BY <1>1, <1>2, <2>1
<1>4. ASSUME NEW k \in 0..(j' - 1) PROVE cars'[k] = before[k + 2]
  <2>1. k = j \/ (k \in 0..(j - 1) /\ k # j /\ k \in 0..(K_CARS - 1))
    BY <1>1, <1>2
  <2> QED
    BY <2>1, <1>2, <1>3
<1>5. ASSUME NEW k \in j'..(size - 1) PROVE cars'[k] = before[k + 1]
  <2>1. k \in j..(size - 1) /\ k # j /\ k \in 0..(K_CARS - 1)
    BY <1>1, <1>2
  <2> QED
    BY <2>1, <1>2, <1>3
<1>6. j' \in 0..(size - 1)
  BY <1>1, <1>2
<1>7. Popping'
  BY <1>1, <1>2, <1>4, <1>5, <1>6 DEF Popping, Holds
<1>8. Began'
  BY <1>1 DEF Loops, Began, Vehicles
<1> QED
  BY <1>1, <1>7, <1>8 DEF Loops, Idle, Inserting, Sorting

LEMMA TailIs ==
  ASSUME NEW S, NEW q \in Seq(S), q # <<>>
  PROVE  /\ Tail(q) \in Seq(S) /\ Len(Tail(q)) = Len(q) - 1
         /\ \A k \in 1..(Len(q) - 1) : Tail(q)[k] = q[k + 1]
OBVIOUS

(* The end of pq_pop. *)
LEMMA EndPopIs ==
  ASSUME Loops, EndPop
  PROVE  /\ Contents' = Tail(before)
         /\ Vehicles(Contents)'
         /\ InRankOrder(Contents', priority, enter_time)
<1>1. /\ TypeOK /\ op = "pop" /\ j >= size - 1 /\ size' = size - 1
      /\ UNCHANGED <<cars, outside, priority, enter_time>>
      /\ size \in Nat
  BY Known DEF Loops, EndPop, Return, fields
<1>2. /\ size > 0 /\ Len(before) = size /\ before \in Seq(Cars)
      /\ NoRepeat(before)
      /\ \A k \in 1..Len(before) : before[k] \notin outside
      /\ InRankOrder(before, priority, enter_time)
      /\ j \in 0..(size - 1)
      /\ \A k \in 0..(j - 1) : cars[k] = before[k + 2]
  BY <1>1 DEF Loops, Popping, Began, Vehicles
<1>3. PICK t \in Seq(Cars) :
        /\ t = Tail(before) /\ Len(t) = size - 1
        /\ \A k \in 1..(size - 1) : t[k] = before[k + 1]
  <2>1. PICK q \in Seq(Cars) : q = before /\ Len(q) = size
    BY <1>2
  <2>2. q # <<>>
    BY <1>2, <2>1
  <2>3. /\ Tail(q) \in Seq(Cars) /\ Len(Tail(q)) = Len(q) - 1
        /\ \A k \in 1..(Len(q) - 1) : Tail(q)[k] = q[k + 1]
    BY <2>2, TailIs
  <2> QED
    BY <2>1, <2>3
<1>4. Contents' = t
  <2>1. \A k \in 0..((size - 1) - 1) : cars[k] = t[k + 1]
    <3> SUFFICES ASSUME NEW k \in 0..((size - 1) - 1) PROVE cars[k] = t[k + 1]
      OBVIOUS
    <3>1. k \in 0..(j - 1) /\ k + 1 \in 1..(size - 1) /\ (k + 1) + 1 = k + 2
      BY <1>1, <1>2
    <3> QED
      BY <1>2, <1>3, <3>1
  <2>2. size - 1 \in Nat
    BY <1>1, <1>2
  <2>3. [k \in 1..(size - 1) |-> cars[k - 1]] = t
    BY <1>3, <2>1, <2>2, ContentsIs
  <2> QED
    BY <1>1, <2>3 DEF Contents
<1>5. \A k \in 1..Len(t) : k + 1 \in 1..Len(before) /\ t[k] = before[k + 1]
  BY <1>2, <1>3
<1>6. NoRepeat(t)
  <2> SUFFICES ASSUME NEW k \in 1..Len(t), NEW l \in 1..Len(t), t[k] = t[l]
               PROVE  k = l
    BY DEF NoRepeat
  <2>1. k + 1 = l + 1
    BY <1>2, <1>5 DEF NoRepeat
  <2> QED
    BY <2>1, <1>3
<1>7. InRankOrder(t, priority, enter_time)
  <2> SUFFICES ASSUME NEW k \in 1..Len(t), NEW l \in 1..Len(t), k < l
               PROVE  ~Outranks(priority, enter_time, t[l], t[k])
    BY DEF InRankOrder
  <2>1. k + 1 < l + 1
    OBVIOUS
  <2> QED
    BY <1>2, <1>5, <2>1 DEF InRankOrder
<1> QED
  BY <1>1, <1>2, <1>3, <1>4, <1>5, <1>6, <1>7 DEF Vehicles

LEMMA EndPopLoops == Loops /\ EndPop => Loops'
<1> SUFFICES ASSUME Loops, EndPop PROVE Loops'
  OBVIOUS
<1>1. /\ TypeOK' /\ op' = "idle" /\ key' = NULL
      /\ UNCHANGED <<priority, enter_time>>
  BY StepTypes DEF EndPop, Return, fields, Next
<1>2. Idle'
  BY <1>1, EndPopIs DEF Idle
<1> QED
  BY <1>1, <1>2 DEF Loops, Began, Inserting, Popping, Sorting

LEMMA BeginSortLoops ==
  ASSUME Loops, NEW now \in 0..(MaxTime + 1), BeginSort(now)
  PROVE  Loops'
<1>1. /\ TypeOK /\ TypeOK' /\ op = "idle" /\ op' = "sort" /\ before' = Contents
      /\ i' = 1 /\ key = NULL /\ K_CARS \in Nat \ {0}
      /\ UNCHANGED <<cars, size, key, j, outside, enter_time>>
  BY StepTypes, ArrayAssumption DEF Loops, Idle, BeginSort, Begin, Next
<1>2. PICK q \in Seq(Cars) :
        /\ q = before' /\ Len(q) = size /\ NoRepeat(q)
        /\ \A k \in 1..Len(q) : q[k] \notin outside
        /\ \A k \in 0..(size - 1) : cars'[k] = q[k + 1]
  BY <1>1, BeginsWith
<1>3. Began'
  BY <1>1, <1>2 DEF Began, Vehicles
<1>4. Sorted' = q
  <2> DEFINE n == IF size = 0 THEN 0 ELSE 1
  <2>1. n \in 0..Len(q) /\ n < 2
    BY <1>2
  <2> HIDE DEF n
  <2>2. Iterations(q, priority', enter_time')[n] = q
    BY <2>1, IterationsAre
  <2>3. Sorted' = Iterations(q, priority', enter_time')[n]
    BY <1>1, <1>2 DEF Sorted, n
  <2> QED
    BY <2>2, <2>3
<1>5. StablePrefix(q, q, 1, priority', enter_time')
  BY <1>2, StartsStable
<1>6. 1 \in 1..K_CARS
  BY <1>1
<1>7. Sorting'
  BY <1>1, <1>2, <1>4, <1>5, <1>6 DEF Sorting, Holds
<1> QED
  BY <1>1, <1>3, <1>7 DEF Loops, Idle, Inserting, Popping

LEMMA PickKeyLoops == Loops /\ PickKey => Loops'
<1> SUFFICES ASSUME Loops, PickKey PROVE Loops'
  OBVIOUS
<1>1. /\ TypeOK /\ TypeOK' /\ op = "sort" /\ key = NULL /\ i < size
      /\ key' = cars[i] /\ j' = i - 1
      /\ UNCHANGED <<cars, size, op, i, outside, priority, enter_time, before>>
      /\ size \in Nat /\ NULL \notin Cars
  BY StepTypes, Known DEF Loops, PickKey, fields, Next
<1>2. /\ i \in 1..K_CARS /\ Sorted \in Seq(Cars) /\ Len(Sorted) = size
      /\ StablePrefix(Sorted, before, i, priority, enter_time)
      /\ \A k \in 0..(size - 1) : cars[k] = Sorted[k + 1]
  BY <1>1 DEF Loops, Sorting, StablePrefix, Began, Holds
<1>3. Sorted' = Sorted
  BY <1>1 DEF Sorted
<1>4. key' = Sorted[i + 1] /\ key' \in Cars
  <2>1. i \in 0..(size - 1) /\ i + 1 \in 1..size
    BY <1>1, <1>2
  <2> QED
    BY <1>1, <1>2, <2>1
<1>5. GapIn(Sorted, i)'
  <2>1. \A k \in 0..(i - 1) : cars[k] = Sorted[k + 1]
    BY <1>1, <1>2
  <2>2. j' \in -1..(i - 1) /\ j' = i - 1
    BY <1>1, <1>2
  <2> QED
    BY <1>1, <1>2, <1>3, <2>1, <2>2 DEF GapIn, Holds
<1>6. Holds(Sorted, i + 1, size - 1)'
  BY <1>1, <1>2, <1>3 DEF Holds
<1>7. Sorting'
  BY <1>1, <1>2, <1>3, <1>4, <1>5, <1>6 DEF Loops, Sorting
<1>8. Began'
  BY <1>1 DEF Loops, Began, Vehicles
<1> QED
  BY <1>1, <1>7, <1>8 DEF Loops, Idle, Inserting, Popping

LEMMA PlaceKeyLoops == Loops /\ PlaceKey => Loops'
<1> SUFFICES ASSUME Loops, PlaceKey PROVE Loops'
  OBVIOUS
<1>1. /\ TypeOK /\ TypeOK' /\ op = "sort" /\ key # NULL /\ StopsAt
      /\ cars' = [cars EXCEPT ![j + 1] = key] /\ key' = NULL /\ i' = i + 1
      /\ UNCHANGED <<size, op, j, outside, priority, enter_time, before>>
      /\ size \in 0..K_CARS /\ K_CARS \in Nat
      /\ Ranked(Cars, priority, enter_time)
  BY StepTypes, Known DEF Loops, PlaceKey, fields, Next, TypeOK
<1>2. /\ i \in 1..K_CARS /\ i < size /\ Sorted \in Seq(Cars)
      /\ Len(Sorted) = size /\ before \in Seq(Cars) /\ Len(before) = size
      /\ StablePrefix(Sorted, before, i, priority, enter_time)
      /\ key = Sorted[i + 1] /\ GapIn(Sorted, i)
      /\ Holds(Sorted, i + 1, size - 1)
  BY <1>1 DEF Loops, Sorting, StablePrefix, Began, Vehicles
<1>3. PICK q \in Seq(Cars), n \in 0..(K_CARS - 1) :
        q = Sorted /\ n = i /\ n <= Len(q)
  <2>1. i \in 0..(K_CARS - 1) /\ i <= size
    BY <1>1, <1>2
  <2> QED
    BY <1>2, <2>1
<1>4. n \in 1..(Len(q) - 1)
  BY <1>1, <1>2, <1>3
<1> DEFINE p == j + 1
<1>5. /\ p \in 0..n
      /\ \A k \in 0..n :
           cars'[k] = IF k < p THEN q[k + 1]
                      ELSE IF k = p THEN key ELSE q[k]
      /\ \A k \in (n + 1)..(K_CARS - 1) : cars'[k] = cars[k]
      /\ p > 0 => ~Ahead(key, q[p])
      /\ \A k \in (p + 1)..n : Ahead(key, q[k])
  <2>1. GapIn(q, n)
    BY <1>2, <1>3
  <2>2. (j + 1) + 1 = j + 2
    BY <2>1 DEF GapIn
  <2> QED
    BY <1>1, <1>3, <2>1, <2>2, StoreAtGap
<1> HIDE DEF p
<1>6. StopsBehind(q, n, p, priority, enter_time)
  BY <1>2, <1>3, <1>5 DEF StopsBehind, Ahead
<1> DEFINE s == SortStep(q, n, priority, enter_time)
<1>7. s \in Seq(Cars) /\ StepTo(s, q, n, p)
  <2>1. /\ s \in Seq(Cars)
        /\ \E o \in 0..n :
             StepTo(s, q, n, o) /\ StopsBehind(q, n, o, priority, enter_time)
    BY <1>1, <1>4, SortStepIs
  <2> HIDE DEF s
  <2>2. PICK o \in 0..n :
          StepTo(s, q, n, o) /\ StopsBehind(q, n, o, priority, enter_time)
    BY <2>1
  <2>3. ~(p < o) /\ ~(o < p)
    BY <1>4, <1>5, <1>6, <2>2 DEF StopsBehind
  <2>4. p = o
    BY <1>4, <1>5, <2>3
  <2> QED
    BY <2>1, <2>2, <2>4
<1>8. StablePrefix(s, before, n + 1, priority, enter_time)
  <2> HIDE DEF s
  <2> QED
    BY <1>1, <1>2, <1>3, <1>4, <1>5, <1>6, <1>7, StepStable
<1>9. Sorted' = s
  <2>1. Sorted' = Iterations(before, priority, enter_time)[i + 1]
    BY <1>1, <1>2, <1>4 DEF Sorted
  <2>2. Sorted = Iterations(before, priority, enter_time)[i]
    BY <1>1, <1>2, <1>4 DEF Sorted
  <2>3. n + 1 \in 0..Len(before) /\ ~(n + 1 < 2) /\ (n + 1) - 1 = n
    BY <1>2, <1>3, <1>4
  <2>4. Iterations(before, priority, enter_time)[n + 1]
          = SortStep(Iterations(before, priority, enter_time)[n], n,
                     priority, enter_time)
    BY <1>2, <2>3, IterationsAre
  <2> QED
    BY <1>3, <2>1, <2>2, <2>4
<1> HIDE DEF s
<1>10. \A k \in 0..(size - 1) : cars'[k] = s[k + 1]
  <2> SUFFICES ASSUME NEW k \in 0..(size - 1) PROVE cars'[k] = s[k + 1]
    OBVIOUS
  <2>1. \A l \in 1..size :
          s[l] = IF l <= p THEN q[l]
                 ELSE IF l = p + 1 THEN q[n + 1]
                 ELSE IF l <= n + 1 THEN q[l - 1]
                 ELSE q[l]
    BY <1>2, <1>3, <1>7 DEF StepTo
  <2>2. /\ k + 1 \in 1..size /\ (k + 1) - 1 = k
        /\ (k + 1 <= p <=> k < p) /\ (k + 1 = p + 1 <=> k = p)
        /\ (k + 1 <= n + 1 <=> k <= n)
    BY <1>1, <1>4, <1>5
  <2>3. CASE k <= n
    <3>1. k \in 0..n
      BY <2>3
    <3> QED
      BY <1>2, <1>3, <1>5, <2>1, <2>2, <2>3, <3>1
  <2>4. CASE k > n
    <3>1. k \in (n + 1)..(K_CARS - 1) /\ k \in (i + 1)..(size - 1) /\ ~(k <= n)
          /\ ~(k < p) /\ k # p
      BY <1>1, <1>3, <1>4, <1>5, <2>4
    <3>2. cars'[k] = q[k + 1]
      BY <1>2, <1>3, <1>5, <3>1 DEF Holds
    <3> QED
      BY <2>1, <2>2, <3>1, <3>2
  <2> QED
    BY <1>4, <2>3, <2>4
<1>11. i' \in 1..K_CARS /\ i' <= size
  BY <1>1, <1>2
<1>12. Sorting'
  BY <1>1, <1>3, <1>7, <1>8, <1>9, <1>10, <1>11 DEF Sorting, Holds
<1>13. Began'
  BY <1>1 DEF Loops, Began, Vehicles
<1> QED
  BY <1>1, <1>12, <1>13 DEF Loops, Idle, Inserting, Popping

(* The end of insertion_sort. *)
LEMMA EndSortIs ==
  ASSUME Loops, EndSort
  PROVE  /\ Contents' = InsertionSort(before, priority, enter_time)
         /\ Contents' \in Seq(Cars) /\ before \in Seq(Cars)
         /\ StablePrefix(Contents', before, Len(before), priority, enter_time)
         /\ Vehicles(Contents)'
         /\ InRankOrder(Contents', priority, enter_time)
<1>1. /\ TypeOK /\ op = "sort" /\ key = NULL /\ i >= size
      /\ UNCHANGED <<cars, size, outside, priority, enter_time>>
      /\ size \in Nat
  BY Known DEF Loops, EndSort, SortOver, Return, fields
<1>2. /\ i \in 1..K_CARS /\ (i <= size \/ i = 1)
      /\ Sorted \in Seq(Cars) /\ Len(Sorted) = size
      /\ Len(before) = size /\ Vehicles(before) /\ before \in Seq(Cars)
      /\ StablePrefix(Sorted, before, i, priority, enter_time)
      /\ \A k \in 0..(size - 1) : cars[k] = Sorted[k + 1]
  BY <1>1 DEF Loops, Sorting, StablePrefix, Began, Vehicles, Holds
<1>3. Contents' = Sorted
  <2>1. PICK q \in Seq(Cars) : q = Sorted
    BY <1>2
  <2>2. [k \in 1..size |-> cars[k - 1]] = q
    BY <1>1, <1>2, <2>1, ContentsIs
  <2> QED
    BY <1>1, <2>1, <2>2 DEF Contents
<1>4. (IF size = 0 THEN 0 ELSE i) = size
  BY <1>1, <1>2
<1>5. Sorted = InsertionSort(before, priority, enter_time)
  BY <1>2, <1>4, SortIsIterated DEF Sorted
<1>6. StablePrefix(Sorted, before, Len(before), priority, enter_time)
  <2>1. \A l \in 1..size : l <= i
    BY <1>1, <1>2
  <2> QED
    BY <1>2, <2>1 DEF StablePrefix, SortedTo
<1>7. InRankOrder(Sorted, priority, enter_time)
  BY <1>2, <1>6 DEF StablePrefix, SortedTo, InRankOrder
<1>8. NoRepeat(Sorted) /\ \A k \in 1..Len(Sorted) : Sorted[k] \notin outside
  BY <1>2 DEF StablePrefix, Occurs, Vehicles
<1> QED
  BY <1>1, <1>2, <1>3, <1>5, <1>6, <1>7, <1>8 DEF Vehicles

LEMMA EndSortLoops == Loops /\ EndSort => Loops'
<1> SUFFICES ASSUME Loops, EndSort PROVE Loops'
  OBVIOUS
<1>1. /\ TypeOK' /\ op' = "idle" /\ key' = NULL
      /\ UNCHANGED <<priority, enter_time>>
  BY StepTypes DEF EndSort, Return, fields, Next
<1>2. Idle'
  BY <1>1, EndSortIs DEF Idle
<1> QED
  BY <1>1, <1>2 DEF Loops, Began, Inserting, Popping, Sorting

LEMMA LoopsInductive == Loops /\ [Next]_vars => Loops'
<1> SUFFICES ASSUME Loops, [Next]_vars PROVE Loops'
  OBVIOUS
<1>1. CASE UNCHANGED vars
  <2>1. /\ UNCHANGED <<cars, size, op, key, i, j, outside, before>>
        /\ UNCHANGED <<priority, enter_time>>
    BY <1>1 DEF vars
  <2>2. TypeOK'
    BY StepTypes
  <2>3. Sorted' = Sorted /\ Contents' = Contents
    BY <2>1 DEF Sorted, Contents
  <2>4. Idle'
    BY <2>1, <2>3 DEF Loops, Idle, Vehicles
  <2>5. Began'
    BY <2>1 DEF Loops, Began, Vehicles
  <2>6. Inserting'
    BY <2>1 DEF Loops, Inserting, GapIn, Holds, Ahead
  <2>7. Popping'
    BY <2>1 DEF Loops, Popping, Holds
  <2>8. Sorting'
    BY <2>1, <2>3 DEF Loops, Sorting, GapIn, Holds, Ahead
  <2> QED
    BY <2>2, <2>4, <2>5, <2>6, <2>7, <2>8 DEF Loops
<1> QED
  BY <1>1, ShiftBackLoops, BeginInsertLoops, EndInsertLoops, BeginPopLoops,
     ShiftFrontLoops, EndPopLoops, BeginSortLoops, PickKeyLoops,
     PlaceKeyLoops, EndSortLoops
  DEF Next

LEMMA LoopsHold == Spec => []Loops
BY InitLoops, LoopsInductive, PTL DEF Spec

-----------------------------------------------------------------------------
(* What the invariant gives *)

(* Two sets of at most one index each, empty together, count the same. *)
LEMMA SameCount ==
  ASSUME NEW A, NEW B, \A x, y \in A : x = y, \A x, y \in B : x = y,
         A = {} <=> B = {}
  PROVE  Cardinality(A) = Cardinality(B)
<1>1. CASE A = {}
  BY <1>1
<1>2. CASE A # {}
  <2>1. PICK x \in A, y \in B : TRUE
    BY <1>2
  <2>2. A = {x} /\ B = {y}
    BY <2>1
  <2> QED
    BY <2>2, FS_Singleton
<1> QED
  BY <1>1, <1>2

(* the indices in D at which a has c *)
Places(a, D, c) == {k \in D : a[k] = c}

(* At its indices D, array a holds entries of q, each at most once, and c *)
(* if q does: at[k] is the place in q of what a has at k.                  *)
HoldsOnce(a, D, q, at, c) ==
  /\ NoRepeat(q)
  /\ \A k \in D : at[k] \in 1..Len(q) /\ a[k] = q[at[k]]
  /\ \A k, l \in D : at[k] = at[l] => k = l
  /\ \A m \in 1..Len(q) : q[m] = c => \E k \in D : at[k] = m

LEMMA CountsOnce ==
  ASSUME NEW a, NEW D, NEW q, NEW at, NEW c, HoldsOnce(a, D, q, at, c)
  PROVE  Cardinality(Places(a, D, c)) = Cardinality(Places(q, 1..Len(q), c))
<1> DEFINE A == Places(a, D, c)
           B == Places(q, 1..Len(q), c)
<1>1. \A k, l \in A : k = l
  BY DEF NoRepeat, HoldsOnce, Places
<1>2. \A k, l \in B : k = l
  BY DEF NoRepeat, HoldsOnce, Places
<1>3. A = {} <=> B = {}
  <2>1. ASSUME NEW k \in A PROVE at[k] \in B
    BY DEF HoldsOnce, Places
  <2>2. ASSUME NEW m \in B PROVE \E k \in D : k \in A
    BY DEF HoldsOnce, Places
  <2> QED
    BY <2>1, <2>2
<1> HIDE DEF A, B
<1>4. Cardinality(A) = Cardinality(B)
  BY <1>1, <1>2, <1>3, SameCount
<1> QED
  BY <1>4 DEF A, B

(* Queues of the same vehicles hold each of them equally often. *)
LEMMA SameVehiclesCount ==
  ASSUME NEW q, NEW r, NoRepeat(q), NoRepeat(r), NEW c,
         Occurs(c, q) <=> Occurs(c, r)
  PROVE  Cardinality(Places(q, 1..Len(q), c))
           = Cardinality(Places(r, 1..Len(r), c))
<1>1. \A k, l \in Places(q, 1..Len(q), c) : k = l
  BY DEF NoRepeat, Places
<1>2. \A k, l \in Places(r, 1..Len(r), c) : k = l
  BY DEF NoRepeat, Places
<1>3. Places(q, 1..Len(q), c) = {} <=> Places(r, 1..Len(r), c) = {}
  BY DEF Occurs, Places
<1> QED
  BY <1>1, <1>2, <1>3, SameCount

(* OneGap, operation by operation. *)
LEMMA InsertGap ==
  Loops /\ op = "insert" => size < K_CARS /\ SameBut(j + 1, size, Cars)
<1> SUFFICES ASSUME Loops, op = "insert"
             PROVE  size < K_CARS /\ SameBut(j + 1, size, Cars)
  OBVIOUS
<1>1. /\ size \in Nat /\ size < K_CARS /\ Len(before) = size
      /\ before \in Seq(Cars) /\ NoRepeat(before)
      /\ j \in -1..(size - 1)
      /\ \A k \in 0..j : cars[k] = before[k + 1]
      /\ \A k \in (j + 1)..(size - 1) : cars[k + 1] = before[k + 1]
  BY Known DEF Loops, Inserting, Began, Vehicles, GapIn, Holds
<1> DEFINE D == (0..size) \ {j + 1}
           at == [k \in D |-> IF k <= j THEN k + 1 ELSE k]
<1>2. ASSUME NEW k \in D PROVE at[k] \in 1..size /\ cars[k] = before[at[k]]
  <2>1. CASE k <= j
    <3>1. k \in 0..j /\ at[k] = k + 1
      BY <1>1, <2>1
    <3> QED
      BY <1>1, <3>1
  <2>2. CASE ~(k <= j)
    <3>1. k - 1 \in (j + 1)..(size - 1) /\ (k - 1) + 1 = k /\ at[k] = k
      BY <1>1, <2>2
    <3>2. cars[(k - 1) + 1] = before[(k - 1) + 1]
      BY <1>1, <3>1
    <3> QED
      BY <1>1, <3>1, <3>2
  <2> QED
    BY <2>1, <2>2
<1>3. \A k, l \in D : at[k] = at[l] => k = l
  BY <1>1
<1>4. ASSUME NEW m \in 1..size PROVE \E k \in D : at[k] = m
  <2>1. CASE m <= j + 1
    <3>1. m - 1 \in D /\ at[m - 1] = m
      BY <1>1, <2>1
    <3> QED
      BY <3>1
  <2>2. CASE ~(m <= j + 1)
    <3>1. m \in D /\ at[m] = m
      BY <1>1, <2>2
    <3> QED
      BY <3>1
  <2> QED
    BY <2>1, <2>2
<1> HIDE DEF D, at
<1>5. \A c \in Cars : HoldsOnce(cars, D, before, at, c)
  BY <1>1, <1>2, <1>3, <1>4 DEF HoldsOnce
<1>6. \A c \in Cars : Cardinality(Places(cars, D, c))
                        = Cardinality(Places(before, 1..Len(before), c))
  BY <1>5, CountsOnce
<1>7. DOMAIN before = 1..Len(before) /\ j + 1 \in 0..size
  BY <1>1
<1> QED
  BY <1>1, <1>6, <1>7 DEF SameBut, Places, D

LEMMA SortGap ==
  Loops /\ op = "sort" /\ key # NULL => SameBut(j + 1, size - 1, Cars \ {key})
<1> SUFFICES ASSUME Loops, op = "sort", key # NULL
             PROVE  SameBut(j + 1, size - 1, Cars \ {key})
  OBVIOUS
<1>1. /\ size \in Nat /\ Len(before) = size
      /\ before \in Seq(Cars) /\ NoRepeat(before)
      /\ Len(Sorted) = size /\ NoRepeat(Sorted)
      /\ \A d : Occurs(d, Sorted) <=> Occurs(d, before)
      /\ Sorted \in Seq(Cars)
      /\ i \in Nat /\ i < size /\ key = Sorted[i + 1]
      /\ j \in -1..(i - 1)
      /\ \A k \in 0..j : cars[k] = Sorted[k + 1]
      /\ \A k \in (j + 1)..(i - 1) : cars[k + 1] = Sorted[k + 1]
      /\ \A k \in (i + 1)..(size - 1) : cars[k] = Sorted[k + 1]
  BY Known DEF Loops, Sorting, StablePrefix, Began, Vehicles, GapIn, Holds
<1>2. PICK q \in Seq(Cars) : q = Sorted
  BY <1>1
<1> DEFINE D == (0..(size - 1)) \ {j + 1}
           at == [k \in D |-> IF k <= j \/ k > i THEN k + 1 ELSE k]
<1>3. ASSUME NEW k \in D PROVE at[k] \in 1..size /\ cars[k] = q[at[k]]
  <2>1. CASE k <= j \/ k > i
    <3>1. (k \in 0..j \/ k \in (i + 1)..(size - 1)) /\ at[k] = k + 1
      BY <1>1, <2>1
    <3> QED
      BY <1>1, <1>2, <3>1
  <2>2. CASE ~(k <= j \/ k > i)
    <3>1. k - 1 \in (j + 1)..(i - 1) /\ (k - 1) + 1 = k /\ at[k] = k
      BY <1>1, <2>2
    <3>2. cars[(k - 1) + 1] = q[(k - 1) + 1]
      BY <1>1, <1>2, <3>1
    <3> QED
      BY <1>1, <3>1, <3>2
  <2> QED
    BY <2>1, <2>2
<1>4. \A k, l \in D : at[k] = at[l] => k = l
  BY <1>1
<1>5. ASSUME NEW m \in 1..size, m # i + 1 PROVE \E k \in D : at[k] = m
  <2>1. CASE m <= j + 1 \/ m > i + 1
    <3>1. m - 1 \in D /\ at[m - 1] = m
      BY <1>1, <2>1
    <3> QED
      BY <3>1
  <2>2. CASE ~(m <= j + 1 \/ m > i + 1)
    <3>1. m \in D /\ at[m] = m
      BY <1>1, <1>5, <2>2
    <3> QED
      BY <3>1
  <2> QED
    BY <2>1, <2>2
<1> HIDE DEF D, at
<1>6. \A c \in Cars \ {key} : HoldsOnce(cars, D, q, at, c)
  BY <1>1, <1>2, <1>3, <1>4, <1>5 DEF HoldsOnce
<1>7. \A c \in Cars \ {key} : Cardinality(Places(cars, D, c))
                                = Cardinality(Places(before, 1..Len(before), c))
  <2>1. \A c : Cardinality(Places(q, 1..Len(q), c))
                 = Cardinality(Places(before, 1..Len(before), c))
    BY <1>1, <1>2, SameVehiclesCount
  <2> QED
    BY <1>6, <2>1, CountsOnce
<1>8. DOMAIN before = 1..Len(before) /\ j + 1 \in 0..(size - 1)
  BY <1>1
<1> QED
  BY <1>7, <1>8 DEF SameBut, Places, D

LEMMA PopGap ==
  Loops /\ op = "pop" => SameBut(j, size - 1, Cars \ {key})
<1> SUFFICES ASSUME Loops, op = "pop"
             PROVE  SameBut(j, size - 1, Cars \ {key})
  OBVIOUS
<1>1. /\ size \in Nat /\ Len(before) = size /\ size > 0
      /\ before \in Seq(Cars) /\ NoRepeat(before)
      /\ key = before[1]
      /\ j \in 0..(size - 1)
      /\ \A k \in 0..(j - 1) : cars[k] = before[k + 2]
      /\ \A k \in j..(size - 1) : cars[k] = before[k + 1]
  BY Known DEF Loops, Popping, Began, Vehicles, Holds
<1> DEFINE D == (0..(size - 1)) \ {j}
           at == [k \in D |-> IF k < j THEN k + 2 ELSE k + 1]
<1>2. ASSUME NEW k \in D PROVE at[k] \in 1..size /\ cars[k] = before[at[k]]
  <2>1. CASE k < j
    <3>1. k \in 0..(j - 1) /\ at[k] = k + 2
      BY <1>1, <2>1
    <3> QED
      BY <1>1, <3>1
  <2>2. CASE ~(k < j)
    <3>1. k \in j..(size - 1) /\ at[k] = k + 1
      BY <1>1, <2>2
    <3> QED
      BY <1>1, <3>1
  <2> QED
    BY <2>1, <2>2
<1>3. \A k, l \in D : at[k] = at[l] => k = l
  BY <1>1
<1>4. ASSUME NEW m \in 1..size, m # 1 PROVE \E k \in D : at[k] = m
  <2>1. CASE m <= j + 1
    <3>1. m - 2 \in D /\ at[m - 2] = m
      BY <1>1, <1>4, <2>1
    <3> QED
      BY <3>1
  <2>2. CASE ~(m <= j + 1)
    <3>1. m - 1 \in D /\ at[m - 1] = m
      BY <1>1, <2>2
    <3> QED
      BY <3>1
  <2> QED
    BY <2>1, <2>2
<1> HIDE DEF D, at
<1>5. \A c \in Cars \ {key} : HoldsOnce(cars, D, before, at, c)
  BY <1>1, <1>2, <1>3, <1>4 DEF HoldsOnce
<1>6. \A c \in Cars \ {key} : Cardinality(Places(cars, D, c))
                                = Cardinality(Places(before, 1..Len(before), c))
  BY <1>5, CountsOnce
<1>7. DOMAIN before = 1..Len(before) /\ j \in 0..(size - 1)
  BY <1>1
<1> QED
  BY <1>6, <1>7 DEF SameBut, Places, D

LEMMA LoopsGiveArrayInv == Loops => ArrayInv
BY InsertGap, SortGap, PopGap DEF ArrayInv, OneGap, IdleSorted, Loops, Idle

(***************************************************************************)
(* The loops of queue.c stay within the vehicles in the array, lose none   *)
(* and leave none there twice, at every iteration (queue.c:26-31, :52-57,  *)
(* :76-77), and between operations the queue is in rank order.             *)
(***************************************************************************)
THEOREM ArrayInvariant == Spec => []ArrayInv
BY LoopsHold, LoopsGiveArrayInv, PTL

(* Only the end of an operation returns from it. *)
LEMMA OnlyEndsReturn ==
  ASSUME Loops, [Next]_vars, op # "idle", op' = "idle"
  PROVE  \/ op = "insert" /\ EndInsert
         \/ op = "pop" /\ EndPop
         \/ op = "sort" /\ EndSort
BY DEF Next, vars, ShiftBack, BeginInsert, Begin, EndInsert, BeginPop,
       ShiftFront, EndPop, BeginSort, PickKey, PlaceKey, EndSort

LEMMA ReturnComputes ==
  ASSUME Loops, [Next]_vars, op # "idle", op' = "idle"
  PROVE  Contents' =
           CASE op = "insert" ->
                  InsertSorted(before, key, priority, enter_time)
             [] op = "pop" -> Tail(before)
             [] op = "sort" -> InsertionSort(before, priority, enter_time)
<1>1. CASE op = "insert" /\ EndInsert
  BY <1>1, EndInsertIs
<1>2. CASE op = "pop" /\ EndPop
  BY <1>2, EndPopIs
<1>3. CASE op = "sort" /\ EndSort
  BY <1>3, EndSortIs
<1> QED
  BY <1>1, <1>2, <1>3, OnlyEndsReturn

(***************************************************************************)
(* What pq_insert, pq_pop and insertion_sort leave in the array is what    *)
(* InsertSorted, Tail and InsertionSort say, the operators through which   *)
(* Admission sees queue.c.                                                 *)
(***************************************************************************)
THEOREM ArrayComputesOperators == Spec => ComputesOperators
<1>1. Loops /\ [Next]_vars =>
        [op # "idle" /\ op' = "idle" =>
           Contents' =
             CASE op = "insert" ->
                    InsertSorted(before, key, priority, enter_time)
               [] op = "pop" -> Tail(before)
               [] op = "sort" ->
                    InsertionSort(before, priority, enter_time)]_vars
  BY ReturnComputes
<1> QED
  BY <1>1, LoopsHold, PTL DEF Spec, ComputesOperators

(* A stable prefix as long as the queue is a stable sort of it. *)
LEMMA StableIs ==
  ASSUME NEW S, NEW p \in Seq(S), NEW q \in Seq(S),
         StablePrefix(p, q, Len(q), priority, enter_time)
  PROVE  StableSortOf(p, q)
<1>1. Len(p) = Len(q)
  BY DEF StablePrefix
<1>2. ToSet(p) = ToSet(q)
  <2>1. \A d : (\E k \in 1..Len(p) : p[k] = d)
                 <=> (\E k \in 1..Len(q) : q[k] = d)
    BY DEF StablePrefix, Occurs
  <2>2. DOMAIN p = 1..Len(p) /\ DOMAIN q = 1..Len(q)
    OBVIOUS
  <2> QED
    BY <2>1, <2>2 DEF ToSet
<1>3. InRankOrder(p, priority, enter_time)
  <2>1. \A l \in 1..Len(p) : l <= Len(q)
    BY <1>1
  <2> QED
    BY <2>1 DEF StablePrefix, SortedTo, InRankOrder
<1> QED
  BY <1>1, <1>2, <1>3 DEF StablePrefix, KeepsOrder, StableSortOf, Ahead

(***************************************************************************)
(* insertion_sort leaves the same vehicles, in rank order, and vehicles    *)
(* of equal rank in the order they had (queue.c:20 "FIFO"), whatever the   *)
(* monitor has promoted.                                                   *)
(***************************************************************************)
THEOREM ArraySortsStably == Spec => SortsStably
<1>1. Loops /\ [Next]_vars =>
        [op = "sort" /\ op' = "idle" => StableSortOf(Contents', before)]_vars
  <2> SUFFICES ASSUME Loops, [Next]_vars, op = "sort", op' = "idle"
               PROVE  StableSortOf(Contents', before)
    OBVIOUS
  <2>1. EndSort
    BY OnlyEndsReturn
  <2> QED
    BY <2>1, EndSortIs, StableIs
<1> QED
  BY <1>1, LoopsHold, PTL DEF Spec, SortsStably
=============================================================================
