--------------------------- MODULE RingArithmetic ---------------------------
(***************************************************************************)
(* Facts that the proofs about ring buffers rest on: about remainders (a   *)
(* ring of c cells keeps ticket t in cell t % c), and about the functions  *)
(* that list what is in a ring's cells.                                    *)
(***************************************************************************)
EXTENDS Integers, Sequences, TLAPS

\* A ticket's cell is one of the ring's cells.
LEMMA CellInRing ==
  ASSUME NEW c \in Nat \ {0}, NEW t \in Nat
  PROVE  t % c \in 0..(c - 1)
OBVIOUS

\* Lap and cell determine the ticket.
LEMMA LapAndCell ==
  ASSUME NEW c \in Nat \ {0}, NEW t \in Nat
  PROVE  t \div c \in Nat /\ t = c * (t \div c) + (t % c)
OBVIOUS

\* On the first lap ticket and cell are the same number.
LEMMA FirstLap ==
  ASSUME NEW c \in Nat \ {0}, NEW t \in 0..(c - 1)
  PROVE  t % c = t
OBVIOUS

\* Multiples of c are at least c apart.
LEMMA MultiplesApart ==
  ASSUME NEW c \in Nat \ {0}, NEW r \in Nat, NEW q \in Nat, r < q
  PROVE  c * q >= c * r + c
<1>1. PICK d \in Nat : q = r + 1 + d
  <2>1. q - r - 1 \in Nat /\ q = r + 1 + (q - r - 1)
    OBVIOUS
  <2> QED BY <2>1
<1>2. c * q = c * r + c + c * d
  BY <1>1
<1>3. c * d \in Nat
  OBVIOUS
<1> QED BY <1>2, <1>3

\* A number has only one lap and one cell.
LEMMA LapAndCellUnique ==
  ASSUME NEW c \in Nat \ {0}, NEW q \in Nat, NEW r \in Nat,
         NEW a \in 0..(c - 1), NEW b \in 0..(c - 1),
         c * q + a = c * r + b
  PROVE  q = r /\ a = b
<1>1. c * q \in Nat /\ c * r \in Nat
  OBVIOUS
<1>2. ~(q < r)
  BY <1>1, MultiplesApart
<1>3. ~(r < q)
  BY <1>1, MultiplesApart
<1>4. q = r
  BY <1>2, <1>3
<1> QED BY <1>1, <1>4

\* Two tickets in the same cell are at least a lap apart.
LEMMA SameCellLapApart ==
  ASSUME NEW c \in Nat \ {0}, NEW s \in Nat, NEW t \in Nat,
         s < t, s % c = t % c
  PROVE  t >= s + c
<1> DEFINE r == s \div c
           q == t \div c
<1>1. /\ q \in Nat /\ t = c * q + (t % c)
      /\ r \in Nat /\ s = c * r + (s % c)
  BY LapAndCell
<1>2. s % c \in Nat /\ t % c \in Nat
  BY CellInRing
<1> HIDE DEF q, r
<1>3. c * q \in Nat /\ c * r \in Nat
  BY <1>1
<1>4. c * r < c * q
  BY <1>1, <1>2, <1>3
<1>5. ~(q < r)
  BY <1>1, <1>3, <1>4, MultiplesApart
<1>6. q # r
  BY <1>4, <1>3
<1>7. r < q
  BY <1>1, <1>5, <1>6
<1>8. c * q >= c * r + c
  BY <1>1, <1>7, MultiplesApart
<1> QED BY <1>1, <1>2, <1>3, <1>8

\* A ticket and the one a lap later share a cell.
LEMMA NextLapSameCell ==
  ASSUME NEW c \in Nat \ {0}, NEW t \in Nat
  PROVE  (t + c) % c = t % c
<1> DEFINE r == t \div c
           q == (t + c) \div c
           a == (t + c) % c
           b == t % c
<1>1. /\ q \in Nat /\ t + c = c * q + a
      /\ r \in Nat /\ t = c * r + b
  BY LapAndCell
<1>2. a \in 0..(c - 1) /\ b \in 0..(c - 1)
  BY CellInRing
<1>3. c * (r + 1) = c * r + c
  BY <1>1
<1>4. c * q + a = c * (r + 1) + b
  <2> HIDE DEF q, r, a, b
  <2>1. c * r \in Nat /\ c * q \in Nat
    BY <1>1
  <2> QED BY <1>1, <1>2, <1>3, <2>1
<1> HIDE DEF q, r, a, b
<1>5. r + 1 \in Nat
  BY <1>1
<1>6. a = b
  BY <1>1, <1>2, <1>4, <1>5, LapAndCellUnique
<1> QED BY <1>6 DEF a, b

\* Whole laps do not change the cell.
LEMMA LapsDropOut ==
  ASSUME NEW c \in Nat \ {0}, NEW n \in Nat, NEW k \in Nat
  PROVE  (c * k + n) % c = n % c
<1> DEFINE t == c * k + n
           q == t \div c
           r == n \div c
           a == t % c
           b == n % c
<1>1. t \in Nat
  OBVIOUS
<1>2. /\ q \in Nat /\ t = c * q + a
      /\ r \in Nat /\ n = c * r + b
  BY <1>1, LapAndCell
<1>3. a \in 0..(c - 1) /\ b \in 0..(c - 1)
  BY <1>1, CellInRing
<1>4. c * (k + r) = c * k + c * r
  BY <1>2
<1>5. c * q + a = c * (k + r) + b
  <2>1. c * q + a = c * k + n
    BY <1>2
  <2> HIDE DEF t, q, r, a, b
  <2>2. c * k \in Nat /\ c * r \in Nat
    BY <1>2
  <2> QED BY <1>2, <1>3, <1>4, <2>1, <2>2
<1> HIDE DEF t, q, r, a, b
<1>6. k + r \in Nat
  BY <1>2
<1>7. a = b
  BY <1>2, <1>3, <1>5, <1>6, LapAndCellUnique
<1> QED BY <1>7 DEF a, b, t

\* Wrapping around early or late makes no difference.
LEMMA WrapThenAdd ==
  ASSUME NEW c \in Nat \ {0}, NEW m \in Nat, NEW n \in Nat
  PROVE  ((m % c) + n) % c = (m + n) % c
<1> DEFINE k == m \div c
           y == m % c
           x == y + n
<1>1. k \in Nat /\ m = c * k + y
  BY LapAndCell
<1>2. y \in Nat /\ x \in Nat
  BY CellInRing
<1>3. c * k + x = m + n
  <2> HIDE DEF k, y
  <2>1. c * k \in Nat
    BY <1>1
  <2> QED BY <1>1, <1>2, <2>1
<1>4. (c * k + x) % c = x % c
  <2> HIDE DEF k, x
  <2> QED BY <1>1, <1>2, LapsDropOut
<1> QED BY <1>3, <1>4

\* What it means for a function to be a sequence with one more or one less.
LEMMA AppendIs ==
  ASSUME NEW n \in Nat, NEW x, NEW F, NEW G, NEW S,
         F \in [1..n -> S], G \in [1..(n + 1) -> S],
         \A k \in 1..n : G[k] = F[k], G[n + 1] = x
  PROVE  Len(F) = n /\ G = Append(F, x)
<1>1. F \in Seq(S) /\ Len(F) = n
  OBVIOUS
<1> QED BY <1>1

LEMMA TailIs ==
  ASSUME NEW n \in Nat, n > 0, NEW F, NEW G, NEW S,
         F \in [1..n -> S], G \in [1..(n - 1) -> S],
         \A k \in 1..(n - 1) : G[k] = F[k + 1]
  PROVE  F # <<>> /\ Head(F) = F[1] /\ G = Tail(F)
<1>1. F \in Seq(S) /\ Len(F) = n
  OBVIOUS
<1> QED BY <1>1
=============================================================================
