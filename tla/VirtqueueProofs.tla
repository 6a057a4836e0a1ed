-------------------------- MODULE VirtqueueProofs ---------------------------
(***************************************************************************)
(* Theorems about Virtqueue, for every number of descriptors, every range  *)
(* of the indices that it divides, and every number of buffers.            *)
(*                                                                         *)
(* The argument follows the descriptors: each has a place, and the free    *)
(* chain and the two rings list, without repetition, the descriptors whose *)
(* place they are.                                                         *)
(***************************************************************************)
EXTENDS Virtqueue, FiniteSetTheorems, SequenceTheorems, TLAPS

USE VirtqueueAssumption

-----------------------------------------------------------------------------
(***************************************************************************)
(* Induction over the natural numbers, as the principle of the least one.  *)
(***************************************************************************)

\* A set of natural numbers that is not empty has a least element.
LEMMA LeastNatural ==
    ASSUME NEW T, T \subseteq Nat, T # {}
    PROVE  \E x \in T : \A y \in T : x <= y
<1> DEFINE Less == {ss \in Nat \X Nat : ss[1] < ss[2]}
<1>1. IsWellFoundedOn(Less, Nat)
  BY NatLessThanWellFounded DEF OpToRel
<1>2. \A x, y \in Nat : ~(<<y, x>> \in Less) => x <= y
  OBVIOUS
<1> HIDE DEF Less
<1>3. PICK x \in T : \A y \in T : ~(<<y, x>> \in Less)
  BY <1>1, WFMin
<1>4. \A y \in T : x <= y
  BY <1>2, <1>3
<1>5. QED
  BY <1>4

-----------------------------------------------------------------------------
(***************************************************************************)
(* Indices and slots.                                                      *)
(***************************************************************************)

\* A remainder, and the number it is the remainder of.
LEMMA Remainder ==
    ASSUME NEW a \in Int, NEW b \in Nat \ {0}
    PROVE  a % b \in 0..b - 1 /\ \E q \in Int : a = (b * q) + (a % b)
<1>1. a \div b \in Int /\ a % b \in 0..b - 1 /\ a = (b * (a \div b)) + (a % b)
  OBVIOUS
<1>2. QED
  BY <1>1

\* A multiple of b that lies strictly between -b and b is zero.
LEMMA SmallMultiple ==
    ASSUME NEW b \in Nat \ {0}, NEW d \in Int, b * d < b, -b < b * d
    PROVE  d = 0
<1>1. ASSUME NEW e \in Int, e > 0 PROVE b * e >= b
  BY <1>1
<1>2. CASE d > 0
  BY <1>1, <1>2
<1>3. CASE d < 0
  <2>1. b * (-d) >= b
    BY <1>1, <1>3
  <2>2. b * (-d) = -(b * d)
    OBVIOUS
  <2> DEFINE p == b * d
  <2>3. p \in Int /\ -p >= b /\ -b < p
    BY <2>1, <2>2
  <2> HIDE DEF p
  <2>4. QED
    BY <2>3
<1>4. QED
  BY <1>2, <1>3

\* Two numbers less than b apart with the same remainder are the same.
LEMMA ApartMod ==
    ASSUME NEW b \in Nat \ {0}, NEW i \in Int, NEW j \in Int,
           i - j < b, j - i < b, i % b = j % b
    PROVE  i = j
<1>1. PICK q \in Int : i = (b * q) + (i % b)
  BY Remainder
<1>2. PICK p \in Int : j = (b * p) + (j % b)
  BY Remainder
<1> DEFINE m == i % b
<1>3. m \in Int /\ i = (b * q) + m /\ j = (b * p) + m
  BY <1>1, <1>2, Remainder
<1> HIDE DEF m
<1>4. i - j = b * (q - p)
  BY <1>3
<1>5. q - p = 0
  <2>1. b * (q - p) < b /\ -b < b * (q - p) /\ q - p \in Int
    BY <1>4
  <2>2. QED
    BY <2>1, SmallMultiple
<1>6. QED
  BY <1>4, <1>5

\* Adding a multiple of b leaves the remainder.
LEMMA PlusMultiple ==
    ASSUME NEW b \in Nat \ {0}, NEW x \in Int, NEW w \in Int
    PROVE  (x + (b * w)) % b = x % b
<1> DEFINE y == x + (b * w)
<1>1. y \in Int
  OBVIOUS
<1> HIDE DEF y
<1>2. PICK q \in Int : x = (b * q) + (x % b)
  BY Remainder
<1>3. PICK p \in Int : y = (b * p) + (y % b)
  BY <1>1, Remainder
<1> DEFINE k == x % b  m == y % b
<1>4. k \in 0..b - 1 /\ m \in 0..b - 1 /\ x = (b * q) + k /\ y = (b * p) + m
  BY <1>1, <1>2, <1>3, Remainder
<1>5. y = x + (b * w)
  BY DEF y
<1> HIDE DEF k, m
<1>6. b * (q + w - p) = m - k
  BY <1>4, <1>5
<1>7. q + w - p = 0
  <2>1. b * (q + w - p) < b /\ -b < b * (q + w - p) /\ q + w - p \in Int
    BY <1>4, <1>6
  <2>2. QED
    BY <2>1, SmallMultiple
<1>8. m = k
  BY <1>4, <1>6, <1>7
<1>9. QED
  BY <1>8 DEF m, k, y

\* The slot of an index; the wrap of the indices does not show.
LEMMA SlotFacts ==
    /\ \A x \in Int : Slot(x) \in Desc
    /\ \A x \in Int : Slot(x + Wrap) = Slot(x)
    /\ \A x, y \in Int : x - y < nentries /\ y - x < nentries /\ Slot(x) = Slot(y) => x = y
<1>1. \A x \in Int : Slot(x) \in Desc
  BY Remainder DEF Slot, Desc
<1>2. PICK w \in Int : Wrap = nentries * w
  <2>1. Wrap \in Int /\ Wrap % nentries = 0
    OBVIOUS
  <2>2. PICK q \in Int : Wrap = (nentries * q) + (Wrap % nentries)
    BY <2>1, Remainder
  <2>3. Wrap = nentries * q
    BY <2>1, <2>2
  <2>4. QED
    BY <2>3
<1>3. \A x \in Int : Slot(x + Wrap) = Slot(x)
  BY <1>2, PlusMultiple DEF Slot
<1>4. \A x, y \in Int : x - y < nentries /\ y - x < nentries /\ Slot(x) = Slot(y) => x = y
  BY ApartMod DEF Slot
<1>5. QED
  BY <1>1, <1>3, <1>4

\* An index.
Idx == 0..Wrap - 1

\* How far an index is behind another one.
Span(lo, hi) == (hi - lo) % Wrap

\* The difference of two indices, and the index after one, without remainders.
LEMMA IndexFacts ==
    /\ \A lo, hi \in Idx : hi >= lo => Span(lo, hi) = hi - lo
    /\ \A lo, hi \in Idx : hi < lo => Span(lo, hi) = hi - lo + Wrap
    /\ \A i \in Idx : i + 1 < Wrap => (i + 1) % Wrap = i + 1
    /\ \A i \in Idx : ~(i + 1 < Wrap) => (i + 1) % Wrap = 0 /\ i = Wrap - 1
<1>0. Wrap \in Nat \ {0}
  OBVIOUS
<1>1. \A x \in Idx : x % Wrap = x
  BY <1>0 DEF Idx
<1>2. \A x \in Int : (x + Wrap) % Wrap = x % Wrap
  <2>1. 1 \in Int /\ Wrap * 1 = Wrap
    OBVIOUS
  <2>2. \A x \in Int : (x + (Wrap * 1)) % Wrap = x % Wrap
    BY Zenon, <1>0, <2>1, PlusMultiple
  <2>3. QED
    BY Zenon, <2>1, <2>2
<1>3. ASSUME NEW lo \in Idx, NEW hi \in Idx
      PROVE  /\ hi >= lo => Span(lo, hi) = hi - lo
             /\ hi < lo => Span(lo, hi) = hi - lo + Wrap
  <2>1. hi >= lo => hi - lo \in Idx
    BY DEF Idx
  <2>2. hi < lo => hi - lo + Wrap \in Idx
    BY DEF Idx
  <2>3. hi - lo \in Int
    BY DEF Idx
  <2>4. (hi - lo + Wrap) % Wrap = (hi - lo) % Wrap
    BY <1>2, <2>3
  <2>5. QED
    BY <1>1, <2>1, <2>2, <2>4 DEF Span
<1>4. ASSUME NEW i \in Idx
      PROVE  /\ i + 1 < Wrap => (i + 1) % Wrap = i + 1
             /\ ~(i + 1 < Wrap) => (i + 1) % Wrap = 0 /\ i = Wrap - 1
  <2>1. i + 1 < Wrap => i + 1 \in Idx
    BY DEF Idx
  <2>2. ~(i + 1 < Wrap) => i = Wrap - 1 /\ i + 1 = 0 + Wrap
    BY DEF Idx
  <2>3. 0 % Wrap = 0 /\ 0 \in Int
    BY <1>1 DEF Idx
  <2>4. (0 + Wrap) % Wrap = 0
    BY Zenon, <1>2, <2>3
  <2>5. QED
    BY Zenon, <1>1, <2>1, <2>2, <2>4
<1>5. QED
  BY <1>3, <1>4

-----------------------------------------------------------------------------
(***************************************************************************)
(* What stands in a ring between two indices.                              *)
(***************************************************************************)

Window(ring, lo, hi) == [k \in 1..Span(lo, hi) |-> ring[Slot(lo + k - 1)]]

\* The number of entries, and the slot behind the last one.
LEMMA SpanFacts ==
    ASSUME NEW lo \in Idx, NEW hi \in Idx
    PROVE  Span(lo, hi) \in Idx /\ Span(lo, hi) \in Nat /\ Slot(lo + Span(lo, hi)) = Slot(hi)
<1> DEFINE n == Span(lo, hi)
<1>1. (hi >= lo => n = hi - lo) /\ (hi < lo => n = hi - lo + Wrap)
  BY IndexFacts
<1> HIDE DEF n
<1>2. n \in Idx /\ n \in Nat /\ lo \in Int /\ hi \in Int
  BY <1>1 DEF Idx
<1>3. lo + n = hi \/ lo + n = hi + Wrap
  BY <1>1 DEF Idx
<1>4. Slot(hi + Wrap) = Slot(hi)
  BY <1>2, SlotFacts
<1>5. Slot(lo + n) = Slot(hi)
  BY Zenon, <1>3, <1>4
<1>6. QED
  BY <1>2, <1>5 DEF n

\* The upper index moves on: the entry it stood at is the new last one.
LEMMA WindowGrow ==
    ASSUME NEW ring, NEW lo \in Idx, NEW hi \in Idx, Span(lo, hi) + 1 < Wrap
    PROVE  LET up == (hi + 1) % Wrap  n == Span(lo, hi) IN
             /\ up \in Idx /\ Span(lo, up) = n + 1
             /\ \A k \in 1..n : Window(ring, lo, up)[k] = Window(ring, lo, hi)[k]
             /\ Window(ring, lo, up)[n + 1] = ring[Slot(hi)]
<1> DEFINE up == (hi + 1) % Wrap
           n == Span(lo, hi)
<1>1. /\ hi >= lo => n = hi - lo
      /\ hi < lo => n = hi - lo + Wrap
      /\ hi + 1 < Wrap => up = hi + 1
      /\ ~(hi + 1 < Wrap) => up = 0 /\ hi = Wrap - 1
      /\ n + 1 < Wrap
  BY IndexFacts
<1>a. n \in Nat /\ Slot(lo + n) = Slot(hi)
  BY SpanFacts
<1> HIDE DEF up, n
<1>2. up \in Idx
  BY <1>1 DEF Idx
<1>3. /\ up >= lo => Span(lo, up) = up - lo
      /\ up < lo => Span(lo, up) = up - lo + Wrap
  BY <1>2, IndexFacts
<1>4. Span(lo, up) = n + 1
  BY <1>1, <1>2, <1>3 DEF Idx
<1>5. Window(ring, lo, up) = [k \in 1..n + 1 |-> ring[Slot(lo + k - 1)]]
  BY <1>4 DEF Window
<1>6. Window(ring, lo, hi) = [k \in 1..n |-> ring[Slot(lo + k - 1)]]
  BY DEF Window, n
<1>7. \A k \in 1..n : k \in 1..n + 1
  BY <1>a
<1>8. n + 1 \in 1..n + 1 /\ lo + (n + 1) - 1 = lo + n
  BY <1>a DEF Idx
<1>9. Window(ring, lo, up)[n + 1] = ring[Slot(hi)]
  <2>1. Window(ring, lo, up)[n + 1] = ring[Slot(lo + (n + 1) - 1)]
    BY <1>5, <1>8
  <2>2. QED
    BY <2>1, <1>8, <1>a
<1>10. \A k \in 1..n : Window(ring, lo, up)[k] = Window(ring, lo, hi)[k]
  BY <1>5, <1>6, <1>7
<1>11. QED
  BY <1>2, <1>4, <1>9, <1>10 DEF up, n

\* The lower index moves on: the first entry is gone.
LEMMA WindowShrink ==
    ASSUME NEW ring, NEW lo \in Idx, NEW hi \in Idx, lo # hi
    PROVE  LET up == (lo + 1) % Wrap  n == Span(lo, hi) IN
             /\ up \in Idx /\ n > 0 /\ Span(up, hi) = n - 1
             /\ Window(ring, lo, hi)[1] = ring[Slot(lo)]
             /\ \A k \in 1..n - 1 : Window(ring, up, hi)[k] = Window(ring, lo, hi)[k + 1]
<1> DEFINE up == (lo + 1) % Wrap
           n == Span(lo, hi)
<1>1. /\ hi >= lo => n = hi - lo
      /\ hi < lo => n = hi - lo + Wrap
      /\ lo + 1 < Wrap => up = lo + 1
      /\ ~(lo + 1 < Wrap) => up = 0 /\ lo = Wrap - 1
  BY IndexFacts
<1>a. n \in Nat
  BY SpanFacts
<1> HIDE DEF up, n
<1>2. up \in Idx /\ n > 0
  BY <1>1 DEF Idx
<1>3. /\ hi >= up => Span(up, hi) = hi - up
      /\ hi < up => Span(up, hi) = hi - up + Wrap
  BY <1>2, IndexFacts
<1>4. Span(up, hi) = n - 1
  BY <1>1, <1>2, <1>3 DEF Idx
<1>5. Window(ring, up, hi) = [k \in 1..n - 1 |-> ring[Slot(up + k - 1)]]
  BY <1>4 DEF Window
<1>6. Window(ring, lo, hi) = [k \in 1..n |-> ring[Slot(lo + k - 1)]]
  BY DEF Window, n
<1>7. 1 \in 1..n /\ lo + 1 - 1 = lo
  BY <1>2, <1>a DEF Idx
<1>8. Window(ring, lo, hi)[1] = ring[Slot(lo)]
  <2>1. Window(ring, lo, hi)[1] = ring[Slot(lo + 1 - 1)]
    BY Zenon, <1>6, <1>7
  <2>2. QED
    BY Zenon, <2>1, <1>7
<1>9. ASSUME NEW k \in 1..n - 1
      PROVE  Window(ring, up, hi)[k] = Window(ring, lo, hi)[k + 1]
  <2>1. k + 1 \in 1..n
    BY <1>a
  <2>2. up + k - 1 = lo + (k + 1) - 1 \/ (up + k - 1) + Wrap = lo + (k + 1) - 1
    BY <1>1 DEF Idx
  <2>3. Slot((up + k - 1) + Wrap) = Slot(up + k - 1)
    <3>1. up + k - 1 \in Int
      BY <1>2 DEF Idx
    <3>2. QED
      BY <3>1, SlotFacts
  <2>4. Slot(up + k - 1) = Slot(lo + (k + 1) - 1)
    BY Zenon, <2>2, <2>3
  <2>5. Window(ring, lo, hi)[k + 1] = ring[Slot(lo + (k + 1) - 1)]
    BY Zenon, <1>6, <2>1
  <2>6. Window(ring, up, hi)[k] = ring[Slot(up + k - 1)]
    BY Zenon, <1>5
  <2>7. QED
    BY Zenon, <2>4, <2>5, <2>6
<1>10. QED
  BY <1>2, <1>4, <1>8, <1>9 DEF up, n

\* The slot behind the last entry is written: as long as the ring is not full no
\* entry is overwritten.
LEMMA WindowWrite ==
    ASSUME NEW ring, NEW lo \in Idx, NEW hi \in Idx,
           Span(lo, hi) < nentries, NEW new, \A s \in Desc : s # Slot(hi) => new[s] = ring[s]
    PROVE  Window(new, lo, hi) = Window(ring, lo, hi)
<1> DEFINE n == Span(lo, hi)
<1>1. n \in Nat /\ Slot(lo + n) = Slot(hi) /\ n < nentries
  BY SpanFacts
<1>2. lo \in Int /\ hi \in Int
  BY DEF Idx
<1>3. Slot(hi) \in Desc
  BY <1>2, SlotFacts
<1>5. \A s \in Desc : s # Slot(hi) => new[s] = ring[s]
  OBVIOUS
<1> HIDE DEF n
<1>6. ASSUME NEW k \in 1..n PROVE new[Slot(lo + k - 1)] = ring[Slot(lo + k - 1)]
  <2> DEFINE x == lo + k - 1
             y == lo + n
  <2>1. x \in Int /\ y \in Int /\ x - y < nentries /\ y - x < nentries /\ x # y
    BY <1>1, <1>2
  <2>2. Slot(y) = Slot(hi)
    BY <1>1
  <2> HIDE DEF x, y
  <2>3. Slot(x) # Slot(hi) /\ Slot(x) \in Desc
    BY <2>1, <2>2, SlotFacts
  <2>4. new[Slot(x)] = ring[Slot(x)]
    BY <1>5, <2>3
  <2>5. QED
    BY <2>4 DEF x
<1>7. Window(new, lo, hi) = Window(ring, lo, hi)
  BY <1>6 DEF Window, n
<1>8. QED
  BY <1>7

-----------------------------------------------------------------------------
(***************************************************************************)
(* Lists of descriptors without repetition.                                *)
(***************************************************************************)

\* f lists the n members of S.
Lists(f, n, S) ==
    /\ n \in Nat /\ f \in [1..n -> Desc]
    /\ \A i, j \in 1..n : f[i] = f[j] => i = j
    /\ \A d : d \in S <=> \E k \in 1..n : f[k] = d

\* The first entry is dropped.
LEMMA ListDrop ==
    ASSUME NEW f, NEW n, NEW S, Lists(f, n, S), n > 0,
           NEW g \in [1..n - 1 -> Desc], \A k \in 1..n - 1 : g[k] = f[k + 1]
    PROVE  f[1] \in S /\ f[1] \in Desc /\ Lists(g, n - 1, S \ {f[1]})
<1>1. n \in Nat /\ n - 1 \in Nat /\ 1 \in 1..n /\ f \in [1..n -> Desc]
  BY DEF Lists
<1>2. \A k \in 1..n - 1 : k + 1 \in 1..n /\ k + 1 # 1
  BY <1>1
<1>3. \A i, j \in 1..n - 1 : g[i] = g[j] => i = j
  <2>1. \A i, j \in 1..n : f[i] = f[j] => i = j
    BY DEF Lists
  <2>2. \A i, j \in 1..n - 1 : i + 1 = j + 1 => i = j
    BY <1>1
  <2>3. QED
    BY <1>2, <2>1, <2>2
<1>4. ASSUME NEW d, d \in S \ {f[1]} PROVE \E k \in 1..n - 1 : g[k] = d
  <2>1. PICK k \in 1..n : f[k] = d
    BY <1>4 DEF Lists
  <2>2. k # 1
    BY <1>4, <2>1
  <2>3. k - 1 \in 1..n - 1 /\ (k - 1) + 1 = k
    BY <1>1, <2>2
  <2>4. QED
    BY <2>1, <2>3
<1>5. ASSUME NEW k \in 1..n - 1 PROVE g[k] \in S \ {f[1]}
  <2>1. f[k + 1] \in S /\ f[k + 1] # f[1]
    BY <1>1, <1>2 DEF Lists
  <2>2. QED
    BY <2>1
<1>6. f[1] \in S /\ f[1] \in Desc
  BY <1>1 DEF Lists
<1>7. QED
  BY <1>1, <1>3, <1>4, <1>5, <1>6 DEF Lists

\* An entry is added at the end.
LEMMA ListAppend ==
    ASSUME NEW f, NEW n, NEW S, Lists(f, n, S), NEW d \in Desc, d \notin S,
           NEW g \in [1..n + 1 -> Desc], \A k \in 1..n : g[k] = f[k], g[n + 1] = d
    PROVE  Lists(g, n + 1, S \cup {d})
<1>1. n \in Nat /\ n + 1 \in Nat /\ n + 1 \in 1..n + 1 /\ f \in [1..n -> Desc]
  BY DEF Lists
<1>2. \A k \in 1..n + 1 : k \in 1..n \/ k = n + 1
  BY <1>1
<1>3. \A k \in 1..n : k \in 1..n + 1 /\ f[k] # d /\ f[k] \in S
  BY <1>1 DEF Lists
<1>4. \A i, j \in 1..n + 1 : g[i] = g[j] => i = j
  BY <1>2, <1>3 DEF Lists
<1>5. \A e : e \in S \cup {d} <=> \E k \in 1..n + 1 : g[k] = e
  BY <1>1, <1>2, <1>3 DEF Lists
<1>6. QED
  BY <1>1, <1>4, <1>5 DEF Lists

\* An entry is added in front.
LEMMA ListPush ==
    ASSUME NEW f, NEW n, NEW S, Lists(f, n, S), NEW d \in Desc, d \notin S,
           NEW g \in [1..n + 1 -> Desc], \A k \in 1..n : g[k + 1] = f[k], g[1] = d
    PROVE  Lists(g, n + 1, S \cup {d})
<1>1. n \in Nat /\ n + 1 \in Nat /\ 1 \in 1..n + 1 /\ f \in [1..n -> Desc]
  BY DEF Lists
<1>2. \A k \in 1..n + 1 : k # 1 => k - 1 \in 1..n /\ (k - 1) + 1 = k
  BY <1>1
<1>3. \A k \in 1..n : k + 1 \in 1..n + 1 /\ f[k] # d /\ f[k] \in S
  BY <1>1 DEF Lists
<1>4. \A k \in 1..n + 1 : k # 1 => k - 1 \in 1..n /\ g[k] = f[k - 1]
  BY <1>2
<1>5. ASSUME NEW i \in 1..n + 1, NEW j \in 1..n + 1, g[i] = g[j] PROVE i = j
  <2>1. CASE i = 1 \/ j = 1
    BY <1>3, <1>4, <1>5, <2>1
  <2>2. CASE i # 1 /\ j # 1
    <3>1. i - 1 \in 1..n /\ j - 1 \in 1..n /\ f[i - 1] = f[j - 1]
      BY <1>4, <1>5, <2>2
    <3>2. i - 1 = j - 1
      BY Zenon, <3>1 DEF Lists
    <3>3. QED
      BY <3>2
  <2>3. QED
    BY <2>1, <2>2
<1>6. ASSUME NEW e, e \in S \cup {d} PROVE \E k \in 1..n + 1 : g[k] = e
  <2>1. CASE e = d
    BY <1>1, <2>1
  <2>2. CASE e \in S
    <3>1. PICK k \in 1..n : f[k] = e
      BY <2>2 DEF Lists
    <3>2. k + 1 \in 1..n + 1 /\ g[k + 1] = e
      BY <1>3, <3>1
    <3>3. QED
      BY <3>2
  <2>3. QED
    BY <1>6, <2>1, <2>2
<1>7. ASSUME NEW k \in 1..n + 1 PROVE g[k] \in S \cup {d}
  BY <1>3, <1>4
<1>8. QED
  BY <1>1, <1>5, <1>6, <1>7 DEF Lists

\* A window on a ring is a function to descriptors.
LEMMA WindowType ==
    ASSUME NEW ring \in [Desc -> Desc], NEW lo \in Idx, NEW hi \in Idx
    PROVE  Window(ring, lo, hi) \in [1..Span(lo, hi) -> Desc]
<1>1. \A k \in 1..Span(lo, hi) : lo + k - 1 \in Int
  BY DEF Idx
<1>2. \A k \in 1..Span(lo, hi) : ring[Slot(lo + k - 1)] \in Desc
  BY <1>1, SlotFacts
<1>3. QED
  BY <1>2 DEF Window

-----------------------------------------------------------------------------
(***************************************************************************)
(* The chain of free descriptors.                                          *)
(***************************************************************************)

\* From head, cnt descriptors are linked by nxt; then the chain ends.
Linked(f, head, cnt, nxt) ==
    /\ cnt = 0 => head = CHAIN_END
    /\ cnt > 0 => f[1] = head /\ nxt[f[cnt]] = CHAIN_END
    /\ \A k \in 1..cnt - 1 : nxt[f[k]] = f[k + 1]

\* The members of S are the free descriptors.
FreeChain(S, head, cnt, nxt) == \E f : Lists(f, cnt, S) /\ Linked(f, head, cnt, nxt)

\* The first free descriptor is taken.
LEMMA ChainPop ==
    ASSUME NEW S, NEW head, NEW cnt, NEW nxt, FreeChain(S, head, cnt, nxt), cnt > 0
    PROVE  /\ cnt \in Nat /\ head \in S /\ head \in Desc
           /\ nxt[head] \in Desc \cup {CHAIN_END}
           /\ FreeChain(S \ {head}, nxt[head], cnt - 1, nxt)
<1>1. PICK f : Lists(f, cnt, S) /\ Linked(f, head, cnt, nxt)
  BY DEF FreeChain
<1> DEFINE g == [k \in 1..cnt - 1 |-> f[k + 1]]
<1>2. cnt \in Nat /\ f \in [1..cnt -> Desc]
  BY <1>1 DEF Lists
<1>3. f[1] = head /\ nxt[f[cnt]] = CHAIN_END
  BY <1>1 DEF Linked
<1>4. \A k \in 1..cnt - 1 : k + 1 \in 1..cnt
  BY <1>2
<1>5. g \in [1..cnt - 1 -> Desc] /\ \A k \in 1..cnt - 1 : g[k] = f[k + 1]
  BY <1>2, <1>4
<1> HIDE DEF g
<1>6. head \in S /\ head \in Desc /\ Lists(g, cnt - 1, S \ {head})
  <2>1. f[1] \in S /\ f[1] \in Desc /\ Lists(g, cnt - 1, S \ {f[1]})
    BY Zenon, <1>1, <1>5, ListDrop
  <2>2. QED
    BY Zenon, <1>3, <2>1
<1>7. CASE cnt = 1
  <2>1. cnt - 1 = 0 /\ nxt[head] = CHAIN_END /\ ~(cnt - 1 > 0)
    BY <1>3, <1>7
  <2>2. \A k \in 1..(cnt - 1) - 1 : FALSE
    BY <2>1
  <2>3. Linked(g, nxt[head], cnt - 1, nxt)
    BY <2>1, <2>2 DEF Linked
  <2>4. QED
    BY <1>2, <1>6, <2>1, <2>3 DEF FreeChain
<1>8. CASE cnt # 1
  <2>1. cnt - 1 > 0 /\ 1 \in 1..cnt - 1 /\ cnt - 1 \in 1..cnt - 1 /\ (cnt - 1) + 1 = cnt
        /\ cnt - 1 # 0 /\ 1 + 1 \in 1..cnt
    BY <1>2, <1>8
  <2>2. g[1] = nxt[head] /\ g[1] \in Desc
    BY <1>1, <1>3, <1>5, <2>1 DEF Linked
  <2>3. nxt[g[cnt - 1]] = CHAIN_END
    BY <1>3, <1>5, <2>1
  <2>4. ASSUME NEW k \in 1..(cnt - 1) - 1 PROVE nxt[g[k]] = g[k + 1]
    <3>1. k \in 1..cnt - 1 /\ k + 1 \in 1..cnt - 1
      BY <1>2
    <3>2. nxt[f[k + 1]] = f[(k + 1) + 1]
      BY <1>1, <3>1 DEF Linked
    <3>3. QED
      BY <1>5, <3>1, <3>2
  <2>5. Linked(g, nxt[head], cnt - 1, nxt)
    BY <2>1, <2>2, <2>3, <2>4 DEF Linked
  <2>6. QED
    BY <1>2, <1>6, <2>2, <2>5 DEF FreeChain
<1>9. QED
  BY <1>7, <1>8

\* A descriptor becomes the first free one.
LEMMA ChainPush ==
    ASSUME NEW S, NEW head, NEW cnt, NEW nxt \in [Desc -> Desc \cup {CHAIN_END}],
           FreeChain(S, head, cnt, nxt), NEW d \in Desc, d \notin S
    PROVE  FreeChain(S \cup {d}, d, cnt + 1, [nxt EXCEPT ![d] = head])
<1>1. PICK f : Lists(f, cnt, S) /\ Linked(f, head, cnt, nxt)
  BY DEF FreeChain
<1> DEFINE g == [k \in 1..cnt + 1 |-> IF k = 1 THEN d ELSE f[k - 1]]
           new == [nxt EXCEPT ![d] = head]
<1>2. cnt \in Nat /\ f \in [1..cnt -> Desc]
  BY <1>1 DEF Lists
<1>3. 1 \in 1..cnt + 1 /\ \A k \in 1..cnt : k + 1 \in 1..cnt + 1 /\ k + 1 # 1 /\ (k + 1) - 1 = k
  BY <1>2
<1>4. \A k \in 1..cnt + 1 : k # 1 => k - 1 \in 1..cnt
  BY <1>2
<1>5. g \in [1..cnt + 1 -> Desc]
  BY <1>2, <1>4
<1>6. g[1] = d /\ \A k \in 1..cnt : g[k + 1] = f[k]
  BY <1>3
<1>7. new[d] = head /\ \A e \in Desc : e # d => new[e] = nxt[e]
  OBVIOUS
<1> HIDE DEF g, new
<1>8. Lists(g, cnt + 1, S \cup {d})
  BY <1>1, <1>5, <1>6, ListPush
<1>9. \A k \in 1..cnt : f[k] \in Desc /\ new[f[k]] = nxt[f[k]]
  <2>1. \A k \in 1..cnt : f[k] \in Desc /\ f[k] # d
    BY <1>1, <1>2 DEF Lists
  <2>2. QED
    BY <1>7, <2>1
<1>10. new[g[cnt + 1]] = CHAIN_END
  <2>1. CASE cnt = 0
    <3>1. cnt + 1 = 1 /\ head = CHAIN_END
      BY <1>1, <2>1 DEF Linked
    <3>2. QED
      BY <1>6, <1>7, <3>1
  <2>2. CASE cnt > 0
    <3>1. cnt \in 1..cnt /\ nxt[f[cnt]] = CHAIN_END
      BY <1>1, <1>2, <2>2 DEF Linked
    <3>2. QED
      BY <1>6, <1>9, <3>1
  <2>3. QED
    BY <1>2, <2>1, <2>2
<1>11. ASSUME NEW k \in 1..(cnt + 1) - 1 PROVE new[g[k]] = g[k + 1]
  <2>1. k \in 1..cnt /\ cnt > 0
    BY <1>2
  <2>2. g[k + 1] = f[k]
    BY <1>6, <2>1
  <2>3. CASE k = 1
    <3>1. f[1] = head
      BY <1>1, <2>1 DEF Linked
    <3>2. QED
      BY <1>6, <1>7, <2>2, <2>3, <3>1
  <2>4. CASE k # 1
    <3>1. k - 1 \in 1..cnt - 1 /\ k - 1 \in 1..cnt /\ (k - 1) + 1 = k
      BY <1>2, <2>1, <2>4
    <3>2. nxt[f[k - 1]] = f[k]
      BY <1>1, <3>1 DEF Linked
    <3>3. g[k] = f[k - 1]
      BY <1>6, <3>1
    <3>4. QED
      BY <1>9, <2>2, <3>1, <3>2, <3>3
  <2>5. QED
    BY <2>3, <2>4
<1>12. Linked(g, d, cnt + 1, new)
  <2>1. cnt + 1 # 0
    BY <1>2
  <2>2. QED
    BY <1>6, <1>10, <1>11, <2>1 DEF Linked
<1>13. QED
  BY <1>8, <1>12 DEF FreeChain, new

-----------------------------------------------------------------------------
(***************************************************************************)
(* The inductive invariant: a map w says where each descriptor is.         *)
(***************************************************************************)

Places == {"free", "offered", "held", "back", "master", "slave"}

At(w, p) == {d \in Desc : w[d] = p}

\* The free chain, the rings, the slave and the two sides in the middle of
\* publishing have the descriptors that w says; the free ones have no cookie.
Placed(w) ==
    /\ w \in [Desc -> Places]
    /\ FreeChain(At(w, "free"), vq_desc_head_idx, vq_free_cnt, next)
    /\ Lists(Window(avail_ring, vq_available_idx, avail_idx),
             Span(vq_available_idx, avail_idx), At(w, "offered"))
    /\ Lists(Window(used_ring, vq_used_cons_idx, used_idx),
             Span(vq_used_cons_idx, used_idx), At(w, "back"))
    /\ held = At(w, "held")
    /\ {publishing["master"]} \ {NONE} = At(w, "master")
    /\ {publishing["slave"]} \ {NONE} = At(w, "slave")
    /\ \A d \in Desc : d \in At(w, "free") <=> cookie[d] = 0

Located == \E w : Placed(w)

One(p) == IF p = NONE THEN 0 ELSE 1

\* No place has more descriptors than the others leave.
Count ==
    vq_free_cnt + Span(vq_available_idx, avail_idx) + Cardinality(held)
      + Span(vq_used_cons_idx, used_idx) + One(publishing["master"])
      + One(publishing["slave"]) = nentries

\* What is being published stands in the slot behind the last entry; the buffer
\* the master publishes is the latest one.
Written ==
    /\ publishing["master"] # NONE =>
          /\ avail_ring[Slot(avail_idx)] = publishing["master"]
          /\ cookie[publishing["master"]] = adds
    /\ publishing["slave"] # NONE => used_ring[Slot(used_idx)] = publishing["slave"]

VInv == TypeOK /\ Located /\ Count /\ Written

\* A descriptor goes from one place to another.
LEMMA Move ==
    ASSUME NEW w \in [Desc -> Places], NEW p \in Places, NEW r \in Places, p # r,
           NEW d \in At(w, p), NEW v, v[d] = r, \A e \in Desc : e # d => v[e] = w[e]
    PROVE  /\ d \notin At(w, r) /\ d \in Desc
           /\ At(v, p) = At(w, p) \ {d} /\ At(v, r) = At(w, r) \cup {d}
           /\ \A x \in Places : x # p /\ x # r => At(v, x) = At(w, x)
<1>1. d \in Desc /\ w[d] = p
  BY DEF At
<1>2. v[d] = r /\ \A e \in Desc : e # d => v[e] = w[e]
  OBVIOUS
<1>3. d \notin At(w, r)
  BY <1>1 DEF At
<1>4. At(v, p) = At(w, p) \ {d} /\ At(v, r) = At(w, r) \cup {d}
  BY <1>1, <1>2 DEF At
<1>5. \A x \in Places : x # p /\ x # r => At(v, x) = At(w, x)
  BY <1>1, <1>2 DEF At
<1>6. QED
  BY <1>1, <1>2, <1>3, <1>4, <1>5

\* The names of the places are different.
LEMMA PlacesDiffer ==
    /\ "free" \in Places /\ "offered" \in Places /\ "held" \in Places
    /\ "back" \in Places /\ "master" \in Places /\ "slave" \in Places
    /\ "free" # "offered" /\ "free" # "held" /\ "free" # "back" /\ "free" # "master"
    /\ "free" # "slave" /\ "offered" # "held" /\ "offered" # "back"
    /\ "offered" # "master" /\ "offered" # "slave" /\ "held" # "back"
    /\ "held" # "master" /\ "held" # "slave" /\ "back" # "master" /\ "back" # "slave"
    /\ "master" # "slave"
BY DEF Places

\* Facts about the numbers in Count.
LEMMA CountFacts ==
    ASSUME TypeOK
    PROVE  /\ IsFiniteSet(held) /\ Cardinality(held) \in Nat
           /\ \A d \in held : /\ Cardinality(held) > 0
                              /\ Cardinality(held \ {d}) = Cardinality(held) - 1
           /\ \A d \in Desc \ held : Cardinality(held \cup {d}) = Cardinality(held) + 1
           /\ vq_free_cnt \in Nat
           /\ Span(vq_available_idx, avail_idx) \in Nat
           /\ Span(vq_used_cons_idx, used_idx) \in Nat
           /\ \A p : One(p) \in {0, 1}
<1>1. IsFiniteSet(Desc)
  BY FS_Interval DEF Desc
<1>2. held \subseteq Desc
  BY DEF TypeOK
<1>3. IsFiniteSet(held)
  BY <1>1, <1>2, FS_Subset
<1>4. Cardinality(held) \in Nat
  BY <1>3, FS_CardinalityType
<1>5. \A d \in held : Cardinality(held \ {d}) = Cardinality(held) - 1
  BY <1>3, FS_RemoveElement
<1>6. \A d \in Desc \ held : Cardinality(held \cup {d}) = Cardinality(held) + 1
  BY <1>3, FS_AddElement
<1>7. \A d \in held : Cardinality(held) > 0
  <2>1. \A d \in held : Cardinality(held) # 0
    BY <1>3, FS_EmptySet
  <2>2. QED
    BY <1>4, <2>1
<1>8. /\ Span(vq_available_idx, avail_idx) \in Nat
      /\ Span(vq_used_cons_idx, used_idx) \in Nat
  BY SpanFacts DEF TypeOK, Idx
<1>9. vq_free_cnt \in Nat
  BY DEF TypeOK
<1>10. \A p : One(p) \in {0, 1}
  BY DEF One
<1>11. QED
  BY <1>3, <1>4, <1>5, <1>6, <1>7, <1>8, <1>9, <1>10

\* Initially all descriptors are free.
LEMMA VInit == Init => VInv
<1> SUFFICES ASSUME Init PROVE VInv
  OBVIOUS
<1> DEFINE w == [d \in Desc |-> "free"]
           f == [k \in 1..nentries |-> k - 1]
<1>0. 0 \in Idx /\ Span(0, 0) = 0 /\ 0 \in Desc
  <2>1. 0 \in Idx /\ 0 \in Desc
    BY DEF Idx, Desc
  <2>2. QED
    BY <2>1, IndexFacts
<1>1. TypeOK
  BY <1>0 DEF TypeOK, Init, Desc, CHAIN_END, NONE
<1>2. At(w, "free") = Desc /\ At(w, "offered") = {} /\ At(w, "held") = {} /\ At(w, "back") = {}
      /\ At(w, "master") = {} /\ At(w, "slave") = {}
  BY PlacesDiffer DEF At
<1>3. w \in [Desc -> Places]
  BY PlacesDiffer
<1> HIDE DEF w
<1>4. f \in [1..nentries -> Desc] /\ \A k \in 1..nentries : f[k] = k - 1
  BY DEF Desc
<1> HIDE DEF f
<1>5. Lists(f, nentries, Desc)
  <2>1. \A i, j \in 1..nentries : f[i] = f[j] => i = j
    BY <1>4
  <2>2. ASSUME NEW d \in Desc PROVE \E k \in 1..nentries : f[k] = d
    <3>1. d + 1 \in 1..nentries /\ (d + 1) - 1 = d
      BY DEF Desc
    <3>2. QED
      BY <1>4, <3>1
  <2>3. QED
    BY <1>4, <2>1, <2>2 DEF Lists
<1>6. Linked(f, 0, nentries, [i \in Desc |-> i + 1])
  <2>1. 1 \in 1..nentries /\ f[1] = 0
    BY <1>4
  <2>2. nentries \in 1..nentries /\ nentries - 1 \in Desc /\ f[nentries] = nentries - 1
    BY <1>4 DEF Desc
  <2>3. \A k \in 1..nentries - 1 : k \in 1..nentries /\ k + 1 \in 1..nentries
           /\ k - 1 \in Desc /\ (k - 1) + 1 = k /\ (k + 1) - 1 = k
    BY DEF Desc
  <2>4. \A k \in 1..nentries - 1 : [i \in Desc |-> i + 1][f[k]] = f[k + 1]
    BY <1>4, <2>3
  <2>5. QED
    BY <2>1, <2>2, <2>4 DEF Linked, CHAIN_END
<1>7. FreeChain(At(w, "free"), vq_desc_head_idx, vq_free_cnt, next)
  <2>1. FreeChain(Desc, 0, nentries, [i \in Desc |-> i + 1])
    BY <1>5, <1>6 DEF FreeChain
  <2>2. QED
    BY <1>2, <2>1 DEF Init
<1>8. ASSUME NEW ring \in [Desc -> Desc]
      PROVE  Lists(Window(ring, 0, 0), Span(0, 0), {})
  <2>1. Window(ring, 0, 0) \in [1..0 -> Desc]
    BY <1>0, WindowType
  <2>2. \A k \in 1..0 : FALSE
    OBVIOUS
  <2>3. QED
    BY <1>0, <2>1, <2>2 DEF Lists
<1>9. publishing["master"] = NONE /\ publishing["slave"] = NONE /\ held = {}
      /\ avail_ring \in [Desc -> Desc] /\ used_ring \in [Desc -> Desc]
  BY <1>0 DEF Init
<1>10. Placed(w)
  <2>1. \A d \in Desc : d \in At(w, "free") <=> cookie[d] = 0
    BY <1>2 DEF Init
  <2>2. QED
    BY <1>2, <1>3, <1>7, <1>8, <1>9, <2>1 DEF Placed, Init
<1>11. Count
  <2>1. Cardinality({}) = 0 /\ One(NONE) = 0
    BY FS_EmptySet DEF One
  <2>2. QED
    BY <1>0, <1>9, <2>1 DEF Count, Init
<1>12. Written
  BY <1>9 DEF Written
<1>13. QED
  BY <1>1, <1>10, <1>11, <1>12 DEF VInv, Located

-----------------------------------------------------------------------------
(***************************************************************************)
(* Each step keeps the invariant.                                          *)
(***************************************************************************)

\* One side's mark of what it publishes changes, the other's does not.
LEMMA Publishing ==
    ASSUME TypeOK, NEW d \in Desc \cup {NONE}
    PROVE  /\ publishing' = [publishing EXCEPT !["master"] = d] =>
                /\ publishing' \in [{"master", "slave"} -> Desc \cup {NONE}]
                /\ publishing'["master"] = d /\ publishing'["slave"] = publishing["slave"]
           /\ publishing' = [publishing EXCEPT !["slave"] = d] =>
                /\ publishing' \in [{"master", "slave"} -> Desc \cup {NONE}]
                /\ publishing'["slave"] = d /\ publishing'["master"] = publishing["master"]
BY PlacesDiffer DEF TypeOK

\* The marks are descriptors or nothing, and nothing is no descriptor.
LEMMA Marks ==
    ASSUME TypeOK
    PROVE  /\ publishing["master"] \in Desc \cup {NONE}
           /\ publishing["slave"] \in Desc \cup {NONE}
           /\ NONE \notin Desc /\ CHAIN_END \notin Desc
           /\ One(NONE) = 0 /\ \A d \in Desc : One(d) = 1
BY DEF TypeOK, NONE, CHAIN_END, Desc, One

\* virtqueue_add_buffer() takes the first free descriptor and overwrites no entry
\* of the avail ring that the slave has still to read.
LEMMA StepAddBuffer ==
    ASSUME VInv, AddBuffer
    PROVE  VInv'
<1>0. TypeOK /\ Located /\ Count /\ Written
  BY DEF VInv
<1>1. PICK w : Placed(w)
  BY <1>0 DEF Located
<1> DEFINE head == vq_desc_head_idx
<1>2. /\ publishing["master"] = NONE /\ adds < MaxAdds /\ vq_free_cnt > 0
      /\ cookie' = [cookie EXCEPT ![head] = adds + 1]
      /\ vq_desc_head_idx' = next[head]
      /\ avail_ring' = [avail_ring EXCEPT ![Slot(avail_idx)] = head]
      /\ publishing' = [publishing EXCEPT !["master"] = head]
      /\ vq_free_cnt' = vq_free_cnt - 1 /\ adds' = adds + 1
      /\ avail_idx' = avail_idx /\ used_ring' = used_ring /\ used_idx' = used_idx
      /\ next' = next /\ vq_used_cons_idx' = vq_used_cons_idx
      /\ vq_available_idx' = vq_available_idx /\ held' = held
  BY DEF AddBuffer, slave
<1>3. /\ head \in At(w, "free") /\ head \in Desc /\ next[head] \in Desc \cup {CHAIN_END}
      /\ FreeChain(At(w, "free") \ {head}, next[head], vq_free_cnt - 1, next)
  <2>1. FreeChain(At(w, "free"), vq_desc_head_idx, vq_free_cnt, next)
    BY <1>1 DEF Placed
  <2>2. QED
    BY Zenon, <1>2, <2>1, ChainPop
<1> DEFINE v == [w EXCEPT ![head] = "master"]
<1>4. w \in [Desc -> Places]
  BY <1>1 DEF Placed
<1>b. /\ v \in [Desc -> Places] /\ v[head] = "master"
      /\ \A e \in Desc : e # head => v[e] = w[e]
  BY <1>3, <1>4, PlacesDiffer
<1> HIDE DEF v, head
<1>5. /\ v \in [Desc -> Places]
      /\ At(v, "free") = At(w, "free") \ {head}
      /\ At(v, "master") = At(w, "master") \cup {head}
      /\ At(v, "offered") = At(w, "offered") /\ At(v, "held") = At(w, "held")
      /\ At(v, "back") = At(w, "back") /\ At(v, "slave") = At(w, "slave")
  <2>1. /\ head \notin At(w, "master")
        /\ At(v, "free") = At(w, "free") \ {head}
        /\ At(v, "master") = At(w, "master") \cup {head}
        /\ \A x \in Places : x # "free" /\ x # "master" => At(v, x) = At(w, x)
    BY <1>3, <1>4, <1>b, PlacesDiffer, Move
  <2>2. QED
    BY Zenon, <1>b, <2>1, PlacesDiffer
<1> USE DEF head
<1>6. /\ avail_ring \in [Desc -> Desc] /\ vq_available_idx \in Idx /\ avail_idx \in Idx
  BY <1>0 DEF TypeOK, Idx
<1>7. Span(vq_available_idx, avail_idx) < nentries
  BY <1>0, <1>2, CountFacts DEF Count
<1>8. /\ avail_ring' \in [Desc -> Desc] /\ avail_ring'[Slot(avail_idx)] = head
      /\ Window(avail_ring', vq_available_idx, avail_idx)
           = Window(avail_ring, vq_available_idx, avail_idx)
  <2>1. Slot(avail_idx) \in Desc
    BY <1>6, SlotFacts DEF Idx
  <2>2. /\ avail_ring' \in [Desc -> Desc] /\ avail_ring'[Slot(avail_idx)] = head
        /\ \A s \in Desc : s # Slot(avail_idx) => avail_ring'[s] = avail_ring[s]
    BY <1>2, <1>3, <1>6, <2>1
  <2>3. QED
    BY Zenon, <1>6, <1>7, <2>2, WindowWrite
<1>9. /\ publishing' \in [{"master", "slave"} -> Desc \cup {NONE}]
      /\ publishing'["master"] = head /\ publishing'["slave"] = publishing["slave"]
  BY Zenon, <1>0, <1>2, <1>3, Publishing
<1>10. cookie' \in [Desc -> 0..MaxAdds] /\ cookie'[head] = adds + 1 /\ adds + 1 \in 0..MaxAdds
  <2>1. adds + 1 \in 0..MaxAdds /\ cookie \in [Desc -> 0..MaxAdds]
    BY <1>0, <1>2 DEF TypeOK
  <2>2. QED
    BY <1>2, <1>3, <2>1
<1>11. TypeOK'
  <2>1. vq_free_cnt' \in 0..nentries
    BY <1>0, <1>2 DEF TypeOK
  <2>2. QED
    BY Zenon, <1>0, <1>2, <1>3, <1>8, <1>9, <1>10, <2>1 DEF TypeOK, Desc, CHAIN_END, NONE
<1>12. Located'
  <2>1. {publishing'["master"]} \ {NONE} = At(v, "master")
    <3>1. {publishing["master"]} \ {NONE} = At(w, "master")
      BY <1>1 DEF Placed
    <3>2. QED
      BY <1>0, <1>2, <1>3, <1>5, <1>9, <3>1, Marks
  <2>2. {publishing'["slave"]} \ {NONE} = At(v, "slave") /\ held' = At(v, "held")
    BY <1>1, <1>2, <1>5, <1>9 DEF Placed
  <2>3. FreeChain(At(v, "free"), vq_desc_head_idx', vq_free_cnt', next')
    BY Zenon, <1>2, <1>3, <1>5
  <2>4. Lists(Window(avail_ring', vq_available_idx', avail_idx'),
              Span(vq_available_idx', avail_idx'), At(v, "offered"))
    BY Zenon, <1>1, <1>2, <1>5, <1>8 DEF Placed
  <2>5. Lists(Window(used_ring', vq_used_cons_idx', used_idx'),
              Span(vq_used_cons_idx', used_idx'), At(v, "back"))
    BY Zenon, <1>1, <1>2, <1>5 DEF Placed
  <2>6. \A d \in Desc : d \in At(v, "free") <=> cookie'[d] = 0
    <3>1. /\ \A d \in Desc : d \in At(w, "free") <=> cookie[d] = 0
          /\ cookie \in [Desc -> 0..MaxAdds]
      BY Zenon, <1>0, <1>1 DEF Placed, TypeOK
    <3>2. \A d \in Desc : d # head => cookie'[d] = cookie[d]
      BY <1>2, <1>3, <3>1
    <3>3. cookie'[head] # 0
      BY <1>0, <1>10 DEF TypeOK
    <3>4. QED
      BY <1>5, <3>1, <3>2, <3>3
  <2>7. QED
    BY Zenon, <1>5, <2>1, <2>2, <2>3, <2>4, <2>5, <2>6 DEF Located, Placed
<1>13. Count'
  <2>1. /\ One(publishing["master"]) = 0 /\ One(publishing'["master"]) = 1
        /\ One(publishing'["slave"]) = One(publishing["slave"])
    BY Zenon, <1>0, <1>2, <1>3, <1>9, Marks
  <2>2. /\ Span(vq_available_idx', avail_idx') = Span(vq_available_idx, avail_idx)
        /\ Span(vq_used_cons_idx', used_idx') = Span(vq_used_cons_idx, used_idx)
    BY Zenon, <1>2
  <2>3. QED
    BY <1>0, <1>2, <2>1, <2>2, CountFacts DEF Count
<1>14. Written'
  BY Zenon, <1>0, <1>2, <1>8, <1>9, <1>10 DEF Written
<1>15. QED
  BY Zenon, <1>11, <1>12, <1>13, <1>14 DEF VInv

\* The index of the avail ring moves on: the buffer is offered.
LEMMA StepUpdateAvail ==
    ASSUME VInv, UpdateAvail
    PROVE  VInv'
<1>0. TypeOK /\ Located /\ Count /\ Written
  BY DEF VInv
<1>1. PICK w : Placed(w)
  BY <1>0 DEF Located
<1> DEFINE d == publishing["master"]
           n == Span(vq_available_idx, avail_idx)
<1>2. /\ publishing["master"] # NONE
      /\ avail_idx' = (avail_idx + 1) % Wrap
      /\ publishing' = [publishing EXCEPT !["master"] = NONE]
      /\ avail_ring' = avail_ring /\ used_ring' = used_ring /\ used_idx' = used_idx
      /\ next' = next /\ cookie' = cookie /\ vq_desc_head_idx' = vq_desc_head_idx
      /\ vq_free_cnt' = vq_free_cnt /\ vq_used_cons_idx' = vq_used_cons_idx
      /\ vq_available_idx' = vq_available_idx /\ held' = held /\ adds' = adds
  BY DEF UpdateAvail, slave, master
<1>3. d \in At(w, "master") /\ At(w, "master") = {d} /\ d \in Desc
  BY <1>0, <1>1, <1>2, Marks DEF Placed
<1> DEFINE v == [w EXCEPT ![d] = "offered"]
<1>4. w \in [Desc -> Places]
  BY <1>1 DEF Placed
<1>b. /\ v \in [Desc -> Places] /\ v[d] = "offered"
      /\ \A e \in Desc : e # d => v[e] = w[e]
  BY <1>3, <1>4, PlacesDiffer
<1> HIDE DEF v, d
<1>5. /\ v \in [Desc -> Places] /\ d \notin At(w, "offered")
      /\ At(v, "master") = At(w, "master") \ {d}
      /\ At(v, "offered") = At(w, "offered") \cup {d}
      /\ At(v, "free") = At(w, "free") /\ At(v, "held") = At(w, "held")
      /\ At(v, "back") = At(w, "back") /\ At(v, "slave") = At(w, "slave")
  <2>1. /\ d \notin At(w, "offered")
        /\ At(v, "master") = At(w, "master") \ {d}
        /\ At(v, "offered") = At(w, "offered") \cup {d}
        /\ \A x \in Places : x # "master" /\ x # "offered" => At(v, x) = At(w, x)
    BY <1>3, <1>4, <1>b, PlacesDiffer, Move
  <2>2. QED
    BY Zenon, <1>b, <2>1, PlacesDiffer
<1> USE DEF d
<1>6. /\ avail_ring \in [Desc -> Desc] /\ vq_available_idx \in Idx /\ avail_idx \in Idx
  BY <1>0 DEF TypeOK, Idx
<1>7. One(d) = 1 /\ n \in Nat /\ n + 1 < Wrap /\ n + 1 <= nentries
  <2>1. One(d) = 1
    BY Zenon, <1>0, <1>3, Marks
  <2>2. QED
    BY <1>0, <2>1, CountFacts DEF Count
<1> DEFINE old == Window(avail_ring, vq_available_idx, avail_idx)
           new == Window(avail_ring, vq_available_idx, avail_idx')
<1>8. /\ avail_idx' \in Idx /\ Span(vq_available_idx, avail_idx') = n + 1
      /\ \A k \in 1..n : new[k] = old[k]
      /\ new[n + 1] = avail_ring[Slot(avail_idx)]
  BY <1>2, <1>6, <1>7, WindowGrow
<1>9. new \in [1..n + 1 -> Desc]
  BY <1>6, <1>8, WindowType
<1>10. new[n + 1] = d
  BY <1>0, <1>2, <1>8 DEF Written
<1>11. Lists(old, n, At(w, "offered"))
  BY <1>1 DEF Placed
<1>a. /\ publishing' \in [{"master", "slave"} -> Desc \cup {NONE}]
      /\ publishing'["master"] = NONE /\ publishing'["slave"] = publishing["slave"]
  BY <1>0, <1>2, Publishing
<1> HIDE DEF d, n, old, new
<1>12. Lists(new, n + 1, At(v, "offered"))
  <2>1. Lists(new, n + 1, At(w, "offered") \cup {d})
    BY Zenon, <1>3, <1>5, <1>8, <1>9, <1>10, <1>11, ListAppend
  <2>2. QED
    BY Zenon, <1>5, <2>1
<1>13. TypeOK'
  <2>1. avail_idx' \in 0..Wrap - 1
    BY Zenon, <1>8 DEF Idx
  <2>2. QED
    BY Zenon, <1>0, <1>2, <1>a, <2>1 DEF TypeOK, Desc, CHAIN_END, NONE
<1>14. Located'
  <2>1. {publishing'["master"]} \ {NONE} = At(v, "master")
    BY <1>a, <1>3, <1>5
  <2>2. {publishing'["slave"]} \ {NONE} = At(v, "slave") /\ held' = At(v, "held")
    BY <1>1, <1>2, <1>5, <1>a DEF Placed
  <2>3. FreeChain(At(v, "free"), vq_desc_head_idx', vq_free_cnt', next')
    BY Zenon, <1>1, <1>2, <1>5 DEF Placed
  <2>4. Lists(Window(avail_ring', vq_available_idx', avail_idx'),
              Span(vq_available_idx', avail_idx'), At(v, "offered"))
    BY Zenon, <1>2, <1>8, <1>12 DEF new
  <2>5. Lists(Window(used_ring', vq_used_cons_idx', used_idx'),
              Span(vq_used_cons_idx', used_idx'), At(v, "back"))
    BY Zenon, <1>1, <1>2, <1>5 DEF Placed
  <2>6. \A e \in Desc : e \in At(v, "free") <=> cookie'[e] = 0
    BY Zenon, <1>1, <1>2, <1>5 DEF Placed
  <2>7. QED
    BY Zenon, <1>5, <2>1, <2>2, <2>3, <2>4, <2>5, <2>6 DEF Located, Placed
<1>15. Count'
  <2>1. /\ One(publishing["master"]) = 1 /\ One(publishing'["master"]) = 0
        /\ One(publishing'["slave"]) = One(publishing["slave"])
    BY Zenon, <1>0, <1>7, <1>a, Marks DEF d
  <2>2. /\ Span(vq_available_idx', avail_idx') = Span(vq_available_idx, avail_idx) + 1
        /\ Span(vq_used_cons_idx', used_idx') = Span(vq_used_cons_idx, used_idx)
    BY Zenon, <1>2, <1>8 DEF n
  <2>3. QED
    BY <1>0, <1>2, <2>1, <2>2, CountFacts DEF Count
<1>16. Written'
  BY Zenon, <1>0, <1>2, <1>a DEF Written
<1>17. QED
  BY Zenon, <1>13, <1>14, <1>15, <1>16 DEF VInv

\* virtqueue_get_buffer(): the first descriptor in the used ring becomes free.
LEMMA StepGetBuffer ==
    ASSUME VInv, GetBuffer
    PROVE  VInv'
<1>0. TypeOK /\ Located /\ Count /\ Written
  BY DEF VInv
<1>1. PICK w : Placed(w)
  BY <1>0 DEF Located
<1> DEFINE d == used_ring[Slot(vq_used_cons_idx)]
           n == Span(vq_used_cons_idx, used_idx)
<1>2. /\ publishing["master"] = NONE /\ vq_used_cons_idx # used_idx
      /\ vq_used_cons_idx' = (vq_used_cons_idx + 1) % Wrap
      /\ vq_free_cnt' = vq_free_cnt + 1
      /\ next' = [next EXCEPT ![d] = vq_desc_head_idx]
      /\ vq_desc_head_idx' = d
      /\ cookie' = [cookie EXCEPT ![d] = 0]
      /\ avail_ring' = avail_ring /\ avail_idx' = avail_idx
      /\ used_ring' = used_ring /\ used_idx' = used_idx
      /\ vq_available_idx' = vq_available_idx /\ held' = held
      /\ publishing' = publishing /\ adds' = adds
  BY DEF GetBuffer, vq_ring_free_chain, slave, shared
<1>3. used_ring \in [Desc -> Desc] /\ vq_used_cons_idx \in Idx /\ used_idx \in Idx
  BY <1>0 DEF TypeOK, Idx
<1> DEFINE old == Window(used_ring, vq_used_cons_idx, used_idx)
           new == Window(used_ring, vq_used_cons_idx', used_idx)
<1>4. /\ vq_used_cons_idx' \in Idx /\ n > 0 /\ Span(vq_used_cons_idx', used_idx) = n - 1
      /\ old[1] = d
      /\ \A k \in 1..n - 1 : new[k] = old[k + 1]
  BY <1>2, <1>3, WindowShrink
<1>5. new \in [1..n - 1 -> Desc]
  BY <1>3, <1>4, WindowType
<1>6. Lists(old, n, At(w, "back"))
  BY <1>1 DEF Placed
<1> HIDE DEF d, n, old, new
<1>7. d \in At(w, "back") /\ d \in Desc /\ Lists(new, n - 1, At(w, "back") \ {d})
  <2>1. old[1] \in At(w, "back") /\ old[1] \in Desc
        /\ Lists(new, n - 1, At(w, "back") \ {old[1]})
    BY Zenon, <1>4, <1>5, <1>6, ListDrop
  <2>2. QED
    BY Zenon, <1>4, <2>1
<1> DEFINE v == [w EXCEPT ![d] = "free"]
<1>8. w \in [Desc -> Places]
  BY <1>1 DEF Placed
<1>9. /\ v \in [Desc -> Places] /\ v[d] = "free"
      /\ \A e \in Desc : e # d => v[e] = w[e]
  BY <1>7, <1>8, PlacesDiffer
<1> HIDE DEF v
<1>10. /\ d \notin At(w, "free")
       /\ At(v, "back") = At(w, "back") \ {d}
       /\ At(v, "free") = At(w, "free") \cup {d}
       /\ \A x \in Places : x # "back" /\ x # "free" => At(v, x) = At(w, x)
  BY <1>7, <1>8, <1>9, PlacesDiffer, Move
<1>11. /\ At(v, "offered") = At(w, "offered") /\ At(v, "held") = At(w, "held")
       /\ At(v, "master") = At(w, "master") /\ At(v, "slave") = At(w, "slave")
  BY Zenon, <1>10, PlacesDiffer
<1>12. next \in [Desc -> Desc \cup {CHAIN_END}] /\ next' \in [Desc -> Desc \cup {CHAIN_END}]
  <2>1. next \in [Desc -> Desc \cup {CHAIN_END}] /\ vq_desc_head_idx \in Desc \cup {CHAIN_END}
    BY <1>0 DEF TypeOK
  <2>2. QED
    BY <1>2, <2>1
<1>13. FreeChain(At(v, "free"), vq_desc_head_idx', vq_free_cnt', next')
  <2>1. FreeChain(At(w, "free"), vq_desc_head_idx, vq_free_cnt, next)
    BY <1>1 DEF Placed
  <2>2. FreeChain(At(w, "free") \cup {d}, d, vq_free_cnt + 1,
                  [next EXCEPT ![d] = vq_desc_head_idx])
    BY Zenon, <1>7, <1>10, <1>12, <2>1, ChainPush
  <2>3. QED
    BY Zenon, <1>2, <1>10, <2>2
<1>14. TypeOK'
  <2>1. vq_used_cons_idx' \in 0..Wrap - 1
    BY Zenon, <1>4 DEF Idx
  <2>2. cookie' \in [Desc -> 0..MaxAdds]
    <3>1. cookie \in [Desc -> 0..MaxAdds] /\ 0 \in 0..MaxAdds
      BY <1>0 DEF TypeOK
    <3>2. QED
      BY <1>2, <3>1
  <2>3. vq_free_cnt' \in 0..nentries
    BY <1>0, <1>2, <1>4, CountFacts DEF Count, n
  <2>4. QED
    BY Zenon, <1>0, <1>2, <1>7, <1>12, <2>1, <2>2, <2>3 DEF TypeOK, Desc, CHAIN_END, NONE
<1>15. Located'
  <2>1. /\ {publishing'["master"]} \ {NONE} = At(v, "master")
        /\ {publishing'["slave"]} \ {NONE} = At(v, "slave") /\ held' = At(v, "held")
    BY Zenon, <1>1, <1>2, <1>11 DEF Placed
  <2>2. Lists(Window(avail_ring', vq_available_idx', avail_idx'),
              Span(vq_available_idx', avail_idx'), At(v, "offered"))
    BY Zenon, <1>1, <1>2, <1>11 DEF Placed
  <2>3. Lists(Window(used_ring', vq_used_cons_idx', used_idx'),
              Span(vq_used_cons_idx', used_idx'), At(v, "back"))
    BY Zenon, <1>2, <1>4, <1>7, <1>10 DEF new
  <2>4. \A e \in Desc : e \in At(v, "free") <=> cookie'[e] = 0
    <3>1. /\ \A e \in Desc : e \in At(w, "free") <=> cookie[e] = 0
          /\ cookie \in [Desc -> 0..MaxAdds]
      BY Zenon, <1>0, <1>1 DEF Placed, TypeOK
    <3>2. cookie'[d] = 0 /\ \A e \in Desc : e # d => cookie'[e] = cookie[e]
      BY <1>2, <1>7, <3>1
    <3>3. QED
      BY <1>10, <3>1, <3>2
  <2>5. QED
    BY Zenon, <1>9, <1>13, <2>1, <2>2, <2>3, <2>4 DEF Located, Placed
<1>16. Count'
  <2>1. /\ One(publishing'["master"]) = One(publishing["master"])
        /\ One(publishing'["slave"]) = One(publishing["slave"])
    BY Zenon, <1>2
  <2>2. /\ Span(vq_available_idx', avail_idx') = Span(vq_available_idx, avail_idx)
        /\ Span(vq_used_cons_idx', used_idx') = Span(vq_used_cons_idx, used_idx) - 1
    BY Zenon, <1>2, <1>4 DEF n
  <2>3. QED
    BY <1>0, <1>2, <2>1, <2>2, CountFacts DEF Count
<1>17. Written'
  BY Zenon, <1>0, <1>2 DEF Written
<1>18. QED
  BY Zenon, <1>14, <1>15, <1>16, <1>17 DEF VInv

\* virtqueue_get_available_buffer(): the slave takes the first descriptor offered.
LEMMA StepGetAvailable ==
    ASSUME VInv, GetAvailable
    PROVE  VInv'
<1>0. TypeOK /\ Located /\ Count /\ Written
  BY DEF VInv
<1>1. PICK w : Placed(w)
  BY <1>0 DEF Located
<1> DEFINE d == avail_ring[Slot(vq_available_idx)]
           n == Span(vq_available_idx, avail_idx)
<1>2. /\ vq_available_idx # avail_idx
      /\ vq_available_idx' = (vq_available_idx + 1) % Wrap
      /\ held' = held \cup {d}
      /\ avail_ring' = avail_ring /\ avail_idx' = avail_idx
      /\ used_ring' = used_ring /\ used_idx' = used_idx
      /\ next' = next /\ cookie' = cookie /\ vq_desc_head_idx' = vq_desc_head_idx
      /\ vq_free_cnt' = vq_free_cnt /\ vq_used_cons_idx' = vq_used_cons_idx
      /\ publishing' = publishing /\ adds' = adds
  BY DEF GetAvailable, shared, master
<1>3. avail_ring \in [Desc -> Desc] /\ vq_available_idx \in Idx /\ avail_idx \in Idx
  BY <1>0 DEF TypeOK, Idx
<1> DEFINE old == Window(avail_ring, vq_available_idx, avail_idx)
           new == Window(avail_ring, vq_available_idx', avail_idx)
<1>4. /\ vq_available_idx' \in Idx /\ n > 0 /\ Span(vq_available_idx', avail_idx) = n - 1
      /\ old[1] = d
      /\ \A k \in 1..n - 1 : new[k] = old[k + 1]
  BY <1>2, <1>3, WindowShrink
<1>5. new \in [1..n - 1 -> Desc]
  BY <1>3, <1>4, WindowType
<1>6. Lists(old, n, At(w, "offered"))
  BY <1>1 DEF Placed
<1> HIDE DEF d, n, old, new
<1>7. d \in At(w, "offered") /\ d \in Desc /\ Lists(new, n - 1, At(w, "offered") \ {d})
  <2>1. old[1] \in At(w, "offered") /\ old[1] \in Desc
        /\ Lists(new, n - 1, At(w, "offered") \ {old[1]})
    BY Zenon, <1>4, <1>5, <1>6, ListDrop
  <2>2. QED
    BY Zenon, <1>4, <2>1
<1> DEFINE v == [w EXCEPT ![d] = "held"]
<1>8. w \in [Desc -> Places]
  BY <1>1 DEF Placed
<1>9. /\ v \in [Desc -> Places] /\ v[d] = "held"
      /\ \A e \in Desc : e # d => v[e] = w[e]
  BY <1>7, <1>8, PlacesDiffer
<1> HIDE DEF v
<1>10. /\ d \notin At(w, "held")
       /\ At(v, "offered") = At(w, "offered") \ {d}
       /\ At(v, "held") = At(w, "held") \cup {d}
       /\ \A x \in Places : x # "offered" /\ x # "held" => At(v, x) = At(w, x)
  BY <1>7, <1>8, <1>9, PlacesDiffer, Move
<1>11. /\ At(v, "free") = At(w, "free") /\ At(v, "back") = At(w, "back")
       /\ At(v, "master") = At(w, "master") /\ At(v, "slave") = At(w, "slave")
  BY Zenon, <1>10, PlacesDiffer
<1>12. held = At(w, "held") /\ held' = At(v, "held") /\ d \notin held
  BY Zenon, <1>1, <1>2, <1>10 DEF Placed
<1>13. TypeOK'
  <2>1. vq_available_idx' \in 0..Wrap - 1
    BY Zenon, <1>4 DEF Idx
  <2>2. held' \subseteq Desc
    BY <1>0, <1>2, <1>7 DEF TypeOK
  <2>3. QED
    BY Zenon, <1>0, <1>2, <2>1, <2>2 DEF TypeOK, Desc, CHAIN_END, NONE
<1>14. Located'
  <2>1. /\ {publishing'["master"]} \ {NONE} = At(v, "master")
        /\ {publishing'["slave"]} \ {NONE} = At(v, "slave")
    BY Zenon, <1>1, <1>2, <1>11 DEF Placed
  <2>2. FreeChain(At(v, "free"), vq_desc_head_idx', vq_free_cnt', next')
    BY Zenon, <1>1, <1>2, <1>11 DEF Placed
  <2>3. Lists(Window(avail_ring', vq_available_idx', avail_idx'),
              Span(vq_available_idx', avail_idx'), At(v, "offered"))
    BY Zenon, <1>2, <1>4, <1>7, <1>10 DEF new
  <2>4. Lists(Window(used_ring', vq_used_cons_idx', used_idx'),
              Span(vq_used_cons_idx', used_idx'), At(v, "back"))
    BY Zenon, <1>1, <1>2, <1>11 DEF Placed
  <2>5. \A e \in Desc : e \in At(v, "free") <=> cookie'[e] = 0
    BY Zenon, <1>1, <1>2, <1>11 DEF Placed
  <2>6. QED
    BY Zenon, <1>9, <1>12, <2>1, <2>2, <2>3, <2>4, <2>5 DEF Located, Placed
<1>15. Count'
  <2>1. /\ One(publishing'["master"]) = One(publishing["master"])
        /\ One(publishing'["slave"]) = One(publishing["slave"])
    BY Zenon, <1>2
  <2>2. /\ Span(vq_available_idx', avail_idx') = Span(vq_available_idx, avail_idx) - 1
        /\ Span(vq_used_cons_idx', used_idx') = Span(vq_used_cons_idx, used_idx)
    BY Zenon, <1>2, <1>4 DEF n
  <2>3. Cardinality(held') = Cardinality(held) + 1
    BY <1>0, <1>2, <1>7, <1>12, CountFacts
  <2>4. QED
    BY <1>0, <1>2, <2>1, <2>2, <2>3, CountFacts DEF Count
<1>16. Written'
  BY Zenon, <1>0, <1>2 DEF Written
<1>17. QED
  BY Zenon, <1>13, <1>14, <1>15, <1>16 DEF VInv

\* virtqueue_add_consumed_buffer() overwrites no entry of the used ring that the
\* master has still to read.
LEMMA StepAddConsumed ==
    ASSUME VInv, NEW d \in Desc, AddConsumed(d)
    PROVE  VInv'
<1>0. TypeOK /\ Located /\ Count /\ Written
  BY DEF VInv
<1>1. PICK w : Placed(w)
  BY <1>0 DEF Located
<1>2. /\ d \in held /\ publishing["slave"] = NONE
      /\ used_ring' = [used_ring EXCEPT ![Slot(used_idx)] = d]
      /\ held' = held \ {d}
      /\ publishing' = [publishing EXCEPT !["slave"] = d]
      /\ avail_ring' = avail_ring /\ avail_idx' = avail_idx /\ used_idx' = used_idx
      /\ next' = next /\ cookie' = cookie /\ vq_desc_head_idx' = vq_desc_head_idx
      /\ vq_free_cnt' = vq_free_cnt /\ vq_used_cons_idx' = vq_used_cons_idx
      /\ vq_available_idx' = vq_available_idx /\ adds' = adds
  BY DEF AddConsumed, master
<1>3. d \in At(w, "held")
  BY <1>1, <1>2 DEF Placed
<1> DEFINE v == [w EXCEPT ![d] = "slave"]
<1>4. w \in [Desc -> Places]
  BY <1>1 DEF Placed
<1>5. /\ v \in [Desc -> Places] /\ v[d] = "slave"
      /\ \A e \in Desc : e # d => v[e] = w[e]
  BY <1>4, PlacesDiffer
<1> HIDE DEF v
<1>6. /\ At(v, "held") = At(w, "held") \ {d}
      /\ At(v, "slave") = At(w, "slave") \cup {d}
      /\ \A x \in Places : x # "held" /\ x # "slave" => At(v, x) = At(w, x)
  BY <1>3, <1>4, <1>5, PlacesDiffer, Move
<1>7. /\ At(v, "free") = At(w, "free") /\ At(v, "offered") = At(w, "offered")
      /\ At(v, "back") = At(w, "back") /\ At(v, "master") = At(w, "master")
  BY Zenon, <1>6, PlacesDiffer
<1>8. used_ring \in [Desc -> Desc] /\ vq_used_cons_idx \in Idx /\ used_idx \in Idx
  BY <1>0 DEF TypeOK, Idx
<1>9. Span(vq_used_cons_idx, used_idx) < nentries
  <2>1. Cardinality(held) > 0
    BY Zenon, <1>0, <1>2, CountFacts
  <2>2. QED
    BY <1>0, <2>1, CountFacts DEF Count
<1>10. /\ used_ring' \in [Desc -> Desc] /\ used_ring'[Slot(used_idx)] = d
       /\ Window(used_ring', vq_used_cons_idx, used_idx)
            = Window(used_ring, vq_used_cons_idx, used_idx)
  <2>1. Slot(used_idx) \in Desc
    BY <1>8, SlotFacts DEF Idx
  <2>2. /\ used_ring' \in [Desc -> Desc] /\ used_ring'[Slot(used_idx)] = d
        /\ \A s \in Desc : s # Slot(used_idx) => used_ring'[s] = used_ring[s]
    BY <1>2, <1>8, <2>1
  <2>3. QED
    BY Zenon, <1>8, <1>9, <2>2, WindowWrite
<1>11. /\ publishing' \in [{"master", "slave"} -> Desc \cup {NONE}]
       /\ publishing'["slave"] = d /\ publishing'["master"] = publishing["master"]
  BY Zenon, <1>0, <1>2, Publishing
<1>12. TypeOK'
  <2>1. held' \subseteq Desc
    BY <1>0, <1>2 DEF TypeOK
  <2>2. QED
    BY Zenon, <1>0, <1>2, <1>10, <1>11, <2>1 DEF TypeOK, Desc, CHAIN_END, NONE
<1>13. Located'
  <2>1. {publishing'["slave"]} \ {NONE} = At(v, "slave")
    <3>1. {publishing["slave"]} \ {NONE} = At(w, "slave")
      BY <1>1 DEF Placed
    <3>2. QED
      BY <1>0, <1>2, <1>6, <1>11, <3>1, Marks
  <2>2. {publishing'["master"]} \ {NONE} = At(v, "master") /\ held' = At(v, "held")
    BY Zenon, <1>1, <1>2, <1>6, <1>7, <1>11 DEF Placed
  <2>3. FreeChain(At(v, "free"), vq_desc_head_idx', vq_free_cnt', next')
    BY Zenon, <1>1, <1>2, <1>7 DEF Placed
  <2>4. Lists(Window(avail_ring', vq_available_idx', avail_idx'),
              Span(vq_available_idx', avail_idx'), At(v, "offered"))
    BY Zenon, <1>1, <1>2, <1>7 DEF Placed
  <2>5. Lists(Window(used_ring', vq_used_cons_idx', used_idx'),
              Span(vq_used_cons_idx', used_idx'), At(v, "back"))
    BY Zenon, <1>1, <1>2, <1>7, <1>10 DEF Placed
  <2>6. \A e \in Desc : e \in At(v, "free") <=> cookie'[e] = 0
    BY Zenon, <1>1, <1>2, <1>7 DEF Placed
  <2>7. QED
    BY Zenon, <1>5, <2>1, <2>2, <2>3, <2>4, <2>5, <2>6 DEF Located, Placed
<1>14. Count'
  <2>1. /\ One(publishing["slave"]) = 0 /\ One(publishing'["slave"]) = 1
        /\ One(publishing'["master"]) = One(publishing["master"])
    BY Zenon, <1>0, <1>2, <1>11, Marks
  <2>2. /\ Span(vq_available_idx', avail_idx') = Span(vq_available_idx, avail_idx)
        /\ Span(vq_used_cons_idx', used_idx') = Span(vq_used_cons_idx, used_idx)
    BY Zenon, <1>2
  <2>3. Cardinality(held') = Cardinality(held) - 1
    BY <1>0, <1>2, CountFacts
  <2>4. QED
    BY <1>0, <1>2, <2>1, <2>2, <2>3, CountFacts DEF Count
<1>15. Written'
  BY Zenon, <1>0, <1>2, <1>10, <1>11 DEF Written
<1>16. QED
  BY Zenon, <1>12, <1>13, <1>14, <1>15 DEF VInv

\* The index of the used ring moves on: the buffer is back.
LEMMA StepUpdateUsed ==
    ASSUME VInv, UpdateUsed
    PROVE  VInv'
<1>0. TypeOK /\ Located /\ Count /\ Written
  BY DEF VInv
<1>1. PICK w : Placed(w)
  BY <1>0 DEF Located
<1> DEFINE d == publishing["slave"]
           n == Span(vq_used_cons_idx, used_idx)
<1>2. /\ publishing["slave"] # NONE
      /\ used_idx' = (used_idx + 1) % Wrap
      /\ publishing' = [publishing EXCEPT !["slave"] = NONE]
      /\ avail_ring' = avail_ring /\ avail_idx' = avail_idx /\ used_ring' = used_ring
      /\ next' = next /\ cookie' = cookie /\ vq_desc_head_idx' = vq_desc_head_idx
      /\ vq_free_cnt' = vq_free_cnt /\ vq_used_cons_idx' = vq_used_cons_idx
      /\ vq_available_idx' = vq_available_idx /\ held' = held /\ adds' = adds
  BY DEF UpdateUsed, slave, master
<1>3. d \in At(w, "slave") /\ At(w, "slave") = {d} /\ d \in Desc
  BY <1>0, <1>1, <1>2, Marks DEF Placed
<1> DEFINE v == [w EXCEPT ![d] = "back"]
<1>4. w \in [Desc -> Places]
  BY <1>1 DEF Placed
<1>5. /\ v \in [Desc -> Places] /\ v[d] = "back"
      /\ \A e \in Desc : e # d => v[e] = w[e]
  BY <1>3, <1>4, PlacesDiffer
<1>6. used_ring \in [Desc -> Desc] /\ vq_used_cons_idx \in Idx /\ used_idx \in Idx
  BY <1>0 DEF TypeOK, Idx
<1>7. One(d) = 1 /\ n \in Nat /\ n + 1 < Wrap
  <2>1. One(d) = 1
    BY Zenon, <1>0, <1>3, Marks
  <2>2. QED
    BY <1>0, <2>1, CountFacts DEF Count
<1> DEFINE old == Window(used_ring, vq_used_cons_idx, used_idx)
           new == Window(used_ring, vq_used_cons_idx, used_idx')
<1>8. /\ used_idx' \in Idx /\ Span(vq_used_cons_idx, used_idx') = n + 1
      /\ \A k \in 1..n : new[k] = old[k]
      /\ new[n + 1] = used_ring[Slot(used_idx)]
  BY <1>2, <1>6, <1>7, WindowGrow
<1>9. new \in [1..n + 1 -> Desc]
  BY <1>6, <1>8, WindowType
<1>10. new[n + 1] = d
  BY <1>0, <1>2, <1>8 DEF Written
<1>11. Lists(old, n, At(w, "back"))
  BY <1>1 DEF Placed
<1>12. /\ publishing' \in [{"master", "slave"} -> Desc \cup {NONE}]
       /\ publishing'["slave"] = NONE /\ publishing'["master"] = publishing["master"]
  BY <1>0, <1>2, Publishing
<1> HIDE DEF d, n, old, new, v
<1>13. /\ d \notin At(w, "back")
       /\ At(v, "slave") = At(w, "slave") \ {d}
       /\ At(v, "back") = At(w, "back") \cup {d}
       /\ \A x \in Places : x # "slave" /\ x # "back" => At(v, x) = At(w, x)
  BY <1>3, <1>4, <1>5, PlacesDiffer, Move
<1>14. /\ At(v, "free") = At(w, "free") /\ At(v, "offered") = At(w, "offered")
       /\ At(v, "held") = At(w, "held") /\ At(v, "master") = At(w, "master")
  BY Zenon, <1>13, PlacesDiffer
<1>15. Lists(new, n + 1, At(v, "back"))
  <2>1. Lists(new, n + 1, At(w, "back") \cup {d})
    BY Zenon, <1>3, <1>13, <1>8, <1>9, <1>10, <1>11, ListAppend
  <2>2. QED
    BY Zenon, <1>13, <2>1
<1>16. TypeOK'
  <2>1. used_idx' \in 0..Wrap - 1
    BY Zenon, <1>8 DEF Idx
  <2>2. QED
    BY Zenon, <1>0, <1>2, <1>12, <2>1 DEF TypeOK, Desc, CHAIN_END, NONE
<1>17. Located'
  <2>1. {publishing'["slave"]} \ {NONE} = At(v, "slave")
    BY <1>12, <1>3, <1>13
  <2>2. {publishing'["master"]} \ {NONE} = At(v, "master") /\ held' = At(v, "held")
    BY Zenon, <1>1, <1>2, <1>12, <1>14 DEF Placed
  <2>3. FreeChain(At(v, "free"), vq_desc_head_idx', vq_free_cnt', next')
    BY Zenon, <1>1, <1>2, <1>14 DEF Placed
  <2>4. Lists(Window(avail_ring', vq_available_idx', avail_idx'),
              Span(vq_available_idx', avail_idx'), At(v, "offered"))
    BY Zenon, <1>1, <1>2, <1>14 DEF Placed
  <2>5. Lists(Window(used_ring', vq_used_cons_idx', used_idx'),
              Span(vq_used_cons_idx', used_idx'), At(v, "back"))
    BY Zenon, <1>2, <1>8, <1>15 DEF new
  <2>6. \A e \in Desc : e \in At(v, "free") <=> cookie'[e] = 0
    BY Zenon, <1>1, <1>2, <1>14 DEF Placed
  <2>7. QED
    BY Zenon, <1>5, <2>1, <2>2, <2>3, <2>4, <2>5, <2>6 DEF Located, Placed
<1>18. Count'
  <2>1. /\ One(publishing["slave"]) = 1 /\ One(publishing'["slave"]) = 0
        /\ One(publishing'["master"]) = One(publishing["master"])
    BY Zenon, <1>0, <1>7, <1>12, Marks DEF d
  <2>2. /\ Span(vq_available_idx', avail_idx') = Span(vq_available_idx, avail_idx)
        /\ Span(vq_used_cons_idx', used_idx') = Span(vq_used_cons_idx, used_idx) + 1
    BY Zenon, <1>2, <1>8 DEF n
  <2>3. QED
    BY <1>0, <1>2, <2>1, <2>2, CountFacts DEF Count
<1>19. Written'
  BY Zenon, <1>0, <1>2, <1>12 DEF Written
<1>20. QED
  BY Zenon, <1>16, <1>17, <1>18, <1>19 DEF VInv

\* The invariant holds always.
LEMMA VAlways == Spec => []VInv
<1>1. Init => VInv
  BY VInit
<1>2. VInv /\ [Next]_vars => VInv'
  <2> SUFFICES ASSUME VInv, [Next]_vars PROVE VInv'
    OBVIOUS
  <2>1. CASE AddBuffer
    BY <2>1, StepAddBuffer
  <2>2. CASE UpdateAvail
    BY <2>2, StepUpdateAvail
  <2>3. CASE GetBuffer
    BY <2>3, StepGetBuffer
  <2>4. CASE GetAvailable
    BY <2>4, StepGetAvailable
  <2>5. CASE UpdateUsed
    BY <2>5, StepUpdateUsed
  <2>6. CASE \E d \in Desc : AddConsumed(d)
    BY <2>6, StepAddConsumed
  <2>7. CASE UNCHANGED vars
    <3>1. /\ avail_ring' = avail_ring /\ avail_idx' = avail_idx
          /\ used_ring' = used_ring /\ used_idx' = used_idx
          /\ next' = next /\ cookie' = cookie /\ vq_desc_head_idx' = vq_desc_head_idx
          /\ vq_free_cnt' = vq_free_cnt /\ vq_used_cons_idx' = vq_used_cons_idx
          /\ vq_available_idx' = vq_available_idx /\ held' = held
          /\ publishing' = publishing /\ adds' = adds
      BY <2>7 DEF vars, shared, master, slave
    <3>2. TypeOK' /\ Count' /\ Written'
      BY Zenon, <3>1 DEF VInv, TypeOK, Count, Written, Desc, CHAIN_END, NONE
    <3>3. Located'
      BY Zenon, <3>1 DEF VInv, Located, Placed
    <3>4. QED
      BY Zenon, <3>2, <3>3 DEF VInv
  <2>8. QED
    BY Zenon, <2>1, <2>2, <2>3, <2>4, <2>5, <2>6, <2>7 DEF Next
<1>3. QED
  BY <1>1, <1>2, PTL DEF Spec

-----------------------------------------------------------------------------
(***************************************************************************)
(* What the invariant says about the properties the runs check.            *)
(***************************************************************************)

\* A function on 1..n is a sequence of length n.
LEMMA SeqOf ==
    ASSUME NEW n \in Nat, NEW S, NEW f \in [1..n -> S]
    PROVE  f \in Seq(S) /\ Len(f) = n
<1>1. f \in Seq(S)
  OBVIOUS
<1>2. Len(f) \in Nat /\ DOMAIN f = 1..Len(f) /\ DOMAIN f = 1..n
  BY <1>1, LenProperties
<1>3. QED
  BY <1>1, <1>2

\* The chain that Free walks through is the one of the invariant.
LEMMA FreeIs ==
    ASSUME NEW f, NEW S, Lists(f, vq_free_cnt, S),
           Linked(f, vq_desc_head_idx, vq_free_cnt, next)
    PROVE  Free = f
<1> DEFINE cnt == vq_free_cnt
           Step(g) == [k \in 1..cnt |-> IF k = 1 THEN vq_desc_head_idx
                                        ELSE IF g[k - 1] \in Desc THEN next[g[k - 1]]
                                        ELSE CHAIN_END]
<1>1. Free = CHOOSE g : g = Step(g)
  BY DEF Free
<1>2. cnt \in Nat /\ f \in [1..cnt -> Desc]
  BY DEF Lists
<1>3. \A k \in 1..cnt : /\ k = 1 => f[k] = vq_desc_head_idx
                        /\ k # 1 => k - 1 \in 1..cnt /\ f[k] = next[f[k - 1]]
  <2>1. ASSUME NEW k \in 1..cnt, k = 1 PROVE f[k] = vq_desc_head_idx
    BY <1>2, <2>1 DEF Linked
  <2>2. ASSUME NEW k \in 1..cnt, k # 1 PROVE k - 1 \in 1..cnt /\ f[k] = next[f[k - 1]]
    <3>1. k - 1 \in 1..cnt - 1 /\ k - 1 \in 1..cnt /\ (k - 1) + 1 = k
      BY <1>2, <2>2
    <3>2. QED
      BY <3>1 DEF Linked
  <2>3. QED
    BY <2>1, <2>2
<1>4. f = Step(f)
  <2>1. \A k \in 1..cnt : f[k] = Step(f)[k]
    BY <1>2, <1>3
  <2>2. QED
    BY <1>2, <2>1
<1>5. Free = Step(Free)
  BY <1>1, <1>4
<1> DEFINE T == {k \in 1..cnt : Free[k] # f[k]}
<1>6. ASSUME T # {} PROVE FALSE
  <2>1. T \subseteq Nat
    BY <1>2
  <2> HIDE DEF T
  <2>2. PICK x \in T : \A y \in T : x <= y
    BY <1>6, <2>1, LeastNatural
  <2>3. x \in 1..cnt /\ Free[x] # f[x]
    BY <2>2 DEF T
  <2>4. Free[x] = Step(Free)[x]
    BY <1>5
  <2>5. x # 1
    BY <1>3, <2>3, <2>4
  <2>6. x - 1 \in 1..cnt /\ ~(x <= x - 1)
    BY <1>2, <2>3, <2>5
  <2>7. Free[x - 1] = f[x - 1] /\ f[x - 1] \in Desc
    BY <1>2, <2>2, <2>6 DEF T
  <2>8. Free[x] = next[f[x - 1]]
    BY <2>3, <2>4, <2>5, <2>7
  <2>9. QED
    BY <1>3, <2>3, <2>5, <2>8
<1>7. DOMAIN Free = 1..cnt /\ Free = [k \in 1..cnt |-> Free[k]]
  BY <1>5
<1>8. f = [k \in 1..cnt |-> f[k]]
  BY <1>2
<1>9. \A k \in 1..cnt : Free[k] = f[k]
  BY <1>6
<1>10. QED
  BY <1>7, <1>8, <1>9

\* The rings, as the properties read them.
LEMMA RingsAre ==
    ASSUME TypeOK
    PROVE  /\ Offered = Window(avail_ring, vq_available_idx, avail_idx)
           /\ Back = Window(used_ring, vq_used_cons_idx, used_idx)
           /\ Offered \in [1..Span(vq_available_idx, avail_idx) -> Desc]
           /\ Back \in [1..Span(vq_used_cons_idx, used_idx) -> Desc]
           /\ Len(Offered) = Span(vq_available_idx, avail_idx)
           /\ Len(Back) = Span(vq_used_cons_idx, used_idx)
<1>1. /\ Offered = Window(avail_ring, vq_available_idx, avail_idx)
      /\ Back = Window(used_ring, vq_used_cons_idx, used_idx)
  BY DEF Offered, Back, Window, Span
<1>2. /\ avail_ring \in [Desc -> Desc] /\ used_ring \in [Desc -> Desc]
      /\ vq_available_idx \in Idx /\ avail_idx \in Idx
      /\ vq_used_cons_idx \in Idx /\ used_idx \in Idx
  BY DEF TypeOK, Idx
<1>3. /\ Offered \in [1..Span(vq_available_idx, avail_idx) -> Desc]
      /\ Back \in [1..Span(vq_used_cons_idx, used_idx) -> Desc]
  BY Zenon, <1>1, <1>2, WindowType
<1>4. /\ Span(vq_available_idx, avail_idx) \in Nat
      /\ Span(vq_used_cons_idx, used_idx) \in Nat
  BY <1>2, SpanFacts
<1>5. QED
  BY Zenon, <1>1, <1>3, <1>4, SeqOf

\* A list and its set.
LEMMA ElementsAre ==
    ASSUME NEW f, NEW n, NEW S, Lists(f, n, S)
    PROVE  Elements(f) = S
<1>1. DOMAIN f = 1..n
  BY DEF Lists
<1>2. QED
  BY <1>1 DEF Elements, Lists

\* What is being published, as a set.
LEMMA TransitCount ==
    ASSUME TypeOK, NEW w, Placed(w)
    PROVE  /\ InTransit = At(w, "master") \cup At(w, "slave")
           /\ Cardinality(InTransit) = One(publishing["master"]) + One(publishing["slave"])
<1> DEFINE m == publishing["master"]
           s == publishing["slave"]
<1>1. InTransit = {m, s} \ {NONE}
  BY DEF InTransit
<1>2. {m} \ {NONE} = At(w, "master") /\ {s} \ {NONE} = At(w, "slave")
  BY DEF Placed
<1>3. m # NONE => m # s
  <2>1. \A d \in At(w, "master") : d \notin At(w, "slave")
    BY PlacesDiffer DEF At
  <2>2. QED
    BY <1>2, <2>1
<1> HIDE DEF m, s
<1>4. InTransit = At(w, "master") \cup At(w, "slave")
  BY <1>1, <1>2
<1>5. CASE m = NONE /\ s = NONE
  <2>1. InTransit = {}
    BY <1>1, <1>5
  <2>2. QED
    BY <1>4, <1>5, <2>1, FS_EmptySet DEF One, m, s
<1>6. CASE m = NONE /\ s # NONE
  <2>1. InTransit = {s}
    BY <1>1, <1>6
  <2>2. Cardinality(InTransit) = 1
    BY Zenon, <2>1, FS_Singleton
  <2>3. One(m) + One(s) = 1
    BY <1>6 DEF One
  <2>4. QED
    BY <1>4, <2>2, <2>3 DEF m, s
<1>7. CASE m # NONE /\ s = NONE
  <2>1. InTransit = {m}
    BY <1>1, <1>7
  <2>2. Cardinality(InTransit) = 1
    BY Zenon, <2>1, FS_Singleton
  <2>3. One(m) + One(s) = 1
    BY <1>7 DEF One
  <2>4. QED
    BY <1>4, <2>2, <2>3 DEF m, s
<1>8. CASE m # NONE /\ s # NONE
  <2>1. InTransit = {m} \cup {s}
    BY <1>1, <1>8
  <2>2. IsFiniteSet({m}) /\ Cardinality({m}) = 1 /\ s \notin {m}
    BY <1>3, <1>8, FS_Singleton
  <2>3. Cardinality({m} \cup {s}) = 1 + 1
    BY <2>2, FS_AddElement
  <2>4. QED
    BY <1>4, <1>8, <2>1, <2>3 DEF One, m, s
<1>9. QED
  BY <1>5, <1>6, <1>7, <1>8

\* The free descriptors are those without a cookie.
CookiesTell == \A d \in Desc : d \in Elements(Free) <=> cookie[d] = 0

\* The invariant implies the properties of the run.
LEMMA VImplies ==
    ASSUME VInv
    PROVE  EachInOnePlace /\ ChainEnds /\ CookiesTell
<1>0. TypeOK /\ Located /\ Count
  BY DEF VInv
<1>1. PICK w : Placed(w)
  BY <1>0 DEF Located
<1>2. PICK f : /\ Lists(f, vq_free_cnt, At(w, "free"))
               /\ Linked(f, vq_desc_head_idx, vq_free_cnt, next)
  BY <1>1 DEF Placed, FreeChain
<1>3. Free = f
  BY <1>2, FreeIs
<1>4. /\ Elements(Free) = At(w, "free") /\ Elements(Offered) = At(w, "offered")
      /\ Elements(Back) = At(w, "back") /\ held = At(w, "held")
  <2>1. Elements(f) = At(w, "free")
    BY Zenon, <1>2, ElementsAre
  <2>2. /\ Lists(Offered, Span(vq_available_idx, avail_idx), At(w, "offered"))
        /\ Lists(Back, Span(vq_used_cons_idx, used_idx), At(w, "back"))
        /\ held = At(w, "held")
    BY Zenon, <1>0, <1>1, RingsAre DEF Placed
  <2>3. Elements(Offered) = At(w, "offered") /\ Elements(Back) = At(w, "back")
    BY Zenon, <2>2, ElementsAre
  <2>4. QED
    BY Zenon, <1>3, <2>1, <2>2, <2>3
<1>5. /\ InTransit = At(w, "master") \cup At(w, "slave")
      /\ Cardinality(InTransit) = One(publishing["master"]) + One(publishing["slave"])
  BY <1>0, <1>1, TransitCount
<1>6. EachInOnePlace
  <2>1. Elements(Free) \cup Elements(Offered) \cup held \cup Elements(Back)
          \cup InTransit = Desc
    <3>1. w \in [Desc -> Places]
      BY <1>1 DEF Placed
    <3>2. At(w, "free") \cup At(w, "offered") \cup At(w, "held") \cup At(w, "back")
            \cup (At(w, "master") \cup At(w, "slave")) = Desc
      BY <3>1 DEF At, Places
    <3>3. QED
      BY Zenon, <1>4, <1>5, <3>2
  <2>2. vq_free_cnt + Len(Offered) + Cardinality(held) + Len(Back)
          + Cardinality(InTransit) = nentries
    <3>1. /\ Len(Offered) = Span(vq_available_idx, avail_idx)
          /\ Len(Back) = Span(vq_used_cons_idx, used_idx)
      BY Zenon, <1>0, RingsAre
    <3>2. QED
      BY <1>0, <1>5, <3>1, CountFacts DEF Count
  <2>3. QED
    BY Zenon, <2>1, <2>2 DEF EachInOnePlace
<1>7. ChainEnds
  <2>1. CASE vq_free_cnt = 0
    BY <1>2, <2>1 DEF ChainEnds, Linked
  <2>2. CASE vq_free_cnt # 0
    <3>1. vq_free_cnt > 0 /\ vq_free_cnt \in 1..vq_free_cnt
      BY <1>0, <2>2 DEF TypeOK
    <3>2. f[vq_free_cnt] \in Desc /\ next[f[vq_free_cnt]] = CHAIN_END
      BY <1>2, <3>1 DEF Lists, Linked
    <3>3. f[vq_free_cnt] # CHAIN_END
      BY Zenon, <1>0, <3>2, Marks
    <3>4. QED
      BY Zenon, <1>3, <2>2, <3>2, <3>3 DEF ChainEnds
  <2>3. QED
    BY Zenon, <2>1, <2>2
<1>8. CookiesTell
  BY Zenon, <1>1, <1>4 DEF CookiesTell, Placed
<1>9. QED
  BY Zenon, <1>6, <1>7, <1>8

\* The variables of a virtqueue keep their types; in particular what the indices
\* select in the rings, and the head of the free chain, are descriptors.
THEOREM RingTypesKept == Spec => []TypeOK
<1>1. VInv => TypeOK
  BY DEF VInv
<1>2. QED
  BY <1>1, VAlways, PTL

\* No descriptor is lost, handed out twice or overwritten in a ring: each is in
\* one place, for every size of the rings and wherever their indices wrap.
THEOREM DescriptorsInOnePlace == Spec => []EachInOnePlace
<1>1. VInv => EachInOnePlace
  BY VImplies
<1>2. QED
  BY <1>1, VAlways, PTL

\* The chain of free descriptors has vq_free_cnt members and then ends: the
\* assertion of virtqueue.c on the end of the chain never fails.
THEOREM ChainEndsRight == Spec => []ChainEnds
<1>1. VInv => ChainEnds
  BY VImplies
<1>2. QED
  BY <1>1, VAlways, PTL

\* virtqueue_add_buffer() finds no cookie at the descriptor it takes, as it asserts
\* ("cookie already exists"), and virtqueue_get_buffer() never hands out NULL for a
\* buffer that is back: only free descriptors are without a cookie.
THEOREM NoStaleCookie == Spec => []CookiesTell
<1>1. VInv => CookiesTell
  BY VImplies
<1>2. QED
  BY <1>1, VAlways, PTL

-----------------------------------------------------------------------------
(***************************************************************************)
(* The avail ring is a bounded queue.                                      *)
(***************************************************************************)

\* A function with one more entry than another is the other with it appended.
LEMMA FunAppend ==
    ASSUME NEW S, NEW n \in Nat, NEW f \in [1..n -> S], NEW g \in [1..n + 1 -> S],
           NEW x \in S, \A k \in 1..n : g[k] = f[k], g[n + 1] = x
    PROVE  g = Append(f, x)
<1>1. f \in Seq(S) /\ Len(f) = n
  BY SeqOf
<1>2. n + 1 \in Nat
  OBVIOUS
<1>3. g \in Seq(S) /\ Len(g) = n + 1
  BY <1>2, SeqOf
<1>4. /\ Append(f, x) \in Seq(S) /\ Len(Append(f, x)) = n + 1
      /\ \A i \in 1..n : Append(f, x)[i] = f[i]
      /\ Append(f, x)[n + 1] = x
  BY <1>1, AppendProperties
<1>5. \A i \in 1..n + 1 : i \in 1..n \/ i = n + 1
  OBVIOUS
<1> DEFINE a == Append(f, x)
<1> HIDE DEF a
<1>6. \A i \in 1..n + 1 : g[i] = a[i]
  BY Zenon, <1>4, <1>5 DEF a
<1>7. g = a
  BY Zenon, <1>3, <1>4, <1>6, SeqEqual DEF a
<1>8. QED
  BY <1>7 DEF a

\* A function without the first entry of another is the tail of the other.
LEMMA FunTail ==
    ASSUME NEW S, NEW n \in Nat, n > 0, NEW f \in [1..n -> S], NEW g \in [1..n - 1 -> S],
           \A k \in 1..n - 1 : g[k] = f[k + 1]
    PROVE  f # <<>> /\ g = Tail(f)
<1>1. f \in Seq(S) /\ Len(f) = n
  BY SeqOf
<1>2. n - 1 \in Nat
  OBVIOUS
<1>3. g \in Seq(S) /\ Len(g) = n - 1
  BY <1>2, SeqOf
<1>4. f # <<>>
  BY <1>1
<1>5. /\ Tail(f) \in Seq(S) /\ Len(Tail(f)) = n - 1
      /\ \A i \in 1..n - 1 : Tail(f)[i] = f[i + 1]
  BY <1>1, <1>4, HeadTailProperties
<1> DEFINE t == Tail(f)
<1> HIDE DEF t
<1>6. \A i \in 1..n - 1 : g[i] = t[i]
  BY Zenon, <1>5 DEF t
<1>7. g = t
  BY Zenon, <1>3, <1>5, <1>6, SeqEqual DEF t
<1>8. QED
  BY <1>4, <1>7 DEF t

\* The cookies of the buffers offered, and how many buffers have been offered.
Cookies == [k \in DOMAIN Offered |-> cookie[Offered[k]]]
Numbered == adds - (IF publishing["master"] = NONE THEN 0 ELSE 1)

\* The cookies stand for the entries of the avail ring one by one.
Mirrored ==
    /\ Cookies \in [1..Span(vq_available_idx, avail_idx) -> 0..MaxAdds]
    /\ \A k \in 1..Span(vq_available_idx, avail_idx) :
          Cookies[k] = cookie[Window(avail_ring, vq_available_idx, avail_idx)[k]]

\* They do whenever the types are right.
LEMMA CookiesAre == TypeOK => Mirrored
<1> SUFFICES ASSUME TypeOK PROVE Mirrored
  OBVIOUS
<1>1. /\ Offered = Window(avail_ring, vq_available_idx, avail_idx)
      /\ Offered \in [1..Span(vq_available_idx, avail_idx) -> Desc]
  BY Zenon, RingsAre
<1>2. cookie \in [Desc -> 0..MaxAdds]
  BY DEF TypeOK
<1>3. DOMAIN Offered = 1..Span(vq_available_idx, avail_idx)
  BY <1>1
<1>4. \A k \in 1..Span(vq_available_idx, avail_idx) : Offered[k] \in Desc
  BY <1>1
<1>5. Cookies = [k \in 1..Span(vq_available_idx, avail_idx) |-> cookie[Offered[k]]]
  BY <1>3 DEF Cookies
<1>6. \A k \in 1..Span(vq_available_idx, avail_idx) : cookie[Offered[k]] \in 0..MaxAdds
  BY <1>2, <1>4
<1>7. QED
  BY <1>1, <1>5, <1>6 DEF Mirrored

\* As long as the window on the avail ring and the cookies in it stay, the queue
\* does.
LEMMA CookiesStay ==
    ASSUME Mirrored, Mirrored',
           Span(vq_available_idx', avail_idx') = Span(vq_available_idx, avail_idx),
           \A k \in 1..Span(vq_available_idx, avail_idx) :
              cookie'[Window(avail_ring', vq_available_idx', avail_idx')[k]]
                = cookie[Window(avail_ring, vq_available_idx, avail_idx)[k]]
    PROVE  Cookies' = Cookies
<1> DEFINE n == Span(vq_available_idx, avail_idx)
<1>1. /\ Cookies \in [1..n -> 0..MaxAdds]
      /\ \A k \in 1..n :
            Cookies[k] = cookie[Window(avail_ring, vq_available_idx, avail_idx)[k]]
  BY Zenon DEF Mirrored
<1>2. /\ Cookies' \in [1..Span(vq_available_idx', avail_idx') -> 0..MaxAdds]
      /\ \A k \in 1..Span(vq_available_idx', avail_idx') :
            Cookies'[k] = cookie'[Window(avail_ring', vq_available_idx', avail_idx')[k]]
  BY Zenon DEF Mirrored
<1> HIDE DEF n
<1>3. Cookies' \in [1..n -> 0..MaxAdds] /\ \A k \in 1..n : Cookies'[k] = Cookies[k]
  BY Zenon, <1>1, <1>2 DEF n
<1> DEFINE q == Cookies
           r == Cookies'
<1>4. q \in [1..n -> 0..MaxAdds] /\ r \in [1..n -> 0..MaxAdds] /\ \A k \in 1..n : r[k] = q[k]
  BY Zenon, <1>1, <1>3
<1> HIDE DEF q, r
<1>5. r = [k \in 1..n |-> r[k]] /\ q = [k \in 1..n |-> q[k]]
  BY <1>4
<1>6. [k \in 1..n |-> r[k]] = [k \in 1..n |-> q[k]]
  BY <1>4
<1>7. QED
  BY Zenon, <1>5, <1>6 DEF q, r

\* The entries that are left when the slave has taken the first.
LEMMA TakesFirst ==
    ASSUME TypeOK, GetAvailable
    PROVE  /\ Span(vq_available_idx, avail_idx) > 0
           /\ Span(vq_available_idx', avail_idx) = Span(vq_available_idx, avail_idx) - 1
           /\ \A k \in 1..Span(vq_available_idx, avail_idx) - 1 :
                 Window(avail_ring, vq_available_idx', avail_idx)[k]
                   = Window(avail_ring, vq_available_idx, avail_idx)[k + 1]
<1> DEFINE n == Span(vq_available_idx, avail_idx)
           old == Window(avail_ring, vq_available_idx, avail_idx)
           new == Window(avail_ring, vq_available_idx', avail_idx)
<1>1. vq_available_idx # avail_idx /\ vq_available_idx' = (vq_available_idx + 1) % Wrap
  BY DEF GetAvailable
<1>2. avail_ring \in [Desc -> Desc] /\ vq_available_idx \in Idx /\ avail_idx \in Idx
  BY DEF TypeOK, Idx
<1>3. /\ vq_available_idx' \in Idx /\ n > 0 /\ Span(vq_available_idx', avail_idx) = n - 1
      /\ old[1] = avail_ring[Slot(vq_available_idx)]
      /\ \A k \in 1..n - 1 : new[k] = old[k + 1]
  BY <1>1, <1>2, WindowShrink
<1>4. QED
  BY <1>3

\* Publishing a buffer adds it to the queue, taking one available takes it from
\* the queue, and no other step changes it.
LEMMA AvailStep ==
    ASSUME VInv, TypeOK', Mirrored, Mirrored', [Next]_vars
    PROVE  [Avail!Put \/ Avail!Get]_<<Cookies, Numbered>>
<1>0. TypeOK /\ Located /\ Count /\ Written
  BY DEF VInv
<1>1. PICK w : Placed(w)
  BY <1>0 DEF Located
<1> DEFINE n == Span(vq_available_idx, avail_idx)
           old == Window(avail_ring, vq_available_idx, avail_idx)
           new == Window(avail_ring', vq_available_idx', avail_idx')
<1>2. /\ avail_ring \in [Desc -> Desc] /\ vq_available_idx \in Idx /\ avail_idx \in Idx
      /\ cookie \in [Desc -> 0..MaxAdds] /\ adds \in Int
  BY <1>0 DEF TypeOK, Idx
<1>3. /\ n \in Nat /\ \A k \in 1..n : old[k] \in At(w, "offered") /\ old[k] \in Desc
  BY <1>1 DEF Placed, Lists
<1>4. /\ Cookies \in [1..n -> 0..MaxAdds] /\ \A k \in 1..n : Cookies[k] = cookie[old[k]]
  BY Zenon DEF Mirrored
<1>5. /\ Cookies' \in [1..Span(vq_available_idx', avail_idx') -> 0..MaxAdds]
      /\ \A k \in 1..Span(vq_available_idx', avail_idx') : Cookies'[k] = cookie'[new[k]]
  BY Zenon DEF Mirrored
<1>6. ASSUME Span(vq_available_idx', avail_idx') = n,
             \A k \in 1..n : cookie'[new[k]] = cookie[old[k]]
      PROVE  Cookies' = Cookies
  BY Zenon, <1>6, CookiesStay
<1>7. /\ publishing["master"] = NONE => Numbered = adds
      /\ publishing["master"] # NONE => Numbered = adds - 1
      /\ publishing'["master"] = NONE => Numbered' = adds'
      /\ publishing'["master"] # NONE => Numbered' = adds' - 1
  <2>1. adds' \in Int
    BY DEF TypeOK
  <2>2. QED
    BY <1>2, <2>1 DEF Numbered
<1>8. NONE \notin Desc
  BY <1>0, Marks
<1> HIDE DEF n, old, new
<1>9. CASE AddBuffer
  <2> DEFINE head == vq_desc_head_idx
  <2>1. /\ publishing["master"] = NONE /\ vq_free_cnt > 0
        /\ cookie' = [cookie EXCEPT ![head] = adds + 1]
        /\ avail_ring' = [avail_ring EXCEPT ![Slot(avail_idx)] = head]
        /\ publishing' = [publishing EXCEPT !["master"] = head]
        /\ adds' = adds + 1 /\ avail_idx' = avail_idx /\ vq_available_idx' = vq_available_idx
    BY <1>9 DEF AddBuffer, slave
  <2>2. head \in At(w, "free") /\ head \in Desc
    <3>1. FreeChain(At(w, "free"), vq_desc_head_idx, vq_free_cnt, next)
      BY <1>1 DEF Placed
    <3>2. QED
      BY Zenon, <2>1, <3>1, ChainPop
  <2>3. publishing'["master"] = head
    BY Zenon, <1>0, <2>1, <2>2, Publishing
  <2>4. Numbered' = Numbered
    BY <1>2, <1>7, <1>8, <2>1, <2>2, <2>3
  <2>5. new = old
    <3>1. Slot(avail_idx) \in Desc
      BY <1>2, SlotFacts DEF Idx
    <3>2. \A s \in Desc : s # Slot(avail_idx) => avail_ring'[s] = avail_ring[s]
      BY <1>2, <2>1, <3>1
    <3>3. n < nentries
      BY <1>0, <2>1, CountFacts DEF Count, n
    <3>4. Window(avail_ring', vq_available_idx, avail_idx) = old
      BY Zenon, <1>2, <3>2, <3>3, WindowWrite DEF n, old
    <3>5. QED
      BY Zenon, <2>1, <3>4 DEF new
  <2>6. \A k \in 1..n : cookie'[new[k]] = cookie[old[k]]
    <3>1. \A d \in Desc : d # head => cookie'[d] = cookie[d]
      BY <1>2, <2>1
    <3>2. \A k \in 1..n : old[k] # head
      BY <1>3, <2>2, PlacesDiffer DEF At
    <3>3. QED
      BY Zenon, <1>3, <2>5, <3>1, <3>2
  <2>7. Span(vq_available_idx', avail_idx') = n
    BY Zenon, <2>1 DEF n
  <2>8. Cookies' = Cookies
    BY Zenon, <1>6, <2>6, <2>7
  <2>9. QED
    BY Zenon, <2>4, <2>8
<1>10. CASE UpdateAvail
  <2> DEFINE d == publishing["master"]
  <2>1. /\ publishing["master"] # NONE
        /\ avail_idx' = (avail_idx + 1) % Wrap
        /\ publishing' = [publishing EXCEPT !["master"] = NONE]
        /\ avail_ring' = avail_ring /\ cookie' = cookie
        /\ vq_available_idx' = vq_available_idx /\ adds' = adds
    BY <1>10 DEF UpdateAvail, slave, master
  <2>2. d \in Desc /\ One(d) = 1
    BY <1>0, <2>1, Marks
  <2>3. n + 1 < Wrap /\ n < nentries
    BY <1>0, <2>2, CountFacts DEF Count, n
  <2>4. /\ Span(vq_available_idx, avail_idx') = n + 1
        /\ \A k \in 1..n : Window(avail_ring, vq_available_idx, avail_idx')[k] = old[k]
        /\ Window(avail_ring, vq_available_idx, avail_idx')[n + 1] = avail_ring[Slot(avail_idx)]
    BY <1>2, <2>1, <2>3, WindowGrow DEF n, old
  <2>5. /\ Span(vq_available_idx', avail_idx') = n + 1
        /\ \A k \in 1..n : new[k] = old[k]
        /\ new[n + 1] = d
    BY Zenon, <1>0, <2>1, <2>4 DEF Written, new
  <2>6. publishing'["master"] = NONE
    BY Zenon, <1>0, <2>1, Publishing
  <2>7. Numbered' = Numbered + 1 /\ Numbered + 1 = adds
    BY <1>2, <1>7, <2>1, <2>6
  <2>8. \A k \in 1..n : k \in 1..n + 1
    BY <1>3
  <2>9. n + 1 \in 1..n + 1
    BY <1>3
  <2> DEFINE q == Cookies
             r == Cookies'
  <2>a. \A k \in 1..n + 1 : r[k] = cookie[new[k]]
    BY Zenon, <1>5, <2>1, <2>5
  <2>b. \A k \in 1..n : q[k] = cookie[old[k]]
    BY Zenon, <1>4
  <2>c. cookie[d] = adds
    BY Zenon, <1>0, <2>1 DEF Written
  <2>d. q \in [1..n -> 0..MaxAdds]
    BY Zenon, <1>4
  <2> HIDE DEF q, r, d
  <2>10. \A k \in 1..n : r[k] = q[k]
    BY <2>a, <2>b, <2>5, <2>8
  <2>11. r[n + 1] = adds
    BY Zenon, <2>a, <2>c, <2>5, <2>9
  <2>12. r \in [1..n + 1 -> 0..MaxAdds]
    BY Zenon, <1>5, <2>5 DEF r
  <2>13. adds \in 0..MaxAdds
    BY <1>0 DEF TypeOK
  <2>14. Cookies' = Append(Cookies, adds)
    <3>1. r = Append(q, adds)
      BY <1>3, <2>d, <2>10, <2>11, <2>12, <2>13, FunAppend
    <3>2. QED
      BY Zenon, <3>1 DEF q, r
  <2>15. Len(Cookies) < nentries
    <3>1. Len(Cookies) = n
      BY Zenon, <1>3, <1>4, SeqOf
    <3>2. QED
      BY Zenon, <2>3, <3>1
  <2>16. Avail!Put
    BY Zenon, <2>7, <2>14, <2>15 DEF Avail!Put, Cookies, Numbered
  <2>17. QED
    BY Zenon, <2>16
<1>11. CASE GetAvailable
  <2>1. /\ vq_available_idx # avail_idx
        /\ vq_available_idx' = (vq_available_idx + 1) % Wrap
        /\ avail_ring' = avail_ring /\ avail_idx' = avail_idx /\ cookie' = cookie
        /\ publishing' = publishing /\ adds' = adds
    BY <1>11 DEF GetAvailable, shared, master
  <2> DEFINE up == vq_available_idx'
  <2>2. /\ n > 0 /\ Span(up, avail_idx) = n - 1
        /\ \A k \in 1..n - 1 : Window(avail_ring, up, avail_idx)[k] = old[k + 1]
    BY Zenon, <1>0, <1>11, TakesFirst DEF n, old
  <2>3. /\ Span(vq_available_idx', avail_idx') = n - 1
        /\ \A k \in 1..n - 1 : new[k] = old[k + 1]
    BY Zenon, <2>1, <2>2 DEF new
  <2>4. \A k \in 1..n - 1 : k + 1 \in 1..n
    BY <1>3
  <2> DEFINE q == Cookies
             r == Cookies'
  <2>a. \A k \in 1..n - 1 : r[k] = cookie[new[k]]
    BY Zenon, <1>5, <2>1, <2>3
  <2>b. q \in [1..n -> 0..MaxAdds] /\ \A k \in 1..n : q[k] = cookie[old[k]]
    BY Zenon, <1>4
  <2>6. r \in [1..n - 1 -> 0..MaxAdds]
    BY Zenon, <1>5, <2>3
  <2> HIDE DEF q, r
  <2>5. \A k \in 1..n - 1 : r[k] = q[k + 1]
    BY <2>a, <2>b, <2>3, <2>4
  <2>7. Cookies # <<>> /\ Cookies' = Tail(Cookies)
    <3>1. q # <<>> /\ r = Tail(q)
      BY <1>3, <2>b, <2>2, <2>5, <2>6, FunTail
    <3>2. QED
      BY Zenon, <3>1 DEF q, r
  <2>8. Numbered' = Numbered
    BY Zenon, <2>1 DEF Numbered
  <2>9. Avail!Get
    BY Zenon, <2>7, <2>8 DEF Avail!Get, Cookies, Numbered
  <2>10. QED
    BY Zenon, <2>9
<1>12. CASE GetBuffer
  <2> DEFINE d == used_ring[Slot(vq_used_cons_idx)]
  <2>1. /\ vq_used_cons_idx # used_idx
        /\ cookie' = [cookie EXCEPT ![d] = 0]
        /\ avail_ring' = avail_ring /\ avail_idx' = avail_idx
        /\ vq_available_idx' = vq_available_idx
        /\ publishing' = publishing /\ adds' = adds
    BY <1>12 DEF GetBuffer, slave, shared
  <2>2. d \in At(w, "back")
    <3>1. used_ring \in [Desc -> Desc] /\ vq_used_cons_idx \in Idx /\ used_idx \in Idx
      BY <1>0 DEF TypeOK, Idx
    <3>2. /\ Span(vq_used_cons_idx, used_idx) > 0
          /\ Window(used_ring, vq_used_cons_idx, used_idx)[1] = d
      BY <2>1, <3>1, WindowShrink
    <3>3. Lists(Window(used_ring, vq_used_cons_idx, used_idx),
                Span(vq_used_cons_idx, used_idx), At(w, "back"))
      BY <1>1 DEF Placed
    <3>4. 1 \in 1..Span(vq_used_cons_idx, used_idx)
      BY <3>2, <3>3 DEF Lists
    <3>5. QED
      BY Zenon, <3>2, <3>3, <3>4 DEF Lists
  <2>3. \A k \in 1..n : old[k] # d
    BY <1>3, <2>2, PlacesDiffer DEF At
  <2>4. \A e \in Desc : e # d => cookie'[e] = cookie[e]
    BY <1>2, <2>1
  <2>5. new = old /\ Span(vq_available_idx', avail_idx') = n
    BY Zenon, <2>1 DEF new, old, n
  <2>6. \A k \in 1..n : cookie'[new[k]] = cookie[old[k]]
    BY Zenon, <1>3, <2>3, <2>4, <2>5
  <2>7. Cookies' = Cookies
    BY Zenon, <1>6, <2>5, <2>6
  <2>8. Numbered' = Numbered
    BY Zenon, <2>1 DEF Numbered
  <2>9. QED
    BY Zenon, <2>7, <2>8
<1>13. CASE UpdateUsed \/ (\E d \in Desc : AddConsumed(d)) \/ UNCHANGED vars
  <2>1. /\ avail_ring' = avail_ring /\ avail_idx' = avail_idx /\ cookie' = cookie
        /\ vq_available_idx' = vq_available_idx /\ adds' = adds
        /\ publishing'["master"] = publishing["master"]
    <3>1. CASE UpdateUsed
      <4>1. /\ avail_ring' = avail_ring /\ avail_idx' = avail_idx /\ cookie' = cookie
            /\ vq_available_idx' = vq_available_idx /\ adds' = adds
            /\ publishing' = [publishing EXCEPT !["slave"] = NONE]
        BY <3>1 DEF UpdateUsed, slave, master
      <4>2. QED
        BY Zenon, <1>0, <4>1, Publishing
    <3>2. CASE \E d \in Desc : AddConsumed(d)
      <4>1. PICK d \in Desc : AddConsumed(d)
        BY <3>2
      <4>2. /\ avail_ring' = avail_ring /\ avail_idx' = avail_idx /\ cookie' = cookie
            /\ vq_available_idx' = vq_available_idx /\ adds' = adds
            /\ publishing' = [publishing EXCEPT !["slave"] = d]
        BY <4>1 DEF AddConsumed, master
      <4>3. QED
        BY Zenon, <1>0, <4>2, Publishing
    <3>3. CASE UNCHANGED vars
      BY <3>3 DEF vars, shared, master, slave
    <3>4. QED
      BY Zenon, <1>13, <3>1, <3>2, <3>3
  <2>2. new = old /\ Span(vq_available_idx', avail_idx') = n
    BY Zenon, <2>1 DEF new, old, n
  <2>3. \A k \in 1..n : cookie'[new[k]] = cookie[old[k]]
    BY Zenon, <2>1, <2>2
  <2>4. Cookies' = Cookies
    BY Zenon, <1>6, <2>2, <2>3
  <2>5. Numbered' = Numbered
    BY Zenon, <2>1 DEF Numbered
  <2>6. QED
    BY Zenon, <2>4, <2>5
<1>14. QED
  BY Zenon, <1>9, <1>10, <1>11, <1>12, <1>13 DEF Next

\* The slave is given the buffers in the order in which they were added: the
\* avail ring, written in two steps and read in between, is a bounded queue.
THEOREM ImplementsAvail == Spec => AvailSpec
<1>1. Init => Avail!Init
  <2> SUFFICES ASSUME Init PROVE Cookies = <<>> /\ Numbered = 0
    BY DEF Avail!Init, Cookies, Numbered
  <2>1. publishing["master"] = NONE /\ adds = 0 /\ avail_idx = 0 /\ vq_available_idx = 0
    BY DEF Init
  <2>2. Numbered = 0
    BY <2>1 DEF Numbered
  <2>3. Span(0, 0) = 0
    BY IndexFacts DEF Idx
  <2>4. Mirrored
    BY VInit, CookiesAre DEF VInv
  <2>5. Cookies \in [1..0 -> 0..MaxAdds]
    BY Zenon, <2>1, <2>3, <2>4 DEF Mirrored
  <2>6. Cookies = <<>>
    BY <2>5
  <2>7. QED
    BY <2>2, <2>6
<1>2. VInv /\ TypeOK' /\ Mirrored /\ Mirrored' /\ [Next]_vars
        => [Avail!Put \/ Avail!Get]_<<Cookies, Numbered>>
  BY AvailStep
<1>3. VInv => TypeOK
  BY DEF VInv
<1>4. VInv => Mirrored
  BY CookiesAre DEF VInv
<1>5. QED
  BY <1>1, <1>2, <1>3, <1>4, VAlways, PTL DEF Spec, AvailSpec, Avail!Spec, Cookies, Numbered

=============================================================================
