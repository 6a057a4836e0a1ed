---------------------------- MODULE KfifoProofs -----------------------------
(***************************************************************************)
(* With one producer and one consumer the ring of a kfifo needs no lock:   *)
(* it is a bounded queue, for every size, every range of the free-running  *)
(* indices that the size divides, and every number of elements.            *)
(*                                                                         *)
(* The argument ties the indices to how often they were incremented, which *)
(* never wraps: in is stored modulo Wrap and out is taken modulo Wrap.     *)
(* The first lemmas are the arithmetic that makes this work.               *)
(***************************************************************************)
EXTENDS Kfifo, SequenceTheorems, TLAPS

-----------------------------------------------------------------------------
\* Arithmetic: what in - out, in + 1 and a masked index are when the indices
\* have wrapped.

\* Division with remainder.
LEMMA DivMod ==
  ASSUME NEW a \in Int, NEW b \in Nat \ {0}
  PROVE  /\ a \div b \in Int /\ a % b \in 0..b - 1
         /\ a = (b * (a \div b)) + (a % b)
  OBVIOUS

\* A positive multiple of b is at least b.
LEMMA MultipleAtLeast ==
  ASSUME NEW b \in Nat \ {0}, NEW d \in Int, d > 0
  PROVE  b * d >= b
  OBVIOUS

\* Quotient and remainder are determined.
LEMMA DivModUnique ==
  ASSUME NEW b \in Nat \ {0}, NEW q \in Int, NEW p \in Int,
         NEW k \in 0..b - 1, NEW m \in 0..b - 1,
         (b * q) + k = (b * p) + m
  PROVE  q = p /\ k = m
  <1>1. b * (q - p) = m - k
    OBVIOUS
  <1>2. CASE q > p
    <2>1. b * (q - p) >= b
      BY <1>2, MultipleAtLeast
    <2> QED BY <1>1, <2>1
  <1>3. CASE q < p
    <2>1. b * (p - q) >= b
      BY <1>3, MultipleAtLeast
    <2> QED BY <1>1, <2>1
  <1> QED BY <1>2, <1>3

\* A multiple of b does not change a remainder.
LEMMA ShiftMod ==
  ASSUME NEW b \in Nat \ {0}, NEW q \in Int, NEW x \in Int
  PROVE  ((b * q) + x) % b = x % b
  <1> DEFINE a == (b * q) + x
             d == a \div b
             m == a % b
             e == x \div b
             k == x % b
  <1>1. a \in Int
    OBVIOUS
  <1>2. /\ d \in Int /\ m \in 0..b - 1 /\ a = (b * d) + m
        /\ e \in Int /\ k \in 0..b - 1 /\ x = (b * e) + k
    <2> HIDE DEF a
    <2> QED BY <1>1, DivMod
  <1>3. a = (b * q) + x
    OBVIOUS
  <1> HIDE DEF a, d, m, e, k
  <1>4. (b * d) + m = (b * (q + e)) + k
    BY <1>2, <1>3
  <1>5. q + e \in Int
    BY <1>2
  <1>6. m = k
    BY <1>2, <1>4, <1>5, DivModUnique
  <1> QED BY <1>6 DEF a, m, k

\* A number in 0..b - 1 is its own remainder.
LEMMA SmallMod ==
  ASSUME NEW b \in Nat \ {0}, NEW x \in 0..b - 1
  PROVE  x % b = x
  OBVIOUS

\* Two numbers less than b apart that share their remainder are one number.
LEMMA ModInjective ==
  ASSUME NEW b \in Nat \ {0}, NEW i \in Int, NEW j \in Int,
         i - j < b, j - i < b, i % b = j % b
  PROVE  i = j
  <1> DEFINE d == i \div b
             e == j \div b
             k == i % b
  <1>1. /\ d \in Int /\ e \in Int /\ k \in 0..b - 1
        /\ i = (b * d) + k /\ j = (b * e) + k
    BY DivMod
  <1> HIDE DEF d, e, k
  <1>2. i - j = b * (d - e) /\ j - i = b * (e - d)
    BY <1>1
  <1>3. CASE d > e
    <2>1. b * (d - e) >= b
      BY <1>1, <1>3, MultipleAtLeast
    <2> QED BY <1>2, <2>1
  <1>4. CASE d < e
    <2>1. b * (e - d) >= b
      BY <1>1, <1>4, MultipleAtLeast
    <2> QED BY <1>2, <2>1
  <1> QED BY <1>1, <1>3, <1>4

\* Incrementing a wrapped index wraps the incremented count.
LEMMA NextIndex ==
  ASSUME NEW b \in Nat \ {0}, NEW a \in Int
  PROVE  ((a % b) + 1) % b = (a + 1) % b
  <1> DEFINE d == a \div b
             k == a % b
  <1>1. d \in Int /\ k \in Int /\ a = (b * d) + k
    BY DivMod
  <1> HIDE DEF d, k
  <1>2. a + 1 = (b * d) + (k + 1) /\ k + 1 \in Int
    BY <1>1
  <1>3. (a + 1) % b = (k + 1) % b
    BY <1>1, <1>2, ShiftMod
  <1> QED BY <1>3 DEF k

\* The difference of two wrapped indices, wrapped, is the difference of the
\* counts.
LEMMA IndexDifference ==
  ASSUME NEW b \in Nat \ {0}, NEW i \in Int, NEW j \in Int, i - j \in 0..b - 1
  PROVE  ((i % b) - (j % b)) % b = i - j
  <1> DEFINE d == i \div b
             k == i % b
             e == j \div b
             m == j % b
  <1>1. /\ d \in Int /\ k \in Int /\ i = (b * d) + k
        /\ e \in Int /\ m \in Int /\ j = (b * e) + m
    BY DivMod
  <1> HIDE DEF d, k, e, m
  <1>2. i - j = (b * (d - e)) + (k - m) /\ k - m \in Int /\ d - e \in Int
    BY <1>1
  <1>3. (i - j) % b = (k - m) % b
    BY <1>2, ShiftMod
  <1>4. (i - j) % b = i - j
    BY SmallMod
  <1> QED BY <1>3, <1>4 DEF k, m

\* Wrapping an index first does not change the slot it selects, because the
\* size divides the range.
LEMMA SlotOfIndex ==
  ASSUME NEW b \in Nat \ {0}, NEW c \in Nat \ {0}, c % b = 0,
         NEW a \in Int, NEW k \in Int
  PROVE  ((a % c) + k) % b = (a + k) % b
  <1> DEFINE d == a \div c
             m == a % c
             w == c \div b
  <1>1. d \in Int /\ m \in Int /\ a = (c * d) + m
    BY DivMod
  <1>2. w \in Int /\ c = b * w
    <2>1. c \in Int
      OBVIOUS
    <2>2. c = (b * (c \div b)) + (c % b) /\ c \div b \in Int
      BY <2>1, DivMod
    <2> QED BY <2>2
  <1> HIDE DEF d, m, w
  <1>3. w * d \in Int /\ m + k \in Int
    BY <1>1, <1>2
  <1>4. a + k = (b * (w * d)) + (m + k)
    <2>1. c * d = (b * w) * d
      BY <1>2
    <2>2. (b * w) * d = b * (w * d)
      BY <1>1, <1>2
    <2> DEFINE x == b * (w * d)
    <2>3. x \in Int /\ c * d = x
      BY <1>3, <2>1, <2>2
    <2> HIDE DEF x
    <2>4. a + k = x + (m + k)
      BY <1>1, <2>3
    <2> QED BY <2>4 DEF x
  <1>5. ((b * (w * d)) + (m + k)) % b = (m + k) % b
    <2> DEFINE q == w * d
               x == m + k
    <2>1. q \in Int /\ x \in Int
      BY <1>3
    <2> HIDE DEF q, x
    <2>2. ((b * q) + x) % b = x % b
      BY <2>1, ShiftMod
    <2> QED BY <2>2 DEF q, x
  <1> QED BY <1>4, <1>5 DEF m

-----------------------------------------------------------------------------
(***************************************************************************)
(* The inductive invariant.                                                *)
(***************************************************************************)

\* The use of a kfifo that needs no lock.
Single ==
    /\ \A p, q \in Producers : p = q
    /\ \A c, d \in Consumers : c = d

Types ==
    /\ data \in [0..Size - 1 -> 0..MaxPuts]
    /\ pc \in [Threads -> {"idle", "copy", "load", "store"}]
    /\ r \in [Threads -> 0..Wrap - 1]
    /\ val \in [Threads -> 0..MaxPuts]
    /\ started \in 0..MaxPuts /\ stored \in 0..MaxPuts /\ taken \in Nat

\* The indices are the counts of what was stored and taken, wrapped; never more
\* than Size elements are between them.
Indices ==
    /\ in = stored % Wrap /\ out = taken % Wrap
    /\ stored - taken \in 0..Size

\* A put that is under way has found room and keeps it; its element is in the
\* slot before in is incremented.
Putting(p) ==
    /\ pc[p] = "idle" => started = stored
    /\ pc[p] # "idle" =>
          started = stored + 1 /\ val[p] = stored + 1 /\ stored - taken < Size
    /\ pc[p] \in {"load", "store"} => data[Slot(stored)] = stored + 1
    /\ pc[p] = "store" => r[p] = in

\* A get that is under way has found an element, and it stays there until out is
\* incremented.
Getting(c) ==
    /\ pc[c] # "idle" => stored - taken > 0
    /\ pc[c] \in {"load", "store"} => val[c] = taken + 1
    /\ pc[c] = "store" => r[c] = out

\* Between out and in the elements are in the order of their numbers.
Filled == \A i \in taken..stored - 1 : data[Slot(i)] = i + 1

KInv ==
    /\ Types /\ Indices /\ Filled
    /\ \A p \in Producers : Putting(p)
    /\ \A c \in Consumers : Getting(c)

-----------------------------------------------------------------------------
\* A slot number.
LEMMA SlotRange ==
  ASSUME NEW i \in Int
  PROVE  Slot(i) \in 0..Size - 1
  BY KfifoAssumption, DivMod DEF Slot

\* What the code computes from the wrapped indices is what the counts say.
LEMMA IndexFacts ==
  ASSUME KInv
  PROVE  /\ Used = stored - taken
         /\ \A k \in Int : Slot(in + k) = Slot(stored + k)
         /\ \A k \in Int : Slot(out + k) = Slot(taken + k)
         /\ Slot(in) = Slot(stored) /\ Slot(out) = Slot(taken)
         /\ (in + 1) % Wrap = (stored + 1) % Wrap
         /\ (out + 1) % Wrap = (taken + 1) % Wrap
         /\ in \in 0..Wrap - 1 /\ out \in 0..Wrap - 1
  <1>1. /\ stored \in Int /\ taken \in Int /\ stored - taken \in 0..Wrap - 1
        /\ in = stored % Wrap /\ out = taken % Wrap
        /\ Wrap \in Nat \ {0} /\ Size \in Nat \ {0} /\ Wrap % Size = 0
    BY KfifoAssumption DEF KInv, Types, Indices
  <1>2. Used = stored - taken
    BY <1>1, IndexDifference DEF Used
  <1>3. \A k \in Int : Slot(in + k) = Slot(stored + k) /\ Slot(out + k) = Slot(taken + k)
    BY <1>1, SlotOfIndex DEF Slot
  <1>4. in \in 0..Wrap - 1 /\ out \in 0..Wrap - 1
    BY <1>1, DivMod
  <1>5. Slot(in) = Slot(stored) /\ Slot(out) = Slot(taken)
    <2>1. Slot(in + 0) = Slot(stored + 0) /\ Slot(out + 0) = Slot(taken + 0)
      BY <1>3
    <2>2. in + 0 = in /\ out + 0 = out /\ stored + 0 = stored /\ taken + 0 = taken
      BY <1>1, <1>4
    <2> QED BY <2>1, <2>2
  <1>6. (in + 1) % Wrap = (stored + 1) % Wrap /\ (out + 1) % Wrap = (taken + 1) % Wrap
    BY <1>1, NextIndex
  <1> QED BY <1>2, <1>3, <1>4, <1>5, <1>6

\* A queue that is empty satisfies the invariant.
LEMMA KInit == Init => KInv
  <1> SUFFICES ASSUME Init PROVE KInv
    OBVIOUS
  <1>1. 0 % Wrap = 0
    BY KfifoAssumption, SmallMod
  <1>2. Types
    BY KfifoAssumption DEF Init, Types
  <1>3. Indices
    BY KfifoAssumption, <1>1 DEF Init, Indices
  <1>4. Filled
    BY DEF Init, Filled
  <1>5. \A p \in Producers : Putting(p)
    BY DEF Init, Putting, Threads
  <1>6. \A c \in Consumers : Getting(c)
    BY DEF Init, Getting, Threads
  <1> QED BY <1>2, <1>3, <1>4, <1>5, <1>6 DEF KInv

\* The steps of a put preserve the invariant.
LEMMA PutStep ==
  ASSUME Single, KInv, NEW p \in Producers,
         PutCheck(p) \/ PutCopy(p) \/ PutLoad(p) \/ PutStore(p)
  PROVE  KInv'
  <1> USE DEF KInv
  <1>1. p \in Threads /\ p \notin Consumers /\ \A q \in Producers : q = p
    BY KfifoAssumption DEF Single, Threads
  <1>2. Used = stored - taken
    BY IndexFacts
  <1>3. CASE PutCheck(p)
    <2>1. Types'
      <3>1. started + 1 \in 0..MaxPuts
        BY <1>3, KfifoAssumption DEF PutCheck, Types
      <3>2. started' \in 0..MaxPuts /\ val' \in [Threads -> 0..MaxPuts]
        BY <1>1, <1>3, <3>1 DEF PutCheck, Types
      <3> QED BY <1>1, <1>3, <3>2 DEF PutCheck, Goto, Types
    <2>2. Indices' /\ Filled'
      BY <1>3 DEF PutCheck, Indices, Filled, Slot
    <2>3. Putting(p)'
      BY <1>1, <1>2, <1>3, KfifoAssumption DEF PutCheck, Goto, Putting, Types, Indices
    <2>4. ASSUME NEW c \in Consumers PROVE Getting(c)'
      BY <1>1, <1>3 DEF PutCheck, Goto, Getting, Types, Threads
    <2> QED BY <1>1, <2>1, <2>2, <2>3, <2>4
  <1>4. CASE PutCopy(p)
    <2>1. val[p] = stored + 1 /\ stored - taken < Size /\ pc[p] = "copy"
      BY <1>4 DEF PutCopy, Putting
    <2>2. data' = [data EXCEPT ![Slot(stored)] = stored + 1]
      BY <1>4, <2>1, IndexFacts DEF PutCopy
    <2>3. Slot(stored) \in 0..Size - 1
      BY SlotRange DEF Types
    <2>4. Types'
      BY <1>1, <1>4, <2>2, <2>1, <2>3 DEF PutCopy, Goto, Types
    <2>5. Indices'
      BY <1>4 DEF PutCopy, Indices
    <2>6. Filled'
      <3> SUFFICES ASSUME NEW i \in taken..stored - 1
                   PROVE  data'[Slot(i)] = i + 1
        BY <1>4 DEF PutCopy, Filled, Slot
      <3>1. i \in Int /\ stored \in Int /\ taken \in Int /\ i - stored < Size /\ stored - i < Size
            /\ i # stored
        BY <2>1, KfifoAssumption DEF Types
      <3>2. Slot(i) # Slot(stored)
        BY <3>1, KfifoAssumption, ModInjective DEF Slot
      <3>3. Slot(i) \in 0..Size - 1
        BY <3>1, SlotRange
      <3>4. data'[Slot(i)] = data[Slot(i)]
        BY <2>2, <2>3, <3>2, <3>3 DEF Types
      <3> QED BY <3>4 DEF Filled
    <2>7. Putting(p)'
      <3>1. data'[Slot(stored)] = stored + 1
        BY <2>2, <2>3 DEF Types
      <3> QED BY <1>1, <1>4, <3>1 DEF PutCopy, Goto, Putting, Types, Slot
    <2>8. ASSUME NEW c \in Consumers PROVE Getting(c)'
      BY <1>1, <1>4 DEF PutCopy, Goto, Getting, Types, Threads
    <2> QED BY <1>1, <2>4, <2>5, <2>6, <2>7, <2>8
  <1>5. CASE PutLoad(p)
    <2>1. Types'
      BY <1>1, <1>5, IndexFacts DEF PutLoad, Goto, Types
    <2>2. Indices' /\ Filled'
      BY <1>5 DEF PutLoad, Indices, Filled, Slot
    <2>3. Putting(p)'
      BY <1>1, <1>5 DEF PutLoad, Goto, Putting, Types, Slot
    <2>4. ASSUME NEW c \in Consumers PROVE Getting(c)'
      BY <1>1, <1>5 DEF PutLoad, Goto, Getting, Types, Threads
    <2> QED BY <1>1, <2>1, <2>2, <2>3, <2>4
  <1>6. CASE PutStore(p)
    <2>1. /\ started = stored + 1 /\ stored - taken < Size
          /\ data[Slot(stored)] = stored + 1 /\ r[p] = in
      BY <1>6 DEF PutStore, Putting
    <2>2. in' = (stored + 1) % Wrap /\ stored' = stored + 1
      BY <1>6, <2>1, IndexFacts DEF PutStore
    <2>3. Types'
      BY <1>1, <1>6, <2>1 DEF PutStore, Goto, Types
    <2>4. Indices'
      <3>1. in' = stored' % Wrap /\ out' = taken' % Wrap
        BY <1>6, <2>2 DEF PutStore, Indices
      <3>2. stored' - taken' \in 0..Size
        BY <1>6, <2>1, KfifoAssumption DEF PutStore, Indices, Types
      <3> QED BY <3>1, <3>2 DEF Indices
    <2>5. Filled'
      BY <1>6, <2>1, <2>2 DEF PutStore, Filled, Slot, Types
    <2>6. Putting(p)'
      BY <1>1, <1>6, <2>1 DEF PutStore, Goto, Putting, Types
    <2>7. ASSUME NEW c \in Consumers PROVE Getting(c)'
      BY <1>1, <1>6 DEF PutStore, Goto, Getting, Types, Threads
    <2> QED BY <1>1, <2>3, <2>4, <2>5, <2>6, <2>7
  <1> QED BY <1>3, <1>4, <1>5, <1>6

\* The steps of a get preserve the invariant.
LEMMA GetStep ==
  ASSUME Single, KInv, NEW c \in Consumers,
         GetCheck(c) \/ GetCopy(c) \/ GetLoad(c) \/ GetStore(c)
  PROVE  KInv'
  <1> USE DEF KInv
  <1>1. c \in Threads /\ c \notin Producers /\ \A d \in Consumers : d = c
    BY KfifoAssumption DEF Single, Threads
  <1>2. Used = stored - taken
    BY IndexFacts
  <1>3. CASE GetCheck(c)
    <2>1. Types'
      BY <1>1, <1>3 DEF GetCheck, Goto, Types
    <2>2. Indices' /\ Filled'
      BY <1>3 DEF GetCheck, Indices, Filled, Slot
    <2>3. Getting(c)'
      BY <1>1, <1>2, <1>3 DEF GetCheck, Goto, Getting, Types
    <2>4. ASSUME NEW p \in Producers PROVE Putting(p)'
      BY <1>1, <1>3 DEF GetCheck, Goto, Putting, Types, Threads, Slot
    <2> QED BY <1>1, <2>1, <2>2, <2>3, <2>4
  <1>4. CASE GetCopy(c)
    <2>1. stored - taken > 0
      BY <1>4 DEF GetCopy, Getting
    <2>2. data[Slot(out)] = taken + 1
      <3>1. taken \in taken..stored - 1
        BY <2>1, KfifoAssumption DEF Types
      <3>2. Slot(out) = Slot(taken)
        BY IndexFacts
      <3> QED BY <3>1, <3>2 DEF Filled
    <2>3. Types'
      <3>1. taken + 1 \in 0..MaxPuts
        BY <2>1, KfifoAssumption DEF Types
      <3>2. val' \in [Threads -> 0..MaxPuts]
        BY <1>1, <1>4, <2>2, <3>1 DEF GetCopy, Types
      <3> QED BY <1>1, <1>4, <3>2 DEF GetCopy, Goto, Types
    <2>4. Indices' /\ Filled'
      BY <1>4 DEF GetCopy, Indices, Filled, Slot
    <2>5. Getting(c)'
      BY <1>1, <1>4, <2>1, <2>2 DEF GetCopy, Goto, Getting, Types
    <2>6. ASSUME NEW p \in Producers PROVE Putting(p)'
      BY <1>1, <1>4 DEF GetCopy, Goto, Putting, Types, Threads, Slot
    <2> QED BY <1>1, <2>3, <2>4, <2>5, <2>6
  <1>5. CASE GetLoad(c)
    <2>1. Types'
      BY <1>1, <1>5, IndexFacts DEF GetLoad, Goto, Types
    <2>2. Indices' /\ Filled'
      BY <1>5 DEF GetLoad, Indices, Filled, Slot
    <2>3. Getting(c)'
      BY <1>1, <1>5 DEF GetLoad, Goto, Getting, Types
    <2>4. ASSUME NEW p \in Producers PROVE Putting(p)'
      BY <1>1, <1>5 DEF GetLoad, Goto, Putting, Types, Threads, Slot
    <2> QED BY <1>1, <2>1, <2>2, <2>3, <2>4
  <1>6. CASE GetStore(c)
    <2>1. stored - taken > 0 /\ r[c] = out
      BY <1>6 DEF GetStore, Getting
    <2>2. out' = (taken + 1) % Wrap /\ taken' = taken + 1
      BY <1>6, <2>1, IndexFacts DEF GetStore
    <2>3. Types'
      BY <1>1, <1>6 DEF GetStore, Goto, Types
    <2>4. Indices'
      <3>1. in' = stored' % Wrap /\ out' = taken' % Wrap
        BY <1>6, <2>2 DEF GetStore, Indices
      <3>2. stored' - taken' \in 0..Size
        BY <1>6, <2>1, KfifoAssumption DEF GetStore, Indices, Types
      <3> QED BY <3>1, <3>2 DEF Indices
    <2>5. Filled'
      BY <1>6, <2>2 DEF GetStore, Filled, Slot, Types
    <2>6. Getting(c)'
      BY <1>1, <1>6 DEF GetStore, Goto, Getting, Types
    <2>7. ASSUME NEW p \in Producers PROVE Putting(p)'
      BY <1>1, <1>6, KfifoAssumption DEF GetStore, Goto, Putting, Types, Threads, Slot
    <2> QED BY <1>1, <2>3, <2>4, <2>5, <2>6, <2>7
  <1> QED BY <1>3, <1>4, <1>5, <1>6

\* Every step of the ring preserves the invariant.
LEMMA KStep ==
  ASSUME Single, KInv, [Next]_vars
  PROVE  KInv'
  <1>1. CASE Next
    BY <1>1, PutStep, GetStep DEF Next
  <1>2. CASE UNCHANGED vars
    BY <1>2 DEF vars, KInv, Types, Indices, Filled, Putting, Getting, Slot
  <1> QED BY <1>1, <1>2

\* The invariant holds throughout when there is one producer and one consumer.
LEMMA KAlways == Single => (Spec => []KInv)
  <1> SUFFICES ASSUME Single PROVE Spec => []KInv
    OBVIOUS
  <1>1. Init => KInv
    BY KInit
  <1>2. KInv /\ [Next]_vars => KInv'
    BY KStep
  <1> QED BY <1>1, <1>2, PTL DEF Spec

-----------------------------------------------------------------------------
\* The indices stay in their range, the ring never holds more elements than it
\* has slots and each variable keeps its type.
THEOREM RingTypes == Single => (Spec => []TypeOK)
  <1>1. KInv => TypeOK
    <2> SUFFICES ASSUME KInv PROVE TypeOK
      OBVIOUS
    <2>1. Used <= Size /\ in \in 0..Wrap - 1 /\ out \in 0..Wrap - 1
      BY IndexFacts DEF KInv, Indices
    <2> QED BY <2>1 DEF KInv, Types, TypeOK
  <1> QED BY <1>1, KAlways, PTL

\* kfifo_get() delivers the elements in the order in which they were put, each
\* once, however often the indices wrap.
THEOREM RingInOrder == Single => (Spec => []DeliveredInOrder)
  <1>1. KInv => DeliveredInOrder
    BY DEF KInv, Getting, DeliveredInOrder
  <1> QED BY <1>1, KAlways, PTL

-----------------------------------------------------------------------------
(***************************************************************************)
(* The ring implements the bounded queue.                                  *)
(***************************************************************************)

\* The elements with the numbers m + 1 to k, in this order.
Window(m, k) == [i \in 1..k - m |-> m + i]

\* The elements between out and in are those stored and not yet taken.
Holding == Contents = Window(taken, stored)

\* The invariant says what the ring holds.
LEMMA ContentsAre ==
  ASSUME KInv
  PROVE  Holding
  <1>1. Used = stored - taken /\ stored \in Int /\ taken \in Int
    BY IndexFacts DEF KInv, Types
  <1>2. ASSUME NEW k \in 1..stored - taken
        PROVE  data[Slot(out + k - 1)] = taken + k
    <2>1. k - 1 \in Int /\ taken + (k - 1) \in taken..stored - 1 /\ taken + (k - 1) + 1 = taken + k
      BY <1>1
    <2>2. Slot(out + (k - 1)) = Slot(taken + (k - 1))
      BY <2>1, IndexFacts
    <2>3. out + k - 1 = out + (k - 1)
      BY <1>1, IndexFacts
    <2>4. data[Slot(taken + (k - 1))] = taken + (k - 1) + 1
      BY <2>1 DEF KInv, Filled
    <2> QED BY <2>1, <2>2, <2>3, <2>4
  <1> QED BY <1>1, <1>2 DEF Contents, Window, Holding

\* Adding the next element at the end of a window.
LEMMA WindowAppend ==
  ASSUME NEW m \in Nat, NEW k \in Nat, m <= k
  PROVE  Append(Window(m, k), k + 1) = Window(m, k + 1)
  BY DEF Window

\* Taking the first element of a window.
LEMMA WindowTail ==
  ASSUME NEW m \in Nat, NEW k \in Nat, m < k
  PROVE  Window(m, k) # <<>> /\ Tail(Window(m, k)) = Window(m + 1, k)
  <1> DEFINE w == Window(m, k)
  <1>1. k - m \in Nat /\ k - m > 0 /\ m + 1 \in Nat /\ k - (m + 1) = (k - m) - 1
    OBVIOUS
  <1>2. w \in Seq(Nat) /\ Len(w) = k - m /\ \A i \in 1..k - m : w[i] = m + i
    BY <1>1 DEF Window
  <1>3. w # <<>>
    BY <1>1, <1>2
  <1> HIDE DEF w
  <1>4. /\ Tail(w) \in Seq(Nat) /\ Len(Tail(w)) = (k - m) - 1
        /\ \A i \in 1..(k - m) - 1 : Tail(w)[i] = w[i + 1]
    BY <1>2, <1>3, HeadTailProperties
  <1>5. ASSUME NEW i \in 1..(k - m) - 1 PROVE w[i + 1] = (m + 1) + i
    BY <1>1, <1>2
  <1>6. Tail(w) = [i \in 1..(k - m) - 1 |-> (m + 1) + i]
    <2> DEFINE g == [i \in 1..(k - m) - 1 |-> (m + 1) + i]
    <2>1. g \in Seq(Nat) /\ Len(g) = (k - m) - 1
      BY <1>1
    <2>2. \A i \in 1..(k - m) - 1 : Tail(w)[i] = g[i]
      BY <1>4, <1>5
    <2> HIDE DEF g
    <2>3. Tail(w) = g
      BY <1>4, <2>1, <2>2, SeqEqual
    <2> QED BY <2>3 DEF g
  <1>7. Tail(w) = Window(m + 1, k)
    BY <1>1, <1>6 DEF Window
  <1> QED BY <1>3, <1>7 DEF w

\* The last step of a put adds an element to the queue, the last step of a get
\* takes one, and no other step changes it.
LEMMA FifoStep ==
  ASSUME KInv, Holding, Holding', [Next]_vars
  PROVE  [Fifo!Put \/ Fifo!Get]_<<Contents, stored>>
  <1>1. /\ stored \in Nat /\ taken \in Nat /\ Size \in Nat /\ taken <= stored
        /\ stored - taken <= Size
    BY KfifoAssumption DEF KInv, Types, Indices
  <1>2. Contents = Window(taken, stored) /\ Contents' = Window(taken', stored')
    BY DEF Holding, Window
  <1>3. Contents \in Seq(Nat) /\ Len(Contents) = stored - taken
    BY <1>1, <1>2 DEF Window
  <1>4. CASE \E p \in Producers : PutStore(p)
    <2>1. PICK p \in Producers : PutStore(p)
      BY <1>4
    <2>2. stored' = stored + 1 /\ taken' = taken
      BY <2>1 DEF PutStore
    <2>3. stored - taken < Size
      BY <2>1 DEF KInv, Putting, PutStore
    <2>4. Contents' = Append(Contents, stored + 1)
      BY <1>1, <1>2, <2>2, WindowAppend
    <2>5. Fifo!Put
      BY <1>3, <2>2, <2>3, <2>4 DEF Fifo!Put
    <2> QED BY <2>5
  <1>5. CASE \E c \in Consumers : GetStore(c)
    <2>1. PICK c \in Consumers : GetStore(c)
      BY <1>5
    <2>2. stored' = stored /\ taken' = taken + 1
      BY <2>1 DEF GetStore
    <2>3. taken < stored
      BY <1>1, <2>1 DEF KInv, Getting, GetStore
    <2>4. Contents # <<>> /\ Contents' = Tail(Contents)
      BY <1>1, <1>2, <2>2, <2>3, WindowTail
    <2>5. Fifo!Get
      BY <2>2, <2>4 DEF Fifo!Get
    <2> QED BY <2>5
  <1>6. CASE UNCHANGED <<stored, taken>>
    BY <1>2, <1>6
  <1>7. \/ \E p \in Producers : PutStore(p)
        \/ \E c \in Consumers : GetStore(c)
        \/ UNCHANGED <<stored, taken>>
    BY DEF Next, vars, PutCheck, PutCopy, PutLoad, GetCheck, GetCopy, GetLoad
  <1> QED BY <1>4, <1>5, <1>6, <1>7

\* With one producer and one consumer the ring is the bounded queue that the
\* driver takes it for: puts and gets take effect one at a time, in one step each.
THEOREM ImplementsFifo == Single => (Spec => FifoSpec)
  <1> SUFFICES ASSUME Single PROVE Spec => FifoSpec
    OBVIOUS
  <1>1. Init => Fifo!Init
    <2> SUFFICES ASSUME Init PROVE Contents = <<>> /\ stored = 0
      BY DEF Fifo!Init
    <2>1. Contents = Window(taken, stored)
      BY KInit, ContentsAre DEF Holding
    <2> QED BY <2>1 DEF Init, Window
  <1>2. KInv /\ Holding /\ Holding' /\ [Next]_vars
          => [Fifo!Put \/ Fifo!Get]_<<Contents, stored>>
    BY FifoStep
  <1>3. KInv => Holding
    BY ContentsAre
  <1>4. Spec => []KInv
    BY KAlways
  <1> QED BY <1>1, <1>2, <1>3, <1>4, PTL DEF Spec, FifoSpec, Fifo!Spec

=============================================================================
