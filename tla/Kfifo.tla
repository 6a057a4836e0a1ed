------------------------------- MODULE Kfifo --------------------------------
(***************************************************************************)
(* The ring behind a kfifo (lib/kfifo.c, __kfifo_in() and __kfifo_out() of *)
(* one element; kfifo_put() and kfifo_get(), macros of a header that is    *)
(* not part of the repository, do the same).                               *)
(*                                                                         *)
(* in and out are free-running unsigned integers; an index is masked when  *)
(* a slot is accessed.  There is no lock: one producer and one consumer    *)
(* need none, but in the driver every thread that sends is a producer of   *)
(* fifo_send_types and of fifo_unique_ids.                                 *)
(***************************************************************************)
EXTENDS Integers, Sequences

CONSTANTS
    Producers, Consumers,
    Size,      \* mask + 1, a power of two
    Wrap,      \* 2^32, the range of in and out
    MaxPuts    \* bound: elements added in one behaviour

ASSUME KfifoAssumption ==
    /\ Size \in Nat \ {0} /\ Wrap \in Nat /\ Wrap > Size /\ Wrap % Size = 0
    /\ MaxPuts \in Nat /\ Producers \cap Consumers = {}

VARIABLES
    in, out, data,
    pc,       \* per thread: next step of kfifo_put() or kfifo_get()
    r,        \* per thread: the index it loaded in order to increment it
    val,      \* per thread: the element it puts or has got
    started,  \* elements handed to kfifo_put() that found room
    stored,   \* how often in has been incremented
    taken     \* how often out has been incremented

vars == <<in, out, data, pc, r, val, started, stored, taken>>

Threads == Producers \cup Consumers
Used == (in - out) % Wrap
Slot(i) == i % Size

TypeOK ==
    /\ in \in 0..Wrap - 1 /\ out \in 0..Wrap - 1 /\ Used <= Size
    /\ data \in [0..Size - 1 -> 0..MaxPuts]
    /\ pc \in [Threads -> {"idle", "copy", "load", "store"}]
    /\ r \in [Threads -> 0..Wrap - 1]
    /\ val \in [Threads -> 0..MaxPuts]
    /\ started \in 0..MaxPuts /\ stored \in 0..MaxPuts /\ taken \in Nat

Init ==
    /\ in = 0 /\ out = 0 /\ data = [i \in 0..Size - 1 |-> 0]
    /\ pc = [t \in Threads |-> "idle"] /\ r = [t \in Threads |-> 0]
    /\ val = [t \in Threads |-> 0]
    /\ started = 0 /\ stored = 0 /\ taken = 0

Goto(t, l) == pc' = [pc EXCEPT ![t] = l]

-----------------------------------------------------------------------------
\* A put: is there room; copy the element; increment in.

\* Mutant: one element too many finds room.
PutCheckOff(p) ==
    /\ pc[p] = "idle" /\ started < MaxPuts
    /\ Used <= Size
    /\ started' = started + 1 /\ val' = [val EXCEPT ![p] = started + 1]
    /\ Goto(p, "copy")
    /\ UNCHANGED <<in, out, data, r, stored, taken>>
PutCheck(p) ==
    /\ pc[p] = "idle" /\ started < MaxPuts
    /\ Size - Used > 0                          \* kfifo_unused(), else return 0
    /\ started' = started + 1 /\ val' = [val EXCEPT ![p] = started + 1]
    /\ Goto(p, "copy")
    /\ UNCHANGED <<in, out, data, r, stored, taken>>

\* Mutant: the element goes into the slot after the one that in points to.
PutCopyNext(p) ==
    /\ pc[p] = "copy"
    /\ data' = [data EXCEPT ![Slot(in + 1)] = val[p]]
    /\ Goto(p, "load")
    /\ UNCHANGED <<in, out, r, val, started, stored, taken>>
PutCopy(p) ==
    /\ pc[p] = "copy"
    /\ data' = [data EXCEPT ![Slot(in)] = val[p]]
    /\ Goto(p, "load")
    /\ UNCHANGED <<in, out, r, val, started, stored, taken>>

PutLoad(p) ==
    /\ pc[p] = "load"
    /\ r' = [r EXCEPT ![p] = in]
    /\ Goto(p, "store")
    /\ UNCHANGED <<in, out, data, val, started, stored, taken>>

PutStore(p) ==
    /\ pc[p] = "store"
    /\ in' = (r[p] + 1) % Wrap
    /\ stored' = stored + 1
    /\ Goto(p, "idle")
    /\ UNCHANGED <<out, data, r, val, started, taken>>

-----------------------------------------------------------------------------
\* A get: is there an element; copy it; increment out.

GetCheck(c) ==
    /\ pc[c] = "idle"
    /\ Used > 0
    /\ Goto(c, "copy")
    /\ UNCHANGED <<in, out, data, r, val, started, stored, taken>>

\* Mutant: the newest element is taken.
GetCopyNewest(c) ==
    /\ pc[c] = "copy"
    /\ val' = [val EXCEPT ![c] = data[Slot(in + Wrap - 1)]]
    /\ Goto(c, "load")
    /\ UNCHANGED <<in, out, data, r, started, stored, taken>>
GetCopy(c) ==
    /\ pc[c] = "copy"
    /\ val' = [val EXCEPT ![c] = data[Slot(out)]]
    /\ Goto(c, "load")
    /\ UNCHANGED <<in, out, data, r, started, stored, taken>>

GetLoad(c) ==
    /\ pc[c] = "load"
    /\ r' = [r EXCEPT ![c] = out]
    /\ Goto(c, "store")
    /\ UNCHANGED <<in, out, data, val, started, stored, taken>>

GetStore(c) ==
    /\ pc[c] = "store"
    /\ out' = (r[c] + 1) % Wrap
    /\ taken' = taken + 1
    /\ Goto(c, "idle")
    /\ UNCHANGED <<in, data, r, val, started, stored>>

Next ==
    \/ \E p \in Producers : PutCheck(p) \/ PutCopy(p) \/ PutLoad(p) \/ PutStore(p)
    \/ \E c \in Consumers : GetCheck(c) \/ GetCopy(c) \/ GetLoad(c) \/ GetStore(c)

Spec == Init /\ [][Next]_vars

-----------------------------------------------------------------------------
\* The elements between out and in.
Contents == [k \in 1..Used |-> data[Slot(out + k - 1)]]

\* "make sure that the data in the fifo is up to date before incrementing the
\* fifo->in index counter": every slot between out and in holds an element that
\* has not been taken yet, across the wrap of the indices too.
UpToDate == \A k \in 1..Used : Contents[k] > taken

\* kfifo_get() delivers the elements in the order in which they were put, each
\* once.
DeliveredInOrder == \A c \in Consumers : pc[c] \in {"load", "store"} => val[c] = taken + 1

\* With one producer and one consumer the ring is a bounded queue: the one
\* EcuDriver assumes.
Fifo == INSTANCE BoundedFifo WITH q <- Contents, n <- stored
FifoSpec == Fifo!Spec

=============================================================================
