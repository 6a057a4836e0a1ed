----------------------------- MODULE Virtqueue ------------------------------
(***************************************************************************)
(* One virtqueue of OpenAMP (virtqueue.c): the descriptor table with its   *)
(* chain of free descriptors, the avail ring that the master writes and    *)
(* the used ring that the slave writes.  In this system Linux is the       *)
(* master of both rings and the firmware the slave.                        *)
(*                                                                         *)
(* The indices run freely through 16 bits and are masked when a ring is    *)
(* accessed.  Each side writes a slot first and its index afterwards; the  *)
(* other side runs in between.  rpmsg uses one descriptor for a buffer, so *)
(* a chain of descriptors in use has length one.                           *)
(***************************************************************************)
EXTENDS Integers, Sequences, FiniteSets

CONSTANTS
    nentries,  \* vq_nentries, a power of two (checked by virtqueue_create())
    Wrap,      \* 2^16
    MaxAdds    \* bound: buffers added in one behaviour

ASSUME VirtqueueAssumption ==
    /\ nentries \in Nat \ {0} /\ Wrap \in Nat /\ Wrap > nentries
    /\ Wrap % nentries = 0 /\ MaxAdds \in Nat

Desc == 0..nentries - 1
CHAIN_END == nentries           \* VQ_RING_DESC_CHAIN_END
Slot(i) == i % nentries         \* i & (vq_nentries - 1)

VARIABLES
    \* shared memory
    avail_ring, avail_idx, used_ring, used_idx,
    \* the master's control block; only the master uses desc.next
    next, cookie, vq_desc_head_idx, vq_free_cnt, vq_used_cons_idx,
    \* the slave's
    vq_available_idx,
    held,        \* the descriptors the slave is working on
    publishing,  \* per side: the descriptor whose slot is written, index not yet
    adds         \* buffers added so far; the cookie of a buffer is its number

shared == <<avail_ring, avail_idx, used_ring, used_idx>>
master == <<next, cookie, vq_desc_head_idx, vq_free_cnt, vq_used_cons_idx>>
slave  == <<vq_available_idx, held>>
vars   == <<shared, master, slave, publishing, adds>>

NONE == -1

TypeOK ==
    /\ avail_ring \in [Desc -> Desc] /\ used_ring \in [Desc -> Desc]
    /\ avail_idx \in 0..Wrap - 1 /\ used_idx \in 0..Wrap - 1
    /\ next \in [Desc -> Desc \cup {CHAIN_END}]
    /\ cookie \in [Desc -> 0..MaxAdds]
    /\ vq_desc_head_idx \in Desc \cup {CHAIN_END}
    /\ vq_free_cnt \in 0..nentries
    /\ vq_used_cons_idx \in 0..Wrap - 1 /\ vq_available_idx \in 0..Wrap - 1
    /\ held \subseteq Desc
    /\ publishing \in [{"master", "slave"} -> Desc \cup {NONE}]
    /\ adds \in 0..MaxAdds

\* virtqueue_create(), vq_ring_init().
Init ==
    /\ avail_ring = [i \in Desc |-> 0] /\ used_ring = [i \in Desc |-> 0]
    /\ avail_idx = 0 /\ used_idx = 0
    /\ next = [i \in Desc |-> i + 1] /\ cookie = [i \in Desc |-> 0]
    /\ vq_desc_head_idx = 0 /\ vq_free_cnt = nentries
    /\ vq_used_cons_idx = 0 /\ vq_available_idx = 0
    /\ held = {} /\ publishing = [s \in {"master", "slave"} |-> NONE]
    /\ adds = 0

-----------------------------------------------------------------------------
\* The master.

\* virtqueue_add_buffer(): the first free descriptor takes the buffer and its
\* number goes into the avail ring ...
\* Mutant: the free descriptors are not counted down.
AddBufferUncounted ==
    /\ publishing["master"] = NONE /\ adds < MaxAdds
    /\ vq_free_cnt > 0
    /\ LET head == vq_desc_head_idx IN
          /\ cookie' = [cookie EXCEPT ![head] = adds + 1]
          /\ vq_desc_head_idx' = next[head]
          /\ avail_ring' = [avail_ring EXCEPT ![Slot(avail_idx)] = head]
          /\ publishing' = [publishing EXCEPT !["master"] = head]
    /\ adds' = adds + 1
    /\ UNCHANGED <<avail_idx, used_ring, used_idx, next, vq_free_cnt, vq_used_cons_idx,
                   slave>>
AddBuffer ==
    /\ publishing["master"] = NONE /\ adds < MaxAdds
    /\ vq_free_cnt > 0                                  \* ERROR_VRING_FULL
    /\ LET head == vq_desc_head_idx IN
          /\ cookie' = [cookie EXCEPT ![head] = adds + 1]
          /\ vq_desc_head_idx' = next[head]             \* vq_ring_add_buffer()
          /\ avail_ring' = [avail_ring EXCEPT ![Slot(avail_idx)] = head]
          /\ publishing' = [publishing EXCEPT !["master"] = head]
    /\ vq_free_cnt' = vq_free_cnt - 1
    /\ adds' = adds + 1
    /\ UNCHANGED <<avail_idx, used_ring, used_idx, next, vq_used_cons_idx,
                   slave>>

\* ... and the slave may see it: end of vq_ring_update_avail().
UpdateAvail ==
    /\ publishing["master"] # NONE
    /\ avail_idx' = (avail_idx + 1) % Wrap
    /\ publishing' = [publishing EXCEPT !["master"] = NONE]
    /\ UNCHANGED <<avail_ring, used_ring, used_idx, master, slave, adds>>

\* vq_ring_free_chain(): the descriptor becomes the first free one.
\* Mutant: the free descriptors behind it are forgotten.
vq_ring_free_cut(d) ==
    /\ vq_free_cnt' = vq_free_cnt + 1
    /\ next' = [next EXCEPT ![d] = CHAIN_END]
    /\ vq_desc_head_idx' = d
\* Mutant: the descriptor is counted twice.
vq_ring_free_double(d) ==
    /\ vq_free_cnt' = vq_free_cnt + 2
    /\ next' = [next EXCEPT ![d] = vq_desc_head_idx]
    /\ vq_desc_head_idx' = d
vq_ring_free_chain(d) ==
    /\ vq_free_cnt' = vq_free_cnt + 1
    /\ next' = [next EXCEPT ![d] = vq_desc_head_idx]
    /\ vq_desc_head_idx' = d

\* virtqueue_get_buffer(): a buffer comes back.
GetBuffer ==
    /\ publishing["master"] = NONE
    /\ vq_used_cons_idx # used_idx
    /\ vq_used_cons_idx' = (vq_used_cons_idx + 1) % Wrap
    /\ LET d == used_ring[Slot(vq_used_cons_idx)] IN
          /\ vq_ring_free_chain(d)
          /\ cookie' = [cookie EXCEPT ![d] = 0]
    /\ UNCHANGED <<shared, slave, publishing, adds>>

-----------------------------------------------------------------------------
\* The slave.

\* virtqueue_get_available_buffer()
\* Mutant: the index is incremented before it is used.
GetAvailablePre ==
    /\ vq_available_idx # avail_idx
    /\ vq_available_idx' = (vq_available_idx + 1) % Wrap
    /\ held' = held \cup {avail_ring[Slot(vq_available_idx + 1)]}
    /\ UNCHANGED <<shared, master, publishing, adds>>
GetAvailable ==
    /\ vq_available_idx # avail_idx
    /\ vq_available_idx' = (vq_available_idx + 1) % Wrap
    /\ held' = held \cup {avail_ring[Slot(vq_available_idx)]}
    /\ UNCHANGED <<shared, master, publishing, adds>>

\* virtqueue_add_consumed_buffer(): the descriptor goes into the used ring ...
AddConsumed(d) ==
    /\ d \in held /\ publishing["slave"] = NONE
    /\ used_ring' = [used_ring EXCEPT ![Slot(used_idx)] = d]
    /\ held' = held \ {d}
    /\ publishing' = [publishing EXCEPT !["slave"] = d]
    /\ UNCHANGED <<avail_ring, avail_idx, used_idx, master, vq_available_idx,
                   adds>>

\* ... and the master may see it.
UpdateUsed ==
    /\ publishing["slave"] # NONE
    /\ used_idx' = (used_idx + 1) % Wrap
    /\ publishing' = [publishing EXCEPT !["slave"] = NONE]
    /\ UNCHANGED <<avail_ring, avail_idx, used_ring, master, slave, adds>>

Next ==
    \/ AddBuffer \/ UpdateAvail \/ GetBuffer
    \/ GetAvailable \/ UpdateUsed
    \/ \E d \in Desc : AddConsumed(d)

Spec == Init /\ [][Next]_vars

-----------------------------------------------------------------------------
\* Where a descriptor can be: offered to the slave, back for the master, free.
Offered == [k \in 1..(avail_idx - vq_available_idx) % Wrap |->
               avail_ring[Slot(vq_available_idx + k - 1)]]
Back    == [k \in 1..(used_idx - vq_used_cons_idx) % Wrap |->
               used_ring[Slot(vq_used_cons_idx + k - 1)]]
Free    == LET chain[k \in 1..vq_free_cnt] ==
                 IF k = 1 THEN vq_desc_head_idx
                 ELSE IF chain[k - 1] \in Desc THEN next[chain[k - 1]]
                 ELSE CHAIN_END
           IN chain

Elements(f) == {f[k] : k \in DOMAIN f}
InTransit == {publishing[s] : s \in {"master", "slave"}} \ {NONE}

\* Every descriptor is in exactly one place, and once: no buffer is lost, given
\* out twice, or freed while the other side works on it; no slot of a ring is
\* overwritten before it is read, across the wrap of the indices too.
EachInOnePlace ==
    /\ Elements(Free) \cup Elements(Offered) \cup held \cup Elements(Back)
          \cup InTransit = Desc
    /\ vq_free_cnt + Len(Offered) + Cardinality(held) + Len(Back)
          + Cardinality(InTransit) = nentries

\* "premature end of free desc chain": the chain has as many descriptors as
\* vq_free_cnt says, and then it ends.
ChainEnds ==
    IF vq_free_cnt = 0 THEN vq_desc_head_idx = CHAIN_END
    ELSE Free[vq_free_cnt] # CHAIN_END /\ next[Free[vq_free_cnt]] = CHAIN_END

\* The slave is given the buffers in the order in which they were added: the
\* avail ring is a bounded queue of cookies, as LinuxComms takes it for.
Avail == INSTANCE BoundedFifo WITH
            Size <- nentries, n <- adds - (IF publishing["master"] = NONE THEN 0 ELSE 1),
            q <- [k \in DOMAIN Offered |-> cookie[Offered[k]]]
AvailSpec == Avail!Spec

=============================================================================
