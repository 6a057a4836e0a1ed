---------------------------- MODULE BoundedFifo -----------------------------
(***************************************************************************)
(* What the driver takes a kfifo for: a queue of at most Size elements to  *)
(* which elements are added, and from which they are taken, in one step.   *)
(* EcuDriver is written in terms of it; Kfifo implements it.               *)
(***************************************************************************)
EXTENDS Naturals, Sequences

CONSTANT Size

VARIABLES q,   \* the queue
          n    \* how many elements have been added; they are numbered

Init == q = <<>> /\ n = 0

Put ==
    /\ Len(q) < Size
    /\ n' = n + 1
    /\ q' = Append(q, n + 1)

Get ==
    /\ q # <<>>
    /\ q' = Tail(q)
    /\ UNCHANGED n

Spec == Init /\ [][Put \/ Get]_<<q, n>>
=============================================================================
