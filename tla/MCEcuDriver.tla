---------------------------- MODULE MCEcuDriver -----------------------------
(* Small instances of EcuDriver for TLC; the configs choose the regime.      *)
EXTENDS EcuDriver, TLC

\* Threads are interchangeable.
ThreadSymmetry == Permutations(Threads)

\* Bounds on what is explored: after a mishap at most MaxMishapMsgs requests, after
\* a race in a fifo at most MaxRacedMsgs.
CONSTANTS MaxMishapMsgs, MaxRacedMsgs
MishapBound ==
    /\ mishap => Len(sent) <= MaxMishapMsgs
    /\ raced => Len(sent) <= MaxRacedMsgs

\* What the steps and the properties depend on: a local variable only where it
\* is used, and neither results nor the word of SET_STATE, which nobody reads.
Live ==
    <<sent, done, fifo_send_types, fifo_external_msg, fifo_unique_ids,
      rx_unique_buffer, next, global_rproc_ref, restarts, pc, cb, overtaken,
      owner, mishap, raced,
      [t \in Threads |->
        <<IF pc[t] \in BookingLabels THEN req[t] ELSE 0,
          IF pc[t] \in {"send_id", "recv_erase"} THEN id[t] ELSE 0,
          IF pc[t] \in {"write_send", "write_put", "read_get"} THEN left[t] ELSE 0>>]>>
=============================================================================
