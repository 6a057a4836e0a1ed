---------------------------- MODULE MCVirtqueue -----------------------------
(* Small instances of Virtqueue for TLC.                                     *)
EXTENDS Virtqueue
=============================================================================
