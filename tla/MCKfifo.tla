------------------------------ MODULE MCKfifo -------------------------------
(* Small instances of Kfifo for TLC.                                         *)
EXTENDS Kfifo
=============================================================================
