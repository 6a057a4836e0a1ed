--------------------------- MODULE MCLockResource ---------------------------
(* Small instances of LockResource for TLC.                                  *)
EXTENDS LockResource
=============================================================================
