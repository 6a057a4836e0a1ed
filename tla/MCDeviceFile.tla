---------------------------- MODULE MCDeviceFile ----------------------------
(* Small instances of DeviceFile for TLC.                                    *)
EXTENDS DeviceFile, TLC

\* After open() calls have overlapped the counter can drift without end.
CountBound == device_open \in -3..3

\* The processes are alike.
ProcSymmetry == Permutations(Procs)
=============================================================================
