---------------------------- MODULE MCLinuxComms -----------------------------
\* LinuxComms for TLC; the configurations give the constants their values.
EXTENDS LinuxComms
=============================================================================
