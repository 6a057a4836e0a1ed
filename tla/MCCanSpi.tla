------------------------------ MODULE MCCanSpi ------------------------------
(* Small instances of CanSpi for TLC.                                        *)
EXTENDS CanSpi

\* The end of one range, and an identifier that uses bits of every register; the
\* other identifiers are RoundTrip's.
SomeIds == {<<dSTANDARD, 2^11 - 1>>, <<dEXTENDED, 305419896>>}
=============================================================================
