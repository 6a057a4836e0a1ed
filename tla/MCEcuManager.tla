---------------------------- MODULE MCEcuManager ----------------------------
(* Small instances of EcuManager for TLC.                                    *)
EXTENDS EcuManager, TLC

\* What the properties of the server and the steps of the system depend on:
\* everything but the driver's records of what went wrong in it.
ServerView ==
    <<sent, done, driverVars, restarts, threadVars, cb, overtaken, raced,
      serverVars, callVars, got>>

\* The handler threads, and with them the clients, are alike.
HandlerSymmetry == Permutations(Handlers)
=============================================================================
