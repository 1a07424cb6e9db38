------------------------------ MODULE MCRunner ------------------------------
(* Instances of Runner for TLC.                                              *)
EXTENDS Runner

CONSTANTS a, b, c, panicStr

\* The first name is used once more, and the second is the one the dump will take.
SavesTwice == <<a, panicStr, b, a, c>>
=============================================================================
