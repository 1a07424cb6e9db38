------------------------- MODULE MCSavedStructures -------------------------
(* Instances of SavedStructures for TLC.                                     *)
EXTENDS SavedStructures

CONSTANTS j1, j2, j3, none, gate, final, r1

\* Three versions of the source: with and without the gate step, and without a
\* contact.
Versions == [j \in Jobs |-> CASE j = j1 -> {gate, final}
                              [] j = j2 -> {final}
                              [] j = j3 -> {}]
=============================================================================
