----------------------------- MODULE MCAccounts -----------------------------
(* Instances of Accounts for TLC.                                            *)
EXTENDS Accounts, TLC

CONSTANTS r1, r2, t1, k1, bogus, e1, e2

TwoUses == [c \in Codes |-> 2]
Senders == Permutations(Requests) \cup Permutations(Emails)
=============================================================================
