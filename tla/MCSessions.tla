----------------------------- MODULE MCSessions -----------------------------
(* The instance of Sessions for TLC.                                         *)
EXTENDS Sessions, TLC

CONSTANTS u1, u2, root, h1, h2, s1, s2, s3

\* Requests differ in name only, and so do the ids the server draws, and the
\* users of one role.
Alike == Permutations(Handlers) \cup Permutations(Ids)
           \cup Permutations(Users \ Admins)
=============================================================================
