----------------------------- MODULE MCJobQueue -----------------------------
(* Instances of JobQueue for TLC.  Each worker process runs the loops that   *)
(* its Home function gives it.                                               *)
EXTENDS JobQueue, TLC

CONSTANTS w1, w2, l1, l2, c1, c2

\* Two processes with one loop each.
TwoHomes == (l1 :> w1) @@ (l2 :> w2)
\* One process with two loops, as one unit with max_concurrent_jobs = 2 runs.
OneHome == (l1 :> w1) @@ (l2 :> w1)

\* Cancel requests differ in name only.
Requests == Permutations(Clients)
=============================================================================
