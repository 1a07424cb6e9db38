---------------------------- MODULE RateLimiter ----------------------------
(***************************************************************************)
(* The sliding-window counter of api/rate_limit.py, as operators on the    *)
(* dictionary it keeps: a function from the keys it remembers to the       *)
(* sequence of the moments at which they were recorded, oldest first.      *)
(* Every call runs without an await in one process, so each is one step of *)
(* whoever calls it.  A caller passes the moment of the call, the limit    *)
(* and the window.                                                         *)
(***************************************************************************)
EXTENDS Integers, Sequences

NoHits == [k \in {} |-> <<>>]

Kept(hits, k) == IF k \in DOMAIN hits THEN hits[k] ELSE <<>>

(* _prune drops from the left while the oldest hit has left the window.    *)
FreshClosed(s, cutoff) == {i \in 1..Len(s) : s[i] >= cutoff}
Fresh(s, cutoff) == {i \in 1..Len(s) : s[i] > cutoff}
Pruned(s, cutoff) ==
    IF Fresh(s, cutoff) = {}
    THEN <<>>
    ELSE SubSeq(s, CHOOSE i \in Fresh(s, cutoff) :
                        \A j \in Fresh(s, cutoff) : i <= j, Len(s))

InWindow(hits, k, t, window) == Pruned(Kept(hits, k), t - window)

Blocked(hits, k, t, limit, window) == Len(InWindow(hits, k, t, window)) >= limit

(* The deque a reader prunes is the stored one: a key that was only looked *)
(* at may stay behind with an empty deque until the next record.           *)
Looked(hits, k, t, window) ==
    [x \in DOMAIN hits |-> IF x = k THEN InWindow(hits, k, t, window) ELSE hits[x]]

(* _collect_garbage drops the keys without a hit in the window.            *)
Collected(hits, t, window) ==
    [x \in {y \in DOMAIN hits :
               hits[y] # <<>> /\ hits[y][Len(hits[y])] > t - window} |-> hits[x]]

Recorded(hits, k, t, window) ==
    Collected([x \in DOMAIN hits \cup {k} |->
                  IF x = k THEN Append(InWindow(hits, k, t, window), t) ELSE hits[x]],
              t, window)

Allowed(hits, k, t, limit, window) ==
    IF Blocked(hits, k, t, limit, window)
    THEN Looked(hits, k, t, window)
    ELSE Recorded(hits, k, t, window)

RetryAfter(hits, k, t, limit, window) ==
    LET left == InWindow(hits, k, t, window)
    IN  IF Len(left) < limit \/ Head(left) + window < t
        THEN 0 ELSE Head(left) + window - t
============================================================================
