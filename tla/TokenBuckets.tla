---------------------------- MODULE TokenBuckets ----------------------------
(***************************************************************************)
(* What the token buckets of common/rate_limiter.py promise, without their   *)
(* bookkeeping: every bucket is there from the beginning, fills with time    *)
(* up to its capacity, and a request takes its cost from each bucket it is   *)
(* asked of until one holds too little.  There is no clock, no lazy refill,  *)
(* no making and no dropping of buckets.  RateLimiter implements this.       *)
(***************************************************************************)
EXTENDS Naturals, Sequences

CONSTANTS
  Buckets, Requests, Path, Full, Rate, Cost   \* as in RateLimiter

VARIABLE level   \* level[b]: what b holds

AtMost(n, m) == IF n <= m THEN n ELSE m

BucketsInit == level = Full

\* Time passes.
Fill == level' = [b \in Buckets |-> AtMost(level[b] + Rate[b], Full[b])]

Enough(b) == level[b] >= Cost[b]

\* The buckets of r with enough, before the first that has not.
Pays(r) ==
  {Path[r][i] : i \in {j \in DOMAIN Path[r] : \A k \in 1..j : Enough(Path[r][k])}}

Ask(r) ==
  level' = [b \in Buckets |-> IF b \in Pays(r) THEN level[b] - Cost[b] ELSE level[b]]

BucketsNext == Fill \/ \E r \in Requests : Ask(r)

BucketsSpec == BucketsInit /\ [][BucketsNext]_level
=============================================================================
