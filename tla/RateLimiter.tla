---------------------------- MODULE RateLimiter ----------------------------
(***************************************************************************)
(* The token buckets of common/rate_limiter.py, which the gateway and the    *)
(* nodes ask before they serve a request.                                   *)
(*                                                                         *)
(* A check never suspends, so it is one action.  It asks one bucket after    *)
(* the other (all clients, the address per minute and per hour, the key per  *)
(* minute, per hour and per second; or the address's registrations per hour) *)
(* and stops at the first that refuses, with the earlier ones charged.       *)
(* Every five minutes it first drops the buckets that have been idle for an  *)
(* hour.  The limits on concurrent requests are left out: nothing ever       *)
(* counts one (acquire_concurrent has no caller), so they never refuse.      *)
(*                                                                         *)
(* Tokens are counted in units small enough for a tick of the clock to add  *)
(* a whole number of them.  The clock does not run backwards.                *)
(***************************************************************************)
EXTENDS Naturals, Sequences, SequencesExt

CONSTANTS
  Buckets,   \* the global bucket and those of each address and key
  Global,    \* _global_minute_bucket, which is never dropped
  Requests,  \* who asks: an address, with or without a key, or a node
  Path,      \* Path[r]: the buckets asked for r, in order
  Full,      \* Full[b]: capacity, in units
  Rate,      \* Rate[b]: refill_rate, in units per tick
  Cost,      \* Cost[b]: the units of one request
  Stale,     \* stale_threshold
  Interval,  \* _cleanup_interval
  MaxTime    \* bound on the clock

ASSUME LimiterAssumption ==
  /\ Global \in Buckets
  /\ \A r \in Requests : IsInjective(Path[r]) /\ Path[r] \in Seq(Buckets)
  /\ Full \in [Buckets -> Nat] /\ Rate \in [Buckets -> Nat \ {0}]
  /\ Cost \in [Buckets -> Nat \ {0}]
  /\ Stale \in Nat /\ Interval \in Nat /\ MaxTime \in Nat
  /\ \A b \in Buckets : Cost[b] <= Full[b] /\ Full[b] <= Rate[b] * Stale

VARIABLES
  now,      \* time.time()
  cleaned,  \* _last_cleanup
  present,  \* the buckets there are
  tokens,   \* tokens[b]: TokenBucket.tokens
  last,     \* last[b]: last_refill
  since,    \* observer: the beginning of a window of time, chosen freely
  used,     \* observer: used[b]: requests charged to b in the window
  promise   \* observer: promise[b]: the time for which a refused client has
            \* been told to come back, until b is charged; 0 for none

observers == <<since, used, promise>>
limiterVars == <<now, cleaned, present, tokens, last, observers>>

LimiterTypeOK ==
  /\ now \in Nat /\ cleaned \in 0..now
  /\ present \subseteq Buckets /\ Global \in present
  /\ tokens \in [Buckets -> Nat] /\ \A b \in Buckets : tokens[b] <= Full[b]
  /\ last \in [Buckets -> Nat] /\ \A b \in Buckets : last[b] <= now
  /\ since \in Nat
  /\ used \in [Buckets -> Nat]
  /\ promise \in [Buckets -> Nat]

LimiterInit ==
  /\ now = 0 /\ cleaned = 0
  /\ present = {Global}
  /\ tokens = Full
  /\ last = [b \in Buckets |-> 0]
  /\ since \in 0..MaxTime
  /\ used = [b \in Buckets |-> 0]
  /\ promise = [b \in Buckets |-> 0]

-----------------------------------------------------------------------------

AtMost(n, m) == IF n <= m THEN n ELSE m

\* Mutant: idle buckets are dropped before they would be full again.
TooEarly == {b \in present \ {Global} : now - last[b] > 1}

\* _cleanup_stale_buckets
Idle == {b \in present \ {Global} : now - last[b] > Stale}

CleanupDue == now - cleaned > Interval

\* The buckets there are when a request is checked.
Kept == IF CleanupDue THEN present \ Idle ELSE present

\* What consume finds in a bucket; one that is not there is made, and full.
Refilled(b) ==
  IF b \in Kept THEN AtMost(tokens[b] + (now - last[b]) * Rate[b], Full[b])
  ELSE Full[b]

Passes(b) == Refilled(b) >= Cost[b]

\* The buckets that are asked: those with none before them that refuses.
Asked(r) == {Path[r][i] : i \in {j \in DOMAIN Path[r] :
                                   \A k \in 1..(j - 1) : Passes(Path[r][k])}}

Charged(r) == {b \in Asked(r) : Passes(b)}

\* Mutant: what a refusal has added to the bucket is forgotten, with its time.
AfterLosesRefill(b, r) ==
  IF b \in Charged(r) THEN Refilled(b) - Cost[b] ELSE tokens[b]

\* The tokens consume leaves in b.
After(b, r) ==
  IF b \in Charged(r) THEN Refilled(b) - Cost[b]
  ELSE IF b \in Asked(r) THEN Refilled(b) ELSE tokens[b]

\* int(retry_after) + 1 seconds, as the Retry-After header says.
RetryAt(b) == now + (Cost[b] - Refilled(b)) \div Rate[b] + 1

Observe(r) ==
  /\ used' = [b \in Buckets |->
                IF b \in Charged(r) /\ now >= since THEN used[b] + 1 ELSE used[b]]
  /\ promise' = [b \in Buckets |->
                   IF b \in Charged(r) THEN 0
                   ELSE IF b \in Asked(r) /\ promise[b] = 0 THEN RetryAt(b)
                   ELSE promise[b]]
  /\ UNCHANGED since

\* check_rate_limit and check_node_publish
Check(r) ==
  /\ present' = Kept \cup Asked(r)
  /\ cleaned' = IF CleanupDue THEN now ELSE cleaned
  /\ tokens' = [b \in Buckets |-> After(b, r)]
  /\ last' = [b \in Buckets |-> IF b \in Asked(r) THEN now ELSE last[b]]
  /\ Observe(r)
  /\ UNCHANGED now

Tick ==
  /\ now < MaxTime
  /\ now' = now + 1
  /\ UNCHANGED <<cleaned, present, tokens, last, observers>>

LimiterNext == Tick \/ \E r \in Requests : Check(r)

LimiterSpec == LimiterInit /\ [][LimiterNext]_limiterVars

-----------------------------------------------------------------------------
(* Properties.                                                             *)

\* What a request would find in b if nothing were dropped.
Holds(b) ==
  IF b \in present
  THEN AtMost(tokens[b] + (now - last[b]) * Rate[b], Full[b])
  ELSE Full[b]

Ideal == INSTANCE TokenBuckets WITH level <- [b \in Buckets |-> Holds(b)]

\* Refilling a bucket only when it is asked, making it at the first request
\* and dropping it when idle cannot be told from buckets that have always been
\* there and fill all the time: which requests are admitted is the same.
ImplementsBuckets == Ideal!BucketsSpec

\* In any window of time a bucket admits no more than its capacity and what is
\* added to it in the window, although buckets are dropped and made anew, and
\* requests that a later bucket refuses charge the earlier ones.
WindowBound ==
  now >= since =>
    \A b \in Buckets : used[b] * Cost[b] <= Full[b] + (now - since) * Rate[b]

\* Who has been refused and comes back at the time the Retry-After header gave
\* is not refused again by the same bucket, unless others were served from it:
\* asking too early does not set anybody back.
RetryAfterHolds ==
  \A b \in Buckets : promise[b] # 0 /\ now >= promise[b] => Passes(b)
=============================================================================
