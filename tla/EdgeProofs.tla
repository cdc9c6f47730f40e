----------------------------- MODULE EdgeProofs -----------------------------
(* What common/rate_limiter.py keeps at the edge of both servers: requests    *)
(* by its token buckets (module RateLimiter), streams by its slots (module    *)
(* EventStreams), for any buckets, clients and bounds.                        *)
(*                                                                          *)
(* For the buckets everything rests on what a request would find in one now   *)
(* (Holds): a bucket dropped for being idle would have been full, so that      *)
(* dropping it changes nothing (RefilledIsHolds), and a step changes it only   *)
(* by time or by a charge.                                                    *)
(*                                                                          *)
(* For the streams one inductive invariant, StreamsInv, says who holds a slot, *)
(* whom the server knows, what has been put into a queue and how far every     *)
(* broadcast has come.                                                        *)
EXTENDS RateLimiter, EventStreams, FiniteSetTheorems, TLAPS

\* What a bucket has given in the window and still holds.
WindowInv ==
  \A b \in Buckets :
    /\ now < since => used[b] = 0
    /\ now >= since =>
         used[b] * Cost[b] + Holds(b) <= Full[b] + (now - since) * Rate[b]

\* What a bucket holds when a promise falls due.
PromiseInv ==
  \A b \in Buckets :
    promise[b] # 0 =>
      \/ Holds(b) >= Cost[b]
      \/ /\ now <= promise[b]
         /\ Holds(b) + (promise[b] - now) * Rate[b] >= Cost[b]

\* Arithmetic of products.
LEMMA Product ==
  ASSUME NEW x \in Nat, NEW y \in Nat
  PROVE  x * y \in Nat /\ (x + 1) * y = x * y + y
OBVIOUS

LEMMA ProductGrows ==
  ASSUME NEW x \in Nat, NEW y \in Nat, NEW z \in Nat, x <= z
  PROVE  x * y <= z * y
<1>1. PICK d \in Nat : z = x + d
  <2>1. z - x \in Nat /\ z = x + (z - x)
    OBVIOUS
  <2> QED
    BY <2>1
<1>2. z * y = x * y + d * y /\ d * y \in Nat /\ x * y \in Nat
  BY <1>1
<1> QED
  BY <1>2

\* A quotient and one make up for any rest.
LEMMA Quotient ==
  ASSUME NEW x \in Nat, NEW y \in Nat \ {0}
  PROVE  x \div y \in Nat /\ x <= (x \div y + 1) * y
<1>1. x \div y \in Nat
  OBVIOUS
<1>2. x < y * (x \div y) + y
  BY <1>1
<1>3. (x \div y + 1) * y = y * (x \div y) + y /\ y * (x \div y) \in Nat
  BY <1>1, Product
<1> QED
  BY <1>1, <1>2, <1>3

\* The constants and variables of one bucket.
LEMMA BucketTypes ==
  ASSUME LimiterTypeOK, NEW b \in Buckets
  PROVE  /\ Full[b] \in Nat /\ Rate[b] \in Nat \ {0} /\ Cost[b] \in Nat \ {0}
         /\ Cost[b] <= Full[b] /\ Full[b] <= Rate[b] * Stale
         /\ tokens[b] \in Nat /\ tokens[b] <= Full[b]
         /\ last[b] \in Nat /\ last[b] <= now /\ now - last[b] \in Nat
         /\ (now - last[b]) * Rate[b] \in Nat
         /\ used[b] \in Nat /\ promise[b] \in Nat
         /\ now \in Nat /\ since \in Nat /\ Stale \in Nat
<1>1. /\ Full[b] \in Nat /\ Rate[b] \in Nat \ {0} /\ Cost[b] \in Nat \ {0}
      /\ Cost[b] <= Full[b] /\ Full[b] <= Rate[b] * Stale /\ Stale \in Nat
  BY LimiterAssumption
<1>2. /\ tokens[b] \in Nat /\ tokens[b] <= Full[b]
      /\ last[b] \in Nat /\ last[b] <= now /\ now \in Nat /\ since \in Nat
      /\ used[b] \in Nat /\ promise[b] \in Nat
  BY DEF LimiterTypeOK
<1>3. now - last[b] \in Nat
  BY <1>2
<1> QED
  BY <1>1, <1>2, <1>3, Product

\* A bucket holds between nothing and its capacity.
LEMMA HoldsType ==
  ASSUME LimiterTypeOK, NEW b \in Buckets
  PROVE  Holds(b) \in Nat /\ Holds(b) <= Full[b]
BY BucketTypes DEF Holds, AtMost

\* A bucket that may be dropped is full again: consume finds the same in it
\* whether it has been dropped or not.
LEMMA RefilledIsHolds ==
  ASSUME LimiterTypeOK, NEW b \in Buckets
  PROVE  /\ Refilled(b) = Holds(b)
         /\ b \in present \ Kept => Holds(b) = Full[b]
<1>1. ASSUME b \in present, b \notin Kept
      PROVE  Holds(b) = Full[b]
  <2>1. now - last[b] > Stale
    BY <1>1 DEF Kept, Idle
  <2>2. Stale * Rate[b] <= (now - last[b]) * Rate[b]
    BY <2>1, BucketTypes, ProductGrows
  <2>3. Rate[b] * Stale = Stale * Rate[b]
    BY BucketTypes
  <2> QED
    BY <1>1, <2>2, <2>3, BucketTypes DEF Holds, AtMost
<1>2. CASE b \in Kept
  BY <1>2 DEF Refilled, Holds, Kept
<1>3. CASE b \notin Kept
  BY <1>1, <1>3 DEF Refilled, Holds
<1> QED
  BY <1>1, <1>2, <1>3

\* A check takes the cost from the buckets it charges and changes no other.
LEMMA CheckHolds ==
  ASSUME LimiterTypeOK, NEW r \in Requests, Check(r), NEW b \in Buckets
  PROVE  /\ b \in Charged(r) => /\ Holds(b) >= Cost[b]
                                /\ Holds(b)' = Holds(b) - Cost[b]
         /\ b \notin Charged(r) => Holds(b)' = Holds(b)
         /\ b \in Asked(r) /\ b \notin Charged(r) => Holds(b) < Cost[b]
<1>1. Refilled(b) = Holds(b) /\ Holds(b) \in Nat /\ Holds(b) <= Full[b]
  BY RefilledIsHolds, HoldsType
<1>2. /\ present' = Kept \cup Asked(r) /\ tokens'[b] = After(b, r) /\ now' = now
      /\ last'[b] = IF b \in Asked(r) THEN now ELSE last[b]
  BY DEF Check
<1>3. Charged(r) = {a \in Asked(r) : Passes(a)}
  BY DEF Charged
<1>4. CASE b \in Asked(r)
  <2>1. b \in present' /\ last'[b] = now /\ now' - last'[b] = 0
    BY <1>2, <1>4, BucketTypes
  <2>2. CASE b \in Charged(r)
    <3>1. Holds(b) >= Cost[b] /\ tokens'[b] = Holds(b) - Cost[b]
      BY <1>1, <1>2, <1>3, <2>2 DEF After, Passes
    <3>2. (now' - last'[b]) * Rate[b] = 0
      BY <2>1, BucketTypes
    <3> QED
      BY <1>1, <2>1, <2>2, <3>1, <3>2, BucketTypes DEF Holds, AtMost
  <2>3. CASE b \notin Charged(r)
    <3>1. Holds(b) < Cost[b] /\ tokens'[b] = Holds(b)
      BY <1>1, <1>2, <1>3, <1>4, <2>3, BucketTypes DEF After, Passes
    <3>2. (now' - last'[b]) * Rate[b] = 0
      BY <2>1, BucketTypes
    <3> QED
      BY <1>1, <2>1, <2>3, <3>1, <3>2, BucketTypes DEF Holds, AtMost
  <2> QED
    BY <2>2, <2>3
<1>5. CASE b \notin Asked(r)
  <2>1. b \notin Charged(r) /\ tokens'[b] = tokens[b] /\ last'[b] = last[b]
    BY <1>2, <1>3, <1>5 DEF After
  <2>2. b \in present' <=> b \in Kept
    BY <1>2, <1>5
  <2>3. CASE b \in Kept
    BY <1>2, <1>5, <2>1, <2>2, <2>3 DEF Holds, Kept
  <2>4. CASE b \notin Kept
    <3>1. Holds(b) = Full[b]
      BY <2>4, RefilledIsHolds DEF Holds
    <3> QED
      BY <1>5, <2>1, <2>2, <2>4, <3>1 DEF Holds
  <2> QED
    BY <2>3, <2>4
<1> QED
  BY <1>4, <1>5

\* A tick adds the rate to a bucket that is not full.
LEMMA TickHolds ==
  ASSUME LimiterTypeOK, Tick, NEW b \in Buckets
  PROVE  Holds(b)' = AtMost(Holds(b) + Rate[b], Full[b])
<1>1. now' = now + 1 /\ present' = present /\ tokens' = tokens /\ last' = last
  BY DEF Tick
<1>2. (now + 1 - last[b]) * Rate[b] = (now - last[b]) * Rate[b] + Rate[b]
  <2>1. now + 1 - last[b] = (now - last[b]) + 1
    BY BucketTypes
  <2> QED
    BY <2>1, BucketTypes, Product
<1>3. /\ Full[b] \in Nat /\ Rate[b] \in Nat /\ tokens[b] \in Nat
      /\ (now - last[b]) * Rate[b] \in Nat
  BY BucketTypes
<1> DEFINE gained == (now - last[b]) * Rate[b]
<1>4. Holds(b) = IF b \in present THEN AtMost(tokens[b] + gained, Full[b]) ELSE Full[b]
  BY DEF Holds
<1>5. Holds(b)' = IF b \in present THEN AtMost(tokens[b] + (gained + Rate[b]), Full[b])
                  ELSE Full[b]
  <2>1. now' - last'[b] = now + 1 - last[b]
    BY <1>1, BucketTypes
  <2>2. (now' - last'[b]) * Rate[b] = gained + Rate[b]
    BY <1>2, <2>1
  <2>3. Holds(b)' = IF b \in present'
                    THEN AtMost(tokens'[b] + (now' - last'[b]) * Rate[b], Full[b])
                    ELSE Full[b]
    BY DEF Holds
  <2> HIDE DEF gained
  <2> QED
    BY <1>1, <2>2, <2>3
<1> HIDE DEF gained
<1>6. gained \in Nat
  BY <1>3 DEF gained
<1> QED
  BY <1>3, <1>4, <1>5, <1>6 DEF AtMost

-----------------------------------------------------------------------------
\* Types.

LEMMA TypeInduction ==
  ASSUME LimiterTypeOK, [LimiterNext]_limiterVars
  PROVE  LimiterTypeOK'
<1>1. CASE Tick
  BY <1>1 DEF Tick, LimiterTypeOK, observers
<1>2. ASSUME NEW r \in Requests, Check(r)
      PROVE  LimiterTypeOK'
  <2>1. now' = now /\ since' = since /\ now \in Nat /\ since \in Nat
    BY <1>2 DEF Check, Observe, LimiterTypeOK
  <2>2. cleaned' \in 0..now
    BY <1>2 DEF Check, LimiterTypeOK
  <2>3. Asked(r) \subseteq Buckets
    BY LimiterAssumption DEF Asked
  <2>4. present' \subseteq Buckets /\ Global \in present'
    BY <1>2, <2>3 DEF Check, LimiterTypeOK, Kept, Idle
  <2>5. tokens' \in [Buckets -> Nat] /\ \A b \in Buckets : tokens'[b] <= Full[b]
    <3>1. ASSUME NEW b \in Buckets
          PROVE  After(b, r) \in Nat /\ After(b, r) <= Full[b]
      BY BucketTypes, HoldsType, RefilledIsHolds DEF After, Charged, Passes
    <3> QED
      BY <1>2, <3>1 DEF Check
  <2>6. last' \in [Buckets -> Nat] /\ \A b \in Buckets : last'[b] <= now
    <3>1. last' = [b \in Buckets |-> IF b \in Asked(r) THEN now ELSE last[b]]
      BY <1>2 DEF Check
    <3>2. \A b \in Buckets : last[b] \in Nat /\ last[b] <= now
      BY BucketTypes
    <3> QED
      BY <2>1, <3>1, <3>2
  <2>7. used' \in [Buckets -> Nat]
    <3>1. \A b \in Buckets : used[b] \in Nat
      BY BucketTypes
    <3> QED
      BY <1>2, <3>1 DEF Check, Observe
  <2>8. promise' \in [Buckets -> Nat]
    <3>1. ASSUME NEW b \in Buckets, b \in Asked(r), b \notin Charged(r)
          PROVE  RetryAt(b) \in Nat
      <4>1. Holds(b) < Cost[b] /\ Refilled(b) = Holds(b) /\ Holds(b) \in Nat
        BY <1>2, <3>1, CheckHolds, RefilledIsHolds, HoldsType
      <4>2. Cost[b] - Refilled(b) \in Nat
        BY <4>1, BucketTypes
      <4>3. Rate[b] \in Nat \ {0} /\ now \in Nat
        BY BucketTypes
      <4>4. (Cost[b] - Refilled(b)) \div Rate[b] \in Nat
        BY <4>2, <4>3, Quotient
      <4> QED
        BY <4>3, <4>4 DEF RetryAt
    <3>2. \A b \in Buckets : promise[b] \in Nat
      BY BucketTypes
    <3> QED
      BY <1>2, <3>1, <3>2 DEF Check, Observe
  <2> QED
    BY <2>1, <2>2, <2>4, <2>5, <2>6, <2>7, <2>8 DEF LimiterTypeOK
<1>3. CASE UNCHANGED limiterVars
  BY <1>3 DEF limiterVars, observers, LimiterTypeOK
<1> QED
  BY <1>1, <1>2, <1>3 DEF LimiterNext

-----------------------------------------------------------------------------
\* What is given in the window.

LEMMA WindowInduction ==
  ASSUME LimiterTypeOK, WindowInv, [LimiterNext]_limiterVars
  PROVE  WindowInv'
<1>1. ASSUME Tick, NEW b \in Buckets
      PROVE  /\ now' < since' => used'[b] = 0
             /\ now' >= since' =>
                  used'[b] * Cost[b] + Holds(b)' <= Full[b] + (now' - since') * Rate[b]
  <2>1. now' = now + 1 /\ since' = since /\ used' = used
    BY <1>1 DEF Tick, observers
  <2>2. Holds(b)' <= Full[b] /\ Holds(b)' <= Holds(b) + Rate[b] /\ Holds(b)' \in Nat
    BY <1>1, TickHolds, HoldsType, BucketTypes DEF AtMost
  <2>3. CASE now < since
    <3>1. used[b] = 0
      BY <2>3 DEF WindowInv
    <3>2. used'[b] * Cost[b] = 0
      BY <2>1, <3>1, BucketTypes
    <3>3. now' >= since' => (now' - since') * Rate[b] \in Nat
      BY <2>1, BucketTypes, Product
    <3> QED
      BY <2>1, <2>2, <3>1, <3>2, <3>3, BucketTypes
  <2>4. CASE now >= since
    <3>1. used[b] * Cost[b] + Holds(b) <= Full[b] + (now - since) * Rate[b]
      BY <2>4 DEF WindowInv
    <3>2. /\ now - since \in Nat /\ now' - since' = (now - since) + 1
          /\ (now' - since') * Rate[b] = (now - since) * Rate[b] + Rate[b]
          /\ (now - since) * Rate[b] \in Nat /\ used[b] * Cost[b] \in Nat
      BY <2>1, <2>4, BucketTypes, Product
    <3> QED
      BY <2>1, <2>2, <2>4, <3>1, <3>2, HoldsType, BucketTypes
  <2> QED
    BY <2>3, <2>4, BucketTypes
<1>2. ASSUME NEW r \in Requests, Check(r), NEW b \in Buckets
      PROVE  /\ now' < since' => used'[b] = 0
             /\ now' >= since' =>
                  used'[b] * Cost[b] + Holds(b)' <= Full[b] + (now' - since') * Rate[b]
  <2>1. /\ now' = now /\ since' = since
        /\ used'[b] = IF b \in Charged(r) /\ now >= since THEN used[b] + 1 ELSE used[b]
    BY <1>2 DEF Check, Observe
  <2>2. CASE now < since
    BY <2>1, <2>2, BucketTypes DEF WindowInv
  <2>3. CASE now >= since
    <3>1. used[b] * Cost[b] + Holds(b) <= Full[b] + (now - since) * Rate[b]
      BY <2>3 DEF WindowInv
    <3>2. /\ used[b] * Cost[b] \in Nat
          /\ (used[b] + 1) * Cost[b] = used[b] * Cost[b] + Cost[b]
          /\ now - since \in Nat /\ (now - since) * Rate[b] \in Nat
      <4>1. /\ used[b] \in Nat /\ Cost[b] \in Nat /\ Rate[b] \in Nat
            /\ now \in Nat /\ since \in Nat
        BY BucketTypes
      <4>2. now - since \in Nat
        BY <2>3, <4>1
      <4> QED
        BY <4>1, <4>2, Product
    <3>3. CASE b \in Charged(r)
      <4>1. Holds(b)' = Holds(b) - Cost[b] /\ used'[b] = used[b] + 1
        BY <1>2, <2>1, <2>3, <3>3, CheckHolds
      <4> QED
        BY <2>1, <2>3, <3>1, <3>2, <4>1, HoldsType, BucketTypes
    <3>4. CASE b \notin Charged(r)
      <4>1. Holds(b)' = Holds(b) /\ used'[b] = used[b]
        BY <1>2, <2>1, <3>4, CheckHolds
      <4> QED
        BY <2>1, <2>3, <3>1, <4>1, BucketTypes
    <3> QED
      BY <3>3, <3>4
  <2> QED
    BY <2>2, <2>3, BucketTypes
<1>3. CASE UNCHANGED limiterVars
  BY <1>3 DEF limiterVars, observers, WindowInv, Holds
<1>4. Tick \/ (\E r \in Requests : Check(r)) => WindowInv'
  BY <1>1, <1>2 DEF WindowInv
<1> QED
  BY <1>3, <1>4 DEF LimiterNext

-----------------------------------------------------------------------------
\* What was promised.

LEMMA PromiseInduction ==
  ASSUME LimiterTypeOK, PromiseInv, [LimiterNext]_limiterVars
  PROVE  PromiseInv'
<1> DEFINE Keeps(b) == \/ Holds(b)' >= Cost[b]
                       \/ /\ now' <= promise'[b]
                          /\ Holds(b)' + (promise'[b] - now') * Rate[b] >= Cost[b]
<1>1. ASSUME Tick, NEW b \in Buckets, promise'[b] # 0
      PROVE  Keeps(b)
  <2>1. now' = now + 1 /\ promise' = promise
    BY <1>1 DEF Tick, observers
  <2>2. Holds(b)' = AtMost(Holds(b) + Rate[b], Full[b]) /\ Holds(b) \in Nat
    BY <1>1, TickHolds, HoldsType
  <2>3. CASE Holds(b) >= Cost[b]
    BY <2>2, <2>3, BucketTypes DEF AtMost
  <2>4. CASE now <= promise[b] /\ Holds(b) + (promise[b] - now) * Rate[b] >= Cost[b]
    <3>1. CASE now = promise[b]
      <4>1. (promise[b] - now) * Rate[b] = 0
        BY <3>1, BucketTypes
      <4> QED
        BY <2>3, <2>4, <4>1, BucketTypes, HoldsType
    <3>2. CASE now < promise[b]
      <4>1. /\ promise[b] - (now + 1) \in Nat
            /\ promise[b] - now = (promise[b] - (now + 1)) + 1
        BY <3>2, BucketTypes
      <4>2. /\ (promise[b] - now) * Rate[b]
                  = (promise[b] - (now + 1)) * Rate[b] + Rate[b]
            /\ (promise[b] - (now + 1)) * Rate[b] \in Nat
        BY <4>1, BucketTypes, Product
      <4>3. CASE Holds(b)' = Full[b]
        BY <4>3, BucketTypes
      <4>4. CASE Holds(b)' = Holds(b) + Rate[b]
        <5>1. Holds(b)' + (promise'[b] - now') * Rate[b] >= Cost[b]
          BY <2>1, <2>2, <2>4, <4>2, <4>4, BucketTypes
        <5> QED
          BY <2>1, <3>2, <5>1, BucketTypes
      <4> QED
        BY <2>2, <4>3, <4>4 DEF AtMost
    <3>3. now \in Nat /\ promise[b] \in Nat
      BY BucketTypes
    <3> QED
      BY <2>4, <3>1, <3>2, <3>3
  <2> QED
    BY <1>1, <2>1, <2>3, <2>4 DEF PromiseInv
<1>2. ASSUME NEW r \in Requests, Check(r), NEW b \in Buckets, promise'[b] # 0
      PROVE  Keeps(b)
  <2>1. /\ now' = now /\ b \notin Charged(r)
        /\ promise'[b] = IF b \in Asked(r) /\ promise[b] = 0 THEN RetryAt(b)
                         ELSE promise[b]
    BY <1>2 DEF Check, Observe
  <2>2. Holds(b)' = Holds(b) /\ Holds(b) \in Nat
    BY <1>2, <2>1, CheckHolds, HoldsType
  <2>3. CASE b \in Asked(r) /\ promise[b] = 0
    <3> DEFINE need == Cost[b] - Holds(b)
               wait == need \div Rate[b] + 1
    <3>1. need \in Nat
      BY <1>2, <2>1, <2>2, <2>3, CheckHolds, BucketTypes
    <3>2. need \div Rate[b] \in Nat /\ need <= wait * Rate[b]
      BY <3>1, BucketTypes, Quotient
    <3>3. promise'[b] = now + wait
      BY <2>1, <2>3, RefilledIsHolds, <3>2, BucketTypes DEF RetryAt
    <3>4. wait \in Nat
      BY <3>2
    <3> HIDE DEF wait
    <3>5. promise'[b] - now' = wait /\ now' <= promise'[b]
      BY <2>1, <3>3, <3>4, BucketTypes
    <3>6. wait * Rate[b] \in Nat
      BY <3>4, BucketTypes, Product
    <3> QED
      BY <2>2, <3>1, <3>2, <3>5, <3>6, BucketTypes
  <2>4. CASE ~(b \in Asked(r) /\ promise[b] = 0)
    BY <1>2, <2>1, <2>2, <2>4 DEF PromiseInv
  <2> QED
    BY <2>3, <2>4
<1>3. CASE UNCHANGED limiterVars
  BY <1>3 DEF limiterVars, observers, PromiseInv, Holds
<1>4. Tick \/ (\E r \in Requests : Check(r)) => PromiseInv'
  BY <1>1, <1>2 DEF PromiseInv
<1> QED
  BY <1>3, <1>4 DEF LimiterNext

-----------------------------------------------------------------------------

\* The variables keep their types; no bucket holds more than its capacity.
THEOREM LimiterTypeCorrect == LimiterSpec => []LimiterTypeOK
<1>1. LimiterInit => LimiterTypeOK
  BY LimiterAssumption DEF LimiterInit, LimiterTypeOK
<1> QED
  BY <1>1, TypeInduction, PTL DEF LimiterSpec

\* In any window a bucket admits no more than it holds and gains.
THEOREM WindowCorrect == LimiterSpec => []WindowBound
<1>1. LimiterInit => WindowInv
  <2> SUFFICES ASSUME LimiterInit, NEW b \in Buckets
               PROVE  /\ used[b] = 0
                      /\ now >= since =>
                           used[b] * Cost[b] + Holds(b)
                             <= Full[b] + (now - since) * Rate[b]
    BY DEF WindowInv
  <2>1. LimiterTypeOK
    BY LimiterAssumption DEF LimiterInit, LimiterTypeOK
  <2>2. used[b] = 0 /\ now = 0
    BY DEF LimiterInit
  <2>3. used[b] * Cost[b] = 0
    BY <2>1, <2>2, BucketTypes
  <2>4. now >= since => (now - since) * Rate[b] = 0
    BY <2>1, <2>2, BucketTypes
  <2> QED
    BY <2>1, <2>2, <2>3, <2>4, HoldsType, BucketTypes
<1>2. LimiterTypeOK /\ WindowInv => WindowBound
  <2> SUFFICES ASSUME LimiterTypeOK, WindowInv, now >= since, NEW b \in Buckets
               PROVE  used[b] * Cost[b] <= Full[b] + (now - since) * Rate[b]
    BY DEF WindowBound
  <2>1. used[b] * Cost[b] + Holds(b) <= Full[b] + (now - since) * Rate[b]
    BY DEF WindowInv
  <2>2. /\ used[b] * Cost[b] \in Nat /\ now - since \in Nat
        /\ (now - since) * Rate[b] \in Nat
    <3>1. /\ used[b] \in Nat /\ Cost[b] \in Nat /\ Rate[b] \in Nat
          /\ now \in Nat /\ since \in Nat
      BY BucketTypes
    <3>2. now - since \in Nat
      BY <3>1
    <3> QED
      BY <3>1, <3>2, Product
  <2> QED
    BY <2>1, <2>2, HoldsType, BucketTypes
<1> QED
  BY <1>1, <1>2, LimiterTypeCorrect, WindowInduction, PTL DEF LimiterSpec

\* Who comes back when told is served, unless others were.
THEOREM PromiseCorrect == LimiterSpec => []RetryAfterHolds
<1>1. LimiterInit => PromiseInv
  BY DEF LimiterInit, PromiseInv
<1>2. LimiterTypeOK /\ PromiseInv => RetryAfterHolds
  <2> SUFFICES ASSUME LimiterTypeOK, PromiseInv, NEW b \in Buckets,
                      promise[b] # 0, now >= promise[b]
               PROVE  Holds(b) >= Cost[b]
    BY RefilledIsHolds DEF RetryAfterHolds, Passes
  <2>1. CASE Holds(b) >= Cost[b]
    BY <2>1
  <2>2. CASE now <= promise[b] /\ Holds(b) + (promise[b] - now) * Rate[b] >= Cost[b]
    <3>1. promise[b] - now = 0
      <4>1. now \in Nat /\ promise[b] \in Nat
        BY BucketTypes
      <4> QED
        BY <2>2, <4>1
    <3>2. (promise[b] - now) * Rate[b] = 0
      BY <3>1, BucketTypes
    <3> QED
      BY <2>2, <3>2, HoldsType, BucketTypes
  <2> QED
    BY <2>1, <2>2 DEF PromiseInv
<1> QED
  BY <1>1, <1>2, LimiterTypeCorrect, PromiseInduction, PTL DEF LimiterSpec

\* Dropped, made anew and refilled late, the buckets are those that have always
\* been there and fill all the time.
THEOREM BucketsImplemented == LimiterSpec => ImplementsBuckets
<1> DEFINE held == [b \in Buckets |-> Holds(b)]
<1>1. LimiterInit => Ideal!BucketsInit
  <2> SUFFICES ASSUME LimiterInit PROVE held = Full
    BY DEF Ideal!BucketsInit
  <2>1. LimiterTypeOK
    BY LimiterAssumption DEF LimiterInit, LimiterTypeOK
  <2>2. ASSUME NEW b \in Buckets PROVE Holds(b) = Full[b]
    <3>1. tokens[b] = Full[b] /\ (now - last[b]) * Rate[b] = 0
      BY <2>1, BucketTypes DEF LimiterInit
    <3> QED
      BY <2>1, <3>1, BucketTypes DEF Holds, AtMost
  <2> QED
    BY <2>2, LimiterAssumption
<1>2. LimiterTypeOK /\ [LimiterNext]_limiterVars => [Ideal!BucketsNext]_held
  <2> SUFFICES ASSUME LimiterTypeOK, [LimiterNext]_limiterVars
               PROVE  [Ideal!BucketsNext]_held
    OBVIOUS
  <2>1. CASE Tick
    <3>1. \A b \in Buckets : Holds(b)' = AtMost(Holds(b) + Rate[b], Full[b])
      BY <2>1, TickHolds
    <3>2. Ideal!Fill
      BY <3>1 DEF Ideal!Fill, Ideal!AtMost, AtMost
    <3> QED
      BY <3>2 DEF Ideal!BucketsNext
  <2>2. ASSUME NEW r \in Requests, Check(r)
        PROVE  [Ideal!BucketsNext]_held
    <3>1. Path[r] \in Seq(Buckets)
      BY LimiterAssumption
    <3>2. \A i \in DOMAIN Path[r] : Passes(Path[r][i]) <=> Ideal!Enough(Path[r][i])
      BY <3>1, RefilledIsHolds DEF Passes, Ideal!Enough
    <3>3. Charged(r) = Ideal!Pays(r)
      BY <3>1, <3>2 DEF Charged, Asked, Ideal!Pays
    <3>4. \A b \in Buckets :
            Holds(b)' = IF b \in Charged(r) THEN Holds(b) - Cost[b] ELSE Holds(b)
      BY <2>2, CheckHolds
    <3>5. Ideal!Ask(r)
      BY <3>3, <3>4 DEF Ideal!Ask
    <3> QED
      BY <3>5 DEF Ideal!BucketsNext
  <2>3. CASE UNCHANGED limiterVars
    BY <2>3 DEF limiterVars, observers, Holds
  <2> QED
    BY <2>1, <2>2, <2>3 DEF LimiterNext
<1> QED
  BY <1>1, <1>2, LimiterTypeCorrect, PTL DEF LimiterSpec, ImplementsBuckets, Ideal!BucketsSpec

-----------------------------------------------------------------------------
(* Streams.                                                                *)

\* A gateway makes no broadcast of a node's kind.
NoCasts == server = "gateway" => \A b \in Broadcasts : cast[b] = "idle"

\* A stream that has not been asked for has no events and no connection, and
\* nobody waits for its queue.
Fresh ==
  \A c \in Streams : phase[c] = "idle" =>
    log[c] = <<>> /\ c \notin table /\ \A b \in Broadcasts : at[b] # c

\* A node knows the connections whose generator runs.
NodeKnows == server = "node" => \A c \in Streams : c \in table <=> phase[c] = "running"

\* Among any connections there is one that was inserted first.
HasFirst ==
  \A T \in SUBSET table : T # {} => \E c \in T : \A d \in T \ {c} : <<c, d>> \in before

\* A broadcast has come to a connection only to put its event there, to give it
\* up, or to wait for it; one that has not begun knows of none.
ReachedBy(b) ==
  /\ cast[b] = "idle" => members[b] = {} /\ visited[b] = {} /\ at[b] = None
  /\ cast[b] = "blocked" => at[b] \in Streams
  /\ cast[b] = "next" => at[b] = None
  /\ cast[b] \in {"next", "blocked"} =>
       \A c \in visited[b] : c = at[b] \/ c \in full[b] \/ b \in ToSet(log[c])

Reached == \A b \in Broadcasts : ReachedBy(b)

StreamsInv ==
  /\ StreamsTypeOK /\ SlotsAreStreams /\ NoCasts /\ Fresh /\ NodeKnows
  /\ HasFirst /\ GaplessAtGateway /\ Reached

-----------------------------------------------------------------------------
\* Queues and the dictionary.

LEMMA AppendFacts ==
  ASSUME NEW S, NEW s \in Seq(S), NEW e \in S
  PROVE  /\ Append(s, e) \in Seq(S) /\ Len(Append(s, e)) = Len(s) + 1 /\ Len(s) \in Nat
         /\ ToSet(Append(s, e)) = ToSet(s) \cup {e}
         /\ DOMAIN Append(s, e) = DOMAIN s \cup {Len(s) + 1}
         /\ \A i \in DOMAIN Append(s, e) :
              Append(s, e)[i] = IF i = Len(s) + 1 THEN e ELSE s[i]
<1>1. Append(s, e) \in Seq(S) /\ Len(Append(s, e)) = Len(s) + 1
  OBVIOUS
<1>2. \A i \in 1..Len(s) + 1 : Append(s, e)[i] = IF i = Len(s) + 1 THEN e ELSE s[i]
  OBVIOUS
<1>3. DOMAIN s = 1..Len(s) /\ DOMAIN Append(s, e) = 1..Len(s) + 1 /\ Len(s) \in Nat
  OBVIOUS
<1> QED
  BY <1>1, <1>2, <1>3 DEF ToSet

LEMMA InsertFacts ==
  ASSUME StreamsTypeOK, HasFirst, NEW c \in Streams, c \notin table, Insert(c)
  PROVE  /\ table' = table \cup {c} /\ table' \subseteq Streams
         /\ before' \subseteq table' \X table' /\ HasFirst'
<1>1. /\ table' = table \cup {c} /\ before' = before \cup (table \X {c})
      /\ table \subseteq Streams /\ before \subseteq table \X table
  BY DEF Insert, StreamsTypeOK
<1>2. ASSUME NEW T \in SUBSET table', T # {}
      PROVE  \E e \in T : \A d \in T \ {e} : <<e, d>> \in before'
  <2>1. CASE T \ {c} = {}
    BY <1>2, <2>1
  <2>2. CASE T \ {c} # {}
    <3>1. PICK e \in T \ {c} : \A d \in (T \ {c}) \ {e} : <<e, d>> \in before
      BY <1>1, <2>2 DEF HasFirst
    <3>2. <<e, c>> \in before'
      BY <1>1, <1>2, <3>1
    <3> QED
      BY <1>1, <3>1, <3>2
  <2> QED
    BY <2>1, <2>2
<1> QED
  BY <1>1, <1>2 DEF HasFirst

LEMMA KeepFacts ==
  ASSUME StreamsTypeOK, HasFirst, NEW S \in SUBSET table, Keep(S)
  PROVE  /\ table' = S /\ table' \subseteq Streams
         /\ before' \subseteq table' \X table' /\ HasFirst'
<1>1. /\ table' = S /\ before' = before \cap (S \X S)
      /\ table \subseteq Streams /\ before \subseteq table \X table
  BY DEF Keep, StreamsTypeOK
<1>2. ASSUME NEW T \in SUBSET table', T # {}
      PROVE  \E e \in T : \A d \in T \ {e} : <<e, d>> \in before'
  <2>1. PICK e \in T : \A d \in T \ {e} : <<e, d>> \in before
    BY <1>1, <1>2 DEF HasFirst
  <2> QED
    BY <1>1, <1>2, <2>1
<1> QED
  BY <1>1, <1>2 DEF HasFirst

\* An event is put into a queue with room.
LEMMA PutFacts ==
  ASSUME StreamsTypeOK, NEW b \in Broadcasts, NEW c \in Streams, Room(c), PutIn(b, c)
  PROVE  /\ log' \in [Streams -> Seq(Nat \cup Broadcasts)]
         /\ \A d \in Streams : Len(log'[d]) - sent[d] \in 0..Cap
         /\ \A d \in Streams : ToSet(log[d]) \subseteq ToSet(log'[d])
         /\ \A d \in Streams \ {c} : log'[d] = log[d]
         /\ b \in ToSet(log'[c])
<1>1. log \in [Streams -> Seq(Nat \cup Broadcasts)] /\ log[c] \in Seq(Nat \cup Broadcasts)
      /\ \A d \in Streams : Len(log[d]) - sent[d] \in 0..Cap
      /\ sent \in [Streams -> Nat] /\ sent[c] \in Nat /\ Cap \in Nat
  BY StreamsAssumption DEF StreamsTypeOK
<1>2. /\ log' = [log EXCEPT ![c] = Append(log[c], b)] /\ log'[c] = Append(log[c], b)
      /\ Append(log[c], b) \in Seq(Nat \cup Broadcasts)
      /\ Len(log'[c]) = Len(log[c]) + 1 /\ Len(log[c]) \in Nat
      /\ ToSet(log'[c]) = ToSet(log[c]) \cup {b}
  BY <1>1, AppendFacts DEF PutIn
<1>3. Len(log'[c]) - sent[c] \in 0..Cap
  <2>1. Len(log[c]) - sent[c] < Cap
    BY DEF Room
  <2> QED
    BY <1>1, <1>2, <2>1
<1>4. \A d \in Streams \ {c} : log'[d] = log[d]
  BY <1>1, <1>2
<1> QED
  BY <1>1, <1>2, <1>3, <1>4

-----------------------------------------------------------------------------
\* Types.

LEMMA StreamTypesInduction ==
  ASSUME StreamsInv, [StreamsNext]_streamVars
  PROVE  StreamsTypeOK'
<1> USE StreamsAssumption
<1>0. StreamsTypeOK /\ HasFirst /\ Fresh /\ Reached /\ NodeKnows
  BY DEF StreamsInv
<1>1. ASSUME NEW c \in Streams, Open(c) PROVE StreamsTypeOK'
  <2>1. /\ UNCHANGED <<server, log, sent, emitted, cast, at, members, visited, full>>
        /\ phase' = [phase EXCEPT ![c] = "opened"] /\ slots' = slots + 1
        /\ ipSlots' = [ipSlots EXCEPT ![IpOf[c]] = ipSlots[IpOf[c]] + 1]
        /\ joined' = [joined EXCEPT ![c] = emitted]
    BY <1>1 DEF Open, castVars, iterVars
  <2>2. c \notin table
    BY <1>0, <1>1 DEF Open, Fresh
  <2>3. table' \subseteq Streams /\ before' \subseteq table' \X table'
    BY <1>0, <1>1, <2>2, InsertFacts DEF Open, StreamsTypeOK, tableVars
  <2>4. /\ ipSlots' \in [Ips -> Nat] /\ slots' \in Nat
        /\ joined' \in [Streams -> Nat]
    <3>1. IpOf[c] \in Ips /\ ipSlots \in [Ips -> Nat] /\ ipSlots[IpOf[c]] + 1 \in Nat
          /\ slots \in Nat /\ emitted \in Nat /\ joined \in [Streams -> Nat]
      BY <1>0 DEF StreamsTypeOK
    <3> QED
      BY <2>1, <3>1
  <2> QED
    BY <1>0, <2>1, <2>3, <2>4 DEF StreamsTypeOK
<1>2. ASSUME NEW c \in Streams, Run(c) PROVE StreamsTypeOK'
  <2>1. /\ UNCHANGED <<server, slots, ipSlots, log, sent, emitted, joined, cast, at, members,
                       visited, full>>
        /\ phase' = [phase EXCEPT ![c] = "running"]
    BY <1>2 DEF Run, slotVars, castVars, iterVars
  <2>2. Adds(c) => c \notin table
    BY <1>0, <1>2 DEF Run, Adds, NodeKnows
  <2>3. table' \subseteq Streams /\ before' \subseteq table' \X table'
    BY <1>0, <1>2, <2>2, InsertFacts DEF Run, StreamsTypeOK, tableVars
  <2> QED
    BY <1>0, <2>1, <2>3 DEF StreamsTypeOK
<1>3. ASSUME NEW c \in Streams, Lose(c) PROVE StreamsTypeOK'
  BY <1>0, <1>3 DEF Lose, StreamsTypeOK, slotVars, tableVars, castVars, iterVars
<1>4. ASSUME NEW c \in Streams, Send(c) PROVE StreamsTypeOK'
  <2>1. /\ UNCHANGED <<server, phase, slots, ipSlots, table, before, log, emitted, joined,
                       cast, at, members, visited, full>>
        /\ sent' = [sent EXCEPT ![c] = sent[c] + 1] /\ sent[c] < Len(log[c])
    BY <1>4 DEF Send, slotVars, tableVars, castVars, iterVars
  <2>2. /\ sent \in [Streams -> Nat] /\ Cap \in Nat /\ log[c] \in Seq(Nat \cup Broadcasts)
        /\ Len(log[c]) \in Nat /\ sent[c] \in Nat
        /\ \A d \in Streams : Len(log[d]) - sent[d] \in 0..Cap
    BY <1>0 DEF StreamsTypeOK
  <2>3. Len(log[c]) - (sent[c] + 1) \in 0..Cap
    BY <2>1, <2>2
  <2>4. \A d \in Streams : Len(log'[d]) - sent'[d] \in 0..Cap
    BY <2>1, <2>2, <2>3
  <2> QED
    BY <1>0, <2>1, <2>2, <2>4 DEF StreamsTypeOK
<1>5. ASSUME NEW c \in Streams, Close(c) PROVE StreamsTypeOK'
  <2>1. /\ UNCHANGED <<server, log, sent, emitted, joined, cast, at, members, visited, full>>
        /\ phase' = [phase EXCEPT ![c] = "closed"] /\ slots' = OneLess(slots)
        /\ ipSlots' = [ipSlots EXCEPT ![IpOf[c]] = OneLess(ipSlots[IpOf[c]])]
    BY <1>5 DEF Close, castVars, iterVars
  <2>2. table' \subseteq Streams /\ before' \subseteq table' \X table'
    BY <1>0, <1>5, KeepFacts DEF Close
  <2>3. \A n \in Nat : OneLess(n) \in Nat
    BY DEF OneLess
  <2> QED
    BY <1>0, <2>1, <2>2, <2>3 DEF StreamsTypeOK
<1>6. CASE Emit
  <2>1. /\ UNCHANGED <<server, phase, slots, ipSlots, sent, joined, cast, at, members,
                       visited, full>>
        /\ emitted' = emitted + 1
        /\ log' = [c \in Streams |-> IF c \in table /\ Room(c) THEN Append(log[c], emitted')
                                     ELSE log[c]]
    BY <1>6 DEF Emit, slotVars, castVars, iterVars
  <2>2. table' \subseteq Streams /\ before' \subseteq table' \X table'
    <3>1. WithRoom \in SUBSET table
      BY DEF WithRoom
    <3> QED
      BY <1>0, <1>6, <3>1, KeepFacts DEF Emit
  <2>3. emitted' \in Nat
    BY <1>0, <2>1 DEF StreamsTypeOK
  <2>4. ASSUME NEW c \in Streams
        PROVE  log'[c] \in Seq(Nat \cup Broadcasts) /\ Len(log'[c]) - sent'[c] \in 0..Cap
    <3>1. /\ log[c] \in Seq(Nat \cup Broadcasts) /\ sent[c] \in Nat /\ Cap \in Nat
          /\ Len(log[c]) - sent[c] \in 0..Cap /\ sent'[c] = sent[c]
      BY <1>0, <2>1 DEF StreamsTypeOK
    <3>2. CASE c \in table /\ Room(c)
      <4>1. log'[c] = Append(log[c], emitted') /\ Len(log[c]) - sent[c] < Cap
        BY <2>1, <3>2 DEF Room
      <4>2. log'[c] \in Seq(Nat \cup Broadcasts) /\ Len(log'[c]) = Len(log[c]) + 1
            /\ Len(log[c]) \in Nat
        BY <2>3, <3>1, <4>1, AppendFacts
      <4> QED
        BY <3>1, <4>1, <4>2
    <3>3. CASE ~(c \in table /\ Room(c))
      BY <2>1, <3>1, <3>3
    <3> QED
      BY <3>2, <3>3
  <2> QED
    BY <1>0, <2>1, <2>2, <2>3, <2>4 DEF StreamsTypeOK
<1>7. ASSUME NEW b \in Broadcasts, Begin(b) PROVE StreamsTypeOK'
  BY <1>0, <1>7 DEF Begin, Goes, nodeVars, slotVars, tableVars, StreamsTypeOK
<1>8. ASSUME NEW b \in Broadcasts, Put(b) PROVE StreamsTypeOK'
  <2>1. PICK c \in Streams :
          /\ ComesTo(b, c) /\ visited' = [visited EXCEPT ![b] = visited[b] \cup {c}]
          /\ \/ Room(c) /\ PutIn(b, c) /\ UNCHANGED <<cast, at>>
             \/ Goes(b, "blocked") /\ at' = [at EXCEPT ![b] = c] /\ UNCHANGED log
    BY <1>8 DEF Put
  <2>2. UNCHANGED <<server, phase, slots, ipSlots, table, before, sent, emitted, joined,
                    members, full>>
    BY <1>8 DEF Put, nodeVars, slotVars, tableVars
  <2>3. visited' \in [Broadcasts -> SUBSET Streams]
    BY <1>0, <2>1 DEF StreamsTypeOK
  <2>4. CASE Room(c) /\ PutIn(b, c) /\ UNCHANGED <<cast, at>>
    <3>1. /\ log' \in [Streams -> Seq(Nat \cup Broadcasts)]
          /\ \A d \in Streams : Len(log'[d]) - sent'[d] \in 0..Cap
      BY <1>0, <2>2, <2>4, PutFacts
    <3> QED
      BY <1>0, <2>2, <2>3, <2>4, <3>1 DEF StreamsTypeOK
  <2>5. CASE Goes(b, "blocked") /\ at' = [at EXCEPT ![b] = c] /\ UNCHANGED log
    BY <1>0, <2>2, <2>3, <2>5 DEF StreamsTypeOK, Goes
  <2> QED
    BY <2>1, <2>4, <2>5
<1>9. ASSUME NEW b \in Broadcasts, PutLate(b) PROVE StreamsTypeOK'
  <2>1. /\ UNCHANGED <<server, phase, slots, ipSlots, table, before, sent, emitted, joined,
                       members, visited, full>>
        /\ Goes(b, "next") /\ at' = [at EXCEPT ![b] = None]
        /\ Room(at[b]) /\ PutIn(b, at[b]) /\ at[b] \in Streams
    BY <1>0, <1>9 DEF PutLate, Resume, nodeVars, slotVars, tableVars, iterVars, Reached, ReachedBy
  <2>2. /\ log' \in [Streams -> Seq(Nat \cup Broadcasts)]
        /\ \A d \in Streams : Len(log'[d]) - sent'[d] \in 0..Cap
    BY <1>0, <2>1, PutFacts
  <2> QED
    BY <1>0, <2>1, <2>2 DEF StreamsTypeOK, Goes
<1>10. ASSUME NEW b \in Broadcasts, PutTimeout(b) PROVE StreamsTypeOK'
  <2>1. at[b] \in Streams
    BY <1>0, <1>10 DEF PutTimeout, Reached, ReachedBy
  <2> QED
    BY <1>0, <1>10, <2>1
    DEF PutTimeout, Resume, Goes, nodeVars, slotVars, tableVars, StreamsTypeOK
<1>11. ASSUME NEW b \in Broadcasts, Finish(b) PROVE StreamsTypeOK'
  BY <1>0, <1>11 DEF Finish, End, Goes, nodeVars, slotVars, tableVars, StreamsTypeOK
<1>12. CASE UNCHANGED streamVars
  BY <1>0, <1>12 DEF streamVars, slotVars, tableVars, castVars, iterVars, StreamsTypeOK
<1> QED
  BY <1>1, <1>2, <1>3, <1>4, <1>5, <1>6, <1>7, <1>8, <1>9, <1>10, <1>11, <1>12
  DEF StreamsNext, Broadcasting

-----------------------------------------------------------------------------
\* Slots.

HoldingAt(i) == {c \in Holding : IpOf[c] = i}

LEMMA HoldingFinite ==
  /\ IsFiniteSet(Holding) /\ \A i \in Ips : IsFiniteSet(HoldingAt(i))
  /\ Cardinality(Holding) \in Nat /\ \A i \in Ips : Cardinality(HoldingAt(i)) \in Nat
<1>1. Holding \subseteq Streams /\ \A i \in Ips : HoldingAt(i) \subseteq Streams
  BY DEF Holding, HoldingAt
<1> QED
  BY <1>1, StreamsAssumption, FS_Subset, FS_CardinalityType

LEMMA SlotsInduction ==
  ASSUME StreamsInv, [StreamsNext]_streamVars
  PROVE  SlotsAreStreams'
<1>0. /\ phase \in [Streams -> {"idle", "opened", "running", "lost", "closed"}]
      /\ slots = Cardinality(Holding) /\ ipSlots \in [Ips -> Nat]
      /\ \A i \in Ips : ipSlots[i] = Cardinality(HoldingAt(i))
      /\ IpOf \in [Streams -> Ips]
  BY StreamsAssumption DEF StreamsInv, StreamsTypeOK, SlotsAreStreams, HoldingAt
<1> SUFFICES slots' = Cardinality(Holding') /\ \A i \in Ips : ipSlots'[i] = Cardinality(HoldingAt(i)')
  BY DEF SlotsAreStreams, HoldingAt
<1>1. ASSUME NEW c \in Streams, Open(c)
      PROVE  slots' = Cardinality(Holding') /\ \A i \in Ips : ipSlots'[i] = Cardinality(HoldingAt(i)')
  <2>1. /\ phase[c] = "idle" /\ phase' = [phase EXCEPT ![c] = "opened"]
        /\ slots' = slots + 1 /\ ipSlots' = [ipSlots EXCEPT ![IpOf[c]] = ipSlots[IpOf[c]] + 1]
    BY <1>1 DEF Open
  <2>2. c \notin Holding /\ Holding' = Holding \cup {c}
    BY <1>0, <2>1 DEF Holding
  <2>3. slots' = Cardinality(Holding')
    BY <1>0, <2>1, <2>2, HoldingFinite, FS_AddElement
  <2>4. ASSUME NEW i \in Ips PROVE ipSlots'[i] = Cardinality(HoldingAt(i)')
    <3>1. CASE i = IpOf[c]
      <4>1. c \notin HoldingAt(i) /\ HoldingAt(i)' = HoldingAt(i) \cup {c}
        BY <2>2, <3>1 DEF HoldingAt
      <4>2. Cardinality(HoldingAt(i)') = Cardinality(HoldingAt(i)) + 1
        BY <4>1, HoldingFinite, FS_AddElement
      <4> QED
        BY <1>0, <2>1, <3>1, <4>2
    <3>2. CASE i # IpOf[c]
      <4>1. HoldingAt(i)' = HoldingAt(i)
        BY <2>2, <3>2 DEF HoldingAt
      <4> QED
        BY <1>0, <2>1, <3>2, <4>1
    <3> QED
      BY <3>1, <3>2
  <2> QED
    BY <2>3, <2>4
<1>2. ASSUME NEW c \in Streams, Close(c)
      PROVE  slots' = Cardinality(Holding') /\ \A i \in Ips : ipSlots'[i] = Cardinality(HoldingAt(i)')
  <2>1. /\ phase[c] = "running" /\ phase' = [phase EXCEPT ![c] = "closed"]
        /\ slots' = OneLess(slots)
        /\ ipSlots' = [ipSlots EXCEPT ![IpOf[c]] = OneLess(ipSlots[IpOf[c]])]
    BY <1>2 DEF Close
  <2>2. c \in Holding /\ Holding' = Holding \ {c}
    BY <1>0, <2>1 DEF Holding
  <2>3. \A S : IsFiniteSet(S) /\ c \in S =>
          OneLess(Cardinality(S)) = Cardinality(S \ {c})
    <3> SUFFICES ASSUME NEW S, IsFiniteSet(S), c \in S
                 PROVE  OneLess(Cardinality(S)) = Cardinality(S \ {c})
      OBVIOUS
    <3>1. Cardinality(S \ {c}) = Cardinality(S) - 1 /\ IsFiniteSet(S \ {c})
      BY FS_RemoveElement
    <3>2. Cardinality(S) \in Nat /\ Cardinality(S \ {c}) \in Nat
      BY <3>1, FS_CardinalityType
    <3> QED
      BY <3>1, <3>2 DEF OneLess
  <2>4. slots' = Cardinality(Holding')
    BY <1>0, <2>1, <2>2, <2>3, HoldingFinite
  <2>5. ASSUME NEW i \in Ips PROVE ipSlots'[i] = Cardinality(HoldingAt(i)')
    <3>1. CASE i = IpOf[c]
      <4>1. c \in HoldingAt(i) /\ HoldingAt(i)' = HoldingAt(i) \ {c}
        BY <2>2, <3>1 DEF HoldingAt
      <4>2. OneLess(Cardinality(HoldingAt(i))) = Cardinality(HoldingAt(i)')
        BY <2>3, <4>1, HoldingFinite
      <4> QED
        BY <1>0, <2>1, <3>1, <4>2
    <3>2. CASE i # IpOf[c]
      <4>1. HoldingAt(i)' = HoldingAt(i)
        BY <2>2, <3>2 DEF HoldingAt
      <4> QED
        BY <1>0, <2>1, <3>2, <4>1
    <3> QED
      BY <3>1, <3>2
  <2> QED
    BY <2>4, <2>5
<1>3. ASSUME UNCHANGED slotVars,
             UNCHANGED phase \/ \E c \in Streams : Run(c) \/ Lose(c)
      PROVE  slots' = Cardinality(Holding') /\ \A i \in Ips : ipSlots'[i] = Cardinality(HoldingAt(i)')
  <2>1. Holding' = Holding
    <3>1. ASSUME NEW c \in Streams, Run(c) \/ Lose(c) PROVE Holding' = Holding
      <4>1. phase[c] = "opened" /\ \E p \in {"running", "lost"} : phase' = [phase EXCEPT ![c] = p]
        BY <3>1 DEF Run, Lose
      <4> QED
        BY <1>0, <4>1 DEF Holding
    <3> QED
      BY <1>3, <3>1 DEF Holding
  <2>2. \A i \in Ips : HoldingAt(i)' = HoldingAt(i)
    BY <2>1 DEF HoldingAt
  <2> QED
    BY <1>0, <1>3, <2>1, <2>2 DEF slotVars
<1>4. ASSUME \/ \E c \in Streams : Run(c) \/ Lose(c) \/ Send(c)
             \/ Emit
             \/ \E b \in Broadcasts : Begin(b) \/ Broadcasting(b)
             \/ UNCHANGED streamVars
      PROVE  UNCHANGED slotVars /\ (UNCHANGED phase \/ \E c \in Streams : Run(c) \/ Lose(c))
  BY <1>4 DEF Run, Lose, Send, Emit, Begin, Broadcasting, Put, PutLate, PutTimeout, Finish,
              nodeVars, streamVars
<1> QED
  BY <1>1, <1>2, <1>3, <1>4 DEF StreamsNext

-----------------------------------------------------------------------------
\* Who is known.

LEMMA TableInduction ==
  ASSUME StreamsInv, [StreamsNext]_streamVars
  PROVE  NoCasts' /\ Fresh' /\ NodeKnows' /\ HasFirst'
<1>0. /\ StreamsTypeOK /\ NoCasts /\ Fresh /\ NodeKnows /\ HasFirst /\ Reached
      /\ phase \in [Streams -> {"idle", "opened", "running", "lost", "closed"}]
      /\ server \in {"gateway", "node"} /\ table \subseteq Streams
  BY DEF StreamsInv, StreamsTypeOK
<1>1. ASSUME NEW c \in Streams, Open(c) PROVE NoCasts' /\ Fresh' /\ NodeKnows' /\ HasFirst'
  <2>1. /\ phase[c] = "idle" /\ phase' = [phase EXCEPT ![c] = "opened"]
        /\ UNCHANGED <<server, log, cast, at>> /\ c \notin table
        /\ IF server = "gateway" THEN Insert(c) ELSE UNCHANGED <<table, before>>
    BY <1>0, <1>1 DEF Open, castVars, tableVars, Adds, Fresh
  <2>2. table' = (IF server = "gateway" THEN table \cup {c} ELSE table) /\ HasFirst'
    BY <1>0, <2>1, InsertFacts DEF HasFirst
  <2> QED
    BY <1>0, <2>1, <2>2 DEF NoCasts, Fresh, NodeKnows
<1>2. ASSUME NEW c \in Streams, Run(c) PROVE NoCasts' /\ Fresh' /\ NodeKnows' /\ HasFirst'
  <2>1. /\ phase[c] = "opened" /\ phase' = [phase EXCEPT ![c] = "running"]
        /\ UNCHANGED <<server, log, cast, at>> /\ (server = "node" => c \notin table)
        /\ IF server = "node" THEN Insert(c) ELSE UNCHANGED <<table, before>>
    BY <1>0, <1>2 DEF Run, castVars, tableVars, Adds, NodeKnows
  <2>2. table' = (IF server = "node" THEN table \cup {c} ELSE table) /\ HasFirst'
    BY <1>0, <2>1, InsertFacts DEF HasFirst
  <2> QED
    BY <1>0, <2>1, <2>2 DEF NoCasts, Fresh, NodeKnows
<1>3. ASSUME NEW c \in Streams, Lose(c) PROVE NoCasts' /\ Fresh' /\ NodeKnows' /\ HasFirst'
  BY <1>0, <1>3 DEF Lose, castVars, tableVars, NoCasts, Fresh, NodeKnows, HasFirst
<1>4. ASSUME NEW c \in Streams, Close(c) PROVE NoCasts' /\ Fresh' /\ NodeKnows' /\ HasFirst'
  <2>1. /\ phase[c] = "running" /\ phase' = [phase EXCEPT ![c] = "closed"]
        /\ UNCHANGED <<server, log, cast, at>> /\ Keep(table \ {c})
    BY <1>4 DEF Close, castVars
  <2>2. table' = table \ {c} /\ HasFirst'
    BY <1>0, <2>1, KeepFacts
  <2> QED
    BY <1>0, <2>1, <2>2 DEF NoCasts, Fresh, NodeKnows
<1>5. CASE Emit
  <2>1. WithRoom \subseteq table
    BY DEF WithRoom
  <2>2. /\ server = "gateway" /\ UNCHANGED <<server, phase, cast, at>> /\ Keep(WithRoom)
        /\ \A c \in Streams \ table : log'[c] = log[c]
    BY <1>5 DEF Emit, castVars
  <2>3. table' \subseteq table /\ HasFirst'
    BY <1>0, <2>1, <2>2, KeepFacts
  <2> QED
    BY <1>0, <2>2, <2>3 DEF NoCasts, Fresh, NodeKnows
<1>6. ASSUME \/ \E c \in Streams : Send(c)
             \/ \E b \in Broadcasts : Begin(b) \/ Broadcasting(b)
             \/ UNCHANGED streamVars
      PROVE  NoCasts' /\ Fresh' /\ NodeKnows' /\ HasFirst'
  <2>1. UNCHANGED <<server, phase, table, before>>
    BY <1>6 DEF Send, Begin, Broadcasting, Put, PutLate, PutTimeout, Finish, nodeVars,
                streamVars, tableVars
  <2>2. NoCasts'
    <3>1. server = "node" \/ UNCHANGED cast
      BY <1>0, <1>6 DEF Send, Begin, Broadcasting, Put, PutLate, PutTimeout, Finish,
                        streamVars, castVars, NoCasts
    <3> QED
      BY <1>0, <2>1, <3>1 DEF NoCasts
  <2>3. Fresh'
    <3>1. \/ UNCHANGED log
          \/ \E b \in Broadcasts, c \in Streams : PutIn(b, c) /\ phase[c] # "idle"
      <4>1. ASSUME NEW b \in Broadcasts, Put(b) \/ PutLate(b)
            PROVE  \/ UNCHANGED log
                   \/ \E c \in Streams : PutIn(b, c) /\ phase[c] # "idle"
        <5>1. CASE Put(b)
          BY <1>0, <5>1 DEF Put, ComesTo, Unvisited, Fresh
        <5>2. CASE PutLate(b)
          BY <1>0, <5>2 DEF PutLate, Fresh, Reached, ReachedBy
        <5> QED
          BY <4>1, <5>1, <5>2
      <4> QED
        BY <1>6, <4>1 DEF Send, Begin, Broadcasting, PutTimeout, Finish, streamVars
    <3>2. \A d \in Streams : phase[d] = "idle" => log'[d] = log[d]
      <4>1. ASSUME NEW b \in Broadcasts, NEW c \in Streams, PutIn(b, c), phase[c] # "idle",
                   NEW d \in Streams, phase[d] = "idle"
            PROVE  log'[d] = log[d]
        BY <1>0, <4>1 DEF PutIn, StreamsTypeOK
      <4> QED
        BY <3>1, <4>1
    <3>3. ASSUME NEW b \in Broadcasts, NEW d \in Streams, phase[d] = "idle"
          PROVE  at'[b] # d
      <4>1. at \in [Broadcasts -> Streams \cup {None}] /\ at[b] # d /\ None # d /\ d \notin table
        BY <1>0, <3>3, StreamsAssumption DEF StreamsTypeOK, Fresh
      <4>2. \/ UNCHANGED at
            \/ \E e \in Broadcasts, c \in table \cup {None} : at' = [at EXCEPT ![e] = c]
        BY <1>6 DEF Send, Begin, Broadcasting, Put, PutLate, PutTimeout, Finish, Resume,
                    ComesTo, Unvisited, streamVars, castVars
      <4> QED
        BY <4>1, <4>2
    <3> QED
      BY <1>0, <2>1, <3>2, <3>3 DEF Fresh
  <2> QED
    BY <1>0, <2>1, <2>2, <2>3 DEF NodeKnows, HasFirst
<1> QED
  BY <1>1, <1>2, <1>3, <1>4, <1>5, <1>6 DEF StreamsNext

-----------------------------------------------------------------------------
\* The gateway's events.

LEMMA GaplessInduction ==
  ASSUME StreamsInv, [StreamsNext]_streamVars
  PROVE  GaplessAtGateway'
<1>0. /\ StreamsTypeOK /\ NoCasts /\ Fresh /\ GaplessAtGateway
      /\ log \in [Streams -> Seq(Nat \cup Broadcasts)] /\ joined \in [Streams -> Nat]
      /\ emitted \in Nat
  BY DEF StreamsInv, StreamsTypeOK
<1> SUFFICES ASSUME server' = "gateway", NEW c \in Streams
             PROVE  /\ \A k \in DOMAIN log'[c] : log'[c][k] = joined'[c] + k
                    /\ c \in table' => joined'[c] + Len(log'[c]) = emitted'
  BY DEF GaplessAtGateway
<1>1. server = "gateway"
  BY DEF StreamsNext, Open, Run, Lose, Send, Close, Emit, Begin, Broadcasting, Put, PutLate,
         PutTimeout, Finish, nodeVars, streamVars
<1>2. /\ \A k \in DOMAIN log[c] : log[c][k] = joined[c] + k
      /\ c \in table => joined[c] + Len(log[c]) = emitted
  BY <1>0, <1>1 DEF GaplessAtGateway
<1>3. ASSUME NEW d \in Streams, Open(d)
      PROVE  /\ \A k \in DOMAIN log'[c] : log'[c][k] = joined'[c] + k
             /\ c \in table' => joined'[c] + Len(log'[c]) = emitted'
  <2>1. /\ table' = table \cup {d} /\ joined' = [joined EXCEPT ![d] = emitted]
        /\ log' = log /\ emitted' = emitted /\ log[d] = <<>>
    BY <1>0, <1>1, <1>3 DEF Open, Adds, Insert, Fresh
  <2>2. CASE c = d
    <3>1. joined'[c] = emitted /\ log'[c] = <<>>
      BY <1>0, <2>1, <2>2
    <3>2. DOMAIN log'[c] = {} /\ Len(log'[c]) = 0
      BY <3>1
    <3> QED
      BY <1>0, <2>1, <3>1, <3>2
  <2>3. CASE c # d
    BY <1>0, <1>2, <2>1, <2>3
  <2> QED
    BY <2>2, <2>3
<1>4. CASE Emit
  <2>1. /\ table' = WithRoom /\ joined' = joined /\ emitted' = emitted + 1
        /\ log'[c] = IF c \in table /\ Room(c) THEN Append(log[c], emitted + 1) ELSE log[c]
    BY <1>4 DEF Emit, Keep
  <2>2. CASE c \in table /\ Room(c)
    <3>1. log'[c] = Append(log[c], emitted + 1)
      BY <2>1, <2>2
    <3>2. /\ Len(log'[c]) = Len(log[c]) + 1 /\ Len(log[c]) \in Nat
          /\ DOMAIN log'[c] = DOMAIN log[c] \cup {Len(log[c]) + 1}
          /\ \A k \in DOMAIN log'[c] :
               log'[c][k] = IF k = Len(log[c]) + 1 THEN emitted + 1 ELSE log[c][k]
      BY <1>0, <3>1, AppendFacts
    <3>3. joined[c] + Len(log[c]) = emitted /\ joined[c] \in Nat
      BY <1>0, <1>2, <2>2
    <3> QED
      BY <1>0, <1>2, <2>1, <3>2, <3>3
  <2>3. CASE ~(c \in table /\ Room(c))
    BY <1>2, <2>1, <2>3 DEF WithRoom
  <2> QED
    BY <2>2, <2>3
<1>5. ASSUME \/ \E d \in Streams : Run(d) \/ Lose(d) \/ Send(d) \/ Close(d)
             \/ \E b \in Broadcasts : Begin(b) \/ Broadcasting(b)
             \/ UNCHANGED streamVars
      PROVE  UNCHANGED <<log, joined, emitted>> /\ table' \subseteq table
  <2>1. ASSUME NEW d \in Streams, Run(d) \/ Lose(d) \/ Send(d) \/ Close(d)
        PROVE  UNCHANGED <<log, joined, emitted>> /\ table' \subseteq table
    BY <1>1, <2>1 DEF Run, Lose, Send, Close, Adds, Keep, tableVars
  <2>2. ASSUME NEW b \in Broadcasts, Begin(b) \/ Broadcasting(b) PROVE FALSE
    BY <1>0, <1>1, <2>2 DEF NoCasts, Begin, Broadcasting, Put, PutLate, PutTimeout, Finish
  <2>3. CASE UNCHANGED streamVars
    BY <2>3 DEF streamVars, tableVars
  <2> QED
    BY <1>5, <2>1, <2>2, <2>3
<1> QED
  BY <1>2, <1>3, <1>4, <1>5 DEF StreamsNext

-----------------------------------------------------------------------------
\* A node's broadcasts.

LEMMA ReachedInduction ==
  ASSUME StreamsInv, [StreamsNext]_streamVars
  PROVE  Reached'
<1>0. /\ StreamsTypeOK /\ NoCasts /\ Reached /\ None \notin Streams
      /\ cast \in [Broadcasts -> {"idle", "next", "blocked", "done", "aborted"}]
      /\ at \in [Broadcasts -> Streams \cup {None}]
      /\ members \in [Broadcasts -> SUBSET Streams]
      /\ visited \in [Broadcasts -> SUBSET Streams]
      /\ full \in [Broadcasts -> SUBSET Streams]
  BY StreamsAssumption DEF StreamsInv, StreamsTypeOK
<1>1. ASSUME NEW b \in Broadcasts, \A d \in Streams : ToSet(log[d]) \subseteq ToSet(log'[d]),
             cast'[b] = cast[b], at'[b] = at[b], members'[b] = members[b],
             visited'[b] = visited[b], full'[b] = full[b]
      PROVE  ReachedBy(b)'
  BY <1>0, <1>1 DEF Reached, ReachedBy
<1>2. ASSUME NEW c \in Streams, Open(c) \/ Run(c) \/ Lose(c) \/ Send(c) \/ Close(c)
      PROVE  Reached'
  <2>1. UNCHANGED <<log, cast, at, members, visited, full>>
    BY <1>2 DEF Open, Run, Lose, Send, Close, castVars, iterVars
  <2> QED
    BY <1>1, <2>1 DEF Reached
<1>3. CASE Emit
  <2>1. UNCHANGED <<cast, at, members, visited, full>> /\ \A b \in Broadcasts : cast[b] = "idle"
    BY <1>0, <1>3 DEF Emit, castVars, iterVars, NoCasts
  <2> QED
    BY <1>0, <2>1 DEF Reached, ReachedBy
<1>4. ASSUME NEW b \in Broadcasts, Begin(b) PROVE Reached'
  <2>1. /\ cast[b] = "idle" /\ cast' = [cast EXCEPT ![b] = IF table = {} THEN "done" ELSE "next"]
        /\ members' = [members EXCEPT ![b] = table] /\ UNCHANGED <<log, at, visited, full>>
    BY <1>4 DEF Begin, Goes
  <2>2. ReachedBy(b)'
    BY <1>0, <2>1 DEF Reached, ReachedBy
  <2>3. \A e \in Broadcasts \ {b} : ReachedBy(e)'
    BY <1>0, <1>1, <2>1
  <2> QED
    BY <2>2, <2>3 DEF Reached
<1>5. ASSUME NEW b \in Broadcasts, Put(b) PROVE Reached'
  <2>1. PICK c \in Streams :
          /\ visited' = [visited EXCEPT ![b] = visited[b] \cup {c}]
          /\ \/ Room(c) /\ PutIn(b, c) /\ UNCHANGED <<cast, at>>
             \/ /\ cast' = [cast EXCEPT ![b] = "blocked"] /\ at' = [at EXCEPT ![b] = c]
                /\ UNCHANGED log
    BY <1>5 DEF Put, Goes
  <2>2. cast[b] = "next" /\ UNCHANGED <<members, full>>
    BY <1>5 DEF Put
  <2>3. /\ \A d \in Streams : ToSet(log[d]) \subseteq ToSet(log'[d])
        /\ PutIn(b, c) /\ Room(c) => b \in ToSet(log'[c])
    BY <1>0, <2>1, PutFacts
  <2>4. ReachedBy(b)'
    <3>1. at[b] = None /\ \A d \in visited[b] : d \in full[b] \/ b \in ToSet(log'[d])
      BY <1>0, <2>2, <2>3 DEF Reached, ReachedBy
    <3> QED
      BY <1>0, <2>1, <2>2, <2>3, <3>1 DEF ReachedBy
  <2>5. \A e \in Broadcasts \ {b} : ReachedBy(e)'
    BY <1>0, <1>1, <2>1, <2>2, <2>3
  <2> QED
    BY <2>4, <2>5 DEF Reached
<1>6. ASSUME NEW b \in Broadcasts, PutLate(b) \/ PutTimeout(b) PROVE Reached'
  <2>1. /\ cast[b] = "blocked" /\ cast' = [cast EXCEPT ![b] = "next"]
        /\ at' = [at EXCEPT ![b] = None] /\ UNCHANGED <<members, visited>>
        /\ \/ Room(at[b]) /\ PutIn(b, at[b]) /\ UNCHANGED full
           \/ full' = [full EXCEPT ![b] = full[b] \cup {at[b]}] /\ UNCHANGED log
    BY <1>6 DEF PutLate, PutTimeout, Resume, Goes, iterVars
  <2>2. /\ at[b] \in Streams
        /\ \A d \in visited[b] : d = at[b] \/ d \in full[b] \/ b \in ToSet(log[d])
    BY <1>0, <2>1 DEF Reached, ReachedBy
  <2>3. /\ \A d \in Streams : ToSet(log[d]) \subseteq ToSet(log'[d])
        /\ PutIn(b, at[b]) /\ Room(at[b]) => b \in ToSet(log'[at[b]])
    BY <1>0, <2>1, <2>2, PutFacts
  <2>4. ReachedBy(b)'
    BY <1>0, <2>1, <2>2, <2>3 DEF ReachedBy
  <2>5. \A e \in Broadcasts \ {b} : ReachedBy(e)'
    BY <1>0, <1>1, <2>1, <2>3
  <2> QED
    BY <2>4, <2>5 DEF Reached
<1>7. ASSUME NEW b \in Broadcasts, Finish(b) PROVE Reached'
  <2>1. /\ \E s \in {"done", "aborted"} : cast' = [cast EXCEPT ![b] = s]
        /\ members' = [members EXCEPT ![b] = {}] /\ visited' = [visited EXCEPT ![b] = {}]
        /\ full' = [full EXCEPT ![b] = {}] /\ UNCHANGED <<log, at>>
    BY <1>7 DEF Finish, End, Goes
  <2>2. ReachedBy(b)'
    BY <1>0, <2>1 DEF ReachedBy
  <2>3. \A e \in Broadcasts \ {b} : ReachedBy(e)'
    BY <1>0, <1>1, <2>1
  <2> QED
    BY <2>2, <2>3 DEF Reached
<1>8. CASE UNCHANGED streamVars
  BY <1>1, <1>8 DEF streamVars, castVars, iterVars, Reached
<1> QED
  BY <1>2, <1>3, <1>4, <1>5, <1>6, <1>7, <1>8 DEF StreamsNext, Broadcasting

-----------------------------------------------------------------------------
\* The inductive invariant and what follows from it.

LEMMA StreamsInvInit == StreamsInit => StreamsInv
<1> SUFFICES ASSUME StreamsInit PROVE StreamsInv
  OBVIOUS
<1> USE StreamsAssumption
<1>1. StreamsTypeOK
  <2>1. \A c \in Streams : log[c] = <<>> /\ Len(log[c]) - sent[c] \in 0..Cap
    BY DEF StreamsInit
  <2>2. log \in [Streams -> Seq(Nat \cup Broadcasts)]
    BY DEF StreamsInit
  <2> QED
    BY <2>1, <2>2 DEF StreamsInit, StreamsTypeOK
<1>2. SlotsAreStreams
  <2>1. Holding = {} /\ \A i \in Ips : {c \in Holding : IpOf[c] = i} = {}
    BY DEF StreamsInit, Holding
  <2>2. slots = 0 /\ \A i \in Ips : ipSlots[i] = 0
    BY DEF StreamsInit
  <2> QED
    BY <2>1, <2>2, FS_EmptySet DEF SlotsAreStreams
<1>3. NoCasts /\ Fresh /\ NodeKnows /\ HasFirst
  BY DEF StreamsInit, NoCasts, Fresh, NodeKnows, HasFirst
<1>4. GaplessAtGateway
  <2>1. \A c \in Streams : log[c] = <<>> /\ c \notin table
    BY DEF StreamsInit
  <2> QED
    BY <2>1 DEF GaplessAtGateway
<1>5. Reached
  BY DEF StreamsInit, Reached, ReachedBy
<1> QED
  BY <1>1, <1>2, <1>3, <1>4, <1>5 DEF StreamsInv

LEMMA StreamsInvAlways == StreamsSpec => []StreamsInv
<1>1. StreamsInv /\ [StreamsNext]_streamVars => StreamsInv'
  BY StreamTypesInduction, SlotsInduction, TableInduction, GaplessInduction, ReachedInduction
  DEF StreamsInv
<1> QED
  BY <1>1, StreamsInvInit, PTL DEF StreamsSpec

\* The table, the queues and the broadcasts keep their types; in particular no
\* queue ever holds more than its maxsize.
THEOREM StreamsTypeCorrect == StreamsSpec => []StreamsTypeOK
<1>1. StreamsInv => StreamsTypeOK
  BY DEF StreamsInv
<1> QED
  BY <1>1, StreamsInvAlways, PTL

\* The counters of streams, in all and by address, are the numbers of the
\* streams that hold a slot.
THEOREM SlotsOfStreamsCorrect == StreamsSpec => []SlotsAreStreams
<1>1. StreamsInv => SlotsAreStreams
  BY DEF StreamsInv
<1> QED
  BY <1>1, StreamsInvAlways, PTL

\* A gateway's connection has every event since it was made, or a prefix of
\* them when its queue was full once.
THEOREM GaplessCorrect == StreamsSpec => []GaplessAtGateway
<1>1. StreamsInv => GaplessAtGateway
  BY DEF StreamsInv
<1> QED
  BY <1>1, StreamsInvAlways, PTL

\* A node's broadcast that ends without an error has reached every connection
\* that stayed, except those whose queue stayed full.
THEOREM ReachesCorrect == StreamsSpec => CompleteReaches
<1> DEFINE Reaches ==
      \A b \in Broadcasts : cast[b] # "done" /\ cast'[b] = "done" =>
        \A c \in members[b] :
          phase[c] = "running" => c \in full[b] \/ b \in ToSet(log[c])
<1>1. ASSUME StreamsInv, StreamsNext, NEW b \in Broadcasts, cast[b] # "done", cast'[b] = "done",
             NEW c \in members[b], phase[c] = "running"
      PROVE  c \in full[b] \/ b \in ToSet(log[c])
  <2>0. /\ cast \in [Broadcasts -> {"idle", "next", "blocked", "done", "aborted"}]
        /\ members \in [Broadcasts -> SUBSET Streams] /\ None \notin Streams
        /\ server \in {"gateway", "node"} /\ NoCasts /\ ReachedBy(b) /\ NodeKnows
        /\ c \in Streams
    BY <1>1, StreamsAssumption DEF StreamsInv, StreamsTypeOK, Reached
  <2>1. cast[b] # "idle" /\ server = "node"
    BY <1>1, <2>0 DEF ReachedBy, NoCasts
  <2>2. Finish(b) /\ Unvisited(b) = {}
    <3>1. ASSUME NEW e \in Broadcasts, Begin(e) \/ Broadcasting(e)
          PROVE  e = b /\ Finish(e) /\ ~Resized(b)
      BY <1>1, <2>0, <2>1, <3>1
      DEF Begin, Broadcasting, Put, PutLate, PutTimeout, Finish, Goes, Resume, End
    <3>2. PICK e \in Broadcasts : Begin(e) \/ Broadcasting(e)
      BY <1>1 DEF StreamsNext, Open, Run, Lose, Send, Close, Emit, castVars
    <3> QED
      BY <3>1, <3>2 DEF Finish
  <2>3. cast[b] = "next" /\ at[b] = None
    BY <2>0, <2>2 DEF Finish, ReachedBy
  <2>4. c \in visited[b]
    BY <1>1, <2>0, <2>1, <2>2 DEF NodeKnows, Unvisited
  <2> QED
    BY <2>0, <2>3, <2>4 DEF ReachedBy
<1>2. StreamsInv /\ [StreamsNext]_streamVars => [Reaches]_streamVars
  BY <1>1
<1> QED
  BY <1>2, StreamsInvAlways, PTL DEF StreamsSpec, CompleteReaches

\* A node's broadcast is never left without a step between two puts: either
\* the iteration is over or fails, or there is a connection to come to.
THEOREM NeverWithoutNext ==
  StreamsSpec => [](\A b \in Broadcasts : cast[b] = "next" =>
                      \/ Resized(b) \/ Unvisited(b) = {}
                      \/ \E c \in Streams : ComesTo(b, c))
<1>1. StreamsInv => \A b \in Broadcasts : cast[b] = "next" =>
                      \/ Resized(b) \/ Unvisited(b) = {}
                      \/ \E c \in Streams : ComesTo(b, c)
  <2> SUFFICES ASSUME StreamsInv, NEW b \in Broadcasts, Unvisited(b) # {}
               PROVE  \E c \in Streams : ComesTo(b, c)
    OBVIOUS
  <2>1. Unvisited(b) \in SUBSET table /\ table \subseteq Streams
    BY DEF Unvisited, StreamsInv, StreamsTypeOK
  <2> QED
    BY <2>1 DEF StreamsInv, HasFirst, ComesTo
<1> QED
  BY <1>1, StreamsInvAlways, PTL
=============================================================================
