--------------------------- MODULE MCRateLimiter ---------------------------
(* Instances of RateLimiter: two keys behind one address; buckets that take   *)
(* from two ticks to the whole threshold to fill.                            *)
EXTENDS RateLimiter

CONSTANTS all, ip, ka, kb, ra, rb

MCPath == [r \in {ra, rb} |-> IF r = ra THEN <<all, ip, ka>> ELSE <<all, ip, kb>>]
MCFull == [b \in Buckets |-> IF b = ip THEN 6 ELSE IF b = kb THEN 3 ELSE 4]
MCRate == [b \in Buckets |-> IF b = kb THEN 1 ELSE 2]
MCCost == [b \in Buckets |-> IF b = all THEN 1 ELSE IF b = ka THEN 4 ELSE 3]
=============================================================================
