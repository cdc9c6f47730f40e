--------------------------- MODULE MCRequestQueue ---------------------------
(* Instances of RequestQueue: three requests, two from one key and one from *)
(* another, a queue of two places and one place per key, so that both       *)
(* refusals, a full queue holding dead entries and every hand-over happen.  *)
EXTENDS RequestQueue

CONSTANTS r1, r2, r3, ka, kb

MCRequests    == {r1, r2, r3}
MCKeys        == {ka, kb}
MCOwnerKey    == [r \in Requests |-> IF r = r3 THEN kb ELSE ka]
=============================================================================
