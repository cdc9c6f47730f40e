----------------------------- MODULE MCRouting -----------------------------
(* Instances of Routing: more requests of one key than it has slots, one of   *)
(* them a stream; a conversation that outgrows its small node and shrinks     *)
(* again; a node that told no context length; an hour that turns meanwhile.   *)
EXTENDS Routing

CONSTANTS r1, r2, r3, r4, ka, small, large, mute, m1, m2, p1

MCKeyOf    == [r \in Requests |-> ka]
MCCost     == [r \in Requests |-> IF r = r1 THEN 1 ELSE 2]
MCModelOf  == [r \in Requests |-> IF r = r4 THEN m2 ELSE m1]
MCPrefixOf == [r \in Requests |-> IF r = r1 THEN None ELSE p1]
MCNeed     == [r \in Requests |-> IF r = r3 THEN 2 ELSE 1]
MCWindow   == [n \in Nodes |-> IF n = small THEN 1 ELSE IF n = large THEN 2 ELSE 0]
MCOffers   == [n \in Nodes |-> IF n = large THEN {m1, m2} ELSE {m1}]
MCTokens   == [r \in Requests |-> 1]
=============================================================================
