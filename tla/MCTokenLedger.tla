---------------------------- MODULE MCTokenLedger ----------------------------
(* Instances of TokenLedger: a node with several lives beside one that       *)
(* reports a single token, so that a restart of the gateway and a persisted  *)
(* cache concern both.                                                     *)
EXTENDS TokenLedger

CONSTANTS n1, n2

\* No action reads lost and the properties read it only in the step that sets
\* it: states that differ in it alone are one.
MCView == <<peak, row, total, cache, saved, torn>>

MCMaxTotal == [n \in Nodes |-> IF n = n1 THEN 3 ELSE 1]
MCMaxPeak == [n \in Nodes |-> IF n = n1 THEN 2 ELSE 1]
=============================================================================
