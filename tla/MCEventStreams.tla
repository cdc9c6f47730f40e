--------------------------- MODULE MCEventStreams ---------------------------
(* Instances of EventStreams: three clients, two of them at one address, at a *)
(* server with room for two.                                                 *)
EXTENDS EventStreams

CONSTANTS c1, c2, c3, here, there

MCIpOf == [c \in Streams |-> IF c = c3 THEN there ELSE here]
=============================================================================
