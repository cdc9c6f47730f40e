---------------------------- MODULE MCNodeServer ----------------------------
(* Instances of NodeServer: requests that name different models, plain and   *)
(* streaming, and reloads that switch between loaded models, evict one, or   *)
(* find their model loaded by the other reload.                             *)
EXTENDS NodeServer

CONSTANTS a, b, chat, stream, text, s1, s2

MCTarget == [r \in Requests |-> IF r = chat THEN b ELSE a]
MCSameModel == [s \in Selects |-> b]
=============================================================================
