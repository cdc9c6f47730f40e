---------------------------- MODULE MCMembership ----------------------------
(* Instances of Membership: one node whose model is loaded and evicted;      *)
(* every request but registrations and the last farewell may be handled late. *)
EXTENDS Membership

CONSTANTS n1, a

MCPools == {{}, {a}}
MCLate == {"joined", "updated", "heartbeat", "left"}
=============================================================================
