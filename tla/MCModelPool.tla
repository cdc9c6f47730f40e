----------------------------- MODULE MCModelPool -----------------------------
(* An instance of PoolHistory: five models for four slots, so that a full    *)
(* pool has a choice of victims whose uses since differ by more than one.   *)
EXTENDS PoolHistory
=============================================================================
