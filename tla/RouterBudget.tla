---------------------------- MODULE RouterBudget ----------------------------
(***************************************************************************)
(* The limits the gateway puts on an API key: gateway/router.py (class      *)
(* ModelRouter), the per-key concurrency slots and the hourly compute       *)
(* budget, around one forwarded completion.                                 *)
(*                                                                         *)
(* The code between two suspension points is one action: nothing suspends   *)
(* while self._lock is held, so the lock is never waited for, and the slot,  *)
(* the two budget checks and the choice of a node are one step.  The cost   *)
(* of a request is known when it arrives and recorded when the node has     *)
(* answered.  Only hours change the budget, so time is the current hour.    *)
(***************************************************************************)
EXTENDS Naturals, FiniteSets

CONSTANTS
  Requests,       \* calls of route_chat_completion and route_completion
  Keys,           \* hashes of API keys
  KeyOf,          \* KeyOf[r]: the key request r carries
  Cost,           \* Cost[r]: _estimate_request_cost of r
  MaxCost,        \* no request costs more
  Streaming,      \* the requests with stream = true
  MaxConcurrent,  \* _max_per_key_concurrent
  Budget,         \* _hourly_compute_budget
  MaxHour         \* bound on the hours that pass

ASSUME RouterAssumption ==
  /\ IsFiniteSet(Requests)
  /\ KeyOf \in [Requests -> Keys]
  /\ MaxCost \in Nat
  /\ Cost \in [Requests -> 0..MaxCost]
  /\ Streaming \subseteq Requests
  /\ MaxConcurrent \in Nat \ {0}
  /\ Budget \in Nat
  /\ MaxHour \in Nat

VARIABLES
  hour,      \* int(time.time()) // 3600
  entry,     \* entry[k]: _key_hourly_compute, {"hour", "used"}
  inflight,  \* _key_inflight
  phase      \* phase[r]: where the request is

routerVars == <<hour, entry, inflight, phase>>

Phases == {"idle", "forwarding", "streaming", "done"}

RouterTypeOK ==
  /\ hour \in Nat
  /\ entry \in [Keys -> [hour : Nat, used : Nat]]
  /\ inflight \in [Keys -> Nat]
  /\ phase \in [Requests -> Phases]

RouterInit ==
  /\ hour = 1
  /\ entry = [k \in Keys |-> [hour |-> 0, used |-> 0]]
  /\ inflight = [k \in Keys |-> 0]
  /\ phase = [r \in Requests |-> "idle"]

-----------------------------------------------------------------------------

\* The compute used in the current hour; the entry of an earlier one is void.
Used(k) == IF entry[k].hour = hour THEN entry[k].used ELSE 0

\* _release_key_slot
Released(k) ==
  [inflight EXCEPT ![k] = IF inflight[k] > 0 THEN inflight[k] - 1 ELSE 0]

\* _record_compute_usage
Recorded(k, c) == [entry EXCEPT ![k] = [hour |-> hour, used |-> Used(k) + c]]

\* Mutant: the slot is tested one too late.
HasSlotOrOneMore(k) == inflight[k] <= MaxConcurrent

HasSlot(k)      == inflight[k] < MaxConcurrent
HasBudget(k, c) == Used(k) + c <= Budget

\* No slot, no budget or no node: an error, and a slot taken is given back.
Refuse(r) ==
  /\ phase[r] = "idle"
  /\ phase' = [phase EXCEPT ![r] = "done"]
  /\ UNCHANGED <<hour, entry, inflight>>

\* A slot, the budget and a node; the request is on its way.
Forward(r) ==
  /\ phase[r] = "idle"
  /\ HasSlot(KeyOf[r])
  /\ HasBudget(KeyOf[r], Cost[r])
  /\ inflight' = [inflight EXCEPT ![KeyOf[r]] = @ + 1]
  /\ phase' = [phase EXCEPT ![r] = "forwarding"]
  /\ UNCHANGED <<hour, entry>>

\* _forward_request returns, with an answer, a stream or an error response:
\* the cost is recorded and the slot released.  A stream is still to come.
NodeAnswers(r) ==
  /\ phase[r] = "forwarding"
  /\ entry' = Recorded(KeyOf[r], Cost[r])
  /\ inflight' = Released(KeyOf[r])
  /\ \/ phase' = [phase EXCEPT ![r] = "done"]
     \/ r \in Streaming /\ phase' = [phase EXCEPT ![r] = "streaming"]
  /\ UNCHANGED hour

\* Mutant: the slot is released after an answer only.
CancelKeepsSlot(r) ==
  /\ phase[r] = "forwarding"
  /\ phase' = [phase EXCEPT ![r] = "done"]
  /\ UNCHANGED <<hour, entry, inflight>>

\* The handler is cancelled: only the finally clause runs.
Cancel(r) ==
  /\ phase[r] = "forwarding"
  /\ inflight' = Released(KeyOf[r])
  /\ phase' = [phase EXCEPT ![r] = "done"]
  /\ UNCHANGED <<hour, entry>>

\* _stream_response runs to its end or is closed.
StreamEnds(r) ==
  /\ phase[r] = "streaming"
  /\ phase' = [phase EXCEPT ![r] = "done"]
  /\ UNCHANGED <<hour, entry, inflight>>

NextHour ==
  /\ hour < MaxHour
  /\ hour' = hour + 1
  /\ UNCHANGED <<entry, inflight, phase>>

RouterNext ==
  \/ \E r \in Requests :
       Refuse(r) \/ Forward(r) \/ NodeAnswers(r) \/ Cancel(r) \/ StreamEnds(r)
  \/ NextHour

RouterSpec == RouterInit /\ [][RouterNext]_routerVars

-----------------------------------------------------------------------------
(* Properties.                                                             *)

InSlot(k) == {r \in Requests : KeyOf[r] = k /\ phase[r] = "forwarding"}

\* The counter of a key is the number of its requests that hold a slot,
\* however they end, so that a key neither loses slots for ever nor gains any.
SlotsAreCounted == \A k \in Keys : inflight[k] = Cardinality(InSlot(k))

\* The budget is checked when a request arrives and charged when its node has
\* answered.  What a key can overdraw in an hour is what the other slots hold
\* at that time, also when requests straddle the hour.
OverdraftBound ==
  \A k \in Keys : Used(k) <= Budget + (MaxConcurrent - 1) * MaxCost
=============================================================================
