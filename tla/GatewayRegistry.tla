--------------------------- MODULE GatewayRegistry ---------------------------
(***************************************************************************)
(* What the gateway knows of the nodes: the tables nodes and node_models and *)
(* the bearer tokens, changed by the handlers of gateway/server.py through   *)
(* gateway/supabase_client.py and common/gateway_auth.py.                    *)
(*                                                                         *)
(* The Supabase client is synchronous and a broadcast only puts events into *)
(* queues, so a handler, and a round of the heartbeat monitor, is one step. *)
(* Each of its statements may fail, and SupabaseManager and the handlers    *)
(* swallow that: what follows is skipped or done all the same.  A statement *)
(* that fails may have been carried out, its answer lost.                   *)
(*                                                                         *)
(* is_active, metrics and addresses are left out; tokens are counted in     *)
(* TokenLedger.                                                             *)
(***************************************************************************)
EXTENDS Naturals, FiniteSets

CONSTANTS
  Nodes,
  Models,
  NoName  \* "No Model Loaded", which a node without a model registers

ASSUME RegistryAssumption == NoName \notin Models

VARIABLES
  row,     \* row[n]: the status of n in table nodes
  silent,  \* silent[n]: n is active, last_heartbeat older than STALE_THRESHOLD
  listed,  \* listed[n]: the models of n in node_models that are not evicted
  token,   \* token[n]: the bearer token of n, 0 for none
  torn     \* observer: inactive nodes whose models were not evicted with that,
           \* or whose row was not made active again, as a statement failed

registryVars == <<row, silent, listed, token, torn>>

Names == Models \cup {NoName}

RegistryTypeOK ==
  /\ row \in [Nodes -> {"none", "active", "inactive"}]
  /\ silent \in [Nodes -> BOOLEAN]
  /\ listed \in [Nodes -> SUBSET Names]
  /\ token \in [Nodes -> Nat]
  /\ torn \subseteq Nodes

RegistryInit ==
  /\ row = [n \in Nodes |-> "none"]
  /\ silent = [n \in Nodes |-> FALSE]
  /\ listed = [n \in Nodes |-> {}]
  /\ token = [n \in Nodes |-> 0]
  /\ torn = {}

-----------------------------------------------------------------------------

\* status "active", last_heartbeat "now()"
Hears(n) ==
  /\ row' = [row EXCEPT ![n] = "active"]
  /\ silent' = [silent EXCEPT ![n] = FALSE]

Lists(n, models) == listed' = [listed EXCEPT ![n] = models]

Ends(n)  == torn' = torn \ {n}
Fails(n) == torn' = (torn \ {n}) \cup {k \in {n} : row'[k] = "inactive"}

Inactive(n) ==
  /\ row' = [row EXCEPT ![n] = IF @ = "none" THEN "none" ELSE "inactive"]
  /\ silent' = [silent EXCEPT ![n] = FALSE]

\* upsert_node_models, one statement for each model: all of them, or some.
ListsMore(n, models) == \E some \in SUBSET models : Lists(n, listed[n] \cup some)

\* What a registration lists: the pool, or the name of the model. Models that
\* were listed before stay.
New(pool) == IF pool = {} THEN {NoName} ELSE pool

\* register_node, also when it raises after the statement on the row.
Registering(n, pool) == Hears(n) /\ ListsMore(n, New(pool)) /\ Ends(n)

\* publish_node: the token is issued after the quality gate.
Publish(n, pool, new) ==
  /\ Registering(n, pool)
  /\ token' = [token EXCEPT ![n] = new]

\* The event node_joined, or publish_node when register_node raises.
Joined(n, pool) == Registering(n, pool) /\ UNCHANGED token

\* Mutant: the models stay listed.
DeregisterRowOnly(n) == Inactive(n) /\ UNCHANGED listed /\ Ends(n)

\* deregister_node, without failures.
Deregister(n) == Inactive(n) /\ Lists(n, {}) /\ Ends(n)

\* The statement on the row fails and nothing follows, or the one on the models.
DeregisterCut(n) ==
  /\ UNCHANGED <<row, silent>> \/ Inactive(n)
  /\ UNCHANGED listed
  /\ Fails(n)

Deregistered(n) == Deregister(n) \/ DeregisterCut(n)

\* The performance gate: the node is registered and deregistered again.
Refuse(n, pool) ==
  /\ silent' = [silent EXCEPT ![n] = FALSE]
  /\ UNCHANGED token
  /\ \/ row' = [row EXCEPT ![n] = "inactive"] /\ Lists(n, {}) /\ Ends(n)
     \/ /\ \E s \in {"active", "inactive"} : row' = [row EXCEPT ![n] = s]
        /\ ListsMore(n, New(pool))
        /\ Fails(n)

\* The event node_left.
Left(n) == Deregistered(n) /\ UNCHANGED token

\* unpublish_node revokes the token; where that statement fails, the token that
\* was stored last is kept.
Unpublish(n, kept) == Deregistered(n) /\ token' = [token EXCEPT ![n] = kept]

\* The models of n after those of a pool were upserted, and the others evicted,
\* where each statement may fail; the models of an empty pool are evicted by one.
Relisted(n, pool) ==
  IF pool = {} THEN {listed[n], {}}
  ELSE {models \in SUBSET (listed[n] \cup pool) : listed[n] \cap pool \subseteq models}

\* The event node_updated: the models are those of the event, also none; then
\* the row becomes active, if there is one.
Updated(n, pool) ==
  /\ \E models \in Relisted(n, pool) : Lists(n, models)
  /\ UNCHANGED token
  /\ \/ row[n] = "none" /\ UNCHANGED <<row, silent>> /\ Ends(n)
     \/ row[n] # "none" /\ Hears(n) /\ Ends(n)
     \/ UNCHANGED <<row, silent>> /\ Fails(n)

\* Mutant: models that have gone from the pool are not evicted.
HeartbeatAdds(n, pool) ==
  /\ Hears(n)
  /\ Lists(n, listed[n] \cup pool)
  /\ Ends(n)
  /\ UNCHANGED token

\* node_heartbeat, without failures: a row that is missing or inactive becomes
\* active; an empty pool changes no model.
Heartbeat(n, pool) ==
  /\ Hears(n)
  /\ IF pool = {} THEN UNCHANGED listed ELSE Lists(n, pool)
  /\ Ends(n)
  /\ UNCHANGED token

\* The URL is written to the row before the models, the metrics after: either
\* makes it active, and both may fail.
HeartbeatCut(n, pool) ==
  /\ IF pool = {} THEN UNCHANGED listed
     ELSE \E models \in Relisted(n, pool) : Lists(n, models)
  /\ \/ Hears(n) /\ Ends(n)
     \/ UNCHANGED <<row, silent>> /\ Fails(n)
  /\ UNCHANGED token

\* ModelRouter._forward_request cannot connect to the node it chose.
Unreachable(n) ==
  /\ row[n] = "active" /\ listed[n] # {}
  /\ Deregistered(n)
  /\ UNCHANGED token

\* 120 seconds have passed.
GoesSilent(n) ==
  /\ row[n] = "active" /\ ~silent[n]
  /\ silent' = [silent EXCEPT ![n] = TRUE]
  /\ UNCHANGED <<row, listed, token, torn>>

\* Mutant: only nodes that offer models are looked at.
StaleListed == {n \in Nodes : row[n] = "active" /\ silent[n] /\ listed[n] # {}}

Stale == {n \in Nodes : row[n] = "active" /\ silent[n]}

\* A round of _heartbeat_monitor_loop, in which the rows of the nodes in done
\* are written and the models of those in evicted are evicted.
Round(done, evicted) ==
  /\ Stale # {}
  /\ row' = [n \in Nodes |-> IF n \in done THEN "inactive" ELSE row[n]]
  /\ silent' = [n \in Nodes |-> n \notin done /\ silent[n]]
  /\ listed' = [n \in Nodes |-> IF n \in evicted THEN {} ELSE listed[n]]
  /\ torn' = (torn \cup done) \ evicted
  /\ UNCHANGED token

Monitor == \E done \in SUBSET Stale : \E evicted \in SUBSET done : Round(done, evicted)
=============================================================================
