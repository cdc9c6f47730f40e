----------------------------- MODULE PoolHistory -----------------------------
(***************************************************************************)
(* ModelPool with a memory of who has been used: usedSince is an auxiliary  *)
(* variable that no step of the pool reads.  It knows nothing of            *)
(* last_accessed or of the order that stands for it, only which operation   *)
(* happened to which model.                                                 *)
(***************************************************************************)
EXTENDS ModelPool

VARIABLE usedSince   \* the models used or loaded since m was last used or loaded

historyVars == <<slots, active, usedBefore, insertedBefore, usedSince>>

HistoryInit == PoolInit /\ usedSince = [m \in Models |-> {}]

Sees(m) == usedSince' = [n \in Models |-> IF n = m THEN {} ELSE usedSince[n] \cup {m}]

HistoryNext ==
  \E m \in Models :
    \/ (GetForInference(m) \/ Activate(m) \/ Load(m)) /\ Sees(m)
    \/ (LoadFails(m) \/ Evict(m)) /\ UNCHANGED usedSince

HistorySpec == HistoryInit /\ [][HistoryNext]_historyVars

-----------------------------------------------------------------------------
(* Properties.                                                             *)

\* A model in use stays loaded.  One that makes room for another has not been
\* used while at least MaxModels - 2 others were: all of a full pool but itself
\* and the one being served, which need not have been used.
InUseStays ==
  [][\A v \in slots \ slots' :
       slots' \ slots # {} => Cardinality(usedSince[v]) + 2 >= MaxModels]_historyVars
=============================================================================
