------------------------------ MODULE ModelPool ------------------------------
(***************************************************************************)
(* The pool of loaded models of an inference node:                         *)
(* inference_node/model_pool.py (class ModelPool), with the two endpoints   *)
(* that drive it, select_model and evict_model.                             *)
(*                                                                         *)
(* Every operation is synchronous code on the event loop, so an operation   *)
(* is one step.  Two orders are kept instead of clock readings: usedBefore  *)
(* orders the loaded models by last_accessed, insertedBefore is the         *)
(* iteration order of the slots dictionary.  Sizes, contexts and counters   *)
(* are left out; the notifications sent to the gateway belong to the        *)
(* modules about the gateway.                                               *)
(***************************************************************************)
EXTENDS Naturals, FiniteSets

CONSTANTS
  Models,      \* names of model files
  NoModel,     \* None
  MaxModels    \* max_models, at least 1 however it was obtained

ASSUME PoolAssumption ==
  /\ NoModel \notin Models
  /\ IsFiniteSet(Models)
  /\ MaxModels \in Nat \ {0}

VARIABLES
  slots,           \* the names in self.slots
  active,          \* self.active_model
  usedBefore,      \* <<a, b>>: a was last accessed before b
  insertedBefore   \* <<a, b>>: a precedes b in self.slots

poolVars == <<slots, active, usedBefore, insertedBefore>>

PoolTypeOK ==
  /\ slots \in SUBSET Models
  /\ active \in Models \cup {NoModel}
  /\ usedBefore \in SUBSET (slots \X slots)
  /\ insertedBefore \in SUBSET (slots \X slots)

\* lifespan starts with an empty pool (no-model mode) or with one loaded model.
PoolInit ==
  /\ \/ slots = {} /\ active = NoModel
     \/ \E m \in Models : slots = {m} /\ active = m
  /\ usedBefore = {}
  /\ insertedBefore = {}

-----------------------------------------------------------------------------
(* Orders on the loaded models.                                            *)

Without(order, m) == {p \in order : p[1] # m /\ p[2] # m}
AtEnd(order, S, m) == Without(order, m) \cup ((S \ {m}) \X {m})

\* m precedes every other member of S.
IsFirst(order, S, m) == m \in S /\ \A n \in S \ {m} : <<m, n>> \in order

-----------------------------------------------------------------------------
\* get_for_inference: a request names a loaded model.
GetForInference(m) ==
  /\ m \in slots
  /\ usedBefore' = AtEnd(usedBefore, slots, m)
  /\ UNCHANGED <<slots, active, insertedBefore>>

\* activate: the instant switch of select_model, and load_model on a model
\* that is in the pool.
Activate(m) ==
  /\ m \in slots
  /\ active' = m
  /\ usedBefore' = AtEnd(usedBefore, slots, m)
  /\ UNCHANGED <<slots, insertedBefore>>

\* Mutant: the active model may be chosen.
AllCandidates == slots

\* get_eviction_target: every loaded model but the active one.
Candidates == slots \ {active}

\* Mutants: room is made one model too late; the oldest model goes, used or not.
IsVictimTooLate(v) ==
  IF Cardinality(slots) > MaxModels /\ Candidates # {}
  THEN IsFirst(usedBefore, Candidates, v)
  ELSE v = NoModel

IsOldest(v) ==
  IF Cardinality(slots) >= MaxModels /\ Candidates # {}
  THEN IsFirst(insertedBefore, Candidates, v)
  ELSE v = NoModel

\* The model load_model evicts first, or NoModel.
IsVictim(v) ==
  IF Cardinality(slots) >= MaxModels /\ Candidates # {}
  THEN IsFirst(usedBefore, Candidates, v)
  ELSE v = NoModel

\* load_model with a wrapper that loads: evict, register, make active.
Load(m) ==
  /\ m \notin slots
  /\ \E v \in Models \cup {NoModel} :
       /\ IsVictim(v)
       /\ slots' = (slots \ {v}) \cup {m}
       /\ usedBefore' = AtEnd(Without(usedBefore, v), slots \ {v}, m)
       /\ insertedBefore' = AtEnd(Without(insertedBefore, v), slots \ {v}, m)
  /\ active' = m

\* The constructor of the wrapper raises: the victim is already gone.
LoadFails(m) ==
  /\ m \notin slots
  /\ \E v \in Models \cup {NoModel} :
       /\ IsVictim(v)
       /\ slots' = slots \ {v}
       /\ usedBefore' = Without(usedBefore, v)
       /\ insertedBefore' = Without(insertedBefore, v)
  /\ UNCHANGED active

\* Mutant: the evicted model stays the active one.
EvictKeepsActive(m) ==
  /\ m \in slots
  /\ slots' = slots \ {m}
  /\ usedBefore' = Without(usedBefore, m)
  /\ insertedBefore' = Without(insertedBefore, m)
  /\ UNCHANGED active

\* evict, called by the endpoint: any model, the active one included.
Evict(m) ==
  /\ m \in slots
  /\ slots' = slots \ {m}
  /\ usedBefore' = Without(usedBefore, m)
  /\ insertedBefore' = Without(insertedBefore, m)
  /\ IF active # m THEN UNCHANGED active
     ELSE IF slots' = {} THEN active' = NoModel
     ELSE \E n \in slots' : IsFirst(insertedBefore, slots', n) /\ active' = n

PoolNext ==
  \E m \in Models :
    GetForInference(m) \/ Activate(m) \/ Load(m) \/ LoadFails(m) \/ Evict(m)

PoolSpec == PoolInit /\ [][PoolNext]_poolVars

-----------------------------------------------------------------------------
(* Properties.                                                             *)

\* The active model is a loaded one, and there is one as long as anything is
\* loaded: the server falls into no-model mode only with an empty pool.
ActiveIsLoaded ==
  /\ active # NoModel => active \in slots
  /\ slots # {} => active # NoModel

\* Capacity as the code keeps it.  The active model is never a victim, so a
\* pool of capacity one holds two models after its first load.
CapacityBound ==
  \/ Cardinality(slots) <= MaxModels
  \/ Cardinality(slots) <= 2

\* Making room never takes the model being served: a step that removes the
\* active model removes nothing else, loads nothing, and hands over to the
\* model that was loaded first.
ActiveLeavesOnlyByEvict ==
  [][(active \in slots \ slots') =>
       /\ slots' = slots \ {active}
       /\ slots' = {} \/ IsFirst(insertedBefore, slots', active')]_poolVars
=============================================================================
