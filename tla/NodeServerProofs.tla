-------------------------- MODULE NodeServerProofs --------------------------
(***************************************************************************)
(* Theorems about ModelPool, and about NodeServer, which is built on it, for *)
(* every set of models, requests and reloads and every capacity.            *)
(*                                                                         *)
(* Of the pool, PoolInv is inductive as it stands; the action properties     *)
(* follow from it step by step.  Every step of the node is one of the pool   *)
(* and of the queue's promise or leaves them alone, so what holds of them    *)
(* holds in the node; NodeInv adds what the node makes of them.  The last    *)
(* section shows that a reload never waits.                                 *)
(***************************************************************************)
EXTENDS NodeServer, PoolHistory, FiniteSetTheorems, TLAPS

PoolInv == PoolTypeOK /\ ActiveIsLoaded /\ CapacityBound

\* Loaded models are finitely many, because model files are.
LEMMA SlotsFinite == PoolTypeOK => IsFiniteSet(slots) /\ Cardinality(slots) \in Nat
BY PoolAssumption, FS_Subset, FS_CardinalityType DEF PoolTypeOK

\* What making room does: the victim is loaded and not active, or there is
\* none, and then the pool has room or holds no more than the active model.
LEMMA VictimFact ==
  ASSUME PoolTypeOK, NEW v \in Models \cup {NoModel}, IsVictim(v)
  PROVE  \/ v \in slots /\ v # active
            /\ \A n \in Candidates \ {v} : <<v, n>> \in usedBefore
         \/ v = NoModel /\ (Cardinality(slots) < MaxModels \/ Cardinality(slots) <= 1)
<1>1. CASE Cardinality(slots) >= MaxModels /\ Candidates # {}
  BY <1>1 DEF IsVictim, IsFirst, Candidates
<1>2. CASE Cardinality(slots) < MaxModels
  BY <1>2, PoolAssumption, SlotsFinite DEF IsVictim
<1>3. CASE Cardinality(slots) >= MaxModels /\ Candidates = {}
  <2>1. v = NoModel
    BY <1>3 DEF IsVictim
  <2>2. slots \subseteq {active}
    BY <1>3 DEF Candidates
  <2>3. Cardinality(slots) <= Cardinality({active})
    BY <2>2, FS_Subset, FS_Singleton
  <2> QED
    BY <2>1, <2>3, FS_Singleton
<1> QED
  BY <1>1, <1>2, <1>3, PoolAssumption, SlotsFinite

\* Dropping a model from an order, and putting one at its end, gives an order
\* on the remaining models.
LEMMA OrderTypes ==
  ASSUME NEW S, NEW m, NEW v, NEW order \in SUBSET (S \X S)
  PROVE  /\ Without(order, v) \in SUBSET ((S \ {v}) \X (S \ {v}))
         /\ AtEnd(Without(order, v), S \ {v}, m)
              \in SUBSET (((S \ {v}) \cup {m}) \X ((S \ {v}) \cup {m}))
         /\ m \in S => AtEnd(order, S, m) \in SUBSET (S \X S)
BY DEF Without, AtEnd

\* Every operation of the pool preserves the inductive invariant.
LEMMA PoolInduction == PoolInv /\ [PoolNext]_poolVars => PoolInv'
<1> SUFFICES ASSUME PoolInv, [PoolNext]_poolVars PROVE PoolInv'
  OBVIOUS
<1> USE PoolAssumption DEF PoolInv
<1>f. IsFiniteSet(slots) /\ Cardinality(slots) \in Nat
  BY SlotsFinite
<1>1. ASSUME NEW m \in Models, GetForInference(m) PROVE PoolInv'
  <2>1. PoolTypeOK'
    BY <1>1, OrderTypes DEF GetForInference, PoolTypeOK
  <2> QED
    BY <1>1, <2>1 DEF GetForInference, ActiveIsLoaded, CapacityBound
<1>2. ASSUME NEW m \in Models, Activate(m) PROVE PoolInv'
  <2>1. PoolTypeOK'
    BY <1>2, OrderTypes DEF Activate, PoolTypeOK
  <2> QED
    BY <1>2, <2>1 DEF Activate, ActiveIsLoaded, CapacityBound
<1>3. ASSUME NEW m \in Models, Load(m) PROVE PoolInv'
  <2>1. PICK v \in Models \cup {NoModel} :
          /\ IsVictim(v)
          /\ slots' = (slots \ {v}) \cup {m}
          /\ usedBefore' = AtEnd(Without(usedBefore, v), slots \ {v}, m)
          /\ insertedBefore' = AtEnd(Without(insertedBefore, v), slots \ {v}, m)
    BY <1>3 DEF Load
  <2>2. m \notin slots /\ active' = m
    BY <1>3 DEF Load
  <2>3. PoolTypeOK'
    <3>1. usedBefore' \in SUBSET (slots' \X slots')
      BY <2>1, OrderTypes DEF PoolTypeOK
    <3>2. insertedBefore' \in SUBSET (slots' \X slots')
      BY <2>1, OrderTypes DEF PoolTypeOK
    <3> QED
      BY <2>1, <2>2, <3>1, <3>2 DEF PoolTypeOK
  <2>4. ActiveIsLoaded'
    BY <2>1, <2>2 DEF ActiveIsLoaded
  <2>5. CapacityBound'
    <3>1. CASE v \in slots
      <4>1. Cardinality(slots \ {v}) = Cardinality(slots) - 1
        BY <1>f, <3>1, FS_RemoveElement
      <4>2. IsFiniteSet(slots \ {v}) /\ m \notin slots \ {v}
        BY <1>f, <2>2, FS_RemoveElement
      <4>3. Cardinality((slots \ {v}) \cup {m}) = Cardinality(slots \ {v}) + 1
        BY <4>2, FS_AddElement
      <4>4. Cardinality(slots') = Cardinality(slots)
        BY <1>f, <2>1, <4>1, <4>3
      <4> QED
        BY <4>4 DEF CapacityBound
    <3>2. CASE v \notin slots
      <4>1. Cardinality(slots) < MaxModels \/ Cardinality(slots) <= 1
        BY <2>1, <3>2, VictimFact
      <4>2. slots' = slots \cup {m}
        BY <2>1, <3>2
      <4>3. Cardinality(slots') = Cardinality(slots) + 1
        BY <1>f, <2>2, <4>2, FS_AddElement
      <4> QED
        BY <1>f, <4>1, <4>3 DEF CapacityBound
    <3> QED
      BY <3>1, <3>2
  <2> QED
    BY <2>3, <2>4, <2>5
<1>4. ASSUME NEW m \in Models, LoadFails(m) PROVE PoolInv'
  <2>1. PICK v \in Models \cup {NoModel} :
          /\ IsVictim(v)
          /\ slots' = slots \ {v}
          /\ usedBefore' = Without(usedBefore, v)
          /\ insertedBefore' = Without(insertedBefore, v)
    BY <1>4 DEF LoadFails
  <2>2. active' = active
    BY <1>4 DEF LoadFails
  <2>3. v # active \/ active = NoModel
    BY <2>1, VictimFact
  <2>4. PoolTypeOK'
    BY <2>1, <2>2, OrderTypes DEF PoolTypeOK
  <2>5. ActiveIsLoaded'
    BY <2>1, <2>2, <2>3, VictimFact DEF ActiveIsLoaded
  <2>6. CapacityBound'
    <3>1. Cardinality(slots') <= Cardinality(slots) /\ Cardinality(slots') \in Nat
      BY <1>f, <2>1, FS_Subset, FS_CardinalityType
    <3> QED
      BY <1>f, <3>1 DEF CapacityBound
  <2> QED
    BY <2>4, <2>5, <2>6
<1>5. ASSUME NEW m \in Models, Evict(m) PROVE PoolInv'
  <2>1. m \in slots /\ slots' = slots \ {m}
    BY <1>5 DEF Evict
  <2>2. \/ active' = active /\ active # m
        \/ slots' = {} /\ active' = NoModel
        \/ active' \in slots'
    BY <1>5 DEF Evict, IsFirst
  <2>3. PoolTypeOK'
    BY <1>5, <2>1, <2>2, OrderTypes DEF Evict, PoolTypeOK
  <2>4. ActiveIsLoaded'
    BY <2>1, <2>2, <2>3 DEF ActiveIsLoaded, PoolTypeOK
  <2>5. CapacityBound'
    <3>1. Cardinality(slots') <= Cardinality(slots) /\ Cardinality(slots') \in Nat
      BY <1>f, <2>1, FS_Subset, FS_CardinalityType
    <3> QED
      BY <1>f, <3>1 DEF CapacityBound
  <2> QED
    BY <2>3, <2>4, <2>5
<1>6. CASE UNCHANGED poolVars
  BY <1>6 DEF poolVars, PoolTypeOK, ActiveIsLoaded, CapacityBound
<1> QED
  BY <1>1, <1>2, <1>3, <1>4, <1>5, <1>6 DEF PoolNext

\* It holds of the pool the node starts with.
LEMMA PoolInvInit == PoolInit => PoolInv
<1> SUFFICES ASSUME PoolInit PROVE PoolInv
  OBVIOUS
<1>1. CASE slots = {} /\ active = NoModel
  BY <1>1, PoolAssumption, FS_EmptySet
  DEF PoolInit, PoolInv, PoolTypeOK, ActiveIsLoaded, CapacityBound
<1>2. ASSUME NEW m \in Models, slots = {m}, active = m PROVE PoolInv
  <2>1. Cardinality(slots) = 1
    BY <1>2, FS_Singleton
  <2> QED
    BY <1>2, <2>1, PoolAssumption DEF PoolInit, PoolInv, PoolTypeOK, ActiveIsLoaded, CapacityBound
<1> QED
  BY <1>1, <1>2 DEF PoolInit

\* The inductive invariant holds in every state of the pool.
THEOREM PoolInvCorrect == PoolSpec => []PoolInv
BY PoolInvInit, PoolInduction, PTL DEF PoolSpec

\* The pool never points at a model that is not loaded, and is without an
\* active model only when it is empty.
THEOREM ActiveCorrect == PoolSpec => []ActiveIsLoaded
<1>1. PoolInv => ActiveIsLoaded
  BY DEF PoolInv
<1>2. QED
  BY <1>1, PoolInvCorrect, PTL

\* However models come and go, no more than max(max_models, 2) are loaded.
THEOREM CapacityCorrect == PoolSpec => []CapacityBound
<1>1. PoolInv => CapacityBound
  BY DEF PoolInv
<1>2. QED
  BY <1>1, PoolInvCorrect, PTL

\* The order by last_accessed is a memory of use: whoever is behind a model in
\* it has been used since that model was.
OrderRemembers ==
  /\ usedSince \in [Models -> SUBSET Models]
  /\ \A a, b \in Models : <<a, b>> \in usedBefore => b \in usedSince[a]

LEMMA RemembersInduction ==
  PoolInv /\ OrderRemembers /\ [HistoryNext]_historyVars => OrderRemembers'
<1> SUFFICES ASSUME PoolInv, OrderRemembers, [HistoryNext]_historyVars
             PROVE  OrderRemembers'
  OBVIOUS
<1>0. slots \subseteq Models
  BY DEF PoolInv, PoolTypeOK
<1>1. ASSUME NEW m \in Models, GetForInference(m) \/ Activate(m) \/ Load(m), Sees(m)
      PROVE  OrderRemembers'
  <2>1. \A a, b \in Models :
          <<a, b>> \in usedBefore' => \/ a # m /\ b = m
                                      \/ a # m /\ <<a, b>> \in usedBefore
    <3>1. CASE GetForInference(m) \/ Activate(m)
      BY <3>1 DEF GetForInference, Activate, AtEnd, Without
    <3>2. CASE Load(m)
      BY <3>2 DEF Load, AtEnd, Without
    <3> QED
      BY <1>1, <3>1, <3>2
  <2>2. usedSince' \in [Models -> SUBSET Models]
    BY <1>1 DEF Sees, OrderRemembers
  <2>3. ASSUME NEW a \in Models, NEW b \in Models, <<a, b>> \in usedBefore'
        PROVE  b \in usedSince'[a]
    <3>1. a # m /\ usedSince'[a] = usedSince[a] \cup {m}
      BY <1>1, <2>1, <2>3 DEF Sees
    <3> QED
      BY <2>1, <2>3, <3>1 DEF OrderRemembers
  <2> QED
    BY <2>2, <2>3 DEF OrderRemembers
<1>2. ASSUME NEW m \in Models, LoadFails(m) \/ Evict(m), UNCHANGED usedSince
      PROVE  OrderRemembers'
  <2>1. usedBefore' \subseteq usedBefore
    BY <1>2 DEF LoadFails, Evict, Without
  <2> QED
    BY <1>2, <2>1 DEF OrderRemembers
<1>3. CASE UNCHANGED historyVars
  BY <1>3 DEF historyVars, OrderRemembers
<1> QED
  BY <1>1, <1>2, <1>3 DEF HistoryNext

\* Making room never takes a model that is in use: all of a full pool but two
\* have been used since the victim was.
THEOREM InUseCorrect == HistorySpec => InUseStays
<1> DEFINE A == \A v \in slots \ slots' :
                  slots' \ slots # {} => Cardinality(usedSince[v]) + 2 >= MaxModels
<1> DEFINE Inv == PoolInv /\ OrderRemembers
<1>1. HistoryInit => PoolInit /\ Inv
  <2>1. PoolInit => PoolInv
    BY PoolInvInit
  <2>2. HistoryInit => PoolInit /\ OrderRemembers
    BY DEF HistoryInit, PoolInit, OrderRemembers
  <2> QED
    BY <2>1, <2>2
<1>2. [HistoryNext]_historyVars => [PoolNext]_poolVars
  BY DEF HistoryNext, PoolNext, historyVars, poolVars
<1>3. Inv /\ [HistoryNext]_historyVars => Inv'
  BY <1>2, PoolInduction, RemembersInduction
<1>4. Inv /\ [HistoryNext]_historyVars => [A]_historyVars
  <2> SUFFICES ASSUME Inv, HistoryNext, NEW v \in slots \ slots', slots' \ slots # {}
               PROVE  Cardinality(usedSince[v]) + 2 >= MaxModels
    BY DEF historyVars
  <2>0. slots \subseteq Models /\ IsFiniteSet(slots) /\ Cardinality(slots) \in Nat
    BY SlotsFinite DEF PoolInv, PoolTypeOK
  <2>1. PICK m \in Models : Load(m)
    BY DEF HistoryNext, GetForInference, Activate, LoadFails, Evict
  <2>2. PICK w \in Models \cup {NoModel} : IsVictim(w) /\ slots' = (slots \ {w}) \cup {m}
    BY <2>1 DEF Load
  <2>3. v = w /\ v # NoModel
    BY <2>0, <2>2, PoolAssumption
  <2>4. /\ v \in slots /\ v # active
        /\ \A n \in Candidates \ {v} : <<v, n>> \in usedBefore
        /\ Cardinality(slots) >= MaxModels
    BY <2>2, <2>3, VictimFact DEF PoolInv, IsVictim
  <2>5. (slots \ {active}) \ {v} \subseteq usedSince[v]
    BY <2>0, <2>4 DEF OrderRemembers, Candidates
  <2>6. IsFiniteSet(usedSince[v])
    BY <2>0, <2>4, PoolAssumption, FS_Subset DEF OrderRemembers
  <2>7. /\ Cardinality((slots \ {active}) \ {v}) >= Cardinality(slots) - 2
        /\ Cardinality((slots \ {active}) \ {v}) \in Nat
    <3> DEFINE S == slots \ {active}
    <3>1. /\ IsFiniteSet(S) /\ Cardinality(S) \in Nat
          /\ Cardinality(S) >= Cardinality(slots) - 1
      <4>1. CASE active \in slots
        <5>1. IsFiniteSet(S) /\ Cardinality(S) = Cardinality(slots) - 1
          BY <2>0, <4>1, FS_RemoveElement
        <5>2. Cardinality(S) \in Nat
          BY <5>1, FS_CardinalityType
        <5> HIDE DEF S
        <5> QED
          BY <2>0, <5>1, <5>2
      <4>2. CASE active \notin slots
        <5>1. S = slots
          BY <4>2
        <5> QED
          BY <2>0, <5>1
      <4> QED
        BY <4>1, <4>2
    <3>2. v \in S
      BY <2>4
    <3>3. /\ IsFiniteSet(S \ {v}) /\ Cardinality(S \ {v}) = Cardinality(S) - 1
      BY <3>1, <3>2, FS_RemoveElement
    <3> HIDE DEF S
    <3>4. Cardinality(S \ {v}) \in Nat /\ Cardinality(S \ {v}) >= Cardinality(slots) - 2
      BY <2>0, <3>1, <3>3, FS_CardinalityType
    <3> QED
      BY <3>4 DEF S
  <2>8. /\ Cardinality(usedSince[v]) >= Cardinality((slots \ {active}) \ {v})
        /\ Cardinality(usedSince[v]) \in Nat
    BY <2>5, <2>6, FS_Subset, FS_CardinalityType
  <2> QED
    BY <2>0, <2>4, <2>7, <2>8, PoolAssumption
<1>5. QED
  BY <1>1, <1>3, <1>4, PTL DEF HistorySpec, InUseStays

\* The model being served leaves the pool only when it is the one evicted.
THEOREM ActiveStays == PoolSpec => ActiveLeavesOnlyByEvict
<1> DEFINE A == (active \in slots \ slots') =>
                  /\ slots' = slots \ {active}
                  /\ slots' = {} \/ IsFirst(insertedBefore, slots', active')
<1>1. PoolInv /\ [PoolNext]_poolVars => [A]_poolVars
  <2> SUFFICES ASSUME PoolInv, PoolNext, active \in slots \ slots'
               PROVE  /\ slots' = slots \ {active}
                      /\ slots' = {} \/ IsFirst(insertedBefore, slots', active')
    BY DEF poolVars
  <2> USE DEF PoolInv
  <2>1. ASSUME NEW m \in Models, Load(m) \/ LoadFails(m) PROVE FALSE
    <3>1. PICK v \in Models \cup {NoModel} : IsVictim(v) /\ slots \ {v} \subseteq slots'
      BY <2>1 DEF Load, LoadFails
    <3> QED
      BY <3>1, VictimFact, PoolAssumption DEF PoolTypeOK
  <2>2. PICK m \in Models : Evict(m)
    BY <2>1 DEF PoolNext, GetForInference, Activate
  <2>3. m = active
    BY <2>2 DEF Evict
  <2>4. slots' = slots \ {active}
    BY <2>2, <2>3 DEF Evict
  <2>5. ASSUME slots' # {} PROVE IsFirst(insertedBefore, slots', active')
    <3>1. PICK n \in slots' : IsFirst(insertedBefore, slots', n) /\ active' = n
      BY <2>2, <2>3, <2>5 DEF Evict
    <3> QED
      BY <3>1
  <2> QED
    BY <2>4, <2>5
<1>2. QED
  BY <1>1, PoolInvCorrect, PTL DEF PoolSpec, ActiveLeavesOnlyByEvict

-----------------------------------------------------------------------------
(* The orders of the pool.  load_model always finds the least recently used  *)
(* model and evict always a successor, and there is one of each only.        *)

\* Of any members of S one comes first, and no two come before each other.
OrderOn(order, S) ==
  /\ order \subseteq S \X S
  /\ \A T \in SUBSET S : T # {} => \E m \in T : IsFirst(order, T, m)
  /\ \A a, b \in S : <<a, b>> \in order => <<b, a>> \notin order

Ordered == OrderOn(usedBefore, slots) /\ OrderOn(insertedBefore, slots)

LEMMA WithoutOrder ==
  ASSUME NEW S, NEW order, NEW v, OrderOn(order, S)
  PROVE  OrderOn(Without(order, v), S \ {v})
<1>1. order \subseteq S \X S
  BY DEF OrderOn
<1>2. \A p \in order : p = <<p[1], p[2]>> /\ p[1] \in S /\ p[2] \in S
  BY <1>1
<1>3. \A a, b \in S \ {v} : <<a, b>> \in Without(order, v) <=> <<a, b>> \in order
  BY DEF Without
<1>4. Without(order, v) \subseteq (S \ {v}) \X (S \ {v})
  BY <1>2 DEF Without
<1>5. ASSUME NEW T \in SUBSET (S \ {v}), T # {}
      PROVE  \E m \in T : IsFirst(Without(order, v), T, m)
  <2>1. PICK m \in T : IsFirst(order, T, m)
    BY <1>5 DEF OrderOn
  <2> QED
    BY <1>3, <2>1 DEF IsFirst
<1> QED
  BY <1>3, <1>4, <1>5 DEF OrderOn

LEMMA AtEndOrder ==
  ASSUME NEW S, NEW order, NEW m, OrderOn(order, S)
  PROVE  OrderOn(AtEnd(order, S, m), S \cup {m})
<1> DEFINE rest == Without(order, m)
           new  == AtEnd(order, S, m)
<1>1. OrderOn(rest, S \ {m})
  BY WithoutOrder
<1>2. new = rest \cup ((S \ {m}) \X {m})
  BY DEF AtEnd
<1> HIDE DEF rest, new
<1>3. \A a, b : <<a, b>> \in new <=>
        \/ <<a, b>> \in rest /\ a \in S \ {m} /\ b \in S \ {m}
        \/ a \in S \ {m} /\ b = m
  BY <1>1, <1>2 DEF OrderOn
<1>4. new \subseteq (S \cup {m}) \X (S \cup {m})
  BY <1>1, <1>2 DEF OrderOn
<1>5. ASSUME NEW T \in SUBSET (S \cup {m}), T # {}
      PROVE  \E a \in T : IsFirst(new, T, a)
  <2>1. CASE T \ {m} = {}
    BY <1>5, <2>1 DEF IsFirst
  <2>2. CASE T \ {m} # {}
    <3>1. PICK a \in T \ {m} : IsFirst(rest, T \ {m}, a)
      BY <1>1, <2>2 DEF OrderOn
    <3>2. \A b \in T \ {a} : <<a, b>> \in new
      BY <1>3, <3>1 DEF IsFirst
    <3> QED
      BY <3>1, <3>2 DEF IsFirst
  <2> QED
    BY <2>1, <2>2
<1>6. ASSUME NEW a \in S \cup {m}, NEW b \in S \cup {m}, <<a, b>> \in new
      PROVE  <<b, a>> \notin new
  BY <1>1, <1>3, <1>6 DEF OrderOn
<1> QED
  BY <1>4, <1>5, <1>6 DEF OrderOn, new

LEMMA OrderedInduction == Ordered /\ [PoolNext]_poolVars => Ordered'
<1> SUFFICES ASSUME Ordered, [PoolNext]_poolVars PROVE Ordered'
  OBVIOUS
<1>0. OrderOn(usedBefore, slots) /\ OrderOn(insertedBefore, slots)
  BY DEF Ordered
<1>1. ASSUME NEW m \in Models, GetForInference(m) \/ Activate(m) PROVE Ordered'
  <2>1. /\ slots' = slots /\ insertedBefore' = insertedBefore /\ slots \cup {m} = slots
        /\ usedBefore' = AtEnd(usedBefore, slots, m)
    BY <1>1 DEF GetForInference, Activate
  <2>2. OrderOn(AtEnd(usedBefore, slots, m), slots \cup {m})
    BY <1>0, AtEndOrder
  <2> QED
    BY <1>0, <2>1, <2>2 DEF Ordered
<1>2. ASSUME NEW m \in Models, Load(m) PROVE Ordered'
  <2>1. PICK v \in Models \cup {NoModel} :
          /\ slots' = (slots \ {v}) \cup {m}
          /\ usedBefore' = AtEnd(Without(usedBefore, v), slots \ {v}, m)
          /\ insertedBefore' = AtEnd(Without(insertedBefore, v), slots \ {v}, m)
    BY <1>2 DEF Load
  <2> QED
    BY <1>0, <2>1, WithoutOrder, AtEndOrder DEF Ordered
<1>3. ASSUME NEW m \in Models, LoadFails(m) \/ Evict(m) PROVE Ordered'
  <2>1. \E v \in Models \cup {NoModel} :
          /\ slots' = slots \ {v} /\ usedBefore' = Without(usedBefore, v)
          /\ insertedBefore' = Without(insertedBefore, v)
    BY <1>3 DEF LoadFails, Evict
  <2> QED
    BY <1>0, <2>1, WithoutOrder DEF Ordered
<1>4. CASE UNCHANGED poolVars
  BY <1>4 DEF poolVars, Ordered
<1> QED
  BY <1>1, <1>2, <1>3, <1>4 DEF PoolNext

\* There is always exactly one model load_model would evict, or it evicts none,
\* and exactly one that takes over from a model that is evicted.
THEOREM VictimIsUnique ==
  PoolSpec =>
    [](/\ \E v \in Models \cup {NoModel} :
            IsVictim(v) /\ \A w \in Models \cup {NoModel} : IsVictim(w) => w = v
       /\ \A m \in slots : slots \ {m} # {} =>
            \E n \in slots \ {m} :
              /\ IsFirst(insertedBefore, slots \ {m}, n)
              /\ \A k \in slots \ {m} : IsFirst(insertedBefore, slots \ {m}, k) => k = n)
<1> DEFINE Unique ==
      /\ \E v \in Models \cup {NoModel} :
           IsVictim(v) /\ \A w \in Models \cup {NoModel} : IsVictim(w) => w = v
      /\ \A m \in slots : slots \ {m} # {} =>
           \E n \in slots \ {m} :
             /\ IsFirst(insertedBefore, slots \ {m}, n)
             /\ \A k \in slots \ {m} : IsFirst(insertedBefore, slots \ {m}, k) => k = n
<1>1. PoolInit => Ordered
  BY DEF PoolInit, Ordered, OrderOn, IsFirst
<1>2. ASSUME NEW order, NEW S, NEW T \in SUBSET S, OrderOn(order, S), T # {}
      PROVE  \E n \in T : /\ IsFirst(order, T, n)
                          /\ \A k : IsFirst(order, T, k) => k = n
  <2>1. PICK n \in T : IsFirst(order, T, n)
    BY <1>2 DEF OrderOn
  <2>2. ASSUME NEW k, IsFirst(order, T, k), k # n PROVE FALSE
    <3>1. k \in T /\ <<n, k>> \in order /\ <<k, n>> \in order
      BY <2>1, <2>2 DEF IsFirst
    <3> QED
      BY <1>2, <3>1 DEF OrderOn
  <2> QED
    BY <2>1, <2>2
<1>3. PoolInv /\ Ordered => Unique
  <2> SUFFICES ASSUME PoolInv, Ordered PROVE Unique
    OBVIOUS
  <2>1. slots \subseteq Models
    BY DEF PoolInv, PoolTypeOK
  <2>2. \E v \in Models \cup {NoModel} :
          IsVictim(v) /\ \A w \in Models \cup {NoModel} : IsVictim(w) => w = v
    <3>1. CASE Cardinality(slots) >= MaxModels /\ Candidates # {}
      <4>1. Candidates \in SUBSET slots
        BY DEF Candidates
      <4>2. \E n \in Candidates : /\ IsFirst(usedBefore, Candidates, n)
                                  /\ \A k : IsFirst(usedBefore, Candidates, k) => k = n
        BY <1>2, <3>1, <4>1 DEF Ordered
      <4> QED
        BY <2>1, <3>1, <4>1, <4>2 DEF IsVictim
    <3>2. CASE ~(Cardinality(slots) >= MaxModels /\ Candidates # {})
      BY <3>2 DEF IsVictim
    <3> QED
      BY <3>1, <3>2
  <2>3. ASSUME NEW m \in slots, slots \ {m} # {}
        PROVE  \E n \in slots \ {m} :
                 /\ IsFirst(insertedBefore, slots \ {m}, n)
                 /\ \A k \in slots \ {m} : IsFirst(insertedBefore, slots \ {m}, k) => k = n
    <3>1. slots \ {m} \in SUBSET slots
      OBVIOUS
    <3> QED
      BY <1>2, <2>3, <3>1 DEF Ordered
  <2> QED
    BY <2>2, <2>3
<1> QED
  BY <1>1, <1>3, PoolInvCorrect, OrderedInduction, PTL DEF PoolSpec

-----------------------------------------------------------------------------
\* The node as a composition: its steps are steps of its parts.

\* A step of the node is one of the pool, or leaves it alone.
LEMMA NodePoolStep == [NodeNext]_nodeVars => [PoolNext]_poolVars
<1> SUFFICES ASSUME [NodeNext]_nodeVars PROVE [PoolNext]_poolVars
  OBVIOUS
<1>1. Target \in [Requests -> Models] /\ ToLoad \in [Selects -> Models]
  BY NodeAssumption
<1>2. ASSUME NEW r \in Requests, UseText(r)
      PROVE  [PoolNext]_poolVars
  BY <1>1, <1>2 DEF UseText, Touch, pool, PoolNext
<1>3. ASSUME NEW r \in Requests, RouteChat(r) \/ RouteText(r) \/ NoPeer(r)
      PROVE  [PoolNext]_poolVars
  <2>1. GetForInference(Target[r]) \/ UseText(r) \/ UNCHANGED poolVars
    BY <1>3 DEF RouteChat, RouteText, NoPeer, pool
  <2> QED
    BY <1>1, <1>2, <2>1 DEF PoolNext
<1>4. ASSUME NEW r \in Requests,
             \/ Admit(r) \/ Begin(r) \/ Leave(r) \/ PeerAnswers(r) \/ Raise(r)
             \/ Respond(r) \/ OpenStream(r) \/ ChunkEnds(r) \/ NextChunk(r)
             \/ Disconnect(r) \/ CutOff(r) \/ OrphanEnds(r)
      PROVE  UNCHANGED poolVars
  BY <1>4 DEF Admit, Begin, Leave, PeerAnswers, Raise, Respond, OpenStream,
              ChunkEnds, NextChunk, Disconnect, CutOff, OrphanEnds, pool
<1>5. ASSUME NEW t \in Tasks, Acquire(t) \/ GiveUpGenerating(t) \/ GenerationEnds(t)
      PROVE  UNCHANGED poolVars
  BY <1>5 DEF Acquire, GiveUpGenerating, GenerationEnds, pool
<1>6. ASSUME NEW s \in Selects,
             \/ SelectInstant(s) \/ SelectDrains(s) \/ SelectLoads(s)
             \/ SelectFinds(s) \/ SelectFails(s)
      PROVE  [PoolNext]_poolVars
  <2>1. \/ Activate(ToLoad[s]) \/ Load(ToLoad[s]) \/ LoadFails(ToLoad[s])
        \/ UNCHANGED poolVars
    BY <1>6 DEF SelectInstant, SelectDrains, SelectLoads, SelectFinds, SelectFails, pool
  <2> QED
    BY <1>1, <2>1 DEF PoolNext
<1>7. ASSUME NEW m \in Models, EvictModel(m)
      PROVE  [PoolNext]_poolVars
  BY <1>7 DEF EvictModel, PoolNext
<1>8. CASE UNCHANGED nodeVars
  BY <1>8 DEF nodeVars, poolVars
<1> QED
  BY <1>3, <1>4, <1>5, <1>6, <1>7, <1>8 DEF NodeNext

\* A step of the node is one of the queue's promise, or leaves it alone.
LEMMA NodeServiceStep == [NodeNext]_nodeVars => [ServiceNext]_serviceVars
<1> SUFFICES ASSUME [NodeNext]_nodeVars PROVE [ServiceNext]_serviceVars
  OBVIOUS
<1>1. ASSUME NEW r \in Requests,
             \/ Admit(r) \/ Begin(r) \/ Leave(r) \/ PeerAnswers(r) \/ Raise(r)
             \/ Respond(r) \/ CutOff(r)
      PROVE  [ServiceNext]_serviceVars
  BY <1>1 DEF Admit, Begin, Leave, PeerAnswers, Raise, Respond, CutOff, Settle, ServiceNext
<1>2. ASSUME NEW r \in Requests,
             \/ RouteChat(r) \/ RouteText(r) \/ NoPeer(r) \/ OpenStream(r)
             \/ ChunkEnds(r) \/ NextChunk(r) \/ Disconnect(r) \/ OrphanEnds(r)
      PROVE  UNCHANGED serviceVars
  BY <1>2 DEF RouteChat, RouteText, NoPeer, OpenStream, ChunkEnds, NextChunk,
              Disconnect, OrphanEnds
<1>3. ASSUME NEW t \in Tasks, Acquire(t) \/ GiveUpGenerating(t) \/ GenerationEnds(t)
      PROVE  [ServiceNext]_serviceVars
  <2>1. (t \in Requests /\ Conclude(t)) \/ UNCHANGED serviceVars
    BY <1>3 DEF Acquire, GiveUpGenerating, GenerationEnds, Settle
  <2> QED
    BY <2>1 DEF ServiceNext
<1>4. ASSUME NEW s \in Selects,
             \/ SelectInstant(s) \/ SelectDrains(s) \/ SelectLoads(s)
             \/ SelectFinds(s) \/ SelectFails(s)
      PROVE  UNCHANGED serviceVars
  BY <1>4 DEF SelectInstant, SelectDrains, SelectLoads, SelectFinds, SelectFails
<1>5. ASSUME NEW m \in Models, EvictModel(m)
      PROVE  UNCHANGED serviceVars
  BY <1>5 DEF EvictModel
<1>6. CASE UNCHANGED nodeVars
  BY <1>6 DEF nodeVars, serviceVars
<1> QED
  BY <1>1, <1>2, <1>3, <1>4, <1>5, <1>6 DEF NodeNext

-----------------------------------------------------------------------------
\* Steps of a task.

\* A loaded model has been loaded.
LoadedOnce == \A m \in slots : loads[m] >= 1

TaskTypes ==
  /\ phase \in [Tasks -> Phases]
  /\ bound \in [Tasks -> Wrappers \cup {NoWrapper}]
  /\ threads \subseteq Tasks

Holding == {"running", "paused"}

\* One task moves: the others stay, and it comes to hold a lock only if nobody
\* has it.
Moves(t) ==
  /\ TaskTypes'
  /\ \A u \in Tasks \ {t} :
       phase'[u] = phase[u] /\ bound'[u] = bound[u] /\ (u \in threads' <=> u \in threads)
  /\ phase'[t] \in Holding =>
       \/ phase[t] \in Holding /\ bound'[t] = bound[t]
       \/ Holders(bound'[t]) = {}

LEMMA GoToMoves ==
  ASSUME TaskTypes, NEW t \in Tasks, NEW p \in Phases, GoTo(t, p), bound' = bound,
         threads' \in {threads, threads \cup {t}, threads \ {t}},
         p \in Holding => phase[t] \in Holding \/ Holders(bound[t]) = {}
  PROVE  Moves(t) /\ phase'[t] = p
BY DEF Moves, TaskTypes, GoTo

LEMMA BindMoves ==
  ASSUME TaskTypes, NEW t \in Tasks, NEW p \in Phases, NEW w \in Wrappers \cup {NoWrapper},
         GoTo(t, p), bound' = [bound EXCEPT ![t] = w],
         threads' = IF p = "running" THEN threads \cup {t} ELSE threads,
         p \in Holding => Holders(w) = {}
  PROVE  Moves(t) /\ phase'[t] = p /\ bound'[t] = w
BY DEF Moves, TaskTypes, GoTo

LEMMA EnterMoves ==
  ASSUME TaskTypes, NEW t \in Tasks, NEW w \in Wrappers, Enter(t, w)
  PROVE  /\ Moves(t) /\ bound'[t] = w /\ phase'[t] \in {"locking", "running", "raising"}
         /\ threads' = IF phase'[t] = "running" THEN threads \cup {t} ELSE threads
<1> DEFINE p == Entering(w)
<1>1. p \in {"locking", "running", "raising"} /\ p \in Phases
  BY DEF Entering, Phases
<1>2. p = "running" => Holders(w) = {}
  BY DEF Entering, Free
<1>3. /\ GoTo(t, p) /\ bound' = [bound EXCEPT ![t] = w]
      /\ threads' = IF p = "running" THEN threads \cup {t} ELSE threads
  BY DEF Enter, GoTo
<1> HIDE DEF p
<1>4. Moves(t) /\ phase'[t] = p /\ bound'[t] = w
  BY <1>1, <1>2, <1>3, BindMoves DEF Holding
<1> QED
  BY <1>1, <1>3, <1>4

\* A wrapper that is loaded is one.
LEMMA LoadedIsWrapper ==
  ASSUME NodeTypeOK, LoadedOnce
  PROVE  /\ \A m \in slots : Current(m) \in Wrappers
         /\ llm \in Wrappers \cup {NoWrapper}
         /\ TaskTypes
<1>1. \A m \in slots : m \in Models /\ loads[m] \in 1..MaxLoads
  BY NodeAssumption DEF NodeTypeOK, PoolTypeOK, LoadedOnce
<1> QED
  BY <1>1 DEF NodeTypeOK, TaskTypes, Current, Wrappers

LEMMA UseMoves ==
  ASSUME NodeTypeOK, LoadedOnce, NEW r \in Requests
  PROVE  /\ \A w \in Wrappers \cup {NoWrapper} : UseChat(r, w) => Moves(r)
         /\ UseText(r) => Moves(r)
<1> USE LoadedIsWrapper
<1>1. r \in Tasks
  BY DEF Tasks
<1>2. ASSUME NEW w \in Wrappers \cup {NoWrapper}, UseChat(r, w)
      PROVE  Moves(r)
  <2>1. CASE Loaded(w) /\ r \notin Streaming
    <3>1. w \in Wrappers /\ Enter(r, w)
      BY <1>2, <2>1 DEF UseChat, Loaded
    <3> QED
      BY <1>1, <3>1, EnterMoves
  <2>2. CASE ~(Loaded(w) /\ r \notin Streaming)
    <3>1. PICK p \in {"responding", "raising"} :
            GoTo(r, p) /\ bound' = [bound EXCEPT ![r] = w] /\ threads' = threads
      BY <1>2, <2>2 DEF UseChat
    <3>2. p \in Phases /\ p \notin Holding /\ p # "running"
      BY DEF Phases, Holding
    <3> QED
      BY <1>1, <3>1, <3>2, BindMoves
  <2> QED
    BY <2>1, <2>2
<1>3. ASSUME UseText(r)
      PROVE  Moves(r)
  <2>1. CASE llm # NoWrapper /\ r \notin Streaming
    <3>1. llm \in Wrappers /\ Enter(r, llm)
      BY <1>3, <2>1 DEF UseText
    <3> QED
      BY <1>1, <3>1, EnterMoves
  <2>2. CASE ~(llm # NoWrapper /\ r \notin Streaming)
    <3>1. PICK p \in {"responding", "raising"} :
            GoTo(r, p) /\ bound' = bound /\ threads' = threads
      BY <1>3, <2>2 DEF UseText
    <3>2. p \in Phases /\ p \notin Holding
      BY DEF Phases, Holding
    <3> QED
      BY <1>1, <3>1, <3>2, GoToMoves
  <2> QED
    BY <2>1, <2>2
<1> QED
  BY <1>2, <1>3

\* In every step one task moves, or none.
LEMMA OneMoves ==
  ASSUME NodeTypeOK, LoadedOnce, [NodeNext]_nodeVars
  PROVE  (\E t \in Tasks : Moves(t)) \/ UNCHANGED <<phase, bound, threads>>
<1> USE LoadedIsWrapper
<1>1. /\ Requests \subseteq Tasks /\ Selects \subseteq Tasks
      /\ Target \in [Requests -> Models] /\ ToLoad \in [Selects -> Models]
      /\ {"queued", "started", "selecting", "ready", "draining", "running", "paused",
          "done", "idle", "raising"} \subseteq Phases
      /\ "running" \in Holding /\ "paused" \in Holding
      /\ {"queued", "started", "selecting", "ready", "draining", "done", "idle", "raising"}
           \cap Holding = {}
  BY NodeAssumption DEF Tasks, Phases, Holding
<1>2. ASSUME NEW t \in Tasks, bound' = bound,
             threads' \in {threads, threads \cup {t}, threads \ {t}},
             \E p \in {"queued", "started", "selecting", "ready", "draining", "done",
                       "idle", "raising"} : GoTo(t, p)
      PROVE  Moves(t)
  BY <1>1, <1>2, GoToMoves
<1>3. ASSUME NEW r \in Requests,
             \/ Admit(r) \/ Begin(r) \/ PeerAnswers(r) \/ Raise(r) \/ Respond(r)
             \/ Disconnect(r) \/ CutOff(r)
      PROVE  Moves(r)
  BY <1>1, <1>2, <1>3 DEF Admit, Begin, PeerAnswers, Raise, Respond, Disconnect, CutOff
<1>4. ASSUME NEW r \in Requests, RouteChat(r)
      PROVE  Moves(r)
  <2>1. CASE UseChat(r, llm)
    BY <2>1, UseMoves
  <2>2. CASE GetForInference(Target[r]) /\ UseChat(r, Current(Target[r]))
    <3>1. Current(Target[r]) \in Wrappers
      BY <2>2 DEF GetForInference
    <3> QED
      BY <2>2, <3>1, UseMoves
  <2>3. CASE /\ bound' = [bound EXCEPT ![r] = llm] /\ GoTo(r, "selecting")
             /\ threads' = threads
    BY <1>1, <2>3, BindMoves
  <2> QED
    BY <1>4, <2>1, <2>2, <2>3 DEF RouteChat
<1>5. ASSUME NEW r \in Requests, RouteText(r)
      PROVE  Moves(r)
  <2>1. CASE UseText(r)
    BY <2>1, UseMoves
  <2>2. CASE GoTo(r, "selecting") /\ UNCHANGED <<bound, threads>>
    BY <1>1, <1>2, <2>2
  <2> QED
    BY <1>5, <2>1, <2>2 DEF RouteText
<1>6. ASSUME NEW r \in Requests, NoPeer(r)
      PROVE  Moves(r)
  <2>1. UseChat(r, bound[r]) \/ UseText(r)
    BY <1>6 DEF NoPeer
  <2>2. bound[r] \in Wrappers \cup {NoWrapper}
    BY <1>1 DEF TaskTypes
  <2> QED
    BY <2>1, <2>2, UseMoves
<1>7. ASSUME NEW r \in Requests, OpenStream(r)
      PROVE  Moves(r)
  <2> DEFINE w == IF r \in Chat THEN bound[r] ELSE llm
  <2>1. w \in Wrappers \cup {NoWrapper}
    BY <1>1 DEF TaskTypes
  <2>2. IF w = NoWrapper THEN GoTo(r, "done") /\ UNCHANGED <<bound, threads>>
        ELSE Enter(r, w)
    BY <1>7 DEF OpenStream
  <2> HIDE DEF w
  <2> QED
    BY <1>1, <1>2, <2>1, <2>2, EnterMoves
<1>8. ASSUME NEW r \in Requests, ChunkEnds(r) \/ NextChunk(r)
      PROVE  Moves(r)
  <2>1. PICK p \in {"paused", "running"} : GoTo(r, p)
    BY <1>8 DEF ChunkEnds, NextChunk
  <2>2. /\ bound' = bound /\ phase[r] \in Holding
        /\ threads' \in {threads \cup {r}, threads \ {r}}
    BY <1>8 DEF ChunkEnds, NextChunk, Holding
  <2> QED
    BY <1>1, <2>1, <2>2, GoToMoves
<1>9. ASSUME NEW r \in Requests, OrphanEnds(r)
      PROVE  Moves(r)
  <2>1. phase' = phase /\ bound' = bound /\ threads' = threads \ {r} /\ phase[r] = "done"
    BY <1>9 DEF OrphanEnds
  <2> QED
    BY <1>1, <2>1 DEF Moves, TaskTypes
<1>10. ASSUME NEW t \in Tasks, Acquire(t)
       PROVE  Moves(t)
  <2>1. PICK p \in {"running", "raising"} : GoTo(t, p)
    BY <1>10 DEF Acquire
  <2>2. /\ bound' = bound /\ Holders(bound[t]) = {}
        /\ threads' \in {threads \cup {t}, threads}
    BY <1>10 DEF Acquire
  <2> QED
    BY <1>1, <2>1, <2>2, GoToMoves
<1>11. ASSUME NEW t \in Tasks, GiveUpGenerating(t) \/ GenerationEnds(t)
       PROVE  Moves(t)
  BY <1>1, <1>2, <1>11 DEF GiveUpGenerating, GenerationEnds
<1>12. ASSUME NEW s \in Selects, SelectDrains(s) \/ SelectFails(s)
       PROVE  Moves(s)
  BY <1>1, <1>2, <1>12 DEF SelectDrains, SelectFails
<1>13. ASSUME NEW s \in Selects, SelectFinds(s)
       PROVE  Moves(s)
  <2>1. Current(ToLoad[s]) \in Wrappers /\ Enter(s, Current(ToLoad[s]))
    BY <1>13 DEF SelectFinds, Activate
  <2> QED
    BY <1>1, <2>1, EnterMoves
<1>14. ASSUME NEW s \in Selects, SelectLoads(s)
       PROVE  Moves(s)
  <2> DEFINE w == <<ToLoad[s], loads[ToLoad[s]] + 1>>
             p == IF Free(w) THEN "running" ELSE "locking"
  <2>1. w \in Wrappers
    <3>1. ToLoad[s] \in Models /\ loads[ToLoad[s]] \in 0..MaxLoads /\ MaxLoads \in Nat
      BY <1>1, NodeAssumption DEF NodeTypeOK
    <3>2. loads[ToLoad[s]] < MaxLoads
      BY <1>14 DEF SelectLoads
    <3> QED
      BY <3>1, <3>2 DEF Wrappers
  <2>2. /\ bound' = [bound EXCEPT ![s] = w] /\ GoTo(s, p)
        /\ threads' = IF p = "running" THEN threads \cup {s} ELSE threads
    BY <1>14 DEF SelectLoads
  <2>3. p \in Phases /\ (p \in Holding => Holders(w) = {})
    BY DEF Phases, Holding, Free
  <2> HIDE DEF w, p
  <2> QED
    BY <1>1, <2>1, <2>2, <2>3, BindMoves
<1>15. ASSUME \/ \E r \in Requests : Leave(r)
              \/ \E s \in Selects : SelectInstant(s)
              \/ \E m \in Models : EvictModel(m)
       PROVE  UNCHANGED <<phase, bound, threads>>
  BY <1>15 DEF Leave, SelectInstant, EvictModel, tasks
<1>16. CASE UNCHANGED nodeVars
  BY <1>16 DEF nodeVars
<1> QED
  BY <1>1, <1>3, <1>4, <1>5, <1>6, <1>7, <1>8, <1>9, <1>10, <1>11, <1>12, <1>13, <1>14,
     <1>15, <1>16 DEF NodeNext

-----------------------------------------------------------------------------
\* The globals, and the types.

\* A step that changes the active model, or loads one, synchronises.
LEMMA Synchronised ==
  ASSUME NodeTypeOK, [NodeNext]_nodeVars
  PROVE  \/ /\ UNCHANGED <<loads, llm, configModel, active>>
            /\ slots' \subseteq slots
         \/ Sync /\ loads' = loads /\ slots' \subseteq slots
         \/ \E m \in Models : /\ Sync /\ loads[m] < MaxLoads
                              /\ loads' = [loads EXCEPT ![m] = @ + 1]
                              /\ slots' \subseteq slots \cup {m}
<1>1. ASSUME NEW r \in Requests,
             RouteChat(r) \/ RouteText(r) \/ NoPeer(r)
      PROVE  UNCHANGED <<loads, llm, configModel, active, slots>>
  <2>1. UNCHANGED <<loads, globals>>
    BY <1>1 DEF RouteChat, RouteText, NoPeer
  <2>2. GetForInference(Target[r]) \/ UNCHANGED pool
    BY <1>1 DEF RouteChat, RouteText, NoPeer, UseText, Touch
  <2> QED
    BY <2>1, <2>2 DEF globals, GetForInference, pool, poolVars
<1>2. ASSUME NEW r \in Requests,
             \/ Admit(r) \/ Begin(r) \/ Leave(r) \/ PeerAnswers(r) \/ Raise(r)
             \/ Respond(r) \/ OpenStream(r) \/ ChunkEnds(r) \/ NextChunk(r)
             \/ Disconnect(r) \/ CutOff(r) \/ OrphanEnds(r)
      PROVE  UNCHANGED <<loads, llm, configModel, active, slots>>
  BY <1>2 DEF Admit, Begin, Leave, PeerAnswers, Raise, Respond, OpenStream, ChunkEnds,
              NextChunk, Disconnect, CutOff, OrphanEnds, pool, poolVars, globals
<1>3. ASSUME NEW t \in Tasks, Acquire(t) \/ GiveUpGenerating(t) \/ GenerationEnds(t)
      PROVE  UNCHANGED <<loads, llm, configModel, active, slots>>
  BY <1>3 DEF Acquire, GiveUpGenerating, GenerationEnds, pool, poolVars, globals
<1>4. ASSUME NEW s \in Selects, SelectDrains(s)
      PROVE  UNCHANGED <<loads, llm, configModel, active, slots>>
  BY <1>4 DEF SelectDrains, pool, poolVars, globals
<1>5. ASSUME NEW s \in Selects, SelectFails(s)
      PROVE  UNCHANGED <<loads, llm, configModel, active>> /\ slots' \subseteq slots
  BY <1>5 DEF SelectFails, LoadFails, globals
<1>6. ASSUME NEW s \in Selects, SelectInstant(s) \/ SelectFinds(s)
      PROVE  Sync /\ loads' = loads /\ slots' \subseteq slots
  BY <1>6 DEF SelectInstant, SelectFinds, Activate
<1>7. ASSUME NEW m \in Models, EvictModel(m)
      PROVE  Sync /\ loads' = loads /\ slots' \subseteq slots
  BY <1>7 DEF EvictModel, Evict
<1>8. ASSUME NEW s \in Selects, SelectLoads(s)
      PROVE  /\ ToLoad[s] \in Models /\ Sync /\ loads[ToLoad[s]] < MaxLoads
             /\ loads' = [loads EXCEPT ![ToLoad[s]] = @ + 1]
             /\ slots' \subseteq slots \cup {ToLoad[s]}
  BY <1>8, NodeAssumption DEF SelectLoads, Load
<1>9. CASE UNCHANGED nodeVars
  BY <1>9 DEF nodeVars
<1> QED
  BY <1>1, <1>2, <1>3, <1>4, <1>5, <1>6, <1>7, <1>8, <1>9 DEF NodeNext

LEMMA GlobalsInduction ==
  ASSUME NodeTypeOK, LoadedOnce, PoolInv', GlobalsFollowPool, [NodeNext]_nodeVars
  PROVE  /\ loads' \in [Models -> 0..MaxLoads] /\ LoadedOnce' /\ GlobalsFollowPool'
         /\ llm' \in Wrappers \cup {NoWrapper} /\ configModel' \in Models \cup {NoModel}
<1>1. /\ loads \in [Models -> 0..MaxLoads] /\ MaxLoads \in Nat
      /\ slots \subseteq Models /\ slots' \subseteq Models
      /\ active' \in Models \cup {NoModel} /\ (active' # NoModel => active' \in slots')
  BY NodeAssumption DEF NodeTypeOK, PoolTypeOK, PoolInv, ActiveIsLoaded
<1>2. loads' \in [Models -> 0..MaxLoads] /\ LoadedOnce'
  <2>1. CASE loads' = loads /\ slots' \subseteq slots
    BY <1>1, <2>1 DEF LoadedOnce
  <2>2. ASSUME NEW m \in Models, loads[m] < MaxLoads,
               loads' = [loads EXCEPT ![m] = @ + 1], slots' \subseteq slots \cup {m}
        PROVE  loads' \in [Models -> 0..MaxLoads] /\ LoadedOnce'
    <3>1. loads[m] \in Nat /\ loads[m] + 1 \in 0..MaxLoads
      BY <1>1, <2>2
    <3> QED
      BY <1>1, <2>2, <3>1 DEF LoadedOnce
  <2> QED
    BY <2>1, <2>2, Synchronised
<1>3. GlobalsFollowPool'
  <2>1. CASE UNCHANGED <<loads, llm, configModel, active>>
    BY <2>1 DEF GlobalsFollowPool, Current
  <2>2. CASE Sync
    BY <2>2 DEF Sync, GlobalsFollowPool, Current
  <2> QED
    BY <2>1, <2>2, Synchronised
<1>4. active' # NoModel => Current(active)' \in Wrappers
  <2> SUFFICES ASSUME active' # NoModel PROVE <<active', loads'[active']>> \in Wrappers
    BY DEF Current
  <2>1. active' \in Models /\ loads'[active'] \in 1..MaxLoads
    BY <1>1, <1>2 DEF LoadedOnce
  <2> QED
    BY <2>1 DEF Wrappers
<1> QED
  BY <1>1, <1>2, <1>3, <1>4 DEF GlobalsFollowPool

LEMMA ServiceTypes == ServiceTypeOK /\ [ServiceNext]_serviceVars => ServiceTypeOK'
<1> SUFFICES ASSUME ServiceTypeOK, [ServiceNext]_serviceVars PROVE ServiceTypeOK'
  OBVIOUS
<1> USE DEF ServiceTypeOK, Outcomes, Final
<1>1. ASSUME NEW r \in Requests, Accept(r) \/ Execute(r) \/ Conclude(r) \/ GiveUp(r)
      PROVE  ServiceTypeOK'
  BY <1>1 DEF Accept, Execute, Conclude, GiveUp
<1>2. CASE CancelMany
  BY <1>2 DEF CancelMany
<1>3. CASE UNCHANGED serviceVars
  BY <1>3 DEF serviceVars
<1> QED
  BY <1>1, <1>2, <1>3 DEF ServiceNext

\* What is chosen as a label is the name of a model, or says there is none.
LEMMA LabelTypes ==
  ASSUME NodeTypeOK, LoadedOnce, [NodeNext]_nodeVars
  PROVE  label' \in [Requests -> Models \cup {NoModel}]
<1>1. \A w \in Wrappers \cup {NoWrapper} : LabelOf(w) \in Models \cup {NoModel}
  BY DEF LabelOf, Wrappers, NodeTypeOK
<1>2. ASSUME NEW r \in Requests, NEW w \in Wrappers \cup {NoWrapper},
             label' = [label EXCEPT ![r] = LabelOf(w)]
      PROVE  label' \in [Requests -> Models \cup {NoModel}]
  BY <1>1, <1>2 DEF NodeTypeOK
<1>3. ASSUME NEW r \in Requests, UseText(r)
      PROVE  label' \in [Requests -> Models \cup {NoModel}]
  <2> DEFINE w == IF Target[r] \in slots THEN Current(Target[r]) ELSE llm
  <2>1. w \in Wrappers \cup {NoWrapper}
    BY LoadedIsWrapper
  <2>2. label' = [label EXCEPT ![r] = LabelOf(w)]
    BY <1>3 DEF UseText
  <2> HIDE DEF w
  <2> QED
    BY <1>2, <2>1, <2>2
<1>4. ASSUME NEW r \in Requests, RouteChat(r) \/ NoPeer(r) \/ RouteText(r)
      PROVE  label' \in [Requests -> Models \cup {NoModel}]
  <2>1. \/ UseText(r) \/ label' = label
        \/ \E w \in {llm, bound[r]} : UseChat(r, w)
        \/ Target[r] \in slots /\ UseChat(r, Current(Target[r]))
    BY <1>4 DEF RouteChat, NoPeer, RouteText, GetForInference
  <2>2. /\ llm \in Wrappers \cup {NoWrapper} /\ bound[r] \in Wrappers \cup {NoWrapper}
        /\ (Target[r] \in slots => Current(Target[r]) \in Wrappers)
    BY LoadedIsWrapper DEF NodeTypeOK, Tasks
  <2>3. \A w \in Wrappers \cup {NoWrapper} :
          UseChat(r, w) => label' \in [Requests -> Models \cup {NoModel}]
    BY <1>2 DEF UseChat
  <2> QED
    BY <1>3, <2>1, <2>2, <2>3 DEF NodeTypeOK
<1>5. ASSUME \/ \E r \in Requests :
                  \/ Admit(r) \/ Begin(r) \/ Leave(r) \/ PeerAnswers(r) \/ Raise(r)
                  \/ Respond(r) \/ OpenStream(r) \/ ChunkEnds(r) \/ NextChunk(r)
                  \/ Disconnect(r) \/ CutOff(r) \/ OrphanEnds(r)
             \/ \E t \in Tasks : Acquire(t) \/ GiveUpGenerating(t) \/ GenerationEnds(t)
             \/ \E s \in Selects :
                  \/ SelectInstant(s) \/ SelectDrains(s) \/ SelectLoads(s)
                  \/ SelectFinds(s) \/ SelectFails(s)
             \/ \E m \in Models : EvictModel(m)
             \/ UNCHANGED nodeVars
      PROVE  label' = label
  BY <1>5 DEF Admit, Begin, Leave, PeerAnswers, Raise, Respond, OpenStream, ChunkEnds,
              NextChunk, Disconnect, CutOff, OrphanEnds, Acquire, GiveUpGenerating,
              GenerationEnds, SelectInstant, SelectDrains, SelectLoads, SelectFinds,
              SelectFails, EvictModel, nodeVars, tasks
<1> QED
  BY <1>4, <1>5 DEF NodeNext, NodeTypeOK

LEMMA NodeTypeInduction ==
  ASSUME NodeTypeOK, LoadedOnce, PoolInv', GlobalsFollowPool, [NodeNext]_nodeVars
  PROVE  NodeTypeOK'
<1>1. PoolTypeOK' /\ ServiceTypeOK'
  BY NodeServiceStep, ServiceTypes DEF NodeTypeOK, PoolInv
<1>2. TaskTypes'
  <2>1. TaskTypes
    BY LoadedIsWrapper
  <2> QED
    BY <2>1, OneMoves DEF Moves, TaskTypes
<1> QED
  BY <1>1, <1>2, GlobalsInduction, LabelTypes DEF NodeTypeOK, TaskTypes

-----------------------------------------------------------------------------
\* Locks.

\* Nobody shares a wrapper, a stream between two chunks included.
Alone ==
  \A s, t \in Tasks :
    s # t /\ bound[s] = bound[t] => ~(phase[s] \in Holding /\ phase[t] \in Holding)

LEMMA AloneInduction ==
  ASSUME Alone, (\E t \in Tasks : Moves(t)) \/ UNCHANGED <<phase, bound, threads>>
  PROVE  Alone'
<1>1. CASE UNCHANGED <<phase, bound, threads>>
  BY <1>1 DEF Alone
<1>2. ASSUME NEW t \in Tasks, Moves(t)
      PROVE  Alone'
  <2>1. ASSUME NEW u \in Tasks, u # t, bound'[u] = bound'[t],
               phase'[u] \in Holding, phase'[t] \in Holding
        PROVE  FALSE
    <3>1. phase[u] \in Holding /\ bound[u] = bound'[t]
      BY <1>2, <2>1 DEF Moves
    <3>2. u \in Holders(bound'[t])
      BY <3>1 DEF Holders, Holding
    <3>3. phase[t] \in Holding /\ bound'[t] = bound[t]
      BY <1>2, <2>1, <3>2 DEF Moves
    <3> QED
      BY <2>1, <3>1, <3>3 DEF Alone
  <2>2. ASSUME NEW u \in Tasks, NEW v \in Tasks, u # v, u # t, v # t, bound'[u] = bound'[v],
               phase'[u] \in Holding, phase'[v] \in Holding
        PROVE  FALSE
    BY <1>2, <2>2 DEF Moves, Alone
  <2> QED
    BY <2>1, <2>2 DEF Alone
<1> QED
  BY <1>1, <1>2

-----------------------------------------------------------------------------
\* Labels of chats.

\* From the choice of its wrapper to the end of its thread, a chat is labelled
\* with the model of that wrapper.
Chosen == {"responding", "ready", "locking", "running", "paused"}

LabelledAt(r) ==
  /\ r \in threads => phase[r] \in {"running", "done"}
  /\ phase[r] \in Chosen \/ r \in threads =>
       bound[r] # NoWrapper /\ label[r] = bound[r][1]

Labelled == \A r \in Chat : LabelledAt(r)

\* The label of a wrapper is the name of its model, if the globals follow the
\* pool.
LEMMA LabelOfWrapper ==
  ASSUME GlobalsFollowPool, NEW w \in Wrappers, w # NoWrapper
  PROVE  LabelOf(w) = w[1]
<1>1. CASE w # llm
  BY <1>1 DEF LabelOf
<1>2. CASE w = llm
  <2>1. active # NoModel /\ w = <<active, loads[active]>>
    BY <1>2 DEF GlobalsFollowPool, Current
  <2>2. w[1] = active /\ configModel = active
    BY <2>1 DEF GlobalsFollowPool
  <2> QED
    BY <1>2, <2>2 DEF LabelOf
<1> QED
  BY <1>1, <1>2

\* A chat that chooses its wrapper is labelled.
LEMMA UseLabels ==
  ASSUME NodeTypeOK, GlobalsFollowPool, NEW r \in Requests, r \notin threads,
         NEW w \in Wrappers \cup {NoWrapper}, UseChat(r, w)
  PROVE  LabelledAt(r)'
<1>1. /\ r \in Tasks /\ phase \in [Tasks -> Phases] /\ label \in [Requests -> Models \cup {NoModel}]
      /\ bound \in [Tasks -> Wrappers \cup {NoWrapper}]
  BY DEF NodeTypeOK, Tasks
<1>2. label'[r] = LabelOf(w)
  BY <1>1 DEF UseChat
<1>3. CASE Loaded(w)
  <2>1. w \in Wrappers /\ w # NoWrapper
    BY <1>3 DEF Loaded
  <2>2. label'[r] = w[1]
    BY <1>2, <2>1, LabelOfWrapper
  <2>3. CASE r \notin Streaming
    <3>1. Enter(r, w)
      BY <1>3, <2>3 DEF UseChat
    <3>2. /\ bound'[r] = w /\ phase'[r] \in {"locking", "running", "raising"}
          /\ threads' = IF phase'[r] = "running" THEN threads \cup {r} ELSE threads
      BY <1>1, <2>1, <3>1, EnterMoves DEF NodeTypeOK, TaskTypes
    <3> QED
      BY <2>1, <2>2, <3>2 DEF LabelledAt
  <2>4. CASE r \in Streaming
    <3>1. bound'[r] = w /\ threads' = threads
      BY <1>1, <2>4 DEF UseChat
    <3> QED
      BY <2>1, <2>2, <3>1 DEF LabelledAt
  <2> QED
    BY <2>3, <2>4
<1>4. CASE ~Loaded(w)
  <2>1. phase'[r] = "raising" /\ threads' = threads
    BY <1>1, <1>4 DEF UseChat, GoTo
  <2> QED
    BY <2>1 DEF LabelledAt, Chosen
<1> QED
  BY <1>3, <1>4

\* What another task does leaves a chat as it is.
LEMMA OthersStay ==
  ASSUME NodeTypeOK, NEW u \in Tasks, NEW r \in Requests, r # u
  PROVE  /\ \A p \in Phases : GoTo(u, p) => phase'[r] = phase[r]
         /\ \A w \in Wrappers \cup {NoWrapper} :
              Enter(u, w) => /\ phase'[r] = phase[r] /\ bound'[r] = bound[r]
                             /\ (r \in threads' <=> r \in threads)
         /\ \A w \in Wrappers \cup {NoWrapper} :
              u \in Requests /\ UseChat(u, w) =>
                /\ phase'[r] = phase[r] /\ bound'[r] = bound[r] /\ label'[r] = label[r]
                /\ (r \in threads' <=> r \in threads)
         /\ u \in Requests /\ UseText(u) =>
                /\ phase'[r] = phase[r] /\ bound'[r] = bound[r] /\ label'[r] = label[r]
                /\ (r \in threads' <=> r \in threads)
<1>1. /\ r \in Tasks /\ phase \in [Tasks -> Phases] /\ label \in [Requests -> Models \cup {NoModel}]
      /\ bound \in [Tasks -> Wrappers \cup {NoWrapper}]
      /\ llm \in Wrappers \cup {NoWrapper}
  BY DEF NodeTypeOK, Tasks
<1>2. \A p : GoTo(u, p) => phase'[r] = phase[r]
  BY <1>1 DEF GoTo
<1>3. \A w : Enter(u, w) => /\ phase'[r] = phase[r] /\ bound'[r] = bound[r]
                            /\ (r \in threads' <=> r \in threads)
  BY <1>1 DEF Enter
<1>4. \A w : UseChat(u, w) => /\ phase'[r] = phase[r] /\ bound'[r] = bound[r]
                              /\ label'[r] = label[r] /\ (r \in threads' <=> r \in threads)
  BY <1>1, <1>2, <1>3 DEF UseChat
<1>5. UseText(u) => /\ phase'[r] = phase[r] /\ bound'[r] = bound[r]
                    /\ label'[r] = label[r] /\ (r \in threads' <=> r \in threads)
  BY <1>1, <1>2, <1>3 DEF UseText
<1> QED
  BY <1>2, <1>3, <1>4, <1>5

LEMMA LabelsInduction ==
  ASSUME NodeTypeOK, LoadedOnce, GlobalsFollowPool, Labelled, [NodeNext]_nodeVars
  PROVE  Labelled'
<1> SUFFICES ASSUME NEW r \in Chat PROVE LabelledAt(r)'
  BY DEF Labelled
<1>0. /\ r \in Requests /\ r \in Tasks /\ r \notin Selects /\ LabelledAt(r)
      /\ phase \in [Tasks -> Phases] /\ label \in [Requests -> Models \cup {NoModel}]
      /\ bound \in [Tasks -> Wrappers \cup {NoWrapper}]
      /\ Requests \subseteq Tasks /\ Selects \subseteq Tasks
  BY NodeAssumption DEF NodeTypeOK, Tasks, Labelled
<1>1. ASSUME phase'[r] = phase[r], bound'[r] = bound[r], label'[r] = label[r],
             r \in threads' => r \in threads
      PROVE  LabelledAt(r)'
  BY <1>0, <1>1 DEF LabelledAt
<1>2. ASSUME bound'[r] = bound[r], label'[r] = label[r],
             phase'[r] \in Chosen => phase[r] \in Chosen,
             r \in threads' => /\ phase'[r] \in {"running", "done"}
                               /\ r \in threads \/ phase[r] \in Chosen
      PROVE  LabelledAt(r)'
  BY <1>0, <1>2 DEF LabelledAt
<1>3. ASSUME NEW u \in Tasks, u # r, UNCHANGED <<bound, label>>,
             threads' \in {threads, threads \cup {u}, threads \ {u}},
             phase' = phase \/ \E p : GoTo(u, p)
      PROVE  LabelledAt(r)'
  <2>1. phase'[r] = phase[r]
    BY <1>0, <1>3 DEF GoTo
  <2> QED
    BY <1>1, <1>3, <2>1
<1>4. ASSUME NEW u \in Requests,
             \/ Admit(u) \/ Begin(u) \/ PeerAnswers(u) \/ Raise(u)
             \/ Respond(u) \/ ChunkEnds(u) \/ NextChunk(u)
             \/ Disconnect(u) \/ CutOff(u) \/ OrphanEnds(u)
      PROVE  LabelledAt(r)'
  <2>1. CASE u # r
    <3>1. UNCHANGED <<bound, label>> /\ threads' \in {threads, threads \cup {u}, threads \ {u}}
      BY <1>4 DEF Admit, Begin, PeerAnswers, Raise, Respond, ChunkEnds, NextChunk,
                  Disconnect, CutOff, OrphanEnds
    <3>2. phase' = phase \/ \E p : GoTo(u, p)
      BY <1>4 DEF Admit, Begin, PeerAnswers, Raise, Respond, ChunkEnds, NextChunk,
                  Disconnect, CutOff, OrphanEnds
    <3> QED
      BY <1>0, <1>3, <2>1, <3>1, <3>2
  <2>2. CASE u = r
    <3>1. UNCHANGED <<bound, label>>
      BY <1>4 DEF Admit, Begin, PeerAnswers, Raise, Respond, ChunkEnds, NextChunk,
                  Disconnect, CutOff, OrphanEnds
    <3>2. CASE Admit(r) \/ Begin(r) \/ PeerAnswers(r) \/ Raise(r)
      <4>1. /\ phase[r] \in {"idle", "queued", "selecting", "raising"} /\ threads' = threads
            /\ phase'[r] \in {"queued", "started", "done"}
        BY <1>0, <3>2 DEF Admit, Begin, PeerAnswers, Raise, GoTo
      <4> QED
        BY <1>0, <1>2, <3>1, <4>1 DEF LabelledAt, Chosen
    <3>3. CASE Respond(r) \/ Disconnect(r) \/ CutOff(r)
      <4>1. threads' = threads /\ phase'[r] \in {"ready", "done"}
            /\ (phase'[r] = "ready" => phase[r] = "responding")
        BY <1>0, <3>3 DEF Respond, Disconnect, CutOff, GoTo
      <4> QED
        BY <1>0, <1>2, <3>1, <4>1 DEF LabelledAt, Chosen
    <3>4. CASE ChunkEnds(r) \/ NextChunk(r)
      <4>1. /\ phase[r] \in Chosen
            /\ \/ phase'[r] = "paused" /\ threads' = threads \ {r}
               \/ phase'[r] = "running" /\ threads' = threads \cup {r}
        BY <1>0, <3>4 DEF ChunkEnds, NextChunk, GoTo, Chosen
      <4> QED
        BY <1>2, <3>1, <4>1
    <3>5. CASE OrphanEnds(r)
      <4>1. phase' = phase /\ threads' = threads \ {r}
        BY <3>5 DEF OrphanEnds
      <4> QED
        BY <1>1, <3>1, <4>1
    <3> QED
      BY <1>4, <2>2, <3>2, <3>3, <3>4, <3>5
  <2> QED
    BY <2>1, <2>2
<1>5. ASSUME NEW u \in Tasks, Acquire(u) \/ GiveUpGenerating(u) \/ GenerationEnds(u)
      PROVE  LabelledAt(r)'
  <2>1. /\ UNCHANGED <<bound, label>>
        /\ threads' \in {threads, threads \cup {u}, threads \ {u}}
        /\ \E p : GoTo(u, p)
    BY <1>5 DEF Acquire, GiveUpGenerating, GenerationEnds
  <2>2. CASE u = r
    <3>1. CASE Acquire(r)
      <4>1. /\ phase[r] = "locking"
            /\ \/ phase'[r] = "running"
               \/ phase'[r] = "raising" /\ threads' = threads
        BY <1>0, <3>1 DEF Acquire, GoTo
      <4> QED
        BY <1>0, <1>2, <2>1, <4>1 DEF LabelledAt, Chosen
    <3>2. CASE GiveUpGenerating(r) \/ GenerationEnds(r)
      <4>1. phase'[r] = "done" /\ (threads' = threads \/ threads' = threads \ {r})
        BY <1>0, <3>2 DEF GiveUpGenerating, GenerationEnds, GoTo
      <4> QED
        BY <1>2, <2>1, <4>1 DEF Chosen
    <3> QED
      BY <1>5, <2>2, <3>1, <3>2
  <2> QED
    BY <1>3, <2>1, <2>2
<1>6. ASSUME NEW u \in Requests, RouteChat(u) \/ RouteText(u) \/ NoPeer(u)
      PROVE  LabelledAt(r)'
  <2>0. /\ phase[u] \in {"started", "selecting"}
        /\ \/ u \in Chat /\ \E w \in {llm, bound[u]} : UseChat(u, w)
           \/ u \in Chat /\ Target[u] \in slots /\ UseChat(u, Current(Target[u]))
           \/ u \notin Chat /\ UseText(u)
           \/ /\ u \in Chat /\ GoTo(u, "selecting") /\ UNCHANGED <<label, threads>>
              /\ bound' = [bound EXCEPT ![u] = llm]
           \/ u \notin Chat /\ GoTo(u, "selecting") /\ UNCHANGED <<bound, label, threads>>
    BY <1>6 DEF RouteChat, RouteText, NoPeer, GetForInference
  <2>1. /\ llm \in Wrappers \cup {NoWrapper} /\ bound[u] \in Wrappers \cup {NoWrapper}
        /\ (Target[u] \in slots => Current(Target[u]) \in Wrappers)
    BY <1>0, LoadedIsWrapper
  <2>2. CASE \E w \in Wrappers \cup {NoWrapper} : u \in Chat /\ UseChat(u, w)
    <3>1. CASE u = r
      <4>1. r \notin threads
        BY <1>0, <2>0, <3>1 DEF LabelledAt
      <4> QED
        BY <1>0, <2>2, <3>1, <4>1, UseLabels
    <3>2. CASE u # r
      BY <1>0, <1>1, <2>2, <3>2, OthersStay
    <3> QED
      BY <3>1, <3>2
  <2>3. CASE u \notin Chat /\ UseText(u)
    BY <1>0, <1>1, <2>3, OthersStay
  <2>4. CASE /\ u \in Chat /\ GoTo(u, "selecting") /\ UNCHANGED <<label, threads>>
             /\ bound' = [bound EXCEPT ![u] = llm]
    <3>1. CASE u = r
      <4>1. r \notin threads /\ phase'[r] = "selecting" /\ threads' = threads
        BY <1>0, <2>0, <2>4, <3>1 DEF LabelledAt, GoTo
      <4> QED
        BY <4>1 DEF LabelledAt, Chosen
    <3>2. CASE u # r
      <4>1. phase'[r] = phase[r] /\ bound'[r] = bound[r]
        BY <1>0, <2>4, <3>2 DEF GoTo
      <4> QED
        BY <1>1, <2>4, <4>1
    <3> QED
      BY <3>1, <3>2
  <2>5. CASE u \notin Chat /\ GoTo(u, "selecting") /\ UNCHANGED <<bound, label, threads>>
    BY <1>0, <1>3, <2>5
  <2> QED
    BY <2>0, <2>1, <2>2, <2>3, <2>4, <2>5
<1>7. ASSUME NEW u \in Requests, OpenStream(u)
      PROVE  LabelledAt(r)'
  <2> DEFINE w == IF u \in Chat THEN bound[u] ELSE llm
  <2>1. /\ phase[u] = "ready" /\ label' = label
        /\ IF w = NoWrapper THEN GoTo(u, "done") /\ UNCHANGED <<bound, threads>>
           ELSE Enter(u, w)
    BY <1>7 DEF OpenStream
  <2>2. w \in Wrappers \cup {NoWrapper} /\ (u = r => w = bound[r])
    BY <1>0, LoadedIsWrapper
  <2> HIDE DEF w
  <2>3. CASE u # r
    <3>1. CASE w = NoWrapper
      BY <1>0, <1>3, <2>1, <2>3, <3>1
    <3>2. CASE w # NoWrapper
      BY <1>0, <1>1, <2>1, <2>2, <2>3, <3>2, OthersStay
    <3> QED
      BY <3>1, <3>2
  <2>4. CASE u = r
    <3>1. w # NoWrapper /\ w \in Wrappers /\ Enter(r, w) /\ w = bound[r]
      BY <1>0, <2>1, <2>2, <2>4 DEF LabelledAt, Chosen
    <3>2. /\ bound'[r] = w
          /\ phase'[r] \in {"locking", "running", "raising"}
          /\ threads' = IF phase'[r] = "running" THEN threads \cup {r} ELSE threads
      BY <1>0, <3>1, EnterMoves, LoadedIsWrapper
    <3>3. r \notin threads /\ phase[r] \in Chosen
      BY <1>0, <2>1, <2>4 DEF LabelledAt, Chosen
    <3> QED
      BY <1>2, <2>1, <3>1, <3>2, <3>3
  <2> QED
    BY <2>3, <2>4
<1>8. ASSUME NEW s \in Selects, SelectDrains(s) \/ SelectFails(s)
      PROVE  LabelledAt(r)'
  BY <1>0, <1>3, <1>8 DEF SelectDrains, SelectFails
<1>9. ASSUME NEW s \in Selects, SelectFinds(s)
      PROVE  LabelledAt(r)'
  <2>1. Enter(s, Current(ToLoad[s])) /\ label' = label /\ Current(ToLoad[s]) \in Wrappers
    BY <1>9, LoadedIsWrapper DEF SelectFinds, Activate
  <2> QED
    BY <1>0, <1>1, <2>1, OthersStay
<1>10. ASSUME NEW s \in Selects, SelectLoads(s)
       PROVE  LabelledAt(r)'
  <2>1. /\ bound'[r] = bound[r] /\ phase'[r] = phase[r] /\ label' = label
        /\ (r \in threads' <=> r \in threads)
    BY <1>0, <1>10 DEF SelectLoads, GoTo
  <2> QED
    BY <1>1, <2>1
<1>11. ASSUME \/ \E u \in Requests : Leave(u)
              \/ \E s \in Selects : SelectInstant(s)
              \/ \E m \in Models : EvictModel(m)
              \/ UNCHANGED nodeVars
       PROVE  LabelledAt(r)'
  BY <1>1, <1>11 DEF Leave, SelectInstant, EvictModel, tasks, nodeVars
<1> QED
  BY <1>4, <1>5, <1>6, <1>7, <1>8, <1>9, <1>10, <1>11 DEF NodeNext

-----------------------------------------------------------------------------
\* The inductive invariant of the node and what follows from it.

NodeInv == NodeTypeOK /\ LoadedOnce /\ PoolInv /\ GlobalsFollowPool /\ Alone /\ Labelled

LEMMA NodeInvInit == NodeInit => NodeInv
<1> SUFFICES ASSUME NodeInit PROVE NodeInv
  OBVIOUS
<1> USE NodeAssumption, PoolAssumption
<1>1. PoolInv /\ PoolTypeOK /\ slots \subseteq Models /\ (active # NoModel => active \in slots)
  BY PoolInvInit DEF NodeInit, PoolInv, PoolTypeOK, ActiveIsLoaded
<1>2. ServiceTypeOK
  BY DEF NodeInit, ServiceInit, ServiceTypeOK, Outcomes, Final
<1>3. loads \in [Models -> 0..MaxLoads] /\ LoadedOnce
  BY <1>1 DEF NodeInit, LoadedOnce
<1>4. GlobalsFollowPool
  BY <1>1 DEF NodeInit, GlobalsFollowPool, Current
<1>5. llm \in Wrappers \cup {NoWrapper} /\ configModel \in Models \cup {NoModel}
  <2>1. active \in Models \cup {NoModel} /\ 1 \in 1..MaxLoads
    BY <1>1 DEF PoolTypeOK
  <2> QED
    BY <2>1 DEF NodeInit, Wrappers
<1>6. NodeTypeOK
  BY <1>1, <1>2, <1>3, <1>5 DEF NodeInit, NodeTypeOK, Phases
<1>7. Alone
  BY DEF NodeInit, Alone, Holding
<1>8. Labelled
  BY DEF NodeInit, Labelled, LabelledAt, Chosen, Tasks
<1> QED
  BY <1>1, <1>3, <1>4, <1>6, <1>7, <1>8 DEF NodeInv

LEMMA NodeInduction == NodeInv /\ [NodeNext]_nodeVars => NodeInv'
<1> SUFFICES ASSUME NodeInv, [NodeNext]_nodeVars PROVE NodeInv'
  OBVIOUS
<1>1. NodeTypeOK /\ LoadedOnce /\ PoolInv /\ GlobalsFollowPool /\ Alone /\ Labelled
  BY DEF NodeInv
<1>2. PoolInv'
  BY <1>1, NodePoolStep, PoolInduction
<1>3. LoadedOnce' /\ GlobalsFollowPool' /\ NodeTypeOK'
  BY <1>1, <1>2, GlobalsInduction, NodeTypeInduction
<1>4. Alone'
  BY <1>1, OneMoves, AloneInduction
<1>5. Labelled'
  BY <1>1, LabelsInduction
<1> QED
  BY <1>2, <1>3, <1>4, <1>5 DEF NodeInv

LEMMA NodeInvAlways == NodeSpec => []NodeInv
BY NodeInvInit, NodeInduction, PTL DEF NodeSpec

\* Every variable of the node keeps its type; in particular what generates is
\* always a wrapper that some load made.
THEOREM NodeTypeCorrect == NodeSpec => []NodeTypeOK
<1>1. NodeInv => NodeTypeOK
  BY DEF NodeInv
<1> QED
  BY <1>1, NodeInvAlways, PTL

\* Whatever is loaded, switched, evicted or fails to load, llm and
\* config.model_name are those of the pool's active model.
THEOREM GlobalsCorrect == NodeSpec => []GlobalsFollowPool
<1>1. NodeInv => GlobalsFollowPool
  BY DEF NodeInv
<1> QED
  BY <1>1, NodeInvAlways, PTL

\* A chat response carries the name of the model that generates it.
THEOREM ChatLabelCorrect == NodeSpec => []ChatLabelIsTruthful
<1>1. NodeInv => ChatLabelIsTruthful
  BY DEF NodeInv, Labelled, LabelledAt, ChatLabelIsTruthful
<1> QED
  BY <1>1, NodeInvAlways, PTL

\* Of the tasks that wait for their generation, one at a time runs on a
\* wrapper.
THEOREM OneTaskCorrect == NodeSpec => []OneTaskPerWrapper
<1>1. NodeInv => OneTaskPerWrapper
  BY DEF NodeInv, Alone, Holding, OneTaskPerWrapper
<1> QED
  BY <1>1, NodeInvAlways, PTL

\* The pool in a node behaves as ModelPool says it does.
THEOREM NodeImplementsPool == NodeSpec => PoolSpec
<1>1. NodeInit => PoolInit
  BY DEF NodeInit
<1> QED
  BY <1>1, NodePoolStep, PTL DEF NodeSpec, PoolSpec

\* Requests are served as the queue promises: none gets two answers, and none
\* that has its answer is started.
THEOREM NodeImplementsService == NodeSpec => ServiceSpec
<1>1. NodeInit => ServiceInit
  BY DEF NodeInit
<1> QED
  BY <1>1, NodeServiceStep, PTL DEF NodeSpec, ServiceSpec
-----------------------------------------------------------------------------
(* A reload does not wait.  Streams may hold the locks of their wrappers for *)
(* ever; the wrapper a load makes is one no task has been given.            *)

\* w comes from a load that has happened.
Made(w) == w = NoWrapper \/ w[2] <= loads[w[1]]

Known == \A t \in Tasks : Made(bound[t])

RequestStep(r) ==
  \/ Admit(r) \/ Begin(r) \/ Leave(r) \/ RouteChat(r) \/ RouteText(r)
  \/ PeerAnswers(r) \/ NoPeer(r) \/ Raise(r) \/ Respond(r) \/ OpenStream(r)
  \/ ChunkEnds(r) \/ NextChunk(r) \/ Disconnect(r) \/ CutOff(r) \/ OrphanEnds(r)

\* What a task can be given: the wrapper of a loaded model, the global one, or
\* the one it has.
LEMMA MadeWrappers ==
  ASSUME NodeInv, Known
  PROVE  /\ \A m \in slots : Made(Current(m))
         /\ Made(llm)
         /\ \A t \in Tasks : Made(bound[t])
<1>1. \A m \in slots : loads[m] \in Nat
  BY NodeAssumption DEF NodeInv, NodeTypeOK, PoolTypeOK
<1>2. \A m \in slots : Made(Current(m))
  BY <1>1 DEF Made, Current
<1>3. llm = NoWrapper \/ (active \in slots /\ llm = Current(active))
  BY DEF NodeInv, PoolInv, GlobalsFollowPool, ActiveIsLoaded
<1>4. Made(llm)
  BY <1>2, <1>3 DEF Made
<1> QED
  BY <1>2, <1>4 DEF Known

\* A request moves alone, and is given what exists.
LEMMA RequestMoves ==
  ASSUME NodeInv, Known, NEW r \in Requests, RequestStep(r)
  PROVE  /\ phase' = phase \/ \E p \in Phases : GoTo(r, p)
         /\ bound' = bound \/ \E w : Made(w) /\ bound' = [bound EXCEPT ![r] = w]
         /\ loads' = loads /\ slots' = slots
<1> DEFINE Moved ==
      /\ phase' = phase \/ \E p \in Phases : GoTo(r, p)
      /\ bound' = bound \/ \E w : Made(w) /\ bound' = [bound EXCEPT ![r] = w]
<1>1. /\ r \in Tasks
      /\ {"queued", "started", "selecting", "raising", "responding", "ready", "locking",
          "running", "paused", "done"} \subseteq Phases
  BY DEF Tasks, Phases
<1>2. ASSUME NEW w, Made(w), Enter(r, w) PROVE Moved
  <2>1. Entering(w) \in Phases
    BY <1>1 DEF Entering
  <2> QED
    BY <1>2, <2>1 DEF Enter, GoTo
<1>3. ASSUME NEW w, Made(w), UseChat(r, w) PROVE Moved
  BY <1>1, <1>2, <1>3 DEF UseChat
<1>4. ASSUME UseText(r) PROVE Moved
  BY <1>1, <1>2, <1>4, MadeWrappers DEF UseText
<1>5. ASSUME \/ Admit(r) \/ Begin(r) \/ Leave(r) \/ PeerAnswers(r) \/ Raise(r)
             \/ Respond(r) \/ ChunkEnds(r) \/ NextChunk(r) \/ Disconnect(r)
             \/ CutOff(r) \/ OrphanEnds(r)
      PROVE  Moved /\ loads' = loads /\ slots' = slots
  BY <1>1, <1>5 DEF Admit, Begin, Leave, PeerAnswers, Raise, Respond, ChunkEnds,
       NextChunk, Disconnect, CutOff, OrphanEnds, pool, poolVars, tasks
<1>6. ASSUME RouteChat(r)
      PROVE  Moved /\ loads' = loads /\ slots' = slots
  <2>1. loads' = loads /\ slots' = slots
    BY <1>6 DEF RouteChat, GetForInference, pool, poolVars
  <2>2. \/ Target[r] \in slots /\ UseChat(r, Current(Target[r]))
        \/ UseChat(r, llm)
        \/ bound' = [bound EXCEPT ![r] = llm] /\ GoTo(r, "selecting")
    BY <1>6 DEF RouteChat, GetForInference
  <2> QED
    BY <1>1, <1>3, <2>1, <2>2, MadeWrappers
<1>7. ASSUME RouteText(r) \/ NoPeer(r)
      PROVE  Moved /\ loads' = loads /\ slots' = slots
  <2>1. loads' = loads /\ slots' = slots
    BY <1>7 DEF RouteText, NoPeer, UseText, Touch, GetForInference, pool, poolVars
  <2>2. \/ UseText(r)
        \/ UseChat(r, bound[r])
        \/ GoTo(r, "selecting") /\ bound' = bound
    BY <1>7 DEF RouteText, NoPeer
  <2> QED
    BY <1>1, <1>3, <1>4, <2>1, <2>2, MadeWrappers
<1>8. ASSUME OpenStream(r)
      PROVE  Moved /\ loads' = loads /\ slots' = slots
  <2> DEFINE w == IF r \in Chat THEN bound[r] ELSE llm
  <2>1. Made(w)
    BY <1>1, MadeWrappers
  <2>2. /\ loads' = loads /\ slots' = slots
        /\ (GoTo(r, "done") /\ bound' = bound) \/ Enter(r, w)
    BY <1>8 DEF OpenStream, pool, poolVars
  <2> HIDE DEF w
  <2> QED
    BY <1>1, <1>2, <2>1, <2>2
<1> QED
  BY <1>5, <1>6, <1>7, <1>8 DEF RequestStep

\* No task has a wrapper that no load has made.
LEMMA KnownInduction ==
  ASSUME NodeInv, Known, [NodeNext]_nodeVars
  PROVE  Known'
<1>1. /\ TaskTypes /\ Selects \subseteq Tasks /\ Requests \subseteq Tasks
      /\ loads \in [Models -> Nat] /\ ToLoad \in [Selects -> Models]
  BY NodeAssumption DEF NodeInv, NodeTypeOK, TaskTypes, Tasks
<1>2. ASSUME loads' = loads,
             \/ bound' = bound
             \/ \E t \in Tasks : \E w : Made(w) /\ bound' = [bound EXCEPT ![t] = w]
      PROVE  Known'
  BY <1>1, <1>2 DEF Known, Made, TaskTypes
<1>3. ASSUME NEW r \in Requests, RequestStep(r) PROVE Known'
  BY <1>1, <1>2, <1>3, RequestMoves
<1>4. ASSUME NEW t \in Tasks, Acquire(t) \/ GiveUpGenerating(t) \/ GenerationEnds(t)
      PROVE  Known'
  BY <1>2, <1>4 DEF Acquire, GiveUpGenerating, GenerationEnds
<1>5. ASSUME NEW s \in Selects,
             SelectInstant(s) \/ SelectDrains(s) \/ SelectFinds(s) \/ SelectFails(s)
      PROVE  Known'
  <2>1. loads' = loads
    BY <1>5 DEF SelectInstant, SelectDrains, SelectFinds, SelectFails
  <2>2. \/ bound' = bound
        \/ /\ ToLoad[s] \in slots
           /\ bound' = [bound EXCEPT ![s] = Current(ToLoad[s])]
    BY <1>5 DEF SelectInstant, SelectDrains, SelectFinds, SelectFails, Activate, Enter, tasks
  <2> QED
    BY <1>1, <1>2, <2>1, <2>2, MadeWrappers
<1>6. ASSUME NEW s \in Selects, SelectLoads(s) PROVE Known'
  <2> DEFINE m == ToLoad[s]
             w == <<m, loads[m] + 1>>
  <2>1. m \in Models /\ loads[m] \in Nat
    BY <1>1
  <2>2. loads' = [loads EXCEPT ![m] = @ + 1] /\ bound' = [bound EXCEPT ![s] = w]
    BY <1>6 DEF SelectLoads
  <2>3. \A t \in Tasks : bound'[t] = bound[t] \/ bound'[t] = w
    BY <1>1, <2>2 DEF TaskTypes
  <2>4. \A n \in Models : loads[n] <= loads'[n]
    BY <1>1, <2>1, <2>2
  <2>5. w[2] <= loads'[w[1]]
    BY <1>1, <2>1, <2>2
  <2>6. ASSUME NEW t \in Tasks PROVE Made(bound[t])'
    <3>1. CASE bound'[t] = w
      BY <2>5, <3>1 DEF Made
    <3>2. CASE bound'[t] = bound[t] /\ bound[t] # NoWrapper
      <4>1. bound[t][1] \in Models /\ bound[t][2] \in Nat /\ bound[t][2] <= loads[bound[t][1]]
        BY <1>1, <3>2 DEF Known, Made, TaskTypes, Wrappers
      <4>2. loads[bound[t][1]] \in Nat /\ loads'[bound[t][1]] \in Nat
        BY <1>1, <2>1, <2>2, <4>1
      <4> QED
        BY <2>4, <3>2, <4>1, <4>2 DEF Made
    <3>3. CASE bound'[t] = NoWrapper
      BY <3>3 DEF Made
    <3> QED
      BY <2>3, <3>1, <3>2, <3>3
  <2> QED
    BY <2>6 DEF Known
<1>7. ASSUME NEW m \in Models, EvictModel(m) PROVE Known'
  BY <1>2, <1>7 DEF EvictModel, tasks
<1>8. CASE UNCHANGED nodeVars
  BY <1>2, <1>8 DEF nodeVars
<1> QED
  BY <1>3, <1>4, <1>5, <1>6, <1>7, <1>8 DEF NodeNext, RequestStep

\* So the probe of a load finds its lock free.
LEMMA FreshIsFree ==
  ASSUME NodeInv, Known, NEW m \in Models, loads[m] < MaxLoads
  PROVE  Free(<<m, loads[m] + 1>>)
<1>1. loads[m] \in Nat /\ MaxLoads \in Nat
  BY NodeAssumption DEF NodeInv, NodeTypeOK
<1>2. <<m, loads[m] + 1>> \in Models \X (1..MaxLoads)
  BY <1>1
<1>3. <<m, loads[m] + 1>> # NoWrapper
  BY <1>2, NodeAssumption
<1>4. ~ Made(<<m, loads[m] + 1>>)
  BY <1>1, <1>3 DEF Made
<1> QED
  BY <1>4 DEF Known, Free, Holders, Waiters

\* A select_model that is the only one is idle, drains for a model nobody else
\* loads, or measures the model it has loaded.
Unhindered ==
  \A s \in Selects :
    /\ phase[s] \in {"idle", "draining", "running"}
    /\ phase[s] = "draining" => ToLoad[s] \notin slots

LEMMA UnhinderedInduction ==
  ASSUME \A s, t \in Selects : s = t, NodeInv, Known, Unhindered, [NodeNext]_nodeVars
  PROVE  Unhindered'
<1>1. /\ phase \in [Tasks -> Phases] /\ Selects \subseteq Tasks /\ Requests \subseteq Tasks
      /\ Requests \cap Selects = {} /\ ToLoad \in [Selects -> Models]
  BY NodeAssumption DEF NodeInv, NodeTypeOK, Tasks
<1>2. ASSUME \A s \in Selects : phase'[s] = phase[s], slots' \subseteq slots
      PROVE  Unhindered'
  BY <1>2 DEF Unhindered
<1>3. ASSUME NEW r \in Requests, RequestStep(r) PROVE Unhindered'
  <2>1. \A s \in Selects : phase'[s] = phase[s]
    BY <1>1, <1>3, RequestMoves DEF GoTo
  <2> QED
    BY <1>2, <1>3, <2>1, RequestMoves
<1>4. ASSUME NEW t \in Tasks, Acquire(t) \/ GiveUpGenerating(t) \/ GenerationEnds(t)
      PROVE  Unhindered'
  <2>1. slots' = slots
    BY <1>4 DEF Acquire, GiveUpGenerating, GenerationEnds, pool, poolVars
  <2>2. CASE t \in Selects
    <3>1. GenerationEnds(t)
      BY <1>4, <2>2 DEF Acquire, GiveUpGenerating, Unhindered
    <3>2. phase' = [phase EXCEPT ![t] = "idle"]
      BY <2>2, <3>1 DEF GenerationEnds, GoTo
    <3> QED
      BY <1>1, <2>1, <2>2, <3>2 DEF Unhindered
  <2>3. CASE t \notin Selects
    <3>1. \E p : phase' = [phase EXCEPT ![t] = p]
      BY <1>4 DEF Acquire, GiveUpGenerating, GenerationEnds, GoTo
    <3> QED
      BY <1>1, <1>2, <2>1, <2>3, <3>1
  <2> QED
    BY <2>2, <2>3
<1>5. ASSUME NEW s \in Selects, SelectInstant(s) PROVE Unhindered'
  BY <1>2, <1>5 DEF SelectInstant, Activate, tasks
<1>6. ASSUME NEW s \in Selects, SelectDrains(s) \/ SelectFails(s) PROVE Unhindered'
  <2>1. /\ slots' \subseteq slots
        /\ \/ GoTo(s, "draining") /\ ToLoad[s] \notin slots
           \/ GoTo(s, "idle")
    BY <1>6 DEF SelectDrains, SelectFails, LoadFails, pool, poolVars
  <2> QED
    BY <1>1, <2>1 DEF Unhindered, GoTo
<1>7. ASSUME NEW s \in Selects, SelectFinds(s) PROVE Unhindered'
  BY <1>7 DEF SelectFinds, Activate, Unhindered
<1>8. ASSUME NEW s \in Selects, SelectLoads(s) PROVE Unhindered'
  <2>1. /\ GoTo(s, IF Free(<<ToLoad[s], loads[ToLoad[s]] + 1>>) THEN "running" ELSE "locking")
        /\ loads[ToLoad[s]] < MaxLoads
    BY <1>8 DEF SelectLoads
  <2>2. phase'[s] = "running"
    BY <1>1, <2>1, FreshIsFree DEF GoTo
  <2> QED
    BY <2>2 DEF Unhindered
<1>9. ASSUME NEW m \in Models, EvictModel(m) PROVE Unhindered'
  BY <1>2, <1>9 DEF EvictModel, Evict, tasks
<1>10. CASE UNCHANGED nodeVars
  BY <1>2, <1>10 DEF nodeVars
<1> QED
  BY <1>3, <1>4, <1>5, <1>6, <1>7, <1>8, <1>9, <1>10 DEF NodeNext, RequestStep

\* The only reload never waits for a lock, however long the clients of streams
\* keep theirs, and while it drains nobody else loads its model: it goes on with
\* load_model, which always finds its victim, and then measures the new wrapper.
THEOREM ReloadNeverWaits ==
  ASSUME \A s, t \in Selects : s = t
  PROVE  NodeSpec =>
           [](\A s \in Selects : /\ phase[s] \in {"idle", "draining", "running"}
                                 /\ phase[s] = "draining" => ToLoad[s] \notin slots)
<1>1. NodeInit => Known /\ Unhindered
  BY DEF NodeInit, Known, Made, Unhindered, Tasks
<1>2. NodeInv /\ Known /\ Unhindered /\ [NodeNext]_nodeVars => Known' /\ Unhindered'
  BY KnownInduction, UnhinderedInduction
<1>3. NodeSpec => []Unhindered
  BY <1>1, <1>2, NodeInvAlways, PTL DEF NodeSpec
<1> QED
  BY <1>3 DEF Unhindered
=============================================================================
