--------------------------- MODULE RoutingProofs ---------------------------
(***************************************************************************)
(* Routing for every set of keys, requests, nodes and conversations, every   *)
(* cost, budget and number of slots.                                        *)
(*                                                                         *)
(* The slots and the hourly budget are proved of RouterBudget, which Routing *)
(* implements.  That a key overdraws by no more than its other slots hold is *)
(* not inductive: what is still to be charged has to be counted.  Overdraft  *)
(* says that all slots but one hold MaxCost at most, and that the one        *)
(* exception is a request whose own cost was within the budget when it was   *)
(* checked.  Metered says the like of the tokens of a day.  That a           *)
(* conversation stays needs to know that what is remembered of it is where    *)
(* its last request went.                                                   *)
(***************************************************************************)
EXTENDS Routing, FiniteSetTheorems, TLAPS

Limit == Budget + (MaxConcurrent - 1) * MaxCost

\* What k can have used when every slot it holds has been charged MaxCost.
Reserved(k) == Used(k) + inflight[k] * MaxCost <= Limit

\* The same, but r is charged its own cost.
ReservedBut(k, r) == Used(k) + Cost[r] + (inflight[k] - 1) * MaxCost <= Limit

Overdraft ==
  \A k \in Keys : Reserved(k) \/ \E r \in InSlot(k) : ReservedBut(k, r)

SlotsBounded == \A k \in Keys : inflight[k] <= MaxConcurrent

\* No entry is of an hour that has not begun.
EntriesPast == \A k \in Keys : entry[k].hour <= hour

RouterInv ==
  RouterTypeOK /\ EntriesPast /\ SlotsAreCounted /\ SlotsBounded /\ Overdraft

-----------------------------------------------------------------------------
\* The slots of a key are finitely many requests.
LEMMA SlotsFinite ==
  ASSUME NEW k \in Keys
  PROVE  /\ IsFiniteSet(InSlot(k))
         /\ Cardinality(InSlot(k)) \in Nat
         /\ \A r \in InSlot(k) : Cardinality(InSlot(k)) >= 1
<1>1. IsFiniteSet(InSlot(k))
  BY RouterAssumption, FS_Subset DEF InSlot
<1>2. ASSUME NEW r \in InSlot(k)
      PROVE  Cardinality(InSlot(k)) >= 1
  <2>1. Cardinality(InSlot(k)) # 0
    BY <1>1, FS_EmptySet
  <2> QED
    BY <1>1, <2>1, FS_CardinalityType
<1> QED
  BY <1>1, <1>2, FS_CardinalityType

\* One slot more is worth MaxCost more.
LEMMA SlotWorth ==
  ASSUME NEW n \in Nat
  PROVE  /\ n * MaxCost \in Nat
         /\ (n + 1) * MaxCost = n * MaxCost + MaxCost
<1>1. MaxCost \in Nat
  BY RouterAssumption
<1> QED
  BY <1>1

\* Fewer slots are worth less.
LEMMA SlotsOrder ==
  ASSUME NEW n \in Nat, NEW m \in Nat, n <= m
  PROVE  n * MaxCost <= m * MaxCost
<1>1. MaxCost \in Nat
  BY RouterAssumption
<1>2. PICK d \in Nat : m = n + d
  <2>1. m - n \in Nat /\ m = n + (m - n)
    OBVIOUS
  <2> QED
    BY <2>1
<1>3. m * MaxCost = n * MaxCost + d * MaxCost /\ d * MaxCost \in Nat /\ n * MaxCost \in Nat
  BY <1>1, <1>2
<1> QED
  BY <1>3

\* A request that moves to or from "forwarding" joins or leaves the slots of
\* its own key only.
LEMMA SlotsMove ==
  ASSUME RouterTypeOK, NEW r \in Requests, NEW p \in Phases,
         phase' = [phase EXCEPT ![r] = p]
  PROVE  /\ \A k \in Keys \ {KeyOf[r]} : InSlot(k)' = InSlot(k)
         /\ p = "forwarding" => InSlot(KeyOf[r])' = InSlot(KeyOf[r]) \cup {r}
         /\ p # "forwarding" => InSlot(KeyOf[r])' = InSlot(KeyOf[r]) \ {r}
         /\ phase[r] = "forwarding" <=> r \in InSlot(KeyOf[r])
<1>1. KeyOf[r] \in Keys
  BY RouterAssumption
<1>2. \A q \in Requests : phase'[q] = IF q = r THEN p ELSE phase[q]
  BY DEF RouterTypeOK
<1> QED
  BY <1>1, <1>2 DEF InSlot

\* The first part of the inductive invariant: types, and counters that agree
\* with the phases.
LEMMA CountInduction ==
  ASSUME RouterTypeOK, EntriesPast, SlotsAreCounted, SlotsBounded, [RouterNext]_routerVars
  PROVE  (RouterTypeOK /\ EntriesPast /\ SlotsAreCounted /\ SlotsBounded)'
<1> USE RouterAssumption DEF RouterTypeOK, Phases
<1>1. ASSUME NEW r \in Requests, Refuse(r)
      PROVE  (RouterTypeOK /\ EntriesPast /\ SlotsAreCounted /\ SlotsBounded)'
  <2>1. \A k \in Keys : InSlot(k)' = InSlot(k)
    BY <1>1 DEF Refuse, InSlot
  <2> QED
    BY <1>1, <2>1 DEF Refuse, EntriesPast, SlotsAreCounted, SlotsBounded
<1>2. ASSUME NEW r \in Requests, Forward(r)
      PROVE  (RouterTypeOK /\ EntriesPast /\ SlotsAreCounted /\ SlotsBounded)'
  <2> DEFINE k == KeyOf[r]
  <2>0. k \in Keys
    OBVIOUS
  <2>1. /\ \A j \in Keys \ {k} : InSlot(j)' = InSlot(j)
        /\ InSlot(k)' = InSlot(k) \cup {r}
        /\ r \notin InSlot(k)
    BY <1>2, SlotsMove DEF Forward
  <2>2. Cardinality(InSlot(k)') = Cardinality(InSlot(k)) + 1
    BY <2>0, <2>1, SlotsFinite, FS_AddElement
  <2>3. \A j \in Keys : inflight'[j] = IF j = k THEN inflight[j] + 1 ELSE inflight[j]
    BY <1>2 DEF Forward
  <2>4. (SlotsAreCounted /\ SlotsBounded)'
    <3> SUFFICES ASSUME NEW j \in Keys
                 PROVE  inflight'[j] = Cardinality(InSlot(j)') /\ inflight'[j] <= MaxConcurrent
      BY DEF SlotsAreCounted, SlotsBounded
    <3>1. CASE j = k
      BY <1>2, <2>0, <2>2, <2>3, <3>1 DEF Forward, HasSlot, SlotsAreCounted
    <3>2. CASE j # k
      BY <2>1, <2>3, <3>2 DEF SlotsAreCounted, SlotsBounded
    <3> QED
      BY <3>1, <3>2
  <2>5. (RouterTypeOK /\ EntriesPast)'
    BY <1>2 DEF Forward, EntriesPast
  <2> QED
    BY <2>4, <2>5
<1>3. ASSUME NEW r \in Requests, NodeAnswers(r) \/ Cancel(r)
      PROVE  (RouterTypeOK /\ EntriesPast /\ SlotsAreCounted /\ SlotsBounded)'
  <2> DEFINE k == KeyOf[r]
  <2>0. k \in Keys /\ Used(k) + Cost[r] \in Nat
    BY DEF Used
  <2>1. /\ \A j \in Keys \ {k} : InSlot(j)' = InSlot(j)
        /\ InSlot(k)' = InSlot(k) \ {r}
        /\ r \in InSlot(k)
    BY <1>3, SlotsMove DEF NodeAnswers, Cancel
  <2>2. Cardinality(InSlot(k)') = Cardinality(InSlot(k)) - 1 /\ Cardinality(InSlot(k)) >= 1
    <3>1. IsFiniteSet(InSlot(k)) /\ Cardinality(InSlot(k)) \in Nat /\ Cardinality(InSlot(k)) >= 1
      BY <2>0, <2>1, SlotsFinite
    <3>2. Cardinality(InSlot(k) \ {r}) = Cardinality(InSlot(k)) - 1
      BY <2>1, <3>1, FS_RemoveElement
    <3> QED
      BY <2>1, <3>1, <3>2
  <2>3. \A j \in Keys : inflight'[j] = IF j = k THEN inflight[j] - 1 ELSE inflight[j]
    BY <1>3, <2>0, <2>2 DEF NodeAnswers, Cancel, Released, SlotsAreCounted
  <2>4. (SlotsAreCounted /\ SlotsBounded)'
    <3> SUFFICES ASSUME NEW j \in Keys
                 PROVE  inflight'[j] = Cardinality(InSlot(j)') /\ inflight'[j] <= MaxConcurrent
      BY DEF SlotsAreCounted, SlotsBounded
    <3>1. CASE j = k
      BY <2>0, <2>2, <2>3, <3>1 DEF SlotsAreCounted, SlotsBounded
    <3>2. CASE j # k
      BY <2>1, <2>3, <3>2 DEF SlotsAreCounted, SlotsBounded
    <3> QED
      BY <3>1, <3>2
  <2>5. inflight' \in [Keys -> Nat]
    <3>1. \A j \in Keys : inflight'[j] \in Nat
      BY <2>0, <2>2, <2>3 DEF SlotsAreCounted
    <3>2. DOMAIN inflight' = Keys /\ inflight' = [j \in Keys |-> inflight'[j]]
      BY <1>3 DEF NodeAnswers, Cancel, Released
    <3> QED
      BY <3>1, <3>2
  <2>6. (entry \in [Keys -> [hour : Nat, used : Nat]] /\ EntriesPast)'
    <3>1. CASE NodeAnswers(r)
      <4>1. entry' = [entry EXCEPT ![k] = [hour |-> hour, used |-> Used(k) + Cost[r]]] /\ hour' = hour
        BY <3>1 DEF NodeAnswers, Recorded
      <4> QED
        BY <2>0, <4>1 DEF EntriesPast
    <3>2. CASE Cancel(r)
      BY <3>2 DEF Cancel, EntriesPast
    <3> QED
      BY <1>3, <3>1, <3>2
  <2>7. RouterTypeOK'
    BY <1>3, <2>5, <2>6 DEF NodeAnswers, Cancel
  <2> QED
    BY <2>4, <2>6, <2>7
<1>4. ASSUME NEW r \in Requests, StreamEnds(r)
      PROVE  (RouterTypeOK /\ EntriesPast /\ SlotsAreCounted /\ SlotsBounded)'
  <2>1. \A k \in Keys : InSlot(k)' = InSlot(k)
    BY <1>4 DEF StreamEnds, InSlot
  <2> QED
    BY <1>4, <2>1 DEF StreamEnds, EntriesPast, SlotsAreCounted, SlotsBounded
<1>5. CASE NextHour
  <2>1. \A k \in Keys : InSlot(k)' = InSlot(k)
    BY <1>5 DEF NextHour, InSlot
  <2> QED
    BY <1>5, <2>1 DEF NextHour, EntriesPast, SlotsAreCounted, SlotsBounded
<1>6. CASE UNCHANGED routerVars
  <2>1. \A k \in Keys : InSlot(k)' = InSlot(k)
    BY <1>6 DEF routerVars, InSlot
  <2> QED
    BY <1>6, <2>1 DEF routerVars, EntriesPast, SlotsAreCounted, SlotsBounded
<1> QED
  BY <1>1, <1>2, <1>3, <1>4, <1>5, <1>6 DEF RouterNext

\* The second part: what is used and what may still be charged.
LEMMA OverdraftInduction ==
  ASSUME RouterInv, [RouterNext]_routerVars
  PROVE  Overdraft'
<1> USE RouterAssumption DEF RouterInv, RouterTypeOK, Phases
<1>0. \A k \in Keys : Used(k) \in Nat /\ inflight[k] \in Nat
  BY DEF Used
<1>1. ASSUME NEW k \in Keys, InSlot(k)' = InSlot(k), inflight'[k] = inflight[k],
             Used(k)' \in Nat, Used(k)' <= Used(k)
      PROVE  Reserved(k)' \/ \E r \in InSlot(k)' : ReservedBut(k, r)'
  <2>1. inflight[k] * MaxCost \in Int /\ (inflight[k] - 1) * MaxCost \in Int /\ Limit \in Int
    BY DEF Limit
  <2>2. CASE Reserved(k)
    BY <1>0, <1>1, <2>1, <2>2 DEF Reserved, Limit
  <2>3. ASSUME NEW r \in InSlot(k), ReservedBut(k, r)
        PROVE  ReservedBut(k, r)'
    <3>1. Cost[r] \in Nat
      BY DEF InSlot
    <3> QED
      BY <1>0, <1>1, <2>1, <2>3, <3>1 DEF ReservedBut, Limit
  <2> QED
    BY <1>1, <2>2, <2>3 DEF Overdraft
<1>2. ASSUME NEW r \in Requests, Forward(r)
      PROVE  Overdraft'
  <2> DEFINE k == KeyOf[r]
  <2>0. k \in Keys /\ Cost[r] \in Nat
    OBVIOUS
  <2>1. /\ \A j \in Keys \ {k} : InSlot(j)' = InSlot(j)
        /\ r \in InSlot(k)'
    BY <1>2, SlotsMove DEF Forward
  <2>2. \A j \in Keys : Used(j)' = Used(j) /\ inflight'[j] = IF j = k THEN inflight[j] + 1 ELSE inflight[j]
    BY <1>2 DEF Forward, Used
  <2>3. inflight[k] * MaxCost <= (MaxConcurrent - 1) * MaxCost
    <3>1. inflight[k] <= MaxConcurrent - 1 /\ MaxConcurrent - 1 \in Nat
      BY <1>0, <1>2, <2>0 DEF Forward, HasSlot
    <3> QED
      BY <1>0, <2>0, <3>1, SlotsOrder
  <2>4. Used(k) + Cost[r] <= Budget
    BY <1>2 DEF Forward, HasBudget
  <2>5. ReservedBut(k, r)'
    <3>1. inflight'[k] - 1 = inflight[k]
      <4>1. inflight'[k] = inflight[k] + 1 /\ inflight[k] \in Nat
        BY <1>0, <2>0, <2>2
      <4> QED
        BY <4>1
    <3>2. inflight[k] * MaxCost \in Nat /\ (MaxConcurrent - 1) * MaxCost \in Nat
      <4>1. MaxConcurrent - 1 \in Nat
        OBVIOUS
      <4> QED
        BY <1>0, <2>0, <4>1, SlotWorth
    <3> QED
      BY <1>0, <2>0, <2>2, <2>3, <2>4, <3>1, <3>2 DEF ReservedBut, Limit
  <2>6. ASSUME NEW j \in Keys \ {k}
        PROVE  Reserved(j)' \/ \E q \in InSlot(j)' : ReservedBut(j, q)'
    BY <1>0, <1>1, <2>1, <2>2
  <2> QED
    BY <2>0, <2>1, <2>5, <2>6 DEF Overdraft
<1>3. ASSUME NEW r \in Requests, NodeAnswers(r) \/ Cancel(r)
      PROVE  Overdraft'
  <2> DEFINE k == KeyOf[r]
  <2>0. k \in Keys /\ Cost[r] \in Nat /\ Cost[r] <= MaxCost
    OBVIOUS
  <2>1. /\ \A j \in Keys \ {k} : InSlot(j)' = InSlot(j)
        /\ InSlot(k)' = InSlot(k) \ {r}
        /\ r \in InSlot(k)
    BY <1>3, SlotsMove DEF NodeAnswers, Cancel
  <2>2. inflight[k] >= 1
    BY <2>0, <2>1, SlotsFinite DEF SlotsAreCounted
  <2>3. \A j \in Keys : inflight'[j] = IF j = k THEN inflight[j] - 1 ELSE inflight[j]
    BY <1>3, <2>0, <2>2 DEF NodeAnswers, Cancel, Released
  <2>4. /\ Used(k)' \in Nat /\ Used(k)' <= Used(k) + Cost[r]
        /\ \A j \in Keys \ {k} : Used(j)' = Used(j)
    BY <1>0, <1>3, <2>0 DEF NodeAnswers, Cancel, Recorded, Used
  <2>5. ASSUME NEW j \in Keys \ {k}
        PROVE  Reserved(j)' \/ \E q \in InSlot(j)' : ReservedBut(j, q)'
    BY <1>0, <1>1, <2>1, <2>3, <2>4
  <2> DEFINE n == inflight[k]
  <2>6. /\ n * MaxCost = (n - 1) * MaxCost + MaxCost
        /\ (n - 1) * MaxCost \in Nat
    <3>1. n - 1 \in Nat /\ (n - 1) + 1 = n
      BY <1>0, <2>0, <2>2
    <3>2. ((n - 1) + 1) * MaxCost = (n - 1) * MaxCost + MaxCost /\ (n - 1) * MaxCost \in Nat
      BY <3>1, SlotWorth
    <3> QED
      BY <3>1, <3>2
  <2>7. Limit \in Int
    BY DEF Limit
  <2>8. CASE Reserved(k)
    <3>1. Reserved(k)'
      BY <1>0, <2>0, <2>3, <2>4, <2>6, <2>7, <2>8 DEF Reserved, Limit
    <3> QED
      BY <2>5, <3>1 DEF Overdraft
  <2>9. CASE ReservedBut(k, r)
    <3>1. Reserved(k)'
      BY <1>0, <2>0, <2>3, <2>4, <2>6, <2>7, <2>9 DEF Reserved, ReservedBut, Limit
    <3> QED
      BY <2>5, <3>1 DEF Overdraft
  <2>10. ASSUME NEW q \in InSlot(k), q # r, ReservedBut(k, q)
         PROVE  Overdraft'
    <3>1. q \in InSlot(k)' /\ Cost[q] \in Nat
      BY <2>1, <2>10 DEF InSlot
    <3>2. Cardinality(InSlot(k)) # 1
      BY <2>0, <2>1, <2>10, SlotsFinite, FS_Singleton
    <3>3. n >= 2
      BY <1>0, <2>0, <2>2, <3>2 DEF SlotsAreCounted
    <3>4. (n - 1) * MaxCost = (n - 2) * MaxCost + MaxCost /\ (n - 2) * MaxCost \in Nat
      <4>1. n - 2 \in Nat /\ (n - 2) + 1 = n - 1
        BY <1>0, <2>0, <3>3
      <4>2. ((n - 2) + 1) * MaxCost = (n - 2) * MaxCost + MaxCost /\ (n - 2) * MaxCost \in Nat
        BY <4>1, SlotWorth
      <4> QED
        BY <4>1, <4>2
    <3>5. inflight'[k] - 1 = n - 2
      BY <1>0, <2>0, <2>3
    <3>6. ReservedBut(k, q)'
      BY <1>0, <2>0, <2>4, <2>7, <2>10, <3>1, <3>4, <3>5 DEF ReservedBut, Limit
    <3> QED
      BY <2>5, <3>1, <3>6 DEF Overdraft
  <2> QED
    BY <2>0, <2>8, <2>9, <2>10 DEF Overdraft
<1>4. ASSUME NEW r \in Requests, Refuse(r) \/ StreamEnds(r)
      PROVE  Overdraft'
  <2>1. \A k \in Keys : InSlot(k)' = InSlot(k) /\ inflight'[k] = inflight[k] /\ Used(k)' = Used(k)
    BY <1>4 DEF Refuse, StreamEnds, InSlot, Used
  <2> QED
    BY <1>0, <1>1, <2>1 DEF Overdraft
<1>5. CASE NextHour
  <2>1. \A k \in Keys : InSlot(k)' = InSlot(k) /\ inflight'[k] = inflight[k] /\ Used(k)' = 0
    BY <1>5 DEF NextHour, InSlot, Used, EntriesPast
  <2> QED
    BY <1>0, <1>1, <2>1 DEF Overdraft
<1>6. CASE UNCHANGED routerVars
  <2>1. \A k \in Keys : InSlot(k)' = InSlot(k) /\ inflight'[k] = inflight[k] /\ Used(k)' = Used(k)
    BY <1>6 DEF routerVars, InSlot, Used
  <2> QED
    BY <1>0, <1>1, <2>1 DEF Overdraft
<1> QED
  BY <1>2, <1>3, <1>4, <1>5, <1>6 DEF RouterNext

\* Initially nothing is used and no slot is taken.
LEMMA RouterInvInit == RouterInit => RouterInv
<1> SUFFICES ASSUME RouterInit PROVE RouterInv
  OBVIOUS
<1> USE RouterAssumption DEF RouterInit
<1>1. \A k \in Keys : InSlot(k) = {} /\ Used(k) = 0 /\ inflight[k] = 0
  BY DEF InSlot, Used
<1>2. RouterTypeOK /\ EntriesPast /\ SlotsBounded
  BY DEF RouterTypeOK, EntriesPast, SlotsBounded, Phases
<1>3. SlotsAreCounted
  BY <1>1, FS_EmptySet DEF SlotsAreCounted
<1>4. 0 * MaxCost = 0 /\ (MaxConcurrent - 1) * MaxCost \in Nat
  <2>1. MaxConcurrent - 1 \in Nat
    OBVIOUS
  <2>2. (MaxConcurrent - 1) * MaxCost \in Nat
    BY <2>1, SlotWorth
  <2> QED
    BY <2>2
<1>5. Overdraft
  BY <1>1, <1>4 DEF Overdraft, Reserved, Limit
<1> QED
  BY <1>2, <1>3, <1>5 DEF RouterInv

\* The inductive invariant holds.
THEOREM RouterInvCorrect == RouterSpec => []RouterInv
<1>1. RouterInv /\ [RouterNext]_routerVars => RouterInv'
  BY CountInduction, OverdraftInduction DEF RouterInv
<1> QED
  BY <1>1, RouterInvInit, PTL DEF RouterSpec

\* Whatever the tables hold, the router does with slots and compute what
\* RouterBudget says.
THEOREM ImplementsBudget == RoutingSpec => RouterSpec
<1>1. RoutingInit => RouterInit
  BY DEF RoutingInit
<1>2. [RoutingNext]_routingVars => [RouterNext]_routerVars
  <2>1. ASSUME NEW r \in Requests,
               \/ TurnAway(r) \/ NoNode(r) \/ Route(r) \/ Answered(r) \/ BeginsOrFails(r)
               \/ NodeUnreachable(r) \/ Cancelled(r) \/ StreamMetered(r)
        PROVE  RouterNext
    BY <2>1 DEF RouterNext, TurnAway, NoNode, Route, Answered, BeginsOrFails,
                NodeUnreachable, Cancelled, StreamMetered
  <2>2. ASSUME NEW n \in Nodes, Relist(n)
        PROVE  UNCHANGED routerVars
    BY <2>2 DEF Relist
  <2>3. ASSUME NEW p \in Prefixes, GrowsOld(p)
        PROVE  UNCHANGED routerVars
    BY <2>3 DEF GrowsOld
  <2>4. HourPasses => RouterNext
    BY DEF HourPasses, RouterNext
  <2>5. UNCHANGED routingVars => UNCHANGED routerVars
    BY DEF routingVars
  <2> QED
    BY <2>1, <2>2, <2>3, <2>4, <2>5 DEF RoutingNext
<1> QED
  BY <1>1, <1>2, PTL DEF RoutingSpec, RouterSpec

\* The inductive invariant holds of the router as a whole.
LEMMA RoutingKeepsBudget == RoutingSpec => []RouterInv
BY ImplementsBudget, RouterInvCorrect, PTL

\* However its requests end, the counter of a key is the number of slots it
\* holds.
THEOREM SlotsCorrect == RoutingSpec => []SlotsAreCounted
<1>1. RouterInv => SlotsAreCounted
  BY DEF RouterInv
<1> QED
  BY <1>1, RoutingKeepsBudget, PTL

\* In no hour does a key use more than its budget and MaxCost for every slot
\* but one, although the budget is checked long before it is charged.
THEOREM OverdraftCorrect == RoutingSpec => []OverdraftBound
<1>1. RouterInv => OverdraftBound
  <2> SUFFICES ASSUME RouterInv, NEW k \in Keys
               PROVE  Used(k) <= Limit
    BY DEF OverdraftBound, Limit
  <2> USE RouterAssumption DEF RouterInv, RouterTypeOK
  <2>0. Used(k) \in Nat /\ inflight[k] \in Nat /\ Limit \in Int
    BY DEF Used, Limit
  <2>1. CASE Reserved(k)
    <3>1. inflight[k] * MaxCost \in Nat
      BY <2>0, SlotWorth
    <3> QED
      BY <2>0, <2>1, <3>1 DEF Reserved
  <2>2. ASSUME NEW r \in InSlot(k), ReservedBut(k, r)
        PROVE  Used(k) <= Limit
    <3>1. Cost[r] \in Nat
      BY DEF InSlot
    <3>2. inflight[k] - 1 \in Nat
      BY <2>0, SlotsFinite DEF SlotsAreCounted
    <3>3. (inflight[k] - 1) * MaxCost \in Nat
      BY <3>2, SlotWorth
    <3> QED
      BY <2>0, <2>2, <3>1, <3>3 DEF ReservedBut
  <2> QED
    BY <2>1, <2>2 DEF Overdraft
<1> QED
  BY <1>1, RoutingKeepsBudget, PTL
-----------------------------------------------------------------------------
(* The choice of a node.                                                   *)

\* What is remembered of a conversation that is not old is where its last
\* request went.
HomeRemembered ==
  \A p \in Prefixes : home[p] # None /\ p \notin old => affinity[p] = home[p]

\* The nodes to choose from are listed for the model, and large enough unless
\* none is.
LEMMA ChoicesFit ==
  ASSUME NEW r \in Requests, NEW n \in Choices(r)
  PROVE  /\ n \in Listing(r)
         /\ Window[n] >= Need[r] \/ \A m \in Listing(r) : Window[m] < Need[r]
<1> USE RoutingAssumption
<1>1. n \in Candidates(r)
  BY DEF Choices, Sticks
<1>2. CASE Fitting(r) # {}
  BY <1>1, <1>2 DEF Candidates, Fitting
<1>3. CASE Fitting(r) = {}
  <2>1. n \in Listing(r)
    BY <1>1, <1>3 DEF Candidates
  <2>2. ASSUME NEW m \in Listing(r)
        PROVE  Window[m] < Need[r]
    <3>1. m \in Nodes /\ ~(Window[m] >= Need[r])
      BY <1>3 DEF Fitting, Listing
    <3>2. Window[m] \in Nat /\ Need[r] \in Nat
      BY <3>1
    <3> QED
      BY <3>1, <3>2
  <2> QED
    BY <2>1, <2>2
<1> QED
  BY <1>2, <1>3

\* The variables keep their types, and what is remembered is where the last
\* request went.
LEMMA RoutingInduction ==
  ASSUME RoutingTypeOK, RouterTypeOK', HomeRemembered, [RoutingNext]_routingVars
  PROVE  (RoutingTypeOK /\ HomeRemembered)'
<1> USE RoutingAssumption, RouterAssumption DEF RoutingTypeOK
<1>0. Remembered \in [Prefixes -> Nodes \cup {None}]
  BY DEF Remembered
<1>1. ASSUME NEW r \in Requests, TurnAway(r)
      PROVE  (RoutingTypeOK /\ HomeRemembered)'
  BY <1>1 DEF TurnAway, tables, HomeRemembered
<1>2. ASSUME NEW r \in Requests, NoNode(r)
      PROVE  (RoutingTypeOK /\ HomeRemembered)'
  <2>1. HomeRemembered'
    BY <1>2 DEF NoNode, HomeRemembered, Remembered
  <2> QED
    BY <1>0, <1>2, <2>1 DEF NoNode
<1>3. ASSUME NEW r \in Requests, Route(r)
      PROVE  (RoutingTypeOK /\ HomeRemembered)'
  <2>1. PICK n \in Choices(r) : /\ chosen' = [chosen EXCEPT ![r] = n]
                               /\ Remember(PrefixOf[r], n)
    BY <1>3 DEF Route
  <2>2. n \in Nodes
    BY <2>1, ChoicesFit DEF Listing
  <2>3. UNCHANGED <<listed, spent, over>> /\ unread' \subseteq Requests
    BY <1>3 DEF Route
  <2>4. CASE PrefixOf[r] = None
    <3>1. affinity' = Remembered /\ UNCHANGED <<old, home>>
      BY <2>1, <2>4 DEF Remember
    <3>2. HomeRemembered'
      BY <3>1 DEF HomeRemembered, Remembered
    <3> QED
      BY <1>0, <2>1, <2>2, <2>3, <3>1, <3>2
  <2>5. CASE PrefixOf[r] # None
    <3> DEFINE p == PrefixOf[r]
    <3>1. /\ p \in Prefixes
          /\ affinity' = [Remembered EXCEPT ![p] = n]
          /\ old' = old \ {p}
          /\ home' = [home EXCEPT ![p] = n]
      BY <2>1, <2>5 DEF Remember, Remembers
    <3>2. HomeRemembered'
      <4> SUFFICES ASSUME NEW q \in Prefixes, home'[q] # None, q \notin old'
                   PROVE  affinity'[q] = home'[q]
        BY DEF HomeRemembered
      <4>1. CASE q = p
        BY <1>0, <3>1, <4>1
      <4>2. CASE q # p
        <5>1. home'[q] = home[q] /\ q \notin old /\ affinity'[q] = Remembered[q]
          BY <1>0, <3>1, <4>2
        <5> QED
          BY <5>1 DEF HomeRemembered, Remembered
      <4> QED
        BY <4>1, <4>2
    <3> QED
      BY <1>0, <2>1, <2>2, <2>3, <3>1, <3>2
  <2> QED
    BY <2>4, <2>5
<1>4. ASSUME NEW r \in Requests, NEW t \in Nat, Meter(r, t)
      PROVE  spent' \in [Keys -> Nat] /\ over' \in [Keys -> Nat] /\ unread' = unread
  <2>1. CASE Recording(r, t)
    BY <1>4, <2>1 DEF Meter, Recording
  <2> QED
    BY <1>4, <2>1 DEF Meter
<1>5. ASSUME NEW r \in Requests, Answered(r) \/ BeginsOrFails(r) \/ Cancelled(r)
      PROVE  (RoutingTypeOK /\ HomeRemembered)'
  <2>1. spent' \in [Keys -> Nat] /\ over' \in [Keys -> Nat] /\ unread' = unread
    <3>1. Tokens[r] \in Nat
      OBVIOUS
    <3> QED
      BY <1>4, <1>5, <3>1 DEF Answered, BeginsOrFails, Cancelled
  <2> QED
    BY <1>5, <2>1 DEF Answered, BeginsOrFails, Cancelled, Leaves, HomeRemembered
<1>6. ASSUME NEW r \in Requests, NodeUnreachable(r)
      PROVE  (RoutingTypeOK /\ HomeRemembered)'
  BY <1>6 DEF NodeUnreachable, Leaves, HomeRemembered
<1>7. ASSUME NEW r \in Requests, StreamMetered(r)
      PROVE  (RoutingTypeOK /\ HomeRemembered)'
  <2>1. PICK t \in 0..Tokens[r] : Meter(r, t)
    BY <1>7 DEF StreamMetered
  <2>2. spent' \in [Keys -> Nat] /\ over' \in [Keys -> Nat] /\ unread' = unread
    BY <1>4, <2>1
  <2> QED
    BY <1>7, <2>2 DEF StreamMetered, HomeRemembered
<1>8. ASSUME NEW n \in Nodes, Relist(n)
      PROVE  (RoutingTypeOK /\ HomeRemembered)'
  BY <1>8 DEF Relist, HomeRemembered
<1>9. ASSUME NEW p \in Prefixes, GrowsOld(p)
      PROVE  (RoutingTypeOK /\ HomeRemembered)'
  BY <1>9 DEF GrowsOld, HomeRemembered
<1>10. CASE HourPasses
  BY <1>10 DEF HourPasses, HomeRemembered
<1>11. CASE UNCHANGED routingVars
  BY <1>11 DEF routingVars, tables, HomeRemembered
<1> QED
  BY <1>1, <1>2, <1>3, <1>5, <1>6, <1>7, <1>8, <1>9, <1>10, <1>11 DEF RoutingNext

\* Only Route sends a request to a node.
LEMMA SetOutIsRoute ==
  ASSUME RoutingTypeOK, [RoutingNext]_routingVars, NEW r \in SetOut
  PROVE  Route(r)
<1> USE DEF RoutingTypeOK, RouterTypeOK, SetOut, Phases
<1>1. ASSUME NEW q \in Requests, Route(q)
      PROVE  Route(r)
  <2>1. phase' = [phase EXCEPT ![q] = "forwarding"]
    BY <1>1 DEF Route, Forward
  <2>2. r = q
    BY <2>1
  <2> QED
    BY <1>1, <2>2
<1>2. ASSUME NEW q \in Requests, NEW s \in {"done", "streaming"},
             phase' = [phase EXCEPT ![q] = s]
      PROVE  FALSE
  BY <1>2
<1>3. ASSUME NEW q \in Requests,
             \/ TurnAway(q) \/ NoNode(q) \/ Answered(q) \/ BeginsOrFails(q)
             \/ NodeUnreachable(q) \/ Cancelled(q) \/ StreamMetered(q)
      PROVE  FALSE
  <2>1. \/ phase' = [phase EXCEPT ![q] = "done"]
        \/ phase' = [phase EXCEPT ![q] = "streaming"]
    BY <1>3 DEF TurnAway, NoNode, Answered, BeginsOrFails, NodeUnreachable, Cancelled,
                StreamMetered, Refuse, NodeAnswers, Cancel, StreamEnds
  <2> QED
    BY <1>2, <2>1
<1>4. ASSUME \/ \E n \in Nodes : Relist(n)
             \/ \E p \in Prefixes : GrowsOld(p)
             \/ HourPasses
             \/ UNCHANGED routingVars
      PROVE  FALSE
  BY <1>4 DEF Relist, GrowsOld, HourPasses, NextHour, routingVars, routerVars
<1> QED
  BY <1>1, <1>3, <1>4 DEF RoutingNext

\* The variables of the router keep their types.
THEOREM RoutingTypeCorrect == RoutingSpec => [](RoutingTypeOK /\ HomeRemembered)
<1>1. RoutingInit => RoutingTypeOK /\ HomeRemembered
  <2>1. RouterInit => RouterTypeOK
    BY RouterInvInit DEF RouterInv
  <2> QED
    BY <2>1, RoutingAssumption, RouterAssumption
    DEF RoutingInit, RoutingTypeOK, HomeRemembered
<1>2. RouterInv => RouterTypeOK
  BY DEF RouterInv
<1>3. RoutingTypeOK /\ HomeRemembered /\ RouterTypeOK' /\ [RoutingNext]_routingVars
        => (RoutingTypeOK /\ HomeRemembered)'
  BY RoutingInduction
<1> QED
  BY <1>1, <1>2, <1>3, RoutingKeepsBudget, PTL DEF RoutingSpec

\* A request goes to a node that lists its model, and to one that is too small
\* only when all are.
THEOREM FitCorrect == RoutingSpec => FitsIfAnyDoes
<1> DEFINE A == \A r \in SetOut :
                  /\ chosen'[r] \in Listing(r)
                  /\ Window[chosen'[r]] >= Need[r]
                     \/ \A n \in Listing(r) : Window[n] < Need[r]
<1>1. RoutingTypeOK /\ [RoutingNext]_routingVars => [A]_routingVars
  <2> SUFFICES ASSUME RoutingTypeOK, [RoutingNext]_routingVars, NEW r \in SetOut
               PROVE  /\ chosen'[r] \in Listing(r)
                      /\ Window[chosen'[r]] >= Need[r]
                         \/ \A n \in Listing(r) : Window[n] < Need[r]
    OBVIOUS
  <2>1. r \in Requests /\ Route(r)
    BY SetOutIsRoute DEF SetOut
  <2>2. PICK n \in Choices(r) : chosen' = [chosen EXCEPT ![r] = n]
    BY <2>1 DEF Route
  <2>3. chosen'[r] = n
    BY <2>1, <2>2 DEF RoutingTypeOK
  <2> QED
    BY <2>1, <2>2, <2>3, ChoicesFit
<1> QED
  BY <1>1, RoutingTypeCorrect, PTL DEF RoutingSpec, FitsIfAnyDoes

\* A conversation stays where its last request went for as long as it can.
THEOREM HomeCorrect == RoutingSpec => StaysHome
<1> DEFINE A == \A r \in SetOut :
                  LET p == PrefixOf[r] IN
                    p # None /\ p \notin old /\ home[p] \in Fitting(r)
                      => chosen'[r] = home[p]
<1>1. RoutingTypeOK /\ HomeRemembered /\ [RoutingNext]_routingVars => [A]_routingVars
  <2> SUFFICES ASSUME RoutingTypeOK, HomeRemembered, [RoutingNext]_routingVars,
                      NEW r \in SetOut, PrefixOf[r] # None, PrefixOf[r] \notin old,
                      home[PrefixOf[r]] \in Fitting(r)
               PROVE  chosen'[r] = home[PrefixOf[r]]
    OBVIOUS
  <2> DEFINE p == PrefixOf[r]
  <2>1. r \in Requests /\ Route(r)
    BY SetOutIsRoute DEF SetOut
  <2>2. PICK n \in Choices(r) : chosen' = [chosen EXCEPT ![r] = n]
    BY <2>1 DEF Route
  <2>3. p \in Prefixes /\ home[p] \in Nodes /\ home[p] # None
    BY <2>1, RoutingAssumption DEF Fitting, Listing
  <2>4. Remembered[p] = home[p]
    BY <2>3 DEF Remembered, HomeRemembered
  <2>5. home[p] \in Candidates(r) /\ Window[home[p]] >= Need[r]
    BY DEF Candidates, Fitting
  <2>6. Choices(r) = {home[p]}
    BY <2>4, <2>5 DEF Choices, Sticks
  <2> QED
    BY <2>1, <2>2, <2>6 DEF RoutingTypeOK
<1> QED
  BY <1>1, RoutingTypeCorrect, PTL DEF RoutingSpec, StaysHome
-----------------------------------------------------------------------------
(* The tokens of a day.                                                    *)

StreamsOf(k) == {r \in Streaming : KeyOf[r] = k}

\* The requests of k that may still be metered: its streams, and what its
\* slots hold, but for those whose tokens could not be read.
Unmetered(k) == ({r \in StreamsOf(k) : phase[r] # "done"} \cup InSlot(k)) \ unread

MostUnmetered(k) == MaxConcurrent + Cardinality(StreamsOf(k))

Allowed(k) == DailyBudget + over[k]

\* When the budget is used up, the requests that may still be metered account
\* for the rest of the bound.
Metered(k) ==
  \/ spent[k] < Allowed(k)
  \/ spent[k] + Cardinality(Unmetered(k)) * MaxTokens
       < Allowed(k) + MostUnmetered(k) * MaxTokens

AllMetered == \A k \in Keys : Metered(k)

\* Only streams are streaming.
StreamsStream == \A r \in Requests : phase[r] = "streaming" => r \in Streaming

\* n answers more are worth as much more as n times the largest.
LEMMA AnswerWorth ==
  ASSUME NEW n \in Nat, NEW m \in Nat, n <= m
  PROVE  /\ n * MaxTokens \in Nat /\ m * MaxTokens \in Nat
         /\ n * MaxTokens <= m * MaxTokens
         /\ (n + 1) * MaxTokens = n * MaxTokens + MaxTokens
<1>1. MaxTokens \in Nat
  BY RoutingAssumption
<1>2. PICK d \in Nat : m = n + d
  <2>1. m - n \in Nat /\ m = n + (m - n)
    OBVIOUS
  <2> QED
    BY <2>1
<1>3. m * MaxTokens = n * MaxTokens + d * MaxTokens /\ d * MaxTokens \in Nat
  BY <1>1, <1>2
<1>4. n * MaxTokens \in Nat /\ m * MaxTokens \in Nat
  BY <1>1
<1>5. (n + 1) * MaxTokens = n * MaxTokens + MaxTokens
  BY <1>1
<1> QED
  BY <1>3, <1>4, <1>5

\* No more requests of a key than its slots and its streams can be unmetered.
LEMMA UnmeteredBound ==
  ASSUME RouterInv, NEW k \in Keys
  PROVE  /\ IsFiniteSet(Unmetered(k)) /\ Unmetered(k) \subseteq Requests
         /\ Cardinality(Unmetered(k)) \in Nat
         /\ MostUnmetered(k) \in Nat
         /\ Cardinality(Unmetered(k)) <= MostUnmetered(k)
<1> USE RouterAssumption
<1> DEFINE S == {r \in StreamsOf(k) : phase[r] # "done"}
<1>1. IsFiniteSet(StreamsOf(k))
  <2>1. StreamsOf(k) \subseteq Requests
    BY DEF StreamsOf
  <2> QED
    BY <2>1, FS_Subset
<1>2. IsFiniteSet(S) /\ Cardinality(S) <= Cardinality(StreamsOf(k))
  <2>1. S \subseteq StreamsOf(k)
    OBVIOUS
  <2> QED
    BY <1>1, <2>1, FS_Subset
<1>3. IsFiniteSet(InSlot(k)) /\ Cardinality(InSlot(k)) <= MaxConcurrent
  BY SlotsFinite DEF RouterInv, SlotsAreCounted, SlotsBounded
<1>4. /\ IsFiniteSet(S \cup InSlot(k))
      /\ Cardinality(S \cup InSlot(k))
           = Cardinality(S) + Cardinality(InSlot(k)) - Cardinality(S \cap InSlot(k))
  BY <1>2, <1>3, FS_Union
<1>5. Cardinality(S \cap InSlot(k)) \in Nat
  <2>1. IsFiniteSet(S \cap InSlot(k))
    BY <1>2, FS_Subset
  <2> QED
    BY <2>1, FS_CardinalityType
<1>6. /\ Cardinality(S) \in Nat /\ Cardinality(InSlot(k)) \in Nat
      /\ Cardinality(StreamsOf(k)) \in Nat
  BY <1>1, <1>2, <1>3, FS_CardinalityType
<1>7. Unmetered(k) \subseteq S \cup InSlot(k) /\ Unmetered(k) \subseteq Requests
  BY DEF Unmetered, InSlot, StreamsOf
<1>8. MaxConcurrent \in Nat
  OBVIOUS
<1>9. /\ IsFiniteSet(Unmetered(k)) /\ Cardinality(Unmetered(k)) \in Nat
      /\ Cardinality(Unmetered(k)) <= Cardinality(S \cup InSlot(k))
  BY <1>4, <1>7, FS_Subset, FS_CardinalityType
<1>10. Cardinality(Unmetered(k)) <= Cardinality(S) + Cardinality(InSlot(k))
  BY <1>4, <1>5, <1>6, <1>9
<1>11. MostUnmetered(k) \in Nat /\ Cardinality(S) + Cardinality(InSlot(k)) <= MostUnmetered(k)
  BY <1>2, <1>3, <1>6, <1>8 DEF MostUnmetered
<1> QED
  BY <1>6, <1>7, <1>9, <1>10, <1>11

\* What is metered of requests whose tokens could not be read is allowed for; as
\* long as nothing else is and no other request of a key sets out, its bound
\* stays.
LEMMA NothingMetered ==
  ASSUME RouterInv, NEW k \in Keys, spent[k] \in Nat, over[k] \in Nat, NEW t \in Nat,
         spent'[k] = spent[k] + t, over'[k] = over[k] + t,
         Unmetered(k)' \subseteq Unmetered(k), Metered(k)
  PROVE  Metered(k)'
<1>0. DailyBudget \in Nat /\ Allowed(k)' = DailyBudget + over[k] + t
  BY RoutingAssumption DEF Allowed
<1>1. CASE spent[k] < Allowed(k)
  BY <1>0, <1>1 DEF Metered, Allowed
<1>2. CASE spent[k] + Cardinality(Unmetered(k)) * MaxTokens
             < Allowed(k) + MostUnmetered(k) * MaxTokens
  <2>1. /\ Cardinality(Unmetered(k)') \in Nat
        /\ Cardinality(Unmetered(k)') <= Cardinality(Unmetered(k))
    BY UnmeteredBound, FS_Subset, FS_CardinalityType
  <2>2. /\ Cardinality(Unmetered(k)') * MaxTokens \in Nat
        /\ Cardinality(Unmetered(k)) * MaxTokens \in Nat
        /\ Cardinality(Unmetered(k)') * MaxTokens <= Cardinality(Unmetered(k)) * MaxTokens
    BY <2>1, UnmeteredBound, AnswerWorth
  <2>3. MostUnmetered(k) * MaxTokens \in Nat
    BY UnmeteredBound, AnswerWorth
  <2>4. spent'[k] + Cardinality(Unmetered(k)') * MaxTokens
          < Allowed(k)' + MostUnmetered(k) * MaxTokens
    BY <1>0, <1>2, <2>2, <2>3 DEF Allowed
  <2>5. MostUnmetered(k)' = MostUnmetered(k)
    BY DEF MostUnmetered, StreamsOf
  <2> QED
    BY <2>4, <2>5 DEF Metered
<1> QED
  BY <1>1, <1>2 DEF Metered

\* An answer that is metered is not so again.
LEMMA OneMetered ==
  ASSUME RouterInv, NEW k \in Keys, NEW r \in Unmetered(k), NEW t \in 0..MaxTokens,
         spent[k] \in Nat, over[k] \in Nat, spent'[k] = spent[k] + t, over'[k] = over[k],
         Unmetered(k)' = Unmetered(k) \ {r}, Metered(k)
  PROVE  Metered(k)'
<1> DEFINE n == Cardinality(Unmetered(k)')
           m == MostUnmetered(k)
<1>1. n \in Nat /\ m \in Nat /\ n + 1 = Cardinality(Unmetered(k)) /\ n + 1 <= m
  <2>1. Cardinality(Unmetered(k) \ {r}) = Cardinality(Unmetered(k)) - 1
    BY UnmeteredBound, FS_RemoveElement
  <2>2. IsFiniteSet(Unmetered(k) \ {r})
    BY UnmeteredBound, FS_Subset
  <2>3. Cardinality(Unmetered(k) \ {r}) \in Nat
    BY <2>2, FS_CardinalityType
  <2> QED
    BY <2>1, <2>3, UnmeteredBound
<1>2. /\ n * MaxTokens \in Nat /\ m * MaxTokens \in Nat /\ MaxTokens \in Nat
      /\ (n + 1) * MaxTokens = n * MaxTokens + MaxTokens
      /\ n * MaxTokens + MaxTokens <= m * MaxTokens
      /\ Allowed(k) \in Nat
  <2>1. n * MaxTokens \in Nat /\ (n + 1) * MaxTokens = n * MaxTokens + MaxTokens
    BY <1>1, AnswerWorth
  <2>2. m * MaxTokens \in Nat /\ (n + 1) * MaxTokens <= m * MaxTokens
    <3>1. n + 1 \in Nat
      BY <1>1
    <3> QED
      BY <1>1, <3>1, AnswerWorth
  <2>3. Allowed(k) \in Nat
    BY RoutingAssumption DEF Allowed
  <2> QED
    BY <2>1, <2>2, <2>3, RoutingAssumption
<1>3. m' = m /\ Allowed(k)' = Allowed(k)
  BY DEF MostUnmetered, StreamsOf, Allowed
<1>4. spent'[k] + n * MaxTokens < Allowed(k) + m * MaxTokens
  <2>1. CASE spent[k] < Allowed(k)
    BY <1>2, <2>1
  <2>2. CASE spent[k] + Cardinality(Unmetered(k)) * MaxTokens < Allowed(k) + m * MaxTokens
    BY <1>1, <1>2, <2>2
  <2> QED
    BY <2>1, <2>2 DEF Metered
<1> QED
  BY <1>3, <1>4 DEF Metered

\* Who belongs to the unmetered requests of a key.
LEMMA UnmeteredIs ==
  ASSUME NEW k \in Keys
  PROVE  Unmetered(k) = {r \in Requests : /\ KeyOf[r] = k /\ r \notin unread
                                          /\ \/ r \in Streaming /\ phase[r] # "done"
                                             \/ phase[r] = "forwarding"}
BY RouterAssumption DEF Unmetered, StreamsOf, InSlot

\* A request that does not set out joins no unmetered ones, and one that is
\* done leaves them.
LEMMA UnmeteredMoves ==
  ASSUME RouterTypeOK, NEW r \in Requests, NEW s \in {"done", "streaming"},
         phase' = [phase EXCEPT ![r] = s], phase[r] # "done", unread' = unread,
         NEW k \in Keys
  PROVE  /\ Unmetered(k)' \subseteq Unmetered(k)
         /\ s = "done" => Unmetered(k)' = Unmetered(k) \ {r}
<1>1. \A q \in Requests : phase'[q] = IF q = r THEN s ELSE phase[q]
  BY DEF RouterTypeOK
<1>2. Unmetered(k)' = {q \in Requests : /\ KeyOf[q] = k /\ q \notin unread
                                        /\ \/ q \in Streaming /\ phase'[q] # "done"
                                           \/ phase'[q] = "forwarding"}
  BY RouterAssumption DEF Unmetered, StreamsOf, InSlot
<1> QED
  BY <1>1, <1>2, UnmeteredIs

\* Only streams are ever streaming.
LEMMA StreamsInduction ==
  ASSUME RouterTypeOK, StreamsStream, [RouterNext]_routerVars
  PROVE  StreamsStream'
<1> USE DEF RouterTypeOK, StreamsStream
<1>1. ASSUME NEW r \in Requests, Refuse(r) \/ Forward(r) \/ Cancel(r) \/ StreamEnds(r)
      PROVE  StreamsStream'
  BY <1>1 DEF Refuse, Forward, Cancel, StreamEnds
<1>2. ASSUME NEW r \in Requests, NodeAnswers(r)
      PROVE  StreamsStream'
  BY <1>2 DEF NodeAnswers
<1>3. ASSUME NextHour \/ UNCHANGED routerVars
      PROVE  StreamsStream'
  BY <1>3 DEF NextHour, routerVars
<1> QED
  BY <1>1, <1>2, <1>3 DEF RouterNext

\* Each step keeps the bound on what can still be metered.
LEMMA MeteredInduction ==
  ASSUME RouterInv, RoutingTypeOK, StreamsStream, [RoutingNext]_routingVars,
         NEW k \in Keys, Metered(k)
  PROVE  Metered(k)'
<1> USE RoutingAssumption, RouterAssumption DEF RoutingTypeOK
<1>0. spent[k] \in Nat /\ over[k] \in Nat /\ RouterTypeOK
  BY DEF RouterInv
<1>1. ASSUME Unmetered(k)' \subseteq Unmetered(k), spent'[k] = spent[k], over'[k] = over[k]
      PROVE  Metered(k)'
  <2>1. spent'[k] = spent[k] + 0 /\ over'[k] = over[k] + 0
    BY <1>0, <1>1
  <2> QED
    BY <1>0, <1>1, <2>1, NothingMetered
<1>2. ASSUME NEW r \in Requests, NEW s \in {"done", "streaming"}, phase[r] # "done",
             phase' = [phase EXCEPT ![r] = s], UNCHANGED <<spent, unread, over>>
      PROVE  Metered(k)'
  BY <1>0, <1>1, <1>2, UnmeteredMoves
<1>3. ASSUME NEW r \in Requests, NEW t \in 0..MaxTokens, phase[r] # "done",
             phase' = [phase EXCEPT ![r] = "done"], Meter(r, t),
             r \notin unread => r \in Unmetered(KeyOf[r])
      PROVE  Metered(k)'
  <2>1. Unmetered(k)' = Unmetered(k) \ {r}
    BY <1>0, <1>3, UnmeteredMoves DEF Meter
  <2>2. CASE k = KeyOf[r] /\ Recording(r, t) /\ r \notin unread
    <3>1. spent'[k] = spent[k] + t /\ over'[k] = over[k]
      BY <2>2 DEF Recording
    <3> QED
      BY <1>0, <1>3, <2>1, <2>2, <3>1, OneMetered
  <2>3. CASE k = KeyOf[r] /\ Recording(r, t) /\ r \in unread
    <3>1. spent'[k] = spent[k] + t /\ over'[k] = over[k] + t /\ t \in Nat
      BY <2>3 DEF Recording
    <3> QED
      BY <1>0, <2>1, <3>1, NothingMetered
  <2>4. CASE k # KeyOf[r] \/ UNCHANGED <<spent, over>>
    <3>1. spent'[k] = spent[k] /\ over'[k] = over[k]
      BY <1>3, <2>4 DEF Meter, Recording
    <3> QED
      BY <1>1, <2>1, <3>1
  <2> QED
    BY <1>3, <2>2, <2>3, <2>4 DEF Meter
<1>4. ASSUME NEW r \in Requests, TurnAway(r) \/ NoNode(r) \/ Cancelled(r)
      PROVE  Metered(k)'
  BY <1>2, <1>4 DEF TurnAway, NoNode, Cancelled, Refuse, Cancel, tables
<1>5. ASSUME NEW r \in Requests, Route(r)
      PROVE  Metered(k)'
  <2>1. /\ phase' = [phase EXCEPT ![r] = "forwarding"] /\ spent' = spent /\ over' = over
        /\ \A q \in Requests \ {r} : phase'[q] = phase[q]
        /\ \/ HasTokens(KeyOf[r]) /\ unread' = unread
           \/ unread' = unread \cup {r}
    BY <1>0, <1>5 DEF Route, Forward, RouterTypeOK
  <2>2. CASE k = KeyOf[r] /\ HasTokens(KeyOf[r]) /\ unread' = unread
    <3>1. spent'[k] < Allowed(k)'
      BY <1>0, <2>1, <2>2 DEF HasTokens, Allowed
    <3> QED
      BY <3>1 DEF Metered
  <2>3. CASE k # KeyOf[r] \/ unread' = unread \cup {r}
    <3>1. Unmetered(k)' = {q \in Requests : /\ KeyOf[q] = k /\ q \notin unread'
                                            /\ \/ q \in Streaming /\ phase'[q] # "done"
                                               \/ phase'[q] = "forwarding"}
      BY RouterAssumption DEF Unmetered, StreamsOf, InSlot
    <3>2. Unmetered(k)' \subseteq Unmetered(k)
      BY <2>1, <2>3, <3>1, UnmeteredIs
    <3> QED
      BY <1>1, <2>1, <3>2
  <2> QED
    BY <2>1, <2>2, <2>3
<1>6. ASSUME NEW r \in Requests, BeginsOrFails(r) \/ NodeUnreachable(r)
      PROVE  Metered(k)'
  <2>1. /\ phase[r] # "done" /\ UNCHANGED <<spent, unread, over>>
        /\ \/ phase' = [phase EXCEPT ![r] = "done"]
           \/ phase' = [phase EXCEPT ![r] = "streaming"]
    BY <1>6 DEF BeginsOrFails, NodeUnreachable, NodeAnswers
  <2> QED
    BY <1>2, <2>1
<1>7. ASSUME NEW r \in Requests, Answered(r)
      PROVE  Metered(k)'
  <2>1. /\ phase[r] = "forwarding" /\ phase' = [phase EXCEPT ![r] = "done"]
        /\ Meter(r, Tokens[r])
    BY <1>7 DEF Answered, NodeAnswers
  <2>2. (r \notin unread => r \in Unmetered(KeyOf[r])) /\ Tokens[r] \in 0..MaxTokens
    BY <2>1 DEF Unmetered, InSlot
  <2> QED
    BY <1>3, <2>1, <2>2
<1>8. ASSUME NEW r \in Requests, StreamMetered(r)
      PROVE  Metered(k)'
  <2>1. PICK t \in 0..Tokens[r] : Meter(r, t)
    BY <1>8 DEF StreamMetered
  <2>2. phase[r] = "streaming" /\ phase' = [phase EXCEPT ![r] = "done"]
    BY <1>8 DEF StreamMetered, StreamEnds
  <2>3. r \notin unread => r \in Unmetered(KeyOf[r])
    BY <2>2 DEF Unmetered, StreamsOf, StreamsStream
  <2>4. Tokens[r] \in 0..MaxTokens /\ t \in 0..MaxTokens
    <3>1. Tokens[r] \in 0..MaxTokens /\ MaxTokens \in Nat
      OBVIOUS
    <3> QED
      BY <3>1
  <2> QED
    BY <1>3, <2>1, <2>2, <2>3, <2>4
<1>9. CASE HourPasses
  <2>1. /\ phase' = phase /\ unread' = unread
        /\ UNCHANGED <<spent, over>> \/ (spent'[k] = 0 /\ over'[k] = 0)
    BY <1>9 DEF HourPasses, NextHour
  <2>2. CASE UNCHANGED <<spent, over>>
    <3>1. Unmetered(k)' = Unmetered(k)
      BY <2>1 DEF Unmetered, StreamsOf, InSlot
    <3> QED
      BY <1>1, <2>2, <3>1
  <2>3. CASE spent'[k] = 0 /\ over'[k] = 0
    BY <2>3 DEF Metered, Allowed
  <2> QED
    BY <2>1, <2>2, <2>3
<1>10. ASSUME \/ \E n \in Nodes : Relist(n)
              \/ \E p \in Prefixes : GrowsOld(p)
              \/ UNCHANGED routingVars
       PROVE  Metered(k)'
  <2>1. UNCHANGED <<phase, spent, unread, over>>
    BY <1>10 DEF Relist, GrowsOld, routingVars, routerVars, tables
  <2>2. Unmetered(k)' = Unmetered(k)
    BY <2>1 DEF Unmetered, StreamsOf, InSlot
  <2> QED
    BY <1>1, <2>1, <2>2
<1> QED
  BY <1>4, <1>5, <1>6, <1>7, <1>8, <1>9, <1>10 DEF RoutingNext

\* What a key uses beyond its daily budget is what its slots and its streams
\* can hold, and what passed unread, for any number of requests and any sizes
\* of their answers.
THEOREM DailyOverdraftCorrect == RoutingSpec => []DailyOverdraftBound
<1>1. RoutingInit => AllMetered /\ StreamsStream
  <2> SUFFICES ASSUME RoutingInit PROVE AllMetered /\ StreamsStream
    OBVIOUS
  <2>1. \A k \in Keys : spent[k] < Allowed(k)
    BY RoutingAssumption DEF RoutingInit, Allowed
  <2> QED
    BY <2>1 DEF RoutingInit, RouterInit, StreamsStream, Metered, AllMetered
<1>2. RouterInv /\ RoutingTypeOK /\ AllMetered /\ StreamsStream
      /\ [RoutingNext]_routingVars /\ [RouterNext]_routerVars
      => (AllMetered /\ StreamsStream)'
  <2> SUFFICES ASSUME RouterInv, RoutingTypeOK, AllMetered, StreamsStream,
                      [RoutingNext]_routingVars, [RouterNext]_routerVars
               PROVE  (AllMetered /\ StreamsStream)'
    OBVIOUS
  <2>1. ASSUME NEW k \in Keys
        PROVE  Metered(k)'
    <3>1. Metered(k)
      BY DEF AllMetered
    <3> QED
      BY <3>1, MeteredInduction
  <2>2. StreamsStream'
    BY StreamsInduction DEF RouterInv
  <2>3. AllMetered'
    BY <2>1 DEF AllMetered
  <2> QED
    BY <2>2, <2>3
<1>3. RouterInv /\ RoutingTypeOK /\ AllMetered => DailyOverdraftBound
  <2> SUFFICES ASSUME RouterInv, RoutingTypeOK, NEW k \in Keys, Metered(k)
               PROVE  spent[k] < Allowed(k) + MostUnmetered(k) * MaxTokens
    BY DEF DailyOverdraftBound, MostUnmetered, StreamsOf, AllMetered, Allowed
  <2>1. /\ Cardinality(Unmetered(k)) * MaxTokens \in Nat
        /\ MostUnmetered(k) * MaxTokens \in Nat
    BY UnmeteredBound, AnswerWorth
  <2>2. spent[k] \in Nat /\ Allowed(k) \in Nat
    BY RoutingAssumption DEF RoutingTypeOK, Allowed
  <2> QED
    BY <2>1, <2>2 DEF Metered
<1> QED
  BY <1>1, <1>2, <1>3, RoutingKeepsBudget, RoutingTypeCorrect, ImplementsBudget, PTL
  DEF RoutingSpec, RouterSpec
=============================================================================
