-------------------------- MODULE RequestQueueProofs --------------------------
(***************************************************************************)
(* Theorems about RequestQueue, for every set of requests, keys and        *)
(* reloads and every queue size: the type invariant, that no waiting        *)
(* caller is forgotten, that stop() releases everybody, and that the queue  *)
(* implements SerialService.                                                *)
(*                                                                         *)
(* The inductive invariant is Inv.  NoStrandedWaiter alone is not           *)
(* inductive: that a request leaves the worker's hand with its future done  *)
(* needs that a request is in one place only (OnePlace), and that the       *)
(* shutdown drains everything needs to know what the worker can still be    *)
(* doing once the server is stopping (Shutdown).                            *)
(***************************************************************************)
EXTENDS RequestQueue, FiniteSetTheorems, TLAPS

\* The worker's local variable and self.processing_request agree with where
\* the worker is.
WorkerState ==
  /\ (worker = "holding") <=> (held # NoRequest)
  /\ (worker = "processing") <=> (processing # NoRequest)

\* A request is at most once in the queue, and not there once it was taken.
OnePlace ==
  /\ \A i, j \in 1..Len(queue) : queue[i] = queue[j] => i = j
  /\ \A i \in 1..Len(queue) : queue[i] # held /\ queue[i] # processing

\* A call that was not accepted has left no trace.
NotAccepted ==
  \A r \in Requests :
    (caller[r] \in {"idle", "refused"} \/ future[r] = "none") =>
      /\ future[r] = "none"
      /\ ~InQueue(r)
      /\ held # r
      /\ processing # r

\* A request marked as timed out has been answered: skipping it on the strength
\* of its status alone strands nobody.
DroppedIsAnswered ==
  \A r \in Requests : status[r] = "timed_out" => future[r] # "pending"

\* A request that has not left the worker has no result yet.
Unserved ==
  \A r \in Requests :
    InQueue(r) \/ held = r \/ processing = r => future[r] \notin {"result", "failed"}

\* What the worker can be doing as the lifespan task goes on.
Shutdown ==
  /\ server = "init" => worker = "off"
  /\ server \in {"stopping", "down"} => queue = <<>>
  /\ server = "down" => worker = "exited"

Inv ==
  /\ TypeOK
  /\ WorkerState
  /\ OnePlace
  /\ NotAccepted
  /\ DroppedIsAnswered
  /\ AnswerMatchesRecord
  /\ Unserved
  /\ NoStrandedWaiter
  /\ Shutdown

-----------------------------------------------------------------------------
\* Every operation of the queue keeps every variable in its range.
LEMMA TypeInduction == TypeOK /\ [Next]_vars => TypeOK'
<1> SUFFICES ASSUME TypeOK, [Next]_vars PROVE TypeOK'
  OBVIOUS
<1> USE QueueAssumption DEF TypeOK, Servers, Statuses, Futures, Callers, Workers
<1>1. CASE Start
  BY <1>1 DEF Start
<1>2. CASE Stop
  BY <1>2 DEF Stop
<1>3. CASE StopTimeout
  BY <1>3 DEF StopTimeout
<1>4. CASE StopReturns
  BY <1>4 DEF StopReturns
<1>5. ASSUME NEW r \in Requests, Refuse(r) PROVE TypeOK'
  BY <1>5 DEF Refuse
<1>6. ASSUME NEW r \in Requests, Submit(r) PROVE TypeOK'
  BY <1>6 DEF Submit, lifeVars, reloadVars, workVars
<1>7. ASSUME NEW r \in Requests, CallerResumes(r) PROVE TypeOK'
  BY <1>7 DEF CallerResumes, lifeVars, reloadVars, workVars
<1>8. ASSUME NEW r \in Requests, CallerTimeout(r) PROVE TypeOK'
  BY <1>8 DEF CallerTimeout, lifeVars, reloadVars, workVars
<1>9. ASSUME NEW r \in Requests, CallerCancelled(r) PROVE TypeOK'
  BY <1>9 DEF CallerCancelled, lifeVars, reloadVars, workVars
<1>10. ASSUME NEW r \in Requests, CleanupDrop(r) PROVE TypeOK'
  BY <1>10 DEF CleanupDrop, Resolved, lifeVars, reloadVars, workVars
<1>11. CASE WorkerIdles
  BY <1>11 DEF WorkerIdles, LoopTop, lifeVars, reloadVars
<1>12. CASE WorkerExits
  BY <1>12 DEF WorkerExits, lifeVars, reloadVars
<1>13. CASE GetItem
  BY <1>13 DEF GetItem, lifeVars, reloadVars
<1>14. CASE SkipItem
  BY <1>14 DEF SkipItem, LoopTop, lifeVars, reloadVars
<1>15. CASE StartItem
  BY <1>15 DEF StartItem, lifeVars, reloadVars
<1>16. ASSUME NEW st \in Statuses, NEW how \in Futures, Finish(st, how)
       PROVE  TypeOK'
  BY <1>16 DEF Finish, Resolved, LoopTop, lifeVars, reloadVars
<1>17. ASSUME NEW s \in Selects, BeginReload(s) PROVE TypeOK'
  BY <1>17 DEF BeginReload, lifeVars, workVars
<1>18. ASSUME NEW s \in Selects, DrainReturns(s) PROVE TypeOK'
  BY <1>18 DEF DrainReturns, lifeVars, workVars
<1>19. ASSUME NEW s \in Selects, EndReload(s) PROVE TypeOK'
  BY <1>19 DEF EndReload, lifeVars, workVars
<1>20. CASE UNCHANGED vars
  BY <1>20 DEF vars
<1> QED
  BY <1>1, <1>2, <1>3, <1>4, <1>5, <1>6, <1>7, <1>8, <1>9, <1>10, <1>11, <1>12,
     <1>13, <1>14, <1>15, <1>16, <1>17, <1>18, <1>19, <1>20
  DEF Next, Complete, Fail, ProcessTimeout, ProcessCancelled

\* An empty queue with no caller has its types.
LEMMA TypeInit == Init => TypeOK
<1> SUFFICES ASSUME Init PROVE TypeOK
  OBVIOUS
<1>1. queue \in Seq(Requests)
  BY DEF Init
<1>2. status \in [Requests -> Statuses] /\ future \in [Requests -> Futures]
      /\ caller \in [Requests -> Callers]
  BY DEF Init, Statuses, Futures, Callers
<1> QED
  BY <1>1, <1>2 DEF Init, TypeOK, Servers, Workers

\* The queue's variables always have their types.
THEOREM TypeCorrect == Spec => []TypeOK
BY TypeInit, TypeInduction, PTL DEF Spec

-----------------------------------------------------------------------------
\* Every operation of the queue preserves the inductive invariant.
LEMMA InvInduction == Inv /\ [Next]_vars => Inv'
<1> SUFFICES ASSUME Inv, [Next]_vars PROVE Inv'
  OBVIOUS
<1> USE QueueAssumption
<1>0. TypeOK'
  BY TypeInduction DEF Inv
<1> USE DEF Inv, TypeOK, Servers, Callers, Futures, Workers
<1> DEFINE Parts == WorkerState /\ OnePlace /\ NotAccepted /\ DroppedIsAnswered
                   /\ AnswerMatchesRecord /\ Unserved /\ NoStrandedWaiter /\ Shutdown
<1>a. SUFFICES Parts'
  BY <1>0
<1>1. CASE Start
  BY <1>1 DEF Start, WorkerState, OnePlace, NotAccepted, DroppedIsAnswered,
     AnswerMatchesRecord, Unserved, NoStrandedWaiter, Shutdown, InQueue
<1>2. CASE Stop
  BY <1>2 DEF Stop, Running, WorkerState, OnePlace, NotAccepted, DroppedIsAnswered,
     AnswerMatchesRecord, Unserved, NoStrandedWaiter, Shutdown, InQueue
<1>3. CASE StopTimeout
  BY <1>3 DEF StopTimeout, WorkerState, OnePlace, NotAccepted, DroppedIsAnswered,
     AnswerMatchesRecord, Unserved, NoStrandedWaiter, Shutdown, InQueue
<1>4. CASE StopReturns
  BY <1>4 DEF StopReturns, WorkerState, OnePlace, NotAccepted, DroppedIsAnswered,
     AnswerMatchesRecord, Unserved, NoStrandedWaiter, Shutdown, InQueue
<1>5. ASSUME NEW r \in Requests, Refuse(r) PROVE Parts'
  BY <1>5 DEF Refuse, WorkerState, OnePlace, NotAccepted, DroppedIsAnswered,
     AnswerMatchesRecord, Unserved, NoStrandedWaiter, Shutdown, InQueue
<1>6. ASSUME NEW r \in Requests, Submit(r) PROVE Parts'
  BY <1>6 DEF Submit, Running, lifeVars, reloadVars, workVars, WorkerState, OnePlace, NotAccepted, DroppedIsAnswered,
     AnswerMatchesRecord, Unserved, NoStrandedWaiter, Shutdown, InQueue
<1>7. ASSUME NEW r \in Requests, CallerResumes(r) PROVE Parts'
  BY <1>7 DEF CallerResumes, lifeVars, reloadVars, workVars, WorkerState, OnePlace, NotAccepted, DroppedIsAnswered,
     AnswerMatchesRecord, Unserved, NoStrandedWaiter, Shutdown, InQueue
<1>8. ASSUME NEW r \in Requests, CallerTimeout(r) PROVE Parts'
  BY <1>8 DEF CallerTimeout, lifeVars, reloadVars, workVars, WorkerState, OnePlace, NotAccepted, DroppedIsAnswered,
     AnswerMatchesRecord, Unserved, NoStrandedWaiter, Shutdown, InQueue
<1>9. ASSUME NEW r \in Requests, CallerCancelled(r) PROVE Parts'
  BY <1>9 DEF CallerCancelled, lifeVars, reloadVars, workVars, WorkerState, OnePlace, NotAccepted, DroppedIsAnswered,
     AnswerMatchesRecord, Unserved, NoStrandedWaiter, Shutdown, InQueue
<1>10. ASSUME NEW r \in Requests, CleanupDrop(r) PROVE Parts'
  BY <1>10 DEF CleanupDrop, Resolved, lifeVars, reloadVars, workVars, WorkerState, OnePlace, NotAccepted, DroppedIsAnswered,
     AnswerMatchesRecord, Unserved, NoStrandedWaiter, Shutdown, InQueue
<1>11. CASE WorkerIdles
  BY <1>11 DEF WorkerIdles, LoopTop, lifeVars, reloadVars, WorkerState, OnePlace, NotAccepted, DroppedIsAnswered,
     AnswerMatchesRecord, Unserved, NoStrandedWaiter, Shutdown, InQueue, Running
<1>12. CASE WorkerExits
  BY <1>12 DEF WorkerExits, lifeVars, reloadVars, WorkerState, OnePlace, NotAccepted, DroppedIsAnswered,
     AnswerMatchesRecord, Unserved, NoStrandedWaiter, Shutdown, InQueue
<1>13. CASE GetItem
  <2> USE <1>13 DEF GetItem, lifeVars, reloadVars
  <2>1. /\ Len(queue) > 0
        /\ held' = queue[1]
        /\ Len(queue') = Len(queue) - 1
        /\ \A i \in 1..Len(queue') : queue'[i] = queue[i + 1]
    OBVIOUS
  <2>2. held = NoRequest /\ processing = NoRequest /\ held' \in Requests
    BY <2>1 DEF WorkerState
  <2>3. WorkerState'
    BY <2>2 DEF WorkerState
  <2>4. \A i, j \in 1..Len(queue') : queue'[i] = queue'[j] => i = j
    <3> TAKE i, j \in 1..Len(queue')
    <3>1. i + 1 \in 1..Len(queue) /\ j + 1 \in 1..Len(queue)
      BY <2>1
    <3> QED
      BY <2>1, <3>1 DEF OnePlace
  <2>5. \A i \in 1..Len(queue') : queue'[i] # held'
    <3> TAKE i \in 1..Len(queue')
    <3>1. i + 1 \in 1..Len(queue) /\ 1 \in 1..Len(queue) /\ i + 1 # 1
      BY <2>1
    <3> QED
      BY <2>1, <3>1 DEF OnePlace
  <2>6. \A i \in 1..Len(queue') : queue'[i] \in Requests
    BY <1>0
  <2>7. OnePlace'
    BY <2>2, <2>4, <2>5, <2>6 DEF OnePlace
  <2>8. \A r : InQueue(r)' => InQueue(r)
    <3> TAKE r
    <3> HAVE InQueue(r)'
    <3>1. PICK i \in 1..Len(queue') : queue'[i] = r
      BY DEF InQueue
    <3>2. i + 1 \in 1..Len(queue) /\ queue[i + 1] = r
      BY <2>1, <3>1
    <3> QED
      BY <3>2 DEF InQueue
  <2>9. InQueue(held')
    BY <2>1 DEF InQueue
  <2>10. NotAccepted'
    BY <2>2, <2>8, <2>9 DEF NotAccepted
  <2>11. \A r : InQueue(r) => InQueue(r)' \/ r = held'
    <3> TAKE r
    <3> HAVE InQueue(r)
    <3>1. PICK i \in 1..Len(queue) : queue[i] = r
      BY DEF InQueue
    <3>2. CASE i = 1
      BY <2>1, <3>1, <3>2
    <3>3. CASE i # 1
      <4>1. i - 1 \in 1..Len(queue') /\ queue'[i - 1] = r
        BY <2>1, <3>1, <3>3
      <4> QED
        BY <4>1 DEF InQueue
    <3> QED
      BY <3>2, <3>3
  <2>12. NoStrandedWaiter'
    BY <2>2, <2>11 DEF NoStrandedWaiter
  <2>13. DroppedIsAnswered' /\ AnswerMatchesRecord' /\ Shutdown'
    BY DEF DroppedIsAnswered, AnswerMatchesRecord, Shutdown
  <2>14. Unserved'
    BY <2>2, <2>8, <2>9 DEF Unserved
  <2> QED
    BY <2>3, <2>7, <2>10, <2>12, <2>13, <2>14
<1>14. CASE SkipItem
  BY <1>14 DEF SkipItem, Skippable, LoopTop, lifeVars, reloadVars, WorkerState, OnePlace, NotAccepted, DroppedIsAnswered,
     AnswerMatchesRecord, Unserved, NoStrandedWaiter, Shutdown, InQueue, Running
<1>15. CASE StartItem
  BY <1>15 DEF StartItem, Skippable, lifeVars, reloadVars, WorkerState, OnePlace, NotAccepted, DroppedIsAnswered,
     AnswerMatchesRecord, Unserved, NoStrandedWaiter, Shutdown, InQueue
<1>16. ASSUME NEW st \in Statuses, NEW how \in Futures \ {"none", "pending"},
              how = "result" => st = "completed",
              how = "failed" => st = "failed",
              Finish(st, how)
       PROVE  Parts'
  BY <1>16 DEF Finish, Resolved, LoopTop, lifeVars, reloadVars, WorkerState, OnePlace, NotAccepted, DroppedIsAnswered,
     AnswerMatchesRecord, Unserved, NoStrandedWaiter, Shutdown, InQueue, Running
<1>17. ASSUME NEW s \in Selects, BeginReload(s) \/ DrainReturns(s) \/ EndReload(s) PROVE Parts'
  BY <1>17 DEF BeginReload, DrainReturns, EndReload, lifeVars, workVars, WorkerState, OnePlace, NotAccepted, DroppedIsAnswered,
     AnswerMatchesRecord, Unserved, NoStrandedWaiter, Shutdown, InQueue
<1>20. CASE UNCHANGED vars
  BY <1>20 DEF vars, WorkerState, OnePlace, NotAccepted, DroppedIsAnswered,
     AnswerMatchesRecord, Unserved, NoStrandedWaiter, Shutdown, InQueue
<1> QED
  BY <1>1, <1>2, <1>3, <1>4, <1>5, <1>6, <1>7, <1>8, <1>9, <1>10, <1>11, <1>12,
     <1>13, <1>14, <1>15, <1>16, <1>17, <1>20
  DEF Next, Complete, Fail, ProcessTimeout, ProcessCancelled, Statuses

\* The inductive invariant holds in every state of the queue.
THEOREM InvCorrect == Spec => []Inv
<1>1. Init => Inv
  BY TypeInit, QueueAssumption
  DEF Init, Inv, WorkerState, OnePlace, NotAccepted, DroppedIsAnswered,
      AnswerMatchesRecord, Unserved, NoStrandedWaiter, Shutdown, InQueue
<1>2. QED
  BY <1>1, InvInduction, PTL DEF Spec

\* No caller waits for a request that nobody will look at again.
THEOREM WaiterNotStranded == Spec => []NoStrandedWaiter
<1>1. Inv => NoStrandedWaiter
  BY DEF Inv
<1>2. QED
  BY <1>1, InvCorrect, PTL

\* A result or failure told to a caller is what the request's record says.
THEOREM RecordCorrect == Spec => []AnswerMatchesRecord
<1>1. Inv => AnswerMatchesRecord
  BY DEF Inv
<1>2. QED
  BY <1>1, InvCorrect, PTL

\* After stop() no future is open: the queue was drained, and the worker,
\* which has ended, holds and processes nothing.
THEOREM ShutdownCorrect == Spec => []ShutdownReleasesAll
<1>1. Inv => ShutdownReleasesAll
  BY QueueAssumption
  DEF Inv, ShutdownReleasesAll, NoStrandedWaiter, Shutdown, WorkerState, InQueue
<1>2. QED
  BY <1>1, InvCorrect, PTL

-----------------------------------------------------------------------------
\* The queue implements SerialService under outcome <- future and
\* busy <- processing: every step of the queue is a step of the service or
\* leaves the outcomes and the executed request alone.
LEMMA ServiceStep == Inv /\ [Next]_vars => [Service!ServiceNext]_<<future, processing>>
<1> SUFFICES ASSUME Inv, [Next]_vars
             PROVE  Service!ServiceNext \/ UNCHANGED <<future, processing>>
  OBVIOUS
<1> USE QueueAssumption DEF Inv, TypeOK
<1> DEFINE Stutter == UNCHANGED <<future, processing>>
<1>1. CASE Stop
  <2> DEFINE S == {r \in Requests : future[r] = "pending" /\ (InQueue(r) \/ r = processing)}
  <2>1. S \in SUBSET {r \in Requests : future[r] = "pending"}
    OBVIOUS
  <2>2. future' = [r \in Requests |-> IF r \in S THEN "cancelled" ELSE future[r]]
    BY <1>1 DEF Stop
  <2>3. UNCHANGED processing
    BY <1>1 DEF Stop
  <2>4. Service!CancelMany
    BY <2>1, <2>2, <2>3 DEF Service!CancelMany
  <2> QED
    BY <2>4 DEF Service!ServiceNext
<1>2. ASSUME NEW r \in Requests, Submit(r) PROVE Service!ServiceNext
  <2>1. future[r] = "none"
    BY <1>2 DEF Submit, NotAccepted
  <2>2. Service!Accept(r)
    BY <1>2, <2>1 DEF Submit, workVars, Service!Accept
  <2> QED
    BY <2>2 DEF Service!ServiceNext
<1>3. ASSUME NEW r \in Requests, CallerTimeout(r) \/ CallerCancelled(r)
      PROVE  Service!ServiceNext
  <2>1. Service!GiveUp(r)
    BY <1>3 DEF CallerTimeout, CallerCancelled, workVars, Service!GiveUp
  <2> QED
    BY <2>1 DEF Service!ServiceNext
<1>4. ASSUME NEW r \in Requests, CleanupDrop(r) PROVE Service!ServiceNext \/ Stutter
  <2>1. CASE future[r] = "pending"
    <3>1. Service!GiveUp(r)
      BY <1>4, <2>1 DEF CleanupDrop, Resolved, workVars, Service!GiveUp
    <3> QED
      BY <3>1 DEF Service!ServiceNext
  <2>2. CASE future[r] # "pending"
    BY <1>4, <2>2 DEF CleanupDrop, Resolved, workVars
  <2> QED
    BY <2>1, <2>2
<1>5. CASE StartItem
  <2>1. held \in Requests /\ processing = NoRequest /\ future[held] = "pending"
    BY <1>5 DEF StartItem, Skippable, WorkerState
  <2>2. Service!Execute(held)
    BY <1>5, <2>1 DEF StartItem, Service!Execute
  <2> QED
    BY <2>1, <2>2 DEF Service!ServiceNext
<1>6. ASSUME NEW st \in Statuses, NEW how \in Service!Final, Finish(st, how)
      PROVE  Service!ServiceNext
  <2>1. processing \in Requests
    BY <1>6 DEF Finish, WorkerState
  <2>2. Service!Conclude(processing)
    BY <1>6, <2>1 DEF Finish, Resolved, Service!Conclude
  <2> QED
    BY <2>1, <2>2 DEF Service!ServiceNext
<1>7. CASE Start \/ StopTimeout \/ StopReturns \/ WorkerIdles \/ WorkerExits
           \/ GetItem \/ SkipItem
  BY <1>7 DEF Start, StopTimeout, StopReturns, WorkerIdles, WorkerExits, GetItem,
              SkipItem
<1>8. ASSUME NEW r \in Requests, Refuse(r) \/ CallerResumes(r) PROVE Stutter
  BY <1>8 DEF Refuse, CallerResumes, workVars
<1>9. ASSUME NEW s \in Selects, BeginReload(s) \/ DrainReturns(s) \/ EndReload(s)
      PROVE  Stutter
  BY <1>9 DEF BeginReload, DrainReturns, EndReload, workVars
<1>10. CASE UNCHANGED vars
  BY <1>10 DEF vars
<1> QED
  BY <1>1, <1>2, <1>3, <1>4, <1>5, <1>6, <1>7, <1>8, <1>9, <1>10
  DEF Next, Complete, Fail, ProcessTimeout, ProcessCancelled, Statuses, Service!Final

\* The queue implements the abstract service.
THEOREM ServiceImplemented == Spec => ImplementsService
<1>1. Init => Service!ServiceInit
  BY DEF Init, Service!ServiceInit
<1>2. QED
  BY <1>1, InvCorrect, ServiceStep, PTL
  DEF Spec, ImplementsService, Service!ServiceSpec, Service!serviceVars

-----------------------------------------------------------------------------
(* Fairness enforcement.  Only submit_request can add to the requests that  *)
(* wait for their turn, and it counts them first.                           *)

\* A queue without one of its entries holds no more requests of any key.
LEMMA QueuedShrinks ==
  ASSUME TypeOK, TypeOK', FairShare,
         active' \subseteq active,
         \A r \in active' : status'[r] = "queued" => status[r] = "queued"
  PROVE  FairShare'
<1> SUFFICES ASSUME NEW k \in Keys PROVE Cardinality(QueuedOf(k)') <= MaxPerKey
  BY DEF FairShare
<1>1. QueuedOf(k)' \subseteq QueuedOf(k) /\ QueuedOf(k) \subseteq Requests
  BY DEF QueuedOf, TypeOK
<1>2. IsFiniteSet(QueuedOf(k))
  BY <1>1, QueueAssumption, FS_Subset
<1>3. /\ Cardinality(QueuedOf(k)') <= Cardinality(QueuedOf(k))
      /\ Cardinality(QueuedOf(k)') \in Nat
      /\ Cardinality(QueuedOf(k)) \in Nat
  BY <1>1, <1>2, FS_Subset, FS_CardinalityType
<1> QED
  BY <1>3, QueueAssumption DEF FairShare

\* Every operation keeps each key within its share of the queue.
LEMMA FairInduction == TypeOK /\ FairShare /\ [Next]_vars => FairShare'
<1> SUFFICES ASSUME TypeOK, FairShare, [Next]_vars PROVE FairShare'
  OBVIOUS
<1>0. TypeOK'
  BY TypeInduction
<1>1. ASSUME NEW r \in Requests, Submit(r) PROVE FairShare'
  <2> SUFFICES ASSUME NEW k \in Keys PROVE Cardinality(QueuedOf(k)') <= MaxPerKey
    BY DEF FairShare
  <2>1. QueuedOf(k) \subseteq Requests /\ IsFiniteSet(QueuedOf(k))
    BY QueueAssumption, FS_Subset DEF QueuedOf, TypeOK
  <2>2. Cardinality(QueuedOf(k)) \in Nat /\ Cardinality(QueuedOf(k)) <= MaxPerKey
    BY <2>1, FS_CardinalityType DEF FairShare
  <2>3. CASE k # OwnerKey[r]
    <3>1. QueuedOf(k)' = QueuedOf(k)
      BY <1>1, <2>3 DEF Submit, QueuedOf, TypeOK
    <3> QED
      BY <2>2, <3>1
  <2>4. CASE k = OwnerKey[r]
    <3>1. QueuedOf(k)' \subseteq QueuedOf(k) \cup {r}
      BY <1>1 DEF Submit, QueuedOf, TypeOK
    <3>2. Cardinality(QueuedOf(k)) < MaxPerKey
      BY <1>1, <2>4 DEF Submit
    <3>3. /\ IsFiniteSet(QueuedOf(k) \cup {r})
          /\ Cardinality(QueuedOf(k) \cup {r}) <= Cardinality(QueuedOf(k)) + 1
          /\ Cardinality(QueuedOf(k) \cup {r}) \in Nat
      <4>1. CASE r \in QueuedOf(k)
        <5>1. QueuedOf(k) \cup {r} = QueuedOf(k)
          BY <4>1
        <5> QED
          BY <2>1, <2>2, <5>1
      <4>2. CASE r \notin QueuedOf(k)
        BY <2>1, <2>2, <4>2, FS_AddElement
      <4> QED
        BY <4>1, <4>2
    <3>4. /\ Cardinality(QueuedOf(k)') <= Cardinality(QueuedOf(k) \cup {r})
          /\ Cardinality(QueuedOf(k)') \in Nat
      BY <3>1, <3>3, FS_Subset, FS_CardinalityType
    <3> QED
      BY <2>2, <3>2, <3>3, <3>4, QueueAssumption
  <2> QED
    BY <2>3, <2>4
<1>2. ASSUME ~(\E r \in Requests : Submit(r)) PROVE FairShare'
  <2> DEFINE Shrinks ==
        /\ active' \subseteq active
        /\ \A r \in active' : status'[r] = "queued" => status[r] = "queued"
  <2>1. Shrinks
    <3>1. CASE Start \/ StopTimeout \/ StopReturns \/ WorkerIdles \/ WorkerExits
               \/ GetItem \/ SkipItem \/ UNCHANGED vars
      BY <3>1 DEF Start, StopTimeout, StopReturns, WorkerIdles, WorkerExits,
                  GetItem, SkipItem, vars
    <3>2. CASE Stop
      BY <3>2 DEF Stop, TypeOK
    <3>3. ASSUME NEW r \in Requests,
                 \/ Refuse(r) \/ CallerResumes(r) \/ CallerTimeout(r)
                 \/ CallerCancelled(r) \/ CleanupDrop(r)
          PROVE  Shrinks
      BY <3>3 DEF Refuse, CallerResumes, CallerTimeout, CallerCancelled,
                  CleanupDrop, TypeOK
    <3>4. CASE StartItem
      BY <3>4 DEF StartItem, TypeOK
    <3>5. ASSUME NEW st \in {"completed", "failed", "timed_out", "cancelled"},
                 NEW how \in Futures, Finish(st, how)
          PROVE  Shrinks
      BY <3>5 DEF Finish, TypeOK
    <3>6. ASSUME NEW s \in Selects,
                 BeginReload(s) \/ DrainReturns(s) \/ EndReload(s)
          PROVE  Shrinks
      BY <3>6 DEF BeginReload, DrainReturns, EndReload
    <3> QED
      BY <1>2, <3>1, <3>2, <3>3, <3>4, <3>5, <3>6
      DEF Next, Complete, Fail, ProcessTimeout, ProcessCancelled, Futures
  <2> QED
    BY <1>0, <2>1, QueuedShrinks
<1> QED
  BY <1>1, <1>2

\* No key ever has more requests waiting their turn than MaxPerKey.
THEOREM FairShareCorrect == Spec => []FairShare
<1>1. Init => FairShare
  <2> SUFFICES ASSUME Init, NEW k \in Keys PROVE Cardinality(QueuedOf(k)) <= MaxPerKey
    BY DEF FairShare
  <2>1. QueuedOf(k) = {}
    BY DEF Init, QueuedOf
  <2> QED
    BY <2>1, FS_EmptySet, QueueAssumption
<1>2. QED
  BY <1>1, FairInduction, TypeCorrect, PTL DEF Spec

-----------------------------------------------------------------------------
(* Draining.  With one reload at a time, a reload that is draining keeps     *)
(* the worker from going back to the queue.                                 *)

Quiet ==
  \A s \in Selects :
    select[s] = "draining" => reloading /\ worker \in {"processing", "sleeping", "exited"}

\* While the only reload waits for the request in progress, none is started.
THEOREM DrainCorrect ==
  ASSUME \A s, t \in Selects : s = t
  PROVE  Spec => DrainIsQuiet
<1> DEFINE A == \A s \in Selects :
                  select[s] = "draining" => processing' \in {processing, NoRequest}
<1>1. Init => Quiet
  BY DEF Init, Quiet
<1>2. Inv /\ Quiet /\ [Next]_vars => Quiet'
  <2> SUFFICES ASSUME Inv, Quiet, [Next]_vars PROVE Quiet'
    OBVIOUS
  <2> USE DEF Inv, TypeOK, Quiet
  <2>1. ASSUME NEW s \in Selects, BeginReload(s) PROVE Quiet'
    BY <2>1 DEF BeginReload, WorkerState, workVars
  <2>2. ASSUME NEW s \in Selects, DrainReturns(s) PROVE Quiet'
    BY <2>2 DEF DrainReturns, workVars
  <2>3. ASSUME NEW s \in Selects, EndReload(s) PROVE Quiet'
    BY <2>3 DEF EndReload, workVars
  <2>4. CASE Start \/ Stop \/ StopTimeout \/ StopReturns
    BY <2>4 DEF Start, Stop, StopTimeout, StopReturns, Shutdown
  <2>5. ASSUME NEW r \in Requests,
               \/ Refuse(r) \/ Submit(r) \/ CallerResumes(r) \/ CallerTimeout(r)
               \/ CallerCancelled(r) \/ CleanupDrop(r)
        PROVE  Quiet'
    BY <2>5 DEF Refuse, Submit, CallerResumes, CallerTimeout, CallerCancelled,
                CleanupDrop, reloadVars, workVars
  <2>6. CASE WorkerIdles \/ WorkerExits \/ GetItem \/ SkipItem \/ StartItem
    BY <2>6 DEF WorkerIdles, WorkerExits, GetItem, SkipItem, StartItem, LoopTop,
                reloadVars
  <2>7. ASSUME NEW st, NEW how, Finish(st, how) PROVE Quiet'
    BY <2>7 DEF Finish, LoopTop, reloadVars
  <2>8. CASE UNCHANGED vars
    BY <2>8 DEF vars
  <2> QED
    BY <2>1, <2>2, <2>3, <2>4, <2>5, <2>6, <2>7, <2>8
    DEF Next, Complete, Fail, ProcessTimeout, ProcessCancelled
<1>3. Inv /\ Quiet /\ [Next]_vars => [A]_vars
  <2> SUFFICES ASSUME Inv, Quiet, Next, NEW s \in Selects, select[s] = "draining"
               PROVE  processing' \in {processing, NoRequest}
    BY DEF vars
  <2>1. worker # "holding"
    BY DEF Quiet
  <2> QED
    BY <2>1
    DEF Next, Start, Stop, StopTimeout, StopReturns, Refuse, Submit, CallerResumes,
        CallerTimeout, CallerCancelled, CleanupDrop, WorkerIdles, WorkerExits,
        GetItem, SkipItem, StartItem, Complete, Fail, ProcessTimeout,
        ProcessCancelled, Finish, BeginReload, DrainReturns, EndReload, workVars
<1>4. QED
  BY <1>1, <1>2, <1>3, InvCorrect, PTL DEF Spec, DrainIsQuiet

-----------------------------------------------------------------------------
(* Nobody is stuck.  What EveryWaiterReleased and StopCompletes need of      *)
(* safety: whoever waits, one of the steps fairness is assumed of can run.   *)

\* A queued request that is still open is one the cleanup task looks at.
Watched ==
  \A r \in Requests :
    future[r] = "pending" /\ InQueue(r) => r \in active /\ status[r] = "queued"

\* Before the worker starts, no request is accepted.
WorkerThere == IF server = "init" THEN queue = <<>> ELSE worker # "off"

HelperInv == Watched /\ WorkerThere

LEMMA HelperInduction == Inv /\ HelperInv /\ [Next]_vars => HelperInv'
<1> SUFFICES ASSUME Inv, HelperInv, [Next]_vars PROVE HelperInv'
  OBVIOUS
<1> USE QueueAssumption
    DEF Inv, HelperInv, TypeOK, Servers, Callers, Futures, Workers, Watched, WorkerThere
<1>1. CASE Start \/ Stop \/ StopTimeout \/ StopReturns
  <2>1. CASE Stop
    BY <2>1 DEF Stop, Running, InQueue
  <2>2. CASE Start \/ StopTimeout \/ StopReturns
    BY <2>2 DEF Start, StopTimeout, StopReturns, InQueue
  <2> QED
    BY <1>1, <2>1, <2>2
<1>2. ASSUME NEW r \in Requests, Submit(r) PROVE HelperInv'
  <2>1. /\ queue' = Append(queue, r) /\ active' = active \cup {r}
        /\ status' = [status EXCEPT ![r] = "queued"]
        /\ future' = [future EXCEPT ![r] = "pending"]
        /\ UNCHANGED <<server, worker>> /\ server = "up"
    BY <1>2 DEF Submit, Running, lifeVars, workVars
  <2>2. \A i \in 1..Len(queue') : queue'[i] = IF i <= Len(queue) THEN queue[i] ELSE r
    BY <2>1
  <2>3. Len(queue) \in Nat /\ Len(queue') = Len(queue) + 1
    BY <2>1
  <2>4. \A q \in Requests : InQueue(q)' /\ q # r => InQueue(q)
    BY <2>2, <2>3 DEF InQueue
  <2> QED
    BY <2>1, <2>4
<1>3. ASSUME NEW r \in Requests,
             \/ Refuse(r) \/ CallerResumes(r) \/ CallerTimeout(r)
             \/ CallerCancelled(r) \/ CleanupDrop(r)
      PROVE  HelperInv'
  <2>1. UNCHANGED <<queue, server, worker>>
    BY <1>3 DEF Refuse, CallerResumes, CallerTimeout, CallerCancelled, CleanupDrop,
                lifeVars, workVars
  <2>2. \A q \in Requests : future'[q] = "pending" =>
          /\ future[q] = "pending"
          /\ q \in active => q \in active'
          /\ status'[q] = status[q]
    BY <1>3 DEF Refuse, CallerResumes, CallerTimeout, CallerCancelled, CleanupDrop,
                Resolved
  <2> QED
    BY <2>1, <2>2 DEF InQueue
<1>4. CASE GetItem
  <2>1. /\ queue' = Tail(queue) /\ queue # <<>> /\ worker' = "holding"
        /\ UNCHANGED <<active, status, future, server>>
    BY <1>4 DEF GetItem, lifeVars
  <2>2. Len(queue') \in Nat /\ \A i \in 1..Len(queue') :
          i + 1 \in 1..Len(queue) /\ queue'[i] = queue[i + 1]
    BY <2>1
  <2>3. \A q \in Requests : InQueue(q)' => InQueue(q)
    BY <2>2 DEF InQueue
  <2> QED
    BY <2>1, <2>3
<1>5. CASE WorkerIdles \/ WorkerExits \/ SkipItem
  BY <1>5 DEF WorkerIdles, WorkerExits, SkipItem, LoopTop, lifeVars, InQueue
<1>6. CASE StartItem
  <2>1. /\ held # NoRequest /\ status' = [status EXCEPT ![held] = "processing"]
        /\ worker' = "processing" /\ UNCHANGED <<queue, active, future, server>>
    BY <1>6 DEF StartItem, lifeVars, WorkerState
  <2>2. \A q \in Requests : InQueue(q) => q # held
    BY DEF InQueue, OnePlace
  <2> QED
    BY <2>1, <2>2 DEF InQueue
<1>7. ASSUME NEW st, NEW how, Finish(st, how) PROVE HelperInv'
  <2>1. /\ processing # NoRequest /\ status' = [status EXCEPT ![processing] = st]
        /\ future' = Resolved(processing, how) /\ UNCHANGED <<queue, active, server>>
        /\ worker' \in {"exited", "sleeping", "polling"}
    BY <1>7 DEF Finish, LoopTop, lifeVars, WorkerState
  <2>2. \A q \in Requests : InQueue(q) => q # processing
    BY DEF InQueue, OnePlace
  <2> QED
    BY <2>1, <2>2 DEF InQueue, Resolved
<1>8. ASSUME NEW s \in Selects, BeginReload(s) \/ DrainReturns(s) \/ EndReload(s)
      PROVE  HelperInv'
  BY <1>8 DEF BeginReload, DrainReturns, EndReload, lifeVars, workVars, InQueue
<1>9. CASE UNCHANGED vars
  BY <1>9 DEF vars, InQueue
<1> QED
  BY <1>1, <1>2, <1>3, <1>4, <1>5, <1>6, <1>7, <1>8, <1>9
  DEF Next, Complete, Fail, ProcessTimeout, ProcessCancelled

\* Whoever waits has an answer to take, or is where the cleanup task or the
\* worker will take a step for it; and as long as stop() waits for the worker
\* there is one.
THEOREM NobodyIsStuck ==
  Spec => [](/\ \A r \in Requests : caller[r] = "waiting" =>
                  \/ future[r] # "pending"
                  \/ server = "up" /\ r \in active /\ status[r] = "queued"
                  \/ worker = "holding" /\ held = r
                  \/ worker = "processing" /\ processing = r
             /\ server = "stopping" => worker # "off")
<1> DEFINE Helped ==
      /\ \A r \in Requests : caller[r] = "waiting" =>
           \/ future[r] # "pending"
           \/ server = "up" /\ r \in active /\ status[r] = "queued"
           \/ worker = "holding" /\ held = r
           \/ worker = "processing" /\ processing = r
      /\ server = "stopping" => worker # "off"
<1>1. Init => HelperInv
  BY DEF Init, HelperInv, Watched, WorkerThere, InQueue
<1>2. Inv /\ HelperInv => Helped
  <2> SUFFICES ASSUME Inv, HelperInv PROVE Helped
    OBVIOUS
  <2>1. ASSUME NEW r \in Requests, future[r] = "pending"
        PROVE  \/ server = "up" /\ r \in active /\ status[r] = "queued"
               \/ worker = "holding" /\ held = r
               \/ worker = "processing" /\ processing = r
    <3>1. InQueue(r) \/ held = r \/ processing = r
      BY <2>1 DEF Inv, NoStrandedWaiter
    <3>2. CASE InQueue(r)
      <4>1. server \notin {"stopping", "down"}
        BY <3>2 DEF Inv, Shutdown, InQueue
      <4>2. server # "init"
        BY <3>2 DEF HelperInv, WorkerThere, InQueue
      <4> QED
        BY <2>1, <3>2, <4>1, <4>2 DEF Inv, TypeOK, Servers, HelperInv, Watched
    <3>3. CASE held = r \/ processing = r
      BY <3>3, QueueAssumption DEF Inv, WorkerState
    <3> QED
      BY <3>1, <3>2, <3>3
  <2> QED
    BY <2>1 DEF HelperInv, WorkerThere
<1> QED
  BY <1>1, <1>2, InvCorrect, HelperInduction, PTL DEF Spec
=============================================================================
