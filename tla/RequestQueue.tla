---------------------------- MODULE RequestQueue ----------------------------
(***************************************************************************)
(* The request queue of an inference node: inference_node/request_queue.py *)
(* (class RequestQueueManager), with the two server handlers that drive    *)
(* it, select_model (reload) and the shutdown half of lifespan.            *)
(*                                                                         *)
(* Everything runs on one asyncio event loop, so an action is the code a   *)
(* task runs between two suspension points.  The tasks are: one caller per *)
(* request (submit_request), the worker (_worker_loop, _process_request),  *)
(* the cleanup task (_cleanup_loop), one task per select_model call and    *)
(* the lifespan task.  asyncio.wait_for is modelled as CPython 3.11 (the   *)
(* version the Dockerfile installs) runs it: the wrapped queue.get() is a  *)
(* task of its own, so an item can have left the queue before the worker   *)
(* resumes ("holding"), and a cancellation that arrives in that window is  *)
(* swallowed because the wrapped task is already done.                     *)
(*                                                                         *)
(* Time is abstracted: a timer that is running may fire.  The counters of  *)
(* self.stats are left out: no decision reads them.                        *)
(***************************************************************************)
EXTENDS Naturals, Sequences, FiniteSets

CONSTANTS
  Requests,      \* calls of submit_request, each with a fresh request id
  NoRequest,     \* None
  Keys,          \* owner keys used for fairness
  OwnerKey,      \* OwnerKey[r]: the effective owner key of request r
  MaxQueueSize,  \* max_queue_size
  MaxPerKey,     \* MAX_PER_KEY_IN_QUEUE
  Selects        \* calls of select_model for a model that is not in the pool

ASSUME QueueAssumption ==
  /\ NoRequest \notin Requests
  /\ IsFiniteSet(Requests)
  /\ OwnerKey \in [Requests -> Keys]
  /\ MaxQueueSize \in Nat \ {0}
  /\ MaxPerKey \in Nat \ {0}

VARIABLES
  server,      \* progress of the lifespan task
  reloading,   \* self.reloading
  queue,       \* self.request_queue
  active,      \* the keys of self.active_requests
  status,      \* status[r]: request.status
  future,      \* future[r]: request.future
  caller,      \* caller[r]: where the submit_request call of r is
  worker,      \* where the worker task is
  held,        \* the request the worker has taken and not looked at yet
  processing,  \* self.processing_request
  cancelling,  \* worker_task.cancel() was called and not swallowed
  select       \* select[s]: where the select_model call s is

lifeVars   == <<server, cancelling>>
reloadVars == <<reloading, select>>
workVars   == <<worker, held, processing>>
vars == <<server, reloading, queue, active, status, future, caller, worker,
          held, processing, cancelling, select>>

Servers   == {"init", "up", "stopping", "down"}
Statuses  == {"new", "queued", "processing", "completed", "failed",
              "cancelled", "timed_out"}
Futures   == {"none", "pending", "result", "failed", "timeout", "cancelled"}
Callers   == {"idle", "waiting", "answered", "failed", "timed_out",
              "cancelled", "refused"}
Workers   == {"off", "polling", "sleeping", "holding", "processing", "exited"}

Running == server = "up"

TypeOK ==
  /\ server \in Servers
  /\ reloading \in BOOLEAN
  /\ queue \in Seq(Requests)
  /\ active \in SUBSET Requests
  /\ status \in [Requests -> Statuses]
  /\ future \in [Requests -> Futures]
  /\ caller \in [Requests -> Callers]
  /\ worker \in Workers
  /\ held \in Requests \cup {NoRequest}
  /\ processing \in Requests \cup {NoRequest}
  /\ cancelling \in BOOLEAN
  /\ select \in [Selects -> {"idle", "draining", "loading"}]

Init ==
  /\ server = "init"
  /\ reloading = FALSE
  /\ queue = <<>>
  /\ active = {}
  /\ status = [r \in Requests |-> "new"]
  /\ future = [r \in Requests |-> "none"]
  /\ caller = [r \in Requests |-> "idle"]
  /\ worker = "off"
  /\ held = NoRequest
  /\ processing = NoRequest
  /\ cancelling = FALSE
  /\ select = [s \in Selects |-> "idle"]

-----------------------------------------------------------------------------
(* Helpers.                                                                *)

\* future.set_result, set_exception and cancel leave a done future alone.
Resolved(r, how) ==
  IF future[r] = "pending" THEN [future EXCEPT ![r] = how] ELSE future

InQueue(r) == \E i \in 1..Len(queue) : queue[i] = r

\* The live entries submit_request counts against the key of a new request.
QueuedOf(k) == {r \in active : OwnerKey[r] = k /\ status[r] = "queued"}

\* Mutant: the worker forgets to look at the reloading flag.
LoopTopIgnoresReload ==
  worker' = IF ~Running THEN "exited" ELSE "polling"

\* Back at the top of _worker_loop: the while test and the reloading test, up
\* to the next suspension point.
LoopTop ==
  worker' = IF ~Running THEN "exited"
            ELSE IF reloading THEN "sleeping" ELSE "polling"

-----------------------------------------------------------------------------
(* start, stop.                                                            *)

Start ==
  /\ server = "init"
  /\ server' = "up"
  /\ worker' = "polling"
  /\ UNCHANGED <<reloading, queue, active, status, future, caller, held,
                 processing, cancelling, select>>

\* Mutant: stop() cancels the current request and leaves the queue as it is.
StopKeepsQueue ==
  /\ Running
  /\ server' = "stopping"
  /\ status' = [r \in Requests |-> IF r = processing THEN "cancelled" ELSE status[r]]
  /\ future' = [r \in Requests |->
                  IF r = processing /\ future[r] = "pending"
                  THEN "cancelled" ELSE future[r]]
  /\ cancelling' = (worker # "holding")
  /\ UNCHANGED <<reloading, queue, active, caller, worker, held, processing, select>>

\* stop() up to its first await: clear running, empty the queue, cancel the
\* request being processed, cancel the worker.
Stop ==
  /\ Running
  /\ server' = "stopping"
  /\ queue' = <<>>
  /\ LET hit == {r \in Requests : InQueue(r) \/ r = processing}
     IN /\ status' = [r \in Requests |->
                        IF r \in hit THEN "cancelled" ELSE status[r]]
        /\ future' = [r \in Requests |->
                        IF r \in hit /\ future[r] = "pending"
                        THEN "cancelled" ELSE future[r]]
  /\ cancelling' = (worker # "holding")
  /\ UNCHANGED <<reloading, active, caller, worker, held, processing, select>>

\* lifespan gives stop() two seconds; the cancellation that follows reaches
\* the worker through stop()'s "await task".
StopTimeout ==
  /\ server = "stopping"
  /\ worker # "exited"
  /\ cancelling' = (cancelling \/ worker # "holding")
  /\ UNCHANGED <<server, reloading, queue, active, status, future, caller,
                 worker, held, processing, select>>

\* The worker has ended: stop() ends the cleanup task and returns.
StopReturns ==
  /\ server = "stopping"
  /\ worker = "exited"
  /\ server' = "down"
  /\ UNCHANGED <<reloading, queue, active, status, future, caller, worker,
                 held, processing, cancelling, select>>

-----------------------------------------------------------------------------
(* submit_request.                                                         *)

Refuse(r) ==
  /\ caller[r] = "idle"
  /\ \/ ~Running
     \/ Cardinality(QueuedOf(OwnerKey[r])) >= MaxPerKey
     \/ Len(queue) >= MaxQueueSize
  /\ caller' = [caller EXCEPT ![r] = "refused"]
  /\ UNCHANGED <<server, reloading, queue, active, status, future, worker,
                 held, processing, cancelling, select>>

\* Mutant: one request too many per key.
SubmitOverShare(r) ==
  /\ caller[r] = "idle"
  /\ Running
  /\ Cardinality(QueuedOf(OwnerKey[r])) <= MaxPerKey
  /\ Len(queue) < MaxQueueSize
  /\ queue' = Append(queue, r)
  /\ active' = active \cup {r}
  /\ status' = [status EXCEPT ![r] = "queued"]
  /\ future' = [future EXCEPT ![r] = "pending"]
  /\ caller' = [caller EXCEPT ![r] = "waiting"]
  /\ UNCHANGED <<lifeVars, reloadVars, workVars>>

\* put() does not suspend: the queue was just found to have room.
Submit(r) ==
  /\ caller[r] = "idle"
  /\ Running
  /\ Cardinality(QueuedOf(OwnerKey[r])) < MaxPerKey
  /\ Len(queue) < MaxQueueSize
  /\ queue' = Append(queue, r)
  /\ active' = active \cup {r}
  /\ status' = [status EXCEPT ![r] = "queued"]
  /\ future' = [future EXCEPT ![r] = "pending"]
  /\ caller' = [caller EXCEPT ![r] = "waiting"]
  /\ UNCHANGED <<lifeVars, reloadVars, workVars>>

\* The caller resumes on a done future.  A TimeoutError set by the cleanup
\* task or by the worker is caught by the same except clause as the caller's
\* own timeout, which writes the status again.
CallerResumes(r) ==
  /\ caller[r] = "waiting"
  /\ future[r] # "pending"
  /\ caller' = [caller EXCEPT ![r] =
                  CASE future[r] = "result"    -> "answered"
                    [] future[r] = "failed"    -> "failed"
                    [] future[r] = "timeout"   -> "timed_out"
                    [] OTHER                   -> "cancelled"]
  /\ status' = IF future[r] = "timeout"
               THEN [status EXCEPT ![r] = "timed_out"] ELSE status
  /\ active' = active \ {r}
  /\ UNCHANGED <<queue, future, lifeVars, reloadVars, workVars>>

\* MAX_QUEUE_WAIT_SECONDS + PROCESSING_TIMEOUT_SECONDS have passed; wait_for
\* cancels the future.
CallerTimeout(r) ==
  /\ caller[r] = "waiting"
  /\ future[r] = "pending"
  /\ future' = [future EXCEPT ![r] = "cancelled"]
  /\ status' = [status EXCEPT ![r] = "timed_out"]
  /\ active' = active \ {r}
  /\ caller' = [caller EXCEPT ![r] = "timed_out"]
  /\ UNCHANGED <<queue, lifeVars, reloadVars, workVars>>

\* The handler is cancelled: the future is, the status is not touched.
CallerCancelled(r) ==
  /\ caller[r] = "waiting"
  /\ future[r] = "pending"
  /\ future' = [future EXCEPT ![r] = "cancelled"]
  /\ active' = active \ {r}
  /\ caller' = [caller EXCEPT ![r] = "cancelled"]
  /\ UNCHANGED <<queue, status, lifeVars, reloadVars, workVars>>

-----------------------------------------------------------------------------
(* _cleanup_loop: a request that has been QUEUED for too long is dropped.   *)
(* Its entry stays in the queue.                                            *)

\* Mutants: the cleanup task forgets the caller; drops a request whatever its
\* status.
CleanupForgetsCaller(r) ==
  /\ server \in {"up", "stopping"}
  /\ r \in active
  /\ status[r] = "queued"
  /\ status' = [status EXCEPT ![r] = "timed_out"]
  /\ active' = active \ {r}
  /\ UNCHANGED <<queue, future, caller, lifeVars, reloadVars, workVars>>

CleanupDropsAny(r) ==
  /\ server \in {"up", "stopping"}
  /\ r \in active
  /\ status' = [status EXCEPT ![r] = "timed_out"]
  /\ future' = Resolved(r, "timeout")
  /\ active' = active \ {r}
  /\ UNCHANGED <<queue, caller, lifeVars, reloadVars, workVars>>

CleanupDrop(r) ==
  /\ server \in {"up", "stopping"}
  /\ r \in active
  /\ status[r] = "queued"
  /\ status' = [status EXCEPT ![r] = "timed_out"]
  /\ future' = Resolved(r, "timeout")
  /\ active' = active \ {r}
  /\ UNCHANGED <<queue, caller, lifeVars, reloadVars, workVars>>

-----------------------------------------------------------------------------
(* _worker_loop and _process_request.                                      *)

\* The one-second get timed out, or the half-second sleep is over.
WorkerIdles ==
  /\ worker \in {"polling", "sleeping"}
  /\ ~cancelling
  /\ LoopTop
  /\ UNCHANGED <<queue, active, status, future, caller, held, processing,
                 lifeVars, reloadVars>>

\* Mutant: a reloading worker waits for the end of the reload before anything.
WorkerExitsAfterReload ==
  /\ worker \in {"polling", "sleeping"}
  /\ cancelling
  /\ worker' = IF reloading THEN "sleeping" ELSE "exited"
  /\ UNCHANGED <<queue, active, status, future, caller, held, processing,
                 lifeVars, reloadVars>>

\* The cancellation arrives while the worker waits for work.
WorkerExits ==
  /\ worker \in {"polling", "sleeping"}
  /\ cancelling
  /\ worker' = "exited"
  /\ UNCHANGED <<queue, active, status, future, caller, held, processing,
                 lifeVars, reloadVars>>

\* queue.get() returns in the task wait_for made for it.
GetItem ==
  /\ worker = "polling"
  /\ queue # <<>>
  /\ held' = Head(queue)
  /\ queue' = Tail(queue)
  /\ worker' = "holding"
  /\ UNCHANGED <<active, status, future, caller, processing, lifeVars, reloadVars>>

\* Mutant: a request whose caller has left is processed all the same.
SkippableByStatus(r) == status[r] = "timed_out"

\* A request that timed out or whose future is done is not processed.
Skippable(r) == status[r] = "timed_out" \/ future[r] # "pending"

SkipItem ==
  /\ worker = "holding"
  /\ Skippable(held)
  /\ held' = NoRequest
  /\ LoopTop
  /\ UNCHANGED <<queue, active, status, future, caller, processing, lifeVars,
                 reloadVars>>

StartItem ==
  /\ worker = "holding"
  /\ ~Skippable(held)
  /\ held' = NoRequest
  /\ processing' = held
  /\ status' = [status EXCEPT ![held] = "processing"]
  /\ worker' = "processing"
  /\ UNCHANGED <<queue, active, future, caller, lifeVars, reloadVars>>

\* Mutant: the outcome is recorded and the caller is not told.
FinishSilently(st, how) ==
  /\ worker = "processing"
  /\ status' = [status EXCEPT ![processing] = st]
  /\ processing' = NoRequest
  /\ LoopTop
  /\ UNCHANGED <<queue, active, future, caller, held, lifeVars, reloadVars>>

\* The processor returned, raised, ran into PROCESSING_TIMEOUT_SECONDS or was
\* cancelled: st is the status the matching except clause writes, how is what
\* it does to the future.  A processor that has already ended when the worker
\* is cancelled still gets its result through.
Finish(st, how) ==
  /\ worker = "processing"
  /\ status' = [status EXCEPT ![processing] = st]
  /\ future' = Resolved(processing, how)
  /\ processing' = NoRequest
  /\ LoopTop
  /\ UNCHANGED <<queue, active, caller, held, lifeVars, reloadVars>>

Complete         == Finish("completed", "result")
Fail             == Finish("failed", "failed")
ProcessTimeout   == ~cancelling /\ Finish("timed_out", "timeout")
ProcessCancelled == cancelling /\ Finish("cancelled", "cancelled")

-----------------------------------------------------------------------------
(* set_reloading and drain_active_requests, as select_model calls them.     *)

\* set_reloading(True), then drain_active_requests: with nothing in progress
\* it returns at once and load_model runs before the task is suspended.
BeginReload(s) ==
  /\ Running
  /\ select[s] = "idle"
  /\ reloading' = TRUE
  /\ select' = [select EXCEPT ![s] =
                  IF processing = NoRequest THEN "loading" ELSE "draining"]
  /\ UNCHANGED <<queue, active, status, future, caller, lifeVars, workVars>>

\* The poll finds nothing in progress, or thirty seconds are over and the
\* load proceeds anyway.
DrainReturns(s) ==
  /\ select[s] = "draining"
  /\ select' = [select EXCEPT ![s] = "loading"]
  /\ UNCHANGED <<reloading, queue, active, status, future, caller, lifeVars,
                 workVars>>

\* The finally clause.
EndReload(s) ==
  /\ select[s] = "loading"
  /\ select' = [select EXCEPT ![s] = "idle"]
  /\ reloading' = FALSE
  /\ UNCHANGED <<queue, active, status, future, caller, lifeVars, workVars>>

-----------------------------------------------------------------------------

Next ==
  \/ Start \/ Stop \/ StopTimeout \/ StopReturns
  \/ \E r \in Requests :
       \/ Refuse(r) \/ Submit(r) \/ CallerResumes(r) \/ CallerTimeout(r)
       \/ CallerCancelled(r) \/ CleanupDrop(r)
  \/ WorkerIdles \/ WorkerExits \/ GetItem \/ SkipItem \/ StartItem
  \/ Complete \/ Fail \/ ProcessTimeout \/ ProcessCancelled
  \/ \E s \in Selects : BeginReload(s) \/ DrainReturns(s) \/ EndReload(s)

Spec == Init /\ [][Next]_vars

\* What the event loop and the timers of the code guarantee: a task that can
\* resume does, the cleanup task wakes every ten seconds, a processor is cut
\* off after PROCESSING_TIMEOUT_SECONDS, and stop() after two seconds.
\* Nothing is assumed of the caller's own 180-second timer, of clients, of
\* processors or of reloads.
Fairness ==
  /\ \A r \in Requests : WF_vars(CallerResumes(r)) /\ WF_vars(CleanupDrop(r))
  /\ WF_vars(SkipItem) /\ WF_vars(StartItem)
  /\ WF_vars(ProcessTimeout) /\ WF_vars(ProcessCancelled) /\ WF_vars(WorkerExits)
  /\ WF_vars(StopReturns) /\ WF_vars(StopTimeout)

FairSpec == Spec /\ Fairness

-----------------------------------------------------------------------------
(* Properties.                                                             *)

\* A caller whose future is still open is waiting, and its request is where
\* somebody will find it: in the queue, in the worker's hand or being
\* processed.  The hazard is the window between queue.get() and
\* _process_request, and stop() running inside it.
NoStrandedWaiter ==
  \A r \in Requests :
    future[r] = "pending" =>
      /\ caller[r] = "waiting"
      /\ InQueue(r) \/ held = r \/ processing = r

\* When stop() has returned nobody waits for an answer that cannot come, even
\* if stop() ran while the worker was between taking a request and starting it.
ShutdownReleasesAll ==
  server = "down" => \A r \in Requests : future[r] # "pending"

\* Fairness enforcement of submit_request: however statuses change under way,
\* one key never has more than MaxPerKey requests waiting their turn.
FairShare == \A k \in Keys : Cardinality(QueuedOf(k)) <= MaxPerKey

\* A result or a failure the caller is told is what the request's record says,
\* whatever cleanup, timeouts and stop() write to the status.
AnswerMatchesRecord ==
  \A r \in Requests :
    /\ future[r] = "result" => status[r] = "completed"
    /\ future[r] = "failed" => status[r] = "failed"

\* The queue implements the service its callers rely on: the outcome of a
\* request is decided once, at most one request is executed at a time, and
\* execution never starts for a request whose caller has been answered.
Service == INSTANCE SerialService WITH outcome <- future, busy <- processing
ImplementsService == Service!ServiceSpec

\* While a reload waits in drain_active_requests for the request in progress,
\* the worker does not start another one, so the drain waits for one request
\* only.  True when one reload runs at a time.
DrainIsQuiet ==
  [][\A s \in Selects :
       select[s] = "draining" => processing' \in {processing, NoRequest}]_vars

\* Every caller is released, without the help of its own 180-second timer and
\* whatever reloads, processors and the shutdown do.
EveryWaiterReleased ==
  \A r \in Requests : (caller[r] = "waiting") ~> (caller[r] # "waiting")

\* stop() comes to an end even if its cancellation of the worker was swallowed.
StopCompletes == (server = "stopping") ~> (server = "down")
=============================================================================
