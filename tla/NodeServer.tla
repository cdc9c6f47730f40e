----------------------------- MODULE NodeServer -----------------------------
(***************************************************************************)
(* How an inference node serves: inference_node/server.py composes the      *)
(* request queue (here by its promise, SerialService) and the model pool    *)
(* (ModelPool) with the wrappers of inference_node/llm_wrapper.py, the       *)
(* server's globals llm and config.model_name, streaming responses and the  *)
(* endpoints that load, switch and evict models.                            *)
(*                                                                         *)
(* A wrapper is <<m, n>>, the n-th load of model m: evicting a model unloads *)
(* its wrapper for good.  Generation runs in an executor thread while the   *)
(* task that asked for it holds the wrapper's _processing_lock; a task that  *)
(* is cancelled lets go of the lock and its thread runs on.  A reload does  *)
(* not stop the queue from starting a request the worker already waits for  *)
(* (see RequestQueue), so nothing here waits for a reload to end.           *)
(***************************************************************************)
EXTENDS ModelPool, SerialService

CONSTANTS
  Chat,       \* the requests of /v1/chat/completions; others: /v1/completions
  Streaming,  \* the requests with stream = true
  Target,     \* Target[r]: the model request r names
  Selects,    \* tasks running select_model
  ToLoad,     \* ToLoad[s]: the model select_model is called for
  NoWrapper,  \* llm is None
  MaxLoads    \* bound on the loads of one model

ASSUME NodeAssumption ==
  /\ Chat \subseteq Requests /\ Streaming \subseteq Requests
  /\ Target \in [Requests -> Models]
  /\ ToLoad \in [Selects -> Models]
  /\ Requests \cap Selects = {}
  /\ MaxLoads \in Nat \ {0}
  /\ NoWrapper \notin Models \X (1..MaxLoads)

VARIABLES
  loads,        \* loads[m]: how often m has been loaded
  llm,          \* the global llm
  configModel,  \* config.model_name, NoModel for "No Model Loaded"
  phase,        \* phase[t]: where a request or a select_model call is
  bound,        \* bound[t]: the wrapper its generation runs on
  label,        \* label[r]: the model name the response carries
  threads       \* tasks whose executor thread is generating

pool    == poolVars
globals == <<llm, configModel>>
tasks   == <<phase, bound, label, threads>>
nodeVars == <<slots, active, usedBefore, insertedBefore, outcome, busy, loads,
              llm, configModel, phase, bound, label, threads>>

Tasks    == Requests \cup Selects
Wrappers == Models \X (1..MaxLoads)
Phases   == {"idle", "queued", "started", "selecting", "raising", "responding",
             "ready", "draining", "locking", "running", "paused", "done"}

NodeTypeOK ==
  /\ PoolTypeOK /\ ServiceTypeOK
  /\ loads \in [Models -> 0..MaxLoads]
  /\ llm \in Wrappers \cup {NoWrapper}
  /\ configModel \in Models \cup {NoModel}
  /\ phase \in [Tasks -> Phases]
  /\ bound \in [Tasks -> Wrappers \cup {NoWrapper}]
  /\ label \in [Requests -> Models \cup {NoModel}]
  /\ threads \subseteq Tasks

\* lifespan: no-model mode, or one model loaded and measured before the node
\* answers requests.
NodeInit ==
  /\ PoolInit /\ ServiceInit
  /\ loads = [m \in Models |-> IF m \in slots THEN 1 ELSE 0]
  /\ llm = IF active = NoModel THEN NoWrapper ELSE <<active, 1>>
  /\ configModel = active
  /\ phase = [t \in Tasks |-> "idle"]
  /\ bound = [t \in Tasks |-> NoWrapper]
  /\ label = [r \in Requests |-> NoModel]
  /\ threads = {}

-----------------------------------------------------------------------------
(* Wrappers and their locks.                                               *)

Current(m) == <<m, loads[m]>>
Loaded(w)  == w # NoWrapper /\ w[1] \in slots /\ w = Current(w[1])

\* Mutants: a stream lets go between two chunks; one lock for all wrappers.
RunningHolders(w) == {t \in Tasks : bound[t] = w /\ phase[t] = "running"}
AllHolders(w) == {t \in Tasks : phase[t] \in {"running", "paused"}}

\* A stream keeps the lock between two chunks.
Holders(w) == {t \in Tasks : bound[t] = w /\ phase[t] \in {"running", "paused"}}
Waiters(w) == {t \in Tasks : bound[t] = w /\ phase[t] = "locking"}
Free(w)    == Holders(w) \cup Waiters(w) = {}

\* generate_*_safe on w: take the lock at once if nobody has it or waits for
\* it, and start the thread, which raises if the model has been unloaded.
Entering(w) ==
  IF ~Free(w) THEN "locking" ELSE IF Loaded(w) THEN "running" ELSE "raising"

Enter(t, w) ==
  /\ bound' = [bound EXCEPT ![t] = w]
  /\ phase' = [phase EXCEPT ![t] = Entering(w)]
  /\ threads' = IF Entering(w) = "running" THEN threads \cup {t} ELSE threads

GoTo(t, p) == phase' = [phase EXCEPT ![t] = p]

\* The processor of r ends and the queue tells the caller, if it still waits.
Settle(r, o) == Conclude(r) /\ (outcome[r] = "pending" => outcome'[r] = o)

-----------------------------------------------------------------------------
(* A request up to its processor.                                          *)

\* create_completion, create_chat_completion: with a model, into the queue.
Admit(r) ==
  /\ phase[r] = "idle"
  /\ llm # NoWrapper
  /\ Accept(r)
  /\ GoTo(r, "queued")
  /\ UNCHANGED <<pool, loads, globals, bound, label, threads>>

\* The queue starts the processor, in a task of its own.
Begin(r) ==
  /\ phase[r] = "queued"
  /\ Execute(r)
  /\ GoTo(r, "started")
  /\ UNCHANGED <<pool, loads, globals, bound, label, threads>>

\* The caller leaves: the processor goes on.
Leave(r) ==
  /\ GiveUp(r)
  /\ UNCHANGED <<pool, loads, globals, tasks>>

\* Mutant: the name of the active model, whatever generates.
ActiveLabel(w) == configModel

\* actual_model_name
LabelOf(w) == IF w \notin {llm, NoWrapper} THEN w[1] ELSE configModel

\* Chat, with its wrapper chosen: 503 without a loaded model; a stream is
\* only wrapped in a response.
UseChat(r, w) ==
  /\ label' = [label EXCEPT ![r] = LabelOf(w)]
  /\ IF Loaded(w) /\ r \notin Streaming THEN Enter(r, w)
     ELSE /\ bound' = [bound EXCEPT ![r] = w]
          /\ GoTo(r, IF Loaded(w) THEN "responding" ELSE "raising")
          /\ UNCHANGED threads

\* get_for_inference, whether or not the model is loaded.
Touch(m) == GetForInference(m) \/ (m \notin slots /\ UNCHANGED pool)

\* Completion: the model is looked up and named in the response, the global
\* wrapper generates.
UseText(r) ==
  /\ Touch(Target[r])
  /\ label' = [label EXCEPT ![r] =
                 LabelOf(IF Target[r] \in slots THEN Current(Target[r]) ELSE llm)]
  /\ IF llm # NoWrapper /\ r \notin Streaming THEN Enter(r, llm)
     ELSE /\ GoTo(r, IF r \in Streaming THEN "responding" ELSE "raising")
          /\ UNCHANGED <<bound, threads>>

RouteChat(r) ==
  /\ phase[r] = "started" /\ r \in Chat
  /\ \/ GetForInference(Target[r]) /\ UseChat(r, Current(Target[r]))
     \/ /\ Target[r] \notin slots
        /\ UNCHANGED pool
        /\ \/ UseChat(r, llm)                       \* no gateway client
           \/ /\ Target[r] # configModel            \* await select_node
              /\ bound' = [bound EXCEPT ![r] = llm]
              /\ GoTo(r, "selecting")
              /\ UNCHANGED <<label, threads>>
  /\ UNCHANGED <<serviceVars, loads, globals>>

RouteText(r) ==
  /\ phase[r] = "started" /\ r \notin Chat
  /\ \/ UseText(r)                                  \* no gateway client
     \/ /\ Target[r] # configModel                  \* await select_node
        /\ GoTo(r, "selecting")
        /\ UNCHANGED <<pool, bound, label, threads>>
  /\ UNCHANGED <<serviceVars, loads, globals>>

\* select_node finds a peer; _forward_request returns its answer or raises.
PeerAnswers(r) ==
  /\ phase[r] = "selecting"
  /\ \E o \in {"result", "failed"} : Settle(r, o)
  /\ GoTo(r, "done")
  /\ UNCHANGED <<pool, loads, globals, bound, label, threads>>

\* No peer: chat goes on with the wrapper it read before the await, a
\* completion reads the globals now.
NoPeer(r) ==
  /\ phase[r] = "selecting"
  /\ \/ r \in Chat /\ UseChat(r, bound[r]) /\ UNCHANGED pool
     \/ r \notin Chat /\ UseText(r)
  /\ UNCHANGED <<serviceVars, loads, globals>>

Raise(r) ==
  /\ phase[r] = "raising" /\ busy = r
  /\ Settle(r, "failed")
  /\ GoTo(r, "done")
  /\ UNCHANGED <<pool, loads, globals, bound, label, threads>>

\* The processor returned a StreamingResponse: for the queue that is all.
Respond(r) ==
  /\ phase[r] = "responding"
  /\ Settle(r, "result")
  /\ GoTo(r, IF outcome[r] = "pending" THEN "ready" ELSE "done")
  /\ UNCHANGED <<pool, loads, globals, bound, label, threads>>

-----------------------------------------------------------------------------
(* Generation.                                                             *)

\* The response is iterated for the first time; only now does a completion
\* stream read the global llm.
OpenStream(r) ==
  /\ phase[r] = "ready"
  /\ LET w == IF r \in Chat THEN bound[r] ELSE llm
     IN IF w = NoWrapper THEN GoTo(r, "done") /\ UNCHANGED <<bound, threads>>
        ELSE Enter(r, w)
  /\ UNCHANGED <<pool, serviceVars, loads, globals, label>>

\* The lock is handed on to a waiting task.
Acquire(t) ==
  /\ phase[t] = "locking"
  /\ Holders(bound[t]) = {}
  /\ GoTo(t, IF Loaded(bound[t]) THEN "running" ELSE "raising")
  /\ threads' = IF Loaded(bound[t]) THEN threads \cup {t} ELSE threads
  /\ UNCHANGED <<pool, serviceVars, loads, globals, bound, label>>

\* The exception of a stream is logged, that of a probe is caught.
GiveUpGenerating(t) ==
  /\ phase[t] = "raising" /\ t # busy
  /\ GoTo(t, IF t \in Selects THEN "idle" ELSE "done")
  /\ UNCHANGED <<pool, serviceVars, loads, globals, bound, label, threads>>

GenerationEnds(t) ==
  /\ phase[t] = "running"
  /\ threads' = threads \ {t}
  /\ GoTo(t, IF t \in Selects THEN "idle" ELSE "done")
  /\ IF t \in Requests \ Streaming THEN \E o \in {"result", "failed"} : Settle(t, o)
     ELSE UNCHANGED serviceVars
  /\ UNCHANGED <<pool, loads, globals, bound, label>>

\* A chunk is there: the thread is free until the client has taken it.
ChunkEnds(r) ==
  /\ phase[r] = "running" /\ r \in Streaming
  /\ GoTo(r, "paused")
  /\ threads' = threads \ {r}
  /\ UNCHANGED <<pool, serviceVars, loads, globals, bound, label>>

NextChunk(r) ==
  /\ phase[r] = "paused"
  /\ GoTo(r, "running")
  /\ threads' = threads \cup {r}
  /\ UNCHANGED <<pool, serviceVars, loads, globals, bound, label>>

\* The client of a stream has gone: the generator is cancelled.
Disconnect(r) ==
  /\ r \in Streaming /\ r # busy
  /\ phase[r] \in {"ready", "locking", "running", "paused"}
  /\ GoTo(r, "done")
  /\ UNCHANGED <<pool, serviceVars, loads, globals, bound, label, threads>>

\* PROCESSING_TIMEOUT_SECONDS, or stop(): the processor is cancelled.
CutOff(r) ==
  /\ busy = r
  /\ phase[r] \in {"started", "selecting", "locking", "running"}
  /\ \E o \in {"timeout", "cancelled"} : Settle(r, o)
  /\ GoTo(r, "done")
  /\ UNCHANGED <<pool, loads, globals, bound, label, threads>>

\* The thread nobody waits for any more ends.
OrphanEnds(r) ==
  /\ r \in threads /\ phase[r] = "done"
  /\ threads' = threads \ {r}
  /\ UNCHANGED <<pool, serviceVars, loads, globals, phase, bound, label>>

-----------------------------------------------------------------------------
(* select_model and evict_model.                                           *)

\* _sync_server_pool_state
Sync ==
  /\ llm' = IF active' = NoModel THEN NoWrapper ELSE <<active', loads'[active']>>
  /\ configModel' = active'

SelectInstant(s) ==
  /\ phase[s] = "idle"
  /\ Activate(ToLoad[s])
  /\ UNCHANGED <<serviceVars, loads, tasks>>
  /\ Sync

SelectDrains(s) ==
  /\ phase[s] = "idle" /\ ToLoad[s] \notin slots
  /\ busy # NoRequest
  /\ GoTo(s, "draining")
  /\ UNCHANGED <<pool, serviceVars, loads, globals, bound, label, threads>>

\* Drained, with nothing to drain, or after thirty seconds: load_model.
Drained(s) ==
  \/ phase[s] = "draining"
  \/ phase[s] = "idle" /\ busy = NoRequest /\ ToLoad[s] \notin slots

\* load_model, _sync_server_pool_state and the start of the probe on the
\* new wrapper.
SelectLoads(s) ==
  /\ Drained(s)
  /\ LET m == ToLoad[s]
         w == <<m, loads[m] + 1>>
     IN /\ loads[m] < MaxLoads
        /\ Load(m)
        /\ loads' = [loads EXCEPT ![m] = @ + 1]
        /\ bound' = [bound EXCEPT ![s] = w]
        /\ GoTo(s, IF Free(w) THEN "running" ELSE "locking")
        /\ threads' = IF Free(w) THEN threads \cup {s} ELSE threads
  /\ Sync
  /\ UNCHANGED <<serviceVars, label>>

\* The model was loaded by somebody else meanwhile; the probe shares its lock.
SelectFinds(s) ==
  /\ phase[s] = "draining"
  /\ Activate(ToLoad[s])
  /\ Enter(s, Current(ToLoad[s]))
  /\ UNCHANGED <<serviceVars, loads, label>>
  /\ Sync

\* load_model raises: the globals are not synchronised.
SelectFails(s) ==
  /\ Drained(s)
  /\ LoadFails(ToLoad[s])
  /\ GoTo(s, "idle")
  /\ UNCHANGED <<serviceVars, loads, globals, bound, label, threads>>

\* Mutant: the globals are not synchronised.
EvictOnly(m) ==
  /\ Evict(m)
  /\ UNCHANGED <<serviceVars, loads, globals, tasks>>

EvictModel(m) ==
  /\ Evict(m)
  /\ UNCHANGED <<serviceVars, loads, tasks>>
  /\ Sync

-----------------------------------------------------------------------------

NodeNext ==
  \/ \E r \in Requests :
       \/ Admit(r) \/ Begin(r) \/ Leave(r) \/ RouteChat(r) \/ RouteText(r)
       \/ PeerAnswers(r) \/ NoPeer(r) \/ Raise(r) \/ Respond(r) \/ OpenStream(r)
       \/ ChunkEnds(r) \/ NextChunk(r) \/ Disconnect(r) \/ CutOff(r) \/ OrphanEnds(r)
  \/ \E t \in Tasks : Acquire(t) \/ GiveUpGenerating(t) \/ GenerationEnds(t)
  \/ \E s \in Selects :
       \/ SelectInstant(s) \/ SelectDrains(s) \/ SelectLoads(s)
       \/ SelectFinds(s) \/ SelectFails(s)
  \/ \E m \in Models : EvictModel(m)

NodeSpec == NodeInit /\ [][NodeNext]_nodeVars

\* What the node itself guarantees of a reload: a drain returns, a task whose
\* lock is free resumes, a generation ends.  Nothing is assumed of clients.
NodeFairness ==
  \A s \in Selects :
    /\ WF_nodeVars(SelectLoads(s) \/ SelectFinds(s) \/ SelectFails(s))
    /\ WF_nodeVars(Acquire(s)) /\ WF_nodeVars(GiveUpGenerating(s))
    /\ WF_nodeVars(GenerationEnds(s))

FairNode == NodeSpec /\ NodeFairness

-----------------------------------------------------------------------------
(* Properties.                                                             *)

\* Whatever is loaded, switched, evicted or fails to load, the globals the
\* handlers read are those of the pool's active model, although a failed load
\* does not synchronise them.
GlobalsFollowPool ==
  /\ configModel = active
  /\ llm = IF active = NoModel THEN NoWrapper ELSE Current(active)

\* A chat response carries the name of the model that generates it, even when
\* the active model changed while the handler waited for a peer.
ChatLabelIsTruthful ==
  \A r \in Chat \cap threads : label[r] = bound[r][1]

\* Of the tasks that still wait for their generation, one at a time runs on a
\* wrapper, streams between two chunks included.
OneTaskPerWrapper ==
  \A s, t \in Tasks :
    s # t /\ bound[s] = bound[t] /\ phase[s] = "running"
      => phase[t] \notin {"running", "paused"}

\* llm_wrapper.py:398: "Thread-safe version of generate_chat": one thread at a
\* time generates on a wrapper.
ThreadSafe ==
  \A s, t \in threads : bound[s] = bound[t] => s = t

\* A reload ends, and the queue goes on, although clients may stop reading
\* their streams and keep the locks of other wrappers for ever.
ReloadEnds == \A s \in Selects : (phase[s] # "idle") ~> (phase[s] = "idle")
=============================================================================
