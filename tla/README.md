# LlamaNet: specifications, model checking and proofs

LlamaNet is a decentralised inference network in Python. *Inference nodes*
serve language models over an OpenAI-compatible HTTP interface; a *gateway*
keeps a registry of the nodes in a Supabase (PostgreSQL) database, hands out
bearer tokens, counts tokens and forwards requests. This directory holds TLA+
specifications of the parts of the system whose correctness depends on the
order of events, TLC configurations that check them on small instances, and
proofs, checked by TLAPS, that hold for every instance.

Paths below are relative to the repository. Run the tools in this directory:

    tlc -workers 2 -config queue.cfg MCRequestQueue.tla
    tlapm RequestQueueProofs.tla

## 1. Inventory

Both processes are asyncio programs: one event loop per process, so code
between two `await`s is atomic, and everything else may interleave. The node
also has executor threads, which run the generation of tokens. The gateway's
Supabase client is synchronous, so a handler that only calls the database, and
broadcasts by `put_nowait`, runs without interruption once its request body
has been read. Each of its statements may fail, and `SupabaseManager` swallows
nearly every such failure: a read that fails gives 0 or an empty list, a write
that fails leaves what came before it done and what comes after it undone, or
done all the same. The modules of the gateway have these failures.

### Inference node

| Component | State | Operations | What is hard | What makes it correct |
| --- | --- | --- | --- | --- |
| Request queue, `inference_node/request_queue.py` | the FIFO, the set of active requests, a status and a future per request, the worker, `reloading` | `submit_request`, `_worker_loop`, `_process_request`, `_cleanup_loop`, `set_reloading`, `drain_active_requests`, `stop` | five parties resolve one future; an item is for a while neither in the queue nor being processed; cancellations that `wait_for` swallows | nobody waits for ever; one request at a time; one outcome for a request; a fair share for each key |
| Model pool, `inference_node/model_pool.py` | loaded slots, active model, order of use | `load_model`, `evict`, `activate`, `get_for_inference` | a load may fail after its eviction; the active model is no victim | the active model is loaded; a model in use stays while others can go; capacity |
| Wrappers, `inference_node/llm_wrapper.py` | a lock and a `Llama` object per loaded model | `generate_*_safe`, `unload_model` | the thread outlives the task that holds the lock | one thread at a time generates on a model |
| Server, `inference_node/server.py` | globals `llm` and `config.model_name`, copies of the pool's state | completions, chats, streams, `select_model`, `evict_model`, lifespan | globals that are read before an `await` and used after it; streams outlive their queue entry | globals follow the pool; answers name the model that generated them; reloads end |
| Gateway client, `inference_node/gateway_client.py` | `registered`, `running`, bearer token, list of peers | `register`, `heartbeat_loop`, `send_event`, `unregister`, `select_node` | tasks that send independently; timeouts with the request still under way | the gateway's view converges; tokens agree once they have been read |
| Download manager, `inference_node/download_manager.py`; model files, `inference_node/hf_downloader.py` | downloads and their statuses, a lock, cancel flags, bounded progress queues, files, the metadata file | start, cancel, delete, search, download, progress; the download of `run <model>` before the server starts | files are written at their final paths; the next download takes what it finds there for whole; listeners come and are thrown out at any time; the process may end anywhere | a partial file has a cause; a stream learns how its download ends; no start with a broken file whose hash is known; downloads end |
| Event streams, `common/sse_handler.py`, `common/unified_sse.py` | a bounded queue per connection | connect, send, close, broadcast | a broadcast awaits each queue while connections come and go and other broadcasts run; a client may leave before its stream starts | a broadcast that is not aborted reaches all who stay, and ends; slots are the streams that hold one |
| Heartbeat manager and event publisher, `inference_node/heartbeat.py`, `inference_node/event_publisher.py` | timestamps | report | none; the publisher is never constructed | none |

### Gateway

| Component | State | Operations | What is hard | What makes it correct |
| --- | --- | --- | --- | --- |
| Node table, `gateway/server.py`, `gateway/supabase_client.py`, `gateway/node_registry.py`, `sql/schema.sql` | `nodes`, `node_models` | publish, register, heartbeat, node events, unpublish, monitor of stale nodes | any heartbeat revives a row; messages arrive late and out of order; statements fail unnoticed | what is listed is what is loaded; who is gone is not listed |
| Token statistics, `gateway/supabase_client.py` | counters in the rows, cumulative totals, a cache and its persisted copy | restart detection, accumulation at departure, hydration | counters start again with every restart of a node; the cache is lost with the gateway; statements fail unnoticed | tokens are lost only by a failing statement |
| Router, `gateway/router.py`, with token usage, `gateway/supabase_client.py` | in-flight counters and hourly compute per key, daily tokens, prefix affinity | select, route, forward, stream, record | check and charge on two sides of an `await`; a conversation's node may be gone or too small | a bounded overdraft by the hour and by the day; slots come back; a request goes to a node that fits, a conversation to its own |
| Node tokens, `common/gateway_auth.py` | token per node | generate, revoke, set | answers that get lost | gateway and node hold the same token |
| Rate limiter, `common/rate_limiter.py` | token buckets, counters of streams | check, refill, cleanup | several buckets charged one after the other; idle buckets are dropped and made anew | no more is admitted than a bucket holds and gains; who comes back when told is served |
| Tunnels, `gateway/node_registry.py` | tunnel, DNS record, row of `tunnel_state` | register, deregister | three steps each way, any of which may fail or lose its answer | a tunnel that nobody knows of has a cause |
| Event streams, `gateway/server.py` | a bounded queue per connection | broadcast, connect | a full queue drops its connection, whose stream goes on | no gaps; slots come back once |
| Accounts and API keys, `gateway/server.py`, `gateway/supabase_client.py` | key rows, sessions | create, revoke | keys are counted before the request's body is read, or not at all when they cannot be read | the limit is exceeded by the calls under way at most |
| Quality gate, request validation, metrics, configuration, context size, discovery | no state that is decided upon | pure functions and host input | none | none |

### How they interact

A client's request reaches the gateway's router, which takes a slot of the
key, checks the key's budget, chooses a node and forwards the request with the
node's bearer token. The node's handler submits a closure to the request
queue; the worker runs it; it looks up the model in the pool, takes the lock
of the wrapper and generates in a thread. `select_model` pauses the queue,
drains it, loads a model, which may evict another, synchronises the server's
globals, measures the model through the same lock and tells the gateway.
The gateway client registers the node, sends a heartbeat every 30 seconds and
an event at each change; the gateway's monitor deregisters nodes that have not
been heard of for 120 seconds. Every message to the gateway carries the node's
token counters, and every one of them passes through restart detection.

`PROJECT.json` lists the hazards, each with the line where it bites and the
properties that cover it.

## 2. Modules

| Module | Models | Extends or instantiates |
| --- | --- | --- |
| `SerialService` | what callers rely on: one outcome for a request, one execution at a time, none for a caller that has been answered | |
| `RequestQueue` | the request queue with its worker, cleanup, callers, reloads and shutdown | instance of `SerialService` as its abstraction |
| `ModelPool` | the pool | |
| `PoolHistory` | the pool with a memory of who has been used, which the pool does not read | `ModelPool` |
| `NodeServer` | serving: queue, pool, wrappers, threads, streams, reloads | `ModelPool`, `SerialService` |
| `RouterBudget` | slots and hourly compute budget of API keys | |
| `Routing` | the whole router: daily tokens, choice of a node, conversations, nodes that come and go | `RouterBudget`, whose actions its actions contain |
| `TokenLedger` | token counting across restarts of nodes and gateway | |
| `GatewayRegistry` | tables and tokens under the gateway's handlers | |
| `Membership` | nodes, network and gateway together | `GatewayRegistry` |
| `Downloads` | downloads, their progress streams and model files across starts of the node | |
| `EventStreams` | the event streams of gateway and node with their slots | |
| `TokenBuckets` | what token buckets promise: they are always there and fill all the time | |
| `RateLimiter` | the token buckets as kept: made when asked, refilled when asked, dropped when idle | instance of `TokenBuckets` as its abstraction |
| `Accounts` | API keys and tunnels of signed-in users | |
| `*Proofs` | theorems about a module, or two: `NodeServerProofs` about `ModelPool` and `NodeServer`, `EdgeProofs` about `RateLimiter` and `EventStreams` | the modules, `TLAPS` |
| `MC*` | instances for TLC | the module |

### RequestQueue

An action is the code one task runs between two suspension points. The tasks
are the callers (`Submit`, `Refuse`, `CallerResumes`, `CallerTimeout`,
`CallerCancelled`), the worker (`WorkerIdles`, `GetItem`, `SkipItem`,
`StartItem`, `Finish` in its four forms), the cleanup (`CleanupDrop`), the
reloads (`BeginReload`, `DrainReturns`, `EndReload`) and the lifespan
(`Start`, `Stop`, `StopTimeout`, `StopReturns`). `worker = "holding"` is the
window in which `asyncio.wait_for` has an item that the worker has not seen:
there the item is in neither queue nor `processing_request`, and a
cancellation is swallowed. Timers are abstract: a running timer may fire.
Statistics counters are left out.

### ModelPool and NodeServer

Every pool operation is synchronous, hence one step. Clock readings are
replaced by the order they induce (`usedBefore`) and the dictionary's
iteration order by `insertedBefore`. `PoolHistory` adds `usedSince[m]`, the
models that have been used since `m` was; it knows the operations and not the
order, so that `InUseStays` compares what the pool evicts with what happened.
`NodeServer` composes the pool with the
queue, of which it uses the promise only (`SerialService`; that `RequestQueue`
keeps it is proved). A wrapper is a pair of a model and the number of its
load, so that a model loaded again has a new wrapper with a new lock. `phase`
follows a request through routing, waiting for the lock, generating, and, for
streams, the pauses between chunks in which the lock is held and no thread
runs; `threads` has the tasks whose executor thread runs, which may have
outlived the task. A request that finds no model may be forwarded to a peer:
whether there is one, and what it answers, is free.

### RouterBudget and Routing

The slot, the budget checks and the choice of a node form one step, since
nothing suspends while the lock is held. The answer of the node, its failure
and the cancellation of the client are separate steps; the charge comes with
the answer, in the hour of the answer. `Routing` adds to each step what the
rest of the code does in it: the daily budget is tested before the slot is
taken (`TurnAway`), the node is chosen among those that list the model
(`Listing`, `Fitting`), a conversation is remembered with its node
(`affinity`), a stream's tokens are metered when it ends (`StreamMetered`), and
a node that cannot be reached is deregistered (`NodeUnreachable`). The order
of the nodes depends on loads and chance, so any candidate may be taken. The
half hour after which a conversation is forgotten is the set `old`. `home`
observes where a conversation was last sent; nothing reads it.

The statements of the database may fail. `get_token_usage` then says 0, in the
handler's check and in the router's alike, so a request passes whatever its key
has used (`Route`); `unread` has these requests and `over[k]` what their answers
add. An answer whose use cannot be recorded is not metered (`Meter`). A list of
nodes that cannot be read is empty (`NoNode`).

### TokenLedger

`peak[n]` is the highest counter a node has had in a life: a report carries any
number up to it, as the node starts again from zero and reports overtake one
another. `row`, `total`, `cache` and `saved` are the row in `nodes`, the node's
share of the cumulative total, `_node_token_cache` and its persisted copy. A
handler is one step; the gateway may stop between handlers, and inside a
departure, after the tokens have been added and before the row is inactive.

Each statement of a handler may fail. A total that cannot be written loses what
was to be added; one that cannot be read counts as 0 and is written back with
the addition, so that every node's share is gone (`Added`). A handler whose
statement on the row fails ends there with the cache already changed (`Fails`);
a copy of the cache that cannot be written stays as it is (`Persist`); a start
of the gateway may fail to read the copy or the rows (`Hydrate`). Two observers
say what that did: `lost[n]` what the last step dropped of a share, `torn` the
nodes whose row and cache it may have parted. `CacheFollowsRows` and
`ShownNeverFalls` are about the other nodes, and a fall by what is in `lost` is
excused. One number stands for the counters: that of completion tokens, which
the code compares; prompt tokens are added along with them.

### GatewayRegistry and Membership

`GatewayRegistry` has one operator per handler and no next-state relation of
its own. `Membership` gives the handlers their callers: nodes whose registration,
heartbeats, events and farewell are messages in a set `net`, which loses and
reorders them. A request whose sender has stopped waiting may still be handled
if its kind is in `Late`. The quality gate decides freely among `Verdicts`.

`register()` is registered when the header of the answer says 200 (`Granted`)
and reads the token from the body after that (`ReadsToken`); the body may be
lost, garbled or late, which it swallows (`NoToken`), and the node may begin to
unregister between the two. `unread` observes the nodes whose last `register()`
could not read a token.

A handler has a variant in which statements fail: `DeregisterCut` leaves the row
or the models as they were, `HeartbeatCut` and `Updated` list some of the models
and may not write the row, `Refuse` and `Registering` may list a part, `Round`
may skip nodes or leave their models, and `Unpublish` may leave the stored token,
or an older one. `torn` observes the nodes that are inactive with models listed
for that reason.

Notifications by peers (`/api/nodes/notify`, which no node calls), addresses,
metrics and `is_active` are left out, and so are the endpoints by which a
signed-in user registers and removes a node with the same calls.

### Downloads

The manager's tasks are serialised by a lock: `waiting` has those at the lock
in order, its holder first. The code between two awaits is an action: `Search`,
`SearchFails`, `FoundOnDisk`, `Request`, `Respond` (the file is created),
`Chunk`, `ChunkCancelled`, `Received`, `Breaks`. A file is `"none"`,
`"partial"` or `"complete"`; `out` is the open file, which a deletion may
unlink meanwhile. `view[l]` is the status a progress stream has sent last and
then its queue, so that what a client will come to know is one sequence; a
queue without room is thrown out of `attached`. `Start`, `BootOpens`,
`BootReceives` and `BootSaves` are the download of `run <model>`, which checks
a stored hash; `Stop` ends the process anywhere, and `StopInSave` between the
truncation and the writing of the metadata file.

### EventStreams

One module for both servers, which differ in where a connection is added and
how a broadcast treats a full queue; `server` says which, for good. A
handler takes a slot (`Open`), its generator starts (`Run`) or never does
(`Lose`), sends and closes. `log[c]` has the events put into the queue of `c`
and `sent[c]` how many have left it. The dictionary of connections is the set
`table` with its order of insertion, `before`. The gateway broadcasts in one
step (`Emit`). A node's broadcast (`Begin`, `Put`, `PutLate`, `PutTimeout`,
`Finish`) suspends at a full queue (`at[b]`); `visited[b]` has those it has come
to, `members[b]` those there were at its start, and a dictionary that changed
its size in between ends it with an error, as Python does.

### RateLimiter

A check asks the buckets of `Path[r]` in order in one step, and stops at the
first that refuses, with the earlier ones charged. Tokens are counted in units
small enough that a tick adds a whole number. `since` and `used` observe a
window of time chosen freely, `promise` the time for which a refused client was
told to come back. That a bucket is not idle before it could be full again
(`Full[b] <= Rate[b] * Stale`) is an assumption on the constants which the
code's figures satisfy: the slowest bucket fills in the hour after which idle
ones are dropped. `TokenBuckets` has none of this bookkeeping: its `level[b]` is
what `RateLimiter` would find if it asked now (`Holds(b)`).

### Accounts

One user and one node, since everything made for a node bears its name. A
statement of the database does not suspend the gateway; the request's body
and the calls of Cloudflare do. `call[x]` is where a call is and what it holds
of what it has read. A list of keys that cannot be read is empty, so the call
passes the limit (`CountKeys`); `blind` has these calls and `extra` the active
keys they made. `excused` observes the tunnels for which the code had a
reason to lose track; `LeakHasCause` says there are no others.

## 3. Runs

All runs finish within about three minutes with two workers. Deadlock is not
checked where the system may rest: when all requests have been answered, when
the bounded number of requests, loads, registrations, starts, events or tokens
is used up, or when the node has shut down. `pool` checks it.

| Run | What it shows | Bounds |
| --- | --- | --- |
| `queue` | `NoStrandedWaiter`: an open future belongs to a request that is in the queue, in the worker's hand or being processed. `ShutdownReleasesAll`: no open future after `stop()`. `FairShare`: the limit per key holds for every interleaving of submissions and status changes. `AnswerMatchesRecord`: what a caller is told agrees with the record. `ImplementsService`: refinement of `SerialService`. `DrainIsQuiet`: no request starts while a reload drains. `EveryWaiterReleased`, `StopCompletes`: liveness | 3 requests of 2 keys, queue of 2, 1 per key, 1 reload at a time, any number of reloads one after the other |
| `pool` | `ActiveIsLoaded`, `CapacityBound`, `ActiveLeavesOnlyByEvict`; `InUseStays`: a model that makes room has not been used while at least all but one of the others that could have gone were; failing loads included | 5 models, capacity 4 |
| `node_serving` | `GlobalsFollowPool`, `ChatLabelIsTruthful`, `OneTaskPerWrapper` | 2 models, capacity 1 (which holds two, see below), a chat and a chat stream, 2 reloads, 2 loads of a model |
| `node_reload` | `ReloadEnds`: a reload ends although streams may never be read to their end | as above with a completion and one reload task |
| `routing` | `SlotsAreCounted`, `OverdraftBound` by the hour; `DailyOverdraftBound`: but for requests that passed because the use could not be read, a key's overdraft is what was under way; `FitsIfAnyDoes`: no request goes to a node too small for it while one fits; `StaysHome`: a conversation keeps its node | 4 requests (one a stream) of one key, 2 slots, 3 nodes (a small one, a large one, one that told no length), 2 models, 1 conversation, budget 3 and costs 1 and 2 by the hour, 1 token by the day, 2 hours |
| `ledger` | `CacheFollowsRows`: a restart stays detectable; `ShownNeverFalls`: what is shown for a node falls only by what a failing statement dropped; both but for nodes that a failing statement has left torn | 2 nodes with 2 and 1 tokens, shares up to 3 and 1; states that differ in `lost` only are one (`VIEW`): no action reads it, and the property reads it in the step that sets it |
| `membership` | `NothingListedWhenGone`: an inactive node offers no models, but for nodes left torn; `TokensAgree`: a registered node that could read the answer has the gateway's token; `ListingConverges`, `DepartureNoticed`: liveness | 1 node, 1 model, 2 registrations, 2 requests in flight beside heartbeats before an update or an arrival is sent |
| `downloads` | `PartialHasCause`, `ViewReachesStatus`, `VerifiedStart`, `EveryDownloadEnds` | 2 downloads of one file, a second file the process may be started with, 1 listener at a time with a queue of 2, 2 starts |
| `streams` | `SlotsAreStreams`, `GaplessAtGateway`, `CompleteReaches`, `EveryBroadcastEnds` | 3 clients at 2 addresses, room for 2, queues of 1, 3 events of the gateway, 2 broadcasts of a node |
| `limiter` | `WindowBound`, `RetryAfterHolds`, `ImplementsBuckets`: refinement of `TokenBuckets`, so that lazy refills, making and dropping of buckets admit nobody more and nobody less | 2 keys behind one address, 4 buckets of different capacity, rate and cost, stale after 3 ticks, cleanup every 2, 6 ticks |
| `accounts` | `KeysBounded`: but for the keys of calls that could not read the list, the limit is exceeded by the calls under way at most; `LeakHasCause` | 2 calls of each kind at a time, 3 keys with a limit of 1, 3 tunnels |
| `node_threads` | violated: a wrapper used by two threads | 2 requests, 1 reload |

Why the bounds are enough. In the queue, two requests of one key and one of
another, with room for two, reach both refusals, entries that are dead when
they are taken, and a hand-over with a third request behind; the safety
theorems cover every other size. Five models in a pool of four leave a choice
among three victims, whose uses differ by more than one. In `node_serving` the second load of a model gives it a
second wrapper while the first is still in use, and two reloads let one find
its model loaded by the other. In `routing` two slots are one more than the
slot whose request was checked, which is the case the overdraft bounds have to
add up, and the stream is one that holds no slot any more; the conversation
outgrows its small node and shrinks again. In the ledger two tokens make a
counter that fell without falling to zero, and a second node makes the
persisted cache say something about a node that was not written. Nodes are
independent in the registry (no handler reads the row of another), so one node
suffices for `membership`; two registrations make an old answer and a new one,
and two requests in flight let each kind overtake each other kind. Heartbeats
are not counted: any number can be under way. In `downloads` two downloads of
one file meet at the lock and on disk, the queue of two takes the pair of
events that `FoundOnDisk` sends when it is empty and not otherwise, and the
second start finds what the first life left. In `streams` one queue is full
while the next has room, and a connection may take the place of another, so
that the dictionary has its old size again. The limiter's clock reaches a
cleanup that drops a bucket and one that must not. Two calls of each kind let
a registration and two deregistrations cross. The safety properties
of all runs are proved for every size besides.

### Fairness

* `queue`: tasks that can resume do (`CallerResumes`, `SkipItem`, `StartItem`,
  `ProcessCancelled`, `WorkerExits`, `StopReturns`), because asyncio runs every
  ready task; the cleanup runs every ten seconds (`CleanupDrop`); the
  processing timeout and the two seconds of `stop()` are armed timers
  (`ProcessTimeout`, `StopTimeout`). Nothing is assumed of clients, processors,
  reloads or the caller's own timer of 180 seconds.
* `node_reload`: a drain returns after at most thirty seconds, a task whose lock
  is free resumes, a reload's own generation ends. Nothing is assumed of
  clients: a stream may be abandoned with its lock held.
* `downloads`: a task that is ready runs, and each of its requests ends, since
  the executor's search and the transfer have timeouts (`Work(d)`). Nothing is
  assumed of listeners, cancellations or the process, which may end.
* `streams`: a node's broadcast is a task whose puts time out
  (`Broadcasting(b)`). No client is assumed to read or to leave.
* `membership`: a running loop sends heartbeats (`SendHeartbeat`), since
  `register()`, which it awaits, ends within ten seconds; a heartbeat that is
  sent again and again is at some time handled without a failing statement
  (strong fairness, since each may be lost or fail); a message that has become
  untrue is lost or handled at some time; time passes and the monitor runs,
  and not all of its rounds fail (`Round(Stale, Stale)`). Registration is not assumed to
  succeed: the properties speak of nodes that are registered, or off, for good.

## 4. Proofs

The theorems hold for every value of the constants that the modules' named
assumptions admit.

* **RequestQueueProofs.** `TypeCorrect`, `WaiterNotStranded`,
  `ShutdownCorrect`, `RecordCorrect`, `FairShareCorrect`, `ServiceImplemented`
  and `DrainCorrect`. `NoStrandedWaiter` alone is not inductive. `Inv` adds that
  a request is in one place only (`OnePlace`), that a call that was not
  accepted has left no trace (`NotAccepted`), that a request marked as timed
  out has been answered (`DroppedIsAnswered`), that nothing unserved has a
  result (`Unserved`), and what the worker may do as the server stops
  (`Shutdown`). The refinement is proved step by step under `Inv`, and
  `DrainCorrect` under the assumption that there is one reload task, as in the
  run; without it the property is false. `NobodyIsStuck` says of every caller
  that waits who has still to close its future, and that `stop()` waits for a
  worker there is (`Watched`, `WorkerThere`).
* **NodeServerProofs**, about `ModelPool` and `NodeServer`. Of the pool:
  `PoolInvCorrect`, `ActiveCorrect`, `CapacityCorrect`, `InUseCorrect` and
  `ActiveStays`. `PoolInv`, the conjunction of types, `ActiveIsLoaded` and
  `CapacityBound`, is inductive; `ActiveStays` follows from what a victim is
  (`VictimFact`). `InUseCorrect` rests on an invariant of the pool with its
  history, `OrderRemembers`: a loaded model that comes after `m` in the pool's
  order has been used since `m` was. The victim is the first, so all other
  candidates have been. Of the node: every step is a step or a stutter of
  the pool and of the queue's promise (`NodeImplementsPool`,
  `NodeImplementsService`), so what is proved of them holds in the node.
  `NodeTypeCorrect`, `GlobalsCorrect`, `ChatLabelCorrect` and `OneTaskCorrect`
  follow from `NodeInv`. It adds to `PoolInv` and `GlobalsFollowPool` that a
  loaded model has been loaded (`LoadedOnce`), without which the global `llm`
  need not be a wrapper; that no two tasks hold one wrapper's lock, paused
  streams included (`Alone`), since `OneTaskPerWrapper` says nothing of two
  paused streams, which may both resume; and that a chat is labelled with the
  model of its wrapper from the choice of the wrapper to the end of its thread
  (`Labelled`), for which the globals must follow the pool
  (`LabelOfWrapper`). In every step at most one task moves (`OneMoves`).
  `VictimIsUnique`: `usedBefore` and `insertedBefore` stay total orders on the
  loaded models (`Ordered`), so `load_model` always finds the one model to
  evict, or evicts none, and `evict` the one successor. `ReloadNeverWaits`
  assumes one reload task, as `node_reload` does: no task has been given a
  wrapper that no load has made (`Known`), so the probe of a fresh wrapper finds
  its lock free (`FreshIsFree`).
* **RoutingProofs.** `ImplementsBudget` shows that every step of `Routing` is a
  step or a stutter of `RouterBudget`, so that `SlotsCorrect` and
  `OverdraftCorrect` hold of the whole router. Slots are counted by
  cardinality; `Overdraft` counts what is still to be charged: a key's use and
  `MaxCost` for each of its slots stay within the limit, but for one request
  that was within the budget when it was checked. `DailyOverdraftCorrect` is of
  the same kind (`Metered`), with the streams that hold no slot counted beside
  the slots, and what requests that passed unread add taken off (`over`). `FitCorrect` follows from what a choice is (`ChoicesFit`) and
  `HomeCorrect` from `HomeRemembered`: a conversation that is not old is
  remembered with the node of its last request.
* **TokenLedgerProofs.** `LedgerTypeCorrect`, `CacheCorrect` and
  `ShownCorrect`. Types and `CacheFollowsRows` are inductive together. Every
  handler is shown to be `Sound`, whichever of its statements fail: of other
  nodes it changes nothing, but for their shares of a total that could not be
  read, which are recorded as lost (`Grows`); it keeps the cache and the row
  together or leaves the node torn; and it adds to the total, or records as
  lost, at least what the row loses.
* **MembershipProofs.** `MembershipTypeCorrect`, `GoneIsNotListed` and
  `TokensCorrect`. `NothingListedWhenGone` is inductive with the types: every
  handler makes the node active, or empties its list, or leaves it torn by a
  failing statement (`HandlerIsSound`, `MonitorIsSound`), so it holds whatever
  arrives late. `TokensAgree` is not inductive, since it
  says nothing of what is under way. `TokenInv` adds that a registration or its
  answer belongs to the call that waits for it, and is the answer that has begun
  once the node is registered (`InTime`), that there is at most
  one (`OneAtATime`), that a token under way is the gateway's until its node
  unregisters (`GrantedHolds`), that a node waits only while it is not off, and
  for the header of an answer only while it runs
  (`Waiters`), and that a revocation is under way only while its sender shuts
  down (`Farewell`). `register()` returns in two ways, with a token and without
  one, which `ReturnKeepsTokens` treats together. `TokensCorrect` assumes `InPatience`: registrations and
  revocations are handled while their sender waits. Without it `InTime` and
  `Farewell` are false, and so is the property. `ListingStays` and `GoneStays`
  assume no such thing: once the gateway lists what the node has, or has a node
  that is off as inactive, and nothing to the contrary is under way, this stays
  so. They rest on what may enter the network (`NetGrows`).
* **DownloadsProofs.** `DownloadsTypeCorrect`, `PartialCorrect`, `ViewCorrect`
  and `VerifiedCorrect`. `PartialHasCause` needs `Quiet` (without a server there
  are no tasks), `Writer` (an open file belongs to the holder of the lock, which
  is downloading), and `FirstFiles` (what the first start may leave).
  `VerifiedStart` needs `Fetched`: a file fetched at the start is usable only
  when it is whole. `ViewReachesStatus` is inductive with `Follows`: a stream
  follows a download that there is; every change of a status is broadcast in
  the same step (`ViewBroadcast`). `LineCorrect`: the downloads
  that have not ended are those in line at the lock, each once, and only the
  first has started (`Line`).
* **EdgeProofs**, about `RateLimiter` and `EventStreams`. Of the limiter:
  `LimiterTypeCorrect`, `WindowCorrect`, `PromiseCorrect` and
  `BucketsImplemented`. The argument replaces a bucket's tokens by what it holds
  now (`Holds`: the refill that is due included), which refilling leaves alone
  (`RefilledIsHolds`) and which a bucket that is dropped has anyway: it is full.
  `WindowInv` and `PromiseInv` are linear in it. The refinement maps `level[b]`
  to it: a tick is `Fill`, a check is `Ask`, a cleanup a stutter.
  Of the streams: `StreamsTypeCorrect`, `SlotsOfStreamsCorrect`,
  `GaplessCorrect`, `ReachesCorrect` and `NeverWithoutNext`, from `StreamsInv`.
  It says that a gateway has no broadcasts that suspend (`NoCasts`), since a
  queue is filled by either kind but never by both; that a request that has not
  arrived is unknown everywhere (`Fresh`), so that an identifier enters the table
  once; that the node knows exactly the streams that run (`NodeKnows`); that any
  connections of the table have a first one (`HasFirst`), so that a broadcast
  always finds whom to come to next, which is `NeverWithoutNext`; and that a
  broadcast under way has reached everybody it has come to but those it gave up
  (`Reached`), of which `CompleteReaches` is the case at its end.
* **AccountsProofs.** `AccountsTypeCorrect`, `KeysCorrect` and `LeakCorrect`.
  `KeysInv` counts a call that awaits its body as a key to come, and leaves out
  the calls that could not read the list and the keys they made. `LeakHasCause`
  is inductive with `NamingAlone`: the tunnel that is being named is the one
  there is, and no row or other call knows it. `KeysCorrect` assumes that there
  is a call that creates keys.

The type invariants are proved and not checked by the runs. Every safety
property of a passing run, state or action, is a theorem, and so is every
refinement: of the queue's promise by the queue and by the node, of the pool by
the node, of the budget by the router, and of ideal buckets by the limiter.

Only model-checked is liveness, which is beyond the prover: that something
happens in the end, under the fairness of section 3. What can be proved of each
such property is that the system is never in a state from which nobody would
bring it about, or does not leave again the state it is to reach:

| Checked by a run | Proved for every size |
| --- | --- |
| `EveryWaiterReleased`, `StopCompletes` | `NobodyIsStuck` |
| `ReloadEnds` | `ReloadNeverWaits`, `VictimIsUnique` |
| `EveryDownloadEnds` | `LineCorrect` |
| `EveryBroadcastEnds` | `NeverWithoutNext` |
| `ListingConverges` | `ListingStays` |
| `DepartureNoticed` | `GoneStays` |

Neither checked nor proved is the node with the real queue in place of the
queue's promise: that the queue keeps its promise is proved of the queue by
itself (`ServiceImplemented`), and that the node asks no more of it, of the
node (`NodeImplementsService`).

## 5. What the code does otherwise than it says

One run shows a disagreement between the code and what a comment of the
repository says; `PROJECT.json` quotes the lines.

* `node_threads`: `llm_wrapper.py` calls `generate_chat_safe` thread-safe. The
  lock is an asyncio lock, held by the task. When the processing timeout
  cancels the task, the lock is free and the thread goes on; the next request
  generates on the same `Llama` object.

Others were met while modelling and are visible in the modules, without a run:

* Statements of the database that fail are swallowed, and what they guard is
  open meanwhile. A key whose use cannot be read is over no daily budget
  (`Routing`, `Route`), and a list of keys that cannot be read is under every
  limit (`Accounts`, `CountKeys`); the properties leave such requests and keys
  aside, since there is no bound for them. A cumulative total that cannot be
  read is overwritten by the next addition (`TokenLedger`, `Added`). A departure
  whose statement on the row fails has added tokens that the active row still
  shows, and forgotten the counter that would tell the next restart
  (`TokenLedger`, `Leave`); one whose eviction fails leaves models listed under
  an inactive row, which a heartbeat with an empty pool offers again
  (`GatewayRegistry`, `DeregisterCut`).
* A node is registered before it has read its token, and stays so when the body
  of the answer is lost, garbled or late: until it registers again, it checks
  requests with an old token or with none (`Membership`, `NoToken`).
* A completion that names a loaded model other than the active one is
  generated by the global `llm` and labelled with the name it asked for
  (`NodeServer`). Chats are right (`ChatLabelIsTruthful`).
* The branch for nodes that do not report the split of tokens also applies to
  a restarted node that does, after restart detection has already counted the
  same tokens (`TokenLedger`, `LegacyAdds`).
* An event after a refusal by the quality gate makes the refused node active,
  and heartbeats do not say that a pool is empty: only an event does, and it
  may be lost (`Membership`).
* The worker looks at `reloading` at the top of its loop only, so a request may
  start during a reload if the worker was already waiting for one
  (`RequestQueue`, `GetItem` has no test of `reloading`).
* A drain ends while a stream is generated, because the queue is done with a
  stream when its response object exists (`NodeServer`, `OpenStream`).
* With `max_models = 1` the pool holds two models after its first load
  (`CapacityBound` has the second disjunct for it).
* A key may overdraw its hourly and its daily budget, by what `OverdraftBound`
  and `DailyOverdraftBound` say. Its slot is returned when a stream begins, so
  streams are not among the "max concurrent requests per API key" of the
  README (`Routing`, `BeginsOrFails`).
* The router's "falling back to best available" for a request that no node is
  large enough for takes the node the strategy gives, which need not be the
  largest (`Routing`, `Fitting`).
* A download that finds a file at its path takes it for whole, also when it is
  what a failed one left (`Downloads`, `FoundOnDisk`); one whose file is
  deleted while it is written completes without a file (`Received`).
* A node's broadcast of an event ends with an error, and the rest of the
  connections miss the event, when a connection comes or goes while it waits
  for a full queue (`EventStreams`, `Finish`).
* The slot of a stream whose client leaves before the response starts is lost
  for good (`EventStreams`, `Lose`).
* A bucket admits what it holds and what it gains meanwhile, so up to twice a
  limit per hour in an hour (`RateLimiter`, `WindowBound`).
* A dictionary of connections that lost one and gained another while a
  node's broadcast waited has its old size, and the iteration goes on
  (`EventStreams`, `Resized`); newer CPython may raise an error there too, which
  the properties allow for as they do for a changed size.
* Calls of `create_api_key` under way at the same time may exceed the limit of
  an account (`Accounts`, `KeysBounded`). A tunnel that leaked keeps its name, so
  that later registrations of the node get none.
* `/api/models` strips the URLs the nodes' peer list needs, so `select_node`
  finds no peer; `NodeServer` leaves open whether there is one.
* A registration that the gateway handles after its sender has given up
  changes the gateway's token for good; `TokensAgree` is stated for
  registrations that are handled while their sender waits, or not at all.
* Prompt tokens of a node that has not completed a single token are not seen
  by restart detection, which compares completion tokens.

## 6. Not modelled, and why

* Pure functions: request validation, the thresholds of the quality gate
  (`Membership` chooses its verdict freely), context sizes and file headers.
* Reports: metrics, the heartbeat manager's timestamps, the event publisher,
  which is never constructed.
* Input and output: discovery of the host's addresses and ports, web pages,
  installers and tools.
* The counter of concurrent requests in the rate limiter (`acquire_concurrent`
  has no caller) and the nodes' list of peers, which is always empty.
* A restart of the gateway in `Membership`: it would read the tokens from their
  column, where a failing statement may have left an older one. `TokenLedger`
  has the restarts.
* Sessions of signed-in users, which are single statements of the database, and
  the endpoints by which they list their own nodes with the calls `Membership`
  models.
* The client library, which keeps no state that several actors share.
* The wording and payload of events, progress figures, and prompts.

`PROJECT.json` gives the reason for every component.

## 7. Plan

The order puts first what the rest of the system stands on.

1. Queue, its promise, and proofs. Done.
2. Pool and serving, and proofs. Done.
3. Router limits, the choice of a node, and proofs. Done.
4. Token ledger, registry and membership, and proofs. Done.
5. Downloads and files, and proofs. Done.
6. Event streams, and proofs. Done.
7. Rate limiter, and proofs. Done.
8. Accounts and tunnels, and proofs. Done.
9. Next: the node composed with the real queue, whose shutdown and reloads
   `NodeServer` leaves out.
