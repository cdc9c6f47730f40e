---------------------------- MODULE EventStreams ----------------------------
(***************************************************************************)
(* The streams at /events/network of a server, which is the gateway         *)
(* (gateway/server.py with class GatewaySSEManager) or a node               *)
(* (inference_node/server.py with class SSEHandler of                       *)
(* common/sse_handler.py), and the stream limits of common/rate_limiter.py. *)
(*                                                                         *)
(* A handler takes a slot and returns a response; the response's generator  *)
(* runs later, or never when the client has already left, and then its       *)
(* finally clause does not run either.  The gateway broadcasts without       *)
(* suspending and forgets a connection whose queue is full.  A node's        *)
(* broadcast waits up to a second for each queue, while connections come     *)
(* and go and other broadcasts run.  Dictionaries keep the order of          *)
(* insertion; that CPython may compact one in which an entry was replaced    *)
(* during an iteration is left out.                                          *)
(***************************************************************************)
EXTENDS Naturals, Sequences, FiniteSets, SequencesExt

CONSTANTS
  Streams,     \* requests for /events/network
  Ips, IpOf,   \* IpOf[c]: the client's address
  MaxStreams,  \* sse_global
  MaxPerIp,    \* sse_per_ip
  Cap,         \* maxsize of a connection's queue
  None,        \* no stream
  MaxEvents,   \* bound on the gateway's events
  Broadcasts   \* calls of SSEHandler.broadcast_event

ASSUME StreamsAssumption ==
  /\ IsFiniteSet(Streams) /\ None \notin Streams
  /\ IpOf \in [Streams -> Ips]
  /\ MaxStreams \in Nat /\ MaxPerIp \in Nat /\ MaxEvents \in Nat
  /\ Cap \in Nat \ {0}

VARIABLES
  server,   \* "gateway" or "node", for good
  phase,    \* phase[c]: the request and its generator
  slots,    \* _sse_global
  ipSlots,  \* ipSlots[i]: _sse_per_ip
  table,    \* the connections of the manager
  before,   \* <<c, d>>: c was inserted in the table before d
  log,      \* log[c]: the events put into the queue of c so far
  sent,     \* sent[c]: how many of them c has sent
  emitted,  \* events the gateway has broadcast
  joined,   \* joined[c]: emitted when the gateway added c
  cast,     \* cast[b]: where broadcast b of a node is
  members,  \* members[b]: the connections there were at its start
  visited,  \* visited[b]: those it has come to
  at,       \* at[b]: the one whose queue it waits for
  full      \* full[b]: those it has given up for a full queue

slotVars == <<slots, ipSlots>>
tableVars == <<table, before>>
iterVars == <<members, visited, full>>
castVars == <<cast, at, iterVars>>
streamVars ==
  <<server, phase, slotVars, tableVars, log, sent, emitted, joined, castVars>>

StreamsTypeOK ==
  /\ server \in {"gateway", "node"}
  /\ phase \in [Streams -> {"idle", "opened", "running", "lost", "closed"}]
  /\ slots \in Nat /\ ipSlots \in [Ips -> Nat]
  /\ table \subseteq Streams /\ before \subseteq table \X table
  /\ sent \in [Streams -> Nat]
  /\ log \in [Streams -> Seq(Nat \cup Broadcasts)]
  /\ \A c \in Streams : Len(log[c]) - sent[c] \in 0..Cap
  /\ emitted \in Nat /\ joined \in [Streams -> Nat]
  /\ cast \in [Broadcasts -> {"idle", "next", "blocked", "done", "aborted"}]
  /\ at \in [Broadcasts -> Streams \cup {None}]
  /\ members \in [Broadcasts -> SUBSET Streams]
  /\ visited \in [Broadcasts -> SUBSET Streams]
  /\ full \in [Broadcasts -> SUBSET Streams]

StreamsInit ==
  /\ server \in {"gateway", "node"}
  /\ phase = [c \in Streams |-> "idle"]
  /\ slots = 0 /\ ipSlots = [i \in Ips |-> 0]
  /\ table = {} /\ before = {}
  /\ log = [c \in Streams |-> <<>>]
  /\ sent = [c \in Streams |-> 0]
  /\ emitted = 0 /\ joined = [c \in Streams |-> 0]
  /\ cast = [b \in Broadcasts |-> "idle"] /\ at = [b \in Broadcasts |-> None]
  /\ members = [b \in Broadcasts |-> {}] /\ visited = [b \in Broadcasts |-> {}]
  /\ full = [b \in Broadcasts |-> {}]

-----------------------------------------------------------------------------
(* The dictionary of connections, in the order of insertion.               *)

Insert(c) == table' = table \cup {c} /\ before' = before \cup (table \X {c})
Keep(S)   == table' = S /\ before' = before \cap (S \X S)

-----------------------------------------------------------------------------
(* Requests, slots and generators.                                         *)

\* check_sse_connection
SlotFree(c) == slots < MaxStreams /\ ipSlots[IpOf[c]] < MaxPerIp

\* The gateway's handler adds the connection, the node's generator does.
Adds(c) == server = IF phase[c] = "idle" THEN "gateway" ELSE "node"

\* The handler takes a slot.
Open(c) ==
  /\ phase[c] = "idle" /\ SlotFree(c)
  /\ phase' = [phase EXCEPT ![c] = "opened"]
  /\ slots' = slots + 1
  /\ ipSlots' = [ipSlots EXCEPT ![IpOf[c]] = @ + 1]
  /\ IF Adds(c) THEN Insert(c) ELSE UNCHANGED tableVars
  /\ joined' = [joined EXCEPT ![c] = emitted]
  /\ UNCHANGED <<server, log, sent, emitted, castVars>>

\* The generator runs for the first time.
Run(c) ==
  /\ phase[c] = "opened"
  /\ phase' = [phase EXCEPT ![c] = "running"]
  /\ IF Adds(c) THEN Insert(c) ELSE UNCHANGED tableVars
  /\ UNCHANGED <<server, slotVars, log, sent, emitted, joined, castVars>>

\* The client leaves before that: nothing is cleaned up.
Lose(c) ==
  /\ phase[c] = "opened"
  /\ phase' = [phase EXCEPT ![c] = "lost"]
  /\ UNCHANGED <<server, slotVars, tableVars, log, sent, emitted, joined, castVars>>

Send(c) ==
  /\ phase[c] = "running" /\ sent[c] < Len(log[c])
  /\ sent' = [sent EXCEPT ![c] = @ + 1]
  /\ UNCHANGED <<server, phase, slotVars, tableVars, log, emitted, joined, castVars>>

OneLess(n) == IF n > 0 THEN n - 1 ELSE 0

\* Mutant: only a connection that is still known gives back its slot.
CloseIfKnown(c) ==
  /\ phase[c] = "running"
  /\ phase' = [phase EXCEPT ![c] = "closed"]
  /\ IF c \in table
     THEN /\ slots' = OneLess(slots)
          /\ ipSlots' = [ipSlots EXCEPT ![IpOf[c]] = OneLess(@)]
     ELSE UNCHANGED slotVars
  /\ Keep(table \ {c})
  /\ UNCHANGED <<server, log, sent, emitted, joined, castVars>>

\* The finally clause, with track_sse_close: the client has left, or the node
\* shuts down.
Close(c) ==
  /\ phase[c] = "running"
  /\ phase' = [phase EXCEPT ![c] = "closed"]
  /\ slots' = OneLess(slots)
  /\ ipSlots' = [ipSlots EXCEPT ![IpOf[c]] = OneLess(@)]
  /\ Keep(table \ {c})
  /\ UNCHANGED <<server, log, sent, emitted, joined, castVars>>

-----------------------------------------------------------------------------
(* Broadcasts.                                                             *)

Room(c) == Len(log[c]) - sent[c] < Cap

\* Mutant: a full queue loses the event and stays connected.
KeepsAll == table

WithRoom == {c \in table : Room(c)}

\* GatewaySSEManager.broadcast
Emit ==
  /\ server = "gateway" /\ emitted < MaxEvents
  /\ emitted' = emitted + 1
  /\ log' = [c \in Streams |->
               IF c \in table /\ Room(c) THEN Append(log[c], emitted') ELSE log[c]]
  /\ Keep(WithRoom)
  /\ UNCHANGED <<server, phase, slotVars, sent, joined, castVars>>

nodeVars == <<server, phase, slotVars, tableVars, sent, emitted, joined>>

Goes(b, state) == cast' = [cast EXCEPT ![b] = state]

\* SSEHandler.broadcast_event is called.
Begin(b) ==
  /\ server = "node" /\ cast[b] = "idle"
  /\ Goes(b, IF table = {} THEN "done" ELSE "next")
  /\ members' = [members EXCEPT ![b] = table]
  /\ UNCHANGED <<nodeVars, log, at, visited, full>>

Unvisited(b) == table \ visited[b]

\* The iteration comes to the connection that was inserted first.
ComesTo(b, c) ==
  c \in Unvisited(b) /\ \A d \in Unvisited(b) \ {c} : <<c, d>> \in before

\* A dictionary that has changed its size ends the iteration with an error.
\* (Newer versions of Python may also notice other keys with the size
\* unchanged; here the iteration goes on.)
Resized(b) == Cardinality(table) # Cardinality(members[b])

\* A queue with room takes the event; for a full one the broadcast waits.
PutIn(b, c) == log' = [log EXCEPT ![c] = Append(@, b)]

Put(b) ==
  /\ cast[b] = "next" /\ ~Resized(b)
  /\ \E c \in Streams :
       /\ ComesTo(b, c)
       /\ visited' = [visited EXCEPT ![b] = @ \cup {c}]
       /\ IF Room(c) THEN PutIn(b, c) /\ UNCHANGED <<cast, at>>
          ELSE Goes(b, "blocked") /\ at' = [at EXCEPT ![b] = c] /\ UNCHANGED log
  /\ UNCHANGED <<nodeVars, members, full>>

Resume(b) == Goes(b, "next") /\ at' = [at EXCEPT ![b] = None]

PutLate(b) ==
  /\ cast[b] = "blocked" /\ Room(at[b])
  /\ PutIn(b, at[b])
  /\ Resume(b)
  /\ UNCHANGED <<nodeVars, iterVars>>

\* The iteration's variables are gone with it.
End(b, state) ==
  /\ Goes(b, state)
  /\ members' = [members EXCEPT ![b] = {}]
  /\ visited' = [visited EXCEPT ![b] = {}]
  /\ full' = [full EXCEPT ![b] = {}]

\* Mutant: the timeout of one queue ends the broadcast.
TimeoutEnds(b) ==
  /\ cast[b] = "blocked"
  /\ End(b, "done")
  /\ at' = [at EXCEPT ![b] = None]
  /\ UNCHANGED <<nodeVars, log>>

\* Mutant: the queue is waited for without a timeout.
NeverTimesOut(b) == FALSE /\ UNCHANGED streamVars

\* wait_for gives up: the connection misses the event and stays.
PutTimeout(b) ==
  /\ cast[b] = "blocked"
  /\ Resume(b)
  /\ full' = [full EXCEPT ![b] = @ \cup {at[b]}]
  /\ UNCHANGED <<nodeVars, log, members, visited>>

\* The iteration is over, or fails.  No listeners are ever registered.
Finish(b) ==
  /\ cast[b] = "next"
  /\ Resized(b) \/ Unvisited(b) = {}
  /\ End(b, IF Resized(b) THEN "aborted" ELSE "done")
  /\ UNCHANGED <<nodeVars, log, at>>

Broadcasting(b) == Put(b) \/ PutLate(b) \/ PutTimeout(b) \/ Finish(b)

StreamsNext ==
  \/ \E c \in Streams : Open(c) \/ Run(c) \/ Lose(c) \/ Send(c) \/ Close(c)
  \/ Emit
  \/ \E b \in Broadcasts : Begin(b) \/ Broadcasting(b)

StreamsSpec == StreamsInit /\ [][StreamsNext]_streamVars

\* A broadcast is a task whose puts have a timeout.  No client is assumed to
\* read or to leave.
FairStreams == StreamsSpec /\ \A b \in Broadcasts : WF_streamVars(Broadcasting(b))

-----------------------------------------------------------------------------
(* Properties.                                                             *)

Holding == {c \in Streams : phase[c] \in {"opened", "running", "lost"}}

\* A server counts the streams that hold a slot, and those only: a stream
\* frees its slot once, also when the gateway has forgotten its connection.
\* What is lost for ever are the slots of clients that leave too early.
SlotsAreStreams ==
  /\ slots = Cardinality(Holding)
  /\ \A i \in Ips : ipSlots[i] = Cardinality({c \in Holding : IpOf[c] = i})

\* Every event since a connection was made is in the queue of a connection the
\* gateway knows; one it has forgotten has a prefix of them without a gap.
GaplessAtGateway ==
  server = "gateway" =>
    \A c \in Streams :
      /\ \A k \in DOMAIN log[c] : log[c][k] = joined[c] + k
      /\ c \in table => joined[c] + Len(log[c]) = emitted

\* A broadcast that is not aborted has reached every connection that was there
\* all the time, but for those whose queue stayed full: a slow reader costs
\* the others nothing.
CompleteReaches ==
  [][\A b \in Broadcasts : cast[b] # "done" /\ cast'[b] = "done" =>
       \A c \in members[b] :
         phase[c] = "running" => c \in full[b] \/ b \in ToSet(log[c])]_streamVars

\* A node's broadcast ends although nobody reads.
EveryBroadcastEnds ==
  \A b \in Broadcasts :
    cast[b] = "next" ~> cast[b] \in {"done", "aborted"}
=============================================================================
