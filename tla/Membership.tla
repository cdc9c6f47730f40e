----------------------------- MODULE Membership -----------------------------
(***************************************************************************)
(* Nodes that join, serve, change their models and leave, and the gateway   *)
(* that lists them: inference_node/gateway_client.py and the shutdown of     *)
(* inference_node/server.py, composed with GatewayRegistry over HTTP.        *)
(*                                                                         *)
(* A request may be lost, overtaken, or handled after its sender has given   *)
(* up waiting (the kinds in Late).  Events are sent by tasks of their own,   *)
(* heartbeats and registrations by the heartbeat loop.  The n-th            *)
(* registration of a node is answered with token n.  The header of an answer *)
(* arrives before its body, which may fail to.                              *)
(***************************************************************************)
EXTENDS GatewayRegistry

CONSTANTS
  Pools,        \* the sets of models a node may have loaded
  Verdicts,     \* what the performance gate may say: "pass", "refuse"
  Late,         \* kinds of request that outlive their sender's patience
  MaxTries,     \* bound on the registrations of a node
  MaxInFlight   \* bound on the requests in flight, heartbeats apart

VARIABLES
  state,       \* state[n]: "off", "up", "leaving", "unregistering"
  registered,  \* GatewayClient.registered
  waiting,     \* waiting[n]: register() waits for the answer, or for its body
  tries,       \* tries[n]: how often n has called register()
  held,        \* held[n]: the token the node checks requests with, 0 for none
  unread,      \* observer: nodes whose last register() could not read the token
  pool,        \* pool[n]: the models loaded
  net          \* requests and answers in flight

nodeVars == <<state, registered, waiting, tries, held, unread, pool>>
vars     == <<row, silent, listed, token, torn, state, registered, waiting, tries,
              held, unread, pool, net>>

Requests == {"publish", "joined", "updated", "heartbeat", "left", "unpublish"}
Answers  == {"granted", "refused"}

ASSUME MembershipAssumption ==
  /\ Pools \subseteq SUBSET Models /\ {} \in Pools
  /\ Verdicts \subseteq {"pass", "refuse"} /\ Verdicts # {}
  /\ Late \subseteq Requests
  /\ MaxTries \in Nat /\ MaxInFlight \in Nat

Messages == [node : Nodes, kind : Requests \cup Answers,
             pool : Pools, try : Nat]

\* Only a registration is told apart from the ones before.
Message(n, k) ==
  [node |-> n, kind |-> k,
   pool |-> IF k \in {"left", "unpublish"} THEN {} ELSE pool[n],
   try  |-> IF k = "publish" THEN tries'[n] ELSE 0]

MembershipTypeOK ==
  /\ RegistryTypeOK
  /\ state \in [Nodes -> {"off", "up", "leaving", "unregistering"}]
  /\ registered \in [Nodes -> BOOLEAN] /\ waiting \in [Nodes -> BOOLEAN]
  /\ tries \in [Nodes -> Nat] /\ held \in [Nodes -> Nat]
  /\ unread \subseteq Nodes
  /\ pool \in [Nodes -> Pools]
  /\ net \subseteq Messages

MembershipInit ==
  /\ RegistryInit
  /\ state = [n \in Nodes |-> "off"]
  /\ registered = [n \in Nodes |-> FALSE] /\ waiting = registered
  /\ tries = [n \in Nodes |-> 0] /\ held = tries
  /\ unread = {}
  /\ pool = [n \in Nodes |-> {}]
  /\ net = {}

Running(n) == state[n] \in {"up", "leaving"}
Room == Cardinality({m \in net : m.kind # "heartbeat"}) < MaxInFlight

Send(n, k) == net' = net \cup {Message(n, k)}

\* The sender waits no longer for these; what is not Late is not handled.
Without(n, kinds) ==
  {m \in net : ~(m.node = n /\ m.kind \in kinds /\ m.kind \notin Late)}

-----------------------------------------------------------------------------
(* The node.                                                               *)

Start(n) ==
  /\ state[n] = "off"
  /\ state' = [state EXCEPT ![n] = "up"]
  /\ \E models \in Pools : pool' = [pool EXCEPT ![n] = models]
  /\ UNCHANGED <<registryVars, registered, waiting, tries, held, unread, net>>

\* Models are loaded and evicted.
ChangePool(n) ==
  /\ state[n] = "up"
  /\ \E models \in Pools \ {pool[n]} : pool' = [pool EXCEPT ![n] = models]
  /\ UNCHANGED <<registryVars, state, registered, waiting, tries, held, unread, net>>

\* register(), at the start, with a heartbeat while not registered, and after
\* a sleep of the machine, then also if registered or refused for good.
Register(n) ==
  /\ Running(n) /\ ~waiting[n] /\ tries[n] < MaxTries
  /\ tries' = [tries EXCEPT ![n] = @ + 1]
  /\ waiting' = [waiting EXCEPT ![n] = TRUE]
  /\ registered' = [registered EXCEPT ![n] = FALSE]
  /\ unread' = unread \ {n}
  /\ Send(n, "publish")
  /\ UNCHANGED <<registryVars, state, held, pool>>

\* The header says 200: the node is registered before it reads the token.
Granted(n, m) ==
  /\ m.kind = "granted" /\ waiting[n] /\ ~registered[n]
  /\ registered' = [registered EXCEPT ![n] = TRUE]
  /\ UNCHANGED <<registryVars, state, waiting, tries, held, unread, pool, net>>

\* register() returns; the heartbeat loop sends node_joined.
Returns(n, left) ==
  /\ waiting' = [waiting EXCEPT ![n] = FALSE]
  /\ \/ net' = left
     \/ Room /\ net' = left \cup {Message(n, "joined")}
  /\ UNCHANGED <<registryVars, state, registered, tries, pool>>

\* Mutant: a token once received is kept.
KeepsToken(n, m) ==
  /\ m.kind = "granted" /\ waiting[n] /\ registered[n]
  /\ held' = [held EXCEPT ![n] = IF @ = 0 THEN m.try ELSE @]
  /\ unread' = unread \ {n}
  /\ Returns(n, net \ {m})

\* The body says the token.
ReadsToken(n, m) ==
  /\ m.kind = "granted" /\ waiting[n] /\ registered[n]
  /\ held' = [held EXCEPT ![n] = m.try]
  /\ unread' = unread \ {n}
  /\ Returns(n, net \ {m})

Refused(n, m) ==
  /\ m.kind = "refused" /\ waiting[n]
  /\ waiting' = [waiting EXCEPT ![n] = FALSE]
  /\ net' = net \ {m}
  /\ UNCHANGED <<registryVars, state, registered, tries, held, unread, pool>>

\* The body is lost, garbled or late: register() succeeds all the same.
NoToken(n) ==
  /\ waiting[n] /\ registered[n]
  /\ unread' = unread \cup {n}
  /\ UNCHANGED held
  /\ Returns(n, Without(n, Answers))

\* The ten seconds of register() are over before an answer begins.
TimesOut(n) ==
  /\ waiting[n] /\ ~registered[n]
  /\ waiting' = [waiting EXCEPT ![n] = FALSE]
  /\ net' = Without(n, Answers \cup {"publish"})
  /\ UNCHANGED <<registryVars, state, registered, tries, held, unread, pool>>

\* The loop runs on during the shutdown and may send one more.
SendHeartbeat(n) ==
  /\ state[n] # "off" /\ registered[n] /\ ~waiting[n]
  /\ UNCHANGED <<registryVars, nodeVars>>
  /\ Send(n, "heartbeat")

\* After a change of the pool, a switch, a metrics update: registered or not.
SendUpdated(n) ==
  /\ state[n] # "off" /\ Room
  /\ UNCHANGED <<registryVars, nodeVars>>
  /\ Send(n, "updated")

\* The shutdown of lifespan: the departure event, while the loop goes on.
Depart(n) ==
  /\ state[n] = "up"
  /\ state' = [state EXCEPT ![n] = "leaving"]
  /\ UNCHANGED <<registryVars, registered, waiting, tries, held, unread, pool>>
  /\ Send(n, "left")

\* unregister(), which does nothing unless registered; then it repeats.
Unregister(n) ==
  /\ state[n] \in {"leaving", "unregistering"} /\ registered[n]
  /\ state' = [state EXCEPT ![n] = "unregistering"]
  /\ UNCHANGED <<registryVars, registered, waiting, tries, held, unread, pool>>
  /\ Send(n, "unpublish")

\* The process ends, after unregister() or before.
Stop(n) ==
  /\ state[n] # "off"
  /\ state' = [state EXCEPT ![n] = "off"]
  /\ registered' = [registered EXCEPT ![n] = FALSE]
  /\ waiting' = [waiting EXCEPT ![n] = FALSE]
  /\ held' = [held EXCEPT ![n] = 0]
  /\ unread' = unread \ {n}
  /\ pool' = [pool EXCEPT ![n] = {}]
  /\ net' = Without(n, Requests \cup Answers)
  /\ UNCHANGED <<registryVars, tries>>

-----------------------------------------------------------------------------
(* The network and the gateway.                                            *)

Lose(m) ==
  /\ net' = net \ {m}
  /\ UNCHANGED <<registryVars, nodeVars>>

\* An answer reaches register() if it still waits for it.
Answer(m, k) ==
  net' = (net \ {m}) \cup
           IF waiting[m.node] /\ m.try = tries[m.node]
             THEN {[m EXCEPT !.kind = k]} ELSE {}

\* The last two: an error, before the row was written or after; the rate limit
\* and the hardware gate are as the first of these.
HandlePublish(m) ==
  /\ m.kind = "publish"
  /\ \/ /\ "pass" \in Verdicts
        /\ Publish(m.node, m.pool, m.try) /\ Answer(m, "granted")
     \/ /\ "refuse" \in Verdicts
        /\ Refuse(m.node, m.pool) /\ Answer(m, "refused")
     \/ UNCHANGED registryVars /\ Answer(m, "refused")
     \/ Joined(m.node, m.pool) /\ Answer(m, "refused")
  /\ UNCHANGED nodeVars

HandleJoined(m) ==
  /\ m.kind = "joined"
  /\ \/ "pass" \in Verdicts /\ Joined(m.node, m.pool)
     \/ "refuse" \in Verdicts /\ Refuse(m.node, m.pool)
  /\ net' = net \ {m}
  /\ UNCHANGED nodeVars

HandleOther(m) ==
  /\ \/ m.kind = "updated" /\ Updated(m.node, m.pool)
     \/ m.kind = "heartbeat" /\ HeartbeatCut(m.node, m.pool)
     \/ m.kind = "left" /\ Left(m.node)
     \/ /\ m.kind = "unpublish"
        /\ \E kept \in 0..tries[m.node] : Unpublish(m.node, kept)
  /\ net' = net \ {m}
  /\ UNCHANGED nodeVars

HandleHeartbeat(m) ==
  /\ m.kind = "heartbeat" /\ Heartbeat(m.node, m.pool)
  /\ net' = net \ {m}
  /\ UNCHANGED nodeVars

Handle(m) ==
  HandlePublish(m) \/ HandleJoined(m) \/ HandleOther(m) \/ HandleHeartbeat(m)

GatewayStep ==
  /\ \/ \E n \in Nodes : Unreachable(n) \/ GoesSilent(n)
     \/ Monitor
  /\ UNCHANGED <<nodeVars, net>>

-----------------------------------------------------------------------------

NodeStep(n) ==
  \/ Start(n) \/ ChangePool(n) \/ Register(n) \/ NoToken(n) \/ TimesOut(n)
  \/ SendHeartbeat(n) \/ SendUpdated(n) \/ Depart(n) \/ Unregister(n) \/ Stop(n)

MembershipNext ==
  \/ \E n \in Nodes : NodeStep(n)
  \/ \E m \in net : \/ Lose(m) \/ Handle(m)
                   \/ Granted(m.node, m) \/ ReadsToken(m.node, m) \/ Refused(m.node, m)
  \/ GatewayStep

MembershipSpec == MembershipInit /\ [][MembershipNext]_vars

Outdated(m) == m.pool # pool[m.node]

\* register() ends in time; a running loop sends its heartbeats, and not all of
\* them are lost or handled with failing statements; a request that says what is
\* no longer so does not stay under way for ever; the gateway notices silence,
\* and not every round of its monitor fails.
MembershipFairness ==
  /\ WF_vars(Round(Stale, Stale) /\ UNCHANGED <<nodeVars, net>>)
  /\ \A n \in Nodes :
       /\ WF_vars(GoesSilent(n) /\ UNCHANGED <<nodeVars, net>>)
       /\ WF_vars(NoToken(n) \/ \E m \in net : m.node = n /\ ReadsToken(n, m))
       /\ WF_vars(SendHeartbeat(n))
       /\ SF_vars(\E m \in net : m.node = n /\ ~Outdated(m) /\ HandleHeartbeat(m))
       /\ WF_vars(\E m \in net : m.node = n /\ Outdated(m) /\ (Lose(m) \/ Handle(m)))

FairMembership == MembershipSpec /\ MembershipFairness

-----------------------------------------------------------------------------
(* Properties.                                                             *)

\* Whatever arrives in whatever order, a node that is inactive for the gateway
\* offers no models; unless its last handler failed to evict them, or to write
\* that it is active.
NothingListedWhenGone ==
  \A n \in Nodes \ torn : row[n] = "inactive" => listed[n] = {}

\* A node that thinks it is registered, and has read the answer, holds the token
\* the gateway uses for it, through lost answers, repeated registrations and
\* restarts; requires that no registration and no departure is handled late.
TokensAgree ==
  \A n \in Nodes \ unread :
    Running(n) /\ registered[n] /\ ~waiting[n] => held[n] = token[n]

Serving(n, models) == state[n] = "up" /\ registered[n] /\ pool[n] = models

\* While a node serves the same models, the gateway comes to list no others,
\* and lists these again and again however often it loses sight of the node.
ListingConverges ==
  \A n \in Nodes, models \in Pools \ {{}} :
    <>[]Serving(n, models)
      => <>[](listed[n] \subseteq models) /\ []<>(row[n] = "active" /\ listed[n] = models)

\* A node that is gone, told or not, is inactive in the end, although what it
\* sent may still arrive.
DepartureNoticed ==
  \A n \in Nodes : <>[](state[n] = "off") => <>[](row[n] # "active")
=============================================================================
