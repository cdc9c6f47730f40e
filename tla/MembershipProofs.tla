--------------------------- MODULE MembershipProofs ---------------------------
(***************************************************************************)
(* What holds of Membership for any nodes, models and numbers of messages:   *)
(* a node that is gone for the gateway is not listed, and a node that is     *)
(* registered and has read the answer has the token of the gateway.         *)
(*                                                                         *)
(* TokensAgree is about two tables and says nothing of what is under way.    *)
(* TokenInv does: a registration in flight, or its answer, belongs to the    *)
(* call that waits for it, there is one at most, a token that is under way  *)
(* is the gateway's, and a revocation is under way only while its sender     *)
(* shuts down.                                                              *)
(*                                                                         *)
(* The last section is about what the liveness properties rest on.           *)
(***************************************************************************)
EXTENDS Membership, TLAPS

-----------------------------------------------------------------------------
(* Types.                                                                  *)

\* The handlers of the gateway.
HandlerStep(n, models, new) ==
  \/ Publish(n, models, new) \/ Joined(n, models) \/ Refuse(n, models) \/ Left(n)
  \/ \E kept \in Nat : Unpublish(n, kept)
  \/ Updated(n, models) \/ Heartbeat(n, models) \/ HeartbeatCut(n, models)
  \/ UNCHANGED registryVars

\* A registration lists names, and makes the row active.
LEMMA RegisteringIsSound ==
  ASSUME RegistryTypeOK, NEW n \in Nodes, NEW models \in SUBSET Names,
         Registering(n, models), token' \in [Nodes -> Nat]
  PROVE  /\ RegistryTypeOK'
         /\ NothingListedWhenGone => NothingListedWhenGone'
<1>1. New(models) \subseteq Names
  BY DEF New, Names
<1>2. PICK some \in SUBSET New(models) : Lists(n, listed[n] \cup some)
  BY DEF Registering, ListsMore
<1>3. RegistryTypeOK'
  BY <1>1, <1>2 DEF RegistryTypeOK, Registering, Hears, Lists, Ends
<1>4. NothingListedWhenGone => NothingListedWhenGone'
  BY <1>2 DEF RegistryTypeOK, NothingListedWhenGone, Registering, Hears, Lists, Ends
<1> QED
  BY <1>3, <1>4

\* A deregistration empties the list, or says that it has not.
LEMMA DeregisteredIsSound ==
  ASSUME RegistryTypeOK, NEW n \in Nodes, Deregistered(n), token' \in [Nodes -> Nat]
  PROVE  /\ RegistryTypeOK'
         /\ NothingListedWhenGone => NothingListedWhenGone'
<1>1. CASE Deregister(n)
  BY <1>1 DEF RegistryTypeOK, NothingListedWhenGone, Deregister, Inactive, Lists, Ends
<1>2. CASE DeregisterCut(n)
  BY <1>2 DEF RegistryTypeOK, NothingListedWhenGone, DeregisterCut, Inactive, Fails
<1> QED
  BY <1>1, <1>2 DEF Deregistered

\* What is listed after an update was listed before or is in the pool.
LEMMA RelistedIsSound ==
  ASSUME NEW n \in Nodes, NEW models, NEW some \in Relisted(n, models)
  PROVE  some \subseteq listed[n] \cup models
BY DEF Relisted

\* What a handler for n writes is a status, a flag, models and a token, and an
\* inactive node lists nothing, or its handler says that a statement failed.
LEMMA HandlerIsSound ==
  ASSUME RegistryTypeOK, NEW n \in Nodes, NEW models \in Pools, NEW new \in Nat,
         HandlerStep(n, models, new)
  PROVE  /\ RegistryTypeOK'
         /\ NothingListedWhenGone => NothingListedWhenGone'
<1>n. models \in SUBSET Names
  BY MembershipAssumption DEF Names
<1>1. CASE Publish(n, models, new) \/ Joined(n, models)
  <2>1. Registering(n, models) /\ token' \in [Nodes -> Nat]
    BY <1>1 DEF Publish, Joined, RegistryTypeOK
  <2> QED
    BY <1>n, <2>1, RegisteringIsSound
<1>2. CASE Refuse(n, models)
  <2>1. CASE row' = [row EXCEPT ![n] = "inactive"] /\ Lists(n, {}) /\ Ends(n)
    BY <1>2, <2>1 DEF Refuse, RegistryTypeOK, NothingListedWhenGone, Lists, Ends
  <2>2. CASE /\ \E s \in {"active", "inactive"} : row' = [row EXCEPT ![n] = s]
             /\ ListsMore(n, New(models))
             /\ Fails(n)
    <3>1. New(models) \subseteq Names
      BY <1>n DEF New, Names
    <3>2. PICK some \in SUBSET New(models) : Lists(n, listed[n] \cup some)
      BY <2>2 DEF ListsMore
    <3>3. PICK s \in {"active", "inactive"} : row' = [row EXCEPT ![n] = s]
      BY <2>2
    <3>4. RegistryTypeOK'
      BY <1>2, <2>2, <3>1, <3>2, <3>3 DEF Refuse, RegistryTypeOK, Lists, Fails
    <3>5. NothingListedWhenGone => NothingListedWhenGone'
      BY <2>2, <3>2, <3>3 DEF RegistryTypeOK, NothingListedWhenGone, Lists, Fails
    <3> QED
      BY <3>4, <3>5
  <2> QED
    BY <1>2, <2>1, <2>2 DEF Refuse
<1>3. CASE Left(n) \/ \E kept \in Nat : Unpublish(n, kept)
  <2>1. Deregistered(n) /\ token' \in [Nodes -> Nat]
    BY <1>3 DEF Left, Unpublish, RegistryTypeOK
  <2> QED
    BY <2>1, DeregisteredIsSound
<1>4. CASE Updated(n, models) \/ HeartbeatCut(n, models)
  <2>1. /\ listed' \in [Nodes -> SUBSET Names]
        /\ \A k \in Nodes \ {n} : listed'[k] = listed[k]
        /\ row[n] = "none" \/ row'[n] = "active" \/ Fails(n) \/ UNCHANGED listed
    BY <1>4, <1>n, RelistedIsSound
    DEF Updated, HeartbeatCut, Lists, RegistryTypeOK, Hears
  <2>2. /\ row' \in [Nodes -> {"none", "active", "inactive"}]
        /\ silent' \in [Nodes -> BOOLEAN] /\ UNCHANGED token
        /\ \A k \in Nodes \ {n} : row'[k] = row[k]
        /\ UNCHANGED row \/ row'[n] = "active"
    BY <1>4 DEF Updated, HeartbeatCut, RegistryTypeOK, Hears
  <2>3. Ends(n) \/ Fails(n)
    BY <1>4 DEF Updated, HeartbeatCut
  <2>4. Ends(n) => (row[n] = "none" /\ UNCHANGED row) \/ row'[n] = "active" \/ Fails(n)
    BY <1>4 DEF Updated, HeartbeatCut, Hears, RegistryTypeOK
  <2>5. RegistryTypeOK'
    BY <2>1, <2>2, <2>3 DEF RegistryTypeOK, Ends, Fails
  <2>6. NothingListedWhenGone => NothingListedWhenGone'
    BY <2>1, <2>2, <2>3, <2>4 DEF RegistryTypeOK, NothingListedWhenGone, Ends, Fails
  <2> QED
    BY <2>5, <2>6
<1>5. CASE Heartbeat(n, models)
  <2>1. listed' \in [Nodes -> SUBSET Names] /\ \A k \in Nodes \ {n} : listed'[k] = listed[k]
    BY <1>5, <1>n DEF Heartbeat, Lists, RegistryTypeOK
  <2> QED
    BY <1>5, <2>1 DEF Heartbeat, Hears, Ends, RegistryTypeOK, NothingListedWhenGone
<1>6. CASE UNCHANGED registryVars
  BY <1>6 DEF registryVars, RegistryTypeOK, NothingListedWhenGone
<1> QED
  BY <1>1, <1>2, <1>3, <1>4, <1>5, <1>6 DEF HandlerStep

\* A round of the monitor, whichever of its statements fail.
LEMMA MonitorIsSound ==
  ASSUME RegistryTypeOK, Monitor
  PROVE  /\ RegistryTypeOK'
         /\ NothingListedWhenGone => NothingListedWhenGone'
         /\ token' = token
         /\ \A n \in Nodes : listed'[n] \subseteq listed[n]
                             /\ (row'[n] = "active" => row[n] = "active")
<1>1. PICK done \in SUBSET Stale, evicted \in SUBSET Stale :
         evicted \subseteq done /\ Round(done, evicted)
  BY DEF Monitor
<1>2. done \subseteq Nodes /\ evicted \subseteq Nodes
  BY DEF Stale
<1>3. RegistryTypeOK'
  BY <1>1, <1>2 DEF Round, RegistryTypeOK
<1>4. NothingListedWhenGone => NothingListedWhenGone'
  BY <1>1, <1>2 DEF Round, RegistryTypeOK, NothingListedWhenGone
<1> QED
  BY <1>1, <1>2, <1>3, <1>4 DEF Round, RegistryTypeOK

\* The steps of the gateway that nobody asks for.
LEMMA GatewayIsSound ==
  ASSUME RegistryTypeOK, NEW n \in Nodes, Unreachable(n) \/ GoesSilent(n)
  PROVE  /\ RegistryTypeOK'
         /\ NothingListedWhenGone => NothingListedWhenGone'
         /\ token' = token
<1>1. CASE Unreachable(n)
  <2>1. Deregistered(n) /\ UNCHANGED token
    BY <1>1 DEF Unreachable
  <2> QED
    BY <2>1, DeregisteredIsSound DEF RegistryTypeOK
<1>2. CASE GoesSilent(n)
  BY <1>2 DEF GoesSilent, RegistryTypeOK, NothingListedWhenGone
<1> QED
  BY <1>1, <1>2

\* What is sent, and what is answered, is a message.
LEMMA MessageType ==
  ASSUME MembershipTypeOK, NEW n \in Nodes, NEW k \in Requests \cup Answers,
         tries' \in [Nodes -> Nat]
  PROVE  Message(n, k) \in Messages
BY MembershipAssumption DEF MembershipTypeOK, Message, Messages

LEMMA AnswerType ==
  ASSUME MembershipTypeOK, NEW m \in net, NEW k \in Answers, Answer(m, k)
  PROVE  net' \subseteq Messages
<1>1. m \in Messages
  BY DEF MembershipTypeOK
<1>2. [m EXCEPT !.kind = k] \in Messages
  BY <1>1 DEF Messages, Requests, Answers
<1> QED
  BY <1>1, <1>2 DEF Answer, MembershipTypeOK

\* A node's own steps change no table of the gateway.
LEMMA NodeIsApart ==
  ASSUME NEW n \in Nodes, NodeStep(n) PROVE UNCHANGED registryVars
BY DEF NodeStep, Start, ChangePool, Register, NoToken, Returns, TimesOut, SendHeartbeat,
       SendUpdated, Depart, Unregister, Stop

\* Handling a message is a step of a handler for its node.
LEMMA HandlingIsAHandler ==
  ASSUME MembershipTypeOK, NEW m \in net, Handle(m)
  PROVE  /\ m.node \in Nodes /\ m.pool \in Pools /\ m.try \in Nat
         /\ HandlerStep(m.node, m.pool, m.try)
<1>1. m.node \in Nodes /\ m.pool \in Pools /\ m.try \in Nat
  BY DEF MembershipTypeOK, Messages
<1>2. 0..tries[m.node] \subseteq Nat
  OBVIOUS
<1>3. HandlerStep(m.node, m.pool, m.try)
  BY <1>2 DEF Handle, HandlePublish, HandleJoined, HandleOther, HandleHeartbeat, HandlerStep
<1> QED
  BY <1>1, <1>3

\* Every step leaves the gateway's tables well typed, and an inactive node
\* without models.
LEMMA RegistryInduction ==
  ASSUME MembershipTypeOK, [MembershipNext]_vars
  PROVE  /\ RegistryTypeOK'
         /\ NothingListedWhenGone => NothingListedWhenGone'
<1> RegistryTypeOK
  BY DEF MembershipTypeOK
<1>1. ASSUME UNCHANGED registryVars
      PROVE  /\ RegistryTypeOK'
             /\ NothingListedWhenGone => NothingListedWhenGone'
  BY <1>1 DEF registryVars, RegistryTypeOK, NothingListedWhenGone
<1>2. ASSUME NEW n \in Nodes, NodeStep(n) PROVE UNCHANGED registryVars
  BY <1>2, NodeIsApart
<1>3. ASSUME NEW m \in net, \/ Lose(m) \/ Granted(m.node, m)
                             \/ ReadsToken(m.node, m) \/ Refused(m.node, m)
      PROVE  UNCHANGED registryVars
  BY <1>3 DEF Lose, Granted, ReadsToken, Returns, Refused
<1>4. ASSUME NEW m \in net, Handle(m)
      PROVE  /\ RegistryTypeOK'
             /\ NothingListedWhenGone => NothingListedWhenGone'
  BY <1>4, HandlingIsAHandler, HandlerIsSound
<1>5. ASSUME GatewayStep
      PROVE  /\ RegistryTypeOK'
             /\ NothingListedWhenGone => NothingListedWhenGone'
  <2>1. CASE \E n \in Nodes : Unreachable(n) \/ GoesSilent(n)
    BY <2>1, GatewayIsSound
  <2>2. CASE Monitor
    BY <2>2, MonitorIsSound
  <2> QED
    BY <1>5, <2>1, <2>2 DEF GatewayStep
<1>6. CASE UNCHANGED vars
  BY <1>1, <1>6 DEF vars, registryVars
<1> QED
  BY <1>1, <1>2, <1>3, <1>4, <1>5, <1>6 DEF MembershipNext

\* The node's variables and the network keep their types.
LEMMA NodeInduction ==
  ASSUME MembershipTypeOK, [MembershipNext]_vars
  PROVE  /\ state' \in [Nodes -> {"off", "up", "leaving", "unregistering"}]
         /\ registered' \in [Nodes -> BOOLEAN] /\ waiting' \in [Nodes -> BOOLEAN]
         /\ tries' \in [Nodes -> Nat] /\ held' \in [Nodes -> Nat] /\ unread' \subseteq Nodes
         /\ pool' \in [Nodes -> Pools]
         /\ net' \subseteq Messages
<1> DEFINE Goal ==
         /\ state' \in [Nodes -> {"off", "up", "leaving", "unregistering"}]
         /\ registered' \in [Nodes -> BOOLEAN] /\ waiting' \in [Nodes -> BOOLEAN]
         /\ tries' \in [Nodes -> Nat] /\ held' \in [Nodes -> Nat] /\ unread' \subseteq Nodes
         /\ pool' \in [Nodes -> Pools]
         /\ net' \subseteq Messages
<1> USE DEF MembershipTypeOK
<1>m. ASSUME NEW m \in net PROVE m.node \in Nodes /\ m.try \in Nat
  BY DEF Messages
<1>1. ASSUME NEW n \in Nodes, Start(n) \/ ChangePool(n) \/ TimesOut(n) PROVE Goal
  BY <1>1 DEF Start, ChangePool, TimesOut, Without
<1>2. ASSUME NEW n \in Nodes, Register(n) PROVE Goal
  <2>1. tries' \in [Nodes -> Nat]
    BY <1>2 DEF Register
  <2>2. Message(n, "publish") \in Messages
    BY <2>1, MessageType DEF Requests
  <2> QED
    BY <1>2, <2>1, <2>2 DEF Register, Send
<1>3. ASSUME NEW n \in Nodes, SendHeartbeat(n) \/ SendUpdated(n) PROVE Goal
  <2>1. UNCHANGED nodeVars
    BY <1>3 DEF SendHeartbeat, SendUpdated
  <2>2. Message(n, "heartbeat") \in Messages /\ Message(n, "updated") \in Messages
    BY <2>1, MessageType DEF Requests, nodeVars
  <2> QED
    BY <1>3, <2>1, <2>2 DEF SendHeartbeat, SendUpdated, Send, nodeVars
<1>4. ASSUME NEW n \in Nodes, Depart(n) \/ Unregister(n) PROVE Goal
  <2>1. tries' \in [Nodes -> Nat]
    BY <1>4 DEF Depart, Unregister
  <2>2. Message(n, "left") \in Messages /\ Message(n, "unpublish") \in Messages
    BY <2>1, MessageType DEF Requests
  <2> QED
    BY <1>4, <2>1, <2>2 DEF Depart, Unregister, Send
<1>5. ASSUME NEW n \in Nodes, Stop(n) PROVE Goal
  BY <1>5, MembershipAssumption DEF Stop, Without
<1>r. ASSUME NEW n \in Nodes, NEW left \in SUBSET net, Returns(n, left),
             held' \in [Nodes -> Nat], unread' \subseteq Nodes
      PROVE  Goal
  <2>1. tries' \in [Nodes -> Nat]
    BY <1>r DEF Returns
  <2>2. Message(n, "joined") \in Messages
    BY <2>1, MessageType DEF Requests
  <2> QED
    BY <1>r, <2>1, <2>2 DEF Returns
<1>6. ASSUME NEW m \in net, ReadsToken(m.node, m) PROVE Goal
  <2>1. /\ Returns(m.node, net \ {m})
        /\ held' \in [Nodes -> Nat] /\ unread' \subseteq Nodes
    BY <1>6, <1>m DEF ReadsToken
  <2> QED
    BY <1>m, <1>r, <2>1
<1>7. ASSUME NEW m \in net, Granted(m.node, m) \/ Refused(m.node, m) \/ Lose(m) PROVE Goal
  BY <1>7, <1>m DEF Granted, Refused, Lose, nodeVars
<1>10. ASSUME NEW n \in Nodes, NoToken(n) PROVE Goal
  <2>1. /\ Returns(n, Without(n, Answers)) /\ Without(n, Answers) \subseteq net
        /\ held' \in [Nodes -> Nat] /\ unread' \subseteq Nodes
    BY <1>10 DEF NoToken, Without
  <2> QED
    BY <1>r, <2>1
<1>8. ASSUME NEW m \in net, Handle(m) PROVE Goal
  <2>1. UNCHANGED nodeVars
    BY <1>8 DEF Handle, HandlePublish, HandleJoined, HandleOther, HandleHeartbeat
  <2>2. net' \subseteq Messages
    BY <1>8, AnswerType
    DEF Handle, HandlePublish, HandleJoined, HandleOther, HandleHeartbeat, Answers
  <2> QED
    BY <2>1, <2>2 DEF nodeVars
<1>9. ASSUME GatewayStep \/ UNCHANGED vars PROVE Goal
  BY <1>9 DEF GatewayStep, nodeVars, vars
<1> QED
  BY <1>1, <1>2, <1>3, <1>4, <1>5, <1>6, <1>7, <1>8, <1>9, <1>10
  DEF MembershipNext, NodeStep

LEMMA TypeInduction == MembershipTypeOK /\ [MembershipNext]_vars => MembershipTypeOK'
BY RegistryInduction, NodeInduction DEF MembershipTypeOK

LEMMA TypeInit == MembershipInit => MembershipTypeOK /\ NothingListedWhenGone
BY MembershipAssumption
DEF MembershipInit, RegistryInit, MembershipTypeOK, RegistryTypeOK, NothingListedWhenGone

\* The tables, the nodes and the network keep their types, for any number of
\* nodes and messages.
THEOREM MembershipTypeCorrect == MembershipSpec => []MembershipTypeOK
<1>1. MembershipInit => MembershipTypeOK
  BY TypeInit
<1> QED
  BY <1>1, TypeInduction, PTL DEF MembershipSpec

\* Whatever the gateway handles, in whatever order and however late, a node
\* that is inactive for it offers no models; unless the statement that should
\* have evicted them, or should have made the node active, failed.
THEOREM GoneIsNotListed == MembershipSpec => []NothingListedWhenGone
<1>1. MembershipInit => MembershipTypeOK /\ NothingListedWhenGone
  BY TypeInit
<1>2. /\ MembershipTypeOK /\ NothingListedWhenGone
      /\ [MembershipNext]_vars
      => MembershipTypeOK' /\ NothingListedWhenGone'
  BY TypeInduction, RegistryInduction
<1> QED
  BY <1>1, <1>2, PTL DEF MembershipSpec

-----------------------------------------------------------------------------
(* Tokens.                                                                 *)

\* m is a registration of n, or the answer to one.
Registration(m, n) == m.node = n /\ m.kind \in Answers \cup {"publish"}

\* register() is running in a node that is not off, and, until an answer begins,
\* in one that does not unregister; no node that is off is registered.
Waiters ==
  \A n \in Nodes : /\ waiting[n] => state[n] # "off"
                   /\ waiting[n] /\ ~registered[n] => Running(n)
                   /\ state[n] = "off" => ~registered[n]

\* A registration under way is the one its node waits for; once its answer has
\* begun, only that is under way.
InTime ==
  \A n \in Nodes : \A m \in net :
    Registration(m, n) => /\ waiting[n] /\ m.try = tries[n]
                          /\ registered[n] => m.kind = "granted"

\* There is one at most.
OneAtATime ==
  \A n \in Nodes : \A m1, m2 \in net :
    Registration(m1, n) /\ Registration(m2, n) => m1 = m2

\* A token that is under way is the gateway's, until its node unregisters, which
\* it may do before it has read it.
GrantedHolds ==
  \A n \in Nodes : \A m \in net :
    m.node = n /\ m.kind = "granted" /\ Running(n) => m.try = token[n]

\* A revocation is under way only while its sender shuts down.
Farewell ==
  \A n \in Nodes : \A m \in net :
    m.node = n /\ m.kind = "unpublish" => state[n] = "unregistering"

TokenParts ==
  /\ Waiters /\ InTime /\ OneAtATime /\ GrantedHolds /\ Farewell /\ TokensAgree

TokenInv == MembershipTypeOK /\ TokenParts

\* Registrations and revocations are handled while their sender waits.
InPatience == "publish" \notin Late /\ "unpublish" \notin Late

LEMMA TokenInit == MembershipInit => TokenParts
BY DEF MembershipInit, RegistryInit, TokenParts, Waiters, InTime, OneAtATime,
       GrantedHolds, Farewell, TokensAgree, Running

\* Nothing of TokenInv is lost when messages are, and messages of the other
\* kinds do not matter.
LEMMA OtherMessages ==
  ASSUME TokenInv,
         UNCHANGED <<state, registered, waiting, tries, held, unread, token>>,
         \A m \in net' \ net : m.kind \notin Answers \cup {"publish", "unpublish"}
  PROVE  TokenParts'
<1> USE DEF TokenInv, TokenParts, Registration
<1>1. Waiters' /\ TokensAgree'
  BY DEF Waiters, TokensAgree, Running
<1>2. InTime' /\ OneAtATime'
  BY DEF InTime, OneAtATime
<1>3. GrantedHolds' /\ Farewell'
  BY DEF GrantedHolds, Farewell, Answers, Running
<1> QED
  BY <1>1, <1>2, <1>3

\* register() returns, as the token was read or will not be: m, its answer if
\* there is one, is gone from the network.
LEMMA ReturnKeepsTokens ==
  ASSUME TokenInv, NEW n \in Nodes, NEW left \in SUBSET net,
         waiting[n], registered[n], Returns(n, left), UNCHANGED token,
         \A m \in left : ~Registration(m, n),
         \A k \in Nodes \ {n} : held'[k] = held[k] /\ (k \in unread' <=> k \in unread),
         n \in unread' \/ (Running(n) => held'[n] = token[n])
  PROVE  TokenParts'
<1> USE DEF TokenInv, TokenParts
<1>t. /\ waiting \in [Nodes -> BOOLEAN]
      /\ UNCHANGED <<state, registered, tries>>
      /\ waiting' = [waiting EXCEPT ![n] = FALSE]
  BY DEF MembershipTypeOK, Returns
<1>1. \A x \in net' : x \in left \/ x.kind = "joined"
  BY DEF Returns, Message
<1>2. Waiters'
  BY <1>t DEF Waiters, Running
<1>3. TokensAgree'
  BY <1>t DEF TokensAgree, Running
<1>4. \A x \in net' : \A k \in Nodes : Registration(x, k) => x \in net /\ k # n
  BY <1>1 DEF Registration, Answers
<1>5. InTime' /\ OneAtATime'
  BY <1>t, <1>4 DEF InTime, OneAtATime, Registration
<1>6. GrantedHolds'
  BY <1>t, <1>1 DEF GrantedHolds, Running
<1>7. Farewell'
  BY <1>t, <1>1 DEF Farewell
<1> QED
  BY <1>2, <1>3, <1>5, <1>6, <1>7

\* The steps of a node.
LEMMA NodeKeepsTokens ==
  ASSUME TokenInv, InPatience, NEW n \in Nodes, NodeStep(n)
  PROVE  TokenParts'
<1> USE DEF TokenInv, TokenParts
<1>a. UNCHANGED token
  BY NodeIsApart DEF registryVars
<1>t. /\ state \in [Nodes -> {"off", "up", "leaving", "unregistering"}]
      /\ registered \in [Nodes -> BOOLEAN] /\ waiting \in [Nodes -> BOOLEAN]
      /\ tries \in [Nodes -> Nat] /\ held \in [Nodes -> Nat]
  BY DEF MembershipTypeOK
<1>1. CASE ChangePool(n) \/ SendHeartbeat(n) \/ SendUpdated(n)
  <2>1. UNCHANGED <<state, registered, waiting, tries, held, unread>>
    BY <1>1 DEF ChangePool, SendHeartbeat, SendUpdated, nodeVars
  <2>2. \A m \in net' \ net : m.kind \in {"heartbeat", "updated"}
    BY <1>1 DEF ChangePool, SendHeartbeat, SendUpdated, Send, Message
  <2> QED
    BY <1>a, <2>1, <2>2, OtherMessages DEF Answers
<1>2. CASE Start(n)
  <2>1. Waiters' /\ TokensAgree'
    BY <1>a, <1>t, <1>2 DEF Start, Waiters, TokensAgree, Running
  <2>2. InTime' /\ OneAtATime' /\ GrantedHolds'
    BY <1>a, <1>t, <1>2 DEF Start, InTime, OneAtATime, GrantedHolds, Registration, Waiters, Running, Answers
  <2>3. Farewell'
    BY <1>t, <1>2 DEF Start, Farewell
  <2> QED
    BY <2>1, <2>2, <2>3
<1>3. CASE Register(n)
  <2> DEFINE p == Message(n, "publish")
  <2>1. p.node = n /\ p.kind = "publish" /\ p.try = tries'[n] /\ net' = net \cup {p}
    BY <1>3 DEF Register, Send, Message
  <2>2. \A m \in net : ~Registration(m, n)
    BY <1>3 DEF Register, InTime
  <2>3. Waiters' /\ TokensAgree'
    BY <1>a, <1>t, <1>3 DEF Register, Waiters, TokensAgree, Running
  <2>4. InTime'
    BY <1>t, <1>3, <2>1, <2>2 DEF Register, InTime, Registration
  <2>5. OneAtATime'
    BY <2>1, <2>2 DEF OneAtATime, Registration
  <2>6. GrantedHolds' /\ Farewell'
    BY <1>a, <1>t, <1>3, <2>1 DEF Register, GrantedHolds, Farewell, Running
  <2> QED
    BY <2>3, <2>4, <2>5, <2>6
<1>4. CASE TimesOut(n)
  <2>1. net' \subseteq net /\ \A m \in net' : ~Registration(m, n)
    BY <1>4, MembershipAssumption
    DEF TimesOut, Without, Registration, InPatience, Answers, Requests
  <2>2. Waiters' /\ TokensAgree'
    BY <1>a, <1>t, <1>4 DEF TimesOut, Waiters, TokensAgree, Running
  <2>3. InTime'
    BY <1>t, <1>4, <2>1 DEF TimesOut, InTime, Registration
  <2>4. OneAtATime'
    BY <2>1 DEF OneAtATime, Registration
  <2>5. GrantedHolds' /\ Farewell'
    BY <1>a, <1>4, <2>1 DEF TimesOut, GrantedHolds, Farewell, Running
  <2> QED
    BY <2>2, <2>3, <2>4, <2>5
<1>5. CASE Depart(n)
  <2>1. net' = net \cup {Message(n, "left")} /\ Message(n, "left").kind = "left"
    BY <1>5 DEF Depart, Send, Message
  <2>2. Waiters' /\ TokensAgree'
    BY <1>a, <1>t, <1>5 DEF Depart, Waiters, TokensAgree, Running
  <2>3. InTime'
    BY <1>5, <2>1 DEF Depart, InTime, Registration, Answers
  <2>4. OneAtATime'
    BY <2>1 DEF OneAtATime, Registration, Answers
  <2>5. GrantedHolds' /\ Farewell'
    BY <1>a, <1>t, <1>5, <2>1 DEF Depart, GrantedHolds, Farewell, Running
  <2> QED
    BY <2>2, <2>3, <2>4, <2>5
<1>6. CASE Unregister(n)
  <2>1. /\ net' = net \cup {Message(n, "unpublish")}
        /\ Message(n, "unpublish").kind = "unpublish" /\ Message(n, "unpublish").node = n
    BY <1>6 DEF Unregister, Send, Message
  <2>2. Waiters' /\ TokensAgree'
    BY <1>a, <1>t, <1>6 DEF Unregister, Waiters, TokensAgree, Running
  <2>3. InTime'
    BY <1>6, <2>1 DEF Unregister, InTime, Registration, Answers
  <2>4. OneAtATime'
    BY <2>1 DEF OneAtATime, Registration, Answers
  <2>5. GrantedHolds' /\ Farewell'
    BY <1>a, <1>t, <1>6, <2>1 DEF Unregister, GrantedHolds, Farewell, Running
  <2> QED
    BY <2>2, <2>3, <2>4, <2>5
<1>7. CASE Stop(n)
  <2>1. /\ net' \subseteq net
        /\ \A m \in net' : ~Registration(m, n) /\ ~(m.node = n /\ m.kind = "unpublish")
    BY <1>7, MembershipAssumption
    DEF Stop, Without, Registration, InPatience, Answers, Requests
  <2>2. Waiters' /\ TokensAgree'
    BY <1>a, <1>t, <1>7 DEF Stop, Waiters, TokensAgree, Running
  <2>3. InTime'
    BY <1>t, <1>7, <2>1 DEF Stop, InTime, Registration
  <2>4. OneAtATime'
    BY <2>1 DEF OneAtATime, Registration
  <2>5. GrantedHolds' /\ Farewell'
    BY <1>a, <1>t, <1>7, <2>1 DEF Stop, GrantedHolds, Farewell, Running
  <2> QED
    BY <2>2, <2>3, <2>4, <2>5
<1>8. CASE NoToken(n)
  <2> DEFINE left == Without(n, Answers)
  <2>1. left \subseteq net /\ Returns(n, left) /\ waiting[n] /\ registered[n]
    BY <1>8 DEF NoToken, Without
  <2>2. \A m \in left : ~Registration(m, n)
    <3> SUFFICES ASSUME NEW m \in left, Registration(m, n) PROVE FALSE
      OBVIOUS
    <3>1. m \in net /\ m.kind = "granted"
      BY <2>1 DEF InTime
    <3> QED
      BY <3>1, MembershipAssumption DEF Without, Registration, Answers, Requests
  <2>3. held' = held /\ unread' = unread \cup {n}
    BY <1>8 DEF NoToken
  <2> HIDE DEF left
  <2> QED
    BY <1>a, <2>1, <2>2, <2>3, ReturnKeepsTokens
<1> QED
  BY <1>1, <1>2, <1>3, <1>4, <1>5, <1>6, <1>7, <1>8 DEF NodeStep

\* An answer arrives: its header, its token, or a refusal.
LEMMA AnswersKeepTokens ==
  ASSUME TokenInv, NEW m \in net,
         Granted(m.node, m) \/ ReadsToken(m.node, m) \/ Refused(m.node, m)
  PROVE  TokenParts'
<1> USE DEF TokenInv, TokenParts
<1> DEFINE n == m.node
<1>a. UNCHANGED token
  BY DEF Granted, ReadsToken, Returns, Refused, registryVars
<1>t. /\ state \in [Nodes -> {"off", "up", "leaving", "unregistering"}]
      /\ registered \in [Nodes -> BOOLEAN] /\ waiting \in [Nodes -> BOOLEAN]
      /\ tries \in [Nodes -> Nat] /\ held \in [Nodes -> Nat]
      /\ n \in Nodes
  BY DEF MembershipTypeOK, Messages
<1>1. Registration(m, n)
  BY DEF Granted, ReadsToken, Refused, Registration, Answers
<1>2. \A x \in net : x # m => ~Registration(x, n)
  BY <1>1, <1>t DEF OneAtATime
<1>3. CASE Granted(n, m)
  <2>1. Waiters' /\ TokensAgree'
    BY <1>a, <1>t, <1>3 DEF Granted, Waiters, TokensAgree, Running
  <2>2. InTime' /\ OneAtATime'
    BY <1>t, <1>2, <1>3 DEF Granted, InTime, OneAtATime, Registration
  <2>3. GrantedHolds' /\ Farewell'
    BY <1>a, <1>3 DEF Granted, GrantedHolds, Farewell, Running
  <2> QED
    BY <2>1, <2>2, <2>3
<1>4. CASE ReadsToken(n, m)
  <2>1. waiting[n] /\ registered[n] /\ Returns(n, net \ {m})
    BY <1>4 DEF ReadsToken
  <2>2. held' = [held EXCEPT ![n] = m.try] /\ unread' = unread \ {n}
    BY <1>4 DEF ReadsToken
  <2>3. Running(n) => m.try = token[n]
    BY <1>4, <1>t DEF ReadsToken, GrantedHolds
  <2>4. /\ \A k \in Nodes \ {n} : held'[k] = held[k] /\ (k \in unread' <=> k \in unread)
        /\ held'[n] = m.try
    BY <1>t, <2>2
  <2> QED
    BY <1>a, <1>t, <1>2, <2>1, <2>3, <2>4, ReturnKeepsTokens
<1>5. CASE Refused(n, m)
  <2>1. ~registered[n]
    BY <1>1, <1>5, <1>t DEF Refused, InTime
  <2>2. Waiters' /\ TokensAgree'
    BY <1>a, <1>t, <1>5, <2>1 DEF Refused, Waiters, TokensAgree, Running
  <2>3. InTime' /\ OneAtATime'
    BY <1>t, <1>2, <1>5 DEF Refused, InTime, OneAtATime, Registration
  <2>4. GrantedHolds' /\ Farewell'
    BY <1>a, <1>5 DEF Refused, GrantedHolds, Farewell, Running
  <2> QED
    BY <2>2, <2>3, <2>4
<1> QED
  BY <1>3, <1>4, <1>5

\* The gateway handles a registration.
LEMMA PublishKeepsTokens ==
  ASSUME TokenInv, NEW m \in net, HandlePublish(m)
  PROVE  TokenParts'
<1> USE DEF TokenInv, TokenParts
<1> DEFINE n == m.node
<1>t. /\ n \in Nodes /\ token \in [Nodes -> Nat] /\ m \in Messages
      /\ state \in [Nodes -> {"off", "up", "leaving", "unregistering"}]
  BY DEF MembershipTypeOK, RegistryTypeOK, Messages
<1>a. UNCHANGED <<state, registered, waiting, tries, held, unread>>
  BY DEF HandlePublish, nodeVars
<1>1. Registration(m, n) /\ waiting[n] /\ m.try = tries[n] /\ Running(n) /\ ~registered[n]
  BY <1>t DEF HandlePublish, Registration, InTime, Waiters
<1>2. \A x \in net : x # m => ~Registration(x, n)
  BY <1>1, <1>t DEF OneAtATime
<1>3. \A x \in Nodes \ {n} : token'[x] = token[x]
  BY <1>t DEF HandlePublish, Publish, Refuse, Joined, registryVars
<1>4. Waiters' /\ TokensAgree'
  BY <1>a, <1>1, <1>3 DEF Waiters, TokensAgree, Running
<1>5. PICK k : k \in Answers /\ Answer(m, k) /\ (k = "granted" => token'[n] = m.try)
  BY <1>t DEF HandlePublish, Publish, Answers
<1> DEFINE a == [m EXCEPT !.kind = k]
<1>6. a.node = n /\ a.kind = k /\ a.try = m.try
  BY <1>t DEF Messages
<1>7. net' = (net \ {m}) \cup {a}
  <2>1. waiting[m.node] /\ m.try = tries[m.node]
    BY <1>1
  <2> QED
    BY <1>5, <2>1 DEF Answer
<1> HIDE DEF a
<1>8. \A x \in net' : x = a \/ (x \in net /\ ~Registration(x, n))
  <2> SUFFICES ASSUME NEW x \in net', x # a
               PROVE  x \in net /\ ~Registration(x, n)
    OBVIOUS
  <2>1. x \in net /\ x # m
    BY <1>7
  <2> QED
    BY <1>2, <2>1
<1>9. InTime' /\ OneAtATime'
  BY <1>a, <1>1, <1>6, <1>8 DEF InTime, OneAtATime, Registration
<1>10. GrantedHolds'
  <2> SUFFICES ASSUME NEW j \in Nodes, NEW x \in net', x.node = j, x.kind = "granted",
                      Running(j)
               PROVE  x.try = token'[j]
    BY <1>a DEF GrantedHolds, Running
  <2>1. CASE x = a
    BY <1>5, <1>6, <2>1
  <2>2. CASE x # a
    <3>1. x \in net /\ j # n
      BY <1>8, <2>2 DEF Registration, Answers
    <3> QED
      BY <1>3, <3>1 DEF GrantedHolds
  <2> QED
    BY <2>1, <2>2
<1>11. Farewell'
  BY <1>5, <1>a, <1>6, <1>8 DEF Farewell, Answers
<1> QED
  BY <1>4, <1>9, <1>10, <1>11

\* The gateway handles anything else.
LEMMA OthersKeepTokens ==
  ASSUME TokenInv, NEW m \in net, HandleJoined(m) \/ HandleOther(m) \/ HandleHeartbeat(m)
  PROVE  TokenParts'
<1>a. UNCHANGED <<state, registered, waiting, tries, held, unread>> /\ net' = net \ {m}
  BY DEF HandleJoined, HandleOther, HandleHeartbeat, nodeVars
<1>1. CASE m.kind # "unpublish"
  <2>1. UNCHANGED token
    BY <1>1 DEF HandleJoined, HandleOther, HandleHeartbeat, Joined, Refuse, Updated,
                Heartbeat, HeartbeatCut, Left
  <2> QED
    BY <1>a, <2>1, OtherMessages
<1>2. CASE m.kind = "unpublish"
  <2> USE DEF TokenInv, TokenParts
  <2> DEFINE n == m.node
  <2>t. n \in Nodes /\ token \in [Nodes -> Nat]
    BY DEF MembershipTypeOK, RegistryTypeOK, Messages
  <2>1. state[n] = "unregistering"
    BY <1>2, <2>t DEF Farewell
  <2>2. \A x \in Nodes \ {n} : token'[x] = token[x]
    BY <1>2, <2>t DEF HandleJoined, HandleOther, HandleHeartbeat, Unpublish
  <2>3. ~Running(n)
    BY <2>1 DEF Running
  <2>4. Waiters' /\ TokensAgree'
    BY <1>a, <2>2, <2>3 DEF Waiters, TokensAgree, Running
  <2>5. InTime' /\ OneAtATime' /\ Farewell'
    BY <1>a DEF InTime, OneAtATime, Farewell, Registration
  <2>6. GrantedHolds'
    BY <1>a, <2>t, <2>2, <2>3 DEF GrantedHolds, Running
  <2> QED
    BY <2>4, <2>5, <2>6
<1> QED
  BY <1>1, <1>2

LEMMA TokenInduction ==
  ASSUME InPatience PROVE TokenInv /\ [MembershipNext]_vars => TokenInv'
<1> SUFFICES ASSUME TokenInv, [MembershipNext]_vars PROVE TokenInv'
  OBVIOUS
<1>0. MembershipTypeOK'
  BY TypeInduction DEF TokenInv
<1>1. ASSUME NEW n \in Nodes, NodeStep(n) PROVE TokenParts'
  BY <1>1, NodeKeepsTokens
<1>2. ASSUME NEW m \in net,
             Granted(m.node, m) \/ ReadsToken(m.node, m) \/ Refused(m.node, m)
      PROVE  TokenParts'
  BY <1>2, AnswersKeepTokens
<1>3. ASSUME NEW m \in net, Handle(m) PROVE TokenParts'
  BY <1>3, PublishKeepsTokens, OthersKeepTokens DEF Handle
<1>4. ASSUME NEW m \in net, Lose(m) PROVE TokenParts'
  BY <1>4, OtherMessages DEF Lose, registryVars, nodeVars
<1>5. CASE GatewayStep
  <2>1. token' = token
    BY <1>5 DEF GatewayStep, Unreachable, GoesSilent, Monitor, Round
  <2> QED
    BY <1>0, <1>5, <2>1, OtherMessages DEF GatewayStep, nodeVars, TokenInv
<1>6. CASE UNCHANGED vars
  BY <1>0, <1>6, OtherMessages DEF vars, TokenInv
<1> QED
  BY <1>0, <1>1, <1>2, <1>3, <1>4, <1>5, <1>6 DEF MembershipNext, TokenInv

\* A registered node that has read the body of the answer holds the gateway's
\* token, through lost requests, lost answers, repeated registrations and
\* restarts, if registrations and revocations are handled while their sender
\* waits.
THEOREM TokensCorrect ==
  ASSUME InPatience PROVE MembershipSpec => []TokensAgree
<1>1. MembershipInit => TokenInv
  BY TypeInit, TokenInit DEF TokenInv
<1>2. TokenInv /\ [MembershipNext]_vars => TokenInv'
  BY TokenInduction
<1>3. TokenInv => TokensAgree
  BY DEF TokenInv, TokenParts
<1> QED
  BY <1>1, <1>2, <1>3, PTL DEF MembershipSpec

-----------------------------------------------------------------------------
(* What the convergence of the listing and the notice of a departure rest    *)
(* on.  That the good states are reached needs fairness and is left to the   *)
(* runs; that they are not left again is proved, whatever is handled late.   *)

\* n is up with a model, the gateway lists nothing else of it, and nothing
\* under way says otherwise.
Truthful(n) ==
  /\ state[n] = "up" /\ pool[n] # {}
  /\ listed[n] \subseteq pool[n]
  /\ \A m \in net : m.node = n => m.pool = pool[n]

\* n is off, inactive or unknown, and nothing under way would revive it.
Gone(n) ==
  /\ state[n] = "off" /\ row[n] # "active"
  /\ \A m \in net : m.node = n => m.kind \in {"left", "unpublish"} \cup Answers

\* A process that is off waits for nothing.
OffIsIdle == \A n \in Nodes : state[n] = "off" => ~waiting[n]

\* What enters the network: a message of a node for itself, with its pool or a
\* farewell, from a node that is not off; or the answer to a registration.
LEMMA NetGrows ==
  ASSUME MembershipTypeOK, OffIsIdle, [MembershipNext]_vars, NEW x \in net'
  PROVE  \/ x \in net
         \/ /\ x.node \in Nodes /\ state[x.node] # "off"
            /\ x.pool = pool[x.node] \/ state'[x.node] # "up"
         \/ /\ x.kind \in Answers
            /\ \E m \in net : x.node = m.node /\ x.pool = m.pool
<1> DEFINE Own == /\ x.node \in Nodes /\ state[x.node] # "off"
                  /\ x.pool = pool[x.node] \/ state'[x.node] # "up"
<1>t. /\ state \in [Nodes -> {"off", "up", "leaving", "unregistering"}]
      /\ \A m \in net : m.node \in Nodes
  BY DEF MembershipTypeOK, Messages
<1>1. ASSUME NEW n \in Nodes, Start(n) \/ ChangePool(n) \/ TimesOut(n) \/ Stop(n)
      PROVE  x \in net
  BY <1>1 DEF Start, ChangePool, TimesOut, Stop, Without
<1>2. ASSUME NEW n \in Nodes,
             Register(n) \/ SendHeartbeat(n) \/ SendUpdated(n) \/ Depart(n) \/ Unregister(n)
      PROVE  x \in net \/ Own
  <2>1. \A k : Message(n, k).node = n
    BY DEF Message
  <2>2. \A k \in {"publish", "heartbeat", "updated"} : Message(n, k).pool = pool[n]
    BY DEF Message
  <2>3. CASE Register(n) \/ SendHeartbeat(n) \/ SendUpdated(n)
    <3>1. PICK k \in {"publish", "heartbeat", "updated"} : net' = net \cup {Message(n, k)}
      BY <2>3 DEF Register, SendHeartbeat, SendUpdated, Send
    <3>2. state[n] # "off"
      BY <2>3 DEF Register, SendHeartbeat, SendUpdated, Running
    <3> QED
      BY <2>1, <2>2, <3>1, <3>2
  <2>4. CASE Depart(n) \/ Unregister(n)
    <3>1. PICK k \in {"left", "unpublish"} : net' = net \cup {Message(n, k)}
      BY <2>4 DEF Depart, Unregister, Send
    <3>2. state[n] # "off" /\ state'[n] # "up"
      BY <1>t, <2>4 DEF Depart, Unregister
    <3> QED
      BY <2>1, <3>1, <3>2
  <2> QED
    BY <1>2, <2>3, <2>4
<1>3. ASSUME NEW n \in Nodes, NoToken(n) \/ \E m \in net : m.node = n /\ ReadsToken(n, m)
      PROVE  x \in net \/ Own
  <2>1. waiting[n] /\ x \in net \cup {Message(n, "joined")}
    BY <1>3 DEF NoToken, ReadsToken, Returns, Without
  <2>2. state[n] # "off"
    BY <1>t, <2>1 DEF OffIsIdle
  <2>3. Message(n, "joined").node = n /\ Message(n, "joined").pool = pool[n]
    BY DEF Message
  <2> QED
    BY <1>t, <2>1, <2>2, <2>3
<1>4. ASSUME NEW m \in net, \/ Granted(m.node, m) \/ Refused(m.node, m) \/ Lose(m)
                             \/ HandleJoined(m) \/ HandleOther(m) \/ HandleHeartbeat(m)
      PROVE  x \in net
  BY <1>4 DEF Granted, Refused, Lose, HandleJoined, HandleOther, HandleHeartbeat
<1>5. ASSUME NEW m \in net, HandlePublish(m)
      PROVE  \/ x \in net
             \/ x.kind \in Answers /\ x.node = m.node /\ x.pool = m.pool
  <2>1. PICK k \in Answers : Answer(m, k)
    BY <1>5 DEF HandlePublish, Answers
  <2>2. x \in net \/ x = [m EXCEPT !.kind = k]
    BY <2>1 DEF Answer
  <2>3. m \in Messages
    BY DEF MembershipTypeOK
  <2>4. LET y == [m EXCEPT !.kind = k]
        IN  y.kind = k /\ y.node = m.node /\ y.pool = m.pool
    BY <2>3 DEF Messages
  <2> QED
    BY <2>1, <2>2, <2>4
<1>6. CASE GatewayStep \/ UNCHANGED vars
  BY <1>6 DEF GatewayStep, vars
<1> QED
  BY <1>t, <1>1, <1>2, <1>3, <1>4, <1>5, <1>6 DEF MembershipNext, NodeStep, Handle

LEMMA OffInduction == MembershipTypeOK /\ OffIsIdle /\ [MembershipNext]_vars => OffIsIdle'
<1> SUFFICES ASSUME MembershipTypeOK, OffIsIdle, [MembershipNext]_vars PROVE OffIsIdle'
  OBVIOUS
<1> USE DEF OffIsIdle
<1>t. /\ state \in [Nodes -> {"off", "up", "leaving", "unregistering"}]
      /\ waiting \in [Nodes -> BOOLEAN] /\ \A m \in net : m.node \in Nodes
  BY DEF MembershipTypeOK, Messages
<1>1. ASSUME NEW n \in Nodes, NodeStep(n) PROVE OffIsIdle'
  BY <1>1, <1>t DEF NodeStep, Start, ChangePool, Register, NoToken, Returns, TimesOut,
       SendHeartbeat, SendUpdated, Depart, Unregister, Stop, Running, nodeVars
<1>2. ASSUME NEW m \in net,
             Granted(m.node, m) \/ ReadsToken(m.node, m) \/ Refused(m.node, m)
      PROVE  OffIsIdle'
  BY <1>2, <1>t DEF Granted, ReadsToken, Returns, Refused
<1>3. ASSUME UNCHANGED nodeVars PROVE OffIsIdle'
  BY <1>3 DEF nodeVars
<1>4. ASSUME NEW m \in net, Lose(m) \/ Handle(m) PROVE UNCHANGED nodeVars
  BY <1>4 DEF Lose, Handle, HandlePublish, HandleJoined, HandleOther, HandleHeartbeat
<1>5. CASE GatewayStep \/ UNCHANGED vars
  BY <1>3, <1>5 DEF GatewayStep, vars, nodeVars
<1> QED
  BY <1>1, <1>2, <1>3, <1>4, <1>5 DEF MembershipNext

\* What the gateway does to a row and its models: those of other nodes stay, and
\* what is listed was listed or is in the message.
LEMMA HandlerLists ==
  ASSUME RegistryTypeOK, NEW k \in Nodes, NEW models, NEW new,
         HandlerStep(k, models, new), NEW n \in Nodes
  PROVE  /\ n # k => row'[n] = row[n] /\ listed'[n] = listed[n]
         /\ models # {} => listed'[n] \subseteq listed[n] \cup models
<1> USE DEF RegistryTypeOK, Hears, Lists
<1>1. CASE Publish(k, models, new) \/ Joined(k, models)
  BY <1>1 DEF Publish, Joined, Registering, ListsMore, New
<1>2. CASE Refuse(k, models)
  BY <1>2 DEF Refuse, ListsMore, New
<1>3. CASE Left(k) \/ \E kept \in Nat : Unpublish(k, kept)
  BY <1>3 DEF Left, Unpublish, Deregistered, Deregister, DeregisterCut, Inactive
<1>4. CASE Updated(k, models) \/ HeartbeatCut(k, models)
  <2>1. PICK some : /\ listed' = [listed EXCEPT ![k] = some]
                    /\ some \in Relisted(k, models) \/ some = listed[k]
    <3>1. CASE UNCHANGED listed
      BY <3>1
    <3>2. CASE \E some \in Relisted(k, models) : listed' = [listed EXCEPT ![k] = some]
      BY <3>2
    <3> QED
      BY <1>4, <3>1, <3>2 DEF Updated, HeartbeatCut
  <2>2. some \subseteq listed[k] \cup models
    BY <2>1, RelistedIsSound
  <2> QED
    BY <1>4, <2>1, <2>2 DEF Updated, HeartbeatCut
<1>5. CASE Heartbeat(k, models)
  BY <1>5 DEF Heartbeat
<1>6. CASE UNCHANGED registryVars
  BY <1>6 DEF registryVars
<1> QED
  BY <1>1, <1>2, <1>3, <1>4, <1>5, <1>6 DEF HandlerStep

\* The gateway of its own accord only takes away.
LEMMA GatewayTakesAway ==
  ASSUME MembershipTypeOK, [MembershipNext]_vars,
         ~ \E m \in net : Handle(m), NEW n \in Nodes
  PROVE  /\ listed'[n] \subseteq listed[n]
         /\ row'[n] = "active" => row[n] = "active"
<1> RegistryTypeOK
  BY DEF MembershipTypeOK
<1> USE DEF RegistryTypeOK
<1>1. ASSUME UNCHANGED registryVars
      PROVE  listed'[n] \subseteq listed[n] /\ (row'[n] = "active" => row[n] = "active")
  BY <1>1 DEF registryVars
<1>2. ASSUME NEW k \in Nodes, NodeStep(k) PROVE UNCHANGED registryVars
  BY <1>2, NodeIsApart
<1>3. ASSUME NEW m \in net, \/ Lose(m) \/ Granted(m.node, m)
                             \/ ReadsToken(m.node, m) \/ Refused(m.node, m)
      PROVE  UNCHANGED registryVars
  BY <1>3 DEF Lose, Granted, ReadsToken, Returns, Refused
<1>4. CASE GatewayStep
  <2>1. CASE \E k \in Nodes : Unreachable(k)
    BY <2>1 DEF Unreachable, Deregistered, Deregister, DeregisterCut, Inactive, Lists
  <2>2. CASE \E k \in Nodes : GoesSilent(k)
    BY <2>2 DEF GoesSilent
  <2>3. CASE Monitor
    BY <2>3, MonitorIsSound
  <2> QED
    BY <1>4, <2>1, <2>2, <2>3 DEF GatewayStep
<1>5. CASE UNCHANGED vars
  BY <1>1, <1>5 DEF vars, registryVars
<1> QED
  BY <1>1, <1>2, <1>3, <1>4, <1>5 DEF MembershipNext

\* Once the gateway lists no model a node has not, and nothing to the contrary
\* is under way, that stays so while the node runs with the same models, however
\* often it is deregistered and revived meanwhile.
THEOREM ListingStays ==
  MembershipSpec =>
    [][\A n \in Nodes :
         Truthful(n) /\ state'[n] = "up" /\ pool'[n] = pool[n] => Truthful(n)']_vars
<1>1. MembershipInit => OffIsIdle
  BY DEF MembershipInit, OffIsIdle
<1>2. ASSUME MembershipTypeOK, OffIsIdle, [MembershipNext]_vars, NEW n \in Nodes,
             Truthful(n), state'[n] = "up", pool'[n] = pool[n]
      PROVE  Truthful(n)'
  <2>1. \A x \in net' : x.node = n => x.pool = pool[n]
    <3> SUFFICES ASSUME NEW x \in net', x.node = n PROVE x.pool = pool[n]
      OBVIOUS
    <3> QED
      BY <1>2, NetGrows DEF Truthful
  <2>2. listed'[n] \subseteq pool[n]
    <3>1. CASE \E m \in net : Handle(m)
      <4>1. PICK m \in net : Handle(m)
        BY <3>1
      <4>2. /\ RegistryTypeOK /\ m.node \in Nodes
            /\ HandlerStep(m.node, m.pool, m.try)
        BY <1>2, <4>1, HandlingIsAHandler DEF MembershipTypeOK
      <4>3. m.node = n => m.pool = pool[n] /\ pool[n] # {}
        BY <1>2 DEF Truthful
      <4>4. CASE m.node = n
        BY <1>2, <4>2, <4>3, <4>4, HandlerLists DEF Truthful
      <4>5. CASE m.node # n
        BY <1>2, <4>2, <4>5, HandlerLists DEF Truthful
      <4> QED
        BY <4>4, <4>5
    <3>2. CASE ~ \E m \in net : Handle(m)
      BY <1>2, <3>2, GatewayTakesAway DEF Truthful
    <3> QED
      BY <3>1, <3>2
  <2> QED
    BY <1>2, <2>1, <2>2 DEF Truthful
<1>3. MembershipTypeOK /\ OffIsIdle /\ [MembershipNext]_vars =>
        [\A n \in Nodes :
           Truthful(n) /\ state'[n] = "up" /\ pool'[n] = pool[n] => Truthful(n)']_vars
  BY <1>2
<1> QED
  BY <1>1, <1>3, OffInduction, MembershipTypeCorrect, PTL DEF MembershipSpec

\* Once a node is off and inactive for the gateway, and neither a registration
\* nor a sign of life is under way, it stays inactive until it starts again:
\* farewells, lost answers and the monitor revive nobody.
THEOREM GoneStays ==
  MembershipSpec => [][\A n \in Nodes : Gone(n) /\ state'[n] = "off" => Gone(n)']_vars
<1>1. MembershipInit => OffIsIdle
  BY DEF MembershipInit, OffIsIdle
<1>2. ASSUME MembershipTypeOK, OffIsIdle, [MembershipNext]_vars, NEW n \in Nodes,
             Gone(n), state'[n] = "off"
      PROVE  Gone(n)'
  <2>1. \A x \in net' : x.node = n => x.kind \in {"left", "unpublish"} \cup Answers
    BY <1>2, NetGrows DEF Gone
  <2>2. row'[n] # "active"
    <3>1. ASSUME NEW m \in net, Handle(m) PROVE row'[n] # "active"
      <4>1. /\ RegistryTypeOK /\ m.node \in Nodes
            /\ HandlerStep(m.node, m.pool, m.try)
        BY <1>2, <3>1, HandlingIsAHandler DEF MembershipTypeOK
      <4>2. CASE m.node = n
        <5>1. m.kind \in {"left", "unpublish", "granted", "refused"}
          BY <1>2, <4>2 DEF Gone, Answers
        <5>2. Left(n) \/ \E kept : Unpublish(n, kept)
          BY <3>1, <4>2, <5>1
          DEF Handle, HandlePublish, HandleJoined, HandleOther, HandleHeartbeat
        <5>3. Deregistered(n)
          BY <5>2 DEF Left, Unpublish
        <5> QED
          BY <1>2, <4>1, <4>2, <5>3
          DEF Deregistered, Deregister, DeregisterCut, Inactive, RegistryTypeOK, Gone
      <4>3. CASE m.node # n
        BY <1>2, <4>1, <4>3, HandlerLists DEF Gone
      <4> QED
        BY <4>2, <4>3
    <3>2. CASE ~ \E m \in net : Handle(m)
      BY <1>2, <3>2, GatewayTakesAway DEF Gone
    <3> QED
      BY <3>1, <3>2
  <2> QED
    BY <1>2, <2>1, <2>2 DEF Gone
<1>3. MembershipTypeOK /\ OffIsIdle /\ [MembershipNext]_vars =>
        [\A n \in Nodes : Gone(n) /\ state'[n] = "off" => Gone(n)']_vars
  BY <1>2
<1> QED
  BY <1>1, <1>3, OffInduction, MembershipTypeCorrect, PTL DEF MembershipSpec
=============================================================================
