------------------------------ MODULE Routing ------------------------------
(***************************************************************************)
(* The gateway's router as a whole: gateway/router.py (class ModelRouter)   *)
(* between the tables of nodes and of token usage.  RouterBudget's actions   *)
(* hold the slots and the hourly budget; here each also takes the daily       *)
(* tokens, the choice of a node and the nodes' coming and going.            *)
(*                                                                         *)
(* A node is chosen among those that list the model, by context length,     *)
(* then by the conversation's prefix, then by the strategy.  The list is     *)
(* ordered by load, and all three strategies take a place in it that         *)
(* depends on loads or chance, so any of the candidates may be taken.  A      *)
(* conversation is remembered for half an hour; time is the set of those     *)
(* that have not been routed for that long.                                *)
(*                                                                         *)
(* Any statement of the database may fail, and the code swallows that: a      *)
(* key's use that cannot be read is none, a use that cannot be recorded is   *)
(* lost, and nodes that cannot be read are none.                            *)
(***************************************************************************)
EXTENDS RouterBudget

CONSTANTS
  Nodes, Models,
  Prefixes,    \* hashes of the beginnings of conversations
  None,        \* no node, or no conversation
  ModelOf,     \* ModelOf[r]: the model r asks for
  PrefixOf,    \* PrefixOf[r]: its prefix, None without a conversation_id
  Need,        \* Need[r]: min_ctx, the context r is estimated to take
  Window,      \* Window[n]: ctx_length of the node, 0 when it told none
  Offers,      \* Offers[n]: the models node n can load
  Tokens,      \* Tokens[r]: total_tokens of the answer to r
  MaxTokens,   \* no answer has more
  DailyBudget  \* get_daily_token_budget

ASSUME RoutingAssumption ==
  /\ None \notin Nodes \cup Prefixes
  /\ ModelOf \in [Requests -> Models]
  /\ PrefixOf \in [Requests -> Prefixes \cup {None}]
  /\ Need \in [Requests -> Nat \ {0}]
  /\ Window \in [Nodes -> Nat]
  /\ Offers \in [Nodes -> SUBSET Models]
  /\ MaxTokens \in Nat
  /\ Tokens \in [Requests -> 0..MaxTokens]
  /\ DailyBudget \in Nat \ {0}

VARIABLES
  listed,    \* listed[n]: the models of n's active rows
  affinity,  \* _prefix_affinity; None when a prefix has no entry
  old,       \* prefixes not routed for _affinity_max_age
  chosen,    \* chosen[r]: the node whose answer r awaits
  spent,     \* spent[k]: tokens_consumed of today's row
  unread,    \* observer: requests that passed because spent could not be read
  over,      \* observer: over[k]: what such requests have added to spent[k]
  home       \* observer: home[p]: the node a request of p was last sent to

tables == <<listed, affinity, old, chosen, spent, unread, over, home>>
routingVars == <<routerVars, tables>>

RoutingTypeOK ==
  /\ RouterTypeOK
  /\ listed \in [Nodes -> SUBSET Models]
  /\ affinity \in [Prefixes -> Nodes \cup {None}]
  /\ old \subseteq Prefixes
  /\ chosen \in [Requests -> Nodes \cup {None}]
  /\ spent \in [Keys -> Nat]
  /\ unread \subseteq Requests
  /\ over \in [Keys -> Nat]
  /\ home \in [Prefixes -> Nodes \cup {None}]

RoutingInit ==
  /\ RouterInit
  /\ listed = [n \in Nodes |-> {}]
  /\ affinity = [p \in Prefixes |-> None]
  /\ old = {}
  /\ chosen = [r \in Requests |-> None]
  /\ spent = [k \in Keys |-> 0]
  /\ unread = {}
  /\ over = [k \in Keys |-> 0]
  /\ home = [p \in Prefixes |-> None]

-----------------------------------------------------------------------------
(* _select_node                                                            *)

\* get_nodes_for_model
Listing(r) == {n \in Nodes : ModelOf[r] \in listed[n]}

\* Mutant: a node that told no context length passes for large enough.
FittingOrUnknown(r) == {n \in Listing(r) : Window[n] >= Need[r] \/ Window[n] = 0}

Fitting(r) == {n \in Listing(r) : Window[n] >= Need[r]}

\* The nodes that are large enough; when none is, all.
Candidates(r) == IF Fitting(r) # {} THEN Fitting(r) ELSE Listing(r)

\* _cleanup_affinity, before each choice
Remembered == [p \in Prefixes |-> IF p \in old THEN None ELSE affinity[p]]

\* The conversation's node can take the request, or does not say.
Sticks(r) ==
  /\ PrefixOf[r] # None
  /\ Remembered[PrefixOf[r]] \in Candidates(r)
  /\ \/ Window[Remembered[PrefixOf[r]]] = 0
     \/ Window[Remembered[PrefixOf[r]]] >= Need[r]

Choices(r) ==
  IF Sticks(r) THEN {Remembered[PrefixOf[r]]} ELSE Candidates(r)

\* Mutant: the first node a conversation had is never replaced.
RemembersFirst(p, n) ==
  [Remembered EXCEPT ![p] = IF @ = None THEN n ELSE @]

Remembers(p, n) == [Remembered EXCEPT ![p] = n]

\* What sending a request of prefix p to n leaves behind.
Remember(p, n) ==
  IF p = None THEN affinity' = Remembered /\ UNCHANGED <<old, home>>
  ELSE /\ affinity' = Remembers(p, n)
       /\ old' = old \ {p}
       /\ home' = [home EXCEPT ![p] = n]

-----------------------------------------------------------------------------

\* Mutant: the daily budget is not asked.
UnlimitedTokens(k) == TRUE

\* check_token_budget, when today's row can be read; the handler's own check
\* before it is the same.
HasTokens(k) == spent[k] < DailyBudget

Admissible(r) ==
  HasSlot(KeyOf[r]) /\ HasTokens(KeyOf[r]) /\ HasBudget(KeyOf[r], Cost[r])

\* No slot or no budget.
TurnAway(r) ==
  /\ ~Admissible(r)
  /\ Refuse(r)
  /\ UNCHANGED tables

\* No node lists the model, or they cannot be read, by a request with tokens or
\* one whose tokens cannot be read; old entries have been forgotten all the same.
NoNode(r) ==
  /\ HasSlot(KeyOf[r]) /\ HasBudget(KeyOf[r], Cost[r])
  /\ Refuse(r)
  /\ affinity' = Remembered
  /\ UNCHANGED <<listed, old, chosen, spent, unread, over, home>>

\* The request is on its way to a node.  A failed read passes for no use.
Route(r) ==
  /\ Forward(r)
  /\ \/ HasTokens(KeyOf[r]) /\ UNCHANGED unread
     \/ ~HasTokens(KeyOf[r]) /\ unread' = unread \cup {r}
  /\ \E n \in Choices(r) :
       /\ chosen' = [chosen EXCEPT ![r] = n]
       /\ Remember(PrefixOf[r], n)
  /\ UNCHANGED <<listed, spent, over>>

\* record_token_usage: one process, no suspension between read and write.
Recording(r, t) ==
  /\ spent' = [spent EXCEPT ![KeyOf[r]] = @ + t]
  /\ over' = IF r \in unread THEN [over EXCEPT ![KeyOf[r]] = @ + t] ELSE over

Meter(r, t) ==
  /\ Recording(r, t) \/ UNCHANGED <<spent, over>>
  /\ UNCHANGED unread

\* The handler is through with the node, which has answered or not.
Leaves(r) ==
  /\ chosen' = [chosen EXCEPT ![r] = None]
  /\ UNCHANGED <<affinity, old, home>>

\* The whole answer, metered.
Answered(r) ==
  /\ r \notin Streaming
  /\ NodeAnswers(r)
  /\ Meter(r, Tokens[r])
  /\ Leaves(r) /\ UNCHANGED listed

\* The response object of a stream, or an error of the node, a timeout or a
\* garbled answer, which is charged to the hourly budget all the same.
BeginsOrFails(r) ==
  /\ NodeAnswers(r)
  /\ Leaves(r) /\ UNCHANGED <<listed, spent, unread, over>>

\* A connection error: the node is deregistered; if that fails, it is as above.
NodeUnreachable(r) ==
  /\ NodeAnswers(r) /\ phase'[r] = "done"
  /\ listed' = [listed EXCEPT ![chosen[r]] = {}]
  /\ Leaves(r) /\ UNCHANGED <<spent, unread, over>>

Cancelled(r) == Cancel(r) /\ Leaves(r) /\ UNCHANGED <<listed, spent, unread, over>>

\* A stream ends, breaks or is closed: metered by its usage or by what came.
StreamMetered(r) ==
  /\ StreamEnds(r)
  /\ \E t \in 0..Tokens[r] : Meter(r, t)
  /\ UNCHANGED <<listed, affinity, old, chosen, home>>

\* A publish, heartbeat, event or departure rewrites the rows of a node.
Relist(n) ==
  /\ \E S \in SUBSET Offers[n] : listed' = [listed EXCEPT ![n] = S]
  /\ UNCHANGED <<routerVars, affinity, old, chosen, spent, unread, over, home>>

\* Half an hour without a request of the conversation.
GrowsOld(p) ==
  /\ home[p] # None /\ p \notin old
  /\ old' = old \cup {p}
  /\ UNCHANGED <<routerVars, listed, affinity, chosen, spent, unread, over, home>>

\* The next hour, perhaps the first of a day.
HourPasses ==
  /\ NextHour
  /\ \/ UNCHANGED <<spent, over>>
     \/ spent' = [k \in Keys |-> 0] /\ over' = [k \in Keys |-> 0]
  /\ UNCHANGED <<listed, affinity, old, chosen, unread, home>>

RoutingNext ==
  \/ \E r \in Requests :
       \/ TurnAway(r) \/ NoNode(r) \/ Route(r) \/ Answered(r) \/ BeginsOrFails(r)
       \/ NodeUnreachable(r) \/ Cancelled(r) \/ StreamMetered(r)
  \/ \E n \in Nodes : Relist(n)
  \/ \E p \in Prefixes : GrowsOld(p)
  \/ HourPasses

RoutingSpec == RoutingInit /\ [][RoutingNext]_routingVars

-----------------------------------------------------------------------------
(* Properties.                                                             *)

\* The requests that set out in a step.
SetOut == {r \in Requests : phase[r] = "idle" /\ phase'[r] = "forwarding"}

\* A request goes to a node that lists its model, and to one that is too small
\* only when all of them are, whatever is remembered of its conversation.
FitsIfAnyDoes ==
  [][\A r \in SetOut :
       /\ chosen'[r] \in Listing(r)
       /\ Window[chosen'[r]] >= Need[r]
          \/ \A n \in Listing(r) : Window[n] < Need[r]]_routingVars

\* A conversation stays with the node that had its last request, and its cache,
\* unless that node has lost the model, is too small for the next request, or
\* half an hour has passed; also after it has moved, and when nodes come back.
StaysHome ==
  [][\A r \in SetOut :
       LET p == PrefixOf[r] IN
         p # None /\ p \notin old /\ home[p] \in Fitting(r) => chosen'[r] = home[p]
    ]_routingVars

\* Tokens are metered when an answer ends.  What a key can have recorded beyond
\* its daily budget is what was under way when it was reached, the answers its
\* slots hold, and its streams, which hold none; and the answers to requests
\* whose tokens could not be read, of which there is no limit.
DailyOverdraftBound ==
  \A k \in Keys :
    spent[k] < DailyBudget + over[k]
               + (MaxConcurrent + Cardinality({r \in Streaming : KeyOf[r] = k}))
                 * MaxTokens
=============================================================================
