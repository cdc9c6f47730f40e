----------------------------- MODULE TokenLedger -----------------------------
(***************************************************************************)
(* How the gateway counts the tokens of its nodes:                          *)
(* gateway/supabase_client.py (class SupabaseManager) called by the handlers *)
(* of gateway/server.py.                                                    *)
(*                                                                         *)
(* A node reports the counter of its present life.  The row of the node     *)
(* keeps the last report, a total of all nodes keeps what ended lives       *)
(* counted, and a cache of the last reports tells a restart by a counter    *)
(* that fell.  The Supabase client is synchronous: a handler is one step,   *)
(* unless the gateway stops inside it.  Each of its statements may fail, and *)
(* SupabaseManager swallows that: a total that cannot be read counts as 0   *)
(* and is written back, one that cannot be written loses what was to be     *)
(* added, and a handler whose statement on the row fails ends there, the    *)
(* cache already changed.  Two observers, lost and torn, say what that did.  *)
(*                                                                         *)
(* Tokens are completion tokens, which the code compares; prompt tokens,    *)
(* which it adds along with them, are left out (a node that has counted any  *)
(* has counted completion tokens).  The total is split into the shares of   *)
(* the nodes.                                                               *)
(***************************************************************************)
EXTENDS Naturals

CONSTANTS
  Nodes,
  Untracked,  \* no entry in the cache
  MaxPeak,    \* MaxPeak[n]: bound on the counter of n
  MaxTotal    \* MaxTotal[n]: bound on n's share of the total

ASSUME LedgerAssumption ==
  /\ Untracked \notin Nat
  /\ MaxPeak \in [Nodes -> Nat]
  /\ MaxTotal \in [Nodes -> Nat]

VARIABLES
  peak,     \* peak[n]: the highest counter n has had in a life
  row,      \* row[n]: status and tokens in table nodes
  total,    \* total[n]: n's share of cumulative_completion_tokens
  cache,    \* _node_token_cache
  saved,    \* global_statistics, key node_token_cache
  lost,     \* observer: lost[n]: what failing statements of the last step
            \* dropped of n's share
  torn      \* observer: nodes whose row failing statements may have parted
            \* from the cache: a handler ended early, or the cache was not read

ledgerVars == <<peak, row, total, cache, saved, lost, torn>>
Untouched  == [n \in Nodes |-> Untracked]
Nothing    == [n \in Nodes |-> 0]

Tracked == Nat \cup {Untracked}
Rows    == [status : {"none", "active", "inactive"}, tokens : Nat]

LedgerTypeOK ==
  /\ peak \in [Nodes -> Nat]
  /\ row \in [Nodes -> Rows]
  /\ total \in [Nodes -> Nat]
  /\ cache \in [Nodes -> Tracked] /\ saved \in [Nodes -> Tracked]
  /\ lost \in [Nodes -> Nat] /\ torn \subseteq Nodes

LedgerInit ==
  /\ peak = Nothing
  /\ row = [n \in Nodes |-> [status |-> "none", tokens |-> 0]]
  /\ total = Nothing /\ lost = Nothing /\ torn = {}
  /\ cache = Untouched /\ saved = Untouched

-----------------------------------------------------------------------------
(* The node.                                                               *)

\* A life of the node counts further than any before.
Generate(n) ==
  /\ peak[n] < MaxPeak[n]
  /\ peak' = [peak EXCEPT ![n] = @ + 1]
  /\ UNCHANGED <<row, total, cache, saved, torn>> /\ lost' = Nothing

\* The counters a report may carry: the node counts from zero after a restart
\* and when its active model is another, and heartbeats, events and
\* registrations are sent by different tasks, one of which may overtake another.
Reports(n) == 0..peak[n]

-----------------------------------------------------------------------------
(* SupabaseManager.                                                        *)

Known(v)  == IF v = Untracked THEN 0 ELSE v
Cached(n) == Known(cache[n])
Exists(n) == row[n].status # "none"

\* Mutant: only a counter that starts again from zero is a restart.
RestartedFromZero(old, new) == IF new = 0 THEN old ELSE 0

\* _detect_restart_and_accumulate: what a report of new adds to the total.
Restarted(old, new) == IF new < old THEN old ELSE 0

\* _add_cumulative_tokens: the books (total and what is lost of it) that adding
\* v to n's share may leave: written, not written, or written over a total
\* that could not be read.  Nothing is added where nothing was counted.
Added(book, n, v) ==
  IF v = 0 THEN {book}
  ELSE {[book EXCEPT !.total[n] = @ + v],
        [book EXCEPT !.lost[n] = @ + v],
        [total |-> [m \in Nodes |-> IF m = n THEN v ELSE 0],
         lost  |-> [m \in Nodes |-> book.lost[m] + book.total[m]]]}

Book == [total |-> total, lost |-> Nothing]
AllAdded(n, u, v, w) ==
  UNION {UNION {Added(second, n, w) : second \in Added(first, n, v)} :
           first \in Added(Book, n, u)}
Keep(book) == total' = book.total /\ lost' = book.lost
Add(n, v) == \E book \in Added(Book, n, v) : Keep(book)

Write(n, s, c) == row' = [row EXCEPT ![n] = [status |-> s, tokens |-> c]]
Track(n, v) == cache' = [cache EXCEPT ![n] = v]

\* _persist_token_cache, whose statement may fail.
Persist == saved' \in {saved, cache'}

\* How a handler for n ends: after its last statement on the row, or before.
Ends(n)  == torn' = torn \ {n}
Fails(n) == torn' = torn \cup {n}

\* update_node_metrics, up to its statement on the row.
Updating(n, c) == Add(n, Restarted(Cached(n), c)) /\ Track(n, c)

\* register_node: an untracked node is compared with its row, when the row can
\* be read.
Seed(n, seen) ==
  IF seen /\ cache[n] = Untracked THEN row[n].tokens ELSE Cached(n)

\* The branch for nodes that do not report the split: a counter of zero, and
\* tokens in the row.
IsLegacy(n, c, seen) == seen /\ c = 0 /\ row[n].tokens > 0

LegacyAdds(n, c, seen) == IF IsLegacy(n, c, seen) THEN row[n].tokens ELSE 0

RegisterTracks(n, c, seen) == IF IsLegacy(n, c, seen) THEN Untracked ELSE c

\* register_node, up to its statement on the row; then what a second call adds.
Registering(n, c, seen, more) ==
  \E book \in AllAdded(n, Restarted(Seed(n, seen), c), LegacyAdds(n, c, seen), more) :
    Keep(book)

-----------------------------------------------------------------------------
(* The handlers.                                                           *)

\* publish_node, the event node_joined, register_node of a user; with a counter
\* of 0 also handle_peer_notification, where another node reports n.
Register(n) ==
  \E c \in Reports(n), seen \in BOOLEAN :
    /\ Registering(n, c, seen, 0)
    /\ Track(n, RegisterTracks(n, c, seen))
    /\ UNCHANGED <<peak, saved>>
    /\ \/ Write(n, "active", c) /\ Ends(n)
       \/ UNCHANGED row /\ Fails(n)

\* With probe metrics: update_node_metrics is called with no counters.
RegisterProbed(n) ==
  \E c \in Reports(n), seen \in BOOLEAN :
    /\ Registering(n, c, seen, c)
    /\ Track(n, 0)
    /\ UNCHANGED peak
    /\ \/ Write(n, "active", 0) /\ Persist /\ Ends(n)
       \/ Write(n, "active", c) /\ UNCHANGED saved /\ Fails(n)

\* The performance gate refuses the probe metrics: deregister_node.
RegisterRejected(n) ==
  \E c \in Reports(n), seen \in BOOLEAN :
    /\ Registering(n, c, seen, c)
    /\ Track(n, IF c > 0 THEN Untracked ELSE RegisterTracks(n, c, seen))
    /\ IF c > 0 THEN Persist ELSE UNCHANGED saved
    /\ UNCHANGED peak
    /\ \/ Write(n, "inactive", c) /\ Ends(n)
       \/ Write(n, "active", c) /\ Fails(n)

\* node_heartbeat: it carries the node's URL, for which an absent row is made
\* and an inactive one is activated before the metrics are written; without a
\* row, the metrics are written nowhere but in the cache.
Heartbeat(n) ==
  \E c \in Reports(n) :
    /\ Updating(n, c)
    /\ UNCHANGED peak
    /\ \/ Write(n, "active", c) /\ Persist /\ Ends(n)
       \/ ~Exists(n) /\ UNCHANGED row /\ Persist /\ Ends(n)
       \/ /\ UNCHANGED row \/ Write(n, "active", row[n].tokens)
          /\ UNCHANGED saved /\ Fails(n)

\* The event node_updated, which makes no row.
UpdateEvent(n) ==
  \E c \in Reports(n) :
    /\ Updating(n, c)
    /\ UNCHANGED peak
    /\ \/ /\ IF Exists(n) THEN Write(n, "active", c) ELSE UNCHANGED row
          /\ Persist /\ Ends(n)
       \/ UNCHANGED <<row, saved>> /\ Fails(n)

\* deregister_node: unpublish, the event node_left, a stale heartbeat, an
\* unreachable node, the owner.  The row keeps its tokens.
Leave(n) ==
  /\ Add(n, Cached(n))
  /\ IF Cached(n) > 0 THEN Track(n, Untracked) /\ Persist
     ELSE UNCHANGED <<cache, saved>>
  /\ UNCHANGED peak
  /\ \/ /\ IF Exists(n) THEN Write(n, "inactive", row[n].tokens) ELSE UNCHANGED row
        /\ Ends(n)
     \/ UNCHANGED row /\ Fails(n)

\* Mutant: the rows are not consulted.
HydratedFromSaved(s) == s

\* _hydrate_token_cache: the persisted cache under the rows of active nodes.
Hydrated(s) ==
  [n \in Nodes |-> IF row[n].status = "active" THEN row[n].tokens ELSE s[n]]

\* Either of its two statements may fail: the first leaves the cache empty,
\* the second leaves it as it was persisted.
Hydrate(s) ==
  \/ cache' = Hydrated(s) /\ torn' = {}
  \/ cache' \in {s, Untouched} /\ torn' = Nodes

GatewayRestarts ==
  /\ Hydrate(saved)
  /\ UNCHANGED <<peak, row, total, saved>> /\ lost' = Nothing

\* The gateway stops inside deregister_node, the tokens added, the row not
\* yet inactive, the cache persisted or not; or inside update_node_metrics,
\* which adds the same before it writes the row.
StopsInLeave(n) ==
  /\ Cached(n) > 0
  /\ Add(n, Cached(n))
  /\ saved' \in {saved, [cache EXCEPT ![n] = Untracked]}
  /\ Hydrate(saved')
  /\ UNCHANGED <<peak, row>>

-----------------------------------------------------------------------------

LedgerNext ==
  /\ \/ \E n \in Nodes :
          \/ Generate(n) \/ Register(n) \/ RegisterProbed(n)
          \/ RegisterRejected(n) \/ Heartbeat(n) \/ UpdateEvent(n)
          \/ Leave(n) \/ StopsInLeave(n)
     \/ GatewayRestarts
  /\ \A n \in Nodes : total'[n] <= MaxTotal[n]

LedgerSpec == LedgerInit /\ [][LedgerNext]_ledgerVars

-----------------------------------------------------------------------------
(* Properties.                                                             *)

\* get_network_stats: the total, and the rows of active nodes.
Shown(n) == total[n] + IF row[n].status = "active" THEN row[n].tokens ELSE 0

\* The cache, lost and read again with every stop of the gateway, agrees with
\* the row of an active node, so that a fall of its counter is noticed; unless
\* the last handler for the node, or the reading of the cache, was cut short
\* by a failing statement.
CacheFollowsRows ==
  \A n \in Nodes \ torn : row[n].status = "active" => Cached(n) = row[n].tokens

\* However reports, departures and restarts of nodes and of the gateway
\* interleave, the tokens the tables show for a node never fall but by what a
\* failing statement on the total dropped; unless cache and row were parted by
\* a failing statement just before.
ShownNeverFalls ==
  [][\A n \in Nodes \ torn : Shown(n)' + lost'[n] >= Shown(n)]_ledgerVars
=============================================================================
