-------------------------- MODULE TokenLedgerProofs --------------------------
(***************************************************************************)
(* The cache agrees with the rows, and what the network shows never falls,  *)
(* but for what failing statements do: proofs for TokenLedger.  The type    *)
(* invariant and CacheFollowsRows are inductive together.  Every handler    *)
(* keeps them for its node and leaves the others alone but for what a       *)
(* failing read of the total drops of their shares, which it records; and   *)
(* it adds, or records as lost, at least what its row loses.                *)
(***************************************************************************)
EXTENDS TokenLedger, TLAPS

LedgerInv == LedgerTypeOK /\ CacheFollowsRows

Books == [total : [Nodes -> Nat], lost : [Nodes -> Nat]]

\* The share of n with what is lost of it grows by v, the others' by nothing.
Grows(n, v) ==
  /\ total' \in [Nodes -> Nat] /\ lost' \in [Nodes -> Nat]
  /\ \A m \in Nodes : total'[m] + lost'[m] = total[m] + IF m = n THEN v ELSE 0

\* What a handler for n does to the others, to the cache and to what is shown.
Sound(n) ==
  /\ \A m \in Nodes \ {n} :
       /\ row'[m] = row[m] /\ cache'[m] = cache[m]
       /\ m \in torn' <=> m \in torn
       /\ total'[m] + lost'[m] = total[m]
  /\ n \notin torn' /\ row'[n].status = "active" => Known(cache'[n]) = row'[n].tokens
  /\ n \notin torn => Shown(n)' + lost'[n] >= Shown(n)

\* The initial state satisfies the invariant.
LEMMA LedgerInitInv == LedgerInit => LedgerInv
  BY DEF LedgerInit, LedgerInv, LedgerTypeOK, CacheFollowsRows, Rows, Tracked,
         Cached, Known, Nothing, Untouched

\* What a report may carry, and what is computed from it, are numbers.
LEMMA LedgerNumbers ==
  ASSUME LedgerTypeOK, NEW n \in Nodes
  PROVE  /\ Reports(n) \subseteq Nat
         /\ Cached(n) \in Nat
         /\ \A seen \in BOOLEAN : Seed(n, seen) \in Nat
         /\ row[n] \in Rows
         /\ row[n].tokens \in Nat
         /\ row[n].status \in {"none", "active", "inactive"}
         /\ total[n] \in Nat
  <1>1. Reports(n) \subseteq Nat
    BY DEF LedgerTypeOK, Reports
  <1>2. row[n] \in Rows /\ cache[n] \in Tracked /\ total[n] \in Nat
    BY DEF LedgerTypeOK
  <1>3. Cached(n) \in Nat
    BY <1>2 DEF Cached, Known, Tracked
  <1>4. row[n].tokens \in Nat /\ row[n].status \in {"none", "active", "inactive"}
    BY <1>2 DEF Rows
  <1>5. QED
    BY <1>1, <1>2, <1>3, <1>4 DEF Seed

\* A counter is a cache entry, and stands for itself.
LEMMA CounterIsTracked ==
  ASSUME NEW c \in Nat
  PROVE  c \in Tracked /\ Known(c) = c
  BY LedgerAssumption DEF Tracked, Known

-----------------------------------------------------------------------------
(* Adding to the total.                                                    *)

\* However its statements end, adding v to the share of n leaves books, and v
\* is in the share or is lost, with all that was there.
LEMMA AddedSum ==
  ASSUME NEW b \in Books, NEW n \in Nodes, NEW v \in Nat, NEW a \in Added(b, n, v)
  PROVE  /\ a \in Books
         /\ \A m \in Nodes : a.total[m] + a.lost[m]
              = b.total[m] + b.lost[m] + IF m = n THEN v ELSE 0
  <1>0. b.total \in [Nodes -> Nat] /\ b.lost \in [Nodes -> Nat]
    BY DEF Books
  <1>1. CASE v = 0
    <2>1. a = b
      BY <1>1 DEF Added
    <2>2. \A m \in Nodes : b.total[m] \in Nat /\ b.lost[m] \in Nat
      BY <1>0
    <2>3. QED
      BY <1>1, <2>1, <2>2
  <1>2. CASE a = [b EXCEPT !.total[n] = @ + v]
    <2>1. /\ a.total = [b.total EXCEPT ![n] = @ + v] /\ a.lost = b.lost
          /\ a = [total |-> a.total, lost |-> a.lost]
      BY <1>2 DEF Books
    <2>2. a.total \in [Nodes -> Nat]
      BY <1>0, <2>1
    <2>3. \A m \in Nodes : a.total[m] = b.total[m] + IF m = n THEN v ELSE 0
      BY <1>0, <2>1
    <2>4. QED
      BY <1>0, <2>1, <2>2, <2>3 DEF Books
  <1>3. CASE a = [b EXCEPT !.lost[n] = @ + v]
    <2>1. /\ a.lost = [b.lost EXCEPT ![n] = @ + v] /\ a.total = b.total
          /\ a = [total |-> a.total, lost |-> a.lost]
      BY <1>3 DEF Books
    <2>2. a.lost \in [Nodes -> Nat]
      BY <1>0, <2>1
    <2>3. \A m \in Nodes : a.lost[m] = b.lost[m] + IF m = n THEN v ELSE 0
      BY <1>0, <2>1
    <2>4. QED
      BY <1>0, <2>1, <2>2, <2>3 DEF Books
  <1>4. CASE a = [total |-> [m \in Nodes |-> IF m = n THEN v ELSE 0],
                  lost  |-> [m \in Nodes |-> b.lost[m] + b.total[m]]]
    <2>1. \A m \in Nodes : b.total[m] \in Nat /\ b.lost[m] \in Nat
      BY <1>0
    <2>2. /\ a.total \in [Nodes -> Nat] /\ a.lost \in [Nodes -> Nat]
          /\ \A m \in Nodes : a.total[m] = (IF m = n THEN v ELSE 0)
                              /\ a.lost[m] = b.lost[m] + b.total[m]
      BY <1>4, <2>1
    <2>3. QED
      BY <1>4, <2>1, <2>2 DEF Books
  <1>5. QED
    BY <1>1, <1>2, <1>3, <1>4 DEF Added

\* The books at the start of a handler.
LEMMA BookType ==
  ASSUME LedgerTypeOK
  PROVE  Book \in Books /\ \A m \in Nodes : Book.total[m] + Book.lost[m] = total[m]
  BY DEF LedgerTypeOK, Book, Books, Nothing

LEMMA AddGrows ==
  ASSUME LedgerTypeOK, NEW n \in Nodes, NEW v \in Nat, Add(n, v)
  PROVE  Grows(n, v)
  <1>1. PICK a \in Added(Book, n, v) : total' = a.total /\ lost' = a.lost
    BY DEF Add, Keep
  <1>2. a \in Books /\ \A m \in Nodes : a.total[m] + a.lost[m]
          = Book.total[m] + Book.lost[m] + IF m = n THEN v ELSE 0
    BY AddedSum, BookType
  <1>3. QED
    BY <1>1, <1>2, BookType DEF Grows, Books

LEMMA AllAddedGrows ==
  ASSUME LedgerTypeOK, NEW n \in Nodes, NEW u \in Nat, NEW v \in Nat, NEW w \in Nat,
         NEW a \in AllAdded(n, u, v, w), Keep(a)
  PROVE  Grows(n, u + v + w)
  <1>1. PICK first \in Added(Book, n, u) :
          a \in UNION {Added(second, n, w) : second \in Added(first, n, v)}
    BY DEF AllAdded
  <1>2. PICK second \in Added(first, n, v) : a \in Added(second, n, w)
    BY <1>1
  <1>3. first \in Books /\ \A m \in Nodes : first.total[m] + first.lost[m]
          = total[m] + IF m = n THEN u ELSE 0
    BY AddedSum, BookType
  <1>4. second \in Books /\ \A m \in Nodes : second.total[m] + second.lost[m]
          = first.total[m] + first.lost[m] + IF m = n THEN v ELSE 0
    BY <1>3, AddedSum
  <1>5. a \in Books /\ \A m \in Nodes : a.total[m] + a.lost[m]
          = second.total[m] + second.lost[m] + IF m = n THEN w ELSE 0
    BY <1>2, <1>4, AddedSum
  <1>6. \A m \in Nodes : total[m] \in Nat
    BY LedgerNumbers
  <1>7. \A m \in Nodes : a.total[m] + a.lost[m]
          = total[m] + IF m = n THEN u + v + w ELSE 0
    <2> TAKE m \in Nodes
    <2>1. CASE m = n
      BY <1>3, <1>4, <1>5, <1>6, <2>1
    <2>2. CASE m # n
      BY <1>3, <1>4, <1>5, <1>6, <2>2
    <2>3. QED
      BY <2>1, <2>2
  <1>8. QED
    BY <1>5, <1>7 DEF Grows, Keep, Books

-----------------------------------------------------------------------------
(* What a handler writes.                                                  *)

\* What register_node adds and tracks; what it adds, with the counter it
\* writes, covers an active row that agrees with the cache.
LEMMA RegisterNumbers ==
  ASSUME LedgerInv, NEW n \in Nodes, NEW c \in Nat, NEW seen \in BOOLEAN
  PROVE  /\ Restarted(Seed(n, seen), c) \in Nat
         /\ LegacyAdds(n, c, seen) \in Nat
         /\ RegisterTracks(n, c, seen) \in Tracked
         /\ Known(RegisterTracks(n, c, seen)) = c
         /\ n \notin torn /\ row[n].status = "active"
              => Restarted(Seed(n, seen), c) + c >= row[n].tokens
  <1>1. Seed(n, seen) \in Nat /\ row[n].tokens \in Nat /\ Cached(n) \in Nat
    BY LedgerNumbers DEF LedgerInv
  <1>2. Restarted(Seed(n, seen), c) \in Nat /\ LegacyAdds(n, c, seen) \in Nat
    BY <1>1 DEF Restarted, LegacyAdds
  <1>3. RegisterTracks(n, c, seen) \in Tracked /\ Known(RegisterTracks(n, c, seen)) = c
    BY CounterIsTracked DEF RegisterTracks, IsLegacy, Tracked, Known
  <1>4. ASSUME n \notin torn, row[n].status = "active"
        PROVE  Restarted(Seed(n, seen), c) + c >= row[n].tokens
    <2>1. Seed(n, seen) = row[n].tokens
      BY <1>4 DEF LedgerInv, CacheFollowsRows, Cached, Known, Seed
    <2>2. QED
      BY <1>1, <2>1 DEF Restarted
  <1>5. QED
    BY <1>2, <1>3, <1>4

\* update_node_metrics adds at least what its row loses.
LEMMA UpdateCovers ==
  ASSUME LedgerInv, NEW n \in Nodes, NEW c \in Nat
  PROVE  /\ Restarted(Cached(n), c) \in Nat
         /\ n \notin torn /\ row[n].status = "active"
              => Restarted(Cached(n), c) + c >= row[n].tokens
  <1>1. Cached(n) \in Nat /\ row[n].tokens \in Nat
    BY LedgerNumbers DEF LedgerInv
  <1>2. n \notin torn /\ row[n].status = "active" => Cached(n) = row[n].tokens
    BY DEF LedgerInv, CacheFollowsRows
  <1>3. QED
    BY <1>1, <1>2 DEF Restarted

\* A handler that adds v, tracks t and makes r the row of n is sound and keeps
\* the types, if a handler that did not fail tracks the counter of an active
\* row, and if v and the row cover what the row showed.
LEMMA HandlerIsSound ==
  ASSUME LedgerInv, NEW n \in Nodes, NEW v \in Nat, NEW t \in Tracked,
         NEW r \in Rows,
         Grows(n, v), Track(n, t), row' = [row EXCEPT ![n] = r], UNCHANGED peak,
         saved' \in {saved, cache'},
         Ends(n) \/ Fails(n),
         Ends(n) /\ r.status = "active" => Known(t) = r.tokens,
         n \notin torn /\ row[n].status = "active"
           => v + (IF r.status = "active" THEN r.tokens ELSE 0) >= row[n].tokens
  PROVE  Sound(n) /\ LedgerTypeOK'
  <1> USE DEF LedgerInv
  <1>1. row'[n] = r /\ cache'[n] = t /\ total'[n] + lost'[n] = total[n] + v
    BY DEF LedgerTypeOK, Track, Grows
  <1>2. /\ r.tokens \in Nat /\ row[n].tokens \in Nat /\ total[n] \in Nat
        /\ total'[n] \in Nat /\ lost'[n] \in Nat
    BY LedgerNumbers DEF Grows, Rows
  <1>3. LedgerTypeOK'
    <2>1. cache' \in [Nodes -> Tracked] /\ row' \in [Nodes -> Rows] /\ torn' \subseteq Nodes
      BY DEF LedgerTypeOK, Track, Ends, Fails
    <2>2. QED
      BY <2>1 DEF LedgerTypeOK, Grows
  <1>4. \A m \in Nodes \ {n} :
          /\ row'[m] = row[m] /\ cache'[m] = cache[m]
          /\ m \in torn' <=> m \in torn
          /\ total'[m] + lost'[m] = total[m]
    <2> TAKE m \in Nodes \ {n}
    <2>1. row'[m] = row[m] /\ cache'[m] = cache[m]
      BY DEF LedgerTypeOK, Track
    <2>2. m \in torn' <=> m \in torn
      BY DEF Ends, Fails
    <2>3. total'[m] + lost'[m] = total[m]
      BY LedgerNumbers DEF Grows
    <2>4. QED
      BY <2>1, <2>2, <2>3
  <1>5. n \notin torn' /\ row'[n].status = "active" => Known(cache'[n]) = row'[n].tokens
    BY <1>1 DEF Fails
  <1>6. n \notin torn => Shown(n)' + lost'[n] >= Shown(n)
    <2>1. Shown(n)' = total'[n] + (IF r.status = "active" THEN r.tokens ELSE 0)
      BY <1>1 DEF Shown
    <2>2. QED
      BY <1>1, <1>2, <2>1 DEF Shown
  <1>7. QED
    BY <1>3, <1>4, <1>5, <1>6 DEF Sound

\* The same for a handler that writes the row.
LEMMA WriteIsSound ==
  ASSUME LedgerInv, NEW n \in Nodes, NEW v \in Nat, NEW t \in Tracked,
         NEW s \in {"active", "inactive"}, NEW c \in Nat,
         Grows(n, v), Track(n, t), Write(n, s, c), UNCHANGED peak,
         saved' \in {saved, cache'},
         \/ Ends(n) /\ (s = "active" => Known(t) = c)
         \/ Fails(n),
         n \notin torn /\ row[n].status = "active"
           => v + (IF s = "active" THEN c ELSE 0) >= row[n].tokens
  PROVE  Sound(n) /\ LedgerTypeOK'
  <1> DEFINE r == [status |-> s, tokens |-> c]
  <1>1. r \in Rows /\ r.status = s /\ r.tokens = c /\ row' = [row EXCEPT ![n] = r]
    BY DEF Rows, Write
  <1>2. Fails(n) => ~Ends(n)
    BY DEF Fails, Ends
  <1> HIDE DEF r
  <1>3. QED
    BY <1>1, <1>2, HandlerIsSound

\* The same for one that leaves it, before or without a statement on it.
LEMMA KeepIsSound ==
  ASSUME LedgerInv, NEW n \in Nodes, NEW v \in Nat, NEW t \in Tracked,
         Grows(n, v), Track(n, t), UNCHANGED <<peak, row>>,
         saved' \in {saved, cache'},
         \/ Ends(n) /\ ~Exists(n)
         \/ Fails(n)
  PROVE  Sound(n) /\ LedgerTypeOK'
  <1> DEFINE r == row[n]
  <1>1. r \in Rows /\ row' = [row EXCEPT ![n] = r] /\ r.tokens \in Nat
    BY LedgerNumbers DEF LedgerInv, LedgerTypeOK
  <1>2. Fails(n) => ~Ends(n)
    BY DEF Fails, Ends
  <1>3. ~Exists(n) => r.status # "active"
    BY DEF Exists
  <1>4. row[n].status = "active"
          => v + (IF r.status = "active" THEN r.tokens ELSE 0) >= row[n].tokens
    BY <1>1
  <1> HIDE DEF r
  <1>5. QED
    BY <1>1, <1>2, <1>3, <1>4, HandlerIsSound

-----------------------------------------------------------------------------
(* The handlers.                                                           *)

\* register_node alone, or failing.
LEMMA RegisterIsSound ==
  ASSUME LedgerInv, NEW n \in Nodes, Register(n)
  PROVE  Sound(n) /\ LedgerTypeOK'
  <1>1. PICK c \in Nat, seen \in BOOLEAN :
          /\ Registering(n, c, seen, 0)
          /\ Track(n, RegisterTracks(n, c, seen))
          /\ UNCHANGED <<peak, saved>>
          /\ \/ Write(n, "active", c) /\ Ends(n)
             \/ UNCHANGED row /\ Fails(n)
    BY LedgerNumbers DEF Register, LedgerInv
  <1> DEFINE v == Restarted(Seed(n, seen), c) + LegacyAdds(n, c, seen) + 0
  <1>2. v \in Nat /\ Grows(n, v)
    BY <1>1, RegisterNumbers, AllAddedGrows DEF Registering, LedgerInv
  <1>3. n \notin torn /\ row[n].status = "active" => v + c >= row[n].tokens
    BY RegisterNumbers, LedgerNumbers DEF LedgerInv
  <1>4. RegisterTracks(n, c, seen) \in Tracked /\ Known(RegisterTracks(n, c, seen)) = c
    BY RegisterNumbers
  <1> HIDE DEF v
  <1>5. CASE Write(n, "active", c) /\ Ends(n)
    BY <1>1, <1>2, <1>3, <1>4, <1>5, WriteIsSound
  <1>6. CASE UNCHANGED row /\ Fails(n)
    BY <1>1, <1>2, <1>4, <1>6, KeepIsSound
  <1>7. QED
    BY <1>1, <1>5, <1>6

\* register_node, then update_node_metrics with no counters.
LEMMA ProbedIsSound ==
  ASSUME LedgerInv, NEW n \in Nodes, RegisterProbed(n)
  PROVE  Sound(n) /\ LedgerTypeOK'
  <1>1. PICK c \in Nat, seen \in BOOLEAN :
          /\ Registering(n, c, seen, c)
          /\ Track(n, 0)
          /\ UNCHANGED peak
          /\ \/ Write(n, "active", 0) /\ Persist /\ Ends(n)
             \/ Write(n, "active", c) /\ UNCHANGED saved /\ Fails(n)
    BY LedgerNumbers DEF RegisterProbed, LedgerInv
  <1> DEFINE v == Restarted(Seed(n, seen), c) + LegacyAdds(n, c, seen) + c
  <1>2. v \in Nat /\ Grows(n, v)
    BY <1>1, RegisterNumbers, AllAddedGrows DEF Registering, LedgerInv
  <1>3. /\ n \notin torn /\ row[n].status = "active"
             => v + 0 >= row[n].tokens /\ v + c >= row[n].tokens
        /\ 0 \in Tracked /\ Known(0) = 0
    BY RegisterNumbers, LedgerNumbers, CounterIsTracked DEF LedgerInv
  <1> HIDE DEF v
  <1>4. CASE Write(n, "active", 0) /\ Persist /\ Ends(n)
    BY <1>1, <1>2, <1>3, <1>4, WriteIsSound DEF Persist
  <1>5. CASE Write(n, "active", c) /\ UNCHANGED saved /\ Fails(n)
    BY <1>1, <1>2, <1>3, <1>5, WriteIsSound
  <1>6. QED
    BY <1>1, <1>4, <1>5

\* register_node, then deregister_node.
LEMMA RejectedIsSound ==
  ASSUME LedgerInv, NEW n \in Nodes, RegisterRejected(n)
  PROVE  Sound(n) /\ LedgerTypeOK'
  <1>1. PICK c \in Nat, seen \in BOOLEAN :
          /\ Registering(n, c, seen, c)
          /\ Track(n, IF c > 0 THEN Untracked ELSE RegisterTracks(n, c, seen))
          /\ IF c > 0 THEN Persist ELSE UNCHANGED saved
          /\ UNCHANGED peak
          /\ \/ Write(n, "inactive", c) /\ Ends(n)
             \/ Write(n, "active", c) /\ Fails(n)
    BY LedgerNumbers DEF RegisterRejected, LedgerInv
  <1> DEFINE v == Restarted(Seed(n, seen), c) + LegacyAdds(n, c, seen) + c
             t == IF c > 0 THEN Untracked ELSE RegisterTracks(n, c, seen)
  <1>2. v \in Nat /\ Grows(n, v)
    BY <1>1, RegisterNumbers, AllAddedGrows DEF Registering, LedgerInv
  <1>3. n \notin torn /\ row[n].status = "active"
             => v + 0 >= row[n].tokens /\ v + c >= row[n].tokens
    BY RegisterNumbers, LedgerNumbers DEF LedgerInv
  <1>4. t \in Tracked /\ saved' \in {saved, cache'} /\ Track(n, t)
    BY <1>1, RegisterNumbers DEF Tracked, Persist
  <1> HIDE DEF v, t
  <1>5. CASE Write(n, "inactive", c) /\ Ends(n)
    BY <1>1, <1>2, <1>3, <1>4, <1>5, WriteIsSound
  <1>6. CASE Write(n, "active", c) /\ Fails(n)
    BY <1>1, <1>2, <1>3, <1>4, <1>6, WriteIsSound
  <1>7. QED
    BY <1>1, <1>5, <1>6

\* update_node_metrics, for a heartbeat or an event.
LEMMA UpdateIsSound ==
  ASSUME LedgerInv, NEW n \in Nodes, Heartbeat(n) \/ UpdateEvent(n)
  PROVE  Sound(n) /\ LedgerTypeOK'
  <1>1. PICK c \in Nat :
          /\ Updating(n, c)
          /\ UNCHANGED peak
          /\ \/ Write(n, "active", c) /\ Persist /\ Ends(n)
             \/ ~Exists(n) /\ UNCHANGED row /\ Persist /\ Ends(n)
             \/ /\ UNCHANGED row \/ Write(n, "active", row[n].tokens)
                /\ UNCHANGED saved /\ Fails(n)
    BY LedgerNumbers DEF Heartbeat, UpdateEvent, LedgerInv
  <1> DEFINE v == Restarted(Cached(n), c)
  <1>2. /\ v \in Nat /\ Grows(n, v) /\ Track(n, c) /\ c \in Tracked /\ Known(c) = c
        /\ n \notin torn /\ row[n].status = "active" => v + c >= row[n].tokens
        /\ v + row[n].tokens >= row[n].tokens
        /\ row[n].tokens \in Nat
    BY <1>1, UpdateCovers, AddGrows, CounterIsTracked, LedgerNumbers
    DEF Updating, LedgerInv
  <1> HIDE DEF v
  <1>3. CASE Write(n, "active", c) /\ Persist /\ Ends(n)
    BY <1>1, <1>2, <1>3, WriteIsSound DEF Persist
  <1>4. CASE ~Exists(n) /\ UNCHANGED row /\ Persist /\ Ends(n)
    BY <1>1, <1>2, <1>4, KeepIsSound DEF Persist
  <1>5. CASE /\ UNCHANGED row \/ Write(n, "active", row[n].tokens)
             /\ UNCHANGED saved /\ Fails(n)
    BY <1>1, <1>2, <1>5, WriteIsSound, KeepIsSound
  <1>6. QED
    BY <1>1, <1>3, <1>4, <1>5

\* deregister_node.
LEMMA LeaveIsSound ==
  ASSUME LedgerInv, NEW n \in Nodes, Leave(n)
  PROVE  Sound(n) /\ LedgerTypeOK'
  <1> DEFINE t == IF Cached(n) > 0 THEN Untracked ELSE cache[n]
  <1>1. /\ Cached(n) \in Nat /\ row[n].tokens \in Nat /\ Grows(n, Cached(n))
        /\ UNCHANGED peak
    BY LedgerNumbers, AddGrows DEF Leave, LedgerInv
  <1>2. t \in Tracked /\ Track(n, t) /\ saved' \in {saved, cache'}
    BY DEF Leave, Track, Tracked, Persist, LedgerInv, LedgerTypeOK
  <1>3. n \notin torn /\ row[n].status = "active" => Cached(n) + 0 >= row[n].tokens
    BY <1>1 DEF LedgerInv, CacheFollowsRows
  <1> HIDE DEF t
  <1>4. CASE Write(n, "inactive", row[n].tokens) /\ Ends(n)
    BY <1>1, <1>2, <1>3, <1>4, WriteIsSound
  <1>5. CASE ~Exists(n) /\ UNCHANGED row /\ Ends(n)
    BY <1>1, <1>2, <1>5, KeepIsSound
  <1>6. CASE UNCHANGED row /\ Fails(n)
    BY <1>1, <1>2, <1>6, KeepIsSound
  <1>7. QED
    BY <1>4, <1>5, <1>6 DEF Leave

-----------------------------------------------------------------------------
(* Stops of the gateway.                                                   *)

\* The cache read at a start of the gateway has its type, and agrees with the
\* rows unless it could not be read.
LEMMA HydrateType ==
  ASSUME LedgerTypeOK, NEW s \in [Nodes -> Tracked], Hydrate(s)
  PROVE  /\ cache' \in [Nodes -> Tracked] /\ torn' \subseteq Nodes
         /\ \A n \in Nodes \ torn' :
              row[n].status = "active" => Known(cache'[n]) = row[n].tokens
  <1>1. \A n \in Nodes : row[n].tokens \in Nat
    BY LedgerNumbers
  <1>2. Hydrated(s) \in [Nodes -> Tracked]
    BY <1>1 DEF Hydrated, Tracked
  <1>3. CASE cache' = Hydrated(s) /\ torn' = {}
    BY <1>1, <1>2, <1>3, CounterIsTracked DEF Hydrated
  <1>4. CASE cache' \in {s, Untouched} /\ torn' = Nodes
    BY <1>4 DEF Untouched, Tracked
  <1>5. QED
    BY <1>3, <1>4 DEF Hydrate

\* A stop that leaves the rows keeps the invariant and what is shown.
LEMMA StopIsSound ==
  ASSUME LedgerInv, NEW s \in [Nodes -> Tracked], Hydrate(s), saved' = s,
         UNCHANGED <<peak, row>>,
         total' \in [Nodes -> Nat], lost' \in [Nodes -> Nat],
         \A m \in Nodes : total'[m] + lost'[m] >= total[m]
  PROVE  LedgerInv' /\ \A m \in Nodes : Shown(m)' + lost'[m] >= Shown(m)
  <1>1. LedgerTypeOK' /\ CacheFollowsRows'
    BY HydrateType DEF LedgerInv, LedgerTypeOK, CacheFollowsRows, Cached
  <1>2. ASSUME NEW m \in Nodes
        PROVE  Shown(m)' + lost'[m] >= Shown(m)
    <2>1. /\ row[m].tokens \in Nat /\ total[m] \in Nat
          /\ total'[m] \in Nat /\ lost'[m] \in Nat
          /\ total'[m] + lost'[m] >= total[m] /\ row'[m] = row[m]
      BY LedgerNumbers DEF LedgerInv
    <2>2. QED
      BY <2>1 DEF Shown
  <1>3. QED
    BY <1>1, <1>2 DEF LedgerInv

-----------------------------------------------------------------------------

\* Every step keeps the invariant, and no node's tokens fall but by what is
\* lost, or because its row and the cache were parted before.
LEMMA LedgerStep ==
  ASSUME LedgerInv, [LedgerNext]_ledgerVars
  PROVE  /\ LedgerInv'
         /\ UNCHANGED ledgerVars
              \/ \A n \in Nodes \ torn : Shown(n)' + lost'[n] >= Shown(n)
  <1> DEFINE Kept == \A n \in Nodes \ torn : Shown(n)' + lost'[n] >= Shown(n)
  <1>0. \A n \in Nodes : total[n] \in Nat /\ row[n].tokens \in Nat
    BY LedgerNumbers DEF LedgerInv
  <1>1. ASSUME NEW n \in Nodes, Generate(n)
        PROVE  LedgerInv' /\ Kept
    <2>1. UNCHANGED <<row, total, cache, saved, torn>> /\ lost' = Nothing
      BY <1>1 DEF Generate
    <2>2. LedgerTypeOK'
      BY <1>1, <2>1 DEF Generate, LedgerInv, LedgerTypeOK, Nothing
    <2>3. CacheFollowsRows'
      BY <2>1 DEF LedgerInv, CacheFollowsRows, Cached
    <2>4. QED
      BY <1>0, <2>1, <2>2, <2>3 DEF LedgerInv, Shown, Nothing
  <1>2. ASSUME NEW n \in Nodes,
               \/ Register(n) \/ RegisterProbed(n) \/ RegisterRejected(n)
               \/ Heartbeat(n) \/ UpdateEvent(n) \/ Leave(n)
        PROVE  LedgerInv' /\ Kept
    <2>1. Sound(n) /\ LedgerTypeOK'
      BY <1>2, RegisterIsSound, ProbedIsSound, RejectedIsSound, UpdateIsSound,
         LeaveIsSound
    <2>2. ASSUME NEW m \in Nodes \ {n}
          PROVE  Shown(m)' + lost'[m] >= Shown(m)
      <3>1. /\ row'[m] = row[m] /\ total'[m] + lost'[m] = total[m]
            /\ total[m] \in Nat /\ row[m].tokens \in Nat
            /\ total'[m] \in Nat /\ lost'[m] \in Nat
        BY <1>0, <2>1 DEF Sound, LedgerTypeOK
      <3>2. QED
        BY <3>1 DEF Shown
    <2>3. CacheFollowsRows'
      BY <2>1 DEF Sound, CacheFollowsRows, Cached, LedgerInv
    <2>4. QED
      BY <2>1, <2>2, <2>3 DEF Sound, LedgerInv
  <1>3. ASSUME NEW n \in Nodes, StopsInLeave(n)
        PROVE  LedgerInv' /\ Kept
    <2>1. saved' \in [Nodes -> Tracked]
      BY <1>3 DEF StopsInLeave, LedgerInv, LedgerTypeOK, Tracked
    <2>2. Grows(n, Cached(n)) /\ Cached(n) \in Nat
      BY <1>3, LedgerNumbers, AddGrows DEF StopsInLeave, LedgerInv
    <2>3. /\ total' \in [Nodes -> Nat] /\ lost' \in [Nodes -> Nat]
          /\ \A m \in Nodes : total'[m] + lost'[m] >= total[m]
      BY <1>0, <2>2 DEF Grows
    <2>4. QED
      BY <1>3, <2>1, <2>3, StopIsSound DEF StopsInLeave
  <1>4. ASSUME GatewayRestarts
        PROVE  LedgerInv' /\ Kept
    <2>1. saved' = saved /\ saved \in [Nodes -> Tracked]
      BY <1>4 DEF GatewayRestarts, LedgerInv, LedgerTypeOK
    <2>2. /\ total' \in [Nodes -> Nat] /\ lost' \in [Nodes -> Nat]
          /\ \A m \in Nodes : total'[m] + lost'[m] >= total[m]
      BY <1>0, <1>4 DEF GatewayRestarts, Nothing, LedgerInv, LedgerTypeOK
    <2>3. QED
      BY <1>4, <2>1, <2>2, StopIsSound DEF GatewayRestarts
  <1>5. CASE UNCHANGED ledgerVars
    BY <1>5 DEF ledgerVars, LedgerInv, LedgerTypeOK, CacheFollowsRows, Cached
  <1>6. QED
    BY <1>1, <1>2, <1>3, <1>4, <1>5 DEF LedgerNext

\* LedgerTypeOK holds of every number of nodes, whatever they report.
THEOREM LedgerTypeCorrect == LedgerSpec => []LedgerTypeOK
  <1>1. LedgerInv /\ [LedgerNext]_ledgerVars => LedgerInv'
    BY LedgerStep
  <1>2. LedgerInv => LedgerTypeOK
    BY DEF LedgerInv
  <1>3. QED
    BY <1>1, <1>2, LedgerInitInv, PTL DEF LedgerSpec

\* Through restarts of the gateway, late reports and failing statements, the
\* cache agrees with the rows of active nodes whose last handler, and the
\* reading of the cache, were not cut short.
THEOREM CacheCorrect == LedgerSpec => []CacheFollowsRows
  <1>1. LedgerInv /\ [LedgerNext]_ledgerVars => LedgerInv'
    BY LedgerStep
  <1>2. LedgerInv => CacheFollowsRows
    BY DEF LedgerInv
  <1>3. QED
    BY <1>1, <1>2, LedgerInitInv, PTL DEF LedgerSpec

\* No restart, departure, rejoin or late report makes the tokens shown for a
\* node fall but by what a failing statement on the total drops, unless its row
\* and the cache had been parted.
THEOREM ShownCorrect == LedgerSpec => ShownNeverFalls
  <1>1. LedgerInv /\ [LedgerNext]_ledgerVars => LedgerInv'
    BY LedgerStep
  <1>2. LedgerInv /\ [LedgerNext]_ledgerVars
          => [\A n \in Nodes \ torn : Shown(n)' + lost'[n] >= Shown(n)]_ledgerVars
    BY LedgerStep
  <1>3. QED
    BY <1>1, <1>2, LedgerInitInv, PTL DEF LedgerSpec, ShownNeverFalls
=============================================================================
