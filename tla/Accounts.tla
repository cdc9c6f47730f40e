------------------------------ MODULE Accounts ------------------------------
(***************************************************************************)
(* What signed-in users do at the gateway: API keys (gateway/server.py,     *)
(* gateway/supabase_client.py) and nodes of their own with a Cloudflare      *)
(* tunnel (gateway/node_registry.py).                                       *)
(*                                                                         *)
(* A statement of the database does not suspend the gateway; reading a       *)
(* request's body and each call of Cloudflare do, and the code after them    *)
(* goes on with what it read before.  Any statement may fail.  The code       *)
(* swallows that: a list of keys that cannot be read is an empty one, and a  *)
(* row that is not stored is not missed.  Everything made for a node is      *)
(* named after it, and calls for other nodes or users do not touch it, so    *)
(* there is one user and one node.                                         *)
(***************************************************************************)
EXTENDS Naturals, FiniteSets

CONSTANTS
  KeyIds,     \* rows of api_keys the user may come to have
  MaxKeys,    \* active keys an account may have
  Creates,    \* calls of create_api_key that can be under way at a time
  Registers,  \* calls of register_node that can be under way at a time
  Deregisters,\* calls of deregister that can be under way at a time
  Tunnels,    \* ids that Cloudflare gives
  None        \* no tunnel

ASSUME AccountsAssumption ==
  /\ IsFiniteSet(KeyIds) /\ IsFiniteSet(Creates) /\ MaxKeys \in Nat
  /\ None \notin Tunnels

VARIABLES
  key,      \* key[i]: the row of a key
  reading,  \* calls of create_api_key that await the body
  blind,    \* observer: those of them that could not read the list of keys
  extra,    \* observer: the active keys that such calls have made
  tunnel,   \* Cloudflare's tunnel with the node's name
  made,     \* ids it has given
  dns,      \* the tunnel its DNS record of the node's name leads to
  row,      \* the node's row of tunnel_state
  call,     \* call[x]: a call of register_node or deregister
  excused   \* observer: the tunnels that may exist though no row names them

keyVars == <<key, reading, blind, extra>>
tunnelVars == <<tunnel, made, dns, row, call, excused>>
accountsVars == <<keyVars, tunnelVars>>

\* A row, and what a call holds: a tunnel and whether its record is known.
Row == [tunnel : Tunnels \cup {None}, dns : BOOLEAN]
NoRow == [tunnel |-> None, dns |-> FALSE]
Idle == [at |-> "idle", held |-> NoRow]

AccountsTypeOK ==
  /\ key \in [KeyIds -> {"absent", "active", "revoked"}]
  /\ reading \subseteq Creates /\ blind \subseteq reading
  /\ extra \subseteq KeyIds
  /\ tunnel \in made \cup {None} /\ made \subseteq Tunnels
  /\ dns \in made \cup {None}
  /\ row \in Row
  /\ call \in [Registers \cup Deregisters ->
                 [at : {"idle", "creating", "naming", "unnaming", "deleting"}, held : Row]]
  /\ excused \subseteq made

AccountsInit ==
  /\ key = [i \in KeyIds |-> "absent"]
  /\ reading = {} /\ blind = {} /\ extra = {}
  /\ tunnel = None /\ made = {} /\ dns = None /\ row = NoRow
  /\ call = [x \in Registers \cup Deregisters |-> Idle]
  /\ excused = {}

-----------------------------------------------------------------------------
(* API keys.                                                               *)

Active == {i \in KeyIds : key[i] = "active"}

\* Mutant: the limit is tested one too late.
HasRoomForOneMore == Cardinality(Active) <= MaxKeys

HasRoom == Cardinality(Active) < MaxKeys

\* The keys are counted, then the body is read.  When the list of keys cannot
\* be read, none are counted.
CountKeys(c) ==
  /\ c \notin reading
  /\ reading' = reading \cup {c}
  /\ \/ HasRoom /\ UNCHANGED blind
     \/ 0 < MaxKeys /\ blind' = blind \cup {c}
  /\ UNCHANGED <<key, extra, tunnelVars>>

\* The row is inserted, or the body or the statement fails.
InsertKey(c) ==
  /\ c \in reading
  /\ reading' = reading \ {c} /\ blind' = blind \ {c}
  /\ \/ UNCHANGED <<key, extra>>
     \/ \E i \in KeyIds :
          /\ key[i] = "absent" /\ key' = [key EXCEPT ![i] = "active"]
          /\ extra' = IF c \in blind THEN extra \cup {i} ELSE extra
  /\ UNCHANGED tunnelVars

Revoke(i) ==
  /\ key[i] # "absent"
  /\ key' = [key EXCEPT ![i] = "revoked"] /\ extra' = extra \ {i}
  /\ UNCHANGED <<reading, blind, tunnelVars>>

-----------------------------------------------------------------------------
(* Registration.                                                           *)

Goes(x, at, held) == call' = [call EXCEPT ![x] = [at |-> at, held |-> held]]
Returns(x) == call' = [call EXCEPT ![x] = Idle]

\* The node is listed, and wants a tunnel.
Register(x) ==
  /\ call[x].at = "idle"
  /\ Goes(x, "creating", NoRow)
  /\ UNCHANGED <<keyVars, tunnel, made, dns, row, excused>>

\* create_tunnel gives a tunnel, if there is none of that name.
TunnelMade(x) ==
  /\ call[x].at = "creating" /\ tunnel = None
  /\ \E t \in Tunnels \ made :
       /\ tunnel' = t /\ made' = made \cup {t}
       /\ \/ Goes(x, "naming", [tunnel |-> t, dns |-> FALSE]) /\ UNCHANGED excused
          \/ Returns(x) /\ excused' = excused \cup {t}
  /\ UNCHANGED <<keyVars, dns, row>>

\* It fails: the node stays listed as it is.
NoTunnel(x) ==
  /\ call[x].at = "creating"
  /\ Returns(x)
  /\ UNCHANGED <<keyVars, tunnel, made, dns, row, excused>>

\* Mutant: a tunnel without a DNS record is not stored.
StoreIfNamed(x, known) ==
  /\ IF known THEN row' = [tunnel |-> call[x].held.tunnel, dns |-> TRUE]
     ELSE UNCHANGED row
  /\ UNCHANGED excused

\* store_tunnel; when it fails, that is not noticed.
Store(x, known) ==
  \/ row' = [tunnel |-> call[x].held.tunnel, dns |-> known] /\ UNCHANGED excused
  \/ UNCHANGED row /\ excused' = excused \cup {call[x].held.tunnel}

\* create_dns makes a record, if there is none of that name, or fails; its
\* answer may be lost.  The tunnel is stored in any case, and the node listed
\* with its URL.
Named(x) ==
  /\ call[x].at = "naming"
  /\ \/ /\ dns = None /\ dns' = call[x].held.tunnel
        /\ \E known \in BOOLEAN : Store(x, known)
     \/ UNCHANGED dns /\ Store(x, FALSE)
  /\ Returns(x)
  /\ UNCHANGED <<keyVars, tunnel, made>>

-----------------------------------------------------------------------------
(* Deregistration.                                                         *)

\* The row is read once; without one there is nothing to take down.
Deregister(x) ==
  /\ call[x].at = "idle" /\ row # NoRow
  /\ Goes(x, IF row.dns THEN "unnaming" ELSE "deleting", row)
  /\ UNCHANGED <<keyVars, tunnel, made, dns, row, excused>>

\* delete_dns, or its failure, which is ignored.
Unnamed(x) ==
  /\ call[x].at = "unnaming"
  /\ \/ dns' = IF dns = call[x].held.tunnel THEN None ELSE dns
     \/ UNCHANGED dns
  /\ Goes(x, "deleting", call[x].held)
  /\ UNCHANGED <<keyVars, tunnel, made, row, excused>>

\* delete_tunnel, or its failure, which is ignored; then the row is deleted,
\* whatever it names by now, or that fails.
Deleted(x) ==
  /\ call[x].at = "deleting"
  /\ \E gone, cleared \in BOOLEAN :
       /\ tunnel' = IF gone /\ tunnel = call[x].held.tunnel THEN None ELSE tunnel
       /\ row' = IF cleared THEN NoRow ELSE row
       /\ excused' = IF cleared /\ (~gone \/ row # call[x].held)
                     THEN excused \cup ({row.tunnel} \ {None}) ELSE excused
  /\ Returns(x)
  /\ UNCHANGED <<keyVars, made, dns>>

AccountsNext ==
  \/ \E c \in Creates : CountKeys(c) \/ InsertKey(c)
  \/ \E i \in KeyIds : Revoke(i)
  \/ \E x \in Registers : Register(x) \/ TunnelMade(x) \/ NoTunnel(x) \/ Named(x)
  \/ \E x \in Deregisters : Deregister(x) \/ Unnamed(x) \/ Deleted(x)

AccountsSpec == AccountsInit /\ [][AccountsNext]_accountsVars

-----------------------------------------------------------------------------
(* Properties.                                                             *)

\* Keys are counted before the body is read and inserted after it.  Leaving
\* aside the keys of calls that could not read the list, of which there is no
\* limit, an account exceeds its limit by no more than the other calls under way.
KeysBounded == Cardinality(Active \ extra) + 1 <= MaxKeys + Cardinality(Creates)

\* A tunnel that Cloudflare has and no row names, so that nobody will delete it
\* and no later registration gets one, is being stored or has one of four
\* excuses: the answer that brought it was lost, it could not be stored or not
\* be deleted, or it was stored while a deregistration was under way.  That a
\* name cannot be given, or not be taken back, leaks nothing.
LeakHasCause ==
  tunnel # None /\ row.tunnel # tunnel =>
    \/ tunnel \in excused
    \/ \E x \in Registers : call[x].at = "naming" /\ call[x].held.tunnel = tunnel
=============================================================================
