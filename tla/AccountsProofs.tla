--------------------------- MODULE AccountsProofs ---------------------------
(* The limit of keys and the tunnels that leak, for any number of keys, calls *)
(* and tunnels.                                                              *)
EXTENDS Accounts, FiniteSetTheorems, TLAPS

\* A call of create_api_key that awaits the body still has its key to come.
\* Calls that could not read the list of keys are left aside with their keys.
Counted == Active \ extra
Sighted == reading \ blind

KeysInv == Cardinality(Counted) + Cardinality(Sighted) + 1 <= MaxKeys + Cardinality(Creates)

\* What a row, or a call that takes a tunnel down, names has been made.
NamesMade ==
  /\ row.tunnel \in made \cup {None}
  /\ \A x \in Registers \cup Deregisters : call[x].held.tunnel \in made \cup {None}

\* The tunnel that is being named is the one there is; no row names it, and
\* nobody else has got hold of it.
NamingAlone ==
  \A x \in Registers \cup Deregisters : call[x].at = "naming" =>
    /\ tunnel # None /\ call[x].held.tunnel = tunnel
    /\ row.tunnel # tunnel
    /\ \A y \in (Registers \cup Deregisters) \ {x} : call[y].held.tunnel # tunnel

LeakInv == NamesMade /\ NamingAlone /\ LeakHasCause

-----------------------------------------------------------------------------
\* Types.

Ids == Registers \cup Deregisters
Ats == {"idle", "creating", "naming", "unnaming", "deleting"}

\* One call moves on, and the others stay where they are.
LEMMA CallMoves ==
  ASSUME AccountsTypeOK, NEW x \in Ids, NEW at \in Ats, NEW held \in Row,
         Goes(x, at, held) \/ (Returns(x) /\ at = "idle" /\ held = NoRow)
  PROVE  /\ call' \in [Ids -> [at : Ats, held : Row]]
         /\ call'[x].at = at /\ call'[x].held = held
         /\ \A y \in Ids \ {x} : call'[y] = call[y]
<1>1. call' = [call EXCEPT ![x] = [at |-> at, held |-> held]]
  BY DEF Goes, Returns, Idle
<1>2. call \in [Ids -> [at : Ats, held : Row]]
  BY DEF AccountsTypeOK, Ids, Ats
<1>3. [at |-> at, held |-> held] \in [at : Ats, held : Row]
  OBVIOUS
<1> QED
  BY <1>1, <1>2, <1>3

LEMMA RowTypes ==
  /\ NoRow \in Row
  /\ \A t \in Tunnels, k \in BOOLEAN : [tunnel |-> t, dns |-> k] \in Row
  /\ \A r \in Row : r.tunnel \in Tunnels \cup {None}
BY DEF NoRow, Row

LEMMA TypeInduction ==
  ASSUME AccountsTypeOK, NamesMade, NamingAlone, [AccountsNext]_accountsVars
  PROVE  AccountsTypeOK'
<1>1. /\ call \in [Ids -> [at : Ats, held : Row]]
      /\ row \in Row /\ made \subseteq Tunnels /\ tunnel \in made \cup {None}
      /\ \A x \in Ids : call[x].held \in Row
  BY DEF AccountsTypeOK, Ids, Ats
<1>2. ASSUME NEW c \in Creates, CountKeys(c) \/ InsertKey(c)
      PROVE  AccountsTypeOK'
  BY <1>2 DEF CountKeys, InsertKey, tunnelVars, AccountsTypeOK
<1>3. ASSUME NEW i \in KeyIds, Revoke(i)
      PROVE  AccountsTypeOK'
  BY <1>3 DEF Revoke, tunnelVars, AccountsTypeOK
<1>4. ASSUME NEW x \in Ids, Register(x) \/ NoTunnel(x)
      PROVE  AccountsTypeOK'
  <2>1. call' \in [Ids -> [at : Ats, held : Row]]
    <3>1. CASE Register(x)
      BY <3>1, RowTypes, CallMoves DEF Register, Ats
    <3>2. CASE NoTunnel(x)
      BY <3>2, RowTypes, CallMoves DEF NoTunnel, Ats
    <3> QED
      BY <1>4, <3>1, <3>2
  <2>2. UNCHANGED <<keyVars, tunnel, made, dns, row, excused>>
    BY <1>4 DEF Register, NoTunnel
  <2> QED
    BY <2>1, <2>2 DEF AccountsTypeOK, keyVars, Ids, Ats
<1>5. ASSUME NEW x \in Ids, TunnelMade(x)
      PROVE  AccountsTypeOK'
  <2>1. PICK t \in Tunnels \ made :
          /\ tunnel' = t /\ made' = made \cup {t}
          /\ \/ Goes(x, "naming", [tunnel |-> t, dns |-> FALSE]) /\ UNCHANGED excused
             \/ Returns(x) /\ excused' = excused \cup {t}
    BY <1>5 DEF TunnelMade
  <2>2. call' \in [Ids -> [at : Ats, held : Row]]
    BY <2>1, RowTypes, CallMoves DEF Ats
  <2>3. UNCHANGED <<keyVars, dns, row>>
    BY <1>5 DEF TunnelMade
  <2> QED
    BY <2>1, <2>2, <2>3 DEF AccountsTypeOK, keyVars, Ids, Ats
<1>6. ASSUME NEW x \in Ids, Named(x)
      PROVE  AccountsTypeOK'
  <2>1. call[x].held.tunnel = tunnel /\ tunnel \in made /\ tunnel \in Tunnels
    BY <1>1, <1>6 DEF Named, NamingAlone, Ids
  <2>2. call' \in [Ids -> [at : Ats, held : Row]]
    BY <1>6, RowTypes, CallMoves DEF Named, Ats
  <2>3. /\ dns' \in {dns, tunnel}
        /\ \E known \in BOOLEAN : Store(x, known)
        /\ UNCHANGED <<keyVars, tunnel, made>>
    BY <1>6, <2>1 DEF Named
  <2>4. row' \in Row /\ excused' \subseteq made
    BY <1>1, <2>1, <2>3, RowTypes DEF Store, AccountsTypeOK
  <2> QED
    BY <2>1, <2>2, <2>3, <2>4 DEF AccountsTypeOK, keyVars, Ids, Ats
<1>7. ASSUME NEW x \in Ids, Deregister(x)
      PROVE  AccountsTypeOK'
  <2>1. call' \in [Ids -> [at : Ats, held : Row]]
    <3>1. PICK at \in Ats : Goes(x, at, row)
      BY <1>7 DEF Deregister, Ats
    <3> QED
      BY <1>1, <3>1, CallMoves
  <2>2. UNCHANGED <<keyVars, tunnel, made, dns, row, excused>>
    BY <1>7 DEF Deregister
  <2> QED
    BY <2>1, <2>2 DEF AccountsTypeOK, keyVars, Ids, Ats
<1>8. ASSUME NEW x \in Ids, Unnamed(x)
      PROVE  AccountsTypeOK'
  <2>1. call' \in [Ids -> [at : Ats, held : Row]]
    BY <1>1, <1>8, CallMoves DEF Unnamed, Ats
  <2>2. dns' \in {dns, None} /\ UNCHANGED <<keyVars, tunnel, made, row, excused>>
    BY <1>8 DEF Unnamed
  <2> QED
    BY <2>1, <2>2 DEF AccountsTypeOK, keyVars, Ids, Ats
<1>9. ASSUME NEW x \in Ids, Deleted(x)
      PROVE  AccountsTypeOK'
  <2>1. call' \in [Ids -> [at : Ats, held : Row]]
    BY <1>9, RowTypes, CallMoves DEF Deleted, Ats
  <2>2. /\ tunnel' \in {tunnel, None} /\ row' \in {row, NoRow}
        /\ excused' \subseteq excused \cup ({row.tunnel} \ {None})
        /\ UNCHANGED <<keyVars, made, dns>>
    BY <1>9 DEF Deleted
  <2>3. excused' \subseteq made
    BY <2>2 DEF NamesMade, AccountsTypeOK
  <2> QED
    BY <2>1, <2>2, <2>3, RowTypes DEF AccountsTypeOK, keyVars, Ids, Ats
<1>10. CASE UNCHANGED accountsVars
  BY <1>10 DEF accountsVars, keyVars, tunnelVars, AccountsTypeOK
<1> QED
  BY <1>2, <1>3, <1>4, <1>5, <1>6, <1>7, <1>8, <1>9, <1>10 DEF AccountsNext, Ids

-----------------------------------------------------------------------------
\* Keys.

LEMMA Finite ==
  /\ IsFiniteSet(Active) /\ Cardinality(Active) \in Nat
  /\ IsFiniteSet(Counted) /\ Cardinality(Counted) \in Nat
  /\ Cardinality(Counted) <= Cardinality(Active)
  /\ AccountsTypeOK => IsFiniteSet(Sighted) /\ Cardinality(Sighted) \in Nat
  /\ AccountsTypeOK => Cardinality(Sighted) <= Cardinality(Creates)
  /\ Cardinality(Creates) \in Nat /\ MaxKeys \in Nat
<1>1. Active \subseteq KeyIds /\ Counted \subseteq Active /\ IsFiniteSet(KeyIds)
  BY AccountsAssumption DEF Active, Counted
<1>2. AccountsTypeOK => Sighted \subseteq Creates
  BY DEF AccountsTypeOK, Sighted
<1> QED
  BY <1>1, <1>2, AccountsAssumption, FS_Subset, FS_CardinalityType

\* With fewer keys and no more calls that count, the bound stays.
LEMMA FewerKeys ==
  ASSUME AccountsTypeOK, AccountsTypeOK', KeysInv,
         Counted' \subseteq Counted, Sighted' \subseteq Sighted
  PROVE  KeysInv'
<1>1. Cardinality(Counted') <= Cardinality(Counted) /\ Cardinality(Counted') \in Nat
  BY Finite, FS_Subset, FS_CardinalityType
<1>2. Cardinality(Sighted') <= Cardinality(Sighted) /\ Cardinality(Sighted') \in Nat
  BY Finite, FS_Subset, FS_CardinalityType
<1> QED
  BY <1>1, <1>2, Finite DEF KeysInv

LEMMA KeysInduction ==
  ASSUME AccountsTypeOK, AccountsTypeOK', KeysInv, [AccountsNext]_accountsVars
  PROVE  KeysInv'
<1>1. ASSUME NEW c \in Creates, CountKeys(c)
      PROVE  KeysInv'
  <2>1. CASE HasRoom /\ UNCHANGED blind
    <3>1. Cardinality(Active) < MaxKeys /\ Counted' = Counted
      BY <1>1, <2>1 DEF CountKeys, HasRoom, Active, Counted
    <3>2. Cardinality(Sighted') <= Cardinality(Creates) /\ Cardinality(Sighted') \in Nat
      <4>1. Sighted' \subseteq Creates
        BY DEF AccountsTypeOK, Sighted
      <4> QED
        BY <4>1, AccountsAssumption, FS_Subset, FS_CardinalityType
    <3> QED
      BY <3>1, <3>2, Finite DEF KeysInv
  <2>2. CASE blind' = blind \cup {c}
    <3>1. Counted' = Counted /\ Sighted' \subseteq Sighted
      BY <1>1, <2>2 DEF CountKeys, Active, Counted, Sighted
    <3> QED
      BY <3>1, FewerKeys
  <2> QED
    BY <1>1, <2>1, <2>2 DEF CountKeys
<1>2. ASSUME NEW c \in Creates, InsertKey(c)
      PROVE  KeysInv'
  <2>1. CASE UNCHANGED <<key, extra>>
    <3>1. Counted' = Counted /\ Sighted' \subseteq Sighted
      BY <1>2, <2>1 DEF InsertKey, Active, Counted, Sighted
    <3> QED
      BY <3>1, FewerKeys
  <2>2. ASSUME NEW i \in KeyIds, key[i] = "absent", key' = [key EXCEPT ![i] = "active"],
               extra' = IF c \in blind THEN extra \cup {i} ELSE extra
        PROVE  KeysInv'
    <3>1. Active' = Active \cup {i} /\ i \notin Active
      BY <2>2 DEF Active, AccountsTypeOK
    <3>2. CASE c \in blind
      <4>1. Counted' \subseteq Counted /\ Sighted' \subseteq Sighted
        BY <1>2, <2>2, <3>1, <3>2 DEF InsertKey, Counted, Sighted
      <4> QED
        BY <4>1, FewerKeys
    <3>3. CASE c \notin blind
      <4>1. Counted' \subseteq Counted \cup {i} /\ i \notin Counted
        BY <2>2, <3>1, <3>3 DEF Counted
      <4>2. /\ Cardinality(Counted \cup {i}) = Cardinality(Counted) + 1
            /\ IsFiniteSet(Counted \cup {i})
        BY <4>1, Finite, FS_AddElement
      <4>3. Cardinality(Counted') <= Cardinality(Counted) + 1 /\ Cardinality(Counted') \in Nat
        BY <4>1, <4>2, FS_Subset, FS_CardinalityType
      <4>4. Sighted' = Sighted \ {c} /\ c \in Sighted
        BY <1>2, <3>3 DEF InsertKey, Sighted
      <4>5. Cardinality(Sighted') = Cardinality(Sighted) - 1
        BY <4>4, Finite, FS_RemoveElement
      <4> QED
        BY <4>3, <4>5, Finite DEF KeysInv
    <3> QED
      BY <3>2, <3>3
  <2> QED
    BY <1>2, <2>1, <2>2 DEF InsertKey
<1>3. ASSUME NEW i \in KeyIds, Revoke(i)
      PROVE  KeysInv'
  <2>1. Counted' \subseteq Counted /\ Sighted' = Sighted
    BY <1>3 DEF Revoke, Active, Counted, Sighted, AccountsTypeOK
  <2> QED
    BY <2>1, FewerKeys
<1>4. CASE UNCHANGED keyVars
  BY <1>4 DEF keyVars, KeysInv, Active, Counted, Sighted
<1>5. ASSUME NEW x \in Ids,
             \/ Register(x) \/ TunnelMade(x) \/ NoTunnel(x) \/ Named(x)
             \/ Deregister(x) \/ Unnamed(x) \/ Deleted(x)
      PROVE  UNCHANGED keyVars
  BY <1>5 DEF Register, TunnelMade, NoTunnel, Named, Deregister, Unnamed, Deleted
<1> QED
  BY <1>1, <1>2, <1>3, <1>4, <1>5 DEF AccountsNext, accountsVars, Ids

-----------------------------------------------------------------------------
\* Tunnels.

\* A call that moves on without a tunnel of its own leaves no leak.
LEMMA LeakStays ==
  ASSUME AccountsTypeOK, LeakInv, NEW x \in Ids, call[x].at # "naming",
         UNCHANGED <<tunnel, made, row, excused>>,
         call'[x].at # "naming", call'[x].held \in {NoRow, row, call[x].held},
         \A y \in Ids \ {x} : call'[y] = call[y]
  PROVE  LeakInv'
<1>1. NamesMade'
  BY DEF LeakInv, NamesMade, NoRow, Ids
<1>2. NamingAlone'
  <2> SUFFICES ASSUME NEW y \in Ids, call'[y].at = "naming"
               PROVE  /\ tunnel # None /\ call'[y].held.tunnel = tunnel
                      /\ row.tunnel # tunnel
                      /\ \A z \in Ids \ {y} : call'[z].held.tunnel # tunnel
    BY DEF NamingAlone, Ids
  <2>1. y # x /\ call'[y] = call[y]
    OBVIOUS
  <2>2. /\ tunnel # None /\ call[y].held.tunnel = tunnel
        /\ row.tunnel # tunnel
        /\ \A z \in Ids \ {y} : call[z].held.tunnel # tunnel
    BY <2>1 DEF LeakInv, NamingAlone, Ids
  <2>3. call'[x].held.tunnel # tunnel
    BY <2>1, <2>2 DEF NoRow
  <2> QED
    BY <2>1, <2>2, <2>3
<1>3. LeakHasCause'
  BY DEF LeakInv, LeakHasCause, Ids
<1> QED
  BY <1>1, <1>2, <1>3 DEF LeakInv

LEMMA LeakInduction ==
  ASSUME AccountsTypeOK, LeakInv, [AccountsNext]_accountsVars
  PROVE  LeakInv'
<1>0. /\ row \in Row /\ NoRow \in Row /\ made \subseteq Tunnels /\ None \notin made
      /\ tunnel \in made \cup {None} /\ row.tunnel \in made \cup {None}
      /\ \A x \in Ids : call[x].held \in Row /\ call[x].held.tunnel \in made \cup {None}
  BY RowTypes, AccountsAssumption DEF AccountsTypeOK, LeakInv, NamesMade, Ids
<1>1. CASE UNCHANGED tunnelVars
  BY <1>1 DEF tunnelVars, LeakInv, NamesMade, NamingAlone, LeakHasCause
<1>2. ASSUME NEW x \in Ids, Register(x) \/ NoTunnel(x) \/ Deregister(x) \/ Unnamed(x)
      PROVE  LeakInv'
  <2>1. \E at \in Ats \ {"naming"}, held \in {NoRow, row, call[x].held} :
          Goes(x, at, held) \/ (Returns(x) /\ at = "idle" /\ held = NoRow)
    BY <1>2 DEF Register, NoTunnel, Deregister, Unnamed, Ats
  <2>2. UNCHANGED <<tunnel, made, row, excused>> /\ call[x].at # "naming"
    BY <1>2 DEF Register, NoTunnel, Deregister, Unnamed
  <2> QED
    BY <1>0, <2>1, <2>2, CallMoves, LeakStays
<1>3. ASSUME NEW x \in Registers, TunnelMade(x)
      PROVE  LeakInv'
  <2>0. x \in Ids
    BY DEF Ids
  <2>1. PICK t \in Tunnels \ made :
          /\ tunnel' = t /\ made' = made \cup {t}
          /\ \/ Goes(x, "naming", [tunnel |-> t, dns |-> FALSE]) /\ UNCHANGED excused
             \/ Returns(x) /\ excused' = excused \cup {t}
    BY <1>3 DEF TunnelMade
  <2>2. row' = row /\ tunnel = None /\ call[x].at = "creating" /\ t # None
    BY <1>3, AccountsAssumption DEF TunnelMade
  <2>3. \A y \in Ids : call[y].at # "naming" /\ call[y].held.tunnel # t
    BY <1>0, <2>2 DEF LeakInv, NamingAlone, Ids
  <2>4. row.tunnel # t
    BY <1>0, <2>2
  <2>5. CASE Goes(x, "naming", [tunnel |-> t, dns |-> FALSE])
    <3>1. /\ call'[x].at = "naming" /\ call'[x].held.tunnel = t
          /\ \A y \in Ids \ {x} : call'[y] = call[y]
      <4> DEFINE held == [tunnel |-> t, dns |-> FALSE]
      <4>1. held \in Row /\ held.tunnel = t
        BY RowTypes
      <4>2. Goes(x, "naming", held)
        BY <2>5
      <4> HIDE DEF held
      <4>3. "naming" \in Ats
        BY DEF Ats
      <4> QED
        BY <2>0, <4>1, <4>2, <4>3, CallMoves
    <3>2. NamesMade'
      BY <1>0, <2>0, <2>1, <2>2, <3>1 DEF NamesMade, Ids
    <3>3. NamingAlone'
      BY <2>0, <2>1, <2>2, <2>3, <2>4, <3>1 DEF NamingAlone, Ids
    <3>4. LeakHasCause'
      BY <2>1, <3>1 DEF LeakHasCause
    <3> QED
      BY <3>2, <3>3, <3>4 DEF LeakInv
  <2>6. CASE Returns(x) /\ excused' = excused \cup {t}
    <3>1. /\ call'[x].at = "idle" /\ call'[x].held = NoRow
          /\ \A y \in Ids \ {x} : call'[y] = call[y]
      BY <2>0, <2>6, RowTypes, CallMoves DEF Ats
    <3>2. NoRow.tunnel = None
      BY DEF NoRow
    <3>3. NamesMade'
      BY <1>0, <2>1, <2>2, <3>1, <3>2 DEF NamesMade, Ids
    <3>4. NamingAlone'
      BY <2>3, <3>1 DEF NamingAlone, Ids
    <3>5. LeakHasCause'
      BY <2>1, <2>6 DEF LeakHasCause
    <3> QED
      BY <3>3, <3>4, <3>5 DEF LeakInv
  <2> QED
    BY <2>1, <2>5, <2>6
<1>4. ASSUME NEW x \in Ids, Named(x)
      PROVE  LeakInv'
  <2>1. /\ tunnel # None /\ call[x].held.tunnel = tunnel
        /\ \A y \in Ids \ {x} : call[y].at # "naming"
    BY <1>4 DEF Named, LeakInv, NamingAlone, Ids
  <2>2. /\ call'[x].at = "idle" /\ call'[x].held = NoRow
        /\ \A y \in Ids \ {x} : call'[y] = call[y]
    BY <1>4, RowTypes, CallMoves DEF Named, Ats
  <2>3. UNCHANGED <<tunnel, made>> /\ \E known \in BOOLEAN : Store(x, known)
    BY <1>4 DEF Named
  <2>4. row'.tunnel \in {row.tunnel, tunnel} /\ (row'.tunnel = tunnel \/ tunnel \in excused')
    BY <2>1, <2>3 DEF Store
  <2>5. NoRow.tunnel = None
    BY DEF NoRow
  <2>6. NamesMade'
    BY <1>0, <2>2, <2>3, <2>4, <2>5 DEF NamesMade, Ids
  <2>7. NamingAlone'
    BY <2>1, <2>2 DEF NamingAlone, Ids
  <2>8. LeakHasCause'
    BY <2>3, <2>4 DEF LeakHasCause
  <2> QED
    BY <2>6, <2>7, <2>8 DEF LeakInv
<1>5. ASSUME NEW x \in Ids, Deleted(x)
      PROVE  LeakInv'
  <2>1. PICK gone \in BOOLEAN, cleared \in BOOLEAN :
          /\ tunnel' = IF gone /\ tunnel = call[x].held.tunnel THEN None ELSE tunnel
          /\ row' = IF cleared THEN NoRow ELSE row
          /\ excused' = IF cleared /\ (~gone \/ row # call[x].held)
                        THEN excused \cup ({row.tunnel} \ {None}) ELSE excused
    BY <1>5 DEF Deleted
  <2>2. made' = made /\ NoRow.tunnel = None /\ call[x].at = "deleting"
    BY <1>5 DEF Deleted, NoRow
  <2>3. /\ call'[x].at = "idle" /\ call'[x].held = NoRow
        /\ \A y \in Ids \ {x} : call'[y] = call[y]
    BY <1>5, RowTypes, CallMoves DEF Deleted, Ats
  <2>4. NamesMade'
    BY <1>0, <2>1, <2>2, <2>3 DEF NamesMade, Ids
  <2>5. ASSUME NEW y \in Ids, call'[y].at = "naming"
        PROVE  /\ tunnel' # None /\ call'[y].held.tunnel = tunnel'
               /\ row'.tunnel # tunnel'
               /\ \A z \in Ids \ {y} : call'[z].held.tunnel # tunnel'
    <3>1. y # x /\ call'[y] = call[y]
      BY <2>3, <2>5
    <3>2. /\ tunnel # None /\ call[y].held.tunnel = tunnel /\ row.tunnel # tunnel
          /\ \A z \in Ids \ {y} : call[z].held.tunnel # tunnel
      BY <2>5, <3>1 DEF LeakInv, NamingAlone, Ids
    <3>3. tunnel' = tunnel /\ row'.tunnel # tunnel
      BY <2>1, <2>2, <3>1, <3>2
    <3> QED
      BY <2>2, <2>3, <3>1, <3>2, <3>3
  <2>6. NamingAlone'
    BY <2>5 DEF NamingAlone, Ids
  <2>7. LeakHasCause'
    <3> SUFFICES ASSUME tunnel' # None, row'.tunnel # tunnel', tunnel' \notin excused'
                 PROVE  \E y \in Registers :
                          call'[y].at = "naming" /\ call'[y].held.tunnel = tunnel'
      BY DEF LeakHasCause
    <3>1. tunnel' = tunnel /\ tunnel # None /\ tunnel \notin excused
      BY <2>1
    <3>2. row.tunnel # tunnel
      BY <2>1, <3>1
    <3>3. PICK y \in Registers : call[y].at = "naming" /\ call[y].held.tunnel = tunnel
      BY <3>1, <3>2 DEF LeakInv, LeakHasCause
    <3> QED
      BY <2>2, <2>3, <3>1, <3>3 DEF Ids
  <2> QED
    BY <2>4, <2>6, <2>7 DEF LeakInv
<1>6. ASSUME NEW c \in Creates, CountKeys(c) \/ InsertKey(c)
      PROVE  UNCHANGED tunnelVars
  BY <1>6 DEF CountKeys, InsertKey
<1>7. ASSUME NEW i \in KeyIds, Revoke(i)
      PROVE  UNCHANGED tunnelVars
  BY <1>7 DEF Revoke
<1>8. UNCHANGED accountsVars => UNCHANGED tunnelVars
  BY DEF accountsVars
<1> QED
  BY <1>1, <1>2, <1>3, <1>4, <1>5, <1>6, <1>7, <1>8 DEF AccountsNext, Ids

-----------------------------------------------------------------------------
\* Theorems.

AccountsInv == AccountsTypeOK /\ LeakInv

LEMMA AccountsInvInit == AccountsInit => AccountsInv
<1> SUFFICES ASSUME AccountsInit PROVE AccountsInv
  OBVIOUS
<1>1. \A x \in Ids : call[x].at = "idle" /\ call[x].held = NoRow
  BY DEF AccountsInit, Idle, Ids
<1>2. call \in [Ids -> [at : Ats, held : Row]]
  <2>1. Idle \in [at : Ats, held : Row]
    BY RowTypes DEF Idle, Ats
  <2> QED
    BY <2>1 DEF AccountsInit, Ids
<1>3. AccountsTypeOK
  BY <1>2, RowTypes DEF AccountsInit, AccountsTypeOK, Ids, Ats
<1>4. LeakInv
  <2>1. NoRow.tunnel = None
    BY DEF NoRow
  <2> QED
    BY <1>1, <2>1 DEF AccountsInit, LeakInv, NamesMade, NamingAlone, LeakHasCause, Ids
<1> QED
  BY <1>3, <1>4 DEF AccountsInv

LEMMA AccountsInvAlways == AccountsSpec => []AccountsInv
<1>1. AccountsInv /\ [AccountsNext]_accountsVars => AccountsInv'
  BY TypeInduction, LeakInduction DEF AccountsInv, LeakInv
<1> QED
  BY <1>1, AccountsInvInit, PTL DEF AccountsSpec

\* Rows, calls and what Cloudflare has keep their types, and nothing is
\* excused that was never made.
THEOREM AccountsTypeCorrect == AccountsSpec => []AccountsTypeOK
BY AccountsInvAlways, PTL DEF AccountsInv

\* An account exceeds its limit of keys by the other calls under way and the
\* keys of calls that could not read the list, if it can create keys at all.
THEOREM KeysCorrect == ASSUME Creates # {} PROVE AccountsSpec => []KeysBounded
<1>1. AccountsInit => KeysInv
  <2> SUFFICES ASSUME AccountsInit PROVE KeysInv
    OBVIOUS
  <2>1. Counted = {} /\ Sighted = {}
    BY DEF AccountsInit, Active, Counted, Sighted
  <2>2. Cardinality(Creates) # 0
    BY AccountsAssumption, FS_EmptySet
  <2> QED
    BY <2>1, <2>2, Finite, FS_EmptySet DEF KeysInv
<1>2. AccountsTypeOK /\ AccountsTypeOK' /\ KeysInv /\ [AccountsNext]_accountsVars => KeysInv'
  BY KeysInduction
<1>3. AccountsTypeOK /\ KeysInv => KeysBounded
  BY Finite DEF KeysInv, KeysBounded, Counted
<1> QED
  BY <1>1, <1>2, <1>3, AccountsTypeCorrect, PTL DEF AccountsSpec

\* No tunnel leaks without one of the four causes, for any number of calls.
THEOREM LeakCorrect == AccountsSpec => []LeakHasCause
BY AccountsInvAlways, PTL DEF AccountsInv, LeakInv
=============================================================================
