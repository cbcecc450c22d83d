------------------------- MODULE NodeRegistryProofs -------------------------
(***************************************************************************)
(* The controller's table of nodes holds the last version of every node    *)
(* once what was reported is handled, for every number of hosts, changes,  *)
(* watches and faults.                                                     *)
(***************************************************************************)
EXTENDS NodeRegistry, TLAPS, FiniteSetTheorems

\* A set of numbers has a least one.
LEMMA NatMin ==
  ASSUME NEW T, T \subseteq Nat, T # {}
  PROVE  \E x \in T : \A y \in T : x <= y
<1>1. PICK x \in T : \A y \in T : ~(<<y, x>> \in OpToRel(<, Nat))
  BY NatLessThanWellFounded, WFMin
<1>2. \A y \in T : ~(y < x)
  BY <1>1 DEF OpToRel
<1> QED
  BY <1>2

\* A bounded set of numbers has a greatest one.
LEMMA NatMax ==
  ASSUME NEW n \in Nat, NEW T, T \subseteq 0..n, T # {}
  PROVE  \E x \in T : \A y \in T : y <= x
<1> DEFINE R == {n - x : x \in T}
<1>1. R \subseteq Nat /\ R # {}
  <2>1. \A x \in T : n - x \in Nat
    BY SMT
  <2> QED
    BY <2>1
<1> HIDE DEF R
<1>2. PICK r \in R : \A y \in R : r <= y
  BY <1>1, NatMin
<1>3. PICK x \in T : r = n - x
  BY DEF R
<1>4. \A y \in T : n - y \in R
  BY DEF R
<1> QED
  BY <1>2, <1>3, <1>4

LEMMA Greatest ==
  ASSUME NEW n \in Nat, NEW T, T \subseteq 0..n, T # {}
  PROVE  LET m == CHOOSE i \in T : \A j \in T : j <= i IN m \in T /\ \A j \in T : j <= m
<1>1. \E x \in T : \A y \in T : y <= x
  BY NatMax
<1> QED
  BY <1>1

LEMMA Appended ==
  ASSUME NEW S, NEW s \in Seq(S), NEW e \in S
  PROVE  /\ Append(s, e) \in Seq(S) /\ Len(s) \in Nat /\ Len(Append(s, e)) = Len(s) + 1
         /\ DOMAIN s = 1..Len(s) /\ DOMAIN Append(s, e) = 1..(Len(s) + 1)
         /\ \A i \in DOMAIN s : Append(s, e)[i] = s[i]
         /\ Append(s, e)[Len(s) + 1] = e
OBVIOUS

LEMMA Shortened ==
  ASSUME NEW S, NEW s \in Seq(S), s # << >>
  PROVE  /\ Tail(s) \in Seq(S) /\ Len(s) \in Nat /\ Len(s) > 0 /\ Head(s) = s[1] /\ s[1] \in S
         /\ DOMAIN s = 1..Len(s) /\ DOMAIN Tail(s) = 1..(Len(s) - 1)
         /\ \A i \in DOMAIN Tail(s) : i + 1 \in DOMAIN s /\ Tail(s)[i] = s[i + 1]
OBVIOUS

-----------------------------------------------------------------------------
\* The changes of a host, and the notices about it that are not handled.
Changes(h) == {i \in DOMAIN log : log[i].host = h}
Mentions(h) == {i \in DOMAIN notices : notices[i].host = h}

Deleted(k) == k \in DOMAIN log /\ log[k].type = "DELETED"

\* What the table should hold for a host whose last known change is the k-th.
Value(k, l) == IF k \in DOMAIN log /\ ~Deleted(k) /\ log[k].layer = l THEN k ELSE 0

\* The k-th change is the last of the host that the controller knows or is told of.
Known(h, k) ==
  IF Mentions(h) = {}
  THEN \A l \in Layers : table[l][h] = Value(k, l) \/ (kind = "Node" /\ Deleted(k))
  ELSE \E i \in Mentions(h) : (\A j \in Mentions(h) : j <= i) /\ notices[i].version = k

\* The changes up to here are reported, or a later one of the same host is.
Horizon == IF watch = "open" THEN at ELSE version

Covered(h) ==
  \E k \in {0} \union Changes(h) :
    Known(h, k) /\ (\A i \in Changes(h) : i <= Horizon => i <= k)

Matches(e) ==
  /\ e.version \in DOMAIN log
  /\ e.host = log[e.version].host /\ e.layer = log[e.version].layer
  /\ (e.type = "DELETED") <=> Deleted(e.version)

\* Events tell the changes of the log, and the table is made of them.
EventsAreChanges ==
  /\ kind \in {"Node", "mlsysopsnodes"}
  /\ \A i \in DOMAIN log : log[i].version = i
  /\ \A i \in DOMAIN notices : Matches(notices[i])
  /\ \A i \in DOMAIN backlog : Matches(backlog[i])
  /\ \A l \in Layers, h \in Hosts :
       table[l][h] # 0 => \E i \in Changes(h) : log[i].layer = l

\* The initial list of a watch tells the last changes before it.
BacklogIsLast ==
  /\ watch # "open" => backlog = << >>
  /\ watch = "open" => version <= at
  /\ \A b \in DOMAIN backlog :
       /\ backlog[b].version <= at
       /\ \A i \in Changes(backlog[b].host) : i <= at => i <= backlog[b].version

\* Before anything is reported, a host in the table is going to be.
FirstListTellsAll ==
  version = 0 =>
    /\ notices = << >>
    /\ \A h \in Hosts \ missed :
         \/ \A l \in Layers : table[l][h] = 0
         \/ h \in HostsIn(backlog)
         \/ watch = "closed" /\ h \in Present

\* From the first watch on, the changes behind the horizon are known or going to be.
ReportedIsKnown ==
  (version # 0 \/ watch = "open") =>
    \A h \in Hosts \ missed : Moved(h) \/ h \in HostsIn(backlog) \/ Covered(h)

RegistryInv ==
  TypeOK /\ EventsAreChanges /\ BacklogIsLast /\ FirstListTellsAll /\ ReportedIsKnown

-----------------------------------------------------------------------------
\* The last change of a host is the greatest.
LEMMA LastChangeOf ==
  ASSUME log \in Seq(Events), NEW h
  PROVE  /\ Changes(h) = {} => LastChange(h) = 0
         /\ Changes(h) # {} => LastChange(h) \in Changes(h)
         /\ \A i \in Changes(h) : i <= LastChange(h)
         /\ LastChange(h) \in 0..revision
         /\ LastChange(h) # 0 => LastChange(h) \in DOMAIN log /\ log[LastChange(h)].host = h
<1>1. DOMAIN log = 1..Len(log) /\ Len(log) \in Nat /\ Changes(h) \subseteq 1..Len(log)
  BY DEF Changes
<1>2. CASE Changes(h) = {}
  BY <1>1, <1>2 DEF LastChange, Changes, revision
<1>3. CASE Changes(h) # {}
  <2>1. Changes(h) \subseteq 0..Len(log)
    BY <1>1
  <2>2. LastChange(h) = CHOOSE i \in Changes(h) : \A j \in Changes(h) : j <= i
    BY <1>3 DEF LastChange, Changes
  <2>3. LastChange(h) \in Changes(h) /\ \A j \in Changes(h) : j <= LastChange(h)
    BY <1>1, <1>3, <2>1, <2>2, Greatest
  <2> QED
    BY <1>1, <1>3, <2>3 DEF Changes, revision
<1> QED
  BY <1>2, <1>3

\* The invariant gives the property.
LEMMA InvIsCurrent == RegistryInv => TableIsCurrent
<1> SUFFICES ASSUME RegistryInv, Settled,
                    NEW h \in Hosts \ missed, NEW l \in Layers, ~Moved(h)
             PROVE  table[l][h] = Listed[l][h] \/ (kind = "Node" /\ h \notin Present)
  BY DEF TableIsCurrent
<1> USE DEF RegistryInv
<1>1. Mentions(h) = {} /\ h \notin HostsIn(backlog) /\ Horizon = revision
  BY DEF Settled, Mentions, HostsIn, Horizon
<1>2. Covered(h)
  BY <1>1 DEF ReportedIsKnown, Settled
<1>3. PICK k \in {0} \union Changes(h) :
             Known(h, k) /\ (\A i \in Changes(h) : i <= Horizon => i <= k)
  BY <1>2 DEF Covered
<1>4. /\ log \in Seq(Events) /\ DOMAIN log = 1..Len(log) /\ Len(log) \in Nat
      /\ \A i \in Changes(h) : i \in 1..revision
  BY DEF TypeOK, Changes, revision
<1>5. k = LastChange(h)
  <2>1. \A i \in Changes(h) : i <= k
    BY <1>1, <1>3, <1>4
  <2>2. CASE Changes(h) = {}
    BY <1>3, <1>4, <2>2, LastChangeOf
  <2>3. CASE Changes(h) # {}
    BY <1>3, <1>4, <2>1, <2>3, LastChangeOf
  <2> QED
    BY <2>2, <2>3
<1>6. table[l][h] = Value(k, l) \/ (kind = "Node" /\ Deleted(k))
  BY <1>1, <1>3 DEF Known
<1>7. k # 0 => k \in DOMAIN log
  BY <1>3, <1>4 DEF Changes
<1>8. Listed[l][h] = IF h \in Present /\ log[k].layer = l THEN k ELSE 0
  BY <1>5 DEF Listed
<1>9. h \in Present <=> k # 0 /\ log[k].type # "DELETED"
  BY <1>5 DEF Present
<1> QED
  BY <1>4, <1>6, <1>7, <1>8, <1>9 DEF Value, Deleted

LEMMA PresentIsFinite ==
  ConstantAssumption => Cardinality(Present) \in Nat /\ Present \subseteq Hosts
<1> SUFFICES ASSUME ConstantAssumption PROVE Cardinality(Present) \in Nat /\ Present \subseteq Hosts
  OBVIOUS
<1>1. Present \subseteq Hosts
  BY DEF Present
<1>2. IsFiniteSet(Present)
  BY <1>1, FS_Subset DEF ConstantAssumption
<1> QED
  BY <1>1, <1>2, FS_CardinalityType

\* The objects there are have a last change that did not delete them.
LEMMA PresentHas ==
  ASSUME log \in Seq(Events), NEW h \in Present
  PROVE  LastChange(h) \in DOMAIN log /\ ~Deleted(LastChange(h)) /\ log[LastChange(h)].host = h
BY LastChangeOf DEF Present, Deleted

LEMMA RegistryInit == ConstantAssumption /\ Init => RegistryInv
<1> SUFFICES ASSUME ConstantAssumption, Init PROVE RegistryInv
  OBVIOUS
<1>1. LayersOf(kind) \subseteq Layers
  BY DEF ConstantAssumption, LayersOf
<1>2. /\ log \in Seq(Events) /\ Len(log) \in Nat /\ DOMAIN log = 1..Len(log)
      /\ \A i \in DOMAIN log : log[i].version = i
  <2>1. CASE log = << >>
    BY <2>1
  <2>2. CASE \E h \in Hosts, l \in LayersOf(kind) :
               log = <<[type |-> "ADDED", host |-> h, layer |-> l, version |-> 1]>>
    <3>1. PICK h \in Hosts, l \in LayersOf(kind) :
                 log = <<[type |-> "ADDED", host |-> h, layer |-> l, version |-> 1]>>
      BY <2>2
    <3>2. [type |-> "ADDED", host |-> h, layer |-> l, version |-> 1] \in Events
      BY <1>1 DEF Events, ConstantAssumption
    <3> QED
      BY <3>1, <3>2
  <2> QED
    BY <2>1, <2>2 DEF Init
<1>3. table \in [Layers -> [Hosts -> 0..revision]]
  <2>1. \A h \in Hosts : LastChange(h) \in 0..revision
    BY <1>2, LastChangeOf
  <2>2. 0 \in 0..revision
    BY <1>2 DEF revision
  <2> QED
    BY <2>1, <2>2 DEF Init, Listed
<1>4. \A l \in Layers, h \in Hosts : table[l][h] # 0 =>
        table[l][h] \in Changes(h) /\ log[table[l][h]].layer = l /\ h \in Present
  BY <1>2, LastChangeOf DEF Init, Listed, Changes
<1>5. TypeOK
  BY <1>2, <1>3 DEF Init, TypeOK, revision
<1> QED
  BY <1>2, <1>4, <1>5 DEF Init, RegistryInv, EventsAreChanges, BacklogIsLast, FirstListTellsAll, ReportedIsKnown

\* A change appends to the log; what was in it stays as it was.
LEMMA CommitStep ==
  ASSUME ConstantAssumption, RegistryInv, NEW type \in {"ADDED", "MODIFIED", "DELETED"},
         NEW h \in Hosts, NEW l \in Layers, Commit(type, h, l),
         type = "DELETED" \/ l \in LayersOf(kind)
  PROVE  RegistryInv'
<1> USE DEF RegistryInv
<1> DEFINE e == [type |-> type, host |-> h, layer |-> l, version |-> revision + 1]
           v == revision + 1
<1>1. /\ log \in Seq(Events) /\ revision \in Nat /\ DOMAIN log = 1..revision
      /\ revision = Len(log) /\ revision < MaxRevision
  BY DEF TypeOK, revision, Commit
<1>2. e \in Events
  BY <1>1 DEF Events, ConstantAssumption
<1>3. /\ log' \in Seq(Events) /\ DOMAIN log' = 1..v /\ revision' = v
      /\ \A i \in DOMAIN log : log'[i] = log[i]
      /\ log'[v] = e
  <2>1. log' = Append(log, e)
    BY DEF Commit
  <2> HIDE DEF e
  <2> QED
    BY <1>1, <1>2, <2>1, Appended DEF revision
<1>4. /\ DOMAIN log \subseteq DOMAIN log' /\ v \in Nat /\ v \notin DOMAIN log /\ v # 0
      /\ 0 \notin DOMAIN log' /\ \A i \in DOMAIN log' : i \in DOMAIN log \/ i = v
  BY <1>1, <1>3
<1>5. /\ e.host = h /\ e.type = type /\ e.version = v
  OBVIOUS
<1> HIDE DEF e, v
<1>6. \A g : /\ Changes(g) \subseteq Changes(g)' /\ Changes(g) \subseteq DOMAIN log
             /\ \A i \in Changes(g)' : i \in Changes(g) \/ i = v
             /\ g # h => Changes(g)' = Changes(g)
  BY <1>3, <1>4, <1>5 DEF Changes
<1>7. \A k \in {0} \union DOMAIN log : (Deleted(k)' <=> Deleted(k)) /\ \A m : Value(k, m)' = Value(k, m)
  BY <1>3, <1>4 DEF Deleted, Value
<1>8. UNCHANGED <<kind, compacted, watch, version, backlog, at, notices, table, watchFaults>>
  BY DEF Commit
<1>9. missed' = IF type = "DELETED" /\ version = 0 /\ watch = "closed"
                THEN missed \union {h} ELSE missed
  BY DEF Commit
<1>10. TypeOK'
  BY <1>1, <1>3, <1>8, <1>9 DEF TypeOK, v
<1>11. EventsAreChanges'
  <2>1. \A x : Matches(x) => Matches(x)'
    BY <1>3, <1>4, <1>7 DEF Matches
  <2>2. \A i \in DOMAIN log' : log'[i].version = i
    BY <1>3, <1>4, <1>5 DEF EventsAreChanges
  <2>3. \A m \in Layers, g \in Hosts :
          table'[m][g] # 0 => \E i \in Changes(g)' : log'[i].layer = m
    BY <1>3, <1>6, <1>8 DEF EventsAreChanges
  <2> QED
    BY <1>8, <2>1, <2>2, <2>3 DEF EventsAreChanges
<1>12. version < v /\ (watch = "open" => at < v) /\ version \in Nat /\ at \in Nat
  BY <1>1 DEF TypeOK, v
<1>13. BacklogIsLast'
  <2>1. \A b \in DOMAIN backlog : \A i \in Changes(backlog[b].host)' :
          i <= at => i <= backlog[b].version
    <3> SUFFICES ASSUME NEW b \in DOMAIN backlog, NEW i \in Changes(backlog[b].host)', i <= at
                 PROVE  i <= backlog[b].version
      OBVIOUS
    <3>1. i # v
      BY <1>1, <1>12 DEF TypeOK, v
    <3>2. i \in Changes(backlog[b].host)
      BY <1>6, <1>8, <3>1
    <3> QED
      BY <3>2 DEF BacklogIsLast
  <2> QED
    BY <1>8, <2>1 DEF BacklogIsLast
<1>14. \A g : /\ Changes(g)' = {} => LastChange(g)' = 0
              /\ Changes(g)' # {} => /\ LastChange(g)' \in Changes(g)'
                                     /\ \A i \in Changes(g)' : i <= LastChange(g)'
  <2> SUFFICES ASSUME NEW g
               PROVE  /\ Changes(g)' = {} => LastChange(g)' = 0
                      /\ Changes(g)' # {} => /\ LastChange(g)' \in Changes(g)'
                                             /\ \A i \in Changes(g)' : i <= LastChange(g)'
    OBVIOUS
  <2>1. Changes(g)' \subseteq 0..v /\ v \in Nat
    BY <1>3, <1>4 DEF Changes
  <2>2. Changes(g)' # {} =>
          LastChange(g)' = CHOOSE i \in Changes(g)' : \A j \in Changes(g)' : j <= i
    BY DEF LastChange, Changes
  <2> QED
    BY <2>1, <2>2, Greatest DEF LastChange, Changes
<1>15. FirstListTellsAll'
  <2> SUFFICES ASSUME version = 0, NEW g \in Hosts \ missed', watch = "closed", g \in Present
               PROVE  g \in Present'
    BY <1>8, <1>9 DEF FirstListTellsAll, HostsIn
  <2>1. CASE g = h
    <3>1. type # "DELETED"
      BY <1>9, <2>1
    <3>2. Changes(g)' # {} /\ v \in Changes(g)'
      BY <1>3, <1>4, <1>5, <2>1 DEF Changes
    <3>3. LastChange(g)' \in Changes(g)' /\ \A i \in Changes(g)' : i <= LastChange(g)'
      BY <3>2, <1>14
    <3>4. LastChange(g)' = v
      BY <1>1, <1>6, <3>2, <3>3 DEF v
    <3> QED
      BY <1>3, <1>4, <1>5, <3>1, <3>4 DEF Present
  <2>2. CASE g # h
    <3>1. LastChange(g)' = LastChange(g)
      <4>1. Changes(g)' = Changes(g) /\ \A i \in Changes(g) : i \in Nat
        BY <1>1, <1>6, <2>2
      <4>2. CASE Changes(g) = {}
        <5>1. LastChange(g) = 0
          BY <1>1, <4>2, LastChangeOf
        <5>2. Changes(g)' = {}
          BY <4>1, <4>2
        <5>3. LastChange(g)' = 0
          BY <5>2, <1>14
        <5> QED
          BY <5>1, <5>3
      <4>3. CASE Changes(g) # {}
        BY <1>1, <4>1, <4>3, <1>14, LastChangeOf
      <4> QED
        BY <4>2, <4>3
    <3>2. LastChange(g) \in DOMAIN log
      BY <1>1, PresentHas
    <3> QED
      BY <1>3, <3>1, <3>2 DEF Present
  <2> QED
    BY <2>1, <2>2
<1>16. ReportedIsKnown'
  <2> SUFFICES ASSUME version # 0 \/ watch = "open", NEW g \in Hosts \ missed', ~Moved(g)',
                      g \notin HostsIn(backlog)
               PROVE  Covered(g)'
    BY <1>8 DEF ReportedIsKnown, HostsIn
  <2>1. ~Moved(g)
    BY <1>3, <1>4 DEF Moved
  <2>2. g \notin missed
    BY <1>9
  <2>3. Covered(g)
    BY <2>1, <2>2 DEF ReportedIsKnown
  <2>4. PICK k \in {0} \union Changes(g) :
               Known(g, k) /\ (\A i \in Changes(g) : i <= Horizon => i <= k)
    BY <2>3 DEF Covered
  <2>5. k \in {0} \union Changes(g)' /\ k \in {0} \union DOMAIN log
    BY <1>6, <2>4
  <2>6. Known(g, k)'
    BY <1>7, <1>8, <2>4, <2>5 DEF Known, Mentions
  <2>7. \A i \in Changes(g)' : i <= Horizon' => i <= k
    <3>1. Horizon' = Horizon /\ Horizon < v /\ Horizon \in Nat
      BY <1>8, <1>12 DEF Horizon
    <3> QED
      BY <1>1, <1>6, <2>4, <3>1 DEF v
  <2> QED
    BY <2>5, <2>6, <2>7 DEF Covered
<1> QED
  BY <1>10, <1>11, <1>13, <1>15, <1>16

\* Where the log and the table stay, only what is reported has to be looked at.
LEMMA LogStays ==
  ASSUME UNCHANGED <<kind, log>>
  PROVE  /\ \A h : Changes(h)' = Changes(h) /\ Moved(h)' = Moved(h) /\ LastChange(h)' = LastChange(h)
         /\ \A k : Deleted(k)' = Deleted(k) /\ \A l : Value(k, l)' = Value(k, l)
         /\ \A e : Matches(e)' = Matches(e)
         /\ Present' = Present /\ revision' = revision
BY DEF Changes, Moved, Deleted, Value, Matches, Present, LastChange, revision

LEMMA QuietStep ==
  ASSUME RegistryInv,
         UNCHANGED <<kind, log, watch, version, backlog, at, notices, table, missed>>,
         compacted' \in 0..revision
  PROVE  RegistryInv'
<1>1. TypeOK'
  BY LogStays DEF RegistryInv, TypeOK
<1>2. EventsAreChanges'
  BY LogStays DEF RegistryInv, EventsAreChanges
<1>3. BacklogIsLast' /\ FirstListTellsAll'
  BY LogStays DEF RegistryInv, BacklogIsLast, FirstListTellsAll, HostsIn
<1>4. ReportedIsKnown'
  <2>1. Horizon' = Horizon /\ \A g, k : Known(g, k)' = Known(g, k)
    BY LogStays DEF Horizon, Known, Mentions
  <2>2. \A g : Covered(g)' = Covered(g)
    BY <2>1, LogStays DEF Covered
  <2> QED
    BY <2>2, LogStays DEF RegistryInv, ReportedIsKnown, HostsIn
<1> QED
  BY <1>1, <1>2, <1>3, <1>4 DEF RegistryInv

LEMMA OpenWatchStep ==
  ASSUME ConstantAssumption, RegistryInv, OpenWatch
  PROVE  RegistryInv'
<1> USE DEF RegistryInv
<1>1. /\ UNCHANGED <<kind, log, compacted, version, notices, table, missed, watchFaults>>
      /\ watch = "closed" /\ watch' = "open" /\ backlog = << >>
  BY DEF OpenWatch, BacklogIsLast
<1>2. /\ log \in Seq(Events) /\ revision \in Nat /\ DOMAIN log = 1..revision
  BY DEF TypeOK, revision
<1>3. HostsIn(backlog) = {}
  BY <1>1 DEF HostsIn
<1>4. CASE version = 0
  <2>1. PICK order \in Orders :
          /\ backlog' = [i \in DOMAIN order |-> [log[LastChange(order[i])] EXCEPT !.type = "ADDED"]]
          /\ at' = revision
    BY <1>4 DEF OpenWatch
  <2>2. /\ DOMAIN order = 1..Cardinality(Present) /\ \A i \in DOMAIN order : order[i] \in Present
        /\ \A h \in Present : \E i \in DOMAIN order : order[i] = h
    BY <2>1 DEF Orders, Bijection, Injection, Surjection
  <2>3. \A i \in DOMAIN order : LET k == LastChange(order[i])
          IN  /\ backlog'[i] \in Events /\ backlog'[i].version = k /\ backlog'[i].host = order[i]
              /\ backlog'[i].type # "DELETED" /\ ~Deleted(k)
              /\ k \in DOMAIN log /\ backlog'[i].host = log[k].host
              /\ backlog'[i].layer = log[k].layer
    <3> SUFFICES ASSUME NEW i \in DOMAIN order, NEW k, k = LastChange(order[i])
                 PROVE  /\ backlog'[i] \in Events /\ backlog'[i].version = k
                        /\ backlog'[i].host = order[i]
                        /\ backlog'[i].type # "DELETED" /\ ~Deleted(k)
                        /\ k \in DOMAIN log /\ backlog'[i].host = log[k].host
                        /\ backlog'[i].layer = log[k].layer
      OBVIOUS
    <3>1. k \in DOMAIN log /\ ~Deleted(k) /\ log[k].host = order[i]
      BY <1>2, <2>2, PresentHas
    <3>2. log[k] \in Events /\ log[k].version = k
      BY <1>2, <3>1 DEF EventsAreChanges
    <3>3. backlog'[i] = [log[k] EXCEPT !.type = "ADDED"]
      BY <2>1
    <3> QED
      BY <3>1, <3>2, <3>3 DEF Events
  <2>4. backlog' \in Seq(Events) /\ DOMAIN backlog' = DOMAIN order
    <3>1. Cardinality(Present) \in Nat
      BY PresentIsFinite
    <3> QED
      BY <2>1, <2>2, <2>3, <3>1
  <2>5. HostsIn(backlog') = Present
    <3>1. \A i \in DOMAIN order : backlog'[i].host = order[i]
      BY <2>3
    <3> QED
      BY <2>2, <2>4, <3>1 DEF HostsIn
  <2>6. TypeOK'
    BY <1>1, <1>2, <2>1, <2>4, LogStays DEF TypeOK
  <2>7. EventsAreChanges'
    <3>1. \A i \in DOMAIN backlog' : Matches(backlog'[i])
      BY <2>3, <2>4 DEF Matches
    <3> QED
      BY <1>1, <3>1, LogStays DEF EventsAreChanges
  <2>8. BacklogIsLast'
    <3>1. \A b \in DOMAIN backlog' :
            /\ backlog'[b].version <= revision
            /\ \A i \in Changes(backlog'[b].host) : i <= backlog'[b].version
      BY <1>2, <2>3, <2>4, LastChangeOf
    <3> QED
      BY <1>1, <1>2, <1>4, <2>1, <3>1, LogStays DEF BacklogIsLast
  <2>9. \A h \in Hosts \ missed : h \in Present \/ \A l \in Layers : table[l][h] = 0
    BY <1>3, <1>4 DEF FirstListTellsAll
  <2>10. FirstListTellsAll'
    BY <1>1, <1>4, <2>5, <2>9 DEF FirstListTellsAll
  <2>11. ReportedIsKnown'
    <3> SUFFICES ASSUME NEW h \in Hosts \ missed, h \notin Present
                 PROVE  Covered(h)'
      BY <1>1, <2>5 DEF ReportedIsKnown
    <3>0. PICK k : k = LastChange(h)
      OBVIOUS
    <3>1. k \in {0} \union Changes(h) /\ \A i \in Changes(h) : i <= k
      BY <1>2, <3>0, LastChangeOf
    <3>2. k = 0 \/ Deleted(k)
      BY <1>2, <3>0, LastChangeOf DEF Present, Deleted
    <3>3. \A l \in Layers : Value(k, l) = 0
      BY <1>2, <3>2 DEF Value
    <3>4. Mentions(h)' = {}
      BY <1>1, <1>4 DEF FirstListTellsAll, Mentions
    <3>5. Known(h, k)'
      BY <1>1, <2>9, <3>3, <3>4, LogStays DEF Known
    <3> QED
      BY <1>1, <3>1, <3>5, LogStays DEF Covered
  <2> QED
    BY <2>6, <2>7, <2>8, <2>10, <2>11
<1>5. CASE version # 0
  <2>1. backlog' = << >> /\ at' = version
    BY <1>5 DEF OpenWatch
  <2>2. TypeOK' /\ EventsAreChanges' /\ BacklogIsLast' /\ FirstListTellsAll'
    BY <1>1, <1>2, <1>5, <2>1, LogStays
       DEF TypeOK, EventsAreChanges, BacklogIsLast, FirstListTellsAll
  <2>3. ReportedIsKnown'
    <3>1. Horizon' = Horizon /\ \A g, k : Known(g, k)' = Known(g, k)
      BY <1>1, <2>1, LogStays DEF Horizon, Known, Mentions
    <3>2. \A g : Covered(g)' = Covered(g)
      BY <1>1, <3>1, LogStays DEF Covered
    <3> QED
      BY <1>1, <1>3, <1>5, <3>2, LogStays DEF ReportedIsKnown
  <2> QED
    BY <2>2, <2>3
<1> QED
  BY <1>4, <1>5

\* A notice about a host is queued: it tells the last change up to the new horizon.
LEMMA ReportStep ==
  ASSUME RegistryInv, NEW e \in Events, Report(e), watch = "open", Matches(e),
         at' \in 0..revision, at <= at', e.version <= at',
         backlog' \in Seq(Events), \A b \in DOMAIN backlog' : Matches(backlog'[b]),
         \A b \in DOMAIN backlog' :
           /\ backlog'[b].version <= at'
           /\ \A i \in Changes(backlog'[b].host) : i <= at' => i <= backlog'[b].version,
         HostsIn(backlog) \subseteq HostsIn(backlog') \union {e.host},
         \A i \in Changes(e.host) : i <= at' => i <= e.version,
         \A h \in Hosts \ {e.host} : \A i \in Changes(h) : i <= at' => i <= at
  PROVE  RegistryInv'
<1> USE DEF RegistryInv
<1>1. /\ notices' = Append(notices, e) /\ version' = e.version /\ missed' = missed \ {e.host}
      /\ UNCHANGED <<kind, log, compacted, watch, table, watchFaults>>
  BY DEF Report
<1>2. /\ notices \in Seq(Events) /\ notices' \in Seq(Events) /\ Len(notices) \in Nat
      /\ DOMAIN notices = 1..Len(notices) /\ DOMAIN notices' = 1..(Len(notices) + 1)
      /\ \A i \in DOMAIN notices : notices'[i] = notices[i]
      /\ notices'[Len(notices) + 1] = e
  BY <1>1, Appended DEF TypeOK
<1>3. /\ DOMAIN log = 1..revision /\ revision \in Nat /\ e.version \in Nat /\ e.version # 0
      /\ e.version \in 0..revision
  BY DEF TypeOK, revision, Matches
<1>4. TypeOK'
  BY <1>1, <1>2, <1>3, LogStays DEF TypeOK
<1>5. EventsAreChanges'
  <2>1. \A i \in DOMAIN notices' : Matches(notices'[i])
    BY <1>2 DEF EventsAreChanges
  <2> QED
    BY <1>1, <2>1, LogStays DEF EventsAreChanges
<1>6. BacklogIsLast' /\ FirstListTellsAll'
  BY <1>1, <1>3, LogStays DEF BacklogIsLast, FirstListTellsAll
<1>7. ReportedIsKnown'
  <2> SUFFICES ASSUME NEW h \in Hosts \ missed', ~Moved(h)', h \notin HostsIn(backlog')
               PROVE  Covered(h)'
    BY <1>1 DEF ReportedIsKnown
  <2>1. CASE h = e.host
    <3>1. PICK k : k = e.version
      OBVIOUS
    <3>2. k \in Changes(h) /\ \A i \in Changes(h) : i <= at' => i <= k
      BY <2>1, <3>1 DEF Matches, Changes
    <3>3. PICK last : last = Len(notices) + 1
      OBVIOUS
    <3>4. last \in Mentions(h)' /\ \A j \in Mentions(h)' : j <= last
      BY <1>2, <2>1, <3>3 DEF Mentions
    <3>5. notices'[last].version = k
      BY <1>2, <3>1, <3>3
    <3>6. Known(h, k)'
      BY <3>4, <3>5 DEF Known
    <3> QED
      BY <1>1, <3>2, <3>6, LogStays DEF Covered, Horizon
  <2>2. CASE h # e.host
    <3>1. Covered(h)
      BY <1>1, <2>2, LogStays DEF ReportedIsKnown
    <3>2. PICK k \in {0} \union Changes(h) :
                 Known(h, k) /\ (\A i \in Changes(h) : i <= at => i <= k)
      BY <3>1 DEF Covered, Horizon
    <3>3. Mentions(h)' = Mentions(h) /\ \A i \in Mentions(h) : notices'[i] = notices[i]
      BY <1>2, <2>2 DEF Mentions
    <3>4. Known(h, k)'
      <4>1. CASE Mentions(h) = {}
        BY <1>1, <3>2, <3>3, <4>1, LogStays DEF Known
      <4>2. CASE Mentions(h) # {}
        <5>1. PICK last \in Mentions(h) :
                     (\A j \in Mentions(h) : j <= last) /\ notices[last].version = k
          BY <3>2, <4>2 DEF Known
        <5>2. Mentions(h)' # {} /\ last \in Mentions(h)' /\ \A j \in Mentions(h)' : j <= last
          BY <3>3, <5>1
        <5>3. notices'[last].version = k
          BY <3>3, <5>1
        <5> QED
          BY <5>2, <5>3 DEF Known
      <4> QED
        BY <4>1, <4>2
    <3>5. \A i \in Changes(h) : i <= at' => i <= k
      BY <2>2, <3>2
    <3> QED
      BY <1>1, <3>2, <3>4, <3>5, LogStays DEF Covered, Horizon
  <2> QED
    BY <2>1, <2>2
<1> QED
  BY <1>4, <1>5, <1>6, <1>7

LEMMA NotifyStep ==
  ASSUME RegistryInv, Notify
  PROVE  RegistryInv'
<1> USE DEF RegistryInv
<1>1. /\ log \in Seq(Events) /\ DOMAIN log = 1..revision /\ revision \in Nat
      /\ at \in 0..revision /\ watch = "open" /\ version \in Nat
      /\ backlog \in Seq(Events)
  BY DEF TypeOK, revision, Notify
<1>2. CASE backlog # << >>
  <2>1. Report(Head(backlog)) /\ backlog' = Tail(backlog) /\ at' = at
    BY <1>2 DEF Notify
  <2>2. /\ backlog' \in Seq(Events) /\ Head(backlog) = backlog[1] /\ backlog[1] \in Events
        /\ 1 \in DOMAIN backlog
        /\ \A i \in DOMAIN backlog' : i + 1 \in DOMAIN backlog /\ backlog'[i] = backlog[i + 1]
        /\ \A i \in DOMAIN backlog : i = 1 \/ (i - 1 \in DOMAIN backlog' /\ backlog'[i - 1] = backlog[i])
    <3> DEFINE S == Events
    <3> HIDE DEF S
    <3>1. backlog \in Seq(S)
      BY <1>1 DEF S
    <3>2. /\ backlog' \in Seq(S) /\ Len(backlog) \in Nat /\ Len(backlog) > 0
          /\ Head(backlog) = backlog[1] /\ backlog[1] \in S
          /\ DOMAIN backlog = 1..Len(backlog) /\ DOMAIN backlog' = 1..(Len(backlog) - 1)
          /\ \A i \in DOMAIN backlog' : i + 1 \in DOMAIN backlog /\ backlog'[i] = backlog[i + 1]
      BY <1>2, <2>1, <3>1, Shortened
    <3>3. \A i \in DOMAIN backlog : i = 1 \/ (i - 1 \in DOMAIN backlog' /\ (i - 1) + 1 = i)
      BY <3>2
    <3> QED
      BY <3>2, <3>3 DEF S
  <2>3. PICK e \in Events : e = Head(backlog)
    BY <2>2
  <2>4. HostsIn(backlog) \subseteq HostsIn(backlog') \union {e.host}
    BY <2>2, <2>3 DEF HostsIn
  <2>5. Matches(e) /\ e.version <= at /\ \A i \in Changes(e.host) : i <= at => i <= e.version
    BY <2>2, <2>3 DEF EventsAreChanges, BacklogIsLast
  <2>6. \A b \in DOMAIN backlog' :
          /\ Matches(backlog'[b]) /\ backlog'[b].version <= at
          /\ \A i \in Changes(backlog'[b].host) : i <= at => i <= backlog'[b].version
    BY <2>2 DEF EventsAreChanges, BacklogIsLast
  <2>7. at <= at
    BY <1>1
  <2> QED
    BY <1>1, <2>1, <2>2, <2>3, <2>4, <2>5, <2>6, <2>7, ReportStep
<1>3. CASE backlog = << >>
  <2>1. at < revision /\ Report(log[at + 1]) /\ at' = at + 1 /\ backlog' = << >>
    BY <1>3 DEF Notify
  <2>2. at + 1 \in DOMAIN log
    BY <1>1, <2>1
  <2>3. PICK e \in Events : e = log[at + 1]
    BY <1>1, <2>2
  <2>4. e.version = at + 1 /\ Matches(e)
    BY <2>2, <2>3 DEF EventsAreChanges, Matches, Deleted
  <2>5. \A h : \A i \in Changes(h) : i \in Nat
    BY <1>1 DEF Changes
  <2>6. \A h \in Hosts \ {e.host} : \A i \in Changes(h) : i <= at' => i <= at
    <3>1. \A h \in Hosts \ {e.host} : at + 1 \notin Changes(h)
      BY <2>3 DEF Changes
    <3> QED
      BY <1>1, <2>1, <2>5, <3>1
  <2> QED
    BY <1>1, <1>3, <2>1, <2>2, <2>3, <2>4, <2>5, <2>6, ReportStep DEF HostsIn
<1> QED
  BY <1>2, <1>3

\* A watch that ends leaves what it had still to report as missed.
LEMMA CloseWatchStep ==
  ASSUME RegistryInv, CloseWatch
  PROVE  RegistryInv'
<1> USE DEF RegistryInv
<1>1. /\ watch = "open" /\ watch' = "closed" /\ backlog' = << >>
      /\ missed' = missed \union HostsIn(backlog)
      /\ UNCHANGED <<kind, log, compacted, version, at, notices, table>>
  BY DEF CloseWatch
<1>2. HostsIn(backlog) \subseteq Hosts
  <2>1. \A i \in DOMAIN backlog : backlog[i] \in Events
    BY DEF TypeOK
  <2> QED
    BY <2>1 DEF HostsIn, Events
<1>3. /\ version \in Nat /\ at \in Nat /\ version <= at
      /\ \A h : \A i \in Changes(h) : i \in Nat
  BY <1>1 DEF TypeOK, BacklogIsLast, revision, Changes
<1>4. TypeOK' /\ EventsAreChanges' /\ BacklogIsLast'
  BY <1>1, <1>2, LogStays DEF TypeOK, EventsAreChanges, BacklogIsLast
<1>5. FirstListTellsAll'
  BY <1>1, LogStays DEF FirstListTellsAll
<1>6. ReportedIsKnown'
  <2> SUFFICES ASSUME NEW h \in Hosts \ missed', ~Moved(h)' PROVE Covered(h)'
    BY DEF ReportedIsKnown
  <2>1. Covered(h)
    BY <1>1, LogStays DEF ReportedIsKnown
  <2>2. PICK k \in {0} \union Changes(h) :
               Known(h, k) /\ (\A i \in Changes(h) : i <= at => i <= k)
    BY <1>1, <2>1 DEF Covered, Horizon
  <2>3. Known(h, k)'
    BY <1>1, <2>2, LogStays DEF Known, Mentions
  <2>4. \A i \in Changes(h) : i <= version => i <= k
    BY <1>3, <2>2
  <2> QED
    BY <1>1, <2>2, <2>3, <2>4, LogStays DEF Covered, Horizon
<1> QED
  BY <1>4, <1>5, <1>6

\* The hosts with changes between two versions are missed when the watch goes on.
LEMMA WatchExpiresStep ==
  ASSUME RegistryInv, WatchExpires
  PROVE  RegistryInv'
<1> USE DEF RegistryInv
<1>1. /\ watch = "closed" /\ version # 0 /\ backlog = << >>
      /\ UNCHANGED <<kind, log, compacted, backlog, at, notices, table>>
      /\ log \in Seq(Events) /\ DOMAIN log = 1..revision /\ revision \in Nat
      /\ version \in 0..revision /\ HostsIn(backlog) = {}
  BY DEF WatchExpires, BacklogIsLast, TypeOK, revision, HostsIn
<1>2. PICK v \in 0..revision :
        /\ version' = v /\ v # 0 /\ watch' \in {"closed", "dead"}
        /\ missed' \subseteq Hosts /\ missed \subseteq missed'
        /\ \A h \in Hosts \ missed' : \A i \in Changes(h) : i <= v => i <= version
  <2>1. CASE version' = version /\ missed' = missed /\ watch' = "dead"
    BY <1>1, <2>1 DEF TypeOK, Changes
  <2>2. CASE /\ version' = revision /\ watch' = watch
             /\ missed' = missed \union HostsIn(SubSeq(log, version + 1, revision))
    <3> DEFINE sub == SubSeq(log, version + 1, revision)
    <3>1. /\ DOMAIN sub = 1..(revision - version)
          /\ \A i \in DOMAIN sub : sub[i] = log[version + i]
      BY <1>1
    <3>2. \A i \in DOMAIN sub : sub[i] \in Events
      BY <1>1, <3>1
    <3>3. \A i \in DOMAIN log : i <= version \/ log[i].host \in HostsIn(sub)
      <4> SUFFICES ASSUME NEW i \in DOMAIN log, ~(i <= version)
                   PROVE  log[i].host \in HostsIn(sub)
        OBVIOUS
      <4>1. i - version \in 1..(revision - version) /\ version + (i - version) = i
        BY <1>1
      <4>2. sub[i - version] = log[i]
        BY <3>1, <4>1
      <4> HIDE DEF sub
      <4> QED
        BY <3>1, <4>1, <4>2 DEF HostsIn
    <3> HIDE DEF sub
    <3>4. HostsIn(sub) \subseteq Hosts
      BY <3>2 DEF HostsIn, Events
    <3>5. \A h \in Hosts \ missed' : \A i \in Changes(h) : i <= version
      BY <2>2, <3>3 DEF Changes, sub
    <3> QED
      BY <1>1, <2>2, <3>4, <3>5 DEF TypeOK, sub
  <2> QED
    BY <2>1, <2>2 DEF WatchExpires
<1>3. TypeOK' /\ EventsAreChanges' /\ BacklogIsLast' /\ FirstListTellsAll'
  BY <1>1, <1>2, LogStays DEF TypeOK, EventsAreChanges, BacklogIsLast, FirstListTellsAll
<1>4. ReportedIsKnown'
  <2> SUFFICES ASSUME NEW h \in Hosts \ missed', ~Moved(h)' PROVE Covered(h)'
    BY DEF ReportedIsKnown
  <2>1. Covered(h)
    BY <1>1, <1>2, LogStays DEF ReportedIsKnown
  <2>2. PICK k \in {0} \union Changes(h) :
               Known(h, k) /\ (\A i \in Changes(h) : i <= version => i <= k)
    BY <1>1, <2>1 DEF Covered, Horizon
  <2>3. Known(h, k)'
    BY <1>1, <2>2, LogStays DEF Known, Mentions
  <2>4. \A i \in Changes(h) : i <= v => i <= k
    BY <1>2, <2>2
  <2>5. Horizon' = v
    BY <1>2 DEF Horizon
  <2> QED
    BY <1>1, <2>2, <2>3, <2>4, <2>5, LogStays DEF Covered
<1> QED
  BY <1>3, <1>4

\* The handler brings the table up to the version of the notice it takes.
LEMMA HandleNoticeStep ==
  ASSUME RegistryInv, HandleNotice
  PROVE  RegistryInv'
<1> USE DEF RegistryInv
<1>1. /\ notices # << >> /\ notices' = Tail(notices)
      /\ UNCHANGED <<kind, log, compacted, watch, version, backlog, at, missed, watchFaults>>
      /\ log \in Seq(Events) /\ DOMAIN log = 1..revision /\ revision \in Nat
  BY DEF HandleNotice, TypeOK, revision
<1>2. /\ notices' \in Seq(Events) /\ Head(notices) = notices[1] /\ notices[1] \in Events
      /\ 1 \in DOMAIN notices /\ DOMAIN notices \subseteq Nat \ {0}
      /\ \A i \in DOMAIN notices' : i + 1 \in DOMAIN notices /\ notices'[i] = notices[i + 1]
      /\ \A i \in DOMAIN notices : i = 1 \/ (i - 1 \in DOMAIN notices' /\ notices'[i - 1] = notices[i])
  <2> DEFINE S == Events
  <2> HIDE DEF S
  <2>1. notices \in Seq(S)
    BY DEF TypeOK, S
  <2>2. /\ notices' \in Seq(S) /\ Len(notices) \in Nat /\ Len(notices) > 0
        /\ Head(notices) = notices[1] /\ notices[1] \in S
        /\ DOMAIN notices = 1..Len(notices) /\ DOMAIN notices' = 1..(Len(notices) - 1)
        /\ \A i \in DOMAIN notices' : i + 1 \in DOMAIN notices /\ notices'[i] = notices[i + 1]
    BY <1>1, <2>1, Shortened
  <2>3. \A i \in DOMAIN notices : i = 1 \/ (i - 1 \in DOMAIN notices' /\ (i - 1) + 1 = i)
    BY <2>2
  <2> QED
    BY <2>2, <2>3 DEF S
<1>3. PICK e \in Events : e = notices[1]
  BY <1>2
<1>4. Matches(e) /\ e.host \in Hosts /\ e.layer \in Layers
  BY <1>2, <1>3 DEF EventsAreChanges, Events
<1>5. PICK g \in Hosts, l \in Layers, v \in DOMAIN log :
        /\ g = e.host /\ l = e.layer /\ v = e.version
        /\ log[v].host = g /\ log[v].layer = l /\ v \in Changes(g)
        /\ (e.type = "DELETED") <=> Deleted(v)
  BY <1>4 DEF Matches, Changes
<1>6. v \in Nat /\ v # 0 /\ v \in 0..revision
  BY <1>1, <1>5
<1>7. table' = IF ~Deleted(v) THEN [table EXCEPT ![l][g] = v]
               ELSE IF kind = "Node" THEN table ELSE [table EXCEPT ![l][g] = 0]
  BY <1>2, <1>3, <1>5 DEF HandleNotice, UpdateResource, DeleteResource
<1>8. /\ table \in [Layers -> [Hosts -> 0..revision]]
      /\ table' \in [Layers -> [Hosts -> 0..revision]]
      /\ \A m \in Layers, h \in Hosts : h # g \/ m # l => table'[m][h] = table[m][h]
      /\ ~Deleted(v) => table'[l][g] = v
      /\ Deleted(v) => table'[l][g] = 0 \/ (kind = "Node" /\ table' = table)
  <2>1. 0 \in 0..revision /\ table \in [Layers -> [Hosts -> 0..revision]]
    BY <1>1 DEF TypeOK
  <2>2. CASE ~Deleted(v)
    BY <1>6, <1>7, <2>1, <2>2
  <2>3. CASE Deleted(v) /\ kind = "Node"
    BY <1>7, <2>1, <2>3
  <2>4. CASE Deleted(v) /\ kind # "Node"
    BY <1>7, <2>1, <2>4
  <2> QED
    BY <2>2, <2>3, <2>4
<1>9. TypeOK'
  BY <1>1, <1>2, <1>8, LogStays DEF TypeOK
<1>10. \A m \in Layers, h \in Hosts : table'[m][h] # 0 => \E i \in Changes(h) : log[i].layer = m
  <2> SUFFICES ASSUME NEW m \in Layers, NEW h \in Hosts, table'[m][h] # 0
               PROVE  \E i \in Changes(h) : log[i].layer = m
    OBVIOUS
  <2>1. CASE m = l /\ h = g
    BY <1>5, <2>1
  <2>2. CASE h # g \/ m # l
    BY <1>8, <2>2 DEF EventsAreChanges
  <2> QED
    BY <2>1, <2>2
<1>11. EventsAreChanges'
  BY <1>1, <1>2, <1>10, LogStays DEF EventsAreChanges
<1>12. version # 0
  BY <1>1 DEF FirstListTellsAll
<1>13. BacklogIsLast' /\ FirstListTellsAll'
  BY <1>1, <1>12, LogStays DEF BacklogIsLast, FirstListTellsAll
<1>14. \A h \in Hosts : \A k \in {0} \union Changes(h) : Known(h, k) /\ ~Moved(h) => Known(h, k)'
  <2> SUFFICES ASSUME NEW h \in Hosts, NEW k \in {0} \union Changes(h), Known(h, k), ~Moved(h)
               PROVE  Known(h, k)'
    OBVIOUS
  <2>1. \A i \in Mentions(h)' : i + 1 \in Mentions(h) /\ notices'[i] = notices[i + 1] /\ i \in Nat
    <3>1. \A i \in DOMAIN notices' : i \in Nat
      BY <1>2 DEF TypeOK
    <3> QED
      BY <1>2, <3>1 DEF Mentions
  <2>2. \A i \in Mentions(h) : i \in Nat /\ i # 0 /\
          (i = 1 \/ (i - 1 \in Mentions(h)' /\ notices'[i - 1] = notices[i]))
    BY <1>2 DEF Mentions
  <2>3. CASE \E i \in Mentions(h) : i # 1
    <3>1. PICK i \in Mentions(h) : (\A j \in Mentions(h) : j <= i) /\ notices[i].version = k
      BY <2>3 DEF Known
    <3>2. i # 1
      BY <2>2, <2>3, <3>1
    <3>3. i - 1 \in Mentions(h)' /\ notices'[i - 1].version = k
      BY <2>2, <3>1, <3>2
    <3>4. \A j \in Mentions(h)' : j <= i - 1
      BY <2>1, <2>2, <3>1
    <3> QED
      BY <3>3, <3>4 DEF Known
  <2>4. CASE Mentions(h) = {}
    <3>1. Mentions(h)' = {} /\ h # g
      BY <1>2, <1>3, <1>5, <2>1, <2>4 DEF Mentions
    <3>2. \A m \in Layers : table'[m][h] = table[m][h]
      BY <1>8, <3>1
    <3> QED
      BY <1>1, <2>4, <3>1, <3>2, LogStays DEF Known
  <2>5. CASE Mentions(h) = {1}
    <3>1. h = g /\ k = v
      <4>1. \A i \in Mentions(h) : i = 1
        BY <2>5
      <4>2. Mentions(h) # {}
        BY <2>5
      <4>3. notices[1].version = k
        BY <4>1, <4>2 DEF Known
      <4> QED
        BY <1>3, <1>5, <2>5, <4>3 DEF Mentions
    <3>2. Mentions(h)' = {}
      <4>1. \A i \in Mentions(h)' : i + 1 = 1 /\ i \in DOMAIN notices'
        BY <2>1, <2>5 DEF Mentions
      <4>2. \A i \in DOMAIN notices' : i >= 1
        BY <1>2
      <4> QED
        BY <2>1, <4>1, <4>2
    <3>3. \A m \in Layers : m # l => table[m][h] = 0 /\ Value(v, m) = 0
      <4>1. \A i \in Changes(g) : log[i].layer = l
        BY <1>1, <1>5, <3>1 DEF Moved, Changes
      <4> QED
        BY <1>5, <3>1, <4>1 DEF EventsAreChanges, Value
    <3>4. Value(v, l) = IF Deleted(v) THEN 0 ELSE v
      BY <1>5 DEF Value
    <3>5. \A m \in Layers : table'[m][h] = Value(k, m) \/ (kind = "Node" /\ Deleted(k))
      BY <1>8, <3>1, <3>3, <3>4
    <3> QED
      BY <1>1, <3>2, <3>5, LogStays DEF Known
  <2> QED
    BY <2>3, <2>4, <2>5
<1>15. ReportedIsKnown'
  <2> SUFFICES ASSUME NEW h \in Hosts \ missed, ~Moved(h), h \notin HostsIn(backlog)
               PROVE  Covered(h)'
    BY <1>1, LogStays DEF ReportedIsKnown, HostsIn
  <2>1. PICK k \in {0} \union Changes(h) :
               Known(h, k) /\ (\A i \in Changes(h) : i <= Horizon => i <= k)
    BY <1>12 DEF ReportedIsKnown, Covered
  <2> QED
    BY <1>1, <1>14, <2>1, LogStays DEF Covered, Horizon
<1> QED
  BY <1>9, <1>11, <1>13, <1>15

LEMMA RegistryNext ==
  ASSUME ConstantAssumption, RegistryInv, [Next]_registryVars
  PROVE  RegistryInv'
<1>1. \A h \in Hosts : h \in Present => LastChange(h) \in DOMAIN log /\ log[LastChange(h)].layer \in Layers
  <2>1. log \in Seq(Events) /\ \A i \in DOMAIN log : log[i] \in Events
    BY DEF RegistryInv, TypeOK
  <2>2. \A i \in DOMAIN log : log[i].layer \in Layers
    BY <2>1 DEF Events
  <2> QED
    BY <2>1, <2>2, PresentHas
<1>2. ASSUME NEW h \in Hosts, ChangeNode(h) PROVE RegistryInv'
  <2>1. LayersOf(kind) \subseteq Layers
    BY DEF ConstantAssumption, LayersOf
  <2>2. CASE h \in Present /\ Commit("DELETED", h, log[LastChange(h)].layer)
    <3>1. PICK l \in Layers : l = log[LastChange(h)].layer
      BY <1>1, <2>2
    <3> QED
      BY <2>2, <3>1, CommitStep
  <2>3. CASE \E l \in LayersOf(kind) : Commit("MODIFIED", h, l)
    BY <2>1, <2>3, CommitStep
  <2>4. CASE \E l \in LayersOf(kind) : Commit("ADDED", h, l)
    BY <2>1, <2>4, CommitStep
  <2> QED
    BY <1>2, <2>2, <2>3, <2>4 DEF ChangeNode
<1>3. CASE Compact
  <2>1. compacted' \in 0..revision
    BY <1>3 DEF Compact, RegistryInv, TypeOK, revision
  <2> QED
    BY <1>3, <2>1, QuietStep DEF Compact
<1>4. CASE UNCHANGED registryVars
  <2>1. compacted' \in 0..revision
    BY <1>4 DEF registryVars, RegistryInv, TypeOK
  <2> QED
    BY <1>4, <2>1, QuietStep DEF registryVars
<1> QED
  BY <1>2, <1>3, <1>4, OpenWatchStep, NotifyStep, CloseWatchStep, WatchExpiresStep,
     HandleNoticeStep DEF Next

\* Whatever is changed, forgotten or reported twice, and however often the watch is opened
\* again: when everything reported is handled, the table holds the last version of every node.
THEOREM RegistrySafe ==
  ASSUME ConstantAssumption
  PROVE  Init /\ [][Next]_registryVars => [](TypeOK /\ TableIsCurrent)
<1>1. RegistryInv /\ [Next]_registryVars => RegistryInv'
  BY RegistryNext
<1>2. RegistryInv => TypeOK /\ TableIsCurrent
  BY InvIsCurrent DEF RegistryInv
<1>3. Init => RegistryInv
  BY RegistryInit
<1> QED
  BY <1>1, <1>2, <1>3, PTL
=============================================================================
