---------------------------- MODULE NodeRegistry ----------------------------
(***************************************************************************)
(* How the Fluidity controller knows the nodes.  It lists them once, then  *)
(* a ResourceWatcher turns the events of the Kubernetes API into notices   *)
(* that the controller's handler applies to its table, one at a time.  A   *)
(* watch lasts a minute at most and is opened again from the version of    *)
(* the last object it delivered.                                           *)
(***************************************************************************)
EXTENDS Naturals, Sequences, FiniteSets, Functions

CONSTANTS
  Hosts, Layers,
  Generic,       \* the layer of a host that names none
  MaxRevision,   \* bound on the changes of the objects
  MaxWatchFaults \* bound on lost connections, failing lists and forgotten versions

ConstantAssumption == IsFiniteSet(Hosts) /\ Generic \in Layers /\ MaxRevision \in Nat \ {0}

VARIABLES
  kind,      \* the resource that is watched: "Node" or "mlsysopsnodes"
  log,       \* API server: the changes so far; the i-th made version i
  compacted, \* API server: changes up to this version are forgotten
  watch,     \* "closed", "open" or "dead"
  version,   \* watcher: resource_version, 0 for none
  backlog,   \* watcher: what the watch has still to report of its initial list
  at,        \* watcher: the last version of the log reported
  notices,   \* notification_queue
  table,     \* controller: the version of each host in each layer's list, 0 for none
  missed,    \* history: hosts with a change that was never reported
  watchFaults

registryVars == <<kind, log, compacted, watch, version, backlog, at, notices, table,
                  missed, watchFaults>>

revision == Len(log)

LastChange(h) == LET of == {i \in DOMAIN log : log[i].host = h}
           IN  IF of = {} THEN 0 ELSE CHOOSE i \in of : \A j \in of : j <= i

\* The objects there are.
Present == {h \in Hosts : LastChange(h) # 0 /\ log[LastChange(h)].type # "DELETED"}

Listed == [l \in Layers |-> [h \in Hosts |->
             IF h \in Present /\ log[LastChange(h)].layer = l THEN LastChange(h) ELSE 0]]

LayersOf(k) == IF k = "Node" THEN {Generic} ELSE Layers

\* setup lists the nodes before it starts the watchers.
Init ==
  /\ kind \in {"Node", "mlsysopsnodes"}
  /\ log \in {<< >>} \union {<<[type |-> "ADDED", host |-> h, layer |-> l, version |-> 1]>> :
                              h \in Hosts, l \in LayersOf(kind)}
  /\ compacted = 0 /\ watch = "closed" /\ version = 0 /\ backlog = << >> /\ at = 0
  /\ notices = << >> /\ table = Listed /\ missed = {} /\ watchFaults = 0

WatchFault == watchFaults < MaxWatchFaults /\ watchFaults' = watchFaults + 1

\* The orders in which a watch may report the objects there are.
Orders == Bijection(1..Cardinality(Present), Present)

HostsIn(events) == {events[i].host : i \in DOMAIN events}

-----------------------------------------------------------------------------
(* The API server. *)

\* A node deleted between the list and the first watch is not reported by it.
Commit(type, h, l) ==
  /\ revision < MaxRevision
  /\ log' = Append(log, [type |-> type, host |-> h, layer |-> l, version |-> revision + 1])
  /\ missed' = IF type = "DELETED" /\ version = 0 /\ watch = "closed"
               THEN missed \union {h} ELSE missed
  /\ UNCHANGED <<kind, compacted, watch, version, backlog, at, notices, table, watchFaults>>

ChangeNode(h) ==
  IF h \in Present
  THEN \/ Commit("DELETED", h, log[LastChange(h)].layer)
       \/ \E l \in LayersOf(kind) : Commit("MODIFIED", h, l)
  ELSE \E l \in LayersOf(kind) : Commit("ADDED", h, l)

Compact ==
  /\ compacted < revision /\ WatchFault /\ compacted' = revision
  /\ UNCHANGED <<kind, log, watch, version, backlog, at, notices, table, missed>>

-----------------------------------------------------------------------------
(* ResourceWatcher.run. *)

\* Deviation: a watch that is opened again reports what happens from then on.
OpenAtHead ==
  /\ watch = "closed" /\ (version = 0 \/ version >= compacted) /\ watch' = "open"
  /\ IF version = 0
     THEN \E order \in Orders :
            backlog' = [i \in DOMAIN order |-> [log[LastChange(order[i])] EXCEPT !.type = "ADDED"]]
     ELSE backlog' = << >>
  /\ at' = revision
  /\ UNCHANGED <<kind, log, compacted, version, notices, table, missed, watchFaults>>

\* Without a version the watch first reports the objects there are; with one, what
\* has changed since.
OpenWatch ==
  /\ watch = "closed" /\ (version = 0 \/ version >= compacted) /\ watch' = "open"
  /\ IF version = 0
     THEN /\ \E order \in Orders :
               backlog' = [i \in DOMAIN order |-> [log[LastChange(order[i])] EXCEPT !.type = "ADDED"]]
          /\ at' = revision
     ELSE backlog' = << >> /\ at' = version
  /\ UNCHANGED <<kind, log, compacted, version, notices, table, missed, watchFaults>>

Report(e) ==
  /\ notices' = Append(notices, e) /\ version' = e.version /\ missed' = missed \ {e.host}
  /\ UNCHANGED <<kind, log, compacted, watch, table, watchFaults>>

Notify ==
  /\ watch = "open"
  /\ IF backlog # << >> THEN /\ Report(Head(backlog)) /\ backlog' = Tail(backlog)
                             /\ UNCHANGED at
     ELSE /\ at < revision /\ Report(log[at + 1]) /\ at' = at + 1
          /\ UNCHANGED backlog

\* The minute is over, or the connection is lost in the middle of the initial list.
CloseWatch ==
  /\ watch = "open" /\ watch' = "closed" /\ backlog' = << >>
  /\ IF backlog = << >> THEN UNCHANGED watchFaults ELSE WatchFault
  /\ missed' = missed \union HostsIn(backlog)
  /\ UNCHANGED <<kind, log, compacted, version, at, notices, table>>

\* 410: the watch goes on from the version of a new list, which nobody looks at.  When
\* the list fails too, the exception leaves the handler that asked for it, and run ends.
WatchExpires ==
  /\ watch = "closed" /\ version # 0 /\ version < compacted
  /\ \/ /\ version' = revision
        /\ missed' = missed \union HostsIn(SubSeq(log, version + 1, revision))
        /\ UNCHANGED <<watch, watchFaults>>
     \/ WatchFault /\ watch' = "dead" /\ UNCHANGED <<version, missed>>
  /\ UNCHANGED <<kind, log, compacted, backlog, at, notices, table>>

-----------------------------------------------------------------------------
(* The controller's handler. *)

UpdateResource(e) == table' = [table EXCEPT ![e.layer][e.host] = e.version]

\* Deleting a Node raises: its branch takes the dictionary of all nodes for a list.
DeleteResource(e) ==
  IF kind = "Node" THEN UNCHANGED table ELSE table' = [table EXCEPT ![e.layer][e.host] = 0]

HandleNotice ==
  /\ notices # << >> /\ notices' = Tail(notices)
  /\ IF Head(notices).type = "DELETED" THEN DeleteResource(Head(notices))
     ELSE UpdateResource(Head(notices))
  /\ UNCHANGED <<kind, log, compacted, watch, version, backlog, at, missed, watchFaults>>

Next ==
  \/ \E h \in Hosts : ChangeNode(h)
  \/ Compact
  \/ OpenWatch \/ Notify \/ CloseWatch \/ WatchExpires
  \/ HandleNotice

-----------------------------------------------------------------------------
(* What must hold. *)

Events == [type : {"ADDED", "MODIFIED", "DELETED"}, host : Hosts, layer : Layers,
           version : 1..MaxRevision]

TypeOK ==
  /\ log \in Seq(Events) /\ backlog \in Seq(Events) /\ notices \in Seq(Events)
  /\ watch \in {"closed", "open", "dead"}
  /\ version \in 0..revision /\ at \in 0..revision /\ compacted \in 0..revision
  /\ table \in [Layers -> [Hosts -> 0..revision]] /\ missed \subseteq Hosts

Settled == watch = "open" /\ backlog = << >> /\ at = revision /\ notices = << >>

\* A host that changes its layer stays in the list of the old one.
Moved(h) == \E i, j \in DOMAIN log :
              log[i].host = h /\ log[j].host = h /\ log[i].layer # log[j].layer

\* Plans are validated against the nodes as they are: when everything reported has been
\* handled, however often the watch was opened again and whatever it repeated, the table
\* holds the last version of every node, and no other node unless it is a Kubernetes one.
TableIsCurrent ==
  Settled => \A h \in Hosts \ missed, l \in Layers :
               \/ table[l][h] = Listed[l][h]
               \/ Moved(h)
               \/ kind = "Node" /\ h \notin Present
=============================================================================
