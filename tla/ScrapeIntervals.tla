-------------------------- MODULE ScrapeIntervals --------------------------
(***************************************************************************)
(* How often telemetry is collected.  The telemetry controller of every    *)
(* agent keeps the intervals that the configuration, the policies and, on  *)
(* a node, the cluster ask for, and applies the smallest.  The collector   *)
(* of a node is a pod that the cluster agent creates from the node's       *)
(* OTEL_DEPLOY messages; OTEL_NODE_INTERVAL_UPDATE goes the other way.     *)
(* Handlers do not suspend, and messages between two agents keep order.    *)
(***************************************************************************)
EXTENDS Naturals, Sequences, FiniteSets, FiniteSetsExt

CONSTANTS
  Nodes, Cluster,
  Policies,  \* the policies that ask for an interval
  Intervals, \* what they ask for; 0 is what an interval that cannot be parsed yields
  Default,   \* node_exporter_scrape_interval
  MaxEntries, \* bound on the entries of a node in otel_pod_list; more count as this many
  MaxChanges \* bound on policies started or stopped, and on restarts

Agents == Nodes \union {Cluster}

ConstantAssumption ==
  /\ Cluster \notin Nodes /\ Policies \intersect {Cluster, "default"} = {}
  /\ Intervals \subseteq Nat /\ Default \in Nat /\ MaxEntries \in Nat \ {0}

VARIABLES
  requests,  \* requests_scrape_intervals of each agent
  current,   \* current_scrape_interval of each agent, 0 before it has started
  pods,      \* cluster: how often each node is in otel_pod_list
  collector, \* the interval in the configuration of each node's collector
  deploys,   \* OTEL_DEPLOY messages on their way to the cluster agent
  updates,   \* OTEL_NODE_INTERVAL_UPDATE messages on their way to each node
  started,   \* the agents that have initialised their telemetry
  changes    \* what has been used of the bound

intervalVars == <<requests, current, pods, collector, deploys, updates, started, changes>>

Init ==
  /\ requests = [a \in Agents |-> << >>] /\ current = [a \in Agents |-> 0]
  /\ pods = [n \in Nodes |-> 0] /\ collector = [n \in Nodes |-> Default]
  /\ deploys = << >> /\ updates = [n \in Nodes |-> << >>]
  /\ started = {} /\ changes = 0

-----------------------------------------------------------------------------
With(f, id, x) == [i \in DOMAIN f \union {id} |-> IF i = id THEN x ELSE f[i]]
Without(f, id) == [i \in DOMAIN f \ {id} |-> f[i]]
Smallest(f) == Min({f[i] : i \in DOMAIN f})
Times(k, x) == [i \in 1..k |-> x]

\* apply_interval_change: a node asks the cluster agent for a new collector, the cluster
\* agent tells the nodes, once for every entry of its list.  inbox: the updates to nodes.
Apply(a, x, inbox) ==
  IF a = Cluster
  THEN /\ updates' = [n \in Nodes |-> inbox[n] \o Times(pods[n], x)]
       /\ UNCHANGED deploys
  ELSE deploys' = Append(deploys, [node |-> a, interval |-> x]) /\ updates' = inbox

\* Deviation: the latest request is applied, whatever the others are.
AddLatest(a, id, x, inbox) ==
  /\ requests' = [requests EXCEPT ![a] = With(@, id, x)]
  /\ current' = [current EXCEPT ![a] = x]
  /\ IF current[a] # x THEN Apply(a, x, inbox) ELSE updates' = inbox /\ UNCHANGED deploys

\* Deviation: the interval is applied even when it is the current one.
AddAlways(a, id, x, inbox) ==
  /\ requests' = [requests EXCEPT ![a] = With(@, id, x)]
  /\ current' = [current EXCEPT ![a] = Smallest(requests'[a])]
  /\ Apply(a, current'[a], inbox)

AddNewInterval(a, id, x, inbox) ==
  LET smallest == Smallest(With(requests[a], id, x)) IN
  /\ requests' = [requests EXCEPT ![a] = With(@, id, x)]
  /\ current' = [current EXCEPT ![a] = smallest]
  /\ IF current[a] # smallest THEN Apply(a, smallest, inbox)
     ELSE updates' = inbox /\ UNCHANGED deploys

\* The smallest request is found as a key and compared with an interval, so they always
\* differ: the old interval stays the current one and is applied again.
RemoveInterval(a, id) ==
  /\ requests' = [requests EXCEPT ![a] = Without(@, id)]
  /\ Apply(a, current[a], updates)
  /\ UNCHANGED current

-----------------------------------------------------------------------------
(* The agents. *)

Change == changes < MaxChanges /\ changes' = changes + 1

Initialize(a) ==
  /\ a \notin started /\ started' = started \union {a}
  /\ requests' = [requests EXCEPT ![a] = With(@, "default", Default)]
  /\ current' = [current EXCEPT ![a] = Default]
  /\ IF a = Cluster THEN UNCHANGED deploys
     ELSE deploys' = Append(deploys, [node |-> a, interval |-> Default])
  /\ UNCHANGED <<pods, collector, updates, changes>>

PolicyStarts(a, p, x) ==
  /\ a \in started /\ Change /\ AddNewInterval(a, p, x, updates)
  /\ UNCHANGED <<pods, collector, started>>

\* Removing an interval that is not there raises, and nothing has changed.
PolicyStops(a, p) ==
  /\ a \in started /\ p \in DOMAIN requests[a] /\ Change /\ RemoveInterval(a, p)
  /\ UNCHANGED <<pods, collector, started>>

\* Deviation: a node that deploys with another interval is not informed.
DeployQuietly ==
  /\ Cluster \in started /\ deploys # << >> /\ deploys' = Tail(deploys)
  /\ collector' = [collector EXCEPT ![Head(deploys).node] = Head(deploys).interval]
  /\ pods' = [pods EXCEPT ![Head(deploys).node] = Min({@ + 1, MaxEntries})]
  /\ UNCHANGED <<requests, current, updates, started, changes>>

\* remote_apply_otel_configuration.  The list gets a new entry for every message.
DeployCollector ==
  /\ Cluster \in started /\ deploys # << >> /\ deploys' = Tail(deploys)
  /\ LET n == Head(deploys).node
         x == Head(deploys).interval
     IN  /\ collector' = [collector EXCEPT ![n] = x]
         /\ pods' = [pods EXCEPT ![n] = Min({@ + 1, MaxEntries})]
         /\ updates' = IF x = current[Cluster] THEN updates
                       ELSE [updates EXCEPT ![n] = Append(@, current[Cluster])]
  /\ UNCHANGED <<requests, current, started, changes>>

UpdateInterval(n) ==
  /\ n \in started /\ updates[n] # << >>
  /\ AddNewInterval(n, Cluster, Head(updates[n]), [updates EXCEPT ![n] = Tail(@)])
  /\ UNCHANGED <<pods, collector, started, changes>>

\* A restarted agent knows nothing; the messages it had not handled are lost.
Restart(a) ==
  /\ a \in started /\ Change /\ started' = started \ {a}
  /\ requests' = [requests EXCEPT ![a] = << >>] /\ current' = [current EXCEPT ![a] = 0]
  /\ IF a = Cluster
     THEN /\ pods' = [n \in Nodes |-> 0] /\ deploys' = << >> /\ UNCHANGED updates
     ELSE updates' = [updates EXCEPT ![a] = << >>] /\ UNCHANGED <<pods, deploys>>
  /\ UNCHANGED collector

Deliver == DeployCollector \/ \E n \in Nodes : UpdateInterval(n)

Next ==
  \/ \E a \in Agents : Initialize(a) \/ Restart(a)
  \/ \E a \in Agents, p \in Policies : PolicyStops(a, p)
                                       \/ \E x \in Intervals : PolicyStarts(a, p, x)
  \/ Deliver

-----------------------------------------------------------------------------
(* What must hold. *)

TypeOK ==
  /\ DOMAIN requests = Agents
  /\ \A a \in Agents : \A id \in DOMAIN requests[a] :
       id \in Policies \union {Cluster, "default"} /\ requests[a][id] \in Nat
  /\ current \in [Agents -> Nat] /\ pods \in [Nodes -> Nat] /\ collector \in [Nodes -> Nat]
  /\ deploys \in Seq([node : Nodes, interval : Nat]) /\ updates \in [Nodes -> Seq(Nat)]
  /\ started \subseteq Agents

\* Telemetry is collected at least as often as anybody on an agent asks for, whatever
\* policies came and went and whatever the cluster agent sent in the meantime.
RequestsAreServed ==
  \A a \in started : \A id \in DOMAIN requests[a] : current[a] <= requests[a][id]

Quiet == deploys = << >> /\ \A n \in Nodes : updates[n] = << >>

\* Once the messages are handled, the collector of a node the cluster agent knows of runs
\* with the interval of the node agent, and that is no longer than the cluster's.
NodesFollowCluster ==
  Quiet => \A n \in started : n # Cluster /\ pods[n] > 0 =>
             collector[n] = current[n] /\ current[n] <= current[Cluster]
=============================================================================
