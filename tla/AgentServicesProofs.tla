------------------------ MODULE AgentServicesProofs ------------------------
(***************************************************************************)
(* Machine-checked proofs about AgentServices.  The table of nodes is      *)
(* proved in NodeRegistryProofs and carried over to the instance; the      *)
(* other parts have a section each here: the queue of ML deployments, the  *)
(* scrape intervals, the installation and the Analyze tasks' sleep.  The   *)
(* last section states every safety property of the composition.           *)
(***************************************************************************)
EXTENDS AgentServices, TLAPS, WellFoundedInduction, FiniteSetTheorems

RegistryP == INSTANCE NodeRegistryProofs

\* A set of numbers has a least one.
LEMMA NatMin ==
  ASSUME NEW T, T \subseteq Nat, T # {}
  PROVE  \E x \in T : \A y \in T : x <= y
<1>1. PICK x \in T : \A y \in T : ~(<<y, x>> \in OpToRel(<, Nat))
  BY NatLessThanWellFounded, WFMin
<1>2. \A y \in T : ~(y < x)
  BY <1>1 DEF OpToRel
<1> QED
  BY <1>2

-----------------------------------------------------------------------------
(* The queue of ML deployments. *)

\* The consumer has marked the model it is about to create a resource for.
StartedIsListed == consumer.pc \in {"create", "fail"} => endpoint[consumer.model] # "none"

\* A deployment the connector is about to store is known to the API, or its request failed.
InsertingIsKnown ==
  /\ \A m \in inserting : endpoint[m] # "none" \/ m \in unposted
  /\ api.op = "remove" => api.caller = "user"

\* The check that has found a pod is still counted.
FoundIsChecked == found # "none" => checks[found] > 0

ModelInv ==
  /\ Model!TypeOK /\ StartedIsListed /\ InsertingIsKnown /\ FoundIsChecked
  /\ Model!UnderDeploymentIsTended /\ Model!ResourceIsListed /\ Model!RowIsKnown

USE DEF Model!Info, Model!Statuses, Model!NoRequest, Model!Waiting

LEMMA ModelInvInit == Model!ConstantAssumption /\ Model!Init => ModelInv
BY DEF Model!ConstantAssumption, Model!Init, ModelInv, Model!TypeOK, StartedIsListed,
       InsertingIsKnown,
       FoundIsChecked, Model!UnderDeploymentIsTended, Model!ResourceIsListed, Model!RowIsKnown

-----------------------------------------------------------------------------
\* What the parts of the system other than the one that moves can rely on.
LEMMA ApiKeepsInv ==
  ASSUME Model!ConstantAssumption, ModelInv,
         \/ \E m \in Models : Model!UserDeploys(m) \/ Model!UserRemoves(m)
         \/ Model!Api \/ Model!RequestFails
  PROVE  ModelInv'
<1>1. CASE \E m \in Models : Model!UserDeploys(m) \/ Model!UserRemoves(m)
  BY <1>1
  DEF ModelInv, Model!TypeOK, StartedIsListed, InsertingIsKnown, FoundIsChecked,
      Model!UnderDeploymentIsTended, Model!ResourceIsListed, Model!RowIsKnown, Model!UserDeploys,
      Model!UserRemoves, Model!Request,
      Model!ConstantAssumption,
      Model!connectorVars, Model!redisVars, Model!agentVars, Model!clusterVars
<1>2. CASE Model!Push
  <2>1. api # Model!NoRequest /\ api.model \in Models /\ api.op \in {"deploy", "remove"}
    BY <1>2 DEF Model!Push, ModelInv, Model!TypeOK
  <2>2. entries' \in Seq([model : Models, kind : {"deploy", "remove"}])
    BY <1>2, <2>1 DEF Model!Push, ModelInv, Model!TypeOK
  <2>3. UNCHANGED <<endpoint, Model!agentVars, Model!clusterVars, untended, posted, modelFaults, rows,
                    uploads, answers>>
    BY <1>2 DEF Model!Push, Model!Responded, Model!connectorVars
  <2>4. /\ unposted' = unposted
        /\ \/ inserting' = inserting
           \/ api.op = "remove" /\ api.caller = "create"
    BY <1>2, <2>1 DEF Model!Push, Model!Responded, Model!connectorVars
  <2>5. \/ api' = Model!NoRequest
        \/ /\ api'.op = api.op /\ api'.caller = api.caller
           /\ api' \in [op : {"deploy", "remove"}, model : Models,
                        step : {"push", "mark"}, caller : {"user", "create", "upload"}]
    BY <1>2, <2>1 DEF Model!Push, ModelInv, Model!TypeOK, Model!Responded
  <2>6. inserting' = inserting
    BY <2>4 DEF ModelInv, InsertingIsKnown
  <2>7. Model!TypeOK'
    BY <2>2, <2>3, <2>4, <2>5, <2>6 DEF ModelInv, Model!TypeOK, Model!agentVars, Model!clusterVars
  <2>8. InsertingIsKnown'
    BY <2>1, <2>3, <2>4, <2>5, <2>6 DEF ModelInv, InsertingIsKnown
  <2> QED
    BY <2>3, <2>4, <2>7, <2>8
    DEF ModelInv, StartedIsListed, FoundIsChecked, Model!UnderDeploymentIsTended,
        Model!ResourceIsListed,
        Model!RowIsKnown, Model!agentVars, Model!clusterVars
<1>3. CASE Model!Mark
  BY <1>3
  DEF ModelInv, Model!TypeOK, StartedIsListed, InsertingIsKnown, FoundIsChecked,
      Model!UnderDeploymentIsTended, Model!ResourceIsListed, Model!RowIsKnown, Model!Mark,
      Model!Responded,
      Model!connectorVars, Model!redisVars, Model!agentVars, Model!clusterVars
<1>4. CASE Model!RequestFails
  BY <1>4
  DEF ModelInv, Model!TypeOK, StartedIsListed, InsertingIsKnown, FoundIsChecked,
      Model!UnderDeploymentIsTended, Model!ResourceIsListed, Model!RowIsKnown,
      Model!RequestFails, Model!Responded, Model!Fault,
      Model!connectorVars, Model!redisVars, Model!agentVars, Model!clusterVars
<1> QED
  BY <1>1, <1>2, <1>3, <1>4 DEF Model!Api

LEMMA ConnectorKeepsInv ==
  ASSUME Model!ConstantAssumption, ModelInv, Model!Connector
  PROVE  ModelInv'
<1> USE DEF Model!connectorVars, Model!redisVars, Model!agentVars, Model!clusterVars,
            Model!Request
<1>1. ASSUME NEW m \in Models, Model!CreateDeployment(m) PROVE ModelInv'
  BY <1>1
  DEF ModelInv, Model!TypeOK, StartedIsListed, InsertingIsKnown, FoundIsChecked,
      Model!UnderDeploymentIsTended, Model!ResourceIsListed, Model!RowIsKnown,
      Model!CreateDeployment
<1>2. ASSUME NEW m \in Models, Model!InsertRow(m) \/ Model!DeleteRow(m) PROVE ModelInv'
  <2>1. /\ rows' \in [Models -> Model!Info \union {"none", "waiting"}] /\ inserting' \subseteq inserting
        /\ \A d \in Models : rows'[d] # "none" => rows[d] # "none" \/ d \in inserting
    BY <1>2 DEF ModelInv, Model!TypeOK, Model!InsertRow, Model!DeleteRow
  <2>2. UNCHANGED <<uploads, answers, api, Model!redisVars, Model!agentVars, Model!clusterVars, unposted,
                    untended, posted, modelFaults>>
    BY <1>2 DEF Model!InsertRow, Model!DeleteRow
  <2> QED
    BY <2>1, <2>2
    DEF ModelInv, Model!TypeOK, StartedIsListed, InsertingIsKnown, FoundIsChecked,
        Model!UnderDeploymentIsTended, Model!ResourceIsListed, Model!RowIsKnown
<1>3. ASSUME NEW m \in Models, Model!FetchStatus(m) PROVE ModelInv'
  BY <1>3
  DEF ModelInv, Model!TypeOK, StartedIsListed, InsertingIsKnown, FoundIsChecked,
      Model!UnderDeploymentIsTended, Model!ResourceIsListed, Model!RowIsKnown, Model!FetchStatus
<1>4. ASSUME NEW m \in Models, Model!RenewDeployment(m) PROVE ModelInv'
  BY <1>4
  DEF ModelInv, Model!TypeOK, StartedIsListed, InsertingIsKnown, FoundIsChecked,
      Model!UnderDeploymentIsTended, Model!ResourceIsListed, Model!RowIsKnown,
      Model!RenewDeployment
<1>5. ASSUME NEW a \in answers, Model!StoreStatus(a) PROVE ModelInv'
  <2>1. a.model \in Models /\ a.status \in Model!Info
    BY <1>5 DEF ModelInv, Model!TypeOK
  <2> QED
    BY <1>5, <2>1
    DEF ModelInv, Model!TypeOK, StartedIsListed, InsertingIsKnown, FoundIsChecked,
        Model!UnderDeploymentIsTended, Model!ResourceIsListed, Model!RowIsKnown, Model!StoreStatus
<1>6. CASE Model!UploadModel
  BY <1>6
  DEF ModelInv, Model!TypeOK, StartedIsListed, InsertingIsKnown, FoundIsChecked,
      Model!UnderDeploymentIsTended, Model!ResourceIsListed, Model!RowIsKnown, Model!UploadModel
<1> QED
  BY <1>1, <1>2, <1>3, <1>4, <1>5, <1>6 DEF Model!Connector

LEMMA ConsumerKeepsInv ==
  ASSUME Model!ConstantAssumption, ModelInv, Model!Consumer
  PROVE  ModelInv'
<1> USE DEF Model!connectorVars, Model!redisVars, Model!agentVars, Model!clusterVars, Model!At,
            Model!Go, Model!Write, Model!Fault
<1>1. consumer.pc \in {"decide", "delete", "start", "create", "fail"} =>
        consumer.model \in Models /\ consumer.kind \in {"deploy", "remove"}
  BY DEF ModelInv, Model!TypeOK
<1>2. CASE Model!TakeEntry
  <2>1. /\ Head(entries) \in [model : Models, kind : {"deploy", "remove"}]
        /\ entries' \in Seq([model : Models, kind : {"deploy", "remove"}])
    <3> DEFINE Entries == [model : Models, kind : {"deploy", "remove"}]
    <3>1. entries \in Seq(Entries) /\ entries # << >> /\ entries' = Tail(entries)
      BY <1>2 DEF Model!TakeEntry, ModelInv, Model!TypeOK
    <3> HIDE DEF Entries
    <3>2. Head(entries) \in Entries /\ entries' \in Seq(Entries)
      BY <3>1
    <3> QED
      BY <3>2 DEF Entries
  <2> QED
    BY <1>2, <2>1
    DEF ModelInv, Model!TypeOK, StartedIsListed, InsertingIsKnown, FoundIsChecked,
        Model!UnderDeploymentIsTended, Model!ResourceIsListed, Model!RowIsKnown, Model!TakeEntry
<1>3. CASE Model!Decide
  BY <1>1, <1>3
  DEF ModelInv, Model!TypeOK, StartedIsListed, InsertingIsKnown, FoundIsChecked,
      Model!UnderDeploymentIsTended, Model!ResourceIsListed, Model!RowIsKnown, Model!Decide
<1>4. CASE Model!DeleteResource
  BY <1>1, <1>4
  DEF ModelInv, Model!TypeOK, StartedIsListed, InsertingIsKnown, FoundIsChecked,
      Model!UnderDeploymentIsTended, Model!ResourceIsListed, Model!RowIsKnown,
      Model!DeleteResource
<1>5. CASE Model!Start
  BY <1>1, <1>5
  DEF ModelInv, Model!TypeOK, StartedIsListed, InsertingIsKnown, FoundIsChecked,
      Model!UnderDeploymentIsTended, Model!ResourceIsListed, Model!RowIsKnown, Model!Start
<1>6. CASE Model!CreateResource
  <2> DEFINE m == consumer.model
  <2>1. /\ consumer.pc = "create" /\ found = "none" /\ m \in Models /\ endpoint[m] # "none"
        /\ UNCHANGED <<Model!connectorVars, api, Model!redisVars, found, running, unposted, untended, posted>>
        /\ modelFaults' \in Nat
    BY <1>1, <1>6 DEF Model!CreateResource, ModelInv, Model!TypeOK, StartedIsListed
  <2>2. \/ consumer' = [consumer EXCEPT !.pc = "fail"] /\ UNCHANGED <<resources, checks>>
        \/ /\ checks' = [checks EXCEPT ![m] = @ + 1] /\ consumer' = Model!Waiting
           /\ resources' = resources \/ resources' = resources \union {m}
    BY <1>6 DEF Model!CreateResource
  <2>3. checks \in [Models -> Nat]
    BY DEF ModelInv, Model!TypeOK
  <2>4. checks' \in [Models -> Nat] /\ \A d \in Models : checks[d] > 0 => checks'[d] > 0
    BY <2>1, <2>2, <2>3
  <2>5. \/ consumer' = Model!Waiting /\ checks'[m] > 0
        \/ /\ consumer'.pc = "fail" /\ consumer'.model = m
           /\ consumer' \in [pc : {"decide", "delete", "start", "create", "fail", "ended"},
                             model : Models, kind : {"deploy", "remove"}]
    <3>1. consumer \in [pc : {"decide", "delete", "start", "create", "fail", "ended"},
                         model : Models, kind : {"deploy", "remove"}]
      BY <2>1 DEF ModelInv, Model!TypeOK
    <3>2. CASE consumer' = [consumer EXCEPT !.pc = "fail"]
      BY <3>1, <3>2
    <3>3. CASE checks' = [checks EXCEPT ![m] = @ + 1] /\ consumer' = Model!Waiting
      BY <2>1, <2>3, <3>3
    <3> QED
      BY <2>2, <3>2, <3>3
  <2>6. resources' = resources \/ resources' = resources \union {m}
    BY <2>2
  <2> HIDE DEF m
  <2>7. Model!TypeOK'
    BY <2>1, <2>4, <2>5, <2>6 DEF ModelInv, Model!TypeOK
  <2>8. Model!UnderDeploymentIsTended'
    BY <2>1, <2>4, <2>5 DEF ModelInv, Model!UnderDeploymentIsTended, m
  <2> QED
    BY <2>1, <2>5, <2>6, <2>7, <2>8
    DEF ModelInv, StartedIsListed, InsertingIsKnown, FoundIsChecked, Model!ResourceIsListed,
        Model!RowIsKnown
<1>7. CASE Model!DeploymentFails
  BY <1>1, <1>7
  DEF ModelInv, Model!TypeOK, StartedIsListed, InsertingIsKnown, FoundIsChecked,
      Model!UnderDeploymentIsTended, Model!ResourceIsListed, Model!RowIsKnown,
      Model!DeploymentFails
<1> QED
  BY <1>2, <1>3, <1>4, <1>5, <1>6, <1>7 DEF Model!Consumer

LEMMA CheckKeepsInv ==
  ASSUME Model!ConstantAssumption, ModelInv,
         \/ \E m \in Models : Model!FindPod(m) \/ Model!PodStarts(m) \/ Model!PodStops(m)
         \/ Model!StoreEndpoint \/ Model!RestartAgent
  PROVE  ModelInv'
<1> USE DEF Model!connectorVars, Model!redisVars, Model!agentVars, Model!clusterVars,
            Model!Write, Model!Fault
<1>1. ASSUME NEW m \in Models, Model!FindPod(m) PROVE ModelInv'
  <2>1. CASE UNCHANGED <<checks, untended, modelFaults>> /\ found' = m
    BY <1>1, <2>1
    DEF ModelInv, Model!TypeOK, StartedIsListed, InsertingIsKnown, FoundIsChecked,
        Model!UnderDeploymentIsTended, Model!ResourceIsListed, Model!RowIsKnown, Model!FindPod
  <2>2. CASE UNCHANGED found /\ checks' # checks
    <3>1. /\ checks[m] \in Nat /\ checks[m] > 0 /\ checks' = [checks EXCEPT ![m] = @ - 1]
          /\ untended' = untended \union {m} /\ found = "none" /\ modelFaults' \in Nat
      BY <1>1, <2>2
      DEF ModelInv, Model!TypeOK, Model!FindPod, Model!Yielded, Model!ConstantAssumption
    <3>2. checks' \in [Models -> Nat] /\ \A k \in Models : k # m => checks'[k] = checks[k]
      BY <3>1 DEF ModelInv, Model!TypeOK
    <3>3. UNCHANGED <<rows, inserting, uploads, answers, api, entries, endpoint, consumer,
                      found, resources, running, unposted, posted>>
      BY <1>1, <2>2 DEF Model!FindPod
    <3> QED
      BY <3>1, <3>2, <3>3
      DEF ModelInv, Model!TypeOK, StartedIsListed, InsertingIsKnown, FoundIsChecked,
          Model!UnderDeploymentIsTended, Model!ResourceIsListed, Model!RowIsKnown
  <2> QED
    BY <1>1, <2>1, <2>2 DEF ModelInv, Model!TypeOK, Model!FindPod
<1>2. ASSUME NEW m \in Models, Model!PodStarts(m) \/ Model!PodStops(m) PROVE ModelInv'
  BY <1>2
  DEF ModelInv, Model!TypeOK, StartedIsListed, InsertingIsKnown, FoundIsChecked,
      Model!UnderDeploymentIsTended, Model!ResourceIsListed, Model!RowIsKnown, Model!PodStarts,
      Model!PodStops
<1>3. CASE Model!StoreEndpoint
  <2>1. /\ found \in Models /\ checks[found] \in Nat /\ checks[found] > 0 /\ found' = "none"
        /\ checks \in [Models -> Nat] /\ checks' = [checks EXCEPT ![found] = @ - 1]
        /\ UNCHANGED <<Model!connectorVars, api, entries, consumer, Model!clusterVars, unposted, posted>>
        /\ modelFaults' \in Nat
    BY <1>3 DEF Model!StoreEndpoint, ModelInv, Model!TypeOK, FoundIsChecked
  <2>2. checks' \in [Models -> Nat] /\ \A m \in Models : m # found => checks'[m] = checks[m]
    BY <2>1
  <2>3. \/ endpoint' = [endpoint EXCEPT ![found] = "deployed"] /\ untended' = untended
        \/ endpoint' = endpoint /\ untended' = untended \union {found}
    BY <1>3 DEF Model!StoreEndpoint
  <2>4. /\ endpoint' \in [Models -> Model!Statuses] /\ untended' \subseteq Models
        /\ \A m \in Models : endpoint[m] # "none" => endpoint'[m] # "none"
        /\ \A m \in Models :
             \/ endpoint'[m] = endpoint[m] /\ m # found
             \/ endpoint'[m] # "under_deployment"
             \/ m \in untended'
        /\ untended \subseteq untended'
    BY <2>1, <2>3 DEF ModelInv, Model!TypeOK
  <2>5. Model!TypeOK'
    BY <2>1, <2>2, <2>4 DEF ModelInv, Model!TypeOK
  <2>6. Model!UnderDeploymentIsTended'
    BY <2>1, <2>2, <2>4 DEF ModelInv, Model!UnderDeploymentIsTended
  <2>7. StartedIsListed'
    BY <2>1, <2>4 DEF ModelInv, Model!TypeOK, StartedIsListed
  <2> QED
    BY <2>1, <2>4, <2>5, <2>6, <2>7
    DEF ModelInv, Model!TypeOK, InsertingIsKnown, FoundIsChecked, Model!ResourceIsListed,
        Model!RowIsKnown
<1>4. CASE Model!RestartAgent
  BY <1>4
  DEF ModelInv, Model!TypeOK, StartedIsListed, InsertingIsKnown, FoundIsChecked,
      Model!UnderDeploymentIsTended, Model!ResourceIsListed, Model!RowIsKnown, Model!RestartAgent
<1> QED
  BY <1>1, <1>2, <1>3, <1>4

\* The three promises hold for any number of deployments, requests, failing calls and
\* restarts of the agent.
THEOREM ModelSafe ==
  ASSUME Model!ConstantAssumption
  PROVE  Model!Init /\ [][Model!Next]_modelVars =>
           [](Model!TypeOK /\ Model!UnderDeploymentIsTended /\ Model!ResourceIsListed /\ Model!RowIsKnown)
<1>1. ModelInv /\ [Model!Next]_modelVars => ModelInv'
  <2>1. ASSUME ModelInv, UNCHANGED modelVars PROVE ModelInv'
    BY <2>1
    DEF modelVars, Model!connectorVars, Model!redisVars, Model!agentVars, Model!clusterVars,
        ModelInv, Model!TypeOK, StartedIsListed, InsertingIsKnown, FoundIsChecked,
        Model!UnderDeploymentIsTended, Model!ResourceIsListed, Model!RowIsKnown
  <2> QED
    BY <2>1, ApiKeepsInv, ConnectorKeepsInv, ConsumerKeepsInv, CheckKeepsInv DEF Model!Next
<1>2. ModelInv => Model!TypeOK /\ Model!UnderDeploymentIsTended /\ Model!ResourceIsListed /\ Model!RowIsKnown
  BY DEF ModelInv
<1> QED
  BY <1>1, <1>2, ModelInvInit, PTL

HIDE DEF Model!Info, Model!Statuses, Model!NoRequest, Model!Waiting

-----------------------------------------------------------------------------
(* The scrape intervals. *)

Ids == Policies \union {Cluster, "default"}
Messages == [node : Nodes, interval : Nat]

\* What Min of the community modules yields.
LEMMA LeastOf ==
  ASSUME NEW S, S \subseteq Nat, S # {}
  PROVE  Scrape!Min(S) \in S /\ \A y \in S : Scrape!Min(S) <= y
BY NatMin DEF Scrape!Min

\* A request is added to the others, and the smallest of them is known.
LEMMA WithRequest ==
  ASSUME NEW f, NEW id, NEW x \in Nat, \A i \in DOMAIN f : f[i] \in Nat
  PROVE  /\ DOMAIN Scrape!With(f, id, x) = DOMAIN f \union {id}
         /\ \A i \in DOMAIN Scrape!With(f, id, x) : Scrape!With(f, id, x)[i] \in Nat
         /\ Scrape!Smallest(Scrape!With(f, id, x)) \in Nat /\ Scrape!Smallest(Scrape!With(f, id, x)) <= x
         /\ \A i \in DOMAIN Scrape!With(f, id, x) : Scrape!Smallest(Scrape!With(f, id, x)) <= Scrape!With(f, id, x)[i]
<1> DEFINE g == Scrape!With(f, id, x)
           S == {g[i] : i \in DOMAIN g}
<1>1. /\ DOMAIN g = DOMAIN f \union {id} /\ g[id] = x
      /\ \A i \in DOMAIN g : g[i] \in Nat
  BY DEF Scrape!With
<1> HIDE DEF g
<1>2. S \subseteq Nat /\ x \in S /\ \A i \in DOMAIN g : g[i] \in S
  BY <1>1
<1>3. Scrape!Smallest(g) \in S /\ \A y \in S : Scrape!Smallest(g) <= y
  <2>1. Scrape!Smallest(g) = Scrape!Min(S)
    BY DEF Scrape!Smallest
  <2> HIDE DEF S
  <2>2. S # {}
    BY <1>2
  <2> QED
    BY <1>2, <2>1, <2>2, LeastOf
<1>4. Scrape!Smallest(g) \in Nat
  BY <1>2, <1>3
<1> QED
  BY <1>1, <1>2, <1>3, <1>4 DEF g

LEMMA LastOfTail ==
  ASSUME NEW S, NEW u \in Seq(S), u # << >>, Len(u) # 1
  PROVE  Tail(u) # << >> /\ Tail(u)[Len(Tail(u))] = u[Len(u)]
<1>1. Len(u) \in Nat /\ Len(u) # 0 /\ Len(u) > 1
  OBVIOUS
<1>2. Len(Tail(u)) = Len(u) - 1 /\ Tail(u) # << >>
  BY <1>1
<1>3. Tail(u)[Len(u) - 1] = u[(Len(u) - 1) + 1]
  BY <1>1
<1> QED
  BY <1>1, <1>2, <1>3

-----------------------------------------------------------------------------
\* The messages of a node on their way to the cluster agent.
Pending(n) == {i \in DOMAIN deploys : deploys[i].node = n}

\* The last message of a node is about its interval; once it is handled, so is the collector.
DeploysAreCurrent ==
  \A n \in Nodes \intersect started :
    /\ \A i \in Pending(n) : (\A j \in Pending(n) : j <= i) => deploys[i].interval = current[n]
    /\ Pending(n) = {} /\ pods[n] > 0 => collector[n] = current[n]

\* A node the cluster agent knows of is going to be answered, is going to be told the
\* interval of the cluster, or already complies with it.
NodesAreInformed ==
  \A n \in Nodes \intersect started :
    pods[n] > 0 =>
      \/ Pending(n) # {}
      \/ updates[n] # << >> /\ updates[n][Len(updates[n])] = current[Cluster]
      \/ current[n] <= current[Cluster]

\* Nothing is asked of an agent before it has started, and the cluster agent knows no node.
StartsEmpty ==
  /\ \A a \in Scrape!Agents \ started : DOMAIN requests[a] = {}
  /\ Cluster \notin started => \A n \in Nodes : pods[n] = 0

ScrapeInv ==
  Scrape!TypeOK /\ Scrape!RequestsAreServed /\ StartsEmpty /\ DeploysAreCurrent /\ NodesAreInformed

LEMMA ScrapeInvInit == Scrape!ConstantAssumption /\ Scrape!Init => ScrapeInv
<1> SUFFICES ASSUME Scrape!ConstantAssumption, Scrape!Init PROVE ScrapeInv
  OBVIOUS
<1>1. Scrape!TypeOK
  BY DEF Scrape!ConstantAssumption, Scrape!Init, Scrape!TypeOK, Scrape!Agents
<1> QED
  BY <1>1 DEF Scrape!Init, ScrapeInv, Scrape!RequestsAreServed, StartsEmpty, DeploysAreCurrent,
              NodesAreInformed

LEMMA AppendedDeploy ==
  ASSUME deploys \in Seq(Messages), NEW a \in Nodes, NEW y \in Nat,
         deploys' = Append(deploys, [node |-> a, interval |-> y])
  PROVE  /\ deploys' \in Seq(Messages)
         /\ \A n \in Nodes \ {a} : /\ Pending(n)' = Pending(n)
                                   /\ \A i \in Pending(n) : deploys'[i] = deploys[i]
         /\ Pending(a)' # {}
         /\ \A i \in Pending(a)' : (\A j \in Pending(a)' : j <= i) => deploys'[i].interval = y
<1> DEFINE k == Len(deploys) + 1
           m == [node |-> a, interval |-> y]
<1>1. m \in Messages /\ m.node = a /\ m.interval = y
  BY DEF Messages
<1> HIDE DEF m
<1>2. deploys' = Append(deploys, m)
  BY DEF m
<1>3. /\ Len(deploys) \in Nat /\ DOMAIN deploys = 1..Len(deploys) /\ DOMAIN deploys' = 1..k
      /\ deploys' \in Seq(Messages)
      /\ deploys'[k] = m /\ \A i \in DOMAIN deploys : deploys'[i] = deploys[i]
  BY <1>1, <1>2
<1>4. ASSUME NEW n \in Nodes \ {a} PROVE Pending(n)' = Pending(n)
  BY <1>1, <1>3, <1>4 DEF Pending
<1>5. k \in Pending(a)' /\ \A i \in Pending(a)' : i <= k
  BY <1>1, <1>3 DEF Pending
<1>6. ASSUME NEW i \in Pending(a)', \A j \in Pending(a)' : j <= i
      PROVE  deploys'[i].interval = y
  <2>1. i = k
    BY <1>3, <1>5, <1>6 DEF Pending
  <2> QED
    BY <1>1, <1>3, <2>1
<1> QED
  BY <1>3, <1>4, <1>5, <1>6 DEF Pending

LEMMA HandledDeploy ==
  ASSUME deploys \in Seq(Messages), deploys # << >>, deploys' = Tail(deploys)
  PROVE  /\ deploys' \in Seq(Messages) /\ Head(deploys) \in Messages
         /\ \A n \in Nodes :
              /\ \A i \in Pending(n)' : i + 1 \in Pending(n) /\ deploys'[i] = deploys[i + 1]
              /\ \A i \in Pending(n) : i = 1 \/ i - 1 \in Pending(n)'
              /\ 1 \in Pending(n) <=> n = Head(deploys).node
         /\ Head(deploys) = deploys[1] /\ \A n \in Nodes : Pending(n) \subseteq Nat \ {0}
<1>1. /\ Len(deploys) \in Nat \ {0} /\ Len(deploys') = Len(deploys) - 1
      /\ DOMAIN deploys = 1..Len(deploys) /\ DOMAIN deploys' = 1..(Len(deploys) - 1)
      /\ deploys' \in Seq(Messages) /\ Head(deploys) = deploys[1]
      /\ Head(deploys) \in Messages
      /\ \A i \in 1..(Len(deploys) - 1) : deploys'[i] = deploys[i + 1]
  OBVIOUS
<1> QED
  BY <1>1 DEF Pending

-----------------------------------------------------------------------------
\* The cluster agent tells every node it knows of.
LEMMA ClusterInforms ==
  ASSUME Scrape!TypeOK, NEW y \in Nat,
         updates' = [n \in Nodes |-> updates[n] \o Scrape!Times(pods[n], y)]
  PROVE  /\ updates' \in [Nodes -> Seq(Nat)]
         /\ \A n \in Nodes : pods[n] > 0 =>
              updates'[n] # << >> /\ updates'[n][Len(updates'[n])] = y
<1>1. ASSUME NEW n \in Nodes
      PROVE  /\ updates'[n] \in Seq(Nat)
             /\ pods[n] > 0 => updates'[n] # << >> /\ updates'[n][Len(updates'[n])] = y
  <2> DEFINE s == updates[n]
             k == pods[n]
             t == Scrape!Times(k, y)
  <2>1. s \in Seq(Nat) /\ k \in Nat /\ updates'[n] = s \o t
    BY DEF Scrape!TypeOK
  <2>2. t \in Seq(Nat) /\ Len(t) = k /\ \A i \in 1..k : t[i] = y
    BY <2>1 DEF Scrape!Times
  <2> HIDE DEF t, s, k
  <2>3. /\ s \o t \in Seq(Nat) /\ Len(s \o t) = Len(s) + Len(t)
        /\ Len(s) \in Nat /\ Len(t) \in Nat
    <3>1. s \in Seq(Nat) /\ t \in Seq(Nat)
      BY <2>1, <2>2
    <3> QED
      BY <3>1
  <2>5. \A i \in 1..Len(t) : (s \o t)[Len(s) + i] = t[i]
    BY <2>1, <2>2, <2>3
  <2>4. ASSUME k > 0 PROVE s \o t # << >> /\ (s \o t)[Len(s \o t)] = y
    <3>1. k \in 1..Len(t)
      BY <2>1, <2>2, <2>4
    <3> QED
      BY <2>1, <2>2, <2>3, <2>5, <3>1
  <2> QED
    BY <2>1, <2>3, <2>4 DEF k
<1> QED
  BY <1>1

\* A request that an agent adds, from a policy or from the cluster's message in the inbox.
LEMMA NewIntervalKeepsInv ==
  ASSUME Scrape!ConstantAssumption, ScrapeInv,
         NEW a \in started, NEW id \in Ids, NEW x \in Nat, NEW inbox,
         \/ inbox = updates
         \/ /\ a \in Nodes /\ updates[a] # << >> /\ x = Head(updates[a])
            /\ inbox = [updates EXCEPT ![a] = Tail(@)],
         Scrape!AddNewInterval(a, id, x, inbox), UNCHANGED <<pods, collector, started>>
  PROVE  ScrapeInv'
<1> DEFINE y == Scrape!Smallest(Scrape!With(requests[a], id, x))
<1>0. /\ a \in Scrape!Agents /\ Cluster \notin Nodes /\ Cluster \in Scrape!Agents /\ Nodes \subseteq Scrape!Agents
      /\ current \in [Scrape!Agents -> Nat] /\ pods \in [Nodes -> Nat] /\ updates \in [Nodes -> Seq(Nat)]
      /\ deploys \in Seq(Messages) /\ DOMAIN requests = Scrape!Agents /\ started \subseteq Scrape!Agents
  BY DEF Scrape!ConstantAssumption, ScrapeInv, Scrape!TypeOK, Scrape!Agents, Messages
<1>1. /\ DOMAIN Scrape!With(requests[a], id, x) = DOMAIN requests[a] \union {id}
      /\ \A i \in DOMAIN Scrape!With(requests[a], id, x) :
           Scrape!With(requests[a], id, x)[i] \in Nat /\ y <= Scrape!With(requests[a], id, x)[i]
      /\ y \in Nat /\ y <= x
  <2>1. \A i \in DOMAIN requests[a] : requests[a][i] \in Nat
    BY <1>0 DEF ScrapeInv, Scrape!TypeOK
  <2> QED
    BY <2>1, WithRequest
<1>2. /\ requests' = [requests EXCEPT ![a] = Scrape!With(@, id, x)]
      /\ current' = [current EXCEPT ![a] = y]
      /\ IF current[a] # y THEN Scrape!Apply(a, y, inbox) ELSE updates' = inbox /\ UNCHANGED deploys
  BY DEF Scrape!AddNewInterval
<1> HIDE DEF y
<1>3. /\ requests'[a] = Scrape!With(requests[a], id, x) /\ DOMAIN requests' = Scrape!Agents
      /\ \A b \in Scrape!Agents \ {a} : requests'[b] = requests[b]
      /\ current' \in [Scrape!Agents -> Nat] /\ current'[a] = y
      /\ \A b \in Scrape!Agents \ {a} : current'[b] = current[b]
  BY <1>0, <1>1, <1>2
<1>4. /\ DOMAIN requests' = Scrape!Agents
      /\ \A b \in Scrape!Agents : \A i \in DOMAIN requests'[b] : i \in Ids /\ requests'[b][i] \in Nat
  BY <1>1, <1>3 DEF ScrapeInv, Scrape!TypeOK, Ids
<1>5. Scrape!RequestsAreServed' /\ StartsEmpty'
  BY <1>0, <1>1, <1>3 DEF ScrapeInv, Scrape!RequestsAreServed, StartsEmpty
<1>6. inbox \in [Nodes -> Seq(Nat)]
  <2>1. a \in Nodes /\ updates[a] # << >> => Tail(updates[a]) \in Seq(Nat)
    BY <1>0
  <2> QED
    BY <1>0, <2>1
<1>7. CASE a = Cluster
  <2>1. inbox = updates /\ deploys' = deploys
    BY <1>0, <1>2, <1>7 DEF Scrape!Apply
  <2>2. DeploysAreCurrent'
    <3>1. \A n \in Nodes : current'[n] = current[n] /\ n \in Scrape!Agents
      BY <1>0, <1>3, <1>7
    <3>2. pods' = pods /\ collector' = collector /\ started' = started
      BY DEF Scrape!AddNewInterval
    <3> QED
      BY <2>1, <3>1, <3>2 DEF ScrapeInv, DeploysAreCurrent, Pending
  <2>3. CASE current[a] = y
    <3>1. updates' = updates /\ current' = current
      BY <1>0, <1>2, <2>1, <2>3
    <3> QED
      BY <1>3, <1>4, <1>5, <2>1, <2>2, <3>1
      DEF ScrapeInv, Scrape!TypeOK, Ids, NodesAreInformed, Pending
  <2>4. CASE current[a] # y
    <3>1. updates' = [n \in Nodes |-> updates[n] \o Scrape!Times(pods[n], y)]
      BY <1>2, <1>7, <2>1, <2>4 DEF Scrape!Apply
    <3>2. /\ updates' \in [Nodes -> Seq(Nat)]
          /\ \A n \in Nodes : pods[n] > 0 =>
               updates'[n] # << >> /\ updates'[n][Len(updates'[n])] = current'[Cluster]
      BY <1>1, <1>3, <1>7, <3>1, ClusterInforms DEF ScrapeInv
    <3>3. NodesAreInformed'
      BY <3>2 DEF NodesAreInformed
    <3> QED
      BY <1>3, <1>4, <1>5, <2>1, <2>2, <3>2, <3>3 DEF ScrapeInv, Scrape!TypeOK, Ids
  <2> QED
    BY <2>3, <2>4
<1>8. CASE a # Cluster
  <2>1. a \in Nodes /\ updates' = inbox
    BY <1>0, <1>2, <1>8 DEF Scrape!Apply, Scrape!Agents
  <2>2. \/ current[a] = y /\ deploys' = deploys
        \/ current[a] # y /\ deploys' = Append(deploys, [node |-> a, interval |-> y])
    BY <1>2, <1>8 DEF Scrape!Apply
  <2>3. /\ deploys' \in Seq(Messages)
        /\ \A n \in Nodes \ {a} : /\ Pending(n)' = Pending(n)
                                  /\ \A i \in Pending(n) : deploys'[i] = deploys[i]
        /\ current[a] = y \/ Pending(a)' # {}
        /\ \A i \in Pending(a)' : (\A j \in Pending(a)' : j <= i) => deploys'[i].interval = y
        /\ Pending(a)' = {} /\ pods[a] > 0 => collector[a] = y
    <3>1. CASE current[a] = y /\ deploys' = deploys
      BY <1>0, <2>1, <3>1 DEF ScrapeInv, DeploysAreCurrent, Pending
    <3>2. CASE deploys' = Append(deploys, [node |-> a, interval |-> y])
      BY <1>0, <1>1, <2>1, <3>2, AppendedDeploy
    <3> QED
      BY <2>2, <3>1, <3>2
  <2>4. DeploysAreCurrent'
    <3>1. ASSUME NEW n \in Nodes \intersect started'
          PROVE  /\ \A i \in Pending(n)' : (\A j \in Pending(n)' : j <= i) =>
                      deploys'[i].interval = current'[n]
                 /\ Pending(n)' = {} /\ pods'[n] > 0 => collector'[n] = current'[n]
      <4>1. CASE n = a
        BY <1>3, <2>3, <4>1
      <4>2. CASE n # a
        <5>1. /\ Pending(n)' = Pending(n) /\ current'[n] = current[n]
              /\ \A i \in Pending(n) : deploys'[i] = deploys[i]
              /\ pods' = pods /\ collector' = collector /\ n \in Nodes \intersect started
          BY <1>0, <1>3, <2>3, <4>2
        <5>2. /\ \A i \in Pending(n) : (\A j \in Pending(n) : j <= i) =>
                   deploys[i].interval = current[n]
              /\ Pending(n) = {} /\ pods[n] > 0 => collector[n] = current[n]
          BY <5>1 DEF ScrapeInv, DeploysAreCurrent
        <5> QED
          BY <5>1, <5>2
      <4> QED
        BY <4>1, <4>2
    <3> QED
      BY <3>1 DEF DeploysAreCurrent
  <2>5. NodesAreInformed'
    <3>1. ASSUME NEW n \in Nodes \intersect started, pods[n] > 0
          PROVE  \/ Pending(n)' # {}
                 \/ updates'[n] # << >> /\ updates'[n][Len(updates'[n])] = current'[Cluster]
                 \/ current'[n] <= current'[Cluster]
      <4>1. \/ Pending(n) # {}
            \/ updates[n] # << >> /\ updates[n][Len(updates[n])] = current[Cluster]
            \/ current[n] <= current[Cluster]
        BY <3>1 DEF ScrapeInv, NodesAreInformed
      <4>2. current'[Cluster] = current[Cluster]
        BY <1>0, <1>3, <1>8
      <4>3. CASE n # a
        <5>1. updates'[n] = updates[n] /\ current'[n] = current[n] /\ Pending(n)' = Pending(n)
          BY <1>0, <1>3, <2>1, <2>3, <4>3
        <5> QED
          BY <4>1, <4>2, <5>1
      <4>4. CASE n = a /\ current[a] = y
        <5>1. deploys' = deploys /\ current'[a] = current[a]
          BY <1>3, <2>2, <4>4
        <5>2. Pending(a)' = Pending(a)
          BY <5>1 DEF Pending
        <5>3. CASE inbox = updates
          BY <2>1, <4>1, <4>2, <4>4, <5>1, <5>2, <5>3
        <5>4. CASE /\ updates[a] # << >> /\ x = Head(updates[a])
                   /\ inbox = [updates EXCEPT ![a] = Tail(@)]
          <6>1. updates'[a] = Tail(updates[a]) /\ updates[a] \in Seq(Nat)
            BY <1>0, <2>1, <5>4
          <6>2. CASE updates[a][Len(updates[a])] = current[Cluster]
            <7>1. CASE Len(updates[a]) = 1
              <8>1. x = current[Cluster]
                BY <5>4, <6>1, <6>2, <7>1
              <8> QED
                BY <1>1, <1>3, <4>2, <4>4, <8>1
            <7>2. CASE Len(updates[a]) # 1
              <8> DEFINE u == updates[a]
              <8>1. u \in Seq(Nat) /\ u # << >> /\ Len(u) # 1
                BY <5>4, <6>1, <7>2
              <8> HIDE DEF u
              <8>2. Tail(u) # << >> /\ Tail(u)[Len(Tail(u))] = u[Len(u)]
                BY <8>1, LastOfTail
              <8> QED
                BY <4>2, <4>4, <6>1, <6>2, <8>2 DEF u
            <7> QED
              BY <7>1, <7>2
          <6> QED
            BY <4>1, <4>2, <4>4, <5>1, <5>2, <6>2
        <5> QED
          BY <5>3, <5>4
      <4>5. CASE n = a /\ current[a] # y
        BY <2>3, <4>5
      <4> QED
        BY <4>3, <4>4, <4>5
    <3> QED
      BY <3>1 DEF NodesAreInformed
  <2>6. Scrape!TypeOK'
    BY <1>3, <1>4, <1>6, <2>1, <2>3 DEF ScrapeInv, Scrape!TypeOK, Ids, Messages
  <2> QED
    BY <1>5, <2>4, <2>5, <2>6 DEF ScrapeInv
<1> QED
  BY <1>7, <1>8

LEMMA InitializeKeepsInv ==
  ASSUME Scrape!ConstantAssumption, ScrapeInv, NEW a \in Scrape!Agents, Scrape!Initialize(a)
  PROVE  ScrapeInv'
<1>0. /\ Cluster \notin Nodes /\ Cluster \in Scrape!Agents /\ Nodes \subseteq Scrape!Agents /\ Default \in Nat
      /\ current \in [Scrape!Agents -> Nat] /\ deploys \in Seq(Messages) /\ DOMAIN requests = Scrape!Agents
      /\ started \subseteq Scrape!Agents /\ a \notin started
  BY DEF Scrape!ConstantAssumption, ScrapeInv, Scrape!TypeOK, Scrape!Agents, Messages,
         Scrape!Initialize
<1>1. /\ requests' = [requests EXCEPT ![a] = Scrape!With(@, "default", Default)]
      /\ current' = [current EXCEPT ![a] = Default] /\ started' = started \union {a}
      /\ UNCHANGED <<pods, collector, updates>>
  BY DEF Scrape!Initialize
<1>2. /\ requests'[a] = Scrape!With(requests[a], "default", Default) /\ DOMAIN requests' = Scrape!Agents
      /\ \A b \in Scrape!Agents \ {a} : requests'[b] = requests[b]
      /\ current' \in [Scrape!Agents -> Nat] /\ current'[a] = Default
      /\ \A b \in Scrape!Agents \ {a} : current'[b] = current[b]
  BY <1>0, <1>1
<1>3. DOMAIN requests[a] = {}
  BY <1>0 DEF ScrapeInv, StartsEmpty
<1>4. DOMAIN requests'[a] = {"default"} /\ requests'[a]["default"] = Default
  BY <1>2, <1>3 DEF Scrape!With
<1>5. /\ DOMAIN requests' = Scrape!Agents
      /\ \A b \in Scrape!Agents : \A i \in DOMAIN requests'[b] : i \in Ids /\ requests'[b][i] \in Nat
      /\ started' \subseteq Scrape!Agents
  BY <1>0, <1>1, <1>2, <1>4 DEF ScrapeInv, Scrape!TypeOK, Ids
<1>6. Scrape!RequestsAreServed' /\ StartsEmpty'
  BY <1>0, <1>1, <1>2, <1>4 DEF ScrapeInv, Scrape!RequestsAreServed, StartsEmpty
<1>7. CASE a = Cluster
  <2>1. deploys' = deploys
    BY <1>7 DEF Scrape!Initialize
  <2>2. \A n \in Nodes : Pending(n)' = Pending(n) /\ current'[n] = current[n] /\ pods[n] = 0
                         /\ (n \in started' <=> n \in started)
    BY <1>0, <1>1, <1>2, <1>7, <2>1 DEF Pending, ScrapeInv, StartsEmpty
  <2>3. DeploysAreCurrent' /\ NodesAreInformed'
    <3>1. ASSUME NEW n \in Nodes \intersect started'
          PROVE  /\ \A i \in Pending(n)' : (\A j \in Pending(n)' : j <= i) =>
                      deploys'[i].interval = current'[n]
                 /\ ~(pods'[n] > 0)
      <4>0. n \in Nodes /\ n \in started'
        BY <3>1
      <4>1. n \in Nodes \intersect started /\ Pending(n)' = Pending(n) /\ current'[n] = current[n]
        BY <2>2, <4>0
      <4>2. pods'[n] = 0
        BY <1>1, <2>2, <4>0
      <4>3. \A i \in Pending(n) : (\A j \in Pending(n) : j <= i) =>
              deploys[i].interval = current[n]
        BY <4>1 DEF ScrapeInv, DeploysAreCurrent
      <4> QED
        BY <2>1, <4>1, <4>2, <4>3
    <3> QED
      BY <3>1 DEF DeploysAreCurrent, NodesAreInformed
  <2> QED
    BY <1>1, <1>2, <1>5, <1>6, <2>1, <2>3 DEF ScrapeInv, Scrape!TypeOK, Ids
<1>8. CASE a # Cluster
  <2>1. a \in Nodes /\ deploys' = Append(deploys, [node |-> a, interval |-> Default])
    BY <1>8 DEF Scrape!Initialize, Scrape!Agents
  <2>2. /\ deploys' \in Seq(Messages)
        /\ \A n \in Nodes \ {a} : /\ Pending(n)' = Pending(n)
                                  /\ \A i \in Pending(n) : deploys'[i] = deploys[i]
        /\ Pending(a)' # {}
        /\ \A i \in Pending(a)' :
             (\A j \in Pending(a)' : j <= i) => deploys'[i].interval = Default
    BY <1>0, <2>1, AppendedDeploy
  <2>3. ASSUME NEW n \in Nodes \intersect started'
        PROVE  /\ \A i \in Pending(n)' : (\A j \in Pending(n)' : j <= i) =>
                    deploys'[i].interval = current'[n]
               /\ Pending(n)' = {} /\ pods'[n] > 0 => collector'[n] = current'[n]
               /\ pods'[n] > 0 =>
                    \/ Pending(n)' # {}
                    \/ updates'[n] # << >> /\ updates'[n][Len(updates'[n])] = current'[Cluster]
                    \/ current'[n] <= current'[Cluster]
    <3>1. CASE n = a
      BY <1>2, <2>2, <3>1
    <3>2. CASE n # a
      <4>1. /\ Pending(n)' = Pending(n) /\ current'[n] = current[n]
            /\ \A i \in Pending(n) : deploys'[i] = deploys[i]
            /\ n \in Nodes \intersect started /\ current'[Cluster] = current[Cluster]
        BY <1>0, <1>1, <1>2, <1>8, <2>2, <3>2
      <4>2. /\ \A i \in Pending(n) : (\A j \in Pending(n) : j <= i) =>
                 deploys[i].interval = current[n]
            /\ Pending(n) = {} /\ pods[n] > 0 => collector[n] = current[n]
            /\ pods[n] > 0 =>
                 \/ Pending(n) # {}
                 \/ updates[n] # << >> /\ updates[n][Len(updates[n])] = current[Cluster]
                 \/ current[n] <= current[Cluster]
        BY <4>1 DEF ScrapeInv, DeploysAreCurrent, NodesAreInformed
      <4> QED
        BY <1>1, <4>1, <4>2
    <3> QED
      BY <3>1, <3>2
  <2>4. DeploysAreCurrent' /\ NodesAreInformed'
    BY <2>3 DEF DeploysAreCurrent, NodesAreInformed
  <2> QED
    BY <1>1, <1>2, <1>5, <1>6, <2>2, <2>4 DEF ScrapeInv, Scrape!TypeOK, Ids, Messages
<1> QED
  BY <1>7, <1>8

\* The smallest request stays below the others when one goes, and the interval is sent anew.
LEMMA PolicyStopsKeepsInv ==
  ASSUME Scrape!ConstantAssumption, ScrapeInv, NEW a \in Scrape!Agents, NEW p \in Policies, Scrape!PolicyStops(a, p)
  PROVE  ScrapeInv'
<1>0. /\ Cluster \notin Nodes /\ Cluster \in Scrape!Agents /\ Nodes \subseteq Scrape!Agents
      /\ current \in [Scrape!Agents -> Nat] /\ deploys \in Seq(Messages) /\ DOMAIN requests = Scrape!Agents
      /\ started \subseteq Scrape!Agents /\ updates \in [Nodes -> Seq(Nat)] /\ pods \in [Nodes -> Nat]
  BY DEF Scrape!ConstantAssumption, ScrapeInv, Scrape!TypeOK, Scrape!Agents, Messages
<1>1. /\ a \in started /\ requests' = [requests EXCEPT ![a] = Scrape!Without(@, p)]
      /\ Scrape!Apply(a, current[a], updates) /\ UNCHANGED <<current, pods, collector, started>>
  BY DEF Scrape!PolicyStops, Scrape!RemoveInterval
<1>2. /\ DOMAIN requests' = Scrape!Agents
      /\ \A b \in Scrape!Agents : /\ DOMAIN requests'[b] \subseteq DOMAIN requests[b]
                           /\ \A i \in DOMAIN requests'[b] : requests'[b][i] = requests[b][i]
  BY <1>0, <1>1 DEF Scrape!Without
<1>3. Scrape!RequestsAreServed' /\ StartsEmpty'
  BY <1>0, <1>1, <1>2 DEF ScrapeInv, Scrape!RequestsAreServed, StartsEmpty
<1>4. CASE a = Cluster
  <2>1. deploys' = deploys /\ updates' = [n \in Nodes |-> updates[n] \o Scrape!Times(pods[n], current[a])]
    BY <1>1, <1>4 DEF Scrape!Apply
  <2>2. current[a] \in Nat
    BY <1>0
  <2>3. /\ updates' \in [Nodes -> Seq(Nat)]
        /\ \A n \in Nodes : pods[n] > 0 =>
             updates'[n] # << >> /\ updates'[n][Len(updates'[n])] = current[a]
    BY <2>1, <2>2, ClusterInforms DEF ScrapeInv
  <2>4. DeploysAreCurrent'
    BY <1>1, <2>1 DEF ScrapeInv, DeploysAreCurrent, Pending
  <2>5. NodesAreInformed'
    BY <1>1, <1>4, <2>3 DEF NodesAreInformed
  <2> QED
    BY <1>1, <1>2, <1>3, <2>1, <2>3, <2>4, <2>5 DEF ScrapeInv, Scrape!TypeOK
<1>5. CASE a # Cluster
  <2>1. /\ a \in Nodes /\ deploys' = Append(deploys, [node |-> a, interval |-> current[a]])
        /\ updates' = updates /\ current[a] \in Nat
    BY <1>0, <1>1, <1>5 DEF Scrape!Apply, Scrape!Agents
  <2>2. /\ deploys' \in Seq(Messages)
        /\ \A n \in Nodes \ {a} : /\ Pending(n)' = Pending(n)
                                  /\ \A i \in Pending(n) : deploys'[i] = deploys[i]
        /\ Pending(a)' # {}
        /\ \A i \in Pending(a)' :
             (\A j \in Pending(a)' : j <= i) => deploys'[i].interval = current[a]
    BY <1>0, <2>1, AppendedDeploy
  <2>3. ASSUME NEW n \in Nodes \intersect started
        PROVE  /\ \A i \in Pending(n)' : (\A j \in Pending(n)' : j <= i) =>
                    deploys'[i].interval = current[n]
               /\ Pending(n)' = {} /\ pods[n] > 0 => collector[n] = current[n]
               /\ pods[n] > 0 =>
                    \/ Pending(n)' # {}
                    \/ updates[n] # << >> /\ updates[n][Len(updates[n])] = current[Cluster]
                    \/ current[n] <= current[Cluster]
    <3>1. CASE n = a
      BY <2>2, <3>1
    <3>2. CASE n # a
      <4>1. /\ Pending(n)' = Pending(n) /\ \A i \in Pending(n) : deploys'[i] = deploys[i]
        BY <2>2, <3>2
      <4>2. /\ \A i \in Pending(n) : (\A j \in Pending(n) : j <= i) =>
                 deploys[i].interval = current[n]
            /\ Pending(n) = {} /\ pods[n] > 0 => collector[n] = current[n]
            /\ pods[n] > 0 =>
                 \/ Pending(n) # {}
                 \/ updates[n] # << >> /\ updates[n][Len(updates[n])] = current[Cluster]
                 \/ current[n] <= current[Cluster]
        BY DEF ScrapeInv, DeploysAreCurrent, NodesAreInformed
      <4> QED
        BY <4>1, <4>2
    <3> QED
      BY <3>1, <3>2
  <2>4. DeploysAreCurrent' /\ NodesAreInformed'
    BY <1>1, <2>1, <2>3 DEF DeploysAreCurrent, NodesAreInformed
  <2> QED
    BY <1>1, <1>2, <1>3, <2>1, <2>2, <2>4 DEF ScrapeInv, Scrape!TypeOK, Messages
<1> QED
  BY <1>4, <1>5

\* The cluster agent deploys the collector and answers a node whose interval is another.
LEMMA DeployCollectorKeepsInv ==
  ASSUME Scrape!ConstantAssumption, ScrapeInv, Scrape!DeployCollector
  PROVE  ScrapeInv'
<1> DEFINE d == Head(deploys).node
           x == Head(deploys).interval
<1>0. /\ Cluster \notin Nodes /\ Cluster \in Scrape!Agents /\ Nodes \subseteq Scrape!Agents
      /\ current \in [Scrape!Agents -> Nat] /\ deploys \in Seq(Messages) /\ MaxEntries \in Nat \ {0}
      /\ started \subseteq Scrape!Agents /\ updates \in [Nodes -> Seq(Nat)] /\ pods \in [Nodes -> Nat]
      /\ collector \in [Nodes -> Nat]
  BY DEF Scrape!ConstantAssumption, ScrapeInv, Scrape!TypeOK, Scrape!Agents, Messages
<1>1. /\ deploys # << >> /\ deploys' = Tail(deploys) /\ Cluster \in started
      /\ collector' = [collector EXCEPT ![d] = x]
      /\ pods' = [pods EXCEPT ![d] = Scrape!Min({@ + 1, MaxEntries})]
      /\ updates' = IF x = current[Cluster] THEN updates
                    ELSE [updates EXCEPT ![d] = Append(@, current[Cluster])]
      /\ UNCHANGED <<requests, current, started>>
  BY DEF Scrape!DeployCollector
<1>2. /\ deploys' \in Seq(Messages) /\ Head(deploys) \in Messages
      /\ \A n \in Nodes :
           /\ \A i \in Pending(n)' : i + 1 \in Pending(n) /\ deploys'[i] = deploys[i + 1]
           /\ \A i \in Pending(n) : i = 1 \/ i - 1 \in Pending(n)'
           /\ 1 \in Pending(n) <=> n = d
      /\ Head(deploys) = deploys[1] /\ \A n \in Nodes : Pending(n) \subseteq Nat \ {0}
  BY <1>0, <1>1, HandledDeploy
<1>3. d \in Nodes /\ x \in Nat /\ x = deploys[1].interval
  BY <1>2 DEF Messages
<1> HIDE DEF d, x
<1>4. pods' \in [Nodes -> Nat] /\ \A n \in Nodes : n # d => pods'[n] = pods[n]
  <2>1. {pods[d] + 1, MaxEntries} \subseteq Nat
    BY <1>0, <1>3
  <2>2. Scrape!Min({pods[d] + 1, MaxEntries}) \in Nat
    BY <2>1, LeastOf
  <2> QED
    BY <1>0, <1>1, <1>3, <2>2
<1>5. collector' \in [Nodes -> Nat] /\ updates' \in [Nodes -> Seq(Nat)]
  BY <1>0, <1>1, <1>3
<1>6. ASSUME NEW n \in Nodes \intersect started
      PROVE  /\ \A i \in Pending(n)' : (\A j \in Pending(n)' : j <= i) =>
                  deploys'[i].interval = current[n]
             /\ Pending(n)' = {} /\ pods'[n] > 0 => collector'[n] = current[n]
             /\ pods'[n] > 0 =>
                  \/ Pending(n)' # {}
                  \/ updates'[n] # << >> /\ updates'[n][Len(updates'[n])] = current[Cluster]
                  \/ current[n] <= current[Cluster]
  <2>1. \A i \in Pending(n) : (\A j \in Pending(n) : j <= i) => deploys[i].interval = current[n]
    BY DEF ScrapeInv, DeploysAreCurrent
  <2>2. ASSUME NEW i \in Pending(n)', \A j \in Pending(n)' : j <= i
        PROVE  deploys'[i].interval = current[n]
    <3>1. i + 1 \in Pending(n) /\ deploys'[i] = deploys[i + 1] /\ i \in Nat \ {0}
      <4>1. i \in Nat \ {0}
        BY <1>2 DEF Pending
      <4> QED
        BY <1>2, <2>2, <4>1
    <3>2. ASSUME NEW j \in Pending(n) PROVE j <= i + 1
      <4>1. j \in Nat \ {0} /\ (j = 1 \/ j - 1 \in Pending(n)')
        BY <1>2
      <4>2. CASE j = 1
        BY <3>1, <4>2
      <4>3. CASE j - 1 \in Pending(n)'
        <5>1. j - 1 <= i
          BY <2>2, <4>3
        <5> QED
          BY <3>1, <4>1, <5>1
      <4> QED
        BY <4>1, <4>2, <4>3
    <3> QED
      BY <2>1, <3>1, <3>2
  <2>3. CASE n = d
    <3>1. current[n] \in Nat /\ current[Cluster] \in Nat
      BY <1>0
    <3>2. ASSUME Pending(n)' = {} PROVE x = current[n]
      <4>1. \A i \in Pending(n) : i = 1
        BY <1>2, <3>2
      <4>2. 1 \in Pending(n)
        BY <1>2, <2>3
      <4> QED
        BY <1>3, <2>1, <4>1, <4>2
    <3>3. collector'[n] = x
      BY <1>0, <1>1, <1>3, <2>3
    <3>4. CASE x = current[Cluster]
      BY <2>2, <3>1, <3>2, <3>3, <3>4
    <3>5. CASE x # current[Cluster]
      <4> DEFINE u == updates[n]
      <4>1. updates'[n] = Append(u, current[Cluster]) /\ u \in Seq(Nat)
        BY <1>0, <1>1, <1>3, <2>3, <3>5
      <4> HIDE DEF u
      <4>2. updates'[n] # << >> /\ updates'[n][Len(updates'[n])] = current[Cluster]
        BY <3>1, <4>1
      <4> QED
        BY <2>2, <3>2, <3>3, <4>2
    <3> QED
      BY <3>4, <3>5
  <2>4. CASE n # d
    <3>1. Pending(n)' = {} <=> Pending(n) = {}
      BY <1>2, <2>4
    <3>2. pods'[n] = pods[n] /\ collector'[n] = collector[n] /\ updates'[n] = updates[n]
      BY <1>0, <1>1, <1>3, <1>4, <2>4
    <3>3. /\ Pending(n) = {} /\ pods[n] > 0 => collector[n] = current[n]
          /\ pods[n] > 0 =>
               \/ Pending(n) # {}
               \/ updates[n] # << >> /\ updates[n][Len(updates[n])] = current[Cluster]
               \/ current[n] <= current[Cluster]
      BY DEF ScrapeInv, DeploysAreCurrent, NodesAreInformed
    <3> QED
      BY <2>2, <3>1, <3>2, <3>3
  <2> QED
    BY <2>3, <2>4
<1>7. DeploysAreCurrent' /\ NodesAreInformed'
  BY <1>1, <1>6 DEF DeploysAreCurrent, NodesAreInformed
<1>8. Scrape!RequestsAreServed' /\ StartsEmpty'
  BY <1>1 DEF ScrapeInv, Scrape!RequestsAreServed, StartsEmpty
<1> QED
  BY <1>1, <1>2, <1>4, <1>5, <1>7, <1>8 DEF ScrapeInv, Scrape!TypeOK, Messages

LEMMA RestartKeepsInv ==
  ASSUME Scrape!ConstantAssumption, ScrapeInv, NEW a \in Scrape!Agents, Scrape!Restart(a)
  PROVE  ScrapeInv'
<1>0. /\ Cluster \notin Nodes /\ Cluster \in Scrape!Agents /\ Nodes \subseteq Scrape!Agents
      /\ current \in [Scrape!Agents -> Nat] /\ deploys \in Seq(Messages) /\ DOMAIN requests = Scrape!Agents
      /\ started \subseteq Scrape!Agents /\ updates \in [Nodes -> Seq(Nat)] /\ pods \in [Nodes -> Nat]
      /\ a \in Nodes \/ a = Cluster
  BY DEF Scrape!ConstantAssumption, ScrapeInv, Scrape!TypeOK, Scrape!Agents, Messages
<1>1. /\ started' = started \ {a} /\ requests' = [requests EXCEPT ![a] = << >>]
      /\ current' = [current EXCEPT ![a] = 0] /\ UNCHANGED collector
      /\ IF a = Cluster
         THEN /\ pods' = [n \in Nodes |-> 0] /\ deploys' = << >> /\ UNCHANGED updates
         ELSE updates' = [updates EXCEPT ![a] = << >>] /\ UNCHANGED <<pods, deploys>>
  BY DEF Scrape!Restart
<1>2. /\ DOMAIN requests' = Scrape!Agents /\ DOMAIN requests'[a] = {}
      /\ \A b \in Scrape!Agents \ {a} : requests'[b] = requests[b]
      /\ current' \in [Scrape!Agents -> Nat] /\ \A b \in Scrape!Agents \ {a} : current'[b] = current[b]
  BY <1>0, <1>1
<1>3. Scrape!TypeOK'
  <2>1. /\ deploys' \in Seq(Messages) /\ updates' \in [Nodes -> Seq(Nat)]
        /\ pods' \in [Nodes -> Nat] /\ started' \subseteq Scrape!Agents
    <3>1. << >> \in Seq(Messages) /\ << >> \in Seq(Nat)
      OBVIOUS
    <3>2. CASE a = Cluster
      BY <1>0, <1>1, <3>1, <3>2
    <3>3. CASE a # Cluster
      BY <1>0, <1>1, <3>1, <3>3
    <3> QED
      BY <3>2, <3>3
  <2>2. \A b \in Scrape!Agents : \A i \in DOMAIN requests'[b] : i \in Ids /\ requests'[b][i] \in Nat
    BY <1>2 DEF ScrapeInv, Scrape!TypeOK, Ids
  <2> QED
    BY <1>1, <1>2, <2>1, <2>2 DEF ScrapeInv, Scrape!TypeOK, Messages, Ids
<1>4. Scrape!RequestsAreServed' /\ StartsEmpty'
  BY <1>0, <1>1, <1>2 DEF ScrapeInv, Scrape!RequestsAreServed, StartsEmpty
<1>5. CASE a = Cluster
  BY <1>0, <1>1, <1>2, <1>3, <1>4, <1>5
  DEF ScrapeInv, DeploysAreCurrent, NodesAreInformed, Pending
<1>6. CASE a # Cluster
  <2>1. \A n \in Nodes \intersect started' :
          /\ n \in started /\ current'[n] = current[n] /\ updates'[n] = updates[n]
          /\ Pending(n)' = Pending(n)
    BY <1>0, <1>1, <1>2, <1>6 DEF Pending
  <2>2. UNCHANGED <<pods, deploys, collector>> /\ current'[Cluster] = current[Cluster]
    BY <1>0, <1>1, <1>2, <1>6
  <2>3. DeploysAreCurrent' /\ NodesAreInformed'
    BY <2>1, <2>2 DEF ScrapeInv, DeploysAreCurrent, NodesAreInformed
  <2> QED
    BY <1>3, <1>4, <2>3 DEF ScrapeInv
<1> QED
  BY <1>5, <1>6

LEMMA ScrapeInvNext ==
  ASSUME Scrape!ConstantAssumption, ScrapeInv, Scrape!Next
  PROVE  ScrapeInv'
<1>1. ASSUME NEW a \in Scrape!Agents, NEW p \in Policies, NEW x \in Intervals, Scrape!PolicyStarts(a, p, x)
      PROVE  ScrapeInv'
  <2>1. x \in Nat /\ p \in Ids /\ a \in started
    BY <1>1 DEF Scrape!ConstantAssumption, Ids, Scrape!PolicyStarts
  <2> QED
    BY <1>1, <2>1, NewIntervalKeepsInv DEF Scrape!PolicyStarts
<1>2. ASSUME NEW n \in Nodes, Scrape!UpdateInterval(n) PROVE ScrapeInv'
  <2>1. n \in started /\ updates[n] # << >> /\ updates[n] \in Seq(Nat)
    BY <1>2 DEF Scrape!UpdateInterval, ScrapeInv, Scrape!TypeOK
  <2>2. Head(updates[n]) \in Nat /\ Cluster \in Ids
    BY <2>1 DEF Ids
  <2> QED
    BY <1>2, <2>1, <2>2, NewIntervalKeepsInv DEF Scrape!UpdateInterval
<1> QED
  BY <1>1, <1>2, InitializeKeepsInv, PolicyStopsKeepsInv, DeployCollectorKeepsInv,
     RestartKeepsInv
  DEF Scrape!Next, Scrape!Deliver

LEMMA ScrapeInvIsEnough == ScrapeInv => Scrape!NodesFollowCluster
<1> SUFFICES ASSUME ScrapeInv, Scrape!Quiet, NEW n \in started, n # Cluster, pods[n] > 0
             PROVE  collector[n] = current[n] /\ current[n] <= current[Cluster]
  BY DEF Scrape!NodesFollowCluster
<1>1. n \in Nodes \intersect started
  BY DEF ScrapeInv, Scrape!TypeOK, Scrape!Agents
<1>2. Pending(n) = {} /\ updates[n] = << >>
  BY <1>1 DEF Scrape!Quiet, Pending
<1> QED
  BY <1>1, <1>2 DEF ScrapeInv, DeploysAreCurrent, NodesAreInformed

\* Telemetry is collected as often as anybody asks for, and the nodes follow the cluster
\* once the messages are handled, whatever policies come and go and whoever restarts.
THEOREM ScrapeSafe ==
  ASSUME Scrape!ConstantAssumption
  PROVE  Scrape!Init /\ [][Scrape!Next]_intervalVars =>
           [](Scrape!TypeOK /\ Scrape!RequestsAreServed /\ Scrape!NodesFollowCluster)
<1>1. ScrapeInv /\ [Scrape!Next]_intervalVars => ScrapeInv'
  <2>1. ASSUME ScrapeInv, UNCHANGED intervalVars PROVE ScrapeInv'
    BY <2>1
    DEF intervalVars, ScrapeInv, Scrape!TypeOK, Scrape!RequestsAreServed, StartsEmpty,
        DeploysAreCurrent,
        NodesAreInformed, Pending
  <2> QED
    BY <2>1, ScrapeInvNext
<1>2. ScrapeInv => Scrape!TypeOK /\ Scrape!RequestsAreServed /\ Scrape!NodesFollowCluster
  BY ScrapeInvIsEnough DEF ScrapeInv
<1> QED
  BY <1>1, <1>2, ScrapeInvInit, PTL

-----------------------------------------------------------------------------
(* Installation: the commands of an installation and the policies. *)

\* Descriptions and policies are those of a layer.
Step == {s \in Install!Owners \X Install!Kinds :
           s[2] \in {"description", "policies"} => s[1] \in Install!Levels}

\* In a command the description of a layer comes before its agents.
Described(s) ==
  \A i \in 1..Len(s), l \in Install!Levels :
    s[i] = <<l, "agent">> => \E j \in 1..(i - 1) : s[j] = <<l, "description">>

LEMMA Concat ==
  ASSUME NEW S, NEW s \in Seq(S), NEW t \in Seq(S)
  PROVE  /\ s \o t \in Seq(S) /\ Len(s) \in Nat /\ Len(t) \in Nat
         /\ Len(s \o t) = Len(s) + Len(t)
         /\ \A i \in 1..Len(s) : (s \o t)[i] = s[i]
         /\ \A i \in 1..Len(t) : Len(s) + i \in 1..Len(s \o t) /\ (s \o t)[Len(s) + i] = t[i]
         /\ \A i \in 1..Len(s \o t) : i \notin 1..Len(s) =>
              i - Len(s) \in 1..Len(t) /\ (s \o t)[i] = t[i - Len(s)]
OBVIOUS

LEMMA DescribedConcat ==
  ASSUME NEW s \in Seq(Step), NEW t \in Seq(Step), Described(s), Described(t)
  PROVE  s \o t \in Seq(Step) /\ Described(s \o t)
<1> DEFINE c == s \o t
<1>1. /\ c \in Seq(Step) /\ Len(c) = Len(s) + Len(t) /\ Len(s) \in Nat /\ Len(t) \in Nat
      /\ \A i \in 1..Len(s) : c[i] = s[i]
      /\ \A i \in 1..Len(t) : c[Len(s) + i] = t[i]
      /\ \A i \in 1..Len(c) : i \notin 1..Len(s) =>
              i - Len(s) \in 1..Len(t) /\ c[i] = t[i - Len(s)]
  BY Concat
<1> HIDE DEF c
<1>2. ASSUME NEW i \in 1..Len(c), NEW l \in Install!Levels, c[i] = <<l, "agent">>
      PROVE  \E j \in 1..(i - 1) : c[j] = <<l, "description">>
  <2>1. CASE i \in 1..Len(s)
    <3>1. PICK j \in 1..(i - 1) : s[j] = <<l, "description">>
      BY <1>1, <1>2, <2>1 DEF Described
    <3>2. j \in 1..Len(s)
      BY <1>1, <2>1
    <3> QED
      BY <3>1, <3>2, <1>1
  <2>2. CASE i \notin 1..Len(s)
    <3> DEFINE k == i - Len(s)
    <3>1. k \in 1..Len(t) /\ t[k] = <<l, "agent">>
      BY <1>1, <1>2, <2>2
    <3>2. PICK j \in 1..(k - 1) : t[j] = <<l, "description">>
      BY <3>1, <1>1 DEF Described
    <3>3. c[Len(s) + j] = <<l, "description">> /\ Len(s) + j \in 1..(i - 1)
      BY <3>1, <3>2, <1>1
    <3> QED
      BY <3>3
  <2> QED
    BY <2>1, <2>2
<1> QED
  BY <1>1, <1>2 DEF Described, c

\* The agents of a layer may follow its description.
LEMMA DescribedDaemonSet ==
  ASSUME NEW l \in Install!Levels, NEW s \in Seq(Step), Described(s),
         \E j \in 1..Len(s) : s[j] = <<l, "description">>
  PROVE  s \o Install!DaemonSet(l) \in Seq(Step) /\ Described(s \o Install!DaemonSet(l))
<1> DEFINE t == Install!DaemonSet(l)
           c == s \o t
<1>1. /\ t \in Seq(Step) /\ Len(t) = 3
      /\ t[1] = <<l, "policies">> /\ t[2] = <<l, "config">> /\ t[3] = <<l, "agent">>
  BY DEF Install!DaemonSet, Step, Install!Owners, Install!Kinds, Install!Levels
<1> HIDE DEF t
<1>2. /\ c \in Seq(Step) /\ Len(c) = Len(s) + Len(t) /\ Len(s) \in Nat
      /\ \A i \in 1..Len(s) : c[i] = s[i]
      /\ \A i \in 1..Len(c) : i \notin 1..Len(s) =>
              i - Len(s) \in 1..Len(t) /\ c[i] = t[i - Len(s)]
  <2>1. t \in Seq(Step)
    BY <1>1
  <2> QED
    BY <2>1, Concat
<1> HIDE DEF c
<1>3. ASSUME NEW i \in 1..Len(c), NEW k \in Install!Levels, c[i] = <<k, "agent">>
      PROVE  \E j \in 1..(i - 1) : c[j] = <<k, "description">>
  <2>1. CASE i \in 1..Len(s)
    <3>1. PICK j \in 1..(i - 1) : s[j] = <<k, "description">>
      BY <1>2, <1>3, <2>1 DEF Described
    <3>2. j \in 1..Len(s)
      BY <1>2, <2>1
    <3> QED
      BY <3>1, <3>2, <1>2
  <2>2. CASE i \notin 1..Len(s)
    <3>1. i - Len(s) \in 1..3 /\ t[i - Len(s)] = <<k, "agent">>
      BY <1>1, <1>2, <1>3, <2>2
    <3>2. k = l
      BY <3>1, <1>1
    <3>3. PICK j \in 1..Len(s) : s[j] = <<l, "description">>
      OBVIOUS
    <3>4. c[j] = <<k, "description">> /\ j \in 1..(i - 1)
      BY <1>2, <2>2, <3>2, <3>3
    <3> QED
      BY <3>4
  <2> QED
    BY <2>1, <2>2
<1> QED
  BY <1>2, <1>3 DEF Described, t, c

LEMMA DescribedCommands ==
  Install!Commands \subseteq {s \in Seq(Step) : Described(s)}
<1> DEFINE D == {s \in Seq(Step) : Described(s)}
<1>1. \A s, t \in D : s \o t \in D
  BY DescribedConcat
<1>2. ASSUME NEW l \in Install!Levels, NEW s \in D, \E j \in 1..Len(s) : s[j] = <<l, "description">>
      PROVE  s \o Install!DaemonSet(l) \in D
  BY <1>2, DescribedDaemonSet
<1>3. ASSUME NEW p \in {"host", "karmada"} PROVE Install!Base(p) \in D
  BY DEF Install!Base, Described, Step, Install!Owners, Install!Kinds, Install!Levels
<1>4. Install!Services \in D
  <2>1. <<<<"host", "services">>>> \in D
    BY DEF Described, Step, Install!Owners, Install!Kinds, Install!Levels
  <2> QED
    BY <1>1, <1>3, <2>1 DEF Install!Services
<1>5. Install!ContinuumAgents \in D
  <2> DEFINE t == <<<<"continuum", "description">>, <<"continuum", "karmadapi">>>>
             s == Install!Base("host") \o t
  <2>1. t \in D /\ Len(t) = 2 /\ t[1] = <<"continuum", "description">>
    BY DEF Described, Step, Install!Owners, Install!Kinds, Install!Levels
  <2>2. s \in D /\ \E j \in 1..Len(s) : s[j] = <<"continuum", "description">>
    <3>1. s \in D /\ Install!Base("host") \in Seq(Step) /\ t \in Seq(Step)
      BY <1>1, <1>3, <2>1
    <3>2. 1 \in 1..Len(t)
      BY <2>1
    <3> HIDE DEF t
    <3>3. /\ Len(Install!Base("host")) + 1 \in 1..Len(s)
          /\ s[Len(Install!Base("host")) + 1] = t[1]
      BY <3>1, <3>2, Concat
    <3> QED
      BY <2>1, <3>1, <3>3
  <2> HIDE DEF s
  <2>3. s \o Install!DaemonSet("continuum") \in D
    BY <1>2, <2>2 DEF Install!Levels
  <2> QED
    BY <2>3 DEF Install!ContinuumAgents, s
<1>6. Install!ClusterAgents \in D
  <2> DEFINE t == <<<<"karmada", "propagation">>, <<"cluster", "description">>>>
             s == Install!Base("karmada") \o t
  <2>1. t \in D /\ Len(t) = 2 /\ t[2] = <<"cluster", "description">>
    BY DEF Described, Step, Install!Owners, Install!Kinds, Install!Levels
  <2>2. s \in D /\ \E j \in 1..Len(s) : s[j] = <<"cluster", "description">>
    <3>1. s \in D /\ Install!Base("karmada") \in Seq(Step) /\ t \in Seq(Step)
      BY <1>1, <1>3, <2>1
    <3>2. 2 \in 1..Len(t)
      BY <2>1
    <3> HIDE DEF t
    <3>3. /\ Len(Install!Base("karmada")) + 2 \in 1..Len(s)
          /\ s[Len(Install!Base("karmada")) + 2] = t[2]
      BY <3>1, <3>2, Concat
    <3> QED
      BY <2>1, <3>1, <3>3
  <2> HIDE DEF s
  <2>3. s \o Install!DaemonSet("cluster") \in D
    BY <1>2, <2>2 DEF Install!Levels
  <2> QED
    BY <2>3 DEF Install!ClusterAgents, s
<1>7. Install!NodeAgents \in D
  <2> DEFINE s == <<<<"node", "description">>>>
  <2>1. s \in D /\ Len(s) = 1 /\ s[1] = <<"node", "description">>
    BY DEF Described, Step, Install!Owners, Install!Kinds, Install!Levels
  <2> HIDE DEF s
  <2>2. s \o Install!DaemonSet("node") \in D
    BY <1>2, <2>1 DEF Install!Levels
  <2> QED
    BY <2>2 DEF Install!NodeAgents, s
<1> HIDE DEF D
<1>8. Install!Services \o Install!ContinuumAgents \o Install!ClusterAgents \o Install!NodeAgents \in D
  BY <1>1, <1>4, <1>5, <1>6, <1>7
<1> QED
  BY <1>4, <1>5, <1>6, <1>7, <1>8 DEF Install!Commands, D

-----------------------------------------------------------------------------
(* The installation. *)

Provided(l) == l \in described \/ l \in undescribed

\* The config map of a description holds what was found.
DescriptionsAreWritten ==
  \A l \in Install!Levels : <<l, "description">> \in objects => Provided(l)

\* What is left of a command starts no agents before their description is there.
StepsAreDescribed ==
  \A i \in 1..Len(steps), l \in Install!Levels :
    steps[i] = <<l, "agent">> =>
      Provided(l) \/ \E j \in 1..(i - 1) : steps[j] = <<l, "description">>

\* A version that is still the latest stands for the policies that were read.
EditsAreBased ==
  \A u \in Users :
    LET edit == edits[u]
        l == edit.layer
    IN edit # Install!NoEdit =>
         /\ edit.revision <= revision[l]
         /\ edit.revision = revision[l] =>
              edit.data = IF edit.add THEN data[l] \union {edit.key} ELSE data[l] \ {edit.key}

InstallInv ==
  /\ Install!TypeOK /\ steps \in Seq(Step) /\ StepsAreDescribed /\ EditsAreBased
  /\ DescriptionsAreWritten
  /\ Install!NoDescriptionIsLost /\ Install!PolicyChangesAreKept

\* Going on to the next step keeps the order, if the step leaves a description behind.
LEMMA GoOnIsDescribed ==
  ASSUME steps \in Seq(Step), StepsAreDescribed, steps # << >>, steps' = Tail(steps),
         \A l \in Install!Levels : Provided(l) => Provided(l)',
         \A l \in Install!Levels : Head(steps) = <<l, "description">> => Provided(l)'
  PROVE  steps' \in Seq(Step) /\ StepsAreDescribed'
<1>2. /\ steps' \in Seq(Step) /\ Len(steps') = Len(steps) - 1 /\ Len(steps) \in Nat
      /\ \A i \in 1..Len(steps') : i + 1 \in 1..Len(steps) /\ steps'[i] = steps[i + 1]
      /\ Head(steps) = steps[1]
  OBVIOUS
<1>3. ASSUME NEW i \in 1..Len(steps'), NEW l \in Install!Levels, steps'[i] = <<l, "agent">>,
             ~Provided(l)'
      PROVE  \E j \in 1..(i - 1) : steps'[j] = <<l, "description">>
  <2>1. ~Provided(l)
    BY <1>3
  <2>2. i + 1 \in 1..Len(steps) /\ steps[i + 1] = <<l, "agent">>
    BY <1>2, <1>3
  <2>3. PICK j \in 1..((i + 1) - 1) : steps[j] = <<l, "description">>
    BY <2>1, <2>2 DEF StepsAreDescribed
  <2>4. j # 1
    BY <1>2, <1>3, <2>3
  <2>5. j - 1 \in 1..(i - 1) /\ steps'[j - 1] = <<l, "description">>
    BY <1>2, <2>3, <2>4
  <2> QED
    BY <2>5
<1> QED
  BY <1>2, <1>3 DEF StepsAreDescribed

\* So does giving up the command.
LEMMA AbortIsDescribed ==
  ASSUME steps' = << >>
  PROVE  steps' \in Seq(Step) /\ StepsAreDescribed'
BY DEF StepsAreDescribed

\* Commands, edits and failures are counted up to their bounds.
LEMMA SpendIsBounded ==
  ASSUME Install!ConstantAssumption, Install!TypeOK
  PROVE  LET Used == [commands : 0..MaxCommands, edits : 0..MaxEdits, failures : 0..MaxFailures]
         IN /\ Install!Spend("commands", MaxCommands) => used' \in Used
            /\ Install!Spend("edits", MaxEdits) => used' \in Used
            /\ Install!Spend("failures", MaxFailures) => used' \in Used
            /\ used' = used => used' \in Used
<1> DEFINE Used == [commands : 0..MaxCommands, edits : 0..MaxEdits, failures : 0..MaxFailures]
<1>1. used \in Used /\ MaxCommands \in Nat /\ MaxEdits \in Nat /\ MaxFailures \in Nat
  BY DEF Install!ConstantAssumption, Install!TypeOK
<1>2. Install!Spend("commands", MaxCommands) => used' \in Used
  BY <1>1 DEF Install!Spend
<1>3. Install!Spend("edits", MaxEdits) => used' \in Used
  BY <1>1 DEF Install!Spend
<1>4. Install!Spend("failures", MaxFailures) => used' \in Used
  BY <1>1 DEF Install!Spend
<1> QED
  BY <1>1, <1>2, <1>3, <1>4

LEMMA InstallInvInit == Install!ConstantAssumption /\ Install!Init => InstallInv
<1> SUFFICES ASSUME Install!ConstantAssumption, Install!Init PROVE InstallInv
  OBVIOUS
<1>1. Install!TypeOK
  BY DEF Install!ConstantAssumption, Install!Init, Install!TypeOK
<1>2. steps \in Seq(Step) /\ StepsAreDescribed /\ EditsAreBased /\ DescriptionsAreWritten
  BY DEF Install!Init, StepsAreDescribed, EditsAreBased, DescriptionsAreWritten
<1>3. Install!NoDescriptionIsLost /\ Install!PolicyChangesAreKept
  BY DEF Install!Init, Install!NoDescriptionIsLost, Install!PolicyChangesAreKept
<1> QED
  BY <1>1, <1>2, <1>3 DEF InstallInv

\* A step of a framework command that leaves the policies alone, or empties them with
\* a new version, keeps what the policy commands rely on.
LEMMA CommandsKeepPolicies ==
  ASSUME InstallInv, UNCHANGED edits,
         \/ UNCHANGED <<data, revision, accepted>>
         \/ \E l \in Install!Levels :
              /\ data' = [data EXCEPT ![l] = {}] /\ accepted' = [accepted EXCEPT ![l] = {}]
              /\ revision' = [revision EXCEPT ![l] = @ + 1]
  PROVE  /\ data' \in [Install!Levels -> SUBSET Keys]
         /\ accepted' \in [Install!Levels -> SUBSET Keys]
         /\ revision' \in [Install!Levels -> Nat]
         /\ edits' \in [Users -> Install!Edit \union {Install!NoEdit}]
         /\ EditsAreBased' /\ Install!PolicyChangesAreKept'
<1>1. /\ data \in [Install!Levels -> SUBSET Keys] /\ revision \in [Install!Levels -> Nat]
      /\ edits \in [Users -> Install!Edit \union {Install!NoEdit}] /\ data = accepted
  BY DEF InstallInv, Install!TypeOK, Install!PolicyChangesAreKept
<1>2. /\ data' \in [Install!Levels -> SUBSET Keys] /\ revision' \in [Install!Levels -> Nat]
      /\ data' = accepted'
  BY <1>1
<1>3. \A l \in Install!Levels :
        (revision'[l] = revision[l] /\ data'[l] = data[l]) \/ revision'[l] = revision[l] + 1
  BY <1>1
<1>4. ASSUME NEW u \in Users, edits[u] # Install!NoEdit
      PROVE  /\ edits[u].revision <= revision'[edits[u].layer]
             /\ edits[u].revision = revision'[edits[u].layer] =>
                  edits[u].data = IF edits[u].add
                                  THEN data'[edits[u].layer] \union {edits[u].key}
                                  ELSE data'[edits[u].layer] \ {edits[u].key}
  <2>1. edits[u] \in Install!Edit
    BY <1>1, <1>4
  <2>2. edits[u].layer \in Install!Levels /\ edits[u].revision \in Nat
    BY <2>1 DEF Install!Edit
  <2>3. /\ edits[u].revision <= revision[edits[u].layer]
        /\ edits[u].revision = revision[edits[u].layer] =>
             edits[u].data = IF edits[u].add THEN data[edits[u].layer] \union {edits[u].key}
                                             ELSE data[edits[u].layer] \ {edits[u].key}
    BY <1>4 DEF InstallInv, EditsAreBased
  <2> DEFINE l == edits[u].layer
  <2>4. \/ revision'[l] = revision[l] /\ data'[l] = data[l]
        \/ revision'[l] = revision[l] + 1 /\ revision[l] \in Nat
    BY <1>1, <1>3, <2>2
  <2>5. CASE revision'[l] = revision[l] /\ data'[l] = data[l]
    BY <2>3, <2>5
  <2>6. CASE revision'[l] = revision[l] + 1 /\ revision[l] \in Nat
    <3>1. edits[u].revision <= revision'[l] /\ edits[u].revision # revision'[l]
      BY <2>2, <2>3, <2>6
    <3> QED
      BY <3>1
  <2> QED
    BY <2>4, <2>5, <2>6
<1> QED
  BY <1>1, <1>2, <1>4 DEF EditsAreBased, Install!PolicyChangesAreKept

\* What every step of a framework command shares: resources are only added, agents only
\* after their description and in their namespace.
LEMMA CommandsKeepInv ==
  ASSUME Install!ConstantAssumption, InstallInv, UNCHANGED edits,
         \/ UNCHANGED <<data, revision, accepted>>
         \/ \E l \in Install!Levels :
              /\ data' = [data EXCEPT ![l] = {}] /\ accepted' = [accepted EXCEPT ![l] = {}]
              /\ revision' = [revision EXCEPT ![l] = @ + 1],
         \/ Install!Spend("commands", MaxCommands) \/ Install!Spend("failures", MaxFailures)
         \/ UNCHANGED used,
         steps' \in Seq(Step), StepsAreDescribed',
         \/ objects' = objects
         \/ /\ steps # << >> /\ objects' = objects \union {Head(steps)}
            /\ Install!HasNamespace,
         described' \subseteq Install!Levels, undescribed' \subseteq Install!Levels,
         \A l \in Install!Levels : Provided(l) => Provided(l)',
         \A l \in Install!Levels : <<l, "description">> \in objects' \ objects => Provided(l)'
  PROVE  InstallInv'
<1>1. steps # << >> => Head(steps) \in Step
  BY DEF InstallInv
<1>2. Install!TypeOK'
  <2>1. objects' \subseteq Install!Owners \X Install!Kinds
    BY <1>1 DEF InstallInv, Install!TypeOK, Step
  <2>3. used' \in [commands : 0..MaxCommands, edits : 0..MaxEdits, failures : 0..MaxFailures]
    BY SpendIsBounded DEF InstallInv
  <2>4. steps' \in Seq(Install!Owners \X Install!Kinds)
    BY DEF Step
  <2> QED
    BY <2>1, <2>3, <2>4, CommandsKeepPolicies DEF Install!TypeOK, Step
<1>3. Install!NoDescriptionIsLost'
  <2>1. objects \subseteq objects'
    OBVIOUS
  <2> SUFFICES ASSUME NEW l \in Install!Levels, <<l, "agent">> \in objects'
               PROVE  Install!Namespace(l) \in objects' /\ Provided(l)'
    BY DEF Install!NoDescriptionIsLost, Provided
  <2>2. CASE <<l, "agent">> \in objects
    BY <2>1, <2>2 DEF InstallInv, Install!NoDescriptionIsLost, Provided
  <2>3. CASE <<l, "agent">> \notin objects
    <3>1. steps # << >> /\ Head(steps) = <<l, "agent">> /\ Install!HasNamespace
      BY <2>3
    <3>2. Len(steps) \in Nat \ {0} /\ Head(steps) = steps[1]
      BY <3>1 DEF InstallInv, Install!TypeOK
    <3>3. Provided(l)
      BY <3>1, <3>2 DEF InstallInv, StepsAreDescribed
    <3>4. Install!Namespace(l) \in objects
      BY <3>1 DEF Install!HasNamespace, Install!Object
    <3> QED
      BY <2>1, <3>3, <3>4
  <2> QED
    BY <2>2, <2>3
<1>4. DescriptionsAreWritten'
  BY DEF InstallInv, DescriptionsAreWritten
<1> QED
  BY <1>2, <1>3, <1>4, CommandsKeepPolicies DEF InstallInv

LEMMA PolicyCommandsKeepInv ==
  ASSUME Install!ConstantAssumption, InstallInv, NEW u \in Users,
         Install!ReadPolicies(u) \/ Install!WritePolicies(u)
  PROVE  InstallInv'
<1>1. /\ data \in [Install!Levels -> SUBSET Keys] /\ revision \in [Install!Levels -> Nat]
      /\ edits \in [Users -> Install!Edit \union {Install!NoEdit}] /\ data = accepted
  BY DEF InstallInv, Install!TypeOK, Install!PolicyChangesAreKept
<1>2. UNCHANGED <<objects, steps, described, undescribed>>
  BY DEF Install!ReadPolicies, Install!WritePolicies, Install!descriptionVars
<1>3. Install!NoDescriptionIsLost' /\ StepsAreDescribed' /\ DescriptionsAreWritten'
  BY <1>2
  DEF InstallInv, Install!NoDescriptionIsLost, StepsAreDescribed, DescriptionsAreWritten, Provided
<1>4. CASE Install!ReadPolicies(u)
  <2>1. PICK l \in Install!Levels, key \in Keys, add \in BOOLEAN :
          edits' = [edits EXCEPT ![u] =
            [layer |-> l, key |-> key, add |-> add, revision |-> revision[l],
             data |-> IF add THEN data[l] \union {key} ELSE data[l] \ {key}]]
    BY <1>4 DEF Install!ReadPolicies
  <2>2. UNCHANGED <<data, revision, accepted>> /\ Install!Spend("edits", MaxEdits)
    BY <1>4 DEF Install!ReadPolicies
  <2> DEFINE e == [layer |-> l, key |-> key, add |-> add, revision |-> revision[l],
                   data |-> IF add THEN data[l] \union {key} ELSE data[l] \ {key}]
  <2>3. e \in Install!Edit
    BY <1>1 DEF Install!Edit
  <2>4. edits' \in [Users -> Install!Edit \union {Install!NoEdit}]
    BY <1>1, <2>1, <2>3
  <2>5. Install!TypeOK' /\ Install!PolicyChangesAreKept'
    BY <1>2, <2>2, <2>4, SpendIsBounded
    DEF InstallInv, Install!TypeOK, Install!PolicyChangesAreKept
  <2>6. ASSUME NEW w \in Users, edits'[w] # Install!NoEdit
        PROVE  /\ edits'[w].revision <= revision'[edits'[w].layer]
               /\ edits'[w].revision = revision'[edits'[w].layer] =>
                    edits'[w].data = IF edits'[w].add
                                     THEN data'[edits'[w].layer] \union {edits'[w].key}
                                     ELSE data'[edits'[w].layer] \ {edits'[w].key}
    <3>1. CASE w = u
      BY <1>1, <2>1, <2>2, <3>1
    <3>2. CASE w # u
      <4>1. edits'[w] = edits[w]
        BY <1>1, <2>1, <3>2
      <4> QED
        BY <2>2, <2>6, <4>1 DEF InstallInv, EditsAreBased
    <3> QED
      BY <3>1, <3>2
  <2> QED
    BY <1>2, <1>3, <2>5, <2>6 DEF InstallInv, EditsAreBased
<1>5. CASE Install!WritePolicies(u)
  <2> DEFINE edit == edits[u]
             l == edit.layer
  <2>1. /\ edit # Install!NoEdit /\ edits' = [edits EXCEPT ![u] = Install!NoEdit]
        /\ UNCHANGED used
    BY <1>5 DEF Install!WritePolicies
  <2>2. edit \in Install!Edit
    BY <1>1, <2>1
  <2>3. /\ l \in Install!Levels /\ edit.key \in Keys /\ edit.data \in SUBSET Keys
        /\ edit.revision \in Nat
    BY <2>2 DEF Install!Edit
  <2>4. edits' \in [Users -> Install!Edit \union {Install!NoEdit}]
    BY <1>1, <2>1
  <2>5. \/ UNCHANGED <<data, revision, accepted>>
        \/ /\ edit.revision = revision[l]
           /\ data' = [data EXCEPT ![l] = edit.data]
           /\ revision' = [revision EXCEPT ![l] = @ + 1]
           /\ accepted' = [accepted EXCEPT ![l] =
                             IF edit.add THEN @ \union {edit.key} ELSE @ \ {edit.key}]
    BY <1>5 DEF Install!WritePolicies
  <2>6. edit.revision = revision[l] =>
          edit.data = IF edit.add THEN data[l] \union {edit.key} ELSE data[l] \ {edit.key}
    BY <2>1 DEF InstallInv, EditsAreBased
  <2> HIDE DEF edit, l
  <2>7. /\ data' \in [Install!Levels -> SUBSET Keys] /\ revision' \in [Install!Levels -> Nat]
        /\ data' = accepted'
    <3> DEFINE change == IF edit.add THEN data[l] \union {edit.key} ELSE data[l] \ {edit.key}
    <3>1. CASE UNCHANGED <<data, revision, accepted>>
      BY <1>1, <3>1
    <3>2. CASE /\ edit.revision = revision[l]
               /\ data' = [data EXCEPT ![l] = edit.data]
               /\ revision' = [revision EXCEPT ![l] = @ + 1]
               /\ accepted' = [accepted EXCEPT ![l] =
                                 IF edit.add THEN @ \union {edit.key} ELSE @ \ {edit.key}]
      <4>1. accepted' = [accepted EXCEPT ![l] = change]
        BY <1>1, <2>3, <3>2
      <4>2. edit.data = change
        BY <2>6, <3>2
      <4>3. data' \in [Install!Levels -> SUBSET Keys]
        BY <1>1, <2>3, <3>2
      <4>4. revision' \in [Install!Levels -> Nat]
        BY <1>1, <2>3, <3>2
      <4> HIDE DEF change
      <4>5. data' = accepted'
        BY <1>1, <3>2, <4>1, <4>2
      <4> QED
        BY <4>3, <4>4, <4>5
    <3> QED
      BY <2>5, <3>1, <3>2
  <2>8. \A k \in Install!Levels :
          (revision'[k] = revision[k] /\ data'[k] = data[k]) \/ revision'[k] = revision[k] + 1
    BY <1>1, <2>3, <2>5
  <2>9. ASSUME NEW w \in Users, edits'[w] # Install!NoEdit
        PROVE  /\ edits'[w].revision <= revision'[edits'[w].layer]
               /\ edits'[w].revision = revision'[edits'[w].layer] =>
                    edits'[w].data = IF edits'[w].add
                                     THEN data'[edits'[w].layer] \union {edits'[w].key}
                                     ELSE data'[edits'[w].layer] \ {edits'[w].key}
    <3>1. edits'[w] = edits[w]
      BY <1>1, <2>1, <2>9
    <3>2. edits[w] \in Install!Edit
      BY <1>1, <2>9, <3>1
    <3>3. edits[w].layer \in Install!Levels /\ edits[w].revision \in Nat
      BY <3>2 DEF Install!Edit
    <3>4. /\ edits[w].revision <= revision[edits[w].layer]
          /\ edits[w].revision = revision[edits[w].layer] =>
               edits[w].data = IF edits[w].add THEN data[edits[w].layer] \union {edits[w].key}
                                               ELSE data[edits[w].layer] \ {edits[w].key}
      BY <2>9, <3>1 DEF InstallInv, EditsAreBased
    <3>5. /\ revision[edits[w].layer] \in Nat
          /\ \/ /\ revision'[edits[w].layer] = revision[edits[w].layer]
                /\ data'[edits[w].layer] = data[edits[w].layer]
             \/ revision'[edits[w].layer] = revision[edits[w].layer] + 1
      BY <1>1, <2>8, <3>3
    <3>6. CASE revision'[edits[w].layer] = revision[edits[w].layer]
      <4>1. data'[edits[w].layer] = data[edits[w].layer]
        BY <3>5, <3>6
      <4> QED
        BY <3>1, <3>4, <3>6, <4>1
    <3>7. CASE revision'[edits[w].layer] = revision[edits[w].layer] + 1
      <4>1. edits[w].revision < revision'[edits[w].layer]
        BY <3>3, <3>4, <3>5, <3>7
      <4>2. edits[w].revision <= revision'[edits[w].layer]
            /\ edits[w].revision # revision'[edits[w].layer]
        BY <3>3, <3>5, <3>7, <4>1
      <4> QED
        BY <3>1, <4>2
    <3> QED
      BY <3>5, <3>6, <3>7
  <2> QED
    BY <1>2, <1>3, <2>1, <2>4, <2>7, <2>9
    DEF InstallInv, EditsAreBased, Install!TypeOK, Install!PolicyChangesAreKept
<1> QED
  BY <1>4, <1>5

LEMMA InstallInvNext ==
  ASSUME Install!ConstantAssumption, InstallInv, Install!Next
  PROVE  InstallInv'
<1>1. steps \in Seq(Step) /\ (steps # << >> => Head(steps) \in Step)
  BY DEF InstallInv
<1> USE DEF Install!Object, Install!GoOn, Install!Abort, Install!descriptionVars
<1>0. described \subseteq Install!Levels /\ undescribed \subseteq Install!Levels
  BY DEF InstallInv, Install!TypeOK
<1>2. CASE Install!Run
  <2>1. steps' \in Seq(Step) /\ StepsAreDescribed'
    BY <1>2, DescribedCommands DEF Install!Run, StepsAreDescribed, Described
  <2> QED
    BY <1>2, <2>1, CommandsKeepInv, <1>0 DEF Provided, Install!Run
<1>3. CASE Install!CreateOrUpdate
  <2>1. Head(steps)[2] # "description" /\ steps # << >> /\ steps' = Tail(steps)
    BY <1>3 DEF Install!CreateOrUpdate, Install!Upserts, Install!CreateOnly
  <2>2. steps' \in Seq(Step) /\ StepsAreDescribed'
    BY <1>3, <2>1, GoOnIsDescribed DEF Provided, InstallInv, Install!CreateOrUpdate
  <2>3. Head(steps)[2] = "policies" => Head(steps)[1] \in Install!Levels
    BY <1>1, <2>1 DEF Step
  <2>4. /\ \A l \in Install!Levels : Provided(l) => Provided(l)'
        /\ UNCHANGED <<described, undescribed>> /\ objects' = objects \union {Head(steps)}
        /\ \A l \in Install!Levels : <<l, "description">> # Head(steps)
    BY <1>3, <2>1 DEF Install!CreateOrUpdate, Provided
  <2> QED
    BY <1>0, <1>3, <2>1, <2>2, <2>3, <2>4, CommandsKeepInv
    DEF Install!CreateOrUpdate, Install!ResetPolicies
<1>4. CASE Install!UpdateFails
  <2>1. Head(steps)[2] # "description" /\ steps # << >> /\ steps' = Tail(steps)
    BY <1>4 DEF Install!UpdateFails, Install!Upserts, Install!CreateOnly
  <2>2. steps' \in Seq(Step) /\ StepsAreDescribed'
    BY <1>4, <2>1, GoOnIsDescribed DEF Provided, InstallInv, Install!UpdateFails
  <2> QED
    BY <1>4, <2>2, CommandsKeepInv, <1>0 DEF Provided, Install!UpdateFails
<1>5. CASE Install!CreateFails
  BY <1>5, AbortIsDescribed, CommandsKeepInv, <1>0 DEF Provided, Install!CreateFails
<1>6. CASE Install!CreateConfigMap
  <2>1. /\ described' \subseteq Install!Levels /\ undescribed' \subseteq Install!Levels
        /\ \A l \in Install!Levels : Provided(l) => Provided(l)'
        /\ \A l \in Install!Levels :
             <<l, "description">> = Head(steps) => Provided(l)'
    BY <1>0, <1>1, <1>6
    DEF Install!CreateConfigMap, Install!AllFound, Install!SomeMissing, Provided, Install!Creates,
        InstallInv, DescriptionsAreWritten, Step
  <2>2. steps' \in Seq(Step) /\ StepsAreDescribed'
    BY <1>6, <2>1, GoOnIsDescribed
    DEF InstallInv, Install!CreateConfigMap, Install!Creates
  <2> QED
    BY <1>6, <2>1, <2>2, CommandsKeepInv DEF Install!CreateConfigMap, Install!Creates
<1>7. CASE Install!CreateConfigMapFails
  <2>1. CASE /\ Head(steps) \in objects /\ steps' = Tail(steps)
             /\ IF Head(steps)[2] = "description" THEN Install!AllFound \/ Install!SomeMissing
                                                ELSE UNCHANGED <<described, undescribed>>
    <3>1. /\ described' \subseteq Install!Levels /\ undescribed' \subseteq Install!Levels
          /\ \A l \in Install!Levels : Provided(l) => Provided(l)'
          /\ \A l \in Install!Levels :
               <<l, "description">> = Head(steps) => Provided(l)'
      BY <1>0, <1>1, <1>7, <2>1
      DEF Install!CreateConfigMapFails, Install!AllFound, Install!SomeMissing, Provided,
          Install!Creates, InstallInv, DescriptionsAreWritten, Step
    <3>2. steps' \in Seq(Step) /\ StepsAreDescribed'
      BY <1>7, <2>1, <3>1, GoOnIsDescribed
      DEF InstallInv, Install!CreateConfigMapFails, Install!Creates
    <3> QED
      BY <1>7, <3>1, <3>2, CommandsKeepInv DEF Install!CreateConfigMapFails
  <2>2. CASE steps' = << >> /\ UNCHANGED <<described, undescribed>>
    <3>1. \A l \in Install!Levels : Provided(l) => Provided(l)'
      BY <2>2 DEF Provided
    <3> QED
      BY <1>0, <1>7, <2>2, <3>1, AbortIsDescribed, CommandsKeepInv
      DEF Install!CreateConfigMapFails
  <2> QED
    BY <1>7, <2>1, <2>2 DEF Install!CreateConfigMapFails
<1>8. CASE Install!ReadFails
  <2>1. /\ \A l \in Install!Levels : Provided(l) => Provided(l)'
        /\ \A l \in Install!Levels : <<l, "description">> = Head(steps) => Provided(l)'
        /\ objects' = objects
    BY <1>8 DEF Install!ReadFails, Provided
  <2>2. described' \subseteq Install!Levels /\ undescribed' \subseteq Install!Levels
    BY <1>0, <1>1, <1>8 DEF Install!ReadFails, Install!Creates, Step
  <2>3. steps' \in Seq(Step) /\ StepsAreDescribed'
    BY <1>8, <2>1, GoOnIsDescribed DEF InstallInv, Install!ReadFails, Install!Creates
  <2> QED
    BY <1>8, <2>1, <2>2, <2>3, CommandsKeepInv DEF Install!ReadFails, Install!Creates
<1>9. CASE Install!ApplyPolicies
  <2>1. steps' \in Seq(Step) /\ StepsAreDescribed'
    BY <1>9, GoOnIsDescribed DEF Provided, InstallInv, Install!ApplyPolicies
  <2> QED
    BY <1>9, <2>1, CommandsKeepInv, <1>0 DEF Provided, Install!ApplyPolicies, Install!HasNamespace
<1>10. CASE Install!Interrupt
  BY <1>10, AbortIsDescribed, CommandsKeepInv, <1>0 DEF Provided, Install!Interrupt
<1> QED
  BY <1>2, <1>3, <1>4, <1>5, <1>6, <1>7, <1>8, <1>9, <1>10, PolicyCommandsKeepInv
  DEF Install!Next

\* Agents are started in their namespace, and lack the description of their systems only if a
\* command found none where it looked; no successful change of a policy is undone, whatever fails and is interrupted in any
\* number of framework commands while any number of users change policies.
THEOREM InstallSafe ==
  ASSUME Install!ConstantAssumption
  PROVE  Install!Init /\ [][Install!Next]_installVars =>
           [](Install!TypeOK /\ Install!NoDescriptionIsLost /\ Install!PolicyChangesAreKept)
<1>1. InstallInv /\ [Install!Next]_installVars => InstallInv'
  <2>1. ASSUME InstallInv, UNCHANGED installVars PROVE InstallInv'
    BY <2>1
    DEF installVars, InstallInv, Install!TypeOK, StepsAreDescribed, Provided, EditsAreBased,
        DescriptionsAreWritten, Install!NoDescriptionIsLost, Install!PolicyChangesAreKept
  <2> QED
    BY <2>1, InstallInvNext
<1>2. InstallInv =>
        Install!TypeOK /\ Install!NoDescriptionIsLost /\ Install!PolicyChangesAreKept
  BY DEF InstallInv
<1> QED
  BY <1>1, <1>2, InstallInvInit, PTL

-----------------------------------------------------------------------------
(* The task that calls the policies. *)

\* A finite set of numbers has a greatest one.
LEMMA FiniteMax ==
  ASSUME NEW S, S \subseteq Nat, S # {}, IsFiniteSet(S)
  PROVE  \E x \in S : \A y \in S : y <= x
<1> DEFINE Unbounded == {T \in SUBSET S : T # {} /\ \A x \in T : \E y \in T : ~(y <= x)}
           Sizes == {Cardinality(T) : T \in Unbounded}
<1> SUFFICES ASSUME Unbounded # {} PROVE FALSE
  OBVIOUS
<1>1. \A T \in SUBSET S : IsFiniteSet(T) /\ Cardinality(T) \in Nat
  BY FS_Subset, FS_CardinalityType
<1>2. Sizes \subseteq Nat /\ Sizes # {}
  BY <1>1
<1>3. PICK n \in Sizes : \A k \in Sizes : n <= k
  BY <1>2, NatMin
<1>4. PICK T \in Unbounded : Cardinality(T) = n
  BY <1>3
<1>5. PICK x \in T : TRUE
  OBVIOUS
<1>6. Cardinality(T \ {x}) = n - 1
  BY <1>1, <1>4, <1>5, FS_RemoveElement
<1>7. T \ {x} \in Unbounded
  <2>1. T \ {x} # {}
    BY <1>5
  <2>2. ASSUME NEW y \in T \ {x}, \A z \in T \ {x} : z <= y PROVE FALSE
    <3>1. CASE x <= y
      BY <2>2, <3>1, <1>4
    <3>2. CASE ~(x <= y)
      <4>1. \A z \in T : z <= x
        BY <2>2, <3>2, <1>4
      <4> QED
        BY <4>1, <1>4
    <3> QED
      BY <3>1, <3>2
  <2> QED
    BY <2>1, <2>2
<1>8. n \in Nat /\ n - 1 \in Sizes
  BY <1>2, <1>6, <1>7
<1> QED
  BY <1>3, <1>8

-----------------------------------------------------------------------------
\* What Min and Max of the community modules yield.
LEMMA MinOf ==
  ASSUME NEW S, S \subseteq Nat, S # {}
  PROVE  Loop!Min(S) \in S /\ \A y \in S : Loop!Min(S) <= y
BY NatMin DEF Loop!Min

LEMMA MaxOf ==
  ASSUME NEW S, S \subseteq Nat, S # {}, IsFiniteSet(S)
  PROVE  Loop!Max(S) \in S /\ \A y \in S : y <= Loop!Max(S)
BY FiniteMax DEF Loop!Max

Cost(analyses) == analyses * MaxDuration
Penalty(exceptions) == exceptions * Loop!Round
Smallest == Loop!Min({intervals[j] : j \in Loop!Index})
Reached(i) == \A j \in Loop!Index : j < i => intervals[j] # 0

LEMMA LoopBounds ==
  ASSUME Loop!ConstantAssumption
  PROVE  /\ Count \in Nat \ {0} /\ MaxDuration \in Nat /\ MaxRaises \in Nat
         /\ Periods \subseteq Nat /\ InitialPeriod \in Nat
         /\ Loop!Over \in Nat /\ Loop!Long \in Nat /\ Loop!Round \in Nat
         /\ \A p \in Periods : p < Loop!Over
         /\ \A p \in Periods \union {InitialPeriod} : p + Cost(Count) <= Loop!Round
         /\ \A k \in Nat : Cost(k) \in Nat /\ Cost(k + 1) = Cost(k) + MaxDuration
                           /\ Penalty(k) \in Nat /\ Penalty(k + 1) = Penalty(k) + Loop!Round
         /\ \A j, k \in Nat : j <= k => Cost(j) <= Cost(k)
<1> DEFINE S == {InitialPeriod} \union Periods
<1>0. /\ Periods \subseteq Nat /\ Periods # {} /\ IsFiniteSet(Periods) /\ InitialPeriod \in Nat
  BY DEF Loop!ConstantAssumption, Loop!IsFiniteSet, IsFiniteSet
<1>1. S \subseteq Nat /\ S # {} /\ IsFiniteSet(S)
  <2>1. IsFiniteSet({InitialPeriod})
    BY FS_Singleton
  <2>2. IsFiniteSet(S)
    BY <1>0, <2>1, FS_Union
  <2> QED
    BY <1>0, <2>2
<1>2. Loop!Max(S) \in Nat /\ \A p \in S : p <= Loop!Max(S)
  BY <1>1, MaxOf
<1>3. Loop!Max(Periods) \in Nat /\ \A p \in Periods : p <= Loop!Max(Periods)
  BY <1>0, MaxOf
<1> HIDE DEF S
<1>4. Count \in Nat /\ MaxDuration \in Nat /\ MaxRaises \in Nat
  BY DEF Loop!ConstantAssumption
<1>5. Count * MaxDuration \in Nat
  BY <1>4
<1>6. Loop!Round \in Nat /\ Loop!Round = Loop!Max(S) + Count * MaxDuration
  BY <1>2, <1>5 DEF Loop!Round, S
<1>7. (MaxRaises + 1) * Loop!Round \in Nat
  BY <1>4, <1>6
<1>8. Loop!Over \in Nat /\ Loop!Long \in Nat /\ \A p \in Periods : p < Loop!Over
  BY <1>3, <1>7 DEF Loop!Over, Loop!Long, Loop!ConstantAssumption
<1>9. \A p \in S : p + Count * MaxDuration <= Loop!Round
  BY <1>1, <1>2, <1>5, <1>6
<1>10. \A k \in Nat : k * MaxDuration \in Nat /\ (k + 1) * MaxDuration = k * MaxDuration + MaxDuration
                            /\ k * Loop!Round \in Nat
                            /\ (k + 1) * Loop!Round = k * Loop!Round + Loop!Round
  BY <1>4, <1>6
<1>11. \A j, k \in Nat : j <= k => j * MaxDuration <= k * MaxDuration
  BY <1>4
<1> QED
  BY <1>0, <1>4, <1>6, <1>8, <1>9, <1>10, <1>11 DEF S, Cost, Penalty, Loop!ConstantAssumption

\* What the scan has seen is what the task sleeps for.
Scanned ==
  /\ seen \subseteq {intervals[j] : j \in Loop!Index}
  /\ turn = "scan" => left = 0
  /\ turn = "sleep" => policy = 1
  /\ policy \in Loop!Index => Reached(policy)
  /\ turn = "analyze" =>
       policy \in Loop!Index /\ intervals[policy] \in seen /\ left <= MaxDuration
  /\ \/ \A j \in Loop!Index : j < policy => intervals[j] \in seen
     \/ turn = "scan" /\ policy = Count + 1 /\ 0 \in seen

\* The analysis that sets the clock back was called at most MaxDuration before.
SinceFollows ==
  \A i \in Loop!Index : since[i] = Loop!Over \/ waited[i] <= since[i] + MaxDuration

\* Before the scan comes to a policy the last sleep and the analyses since count, after
\* it the analyses of this round.
InTurn ==
  \A i \in Loop!Index : Reached(i) =>
    LET base == intervals[i] + Penalty(raises)
    IN /\ turn = "scan" /\ policy <= i =>
            waited[i] <= base + Smallest + Cost(Count - i + policy)
       /\ turn = "scan" /\ policy > i => waited[i] <= base + Cost(policy - i)
       /\ turn = "analyze" /\ policy < i =>
            waited[i] + left <= base + Smallest + Cost(Count - i + policy + 1)
       /\ turn = "analyze" /\ policy = i => waited[i] + left <= MaxDuration
       /\ turn = "analyze" /\ policy > i => waited[i] + left <= base + Cost(policy - i + 1)
       /\ turn = "sleep" => waited[i] + left <= base + Smallest + Cost(Count + 1 - i)

LoopInv == Loop!TypeOK /\ Scanned /\ SinceFollows /\ InTurn

LEMMA SmallestInterval ==
  ASSUME Loop!ConstantAssumption, Loop!TypeOK
  PROVE  /\ Smallest \in Nat /\ Smallest \in {intervals[j] : j \in Loop!Index}
         /\ \A j \in Loop!Index : Smallest <= intervals[j] /\ intervals[j] \in Periods
                                  /\ intervals[j] \in Nat
<1> DEFINE S == {intervals[j] : j \in Loop!Index}
<1>1. \A j \in Loop!Index : intervals[j] \in Periods /\ intervals[j] \in Nat
  BY LoopBounds DEF Loop!TypeOK
<1>2. S \subseteq Nat
  BY <1>1
<1>3. 1 \in Loop!Index
  BY LoopBounds DEF Loop!Index
<1>4. intervals[1] \in S
  BY <1>3
<1>5. Smallest \in S /\ \A x \in S : Smallest <= x
  <2> HIDE DEF S
  <2>1. S # {}
    BY <1>4
  <2> QED
    BY <1>2, <2>1, MinOf DEF Smallest, S
<1> QED
  BY <1>1, <1>2, <1>5

\* A scan that is over has seen the smallest interval.
LEMMA SleepsSmallest ==
  ASSUME Loop!ConstantAssumption, LoopInv, turn = "scan", policy = Count + 1
  PROVE  Loop!Min(seen) = Smallest
<1>1. Smallest \in seen
  <2>1. PICK j \in Loop!Index : Smallest = intervals[j]
    BY SmallestInterval DEF LoopInv
  <2>2. CASE \A k \in Loop!Index : k < policy => intervals[k] \in seen
    <3>1. j < policy
      BY LoopBounds DEF Loop!Index
    <3> QED
      BY <2>1, <2>2, <3>1
  <2>3. CASE 0 \in seen
    <3>1. PICK k \in Loop!Index : intervals[k] = 0
      BY <2>3 DEF LoopInv, Scanned
    <3> QED
      BY <2>3, <3>1, SmallestInterval DEF LoopInv
  <2> QED
    BY <2>2, <2>3 DEF LoopInv, Scanned
<1>2. seen \subseteq Nat /\ \A x \in seen : Smallest <= x
  BY SmallestInterval DEF LoopInv, Scanned
<1>3. Loop!Min(seen) \in seen /\ \A x \in seen : Loop!Min(seen) <= x
  BY <1>1, <1>2, MinOf
<1>4. Loop!Min(seen) \in Nat /\ Smallest \in Nat
  BY <1>1, <1>2, <1>3
<1>5. Smallest <= Loop!Min(seen) /\ Loop!Min(seen) <= Smallest
  BY <1>1, <1>2, <1>3
<1> QED
  BY <1>4, <1>5

LEMMA LoopInvInit == Loop!ConstantAssumption /\ Loop!Init => LoopInv
<1> SUFFICES ASSUME Loop!ConstantAssumption, Loop!Init PROVE LoopInv
  OBVIOUS
<1> USE DEF Loop!Init, Loop!Index
<1>1. Loop!TypeOK
  <2>1. 0 \in 0..Loop!Round /\ 0 \in 0..Loop!Over /\ 0 \in 0..Loop!Long
        /\ 0 \in 0..MaxRaises /\ 1 \in 1..(Count + 1)
    BY LoopBounds
  <2> QED
    BY <2>1 DEF Loop!TypeOK
<1>2. Scanned /\ SinceFollows
  BY LoopBounds DEF Scanned, SinceFollows, Reached
<1>3. InTurn
  <2> SUFFICES ASSUME NEW i \in Loop!Index
               PROVE  waited[i] <= intervals[i] + Penalty(raises) + Smallest
                                   + Cost(Count - i + policy)
    BY DEF InTurn
  <2>1. i \in Nat /\ Count - i + policy \in Nat /\ 0 \in Nat
    <3>1. Count \in Nat /\ i \in 1..Count /\ policy = 1
      BY LoopBounds
    <3> QED
      BY <3>1
  <2>2. Cost(Count - i + policy) \in Nat /\ Penalty(0) \in Nat
    BY <2>1, LoopBounds
  <2> QED
    BY <1>1, <2>1, <2>2, SmallestInterval
<1> QED
  BY <1>1, <1>2, <1>3 DEF LoopInv

LEMMA LoopInvNext ==
  ASSUME Loop!ConstantAssumption, LoopInv, Loop!Next
  PROVE  LoopInv'
<1> DEFINE N == Count
           D == MaxDuration
           R == Loop!Round
<1>1. /\ N \in Nat \ {0} /\ D \in Nat /\ MaxRaises \in Nat /\ R \in Nat /\ Loop!Over \in Nat
      /\ Loop!Long \in Nat /\ \A p \in Periods : p < Loop!Over
      /\ \A p \in Periods \union {InitialPeriod} : p \in Nat /\ p + Cost(N) <= R
  BY LoopBounds
<1>2. /\ \A k \in Nat : Cost(k) \in Nat /\ Cost(k + 1) = Cost(k) + D
      /\ \A j, k \in Nat : j <= k => Cost(j) <= Cost(k)
  BY LoopBounds
<1>3. \A k \in Nat : Penalty(k) \in Nat /\ Penalty(k + 1) = Penalty(k) + R
  BY LoopBounds
<1>4. /\ intervals \in [Loop!Index -> Periods]
      /\ turn \in {"scan", "analyze", "sleep"} /\ policy \in 1..(Count + 1)
      /\ seen \subseteq Periods /\ analyze_period \in Periods \union {InitialPeriod}
      /\ left \in 0..R /\ raises \in 0..MaxRaises
      /\ since \in [Loop!Index -> 0..Loop!Over] /\ waited \in [Loop!Index -> 0..Loop!Long]
  BY DEF LoopInv, Loop!TypeOK
<1>5. /\ Smallest \in Nat /\ \A j \in Loop!Index : Smallest <= intervals[j]
                                                  /\ intervals[j] \in Nat
      /\ Smallest \in Periods
  BY <1>4, SmallestInterval DEF LoopInv
<1>6. intervals' = intervals
  BY DEF Loop!Next, Loop!Scan, Loop!Analyzed, Loop!Sleep, Loop!Raise, Loop!WakeUp, Loop!Tick
<1>7. Smallest' = Smallest /\ \A i \in Loop!Index : Reached(i)' = Reached(i)
  BY <1>6 DEF Smallest, Reached
<1>8. Cost(1) = D /\ Cost(N) >= D
  <2>1. Cost(0) = 0
    BY <1>1 DEF Cost
  <2>2. Cost(1) = D
    BY <1>1, <1>2, <2>1
  <2> QED
    BY <1>1, <1>2, <2>2
<1>9. \A i \in Loop!Index : i \in Nat /\ 1 <= i /\ i <= N
  BY <1>1 DEF Loop!Index
<1>10. policy \in Nat /\ 1 <= policy /\ policy <= N + 1 /\ left \in Nat /\ raises \in Nat
  BY <1>1, <1>4
<1>11. \A i \in Loop!Index : waited[i] \in Nat /\ since[i] \in Nat /\ since[i] <= Loop!Over
  BY <1>1, <1>4
<1>12. CASE Loop!Scan
  <2>1. /\ turn = "scan" /\ policy \in Loop!Index /\ seen' = seen \union {intervals[policy]}
        /\ UNCHANGED <<analyze_period, since, raises>> /\ left = 0
    BY <1>12 DEF Loop!Scan, LoopInv, Scanned
  <2>2. CASE Loop!Due(policy)
    <3>1. /\ turn' = "analyze" /\ left' \in 0..D /\ policy' = policy
          /\ waited' = [waited EXCEPT ![policy] = 0]
      BY <1>12, <2>2 DEF Loop!Scan
    <3>2. left' \in Nat /\ left' <= D /\ left' <= R
      BY <1>1, <1>2, <1>8, <3>1, <1>5
    <3>3. Loop!TypeOK'
      BY <1>1, <1>4, <1>6, <2>1, <3>1, <3>2 DEF Loop!TypeOK
    <3>4. Scanned'
      <4>1. \A j \in Loop!Index : j < policy => intervals[j] \in seen
        BY <1>1, <1>9, <2>1 DEF LoopInv, Scanned
      <4>2. Reached(policy)
        BY <2>1 DEF LoopInv, Scanned
      <4> QED
        BY <1>6, <2>1, <3>1, <3>2, <4>1, <4>2 DEF Scanned, LoopInv, Reached
    <3>5. SinceFollows'
      BY <1>1, <1>4, <1>11, <2>1, <3>1 DEF SinceFollows, LoopInv
    <3>6. ASSUME NEW i \in Loop!Index, Reached(i)
          PROVE  /\ policy < i => waited'[i] + left' <= intervals[i] + Penalty(raises) + Smallest
                                                         + Cost(N - i + policy + 1)
                 /\ policy = i => waited'[i] + left' <= D
                 /\ policy > i => waited'[i] + left' <= intervals[i] + Penalty(raises)
                                                         + Cost(policy - i + 1)
      <4>1. CASE policy < i
        <5>1. waited'[i] = waited[i]
          BY <1>4, <3>1, <4>1, <2>1
        <5>2. waited[i] <= intervals[i] + Penalty(raises) + Smallest + Cost(N - i + policy)
          BY <2>1, <3>6, <4>1, <1>9, <1>10 DEF InTurn, LoopInv
        <5>3. N - i + policy \in Nat
          BY <1>1, <1>9, <1>10, <3>6
        <5>4. /\ Cost(N - i + policy) \in Nat
              /\ Cost(N - i + policy + 1) = Cost(N - i + policy) + D
          BY <1>2, <5>3
        <5> QED
          BY <1>1, <1>3, <1>5, <1>9, <1>10, <1>11, <3>2, <3>6, <4>1, <5>1, <5>2, <5>4
      <4>2. CASE policy = i
        <5>1. waited'[i] = 0
          BY <1>4, <3>1, <4>2
        <5>2. ~(policy < i) /\ ~(policy > i)
          BY <1>10, <4>2
        <5>3. \A k \in Nat : 0 + k = k
          OBVIOUS
        <5>4. waited'[i] + left' <= D
          BY <3>2, <5>1, <5>3
        <5> QED
          BY <5>2, <5>4
      <4>3. CASE policy > i
        <5>1. waited'[i] = waited[i]
          BY <1>4, <3>1, <4>3, <2>1, <1>9, <1>10
        <5>2. waited[i] <= intervals[i] + Penalty(raises) + Cost(policy - i)
          BY <2>1, <3>6, <4>3, <1>9, <1>10 DEF InTurn, LoopInv
        <5>3. policy - i \in Nat
          BY <1>1, <1>9, <1>10, <3>6, <4>3
        <5>4. Cost(policy - i) \in Nat /\ Cost(policy - i + 1) = Cost(policy - i) + D
          BY <1>2, <5>3
        <5> QED
          BY <1>1, <1>3, <1>5, <1>9, <1>10, <1>11, <3>2, <3>6, <4>3, <5>1, <5>2, <5>4
      <4> QED
        BY <1>9, <1>10, <4>1, <4>2, <4>3
    <3>7. InTurn'
      BY <1>6, <1>7, <2>1, <3>1, <3>6 DEF InTurn
    <3> QED
      BY <3>3, <3>4, <3>5, <3>7 DEF LoopInv
  <2>3. CASE ~Loop!Due(policy)
    <3>1. policy' = policy + 1 /\ UNCHANGED <<turn, left, waited>>
      BY <1>12, <2>3 DEF Loop!Scan
    <3>2. policy + 1 \in 1..(Count + 1)
      BY <1>1, <1>9, <2>1
    <3>3. Loop!TypeOK'
      BY <1>1, <1>4, <1>6, <2>1, <3>1, <3>2 DEF Loop!TypeOK
    <3>4. Scanned'
      <4>1. \A j \in Loop!Index : j < policy => intervals[j] \in seen
        BY <1>1, <1>9, <2>1 DEF LoopInv, Scanned
      <4>2. \A j \in Loop!Index : j < policy' => intervals[j] \in seen'
        BY <1>9, <1>10, <2>1, <3>1, <4>1
      <4>3. intervals[policy] # 0 /\ Reached(policy)
        BY <2>1, <2>3 DEF LoopInv, Scanned, Loop!Due
      <4>4. Reached(policy')
        BY <1>9, <1>10, <3>1, <4>3 DEF Reached
      <4> QED
        BY <1>6, <2>1, <3>1, <4>2, <4>4 DEF Scanned, LoopInv, Reached
    <3>5. SinceFollows'
      BY <2>1, <3>1 DEF SinceFollows, LoopInv
    <3>6. ASSUME NEW i \in Loop!Index, Reached(i)
          PROVE  /\ policy + 1 <= i => waited[i] <= intervals[i] + Penalty(raises) + Smallest
                                                    + Cost(N - i + (policy + 1))
                 /\ policy + 1 > i => waited[i] <= intervals[i] + Penalty(raises)
                                                   + Cost((policy + 1) - i)
      <4>1. CASE policy < i
        <5>1. waited[i] <= intervals[i] + Penalty(raises) + Smallest + Cost(N - i + policy)
          BY <2>1, <3>6, <4>1, <1>9, <1>10 DEF InTurn, LoopInv
        <5>2. N - i + policy \in Nat /\ N - i + (policy + 1) = (N - i + policy) + 1
          BY <1>1, <1>9, <1>10, <3>6
        <5>3. /\ Cost(N - i + policy) \in Nat
              /\ Cost(N - i + (policy + 1)) = Cost(N - i + policy) + D
          BY <1>2, <5>2
        <5> QED
          BY <1>1, <1>3, <1>5, <1>9, <1>10, <1>11, <3>6, <4>1, <5>1, <5>3
      <4>2. CASE policy = i
        <5>1. since[i] <= intervals[i] /\ intervals[i] \in Periods
          BY <1>4, <1>5, <1>11, <2>1, <2>3, <4>2 DEF Loop!Due
        <5>2. waited[i] <= since[i] + D
          BY <1>1, <1>5, <1>11, <5>1, <3>6 DEF LoopInv, SinceFollows
        <5>3. (policy + 1) - i = 1
          BY <1>10, <4>2
        <5> QED
          BY <1>1, <1>3, <1>5, <1>8, <1>9, <1>10, <1>11, <3>6, <4>2, <5>1, <5>2, <5>3
      <4>3. CASE policy > i
        <5>1. waited[i] <= intervals[i] + Penalty(raises) + Cost(policy - i)
          BY <2>1, <3>6, <4>3, <1>9, <1>10 DEF InTurn, LoopInv
        <5>2. policy - i \in Nat /\ (policy + 1) - i = (policy - i) + 1
          BY <1>1, <1>9, <1>10, <3>6, <4>3
        <5>3. Cost(policy - i) \in Nat /\ Cost((policy + 1) - i) = Cost(policy - i) + D
          BY <1>2, <5>2
        <5> QED
          BY <1>1, <1>3, <1>5, <1>9, <1>10, <1>11, <3>6, <4>3, <5>1, <5>3
      <4> QED
        BY <1>9, <1>10, <4>1, <4>2, <4>3
    <3>7. InTurn'
      BY <1>6, <1>7, <2>1, <3>1, <3>6 DEF InTurn
    <3> QED
      BY <3>3, <3>4, <3>5, <3>7 DEF LoopInv
  <2> QED
    BY <2>2, <2>3
<1>13. CASE Loop!Analyzed
  <2>1. /\ turn = "analyze" /\ left = 0 /\ turn' = "scan" /\ policy \in Loop!Index
        /\ policy' = IF intervals[policy] = 0 THEN N + 1 ELSE policy + 1
        /\ UNCHANGED <<seen, analyze_period, left, waited, raises>>
        /\ intervals[policy] \in seen
    BY <1>13 DEF Loop!Analyzed, LoopInv, Scanned
  <2>2. policy' \in 1..(Count + 1) /\ policy + 1 <= policy' /\ policy' <= N + 1 /\ policy' \in Nat
    BY <1>1, <1>9, <2>1
  <2>3. since' \in [Loop!Index -> 0..Loop!Over] /\ \A i \in Loop!Index : since'[i] = since[i] \/ i = policy
    BY <1>1, <1>4, <1>13, <2>1 DEF Loop!Analyzed
  <2>4. Loop!TypeOK'
    BY <1>1, <1>4, <1>6, <2>1, <2>2, <2>3 DEF Loop!TypeOK
  <2>5. Scanned'
    <3>1. \A j \in Loop!Index : j < policy => intervals[j] \in seen
      BY <1>1, <1>9, <2>1 DEF LoopInv, Scanned
    <3>2. CASE intervals[policy] = 0
      <4>1. policy' = Count + 1 /\ policy' \notin Loop!Index
        BY <1>1, <1>9, <2>1, <3>2
      <4> QED
        BY <1>6, <2>1, <3>2, <4>1 DEF Scanned, LoopInv
    <3>3. CASE intervals[policy] # 0
      <4>1. policy' = policy + 1
        BY <2>1, <3>3
      <4>2. \A j \in Loop!Index : j < policy' => intervals[j] \in seen'
        BY <1>9, <1>10, <2>1, <3>1, <4>1
      <4>3. Reached(policy)
        BY <2>1 DEF LoopInv, Scanned
      <4>4. Reached(policy')
        BY <1>9, <1>10, <3>3, <4>1, <4>3 DEF Reached
      <4> QED
        BY <1>6, <2>1, <4>2, <4>4 DEF Scanned, LoopInv, Reached
    <3> QED
      BY <3>2, <3>3
  <2>6. ASSUME NEW i \in Loop!Index
        PROVE  since'[i] = Loop!Over \/ waited[i] <= since'[i] + D
    <3>1. CASE since'[i] = since[i]
      BY <3>1 DEF LoopInv, SinceFollows
    <3>2. CASE since'[i] # since[i]
      <4>1. i = policy /\ since'[i] = 0
        BY <1>4, <1>13, <2>3, <3>2 DEF Loop!Analyzed
      <4>2. Reached(policy)
        BY <2>1 DEF LoopInv, Scanned
      <4> QED
        BY <1>1, <1>11, <2>1, <4>1, <4>2 DEF LoopInv, InTurn
    <3> QED
      BY <3>1, <3>2
  <2>7. ASSUME NEW i \in Loop!Index, Reached(i)
        PROVE  /\ policy' <= i => waited[i] <= intervals[i] + Penalty(raises) + Smallest
                                               + Cost(N - i + policy')
               /\ policy' > i => waited[i] <= intervals[i] + Penalty(raises)
                                               + Cost(policy' - i)
    <3>1. CASE policy < i
      <4>1. waited[i] <= intervals[i] + Penalty(raises) + Smallest + Cost(N - i + policy + 1)
        BY <1>9, <1>10, <1>11, <2>1, <2>7, <3>1 DEF InTurn, LoopInv
      <4>2. policy' = policy + 1
        BY <2>1, <2>7, <3>1 DEF Reached
      <4> QED
        BY <1>1, <1>9, <1>10, <3>1, <4>1, <4>2
    <3>2. CASE policy = i
      <4>1. waited[i] <= D
        BY <1>9, <1>10, <1>11, <2>1, <2>7, <3>2 DEF InTurn, LoopInv
      <4>2. policy' - i \in Nat /\ 1 <= policy' - i
        BY <1>9, <2>2, <3>2
      <4>3. D <= Cost(policy' - i)
        BY <1>2, <1>8, <4>2
      <4>4. Cost(policy' - i) \in Nat /\ ~(policy' <= i)
        BY <1>2, <1>9, <2>2, <3>2, <4>2
      <4> QED
        BY <1>1, <1>3, <1>5, <1>10, <1>11, <2>7, <4>1, <4>3, <4>4
    <3>3. CASE policy > i
      <4>1. waited[i] <= intervals[i] + Penalty(raises) + Cost(policy - i + 1)
        BY <1>9, <1>10, <1>11, <2>1, <2>7, <3>3 DEF InTurn, LoopInv
      <4>2. /\ policy - i + 1 \in Nat /\ policy' - i \in Nat /\ policy' > i
            /\ policy - i + 1 <= policy' - i
        BY <1>9, <1>10, <2>2, <3>3
      <4>3. Cost(policy - i + 1) <= Cost(policy' - i)
        BY <1>2, <4>2
      <4>4. Cost(policy' - i) \in Nat /\ Cost(policy - i + 1) \in Nat /\ ~(policy' <= i)
        BY <1>2, <1>9, <2>2, <4>2
      <4> QED
        BY <1>3, <1>5, <1>10, <1>11, <2>7, <4>1, <4>3, <4>4
    <3> QED
      BY <1>9, <1>10, <3>1, <3>2, <3>3
  <2>8. SinceFollows'
    BY <2>1, <2>6 DEF SinceFollows
  <2>9. InTurn'
    BY <1>6, <1>7, <2>1, <2>7 DEF InTurn
  <2> QED
    BY <2>4, <2>5, <2>8, <2>9 DEF LoopInv
<1>14. CASE Loop!Sleep
  <2>1. /\ turn = "scan" /\ policy = N + 1 /\ turn' = "sleep" /\ policy' = 1
        /\ analyze_period' = Smallest /\ left' = Smallest /\ seen' = {}
        /\ UNCHANGED <<intervals, since, waited, raises>>
    BY <1>14, SleepsSmallest DEF Loop!Sleep
  <2>2. Smallest \in 0..R
    BY <1>1, <1>2, <1>5
  <2>3. Loop!TypeOK'
    BY <1>1, <1>4, <1>5, <2>1, <2>2 DEF Loop!TypeOK
  <2>4. Scanned'
    BY <1>9, <2>1 DEF Scanned, Reached
  <2>5. SinceFollows'
    BY <2>1 DEF LoopInv, SinceFollows
  <2>6. ASSUME NEW i \in Loop!Index, Reached(i)
        PROVE  waited[i] + Smallest <= intervals[i] + Penalty(raises) + Smallest + Cost(N + 1 - i)
    <3>0. N + 1 - i \in Nat /\ N + 1 > i
      BY <1>1, <1>9, <2>6
    <3>1. waited[i] <= intervals[i] + Penalty(raises) + Cost(N + 1 - i)
      <4>1. waited[i] <= intervals[i] + Penalty(raises) + Cost(policy - i)
        BY <1>9, <1>10, <2>1, <2>6, <3>0 DEF InTurn, LoopInv
      <4>2. policy - i = N + 1 - i
        BY <1>1, <1>9, <1>10, <2>1, <2>6
      <4> QED
        BY <4>1, <4>2
    <3>2. Cost(N + 1 - i) \in Nat
      BY <1>2, <3>0
    <3> QED
      BY <1>3, <1>5, <1>10, <1>11, <2>1, <2>6, <3>1, <3>2
  <2>7. InTurn'
    BY <1>6, <1>7, <2>1, <2>6 DEF InTurn
  <2> QED
    BY <2>3, <2>4, <2>5, <2>7 DEF LoopInv
<1>15. CASE Loop!Raise
  <2>1. /\ turn \in {"analyze", "scan"} /\ left = 0 /\ policy \in Loop!Index
        /\ raises < MaxRaises /\ raises' = raises + 1
        /\ turn' = "sleep" /\ policy' = 1 /\ left' = analyze_period
        /\ UNCHANGED <<intervals, seen, analyze_period, since, waited>>
    BY <1>15 DEF Loop!Raise, LoopInv, Scanned
  <2>2. /\ analyze_period \in Nat /\ analyze_period + Cost(N) <= R
        /\ Cost(N) \in Nat
    BY <1>1, <1>2, <1>4
  <2>3. Loop!TypeOK'
    BY <1>1, <1>4, <1>10, <2>1, <2>2 DEF Loop!TypeOK
  <2>4. Scanned'
    BY <1>9, <2>1 DEF LoopInv, Scanned, Reached
  <2>5. SinceFollows'
    BY <2>1 DEF LoopInv, SinceFollows
  <2>6. ASSUME NEW i \in Loop!Index, Reached(i)
        PROVE  waited[i] + analyze_period <= intervals[i] + Penalty(raises + 1) + Smallest
                                             + Cost(N + 1 - i)
    <3>1. Penalty(raises + 1) = Penalty(raises) + R /\ Penalty(raises) \in Nat
      BY <1>3, <1>10
    <3>2. Cost(N + 1 - i) \in Nat
      <4>1. N + 1 - i \in Nat
        BY <1>1, <1>9, <2>6
      <4> QED
        BY <1>2, <4>1
    <3>3. waited[i] <= intervals[i] + Penalty(raises) + Smallest + Cost(N + 1 - i) + Cost(N)
      <4>1. CASE turn = "scan" /\ policy <= i
        <5>1. waited[i] <= intervals[i] + Penalty(raises) + Smallest + Cost(N - i + policy)
          BY <2>6, <4>1 DEF InTurn, LoopInv
        <5>2. Cost(N - i + policy) <= Cost(N) /\ Cost(N - i + policy) \in Nat
          <6>1. N - i + policy \in Nat /\ N - i + policy <= N
            BY <1>1, <1>9, <1>10, <2>6, <4>1
          <6> QED
            BY <1>1, <1>2, <6>1
        <5> QED
          BY <1>5, <1>11, <2>2, <2>6, <3>1, <3>2, <5>1, <5>2
      <4>2. CASE turn = "scan" /\ policy > i
        <5>1. waited[i] <= intervals[i] + Penalty(raises) + Cost(policy - i)
          BY <2>6, <4>2 DEF InTurn, LoopInv
        <5>2. Cost(policy - i) <= Cost(N) /\ Cost(policy - i) \in Nat
          <6>1. policy - i \in Nat /\ policy - i <= N
            BY <1>1, <1>9, <1>10, <2>6, <4>2
          <6> QED
            BY <1>1, <1>2, <6>1
        <5> QED
          BY <1>5, <1>11, <2>2, <2>6, <3>1, <3>2, <5>1, <5>2
      <4>3. CASE turn = "analyze" /\ policy < i
        <5>1. waited[i] <= intervals[i] + Penalty(raises) + Smallest + Cost(N - i + policy + 1)
          BY <1>11, <2>1, <2>6, <4>3 DEF InTurn, LoopInv
        <5>2. Cost(N - i + policy + 1) <= Cost(N) /\ Cost(N - i + policy + 1) \in Nat
          <6>1. N - i + policy + 1 \in Nat /\ N - i + policy + 1 <= N
            BY <1>1, <1>9, <1>10, <2>6, <4>3
          <6> QED
            BY <1>1, <1>2, <6>1
        <5> QED
          BY <1>5, <1>11, <2>2, <2>6, <3>1, <3>2, <5>1, <5>2
      <4>4. CASE turn = "analyze" /\ policy = i
        <5>1. waited[i] <= D
          BY <1>11, <2>1, <2>6, <4>4 DEF InTurn, LoopInv
        <5> QED
          BY <1>1, <1>5, <1>8, <1>11, <2>2, <2>6, <3>1, <3>2, <5>1
      <4>5. CASE turn = "analyze" /\ policy > i
        <5>1. waited[i] <= intervals[i] + Penalty(raises) + Cost(policy - i + 1)
          BY <1>11, <2>1, <2>6, <4>5 DEF InTurn, LoopInv
        <5>2. policy \in Nat /\ policy <= N
          BY <1>9, <2>1
        <5>3. Cost(policy - i + 1) <= Cost(N) /\ Cost(policy - i + 1) \in Nat
          <6>1. policy - i + 1 \in Nat /\ policy - i + 1 <= N
            BY <1>1, <1>9, <2>6, <4>5, <5>2
          <6> QED
            BY <1>1, <1>2, <6>1
        <5> QED
          BY <1>5, <1>11, <2>2, <2>6, <3>1, <3>2, <5>1, <5>3
      <4> QED
        BY <1>9, <1>10, <2>1, <2>6, <4>1, <4>2, <4>3, <4>4, <4>5
    <3> QED
      BY <1>1, <1>5, <1>11, <2>2, <2>6, <3>1, <3>2, <3>3
  <2>7. InTurn'
    BY <1>6, <1>7, <2>1, <2>6 DEF InTurn
  <2> QED
    BY <2>3, <2>4, <2>5, <2>7 DEF LoopInv
<1>16. CASE Loop!WakeUp
  <2>1. /\ turn = "sleep" /\ left = 0 /\ turn' = "scan" /\ policy = 1
        /\ UNCHANGED <<intervals, policy, seen, analyze_period, left, since, waited, raises>>
    BY <1>16 DEF Loop!WakeUp, LoopInv, Scanned
  <2>2. Loop!TypeOK' /\ Scanned' /\ SinceFollows'
    BY <2>1 DEF LoopInv, Loop!TypeOK, Scanned, SinceFollows, Reached
  <2>3. ASSUME NEW i \in Loop!Index, Reached(i)
        PROVE  waited[i] <= intervals[i] + Penalty(raises) + Smallest + Cost(N - i + 1)
    <3>1. waited[i] + left <= intervals[i] + Penalty(raises) + Smallest + Cost(N + 1 - i)
      BY <2>1, <2>3 DEF LoopInv, InTurn
    <3>2. N + 1 - i = N - i + 1
      BY <1>1, <1>9, <2>3
    <3> QED
      BY <1>9, <1>11, <2>1, <2>3, <3>1, <3>2
  <2>4. \A i \in Loop!Index : ~(1 > i)
    BY <1>9
  <2>5. InTurn'
    BY <1>6, <1>7, <2>1, <2>3, <2>4 DEF InTurn
  <2> QED
    BY <2>2, <2>5 DEF LoopInv
<1>17. CASE Loop!Tick
  <2>1. /\ left > 0 /\ left' = left - 1 /\ turn \in {"analyze", "sleep"}
        /\ UNCHANGED <<intervals, turn, policy, seen, analyze_period, raises>>
    BY <1>4, <1>17, <1>10 DEF Loop!Tick, LoopInv, Scanned
  <2>2. ASSUME NEW clock \in [Loop!Index -> Nat], NEW bound \in Nat
        PROVE  /\ Loop!Later(clock, bound) \in [Loop!Index -> 0..bound]
               /\ \A i \in Loop!Index :
                    \/ Loop!Later(clock, bound)[i] = clock[i] + 1
                    \/ Loop!Later(clock, bound)[i] = bound /\ bound <= clock[i] + 1
    <3>1. ASSUME NEW i \in Loop!Index
          PROVE  /\ Loop!Min({clock[i] + 1, bound}) \in {clock[i] + 1, bound}
                 /\ Loop!Min({clock[i] + 1, bound}) <= clock[i] + 1
                 /\ Loop!Min({clock[i] + 1, bound}) <= bound
      <4>1. {clock[i] + 1, bound} \subseteq Nat
        OBVIOUS
      <4> QED
        BY <4>1, MinOf
    <3> QED
      BY <3>1 DEF Loop!Later
  <2>3. /\ since' \in [Loop!Index -> 0..Loop!Over] /\ waited' \in [Loop!Index -> 0..Loop!Long]
        /\ \A i \in Loop!Index : since'[i] = since[i] + 1 \/ since'[i] = Loop!Over
        /\ \A i \in Loop!Index : waited'[i] \in Nat /\ waited'[i] <= waited[i] + 1
    <3>1. since \in [Loop!Index -> Nat] /\ waited \in [Loop!Index -> Nat]
      BY <1>1, <1>4
    <3>2. since' = Loop!Later(since, Loop!Over) /\ waited' = Loop!Later(waited, Loop!Long)
      BY <1>17 DEF Loop!Tick
    <3>3. /\ since' \in [Loop!Index -> 0..Loop!Over]
          /\ \A i \in Loop!Index : since'[i] = since[i] + 1 \/ since'[i] = Loop!Over
      BY <1>1, <2>2, <3>1, <3>2
    <3>4. /\ waited' \in [Loop!Index -> 0..Loop!Long]
          /\ \A i \in Loop!Index : \/ waited'[i] = waited[i] + 1
                                   \/ waited'[i] = Loop!Long /\ Loop!Long <= waited[i] + 1
      BY <1>1, <2>2, <3>1, <3>2
    <3>5. \A i \in Loop!Index : waited'[i] \in Nat /\ waited'[i] <= waited[i] + 1
      BY <1>1, <1>11, <3>4
    <3> QED
      BY <3>3, <3>4, <3>5
  <2>4. left' \in Nat /\ left' <= left /\ left' \in 0..R /\ left' + 1 = left
    BY <1>1, <1>4, <2>1
  <2>5. Loop!TypeOK'
    BY <1>4, <2>1, <2>3, <2>4 DEF Loop!TypeOK
  <2>6. Scanned'
    BY <1>1, <1>10, <2>1, <2>4 DEF LoopInv, Scanned, Reached
  <2>7. SinceFollows'
    BY <1>1, <1>11, <2>3 DEF LoopInv, SinceFollows
  <2>8. \A i \in Loop!Index : waited'[i] + left' <= waited[i] + left
    BY <1>11, <2>3, <2>4
  <2>9. ASSUME NEW i \in Loop!Index, NEW bound, waited[i] + left <= bound, bound \in Nat
        PROVE  waited'[i] + left' <= bound
    BY <1>10, <1>11, <2>3, <2>4, <2>8, <2>9
  <2>10. ASSUME NEW i \in Loop!Index
         PROVE  /\ intervals[i] + Penalty(raises) + Smallest + Cost(Count + 1 - i) \in Nat
                /\ intervals[i] + Penalty(raises) + Smallest + Cost(Count - i + policy + 1) \in Nat
                /\ policy > i => intervals[i] + Penalty(raises) + Cost(policy - i + 1) \in Nat
    <3>1. /\ Count + 1 - i \in Nat /\ Count - i + policy + 1 \in Nat
          /\ policy > i => policy - i + 1 \in Nat
      BY <1>1, <1>9, <1>10, <2>10
    <3>2. /\ Cost(Count + 1 - i) \in Nat /\ Cost(Count - i + policy + 1) \in Nat
          /\ policy > i => Cost(policy - i + 1) \in Nat
      BY <1>2, <3>1
    <3> QED
      BY <1>3, <1>5, <1>10, <2>10, <3>2
  <2>11. InTurn'
    BY <1>1, <1>6, <1>7, <2>1, <2>9, <2>10 DEF LoopInv, InTurn
  <2> QED
    BY <2>5, <2>6, <2>7, <2>11 DEF LoopInv
<1> QED
  BY <1>12, <1>13, <1>14, <1>15, <1>16, <1>17 DEF Loop!Next

LEMMA LoopInvIsEnough ==
  ASSUME Loop!ConstantAssumption, LoopInv
  PROVE  Loop!AnalyzedInTime
<1>1. /\ Count \in Nat \ {0} /\ MaxDuration \in Nat /\ Loop!Round \in Nat
      /\ \A k \in Nat : Cost(k) \in Nat /\ Penalty(k) \in Nat
      /\ \A j, k \in Nat : j <= k => Cost(j) <= Cost(k)
  BY LoopBounds
<1>2. /\ turn \in {"scan", "analyze", "sleep"} /\ policy \in 1..(Count + 1) /\ left \in Nat
      /\ raises \in Nat /\ waited \in [Loop!Index -> 0..Loop!Long] /\ Loop!Long \in Nat
  BY LoopBounds DEF LoopInv, Loop!TypeOK
<1>3. Smallest \in Nat /\ \A j \in Loop!Index : intervals[j] \in Nat
  BY SmallestInterval DEF LoopInv
<1>4. ASSUME NEW i \in Loop!Index, Reached(i)
      PROVE  waited[i] <= intervals[i] + Smallest + Cost(Count) + Penalty(raises)
  <2>1. i \in Nat /\ 1 <= i /\ i <= Count /\ waited[i] \in Nat /\ Penalty(raises) \in Nat
        /\ Cost(Count) \in Nat /\ MaxDuration <= Cost(Count)
    <3>1. MaxDuration = Cost(1)
      BY <1>1 DEF Cost
    <3>2. i \in Nat /\ 1 <= i /\ i <= Count
      BY <1>1 DEF Loop!Index
    <3>3. Cost(1) <= Cost(Count) /\ Cost(Count) \in Nat
      BY <1>1
    <3> QED
      BY <1>1, <1>2, <3>1, <3>2, <3>3
  <2>2. ASSUME NEW k \in Nat, k <= Count,
               \/ waited[i] <= intervals[i] + Penalty(raises) + Smallest + Cost(k)
               \/ waited[i] <= intervals[i] + Penalty(raises) + Cost(k)
        PROVE  waited[i] <= intervals[i] + Smallest + Cost(Count) + Penalty(raises)
    <3>1. Cost(k) \in Nat /\ Cost(k) <= Cost(Count)
      BY <1>1, <2>2
    <3> QED
      BY <1>3, <2>1, <2>2, <3>1
  <2>3. CASE turn = "scan" /\ policy <= i
    <3>1. waited[i] <= intervals[i] + Penalty(raises) + Smallest + Cost(Count - i + policy)
      BY <1>4, <2>3 DEF LoopInv, InTurn
    <3>2. Count - i + policy \in Nat /\ Count - i + policy <= Count
      BY <1>1, <1>2, <2>1, <2>3
    <3> QED
      BY <2>2, <3>1, <3>2
  <2>4. CASE turn = "scan" /\ policy > i
    <3>1. waited[i] <= intervals[i] + Penalty(raises) + Cost(policy - i)
      BY <1>4, <2>4 DEF LoopInv, InTurn
    <3>2. policy - i \in Nat /\ policy - i <= Count
      BY <1>1, <1>2, <2>1, <2>4
    <3> QED
      BY <2>2, <3>1, <3>2
  <2>5. CASE turn = "analyze" /\ policy < i
    <3>1. waited[i] + left <= intervals[i] + Penalty(raises) + Smallest
                              + Cost(Count - i + policy + 1)
      BY <1>4, <2>5 DEF LoopInv, InTurn
    <3>2. Count - i + policy + 1 \in Nat /\ Count - i + policy + 1 <= Count
      BY <1>1, <1>2, <2>1, <2>5
    <3>3. waited[i] <= intervals[i] + Penalty(raises) + Smallest + Cost(Count - i + policy + 1)
      BY <1>1, <1>2, <1>3, <2>1, <3>1, <3>2, SMTT(30)
    <3> QED
      BY <2>2, <3>2, <3>3
  <2>6. CASE turn = "analyze" /\ policy = i
    <3>1. waited[i] + left <= MaxDuration
      BY <1>4, <2>6 DEF LoopInv, InTurn
    <3> QED
      BY <1>1, <1>2, <1>3, <2>1, <3>1, SMTT(30)
  <2>7. CASE turn = "analyze" /\ policy > i
    <3>1. waited[i] + left <= intervals[i] + Penalty(raises) + Cost(policy - i + 1)
      BY <1>4, <2>7 DEF LoopInv, InTurn
    <3>2. policy <= Count
      BY <1>2, <2>7 DEF LoopInv, Scanned, Loop!Index
    <3>3. policy - i + 1 \in Nat /\ policy - i + 1 <= Count
      BY <1>1, <1>2, <2>1, <2>7, <3>2
    <3>4. waited[i] <= intervals[i] + Penalty(raises) + Cost(policy - i + 1)
      BY <1>1, <1>2, <1>3, <2>1, <3>1, <3>3, SMTT(30)
    <3> QED
      BY <2>2, <3>3, <3>4
  <2>8. CASE turn = "sleep"
    <3>1. waited[i] + left <= intervals[i] + Penalty(raises) + Smallest + Cost(Count + 1 - i)
      BY <1>4, <2>8 DEF LoopInv, InTurn
    <3>2. Count + 1 - i \in Nat /\ Count + 1 - i <= Count
      BY <1>1, <2>1
    <3>3. waited[i] <= intervals[i] + Penalty(raises) + Smallest + Cost(Count + 1 - i)
      BY <1>1, <1>2, <1>3, <2>1, <3>1, <3>2, SMTT(30)
    <3> QED
      BY <2>2, <3>2, <3>3
  <2> QED
    BY <1>2, <2>1, <2>3, <2>4, <2>5, <2>6, <2>7, <2>8
<1> QED
  BY <1>4 DEF Loop!AnalyzedInTime, Reached, Smallest, Cost, Penalty

\* Every policy that no policy with the interval 0 precedes is called within its interval,
\* one sleep for the shortest interval and one analysis of each, and a whole sleep for
\* every exception, however many policies there are and however long they take.
THEOREM LoopInTime ==
  ASSUME Loop!ConstantAssumption
  PROVE  Loop!Init /\ [][Loop!Next]_loopVars => [](Loop!TypeOK /\ Loop!AnalyzedInTime)
<1>1. LoopInv /\ [Loop!Next]_loopVars => LoopInv'
  <2>1. ASSUME LoopInv, UNCHANGED loopVars PROVE LoopInv'
    BY <2>1
    DEF loopVars, LoopInv, Loop!TypeOK, Scanned, SinceFollows, InTurn, Reached, Smallest
  <2> QED
    BY <2>1, LoopInvNext
<1>2. LoopInv => Loop!TypeOK /\ Loop!AnalyzedInTime
  BY LoopInvIsEnough DEF LoopInv
<1> QED
  BY <1>1, <1>2, LoopInvInit, PTL

-----------------------------------------------------------------------------
(* The table of nodes: two instances of a module are the same, as their constants and
   variables are. *)

\* What is proved of the module of the table of nodes is proved of its instance.
LEMMA SameRegistry ==
  /\ [RegistryP!Next]_RegistryP!registryVars <=> [Registry!Next]_registryVars
  /\ RegistryP!Init <=> Registry!Init
  /\ RegistryP!TypeOK <=> Registry!TypeOK
  /\ RegistryP!TableIsCurrent <=> Registry!TableIsCurrent
<1>1. \A h : RegistryP!ChangeNode(h) <=> Registry!ChangeNode(h)
  BY DEF Registry!ChangeNode, RegistryP!ChangeNode, Registry!Present, RegistryP!Present,
     Registry!Commit, RegistryP!Commit, Registry!LastChange, RegistryP!LastChange,
     Registry!LayersOf, RegistryP!LayersOf, Registry!revision, RegistryP!revision
<1>2. RegistryP!Compact <=> Registry!Compact
  BY DEF Registry!Compact, RegistryP!Compact, Registry!revision, RegistryP!revision,
     Registry!WatchFault, RegistryP!WatchFault
<1>3. RegistryP!OpenWatch <=> Registry!OpenWatch
  <2>1. \A h : RegistryP!LastChange(h) = Registry!LastChange(h)
    BY DEF RegistryP!LastChange, Registry!LastChange
  <2>2. RegistryP!Present = Registry!Present
    BY <2>1 DEF RegistryP!Present, Registry!Present
  <2>3. RegistryP!Cardinality(Registry!Present) = Registry!Cardinality(Registry!Present)
    BY DEF RegistryP!Cardinality, Registry!Cardinality
  <2>4. RegistryP!Orders = Registry!Orders
    BY <2>2, <2>3 DEF RegistryP!Orders, Registry!Orders, RegistryP!Bijection, Registry!Bijection,
       RegistryP!Injection, Registry!Injection, RegistryP!Surjection, Registry!Surjection,
       RegistryP!IsInjective, Registry!IsInjective
  <2> QED
    BY <2>1, <2>4 DEF RegistryP!OpenWatch, Registry!OpenWatch, RegistryP!revision,
       Registry!revision
<1>4. RegistryP!Notify <=> Registry!Notify
  BY DEF Registry!Notify, RegistryP!Notify, Registry!Report, RegistryP!Report,
     Registry!revision, RegistryP!revision
<1>5. RegistryP!CloseWatch <=> Registry!CloseWatch
  BY DEF Registry!CloseWatch, RegistryP!CloseWatch, Registry!WatchFault, RegistryP!WatchFault,
     Registry!HostsIn, RegistryP!HostsIn
<1>6. RegistryP!WatchExpires <=> Registry!WatchExpires
  BY DEF Registry!WatchExpires, RegistryP!WatchExpires, Registry!revision, RegistryP!revision,
     Registry!HostsIn, RegistryP!HostsIn, Registry!WatchFault, RegistryP!WatchFault
<1>7. RegistryP!HandleNotice <=> Registry!HandleNotice
  BY DEF Registry!HandleNotice, RegistryP!HandleNotice, Registry!DeleteResource,
     RegistryP!DeleteResource, Registry!UpdateResource, RegistryP!UpdateResource
<1>8. [RegistryP!Next]_RegistryP!registryVars <=> [Registry!Next]_registryVars
  BY <1>1, <1>2, <1>3, <1>4, <1>5, <1>6, <1>7 DEF registryVars, Registry!Next, RegistryP!Next,
     Registry!registryVars, RegistryP!registryVars
<1>9. RegistryP!Init <=> Registry!Init
  BY DEF Registry!Init, RegistryP!Init, Registry!LayersOf, RegistryP!LayersOf, Registry!Listed,
     RegistryP!Listed, Registry!Present, RegistryP!Present, Registry!LastChange,
     RegistryP!LastChange
<1>10. RegistryP!TypeOK <=> Registry!TypeOK
  BY DEF Registry!TypeOK, RegistryP!TypeOK, Registry!Events, RegistryP!Events,
     Registry!revision, RegistryP!revision
<1>11. RegistryP!TableIsCurrent <=> Registry!TableIsCurrent
  BY DEF Registry!TableIsCurrent, RegistryP!TableIsCurrent, Registry!Settled, RegistryP!Settled,
     Registry!Listed, RegistryP!Listed, Registry!Moved, RegistryP!Moved, Registry!Present,
     RegistryP!Present, Registry!revision, RegistryP!revision, Registry!LastChange,
     RegistryP!LastChange
<1> QED
  BY <1>8, <1>9, <1>10, <1>11

-----------------------------------------------------------------------------
(* The composition. *)

\* A step of the composition is a step of each part, or leaves its variables alone.
LEMMA StepsOfParts ==
  [Next]_vars => /\ [Model!Next]_modelVars /\ [Scrape!Next]_intervalVars
                 /\ [Registry!Next]_registryVars /\ [Loop!Next]_loopVars
                 /\ [Install!Next]_installVars
BY DEF Next, vars, InModel, InScrape, InRegistry, InLoop, InInstall

LEMMA ModelPart ==
  Spec => [](/\ Model!TypeOK /\ Model!UnderDeploymentIsTended /\ Model!ResourceIsListed
             /\ Model!RowIsKnown)
<1>1. Model!Init /\ [][Model!Next]_modelVars =>
        [](Model!TypeOK /\ Model!UnderDeploymentIsTended /\ Model!ResourceIsListed /\ Model!RowIsKnown)
  BY ConstantAssumptions, ModelSafe
<1>2. Init => Model!Init
  BY DEF Init
<1> QED
  BY <1>1, <1>2, StepsOfParts, PTL DEF Spec

LEMMA ScrapePart ==
  Spec => [](Scrape!TypeOK /\ Scrape!RequestsAreServed /\ Scrape!NodesFollowCluster)
<1>1. Scrape!Init /\ [][Scrape!Next]_intervalVars =>
        [](Scrape!TypeOK /\ Scrape!RequestsAreServed /\ Scrape!NodesFollowCluster)
  BY ConstantAssumptions, ScrapeSafe
<1>2. Init => Scrape!Init
  BY DEF Init
<1> QED
  BY <1>1, <1>2, StepsOfParts, PTL DEF Spec

LEMMA RegistryPart == Spec => [](Registry!TypeOK /\ Registry!TableIsCurrent)
<1>1. RegistryP!ConstantAssumption
  BY ConstantAssumptions
  DEF RegistryP!ConstantAssumption, Registry!ConstantAssumption, RegistryP!IsFiniteSet,
      Registry!IsFiniteSet
<1>2. RegistryP!Init /\ [][RegistryP!Next]_RegistryP!registryVars =>
        [](RegistryP!TypeOK /\ RegistryP!TableIsCurrent)
  BY <1>1, RegistryP!RegistrySafe
<1>3. Init => Registry!Init
  BY DEF Init
<1> QED
  BY <1>2, <1>3, SameRegistry, StepsOfParts, PTL DEF Spec

LEMMA LoopPart == Spec => [](Loop!TypeOK /\ Loop!AnalyzedInTime)
<1>1. Loop!Init /\ [][Loop!Next]_loopVars => [](Loop!TypeOK /\ Loop!AnalyzedInTime)
  BY ConstantAssumptions, LoopInTime
<1>2. Init => Loop!Init
  BY DEF Init
<1> QED
  BY <1>1, <1>2, StepsOfParts, PTL DEF Spec

LEMMA InstallPart ==
  Spec => [](Install!TypeOK /\ Install!NoDescriptionIsLost /\ Install!PolicyChangesAreKept)
<1>1. Install!Init /\ [][Install!Next]_installVars =>
        [](Install!TypeOK /\ Install!NoDescriptionIsLost /\ Install!PolicyChangesAreKept)
  BY ConstantAssumptions, InstallSafe
<1>2. Init => Install!Init
  BY DEF Init
<1> QED
  BY <1>1, <1>2, StepsOfParts, PTL DEF Spec

\* Every variable of every part keeps its type.
THEOREM ServicesTypes == Spec => []TypeOK
BY ModelPart, ScrapePart, RegistryPart, LoopPart, InstallPart, PTL DEF TypeOK

\* A model under deployment always has a check behaviour or the consumer at work on it,
\* however the requests, the queue's commands and the pods interleave.
THEOREM DeploymentsAreTended == Spec => []UnderDeploymentIsTended
BY ModelPart, PTL DEF UnderDeploymentIsTended

\* A custom resource is never left behind by a model the API no longer lists.
THEOREM ResourcesAreListed == Spec => []ResourceIsListed
BY ModelPart, PTL DEF ResourceIsListed

\* A row of the connector's database is known to the API or its request has failed.
THEOREM RowsAreKnown == Spec => []RowIsKnown
BY ModelPart, PTL DEF RowIsKnown

\* The interval an agent applies is never longer than one that is asked of it.
THEOREM IntervalsAreServed == Spec => []RequestsAreServed
BY ScrapePart, PTL DEF RequestsAreServed

\* When no message is on its way, the collectors of the nodes follow the cluster agent,
\* whatever agents restarted and policies started or stopped in between.
THEOREM CollectorsFollow == Spec => []NodesFollowCluster
BY ScrapePart, PTL DEF NodesFollowCluster

\* When every notice is handled the controller's table is that of the API server.
THEOREM RegistryIsCurrent == Spec => []TableIsCurrent
BY RegistryPart, PTL DEF TableIsCurrent

\* Every policy that no policy with the interval 0 precedes is called within its interval,
\* one sleep and one round of analyses, and a whole sleep for every exception.
THEOREM PoliciesInTime == Spec => []AnalyzedInTime
BY LoopPart, PTL DEF AnalyzedInTime

\* Agents lack the description of their systems only if a command found none where it looked.
THEOREM DescriptionsAreNotLost == Spec => []NoDescriptionIsLost
BY InstallPart, PTL DEF NoDescriptionIsLost

\* No successful change of a policy is undone by another user's change.
THEOREM PolicyChangesKept == Spec => []PolicyChangesAreKept
BY InstallPart, PTL DEF PolicyChangesAreKept
=============================================================================
