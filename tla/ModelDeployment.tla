-------------------------- MODULE ModelDeployment --------------------------
(***************************************************************************)
(* The way of an ML model from the ML connector to a cluster and back: the *)
(* connector keeps a row per deployment and posts to the northbound API,   *)
(* which writes to Redis one command at a time; ML_process_Behaviour takes *)
(* the queue entries, creates or deletes a custom resource and leaves it   *)
(* to Check_ml_deployment_Behaviour to report the running pod.             *)
(*                                                                         *)
(* The handlers of the API and the Redis commands of the agent block their *)
(* processes, so the API serves one request at a time, and a behaviour     *)
(* yields to another of the agent only where it awaits the cluster.        *)
(***************************************************************************)
EXTENDS Naturals, Sequences, FiniteSets

CONSTANTS
  Models,        \* mlsysops-id of the deployments; all are of one trained model
  Direct,        \* those posted by a user, named "ml-app"; the connector's are "ml-app-1"
  MaxEvents,     \* bound on requests to the API, failing calls and restarts together
  MaxAnswers,    \* bound on the status requests to the connector at a time
  MaxModelFaults \* bound on failing calls and restarts alone

\* The agent's variables name no model with "none".
ConstantAssumption == Direct \subseteq Models /\ "none" \notin Models

VARIABLES
  rows,      \* connector: the status in the MLDeployment row, or "none"
  inserting, \* connector: deployments posted and not yet in the database
  uploads,   \* connector: deployments an uploaded file has yet to renew
  answers,   \* connector: statuses fetched and not yet stored
  api,       \* the request the northbound API is serving
  entries,   \* Redis: ml_deployment_queue
  endpoint,  \* Redis: endpoint_hash
  consumer,  \* agent: where ML_process_Behaviour is
  checks,    \* agent: check behaviours per model
  found,     \* agent: the model whose check has found a running pod, or "none"
  resources, \* Karmada: the custom resources
  running,   \* Karmada: the models with a running pod
  unposted,  \* history: models for which a request failed
  untended,  \* history: models whose check was lost
  posted, modelFaults \* what has been used of the bounds

connectorVars == <<rows, inserting, uploads, answers>>
redisVars == <<entries, endpoint>>
agentVars == <<consumer, checks, found>>
clusterVars == <<resources, running>>
modelVars == <<connectorVars, api, redisVars, agentVars, clusterVars,
               unposted, untended, posted, modelFaults>>

\* The statuses that are dictionaries; the others are not parsed by the connector.
Info == {"pending", "under_deployment", "deployed"}
Statuses == Info \union {"none", "Deployment_Failed", "To_be_removed"}

NoRequest == [op |-> "none", model |-> "none", step |-> "none", caller |-> "none"]
Waiting == [pc |-> "idle", model |-> "none", kind |-> "none"]

Init ==
  /\ rows = [m \in Models |-> "none"] /\ inserting = {} /\ uploads = {} /\ answers = {}
  /\ api = NoRequest
  /\ entries = << >> /\ endpoint = [m \in Models |-> "none"]
  /\ consumer = Waiting /\ checks = [m \in Models |-> 0] /\ found = "none"
  /\ resources = {} /\ running = {}
  /\ unposted = {} /\ untended = {} /\ posted = 0 /\ modelFaults = 0

Within == posted + modelFaults < MaxEvents
Fault == Within /\ modelFaults < MaxModelFaults /\ modelFaults' = modelFaults + 1

-----------------------------------------------------------------------------
(* The northbound API: deploy_ml pushes, then marks; remove marks, then pushes. *)

Request(op, m, step, caller) ==
  /\ api = NoRequest /\ Within /\ posted' = posted + 1
  /\ api' = [op |-> op, model |-> m, step |-> step, caller |-> caller]

UserDeploys(m) ==
  /\ m \in Direct /\ Request("deploy", m, "push", "user")
  /\ UNCHANGED <<connectorVars, redisVars, agentVars, clusterVars, unposted, untended, modelFaults>>

UserRemoves(m) ==
  /\ endpoint[m] # "none" /\ Request("remove", m, "mark", "user")
  /\ UNCHANGED <<connectorVars, redisVars, agentVars, clusterVars, unposted, untended, modelFaults>>

\* The answer unblocks the connector, whatever it is.
Responded(failed) ==
  /\ api' = NoRequest
  /\ inserting' = inserting \union (IF api.caller = "create" THEN {api.model} ELSE {})
  /\ unposted' = IF failed THEN unposted \union {api.model} ELSE unposted
  /\ UNCHANGED <<rows, uploads, answers>>

Push ==
  /\ api.step = "push"
  /\ entries' = Append(entries, [model |-> api.model, kind |-> api.op])
  /\ IF api.op = "deploy"
     THEN api' = [api EXCEPT !.step = "mark"] /\ UNCHANGED <<connectorVars, unposted>>
     ELSE Responded(FALSE)
  /\ UNCHANGED <<endpoint, agentVars, clusterVars, untended, posted, modelFaults>>

Mark ==
  /\ api.step = "mark"
  /\ endpoint' = [endpoint EXCEPT ![api.model] = IF api.op = "deploy" THEN "pending"
                                                 ELSE "To_be_removed"]
  /\ IF api.op = "remove"
     THEN api' = [api EXCEPT !.step = "push"] /\ UNCHANGED <<connectorVars, unposted>>
     ELSE Responded(FALSE)
  /\ UNCHANGED <<entries, agentVars, clusterVars, untended, posted, modelFaults>>

\* Redis or the network fails: what was written stays, and the caller gets an error.
RequestFails ==
  /\ api # NoRequest /\ Fault /\ Responded(TRUE)
  /\ UNCHANGED <<redisVars, agentVars, clusterVars, untended, posted>>

-----------------------------------------------------------------------------
(* The ML connector.  Its requests to the API block its event loop. *)

Unblocked == api.caller \notin {"create", "upload"}

\* Deviation: the row is stored before the deployment is posted.
CreateWithRow(m) ==
  /\ m \notin Direct /\ Unblocked /\ Request("deploy", m, "push", "upload")
  /\ rows' = [rows EXCEPT ![m] = IF @ = "none" THEN "waiting" ELSE @]
  /\ UNCHANGED <<inserting, uploads, answers, redisVars, agentVars, clusterVars, unposted,
                 untended, modelFaults>>

CreateDeployment(m) ==
  /\ m \notin Direct /\ Unblocked /\ Request("deploy", m, "push", "create")
  /\ UNCHANGED <<connectorVars, redisVars, agentVars, clusterVars, unposted, untended, modelFaults>>

\* A second deployment with the identifier of another violates the primary key.
InsertRow(m) ==
  /\ Unblocked /\ m \in inserting /\ inserting' = inserting \ {m}
  /\ rows' = [rows EXCEPT ![m] = IF @ = "none" THEN "waiting" ELSE @]
  /\ UNCHANGED <<uploads, answers, api, redisVars, agentVars, clusterVars, unposted,
                 untended, posted, modelFaults>>

DeleteRow(m) ==
  /\ Unblocked /\ rows[m] # "none"
  /\ rows' = [rows EXCEPT ![m] = "none"]
  /\ UNCHANGED <<inserting, uploads, answers, api, redisVars, agentVars, clusterVars,
                 unposted, untended, posted, modelFaults>>

\* Deviation: the statuses that are plain words are stored too.
FetchAnyStatus(m) ==
  /\ api = NoRequest /\ rows[m] # "none" /\ endpoint[m] # "none"
  /\ Cardinality(answers) < MaxAnswers
  /\ answers' = answers \union {[model |-> m, status |-> endpoint[m]]}
  /\ UNCHANGED <<rows, inserting, uploads, api, redisVars, agentVars, clusterVars,
                 unposted, untended, posted, modelFaults>>

FetchStatus(m) ==
  /\ api = NoRequest /\ rows[m] # "none" /\ endpoint[m] \in Info
  /\ Cardinality(answers) < MaxAnswers
  /\ answers' = answers \union {[model |-> m, status |-> endpoint[m]]}
  /\ UNCHANGED <<rows, inserting, uploads, api, redisVars, agentVars, clusterVars,
                 unposted, untended, posted, modelFaults>>

StoreStatus(a) ==
  /\ Unblocked /\ answers' = answers \ {a}
  /\ rows' = [rows EXCEPT ![a.model] = IF @ = "none" THEN @ ELSE a.status]
  /\ UNCHANGED <<inserting, uploads, api, redisVars, agentVars, clusterVars, unposted,
                 untended, posted, modelFaults>>

\* A new file for the model renews the deployments that are not deployed, one by one.
UploadModel ==
  /\ Unblocked /\ uploads = {} /\ Within
  /\ uploads' = {m \in Models : rows[m] \notin {"none", "deployed"}}
  /\ UNCHANGED <<rows, inserting, answers, api, redisVars, agentVars, clusterVars,
                 unposted, untended, posted, modelFaults>>

RenewDeployment(m) ==
  /\ Unblocked /\ m \in uploads /\ Request("deploy", m, "push", "upload")
  /\ uploads' = uploads \ {m}
  /\ UNCHANGED <<rows, inserting, answers, redisVars, agentVars, clusterVars, unposted,
                 untended, modelFaults>>

-----------------------------------------------------------------------------
(* ML_process_Behaviour.  An exception it does not catch ends it for good. *)

At(pc) == consumer.pc = pc /\ found = "none"
Go(pc) == consumer' = [consumer EXCEPT !.pc = pc]
Write(m, s) == endpoint' = [endpoint EXCEPT ![m] = s]

TakeEntry ==
  /\ At("idle") /\ entries # << >>
  /\ entries' = Tail(entries)
  /\ consumer' = [pc |-> "decide", model |-> Head(entries).model, kind |-> Head(entries).kind]
  /\ UNCHANGED <<connectorVars, api, endpoint, checks, found, clusterVars, unposted,
                 untended, posted, modelFaults>>

Decide ==
  /\ At("decide")
  /\ Go(IF endpoint[consumer.model] = "To_be_removed" THEN "delete" ELSE "start")
  /\ UNCHANGED <<connectorVars, api, redisVars, checks, found, clusterVars, unposted,
                 untended, posted, modelFaults>>

\* Deviation: the entry of the hash goes although no resource was found.
DeleteAndForget ==
  /\ At("delete") /\ consumer' = Waiting
  /\ resources' = resources \ (IF consumer.model \in Direct THEN {consumer.model} ELSE {})
  /\ Write(consumer.model, "none")
  /\ UNCHANGED <<connectorVars, api, entries, checks, found, running, unposted,
                 untended, posted, modelFaults>>

\* Deviation: the removal waits until there is a resource to delete.
DeleteExisting ==
  /\ At("delete")
  /\ \/ /\ consumer.model \in Direct \intersect resources
        /\ resources' = resources \ {consumer.model} /\ Go("ended")
        /\ UNCHANGED modelFaults
     \/ Fault /\ Go("ended") /\ UNCHANGED resources
  /\ UNCHANGED <<connectorVars, api, redisVars, checks, found, running, unposted,
                 untended, posted>>

\* The resource is looked for as "ml-app-<id>".  After it is deleted, the message to the
\* agent is built from an undefined name, which is not an ApiException.
DeleteResource ==
  /\ At("delete")
  /\ \/ /\ consumer.model \in Direct \intersect resources
        /\ resources' = resources \ {consumer.model} /\ Go("ended")
        /\ UNCHANGED modelFaults
     \/ /\ consumer.model \notin Direct \intersect resources \* 404
        /\ consumer' = Waiting /\ UNCHANGED <<resources, modelFaults>>
     \/ Fault /\ Go("ended") /\ UNCHANGED resources
  /\ UNCHANGED <<connectorVars, api, redisVars, checks, found, running, unposted,
                 untended, posted>>

Start ==
  /\ At("start") /\ Go("create") /\ Write(consumer.model, "under_deployment")
  /\ UNCHANGED <<connectorVars, api, entries, checks, found, clusterVars, unposted,
                 untended, posted, modelFaults>>

\* Created as "<name>-<id>", and looked up as "<id>", which is never found: a second
\* deployment is refused with 409, as is the nameless resource of a removal with 422.
\* An error of the lookup is only logged.
CreateResource ==
  /\ At("create")
  /\ \/ /\ consumer.kind = "deploy" /\ consumer.model \notin resources
        /\ resources' = resources \union {consumer.model}
        /\ checks' = [checks EXCEPT ![consumer.model] = @ + 1]
        /\ consumer' = Waiting /\ UNCHANGED modelFaults
     \/ /\ consumer.kind = "remove" \/ consumer.model \in resources
        /\ Go("fail") /\ UNCHANGED <<resources, checks, modelFaults>>
     \/ Fault /\ Go("fail") /\ UNCHANGED <<resources, checks>>
     \/ /\ consumer.kind = "deploy" /\ Fault
        /\ checks' = [checks EXCEPT ![consumer.model] = @ + 1]
        /\ consumer' = Waiting /\ UNCHANGED resources
  /\ UNCHANGED <<connectorVars, api, redisVars, found, running, unposted, untended, posted>>

DeploymentFails ==
  /\ At("fail") /\ consumer' = Waiting /\ Write(consumer.model, "Deployment_Failed")
  /\ UNCHANGED <<connectorVars, api, entries, checks, found, clusterVars, unposted,
                 untended, posted, modelFaults>>

-----------------------------------------------------------------------------
(* Check_ml_deployment_Behaviour, which runs while the consumer awaits. *)

Yielded == consumer.pc \in {"idle", "delete", "create", "ended"} /\ found = "none"

\* Deviation: a check that finds no pod gives up.
FindPodOnce(m) ==
  /\ Yielded /\ checks[m] > 0
  /\ IF m \in running THEN found' = m /\ UNCHANGED checks
     ELSE checks' = [checks EXCEPT ![m] = @ - 1] /\ UNCHANGED found
  /\ UNCHANGED <<connectorVars, api, redisVars, consumer, clusterVars, unposted,
                 untended, posted, modelFaults>>

\* Without the kubeconfig, or at a pod without the label it reads, the check ends.
FindPod(m) ==
  /\ Yielded /\ checks[m] > 0
  /\ \/ m \in running /\ found' = m /\ UNCHANGED <<checks, untended, modelFaults>>
     \/ /\ Fault /\ checks' = [checks EXCEPT ![m] = @ - 1]
        /\ untended' = untended \union {m} /\ UNCHANGED found
  /\ UNCHANGED <<connectorVars, api, redisVars, consumer, clusterVars, unposted, posted>>

\* Without the service of the component the check ends and the status stays.
StoreEndpoint ==
  /\ found # "none" /\ found' = "none"
  /\ checks' = [checks EXCEPT ![found] = @ - 1]
  /\ \/ Write(found, "deployed") /\ UNCHANGED <<untended, modelFaults>>
     \/ Fault /\ untended' = untended \union {found} /\ UNCHANGED endpoint
  /\ UNCHANGED <<connectorVars, api, entries, consumer, clusterVars, unposted, posted>>

RestartAgent ==
  /\ Fault
  /\ consumer' = Waiting /\ checks' = [m \in Models |-> 0] /\ found' = "none"
  /\ untended' = Models
  /\ UNCHANGED <<connectorVars, api, redisVars, clusterVars, unposted, posted>>

-----------------------------------------------------------------------------
(* Karmada starts and stops pods in its own time. *)

PodStarts(m) ==
  /\ m \in resources /\ m \notin running /\ running' = running \union {m}
  /\ UNCHANGED <<connectorVars, api, redisVars, agentVars, resources, unposted, untended,
                 posted, modelFaults>>

PodStops(m) ==
  /\ m \in running \ resources /\ running' = running \ {m}
  /\ UNCHANGED <<connectorVars, api, redisVars, agentVars, resources, unposted, untended,
                 posted, modelFaults>>

-----------------------------------------------------------------------------
Api == Push \/ Mark
Consumer == TakeEntry \/ Decide \/ DeleteResource \/ Start \/ CreateResource \/ DeploymentFails

Connector ==
  \/ \E m \in Models : CreateDeployment(m) \/ InsertRow(m) \/ DeleteRow(m)
                       \/ FetchStatus(m) \/ RenewDeployment(m)
  \/ \E a \in answers : StoreStatus(a)
  \/ UploadModel

Next ==
  \/ \E m \in Models : UserDeploys(m) \/ UserRemoves(m)
  \/ Api \/ RequestFails \/ Connector \/ Consumer
  \/ \E m \in Models : FindPod(m) \/ PodStarts(m) \/ PodStops(m)
  \/ StoreEndpoint \/ RestartAgent

-----------------------------------------------------------------------------
(* Invariants. *)

TypeOK ==
  /\ rows \in [Models -> Info \union {"none", "waiting"}]
  /\ inserting \subseteq Models /\ uploads \subseteq Models
  /\ answers \subseteq [model : Models, status : Info]
  /\ api = NoRequest \/ api \in [op : {"deploy", "remove"}, model : Models,
                                 step : {"push", "mark"}, caller : {"user", "create", "upload"}]
  /\ entries \in Seq([model : Models, kind : {"deploy", "remove"}])
  /\ endpoint \in [Models -> Statuses]
  /\ consumer = Waiting \/
     consumer \in [pc : {"decide", "delete", "start", "create", "fail", "ended"},
                   model : Models, kind : {"deploy", "remove"}]
  /\ checks \in [Models -> Nat] /\ found \in Models \union {"none"}
  /\ resources \subseteq Models /\ running \subseteq Models
  /\ unposted \subseteq Models /\ untended \subseteq Models
  /\ posted \in Nat /\ modelFaults \in Nat

\* No status stays under_deployment without somebody who will change it: the consumer
\* at work on the model or a check waiting for its pod, whatever requests came in between.
UnderDeploymentIsTended ==
  \A m \in Models :
    endpoint[m] = "under_deployment" =>
      \/ checks[m] > 0
      \/ consumer.pc \in {"create", "fail"} /\ consumer.model = m
      \/ m \in untended

\* A model that has a resource in Karmada is listed by the API, so that its status can
\* be asked for and its removal requested, even when the removal of it did not work.
ResourceIsListed == \A m \in resources : endpoint[m] # "none"

\* A deployment the connector has stored is known to the API, unless its request failed:
\* the connector does not look at the answer.
RowIsKnown == \A m \in Models : rows[m] # "none" => endpoint[m] # "none" \/ m \in unposted
=============================================================================
