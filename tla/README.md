# The MLSysOps agents in TLA+

The MLSysOps framework (`agents/`, `northbound-api/`) manages applications over a
continuum of clusters and nodes. Each level runs an agent: a Python process with
one asyncio event loop that monitors, analyses, plans and executes (MAPE). This
directory holds TLA+ models of that code, TLC configurations that check them on
small instances, and TLAPS proofs that hold for every instance.

## 1. The system

| Component | State it keeps | Operations | Talks to | What is hard | What makes it correct | Module |
|---|---|---|---|---|---|---|
| Plan pipeline: `mlsysops/tasks/{plan,execute}.py`, `scheduler.py`, `data/{plan,task_log}.py` | queue `state.plans`, task log, `mechanisms_touched` of a tick | plan, schedule, discard, execute, report | policies, mechanisms, listeners (`update_plan_status`) | ordering of plans, ticks, Execute tasks and late answers | one command per mechanism and tick; no command twice; the log agrees with what ran | PlanPipeline, PlanContract |
| Analyze tasks: `tasks/analyze.py` | one task per application / global policy | analyse, start Plan tasks | policies, state | several intervals in one loop, interval 0, exceptions | each policy called in time | AnalyzeLoop, PlanPipeline |
| Controllers: `controllers/{application,policy}.py` | running tasks, active policies | create, terminate, start/delete policies | pipeline, agents | awaits inside handlers; KeyErrors half-way | analysis and policies follow the applications that exist | PlanPipeline, AppLifecycle, NodePlacement |
| Telemetry controller: `controllers/telemetry.py` | scrape intervals, `otel_pod_list` | add, remove, apply intervals; deploy collectors | other agents, Kubernetes | cluster and nodes answer each other; restarts | everybody's interval is served; updates come to rest | ScrapeIntervals, NodePlacement |
| Northbound API: `northbound-api/endpoints` | Redis: request queues, status and description hashes | deploy, remove, list, status | queue behaviours, through Redis only | two processes interleave per Redis command; requests fail half-way | statuses and requests agree with what runs | AppLifecycle, ModelDeployment |
| Application queue: `spade/behaviors/{ProcessBehaviour,FailoverBehaviour}.py` | the entry being worked on | consume, write statuses, submit again after a restart | Redis, internal `message_queue` | crash and restart; stale status | every request served once | AppLifecycle |
| Model queue: `ML_process_Behaviour.py`, `Check_ml_deployment_Behaviour.py` | the entry being worked on, waiting checks | create or delete a resource, wait for its pod | Redis, Karmada | an exception ends the consumer; checks against new requests | every entry worked off; no status left to nobody | ModelDeployment |
| ML connector: `mlconnector/src` | a database row per deployment | create, status, renew, delete | northbound API | the row is stored whatever the API answered | a stored deployment is known to the API | ModelDeployment |
| Continuum agent: `continuum/MLSContinuumAgent.py`, `mechanisms/clusterPlacement.py` | applications, custom resources in Karmada | listener, apply, delete | Karmada | the listener suspends in Kubernetes calls | resources belong to applications that run | AppLifecycle, PlanPipeline |
| Fluidity: `cluster/fluidity/{controller,deploy,nodes}.py`, `mechanisms/fluidity.py` | hosts and pod manifests of each component | events of the custom resource, initial and later plans | Kubernetes, cluster agent | plans of several actions that fail half-way, pods that die, restarts | pods = manifests = hosts; what is reported of a plan is what happened | FluidityApps |
| Fluidity watchers: `cluster/fluidity/watcher.py` | the last version seen; the controller's node table | list, watch, watch again | Kubernetes, controller | a watch that ends, 410, repeated events | the table is that of the API server | NodeRegistry |
| Cluster agent: `cluster/MLSClusterAgent.py` | `nodes_state` | listeners for nodes and Fluidity, node sync | nodes, Fluidity | message order, node restart, exceptions half-way | `nodes_state` equals what runs on the nodes | NodePlacement |
| Node agent: `node/MLSNodeAgent.py` | `active_application` | placed, removed, updated, state sync | cluster agent | restart during placement | agrees with `nodes_state` | NodePlacement |
| Installer: `mlsysops-cli/mlsysops_cli/{cli,deployment/deploy}.py` | Kubernetes objects of the framework | deploy commands, policy edits | two API servers | calls that fail half-way, interrupts, two users | no description lost that was there; no lost edit | Installation |
| Membership: `spade/behaviors/{Heartbeat,HBReciever,CheckInactive*,Subscribe,ManageSubscription}*.py` | Redis table of agents | subscribe, beat, expire | other agents | see section 6 | | none |
| Monitor: `tasks/monitor.py` | metric list under a lock | add metrics, read values | telemetry | see section 6 | | none |

`PROJECT.json` lists every component, including those left out and why
(schemas and Kubernetes wrappers, start-up I/O), and every hazard with the source line
where it bites and the properties that are about it.

**How the components interact.** A user's request goes through the API into Redis,
from there by ProcessBehaviour into the continuum agent's message queue, and from
its listener into the application and policy controllers. Policies produce plans,
the scheduler arbitrates them and Execute tasks hand them to mechanisms.
clusterPlacement writes a custom resource to Karmada, which propagates it to a
cluster. There Fluidity sees it, tells the cluster agent, whose own pipeline places
components on nodes through Fluidity, which tells it what became of each plan; the
cluster agent tells the node agents, which start and stop their own analysis of the
application. Telemetry intervals travel from policies to collectors, and from the
cluster agent to its nodes and back.

## 2. What is atomic

An action is what one thread of control does between two points where another may
run.

- *Inside an agent* that is the code between two suspensions of a coroutine. The
  scheduler's tick (`scheduler.py:43-114`) awaits nothing after its sleep except
  queue operations that do not suspend. PlanPipeline still writes a tick as one step
  per plan and asset, so that it reads like the loop, and `Idle` keeps every other
  coroutine out while a tick is going on.
- Tasks created in a tick are in the loop's ready queue at once, the next tick is
  one second away: `SchedulerWake` requires `ready = << >>`. The tasks of one plan
  run back to back, before a listener that the first of them wakes
  (guard of `PlanExecuted`). Both are facts about asyncio that the code relies on.
- *Between the API and the agent* it is one Redis command. The Redis client in use
  is the synchronous one: it blocks the event loop, so inside one process a
  request, or one coroutine of the agent, runs from its first to its last command
  without another coroutine of that process. AppLifecycle therefore has one `api`
  and one `agent` program counter, and every interleaving of the two. ModelDeployment treats the
  API, the agent and the ML connector in the same way.
- *Inside the Fluidity controller* it is one call to Kubernetes. The client it uses is
  synchronous, so nothing else of the agent runs in between; but Kubernetes does, a
  call can be refused, and the process can stop there.
- *Between agents* it is the handling of one message. Messages between two agents keep
  their order; a restart loses those in the process and, perhaps, those under way.

## 3. The modules

### PlanPipeline

The pipeline of one agent. `task`, `plan`, `status` and `mechanism` are the Plan
tasks, Plan objects and the two fields of a task-log entry that matter;
`plans` is the queue; `current_plan_list`, `position` and `mechanisms_touched`
are the local variables of a tick; `ready`, `applying` and `awaiting` tell where
a command is: in a created Execute task, in a suspended `apply`, or handed over
with the answer outstanding. Application events are there as far as the pipeline
sees them (`applications`, `analyzing`, `orphaned`, `active_policies`, and
`listener` for the awaits inside the handlers).

A policy is any choice of a dictionary (its keys, in order: `AssetLists`); a
mechanism is active or not, configured or not, and of one of three kinds:
returns at once, answers later (`Deferred`: fluidity, fluidity_proxy), or suspends
and returns None (`Blocking`: clusterPlacement). Contents of commands are left out
because nothing in the pipeline looks at them.

### PlanContract, PlanRefinement

What the scheduler promises with no queue, tick or log: commands are queued,
granted or refused, once, and as long as a non-core command is granted and not
started no other non-core command is granted for its mechanism. `PlanRefinement`
gives the mapping (`Phase`) from the pipeline's state. On the instance in
`MCPlanContract` TLC checks that `FairSpec` of the pipeline implements `FairSpec` of
the contract; for every instance the safety part is proved (`SafelyImplements`).

### AppLifecycle

The API, Redis and the continuum agent. `valid_descriptions_queue`,
`system_app_hash` and `app_data_hash` are the Redis structures; `api` and `agent`
say between which two commands a request and the agent's coroutine are;
`message_queue`, `running`, `active_policies`, `scrape_interval` and `terminating`
are the agent's memory, `resources` is Karmada. `asked` and `missed` are history:
no action reads them in a guard. A queue entry is a full description or just a
name, because this is what `remove` pushes and the consumer cannot tell apart.

Actions: `DeployCheck/Push/Mark/Store` and `RemoveCheck/Mark/Data/Push` are the two
endpoints, `ProcessPop/Read/Removed/Forget/Deploy/Deployed` one run of
ProcessBehaviour, `FailoverSnapshot/Fetch` FailoverBehavior, `OnSubmitted`,
`OnRemoved`, `DeleteResource` the listener, `PlanPlacement/ApplyPlacement` the
pipeline reduced to "a plan is under way", which it may be lost from.
`RequestFails`, `DeploymentFails` and `Crash` are the faults. The component hashes
that are written next to the description (`add_components`, `delete_component`) are
part of `DeployStore` and `RemoveData`; nothing in this module reads them apart from
the description.

### FluidityApps

The FluidityApp controller with one application. `notifications` is the queue of events
of the custom resource and of plans, `app` the entry of `apps_dict` (per component the
list `hosts` with a status each, and the pod `manifests`; `pod_names`), `app_copy` the
copy that `_handle_upd_app` makes. `handler` is where `_app_handler` is in its current
notification, `pods` is the cluster. An initial plan goes `StartInitialPlan`,
`DeployInstance` for each instance in the order of the description (`IsNext`; see section 6
for dependencies), `FinishInitialPlan`. A later plan goes through its actions (`ActMove`, `ActDeploy`,
`ActRemove`, `ActChangeSpec`), each of which marks hosts PENDING or INACTIVE, then makes
a manifest for every pending host (`StartDeploying`), creates the pods
(`DeployNewPod`), and removes those of inactive hosts (`DeleteUnusedPod`, `FinishPlan`).
Every call to Kubernetes has an `...Ok` and a `...Fails` half; a pod whose name is taken
(409) is among the failures. `Raise` is an exception that `_app_handler` only logs: the
plan is never answered, and what it did to the application so far stays, components it
was done with included.

`monitored` says that the monitor task of the application exists, which only the first
initial plan starts. The removal of an application deletes its pods first and then looks
for that task: without it the handler ends in a KeyError, and the application stays in
`apps_dict`. A plan that waits in the queue behind the removal finds the application
there, or one that was created again in the meantime, and deploys pods that the next
removal need not find. `disordered` records that an application was removed while a plan for
it waited, or announced again without having been removed.

The watch of the custom resource is the one of NodeRegistry as the handler sees it
(`Watched`, `WatchRepeats`): an event is lost when the watch meets a 410; and since a watch
goes on from the version of the object it listed last, which may be another application's and
older, an ADDED, or a DELETED and an ADDED, come again (`relisted`). `HandleAdded` replaces
the entry of an application that is known, as `_handle_add_app` does: the service that is
there already is deleted and created again. Policies may submit any plan at any time,
initial plans included, as long as the agent analyses the application; an initial plan
overwrites the hosts of its components, and `replanned` records when there were any.

Left open: whether a new specification differs from the old one (`translate_plan`), so a
plan with a change_spec may be refused. Constant: which hosts pass `validate_host` for a
component. Names of
components are not prefixes of each other (`change_comp_spec` finds pods by prefix). The
call of `_handle_upd_app` for a modified custom resource lacks an argument and raises, so
`HandleModified` changes nothing.

### NodePlacement

The cluster agent and the node agents as far as they agree on what runs where. Fluidity
is reduced to what the agent sees of it (`PlanSucceeds`, `PlanFails`, with the answer
that FluidityApps shows to be exact). `nodes_state`, `active` (`active_application`),
`controller` (per agent: has the application an Analyze task, are its policies active, is
their scrape interval registered or requested) and the queues between them are as in the
code. `OnPlanExecuted` takes an answer, and `ReportFirst`, `ReportStep`,
`ReportSpec`, `ReportPlaced` and `ReportRemoved` are the loop over the actions of its plan and over its
pods, one turn each; `answer` is what is left of it. A KeyError ends the loop and leaves
the rest unreported. `<<component, node>>` is a pod; `doubled` are those that a node has more
than one of, whose removal is reported once for each. `CreateApp` also stands for an ADDED of
an application that is known: the cluster agent then starts a second analysis
(`orphans`), because on_application_received does not look whether there is one. One
application policy per agent, with or without a scrape interval (`PolicySets`), covers
the exception in `delete_application_policies` (`stuck`). The interval is an entry of the
agent under the policy's name: another application with the same policy adds it or
takes it away at any time (`OtherApplication`). Three histories weaken the
properties to what the code can keep: a change_spec of a component that `nodes_state` does
not have on the node is told as an update only (`untold`); it may replace a pod on another node and
a failed plan may leave pods, both unreported (`unreported`); a restarted cluster agent
has forgotten its nodes (`forgotten`), and a synchronisation only adds. Nothing sends
COMPONENT_PLACED to a cluster agent, so its branch for it is left out.

### AgentServices: ModelDeployment, ScrapeIntervals, NodeRegistry, AnalyzeLoop, Installation

Five modules that share no state. AgentServices composes them: it instantiates each
(`Model`, `Scrape`, `Registry`, `Loop`, `Install`), gives their constants values from its
own, and lets the initial state choose which one takes steps, so that one run checks them.

- **ModelDeployment** follows an ML model from the connector (`rows`, `inserting`,
  `uploads`, `answers`) through the API (`api`: between which two Redis commands a request
  is) and Redis (`entries`, `endpoint`) to the consumer in the agent and its check
  behaviours (`consumer`, `checks`, `found`). Deployments of users and of the connector
  differ in the name of their resource, which decides whether a removal finds it.
- **ScrapeIntervals** has the table of intervals of each agent, the collectors, and the
  two kinds of messages. `RemoveInterval` compares a key with an interval, as the code
  does, so that it always applies the old interval again. Failing calls to Kubernetes are
  swallowed by the code and not modelled.
- **NodeRegistry** has the API server as a log of versions, the watcher with what it has
  still to report, and the controller's table. A watch ends, is opened again, meets a
  forgotten version (410) or dies.
- **AnalyzeLoop** has time: `since` and `waited` are clocks, which stop when they tell
  nothing more.
- **Installation** is a framework command as the sequence of resources it writes, and
  policy commands of several users (read, then write with the version read). A config map
  made from a directory may have all the descriptions of a layer (`AllFound`) or lack some
  (`SomeMissing`): the directory does not exist, is empty or laid out otherwise, or a cluster
  was skipped when they were generated. A config map that exists is kept as it is.

Definitions called *Deviation* in these modules belong to no specification: each is a
plausible bug, and replacing the definition below it by the deviation makes a
property fail. They show that the property depends on the code.

## 4. What is checked

| Run | Instance | Properties | Distinct states |
|---|---|---|---|
| `plan_pipeline` | 1 application, a core and a non-core policy, 4 mechanisms (one per kind), all dictionaries of up to 2 keys, 2 plans | `TypeOK`, `OneCommandPerMechanism`, `CompletedIffSettled`, `InFlightIsUnreported`, `QueuedPlansHaveNotRun`, `TouchedIsGranted`, `OutcomesAreFinal` | 1.3 million |
| `plan_contract` | 2 global policies (one core, one with the name of a mechanism), 2 mechanisms, 2 plans, fairness | `ImplementsContract`, `EveryPlanIsDecided` | 111 thousand |
| `app_lifecycle` | 2 applications, 4 requests, 1 fault | `TypeOK`, `RunningIsListed`, `DeployedIsRunning`, `ResourcesOfStopped` | 2.6 million |
| `app_requests` | 1 application, 5 requests, no fault, fairness | `DeployIsServed`, `RemovalSettles` | 254 thousand |
| `fluidity_apps` | 1 application, 2 components, 2 hosts of which one does not suit the second, 4 initial and 7 later plans of one or two actions, 3 plans of which 1 waits at a time, the custom resource there at the start or not, created once more, reported again, 1 fault | `TypeOK`, `NoOrphanPods`, `PodsCanBeRemoved`, `CompletedIsPlaced`, `ReportIsExact`, `MoveKeepsAPod` | 4.02 million |
| `node_placement` | 2 nodes, 2 components, an application announced twice, 2 initial and 4 later plans, 2 plans, another application with the same policy, 1 restart or unreported change | `TypeOK`, `NodesStateIsPods`, `NodeAgreesWithCluster`, `AnalysisMatchesPlacement`, `NodesAnalyzeOnce` | 896 thousand |
| `agent_services` | ModelDeployment: 2 models, 3 requests or faults; ScrapeIntervals: 2 nodes, 2 policies, 3 changes; NodeRegistry: 2 hosts, 2 layers, 3 changes, 2 faults; AnalyzeLoop: 3 policies with intervals 0, 1 or 3, 1 exception; Installation: 2 commands, 2 edits, 1 failure; fairness | `TypeOK`; `UnderDeploymentIsTended`, `ResourceIsListed`, `RowIsKnown`, `QueueIsServed`; `RequestsAreServed`, `NodesFollowCluster`, `Settles`; `TableIsCurrent`; `AnalyzedInTime`; `NoDescriptionIsLost`, `PolicyChangesAreKept` | 967 thousand |
| `failed_plan_reverts` | as `fluidity_apps` | violated: see below | |
| `discarded_is_not_executed`, `outcome_is_logged` | as `plan_pipeline` | violated: see below | |
| `removal_undeploys`, `status_is_current` | 2 and 1 applications, 3 requests, no fault | violated: see below | |

**Why these bounds.** Two plans are enough for every conflict the scheduler can meet:
its decision compares a plan with what was touched before, and mechanisms do not
interact. Two keys let a plan be decided both ways, be split over two kinds of
mechanism, and be completed by answers in either order. The plans may share a tick
or fall into two, and the application may be removed and created again in between.
In AppLifecycle applications interact only through the shared queues and the scrape
interval entry, so two suffice; four requests allow deploy, remove, deploy, remove
of one application, or two applications that overlap, and one fault allows a
crash at any point of these. Five requests of one application let a removal overtake
a deployment twice. In FluidityApps components interact through the plan they share and
through the hosts a failed plan leaves behind; two components let a plan raise at one
after it changed the other, and three plans are an initial one, one that leaves
something, and one that meets it. The plans contain every action and the pairs that can
fail between their actions. One plan may wait (`MaxQueue`) while another is carried out, which
is enough for the application to be removed or announced again in between; initial plans
count like others, so that one can follow another or be overtaken by a later one. In NodePlacement
nodes do not talk to each other: two let a component move, and two announcements of the
application let messages of the first meet the second. Initial plans put two components on one
node, or two pods of one component. In the services the bounds leave room for the cases the properties are about:
two changes of an interval and a restart; a host added, deleted and added again while the
watch is closed; a deployment, its removal and a second deployment; a command that fails
and is run again. `MaxEntries` cuts off how often a node is in `otel_pod_list`: three
entries already send three updates for one change. The constants that begin with Max, and
`Uids`, are the only bounds on behaviours; queues are not bounded otherwise, except that
a modification of a custom resource comes when nothing else waits.

The runs of AppLifecycle, FluidityApps, NodePlacement and the services do without the
deadlock check: when the bounded requests are used up and everything is worked off, the
agents wait for the next request for ever.

**Symmetry** is used in the safety runs only (`Uids`, `Apps`: both only
compared for equality).

**Fairness.** PlanPipeline: weak fairness of the scheduler's steps and of the Execute
tasks at the head of the ready queue. The event loop runs every ready task, and the
scheduler's timer fires; nothing is assumed of policies, mechanisms, answers or
applications. AppLifecycle: an accepted request runs on, the agent's coroutines take
turns, and a call to Kubernetes returns or raises. Nobody has to send requests, and a
placement may get lost. With `MaxFaults = 0` the liveness properties say what
happens when nothing fails; after a crash an event in the in-memory queue is
lost and they would be false, by design of the code. AgentServices: the consumer of the
model queue, a request the API has accepted, a check that has found its pod, the handlers
of telemetry messages and the initialisation of an agent's telemetry are not put off for
ever; all of these are coroutines that are ready or wait for a timer. Pods, users,
restarts and failures are never required.

**What the violated properties show.** Each states a sentence of the documentation, and
the run finds a behaviour of the code against it.

- `DiscardedIsNotExecuted` (docs/design/mape.md:46-47, "any subsequent plan targeting a
  mechanism already configured by a previous plan is discarded"): the decision is taken
  per asset, the log is per plan. A plan for two mechanisms of which one is taken is logged
  as Discarded and its other command still runs.
- `OutcomeIsLogged` (mape.md:36-38, "the outcome is logged into the state"):
  clusterPlacement's `apply` returns None after success, which is logged as Pending, and
  no answer ever follows; nor does a usable one for a command that fluidity refuses as invalid.
- `RemovalUndeploys` (docs/references/northbound-api.md:22, "Remove (undeploy) a specific
  application"): the consumer decides by the status whether an entry is a removal, and
  writes Deployed over To_be_removed. The removal's name-only entry is then submitted
  as if it were an application, and the application runs on although the removal was
  answered with success.
- `StatusIsCurrent` (northbound-api.md:19, "Get the current status"): the description is
  pushed before Queued is written. If the agent is faster, Queued replaces Deployed for
  good; after a restart the failover does not submit this application.
- `FailedPlanReverts` (comments in fluidity/controller.py:1053 and :1065, "Revert to
  previous specs"): the returns inside the loop over the actions restore nothing. A
  "deploy" on a host that is not listed always ends there, because
  `append_host_to_list` returns nothing for a host it appends; the plan is answered
  FAILED, the host stays PENDING, and the next plan deploys there. `NoOrphanPods`,
  `CompletedIsPlaced` and `ReportIsExact` say what holds nevertheless: such pods are
  listed, and a later plan that completes places and reports them.

**What the conditions of properties leave out.** Where a property has a condition, the
code does not keep the promise without it, and the condition names the case. A plan that
is handled after its application was removed deploys pods that nobody removes, or on top
of those of the application created next; an application that is announced again loses the
list of its pods (`disordered`). An initial plan for components that have hosts overwrites
them, and their pods are on no list of hosts (`replanned`). A refused
call of Kubernetes restores `app_copy` although pods were created, so that pods can be
left behind (`api_error`). After a change_spec manifests can share their metadata and name
another's pod (`respecified`). A Node that is deleted in Kubernetes stays in the table,
since the branch of `delete_resource` for it raises; after 410 the watcher goes on from a
list it does not look at (`missed`). The consumer of the model queue ends with the first
removal that finds a resource, which `QueueIsServed` allows for. Policies after one with
the interval 0 are not called. `NodesAnalyzeOnce` is about the nodes: the cluster agent does
run two analyses of an application that it is told of twice. `AnalysisMatchesPlacement` and
`NodesStateIsPods` leave out agents where the deletion of the policies raised (`stuck`), for
want of an interval entry, which other applications share. `NoDescriptionIsLost` says that
what a command has read reaches the agents; a command that found nothing starts them all
the same (`undescribed`). `RowIsKnown` leaves out rows whose request failed (`unposted`):
create_deployment stores them whatever the answer was.

## 5. What is proved

Every invariant that a passing run checks is also a theorem for all values of the constants:
any applications, policies, components, nodes, plans of any length and any bounds. So are
the action properties `OutcomesAreFinal`, `ResourcesOfStopped` and `MoveKeepsAPod` (for
plans that do not remove what they move in), and the safety part of the refinement to
PlanContract.

**From which assumptions.** Those the modules declare with their constants, and no others:
applications and global policies have different names, core policies are policies, a
mechanism is at most of one special kind, a dictionary has each key once (PlanPipeline); the
value for "no application" is no application (AppLifecycle); components are numbered, a plan
is a sequence of steps for them (FluidityApps); there are finitely many components, initial
plans deploy, and a later plan has at most one step for each component (NodePlacement); the cluster agent is not a
node, intervals and versions are numbers (the services); bounds are natural numbers. The
theorems about a service by itself carry the assumptions of its module as a hypothesis;
AgentServices makes them for all its parts (`ConstantAssumptions`).

**How.** Each proof has the same form: type correctness first; then an inductive invariant,
one lemma per action or handler; then the property from the invariant. Few of the checked
properties are inductive by themselves. What follows says what has to be added to each and
why. The inductive invariants were tried with TLC on small instances before they were proved.

**PlanPipeline** (`PlanPipelineProofs`). `TypeCorrect`, then `InvariantHolds`: the inductive
invariant `IInv` adds to `TypeOK` what the checked properties leave implicit. `Bookkeeping`:
the log of a plan has one entry per asset from the moment it is queued (`LogInv`); a plan is in
the queue or the tick at most once (`QueueInv`); a command in flight belongs to a plan the
scheduler is done with or to an asset before `position` (`DispatchInv`); a non-core command
waiting to run holds its mechanism (`GrantInv`). `Promises`: four of the checked invariants.
For example `InFlightIsUnreported` alone does not exclude a state in which a plan is queued
again after one of its commands was started, and from there the next tick issues the command
twice; it needs `QueuedPlansHaveNotRun`, and that needs the uniqueness of queue entries. From
`IInv` follow `CompletionIsExact`, `NoDoubleExecution`, `QueueIsFresh`, `RefusedForAGrant`,
`ConflictsAreArbitrated` (by `GrantInv` both of two non-core commands would hold the mechanism,
which has one holder) and the action property `OutcomesStay`.

`SafelyImplements` is the refinement: under the mapping `Phases`, `CorePlans` of
PlanRefinement the initial state is initial, and each step of the pipeline is a step of the
contract or stutters (`StepsImplement`). Queueing a plan submits its commands; a wake-up of
the scheduler and its turn to the next plan decide nothing; a discard refuses one command; a
schedule grants one, which the contract allows because by `GrantInv` no other is granted for
the mechanism; execution starts one, an answer finishes one.

**AppLifecycle** (`AppLifecycleProofs`). `LifecycleTypeCorrect`, then `LifecycleInvariant`:
`LifecycleInv` is `TypeOK`, `RunningIsListed`, `DeployedIsRunning` and `CoroutineInv`, which says
what each intermediate step of the agent's coroutines knows: an application whose removal was
sent will not run, one whose submission was sent will, and the applications FailoverBehavior
still has to fetch have a status. Without it the two properties do not survive
`ProcessForget`, `ProcessDeployed` and `FailoverFetch`. Both properties look through the
message queue: `WillRun(a)` is the effect of the last event for `a` that will not be
dropped, or what runs now if there is none. The results are `NothingRunsUnlisted` and
`DeployedMeansRunning`. `OnlyStoppedLoseResources` is the action property
`ResourcesOfStopped`; it rests on `TerminatingIsStopped`: the listener takes no event while it
waits for Kubernetes, so that nothing starts the application it is about to delete.

**FluidityApps** (`FluidityAppsProofs`; the last two in `FluidityPlansProofs`). Six
results; the first is under all others, and each of the next four rests on those before it.

- `TypesOK`: the lists of hosts, the manifests and the plan in progress are well formed.
- `NoOrphans`, from `OrphanInv`. As long as nothing is `disordered`, no plan is under way or
  waiting once an application is withdrawn (`Withdrawn`); the names still to be removed are the
  names that run (`PodsAreListed`), and after the removal none does (`NothingLeft`), so that the
  empty entry of an application that is announced anew is right.
- `ReportsAreExact`, from `ReportInv`. A manifest that waits for its pod has a name that no
  listed pod has (`PendingIsFresh`), for the application and for its copy, since a refused call
  makes the copy the application again; names are used once (`NamesAreUnique`); a pod of the
  start of the plan that is gone does not come back (`NothingAgain`); the report accounts for
  the difference so far (`Reported`). No fault is excluded.
- `PodsStayRemovable`, from `RemovalInv`. Every manifest is on a listed host and every pod has a
  manifest (`InPlace`), also in the middle of a plan, because a plan can raise after any step.
  An initial plan for components without hosts makes them the hosts of its steps and its manifests
  are those of its steps (`DeploysItsSteps`), whatever plans for other components came before.
- `CompletedArePlaced`, from `PlacedInv`, for applications to which nothing has happened.
  A host in use runs a pod or has a manifest that waits for one, no two manifests share a name,
  so that the pod deleted with an INACTIVE host is not the one an ACTIVE host needs, and two
  entries of the same host have one status (`TablesAgree`). What the initial plan has not done yet
  it still has on its list (`InitialPlanBegun`); a later plan that has made its manifests leaves
  no host PENDING, and deletes only when all its pods are created (`LaterPlanWorked`); at the
  end no entry is PENDING or INACTIVE (`Settled`), for an initial plan of its own components only. Plans that failed or raised before are what
  makes it difficult: they leave entries of every status, and the invariant holds of these too.
- `MovedKeepAPod`, the action property `MoveKeepsAPod`, from `MoveInv`. While the steps of a
  plan are acted on, each component it moves has a move left to act on or a host among those it
  moves to that is PENDING in some entry and INACTIVE in none (`MovesWait`). `StartDeploying` makes
  a manifest for each such host; from there on the component has a manifest on a host
  without an INACTIVE entry that waits for its pod or whose pod runs (`MovedIsKept`), and once the
  controller deletes none waits. A deletion takes a manifest on an INACTIVE host, hence
  another one, and as no two manifests have one name (`NamesApart`) it takes another
  pod. The entries that plans which failed or raised leave behind are the difficulty here too:
  an old INACTIVE entry of the target host would have the new pod deleted, if
  `append_host_to_list` did not set every entry of the host. The hypothesis is `MovesStay`: no
  plan removes a component from a host that it moves it to. Nothing in the code refuses such
  a plan, and it is needed: for `move 1 from h1 to h2, remove 1 from h2` TLC finds that the
  component loses its only pod. All plans of the run satisfy it.

**NodePlacement** (`NodePlacementProofs`).

- `PlacementTypes`, with the lemmas that say what each handler does to its agent.
- `NodesHaveOneAnalysis`, `AnalysisFollowsPlacement`, from `AnalysisInv`: a node that does not
  list the application does not run it, and one whose removals were not cut short runs it exactly
  while it lists a component (`AnalysisOfNodes`), so that it takes up an analysis only when it has
  none; the cluster agent's queue leads from what it analyses to what Fluidity has
  (`QueueFollows`), announcements of a known application included.
- `NodesAgree`, from `KnowledgeInv`: the last message on its way to a node about a component
  says what the cluster agent believes; without one the node knows nothing wrong, and lacks
  nothing unless it has asked for everything (`NodesAreInformed`). A COMPONENT_UPDATED says
  nothing, so that components in `untold`, which are always in `nodes_state`, have to be left out.
- `StateFollowsPods`, from `PodsArrive`. The queue of answers, replayed on what the cluster agent
  will believe after the answer at hand, makes the pods that run (`Arrives`). The loop over an
  answer goes over all pods once for every step, so that most are handled several times;
  `AnswerFits` says what is left: every pod that is still to be told is in what remains of this
  round, or there is another one. No pod is told to be gone twice in one answer, and none to be
  gone and placed (`Fits`). Hence a KeyError, which abandons the rest, only comes when
  everything was told.

**The services** (`AgentServicesProofs`, and `NodeRegistryProofs` for the table of nodes).
Each is proved by itself (`ModelSafe`, `ScrapeSafe`, `RegistrySafe`, `LoopInTime`,
`InstallSafe`); then for AgentServices, whose steps are steps of one part that leave the
others alone.

- ModelDeployment: `ModelInv` adds that the consumer has marked the model it creates a resource
  for, that a row about to be stored is known to the API, and that a check that found its pod
  still counts.
- ScrapeIntervals: `ScrapeInv` adds that a deployment on its way carries the current interval of
  the cluster agent (`DeploysAreCurrent`), and that a node which the cluster agent knows is going
  to be answered, has the interval in the last message to it, or complies (`NodesAreInformed`).
- NodeRegistry: `RegistryInv` says for each host that is not `missed` that its last change up to the
  version the watch has reached is in the table, in a notice, or in the initial list that is still
  to be reported (`ReportedIsKnown`), and that such a list holds last changes (`BacklogIsLast`).
- AnalyzeLoop: `LoopInv` bounds how long a policy has waited by where the round is (`InTurn`):
  before the scan comes to it the last sleep and all analyses since count, after it those of this
  round.
- Installation: `InstallInv` says of the steps left of a command that agents come after the
  description (`StepsAreDescribed`), that a config map of descriptions has them all or is of a
  layer for which a command found none or too few, and of a read that is not written yet that
  it is the latest version or has an older number (`EditsAreBased`).

**Only model-checked.** `ImplementsContract` with its fairness, `EveryPlanIsDecided`,
`DeployIsServed`, `RemovalSettles`, `QueueIsServed` and `Settles` are liveness under fairness,
for which TLAPS has no support here. `MoveKeepsAPod` can fail outside the hypothesis of its
theorem, as the example above shows.

## 6. What is abstracted or not modelled

- The list `pending_plans` of the scheduler, which nothing fills; pickling and the CSV
  dump of the state; logging; policy contexts (any decision is possible, at any time).
- In AppLifecycle a Redis error outside a `try` of ProcessBehaviour ends the behaviour;
  this is left out. The agent uses one shipped application policy, whose scrape interval is
  one entry of the telemetry table; `default` is always there too, so the minimum in
  `remove_interval` is never of an empty table. A name-only entry has no component
  specification, so `on_application_received` awaits nothing for it, and none for a full
  description at this level either, since the components are not under `spec`.
  Several workers of the API would interleave requests with each other; one is modelled.
- `DeleteResource`'s outcome "nothing was deleted" covers both an error and a missing
  kubeconfig.
- FluidityApps and NodePlacement have one application. Applications share no hosts or pods, but
  the node table, the queue of notifications, the version from which their watch goes on, and the
  telemetry entries of the policies. The first two make an application wait; the others
  are in the models as what the rest may do at any time (`relisted`, `OtherApplication`). The
  validation of descriptions, the contents of pod templates and the resources of nodes are left
  out (`Eligible` is constant); of services only that one may not be created.
- The mechanism's own table of applications is left out. An APP_DELETED of an application it
  does not have raises KeyError and ends its listener (mechanisms/fluidity.py:261), so that no
  answer reaches the agent any more.
- Dependencies of components. The handler reads `DependsOn` (deploy.py:858), as an older schema
  has it (MLSysOps-CRD.yaml:230 and mlsysops_schemas.py:1174 of the northbound API); the custom
  resource definition it registers has `depends_on` (MLSysOpsApplication.yaml:228, mlsysops_model.py:598).
  A description that conforms to it never has the key, `priority_list` stays in the order
  of the description, and no component waits for another. This is what FluidityApps models;
  `check_violated_priority` and the wait for a pod are dead code for it.
- The plans that a node's policies submit through `fluidity_proxy` reach the same queue
  of plans and are answered to the node; the forwarding itself is left out. OTEL_REMOVE
  calls a method that does not exist.
- ScrapeIntervals leaves out the cluster agent's own collector. Installation leaves out
  the contents of templates. A config map made from a description is not updated when it
  exists (deploy.py:307 and :339 replace it on every error but 409), and the template of
  a layer's policies empties its config map: both are in the model (`CreateConfigMap`,
  `ResetPolicies`), and neither contradicts a property. The help of the commands asks for a path
  that has continuum, cluster and node below it (cli.py:320, 342, 356, 370); the code globs
  the path itself (deploy.py:321-328), finds nothing there, and installs an empty config map,
  which a second command keeps.

**Not modelled.**

- *Membership.* The Redis table that subscriptions fill has no reader. The heartbeat is
  not started, and sends another type than its receiver expects, so every agent is
  removed from the table a minute after it subscribed, and nothing follows from it.
- *Monitor task.* It stores metric values under a lock; policies get them as data, and a
  policy is any decision in all modules. Metrics are never removed from its list.
- *Changes of policy files.* A watchdog thread replaces templates and adds, reloads or removes
  active application policies while the event loop uses them. It starts no analysis, since
  `create_task` raises there for want of an event loop, and raises at the first global policy it
  iterates over, before it comes to those of applications. The modules have a fixed set of
  policies; what a policy decides may change at any time.
- *Schemas* (`northbound-api/MLSysOps_Schemas`, `plan_payload.py`,
  `internal_payload.py`): data classes, partly generated, with no control state.
- *Wrappers of Kubernetes and Redis*, the preparation of descriptions and inventories by
  the command line, templates, the connector's registry of models, files and data sets,
  and the shipped example policies. These and the schemas are why the modules account for
  a small part of the repository's lines although they cover most of its control flow.

## 7. Plan

Done: all modules and runs of section 4; the theorems of section 5. No module declares a
RECURSIVE operator, so that all of them can be proved about.

What is left:

1. What FluidityApps and NodePlacement share: a completed plan's report, as
   `ReportsAreExact` has it, is one that `PlanSucceeds` of NodePlacement can give. Pods have
   names in the one and are components on nodes in the other, so that the mapping has to
   forget the names.
2. The safety part of the liveness arguments, where it can be separated: that the
   consumer of the application queue always has a step that shortens the queue, and that the
   scheduler's tick ends.
