--------------------------- MODULE NodePlacement ---------------------------
(***************************************************************************)
(* How the nodes learn what runs on them.  The cluster agent turns the     *)
(* events of the Fluidity controller into nodes_state and into messages;   *)
(* a node agent keeps active_application from these messages and asks for  *)
(* NODE_STATE_SYNC when it starts.  Both run the analysis and the policies *)
(* of an application as long as they know of it.                           *)
(*                                                                         *)
(* One application with at most one application policy per agent, whose    *)
(* scrape interval other applications of the agent share.  Each listener   *)
(* is a coroutine of its own that handles one message at a time.           *)
(***************************************************************************)
EXTENDS Naturals, Sequences, FiniteSets, Functions

CONSTANTS
  Comps, Nodes, Cluster,
  InitialPlans, Plans, \* sequences of steps
  PolicySets,          \* which application policy each agent may have
  MaxApps, MaxPlans, MaxFaults \* bounds

Agents == Nodes \union {Cluster}
Steps == [comp : Comps, action : {"deploy", "remove", "move", "change_spec"},
          host : Nodes, src_host : Nodes]

\* An initial plan deploys; a later one has at most one step for a component.
ASSUME ConstantAssumption ==
  /\ Cluster \notin Nodes /\ IsFiniteSet(Comps)
  /\ InitialPlans \subseteq Seq(Steps) /\ Plans \subseteq Seq(Steps)
  /\ \A plan \in InitialPlans : \A i \in DOMAIN plan : plan[i].action = "deploy"
  /\ \A plan \in Plans : \A i, j \in DOMAIN plan : i # j => plan[i].comp # plan[j].comp
  /\ PolicySets \subseteq [Agents -> {"none", "no interval", "interval"}]
  /\ MaxApps \in Nat /\ MaxPlans \in Nat /\ MaxFaults \in Nat

VARIABLES
  pods,        \* Fluidity: the components and nodes that have a pod it knows of
  doubled,     \* Fluidity: those that have more than one
  phase,       \* Fluidity: the application is "absent", "created", "deployed"
  events,      \* the fluidity mechanism's inbound queue
  nodes_state, \* cluster agent: what it believes to run on each node
  answer,      \* cluster agent: what is still to report of the answer it handles
  requests,    \* NODE_STATE_SYNC requests on their way to the cluster agent
  inbox,       \* messages on their way to a node agent, or in its queue
  active,      \* node agents: active_application
  controller,  \* every agent: application and policy controller, scrape interval
  policy,      \* the application policy of each agent
  stuck,       \* history: agents where delete_application_policies raised
  unreported,  \* history: pods changed and PLAN_EXECUTED did not say so, or twice
  forgotten,   \* history: the cluster agent restarted
  heard,       \* history: the cluster agent was told of the application since it started
  untold,      \* history: components and nodes of a change_spec, told as an update only
  apps, plans, faults \* what has been used of the bounds

fluidityVars == <<pods, doubled, phase, unreported>>
nodeVars == <<inbox, active>>
boundVars == <<apps, plans, faults>>
agentVars == <<forgotten, heard>>
clusterVars == <<nodes_state, answer, untold>>
vars == <<fluidityVars, events, clusterVars, requests, nodeVars, controller,
          policy, stuck, agentVars, boundVars>>

Handled == [steps |-> << >>, report |-> << >>, rest |-> << >>]
Unknown == [known |-> FALSE, app |-> FALSE, comps |-> {}]
NoApplication == [listed |-> FALSE, comps |-> {}]

\* The policy templates are initialised at start-up and request their intervals.
\* task: application_tasks_running has an entry; orphans: tasks whose entry was replaced.
Fresh(a) ==
  [task |-> FALSE, orphans |-> 0, policies |-> FALSE,
   interval |-> policy[a] = "interval", requested |-> 0]

Init ==
  /\ pods = {} /\ doubled = {} /\ phase = "absent" /\ events = << >>
  /\ nodes_state = [n \in Nodes |-> Unknown] /\ answer = Handled /\ untold = {} /\ requests = << >>
  /\ inbox = [n \in Nodes |-> << >>] /\ active = [n \in Nodes |-> NoApplication]
  /\ policy \in PolicySets /\ controller = [a \in Agents |-> Fresh(a)]
  /\ stuck = {} /\ unreported = FALSE /\ forgotten = FALSE /\ heard = FALSE
  /\ apps = 0 /\ plans = 0 /\ faults = 0

-----------------------------------------------------------------------------
(* Fluidity: what the agent sees of FluidityApps. *)

\* ADDED, also of an application that Fluidity knows: the watch is opened again at an older
\* version, or lost the deletion.  The entry is replaced; what runs is not known any more.
CreateApp ==
  /\ apps < MaxApps /\ apps' = apps + 1
  /\ phase' = "created" /\ pods' = {} /\ doubled' = {}
  /\ unreported' = (unreported \/ pods # {})
  /\ events' = Append(events, [event |-> "APP_CREATED"])
  /\ UNCHANGED <<clusterVars, requests, nodeVars, controller, policy, stuck, agentVars, plans,
                 faults>>

DeleteApp ==
  /\ phase # "absent"
  /\ phase' = "absent" /\ pods' = {} /\ doubled' = {}
  /\ events' = Append(events, [event |-> "APP_DELETED"])
  /\ UNCHANGED <<unreported, clusterVars, requests, nodeVars, controller, policy, stuck,
                 agentVars, boundVars>>

Leaves(step) == step.action = "remove" \/ (step.action = "move" /\ step.src_host # step.host)

\* The pods of a component in comp_dict: first what was created or modified; one that has
\* more pods on the node it leaves is listed as often.
ReportOf(step) ==
  LET placed == <<[comp |-> step.comp, event |-> "placed", host |-> step.host]>>
      removed == [i \in 1..(IF <<step.comp, step.src_host>> \in doubled THEN 2 ELSE 1) |->
                    [comp |-> step.comp, event |-> "removed", host |-> step.src_host]]
  IN  (IF step.action = "remove" THEN << >> ELSE placed) \o (IF Leaves(step) THEN removed ELSE << >>)

Answered(plan, report) ==
  events' = Append(events, [event |-> "PLAN_EXECUTED", plan |-> plan, report |-> report])

\* Which pods of its component a step takes away altogether: change_spec the first one
\* there is, on whatever node.
Takes(step, P) ==
  LET own == {p \in P : p[1] = step.comp}
  IN  IF Leaves(step) THEN own = {<<step.comp, step.src_host>>}
      ELSE \/ step.action # "change_spec" /\ own = {}
           \/ step.action = "change_spec" /\ \E p \in P \ doubled : own = {p}
           \/ step.action = "change_spec" /\ own = {} /\ \E p \in doubled : p[1] = step.comp

Placed(plan, i) == plan[i].action # "remove"
PodOf(step) == <<step.comp, step.host>>
NewPods(plan) == {PodOf(plan[i]) : i \in {j \in DOMAIN plan : Placed(plan, j)}}

\* What a plan may take away if it succeeds.
Gone(plan) ==
  {P \in SUBSET pods : /\ \A i \in DOMAIN plan : Takes(plan[i], P)
                       /\ \A p \in P : \E i \in DOMAIN plan : plan[i].comp = p[1]}

\* A node that has one pod of a component gets another; change_spec may end that.
Doubled(plan, gone) ==
  LET changed == {p \in doubled : \E i \in DOMAIN plan :
                                   plan[i].action = "change_spec" /\ plan[i].comp = p[1]}
      more == {p \in NewPods(plan) :
                 \/ p \in pods \ gone
                 \/ \E i, j \in DOMAIN plan : /\ i # j /\ Placed(plan, i) /\ Placed(plan, j)
                                             /\ PodOf(plan[i]) = p /\ PodOf(plan[j]) = p}
  IN  {((doubled \ gone) \ less) \union more : less \in SUBSET changed}

\* The policies may plan once the cluster agent was told of the application: an analysis
\* goes on, or a plan of an earlier one waits at Fluidity.
MayPlan == phase # "absent" /\ heard /\ plans < MaxPlans

ToldGone(plan, p) ==
  \E i \in DOMAIN plan : Leaves(plan[i]) /\ p = <<plan[i].comp, plan[i].src_host>>

\* A pod goes unmentioned, or is mentioned twice, or comes by a change_spec.
Misreported(plan, left) ==
  \/ \E p \in pods \ left : ~ToldGone(plan, p)
  \/ \E p \in doubled : ToldGone(plan, p)
  \/ \E i \in DOMAIN plan : plan[i].action = "change_spec" /\ PodOf(plan[i]) \notin pods

\* A policy may send an initial plan again; any other one fails before the first.
PlanSucceeds(plan) ==
  /\ MayPlan /\ plans' = plans + 1
  /\ plan \notin InitialPlans => phase = "deployed"
  /\ phase' = "deployed"
  /\ \E gone \in Gone(plan) :
       /\ pods' = (pods \ gone) \union NewPods(plan)
       /\ doubled' \in Doubled(plan, gone)
  /\ unreported' = (unreported \/ Misreported(plan, pods'))
  /\ Answered(plan, [i \in DOMAIN plan |-> ReportOf(plan[i])])
  /\ UNCHANGED <<clusterVars, requests, nodeVars, controller, policy, stuck, agentVars, apps,
                 faults>>

\* A plan that fails is answered without comp_dict, whatever became of the pods so far.
PlanFails(plan) ==
  /\ MayPlan /\ plans' = plans + 1
  /\ \/ UNCHANGED <<pods, doubled, unreported, faults>>
     \/ /\ plan \notin InitialPlans => phase = "deployed"
        /\ faults < MaxFaults /\ faults' = faults + 1
        /\ unreported' = TRUE
        /\ \E i \in DOMAIN plan :
             /\ pods' = pods \union {PodOf(plan[i])}
             /\ doubled' = doubled \union ({PodOf(plan[i])} \intersect pods)
  /\ Answered(plan, << >>)
  /\ UNCHANGED <<phase, clusterVars, requests, nodeVars, controller, policy, stuck, agentVars,
                 apps>>

-----------------------------------------------------------------------------
(* The application and policy controllers of an agent. *)

\* on_application_received: a task that was there is replaced, not cancelled.
Received(c) ==
  [c EXCEPT !.orphans = IF c.task THEN @ + 1 ELSE @, !.task = TRUE]

\* Deviation: the task is cancelled and its entry stays.
TerminatedKeepingTask(c) == c

Terminated(c) == [c EXCEPT !.task = FALSE]

\* start_application_policies: the clone of the template requests its interval in a task.
StartPolicies(a, c) ==
  CASE policy[a] = "none" -> c
    [] policy[a] = "no interval" -> [c EXCEPT !.policies = TRUE]
    [] policy[a] = "interval" -> [c EXCEPT !.policies = TRUE, !.requested = @ + 1]

\* delete_application_policies calls remove_interval for each policy, which raises
\* KeyError if there is none under its name.
DeletionRaises(c) == c.policies /\ ~c.interval

DeletePolicies(c) ==
  IF c.policies /\ c.interval THEN [c EXCEPT !.policies = FALSE, !.interval = FALSE] ELSE c

\* The entry bears the policy's name only: starting the policy for another application of
\* the agent adds it, deleting that application takes it away.
OtherApplication(a) ==
  /\ policy[a] = "interval"
  /\ controller' = [controller EXCEPT ![a].interval = ~@]
  /\ UNCHANGED <<fluidityVars, events, clusterVars, requests, nodeVars, policy,
                 stuck, agentVars, boundVars>>

\* add_new_interval, in the task that Policy.initialize created.
AddInterval(a) ==
  /\ controller[a].requested > 0
  /\ controller' = [controller EXCEPT ![a].requested = @ - 1, ![a].interval = TRUE]
  /\ UNCHANGED <<fluidityVars, events, clusterVars, requests, nodeVars, policy,
                 stuck, agentVars, boundVars>>

-----------------------------------------------------------------------------
(* The cluster agent's fluidity_message_listener. *)

Message(event, c) == [event |-> event, comp |-> c]

Take(event) ==
  /\ events # << >> /\ Head(events).event = event
  /\ events' = Tail(events)

OnAppCreated ==
  /\ Take("APP_CREATED")
  /\ controller' = [controller EXCEPT ![Cluster] = StartPolicies(Cluster, Received(@))]
  /\ heard' = TRUE
  /\ UNCHANGED <<fluidityVars, clusterVars, requests, nodeVars, policy, stuck, forgotten,
                 boundVars>>

\* Any order: that of the dictionaries.
RemovalsFrom(n) ==
  LET comps == nodes_state[n].comps
      order == CHOOSE o \in Bijection(1..Cardinality(comps), comps) : TRUE
  IN  [i \in 1..Cardinality(comps) |-> Message("COMPONENT_REMOVED", order[i])]

\* The nodes are told only if deleting the policies did not raise; the Kubernetes calls
\* that apply the change of the interval do not suspend the listener.
OnAppDeleted ==
  /\ Take("APP_DELETED")
  /\ LET c == Terminated(controller[Cluster])
     IN  /\ controller' = [controller EXCEPT ![Cluster] = DeletePolicies(c)]
         /\ IF DeletionRaises(c)
            THEN stuck' = stuck \union {Cluster} /\ UNCHANGED <<inbox, nodes_state, untold>>
            ELSE /\ inbox' = [n \in Nodes |-> inbox[n] \o RemovalsFrom(n)]
                 /\ nodes_state' = [n \in Nodes |->
                      [nodes_state[n] EXCEPT !.app = FALSE, !.comps = {}]]
                 /\ untold' = {} /\ UNCHANGED stuck
  /\ UNCHANGED <<fluidityVars, answer, requests, active, policy, agentVars, boundVars>>

\* An answer without pods is skipped: the plan failed.
OnPlanExecuted ==
  /\ Take("PLAN_EXECUTED")
  /\ answer' = IF Head(events).report = << >> THEN Handled
               ELSE [steps |-> Head(events).plan, report |-> Head(events).report, rest |-> << >>]
  /\ UNCHANGED <<fluidityVars, nodes_state, untold, requests, nodeVars, controller, policy,
                 stuck, agentVars, boundVars>>

\* The listener goes over the steps and the pods without ever being suspended.
Reporting == answer # Handled

GoOn(steps, rest) ==
  answer' = IF steps = << >> /\ rest = << >> THEN Handled
            ELSE [answer EXCEPT !.steps = steps, !.rest = rest]

\* KeyError: the rest of the answer is not handled.
Raise == answer' = Handled

Tell(n, event, c) == inbox' = [inbox EXCEPT ![n] = Append(@, Message(event, c))]

\* Deviation: only the pods of the first component are reported.
ReportFirst ==
  /\ answer.rest = << >> /\ answer.steps # << >> /\ Head(answer.steps).action # "change_spec"
  /\ GoOn(Tail(answer.steps), SubSeq(answer.report, 1, 1))
  /\ UNCHANGED <<nodes_state, untold, inbox>>

\* Every step but change_spec goes over all pods of the answer.
ReportStep ==
  /\ answer.rest = << >> /\ answer.steps # << >> /\ Head(answer.steps).action # "change_spec"
  /\ GoOn(Tail(answer.steps), answer.report)
  /\ UNCHANGED <<nodes_state, untold, inbox>>

\* A component the node did not have is added to its state, and the node not told of it.
ReportSpec ==
  /\ answer.rest = << >> /\ answer.steps # << >> /\ Head(answer.steps).action = "change_spec"
  /\ LET c == Head(answer.steps).comp
         n == Head(answer.steps).host
     IN  IF nodes_state[n].app
         THEN /\ GoOn(Tail(answer.steps), << >>)
              /\ nodes_state' = [nodes_state EXCEPT ![n].comps = @ \union {c}]
              /\ Tell(n, "COMPONENT_UPDATED", c)
              /\ untold' = IF c \in nodes_state[n].comps THEN untold ELSE untold \union {<<c, n>>}
         ELSE Raise /\ UNCHANGED <<nodes_state, untold, inbox>>

\* The pods that are left of an answer when its first one is handled.
RestOf(report) == IF Len(Head(report)) = 1 THEN Tail(report) ELSE [report EXCEPT ![1] = Tail(@)]

ReportPlaced ==
  /\ answer.rest # << >> /\ Head(Head(answer.rest)).event = "placed"
  /\ LET pod == Head(Head(answer.rest))
     IN  /\ nodes_state' = [nodes_state EXCEPT ![pod.host] =
                              [known |-> TRUE, app |-> TRUE, comps |-> @.comps \union {pod.comp}]]
         /\ Tell(pod.host, "COMPONENT_PLACED", pod.comp)
         /\ untold' = untold \ {<<pod.comp, pod.host>>}
  /\ GoOn(answer.steps, RestOf(answer.rest))

\* The node is told before the component is looked up in its state.
ReportRemoved ==
  /\ answer.rest # << >> /\ Head(Head(answer.rest)).event = "removed"
  /\ LET pod == Head(Head(answer.rest))
     IN  /\ nodes_state' = [nodes_state EXCEPT ![pod.host].comps = @ \ {pod.comp}]
         /\ Tell(pod.host, "COMPONENT_REMOVED", pod.comp)
         /\ untold' = untold \ {<<pod.comp, pod.host>>}
         /\ IF pod.comp \in nodes_state[pod.host].comps
            THEN GoOn(answer.steps, RestOf(answer.rest)) ELSE Raise

Report ==
  /\ ReportStep \/ ReportSpec \/ ReportPlaced \/ ReportRemoved
  /\ UNCHANGED <<fluidityVars, events, requests, active, controller, policy, stuck, agentVars,
                 boundVars>>

\* The cluster agent's message_queue_listener; KeyError for a node it does not know.
OnSyncRequest ==
  /\ requests # << >>
  /\ requests' = Tail(requests)
  /\ LET n == Head(requests)
     IN  inbox' = IF nodes_state[n].known
                  THEN [inbox EXCEPT ![n] = Append(@, [event |-> "NODE_STATE_SYNC",
                         app |-> nodes_state[n].app, comps |-> nodes_state[n].comps])]
                  ELSE inbox
  /\ untold' = {p \in untold : p[2] # Head(requests)}
  /\ UNCHANGED <<fluidityVars, events, nodes_state, answer, active, controller, policy,
                 stuck, agentVars, boundVars>>

\* The agent and its Fluidity restart: the pods are removed, the custom resource is
\* announced again.  Requests are kept by the XMPP server, or lost.
ClusterRestarts ==
  /\ faults < MaxFaults /\ faults' = faults + 1 /\ forgotten' = TRUE /\ heard' = FALSE
  /\ pods' = {} /\ doubled' = {} /\ phase' = IF phase = "absent" THEN "absent" ELSE "created"
  /\ events' = IF phase = "absent" THEN << >> ELSE <<[event |-> "APP_CREATED"]>>
  /\ nodes_state' = [n \in Nodes |-> Unknown] /\ untold' = {} /\ UNCHANGED answer
  /\ requests' \in {requests, << >>}
  /\ controller' = [controller EXCEPT ![Cluster] = Fresh(Cluster)]
  /\ stuck' = stuck \ {Cluster} /\ unreported' = FALSE
  /\ UNCHANGED <<nodeVars, policy, apps, plans>>

-----------------------------------------------------------------------------
(* A node agent's message_queue_listener. *)

Receive(n, event) ==
  /\ inbox[n] # << >> /\ Head(inbox[n]).event = event
  /\ inbox' = [inbox EXCEPT ![n] = Tail(@)]
  /\ UNCHANGED <<fluidityVars, events, clusterVars, requests, policy, agentVars,
                 boundVars>>

\* Deviation: what is tested is the component, not the application.
PlaceByComponent(n, comps) ==
  /\ active' = [active EXCEPT ![n] = [listed |-> TRUE, comps |-> @.comps \union comps]]
  /\ controller' = IF comps \subseteq active[n].comps THEN controller
                   ELSE [controller EXCEPT ![n] = StartPolicies(n, Received(@))]

\* A component that is listed already is ignored; a new one in an application that is
\* listed only updates the application's description.
Place(n, comps) ==
  /\ active' = [active EXCEPT ![n] = [listed |-> TRUE, comps |-> @.comps \union comps]]
  /\ controller' = IF active[n].listed THEN controller
                   ELSE [controller EXCEPT ![n] = StartPolicies(n, Received(@))]

OnPlaced(n) ==
  /\ Receive(n, "COMPONENT_PLACED")
  /\ Place(n, {Head(inbox[n]).comp})
  /\ UNCHANGED stuck

OnUpdated(n) ==
  /\ Receive(n, "COMPONENT_UPDATED")
  /\ UNCHANGED <<active, controller, stuck>>

Remaining(n, c) == active[n].comps \ {c}

\* With the last component the application goes -- unless deleting its policies raises:
\* then it stays listed without components.
OnRemoved(n) ==
  /\ Receive(n, "COMPONENT_REMOVED")
  /\ LET comps == Remaining(n, Head(inbox[n]).comp)
         c == Terminated(controller[n])
     IN  IF ~active[n].listed THEN UNCHANGED <<active, controller, stuck>>
         ELSE IF comps # {}
         THEN /\ active' = [active EXCEPT ![n].comps = comps]
              /\ UNCHANGED <<controller, stuck>>
         ELSE /\ controller' = [controller EXCEPT ![n] = DeletePolicies(c)]
              /\ active' = [active EXCEPT ![n] = [listed |-> DeletionRaises(c), comps |-> {}]]
              /\ stuck' = IF DeletionRaises(c) THEN stuck \union {n} ELSE stuck

\* The answer to a synchronisation only adds.
OnSync(n) ==
  /\ Receive(n, "NODE_STATE_SYNC")
  /\ IF Head(inbox[n]).app /\ Head(inbox[n]).comps # {} THEN Place(n, Head(inbox[n]).comps)
                                                         ELSE UNCHANGED <<active, controller>>
  /\ UNCHANGED stuck

\* Deviation: the node does not ask what runs on it.
NoRequest(n) == requests

\* Deviation: the request carries the name of the cluster.
RequestOfCluster(n) == Append(requests, Cluster)

SyncRequest(n) == Append(requests, n)

\* A node agent stops and starts: the messages in its queue are lost, those that the
\* XMPP server still holds may be.
NodeRestarts(n) ==
  /\ faults < MaxFaults /\ faults' = faults + 1
  /\ active' = [active EXCEPT ![n] = NoApplication]
  /\ controller' = [controller EXCEPT ![n] = Fresh(n)]
  /\ \E i \in 0..Len(inbox[n]) : inbox' = [inbox EXCEPT ![n] = SubSeq(@, i + 1, Len(@))]
  /\ requests' = SyncRequest(n)
  /\ stuck' = stuck \ {n}
  /\ UNCHANGED <<fluidityVars, events, clusterVars, policy, agentVars, apps, plans>>

-----------------------------------------------------------------------------

Fluidity ==
  \/ CreateApp \/ DeleteApp
  \/ \E plan \in InitialPlans \union Plans : PlanSucceeds(plan) \/ PlanFails(plan)

ClusterListener == OnAppCreated \/ OnAppDeleted \/ OnPlanExecuted
NodeListener(n) == OnPlaced(n) \/ OnUpdated(n) \/ OnRemoved(n) \/ OnSync(n)

\* While the listener reports, nothing else happens in the cluster agent, and the messages
\* leave when it is done.
Next ==
  \/ Report
  \/ /\ ~Reporting
     /\ \/ Fluidity \/ ClusterListener \/ OnSyncRequest \/ ClusterRestarts
        \/ \E n \in Nodes : NodeListener(n) \/ NodeRestarts(n)
        \/ \E a \in Agents : AddInterval(a) \/ OtherApplication(a)

Spec == Init /\ [][Next]_vars

-----------------------------------------------------------------------------
(* What must hold. *)

Messages ==
  [event : {"COMPONENT_PLACED", "COMPONENT_UPDATED", "COMPONENT_REMOVED"}, comp : Comps]
    \union [event : {"NODE_STATE_SYNC"}, app : BOOLEAN, comps : SUBSET Comps]

Pods == [comp : Comps, event : {"placed", "removed"}, host : Nodes]
Reports == Seq(Seq(Pods) \ {<< >>})

Events ==
  [event : {"APP_CREATED", "APP_DELETED"}]
    \union [event : {"PLAN_EXECUTED"}, plan : Seq(Steps), report : Reports]

TypeOK ==
  /\ events \in Seq(Events)
  /\ answer \in [steps : Seq(Steps), report : Reports, rest : Reports]
  /\ untold \subseteq Comps \X Nodes
  /\ pods \subseteq Comps \X Nodes /\ doubled \subseteq Comps \X Nodes
  /\ phase \in {"absent", "created", "deployed"}
  /\ nodes_state \in [Nodes -> [known : BOOLEAN, app : BOOLEAN, comps : SUBSET Comps]]
  /\ requests \in Seq(Nodes) /\ inbox \in [Nodes -> Seq(Messages)]
  /\ active \in [Nodes -> [listed : BOOLEAN, comps : SUBSET Comps]]
  /\ controller \in [Agents -> [task : BOOLEAN, orphans : Nat, policies : BOOLEAN,
                                interval : BOOLEAN, requested : Nat]]
  /\ policy \in PolicySets /\ stuck \subseteq Agents
  /\ unreported \in BOOLEAN /\ forgotten \in BOOLEAN /\ heard \in BOOLEAN
  /\ apps \in 0..MaxApps /\ plans \in 0..MaxPlans /\ faults \in 0..MaxFaults

\* Once the cluster agent has handled all events, nodes_state is what Fluidity runs:
\* although every step of a plan reports all its pods anew and a KeyError ends the rest,
\* unless pods changed without a report or the removal of an application was cut short
\* by its policies.
NodesStateIsPods ==
  events = << >> /\ ~Reporting /\ ~unreported /\ Cluster \notin stuck =>
    \A n \in Nodes : nodes_state[n].comps = {c \in Comps : <<c, n>> \in pods}

\* A node with nothing left to handle knows exactly the components that the cluster
\* agent believes to run there, whatever was lost or came twice when it restarted --
\* as long as the cluster agent itself did not restart and the node was not told of a
\* component by an update of its specification, which it does not list.
NodeAgreesWithCluster ==
  \A n \in Nodes :
    inbox[n] = << >> /\ (\A i \in DOMAIN requests : requests[i] # n) /\ ~forgotten =>
      \A c \in Comps : <<c, n>> \notin untold =>
        (c \in active[n].comps <=> c \in nodes_state[n].comps)

\* An agent analyses the application while it has something of it and not afterwards:
\* a node while it lists a component, the cluster agent while it was told of the
\* application.  Once deleting the policies raised, a node lists the application without
\* running it.
AnalysisMatchesPlacement ==
  /\ \A n \in Nodes : n \notin stuck => (controller[n].task <=> active[n].comps # {})
  /\ events = << >> => (controller[Cluster].task <=> phase # "absent")

\* A node never runs two analyses of one application, however often components are placed
\* and synchronised.  (The cluster agent does, when it is told twice of an application: it
\* does not look whether it knows the application, and only the later task can be cancelled.)
NodesAnalyzeOnce == \A n \in Nodes : controller[n].orphans = 0
=============================================================================
