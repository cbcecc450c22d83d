---------------------------- MODULE FluidityApps ----------------------------
(***************************************************************************)
(* The FluidityApp controller of a cluster agent: _app_handler takes       *)
(* events of an application's custom resource and placement plans from one *)
(* queue, keeps the hosts and the pod manifests of every component in      *)
(* apps_dict, and creates and deletes pods until they agree.               *)
(*                                                                         *)
(* One application.  The handler calls the synchronous Kubernetes client,  *)
(* so nothing else of the agent runs between two of its calls; Kubernetes  *)
(* does, and the agent may stop there: one action is one call.             *)
(***************************************************************************)
EXTENDS Naturals, Sequences, FiniteSets

CONSTANTS
  NumComps,     \* components, numbered as the description lists them
  Hosts,        \* nodes
  Eligible,     \* the hosts that pass validate_host for a component
  InitialPlans, \* the steps of initial plans
  Plans,        \* the steps of later plans
  MaxPlans, MaxQueue, MaxResources, MaxFaults \* bounds

Comps == 1..NumComps

\* A step of a plan, grouped by component; src_host matters to "move" only.
Steps == [comp : Comps, action : {"deploy", "remove", "move", "change_spec"},
          host : Hosts, src_host : Hosts]

ASSUME ConstantAssumption ==
  /\ NumComps \in Nat /\ MaxPlans \in Nat /\ MaxQueue \in Nat /\ MaxResources \in Nat /\ MaxFaults \in Nat
  /\ Eligible \in [Comps -> SUBSET Hosts]
  /\ InitialPlans \subseteq Seq(Steps) /\ Plans \subseteq Seq(Steps)

VARIABLES
  notifications, \* notification_queue: events of the custom resource, and plans
  app,           \* the entry of apps_dict
  app_copy,      \* _handle_upd_app's copy of it
  monitored,     \* _app_monitor_thr_dict has a task for the application
  handler,       \* what _app_handler is doing
  pods,          \* the pods in the cluster
  resource,      \* the application's custom resource: "none", "here", "elsewhere"
  announced,     \* APP_CREATED was sent to the agent, so that its policies plan
  relisted,      \* the watch may be reopened at a version older than the resource
  answers,       \* what became of each plan
  before,        \* history: the pods at the start of the plan
  respecified,   \* history: a pod specification was changed
  disordered,    \* history: an application was removed while a plan for it waited,
                 \* or announced again without having been removed
  replanned,     \* history: an initial plan came for a component that had hosts
  api_error,     \* history: Kubernetes refused a call
  next_pod, resources, faults \* fresh pod names, what has been used of the bounds

envVars == <<resource, announced, relisted, resources>>
historyVars == <<before, respecified, disordered, replanned>>
vars == <<notifications, app, app_copy, monitored, handler, pods, envVars, answers, historyVars,
          api_error, next_pod, faults>>

NoApp == [known |-> FALSE]

\* _handle_add_app: no host, no pod; here: the cluster_id is this cluster's.
NewApp(here) ==
  [known |-> TRUE, here |-> here, hosts |-> [c \in Comps |-> << >>],
   manifests |-> [c \in Comps |-> << >>], pod_names |-> {}]

Idle == [at |-> "idle"]
NoReport == [placed |-> {}, removed |-> {}, modified |-> {}]
Working(at, plan) ==
  [at |-> at, id |-> plan.id, initial |-> plan.initial, steps |-> plan.steps,
   todo |-> plan.steps, pod |-> {}, status |-> "none", report |-> NoReport]

Added(where) == [op |-> "ADDED", here |-> where = "here"]
Deleted == [op |-> "DELETED"]

\* A new watch reports the custom resource if there is one.
Listing == IF resource = "none" THEN << >> ELSE <<Added(resource)>>

Init ==
  /\ resource \in {"none", "here", "elsewhere"} /\ relisted = (resource # "none")
  /\ notifications = Listing /\ app = NoApp /\ app_copy = NoApp /\ handler = Idle
  /\ monitored = FALSE /\ disordered = FALSE /\ replanned = FALSE
  /\ pods = {} /\ announced = FALSE
  /\ answers = << >> /\ before = {} /\ respecified = FALSE /\ api_error = FALSE
  /\ next_pod = 1 /\ resources = 0 /\ faults = 0

-----------------------------------------------------------------------------
(* The custom resource, and the plans of the agent. *)

\* The watch reports an event, or loses it: after 410 it goes on at the current version.
\* From then on it does not fall back to an older one.
Watched(event) ==
  /\ relisted' = FALSE
  /\ \/ notifications' = Append(notifications, event) /\ UNCHANGED faults
     \/ faults < MaxFaults /\ faults' = faults + 1 /\ UNCHANGED notifications

CreateResource(where) ==
  /\ resource = "none" /\ resources < MaxResources
  /\ resource' = where /\ resources' = resources + 1
  /\ Watched(Added(where))
  /\ UNCHANGED <<app, app_copy, monitored, handler, pods, announced, answers, historyVars,
                 api_error, next_pod>>

DeleteResource ==
  /\ resource # "none"
  /\ resource' = "none"
  /\ Watched(Deleted)
  /\ UNCHANGED <<app, app_copy, monitored, handler, pods, announced, resources, answers,
                 historyVars, api_error, next_pod>>

\* Bound: a modification comes when nothing else waits (its handler changes nothing).
ModifyResource ==
  /\ resource # "none" /\ notifications = << >> /\ handler = Idle
  /\ notifications' = Append(notifications, [op |-> "MODIFIED"]) /\ relisted' = FALSE
  /\ UNCHANGED <<app, app_copy, monitored, handler, pods, resource, announced, resources, answers,
                 historyVars, api_error, next_pod, faults>>

\* The version the watch goes on from is that of the last resource it listed, which may be
\* another application's and older: what came since, perhaps the end of an earlier
\* application of this name, is reported again.
WatchRepeats ==
  /\ relisted /\ resource # "none"
  /\ relisted' = FALSE
  /\ \E again \in {<<Added(resource)>>, <<Deleted, Added(resource)>>} :
       notifications' = notifications \o again
  /\ UNCHANGED <<app, app_copy, monitored, handler, pods, resource, announced, resources, answers,
                 historyVars, api_error, next_pod, faults>>

\* Any plan of a policy, as long as the agent analyses the application.
\* Bound: fewer than MaxQueue entries wait in the queue.
Submit(steps, initial) ==
  /\ announced /\ Len(answers) < MaxPlans /\ Len(notifications) < MaxQueue
  /\ answers' = Append(answers, "waiting")
  /\ notifications' = Append(notifications,
       [op |-> "PLAN_SUBMITTED", id |-> Len(answers) + 1, initial |-> initial, steps |-> steps])
  /\ UNCHANGED <<app, app_copy, monitored, handler, pods, envVars, historyVars, api_error,
                 next_pod, faults>>

-----------------------------------------------------------------------------
(* Calls to Kubernetes. *)

Running(name) == \E p \in pods : p.name = name

CreateOk(new) ==
  /\ ~Running(new.name)
  /\ pods' = pods \union {new}
  /\ UNCHANGED <<api_error, faults>>

\* The pod exists already (409), or the call fails.
CreateFails(name) ==
  /\ api_error' = TRUE
  /\ UNCHANGED pods
  /\ IF Running(name) THEN UNCHANGED faults ELSE faults < MaxFaults /\ faults' = faults + 1

DeleteOk(name) ==
  /\ Running(name)
  /\ pods' = {p \in pods : p.name # name}
  /\ UNCHANGED <<api_error, faults>>

\* The pod does not exist (404), or the call fails.
DeleteFails(name) ==
  /\ api_error' = TRUE
  /\ UNCHANGED pods
  /\ IF Running(name) THEN faults < MaxFaults /\ faults' = faults + 1 ELSE UNCHANGED faults

\* A pod disappears: its node is removed, or somebody deletes it.
PodDies(p) ==
  /\ p \in pods /\ faults < MaxFaults
  /\ faults' = faults + 1
  /\ pods' = pods \ {p} /\ before' = before \ {p}
  /\ UNCHANGED <<notifications, app, app_copy, monitored, handler, envVars, answers, respecified,
                 disordered, replanned, api_error, next_pod>>

PodName(c, id) == [comp |-> c, id |-> id]
Manifest(name, h, status) == [name |-> name, host |-> h, status |-> status, shared |-> FALSE]

\* A host in the list of a component.
Entries == [host : Hosts, status : {"PENDING", "ACTIVE", "INACTIVE"}]

\* The elements of s that are in T, in their order.
Filter(s, T) ==
  LET kept[i \in 0..Len(s)] ==
        IF i = 0 THEN << >>
        ELSE IF s[i] \in T THEN Append(kept[i - 1], s[i]) ELSE kept[i - 1]
  IN  kept[Len(s)]

-----------------------------------------------------------------------------
(* _app_handler: events of the custom resource. *)

Take(op) ==
  /\ handler = Idle
  /\ notifications # << >> /\ Head(notifications).op = op
  /\ notifications' = Tail(notifications)

\* A service that cannot be created leaves the entry of apps_dict as it is.  Otherwise it
\* is a new one, also for an application that is known and has pods.
HandleAdded ==
  /\ Take("ADDED")
  /\ announced' = TRUE /\ disordered' = (disordered \/ announced)
  /\ \/ app' = NewApp(Head(notifications).here) /\ UNCHANGED <<faults, api_error>>
     \/ /\ faults < MaxFaults /\ faults' = faults + 1 /\ api_error' = TRUE
        /\ UNCHANGED app
  /\ UNCHANGED <<app_copy, monitored, handler, pods, resource, relisted, resources, answers,
                 before, respecified, replanned, next_pod>>

\* The call of _handle_upd_app lacks an argument and raises.
HandleModified ==
  /\ Take("MODIFIED")
  /\ UNCHANGED <<app, app_copy, monitored, handler, pods, envVars, answers, historyVars, api_error,
                 next_pod, faults>>

HandleDeleted ==
  /\ Take("DELETED")
  /\ announced' = FALSE
  /\ handler' = IF app.known THEN [at |-> "removing", todo |-> app.pod_names] ELSE Idle
  /\ disordered' = (disordered \/ \E i \in DOMAIN notifications' :
                                 notifications'[i].op = "PLAN_SUBMITTED")
  /\ UNCHANGED <<app, app_copy, monitored, pods, resource, relisted, resources, answers, before,
                 respecified, replanned, api_error, next_pod, faults>>

\* delete_running_pods; the application stays in apps_dict if a call fails.
RemovePod ==
  /\ handler.at = "removing"
  /\ \E n \in handler.todo :
       /\ \A m \in handler.todo : n.id <= m.id
       /\ \/ DeleteOk(n) /\ handler' = [handler EXCEPT !.todo = @ \ {n}]
          \/ DeleteFails(n) /\ handler' = Idle
  /\ UNCHANGED <<notifications, app, app_copy, monitored, envVars, answers, historyVars, next_pod>>

\* Deviation (these show that the properties can fail): the pods are left.
ForgetWithoutRemoving ==
  /\ handler.at = "removing"
  /\ handler' = Idle /\ app' = NoApp
  /\ UNCHANGED <<notifications, app_copy, monitored, pods, envVars, answers, historyVars, api_error,
                 next_pod, faults>>

\* Without a monitor the lookup of its task raises before the entry is deleted.
ForgetApp ==
  /\ handler.at = "removing" /\ handler.todo = {}
  /\ handler' = Idle
  /\ app' = IF monitored THEN NoApp ELSE app
  /\ UNCHANGED <<notifications, app_copy, monitored, pods, envVars, answers, historyVars, api_error,
                 next_pod, faults>>

-----------------------------------------------------------------------------
(* _app_handler: an initial plan, and deploy_app_pods_and_configs. *)

\* The end of a plan: with an answer, or by an exception that is only logged.
Finish(status) == handler' = [handler EXCEPT !.at = "reply", !.status = status]
Raise == handler' = Idle /\ answers' = [answers EXCEPT ![handler.id] = "raised"]

Answer ==
  /\ handler.at = "reply"
  /\ handler' = Idle
  /\ answers' = [answers EXCEPT ![handler.id] = handler.status]
  /\ UNCHANGED <<notifications, app, app_copy, monitored, pods, envVars, historyVars, api_error,
                 next_pod, faults>>

TakePlan ==
  /\ Take("PLAN_SUBMITTED")
  /\ before' = pods
  /\ UNCHANGED <<pods, monitored, envVars, respecified, disordered, api_error, next_pod, faults>>

PlanOfUnknownApp ==
  /\ TakePlan /\ ~app.known
  /\ answers' = [answers EXCEPT ![Head(notifications).id] = "raised"]
  /\ UNCHANGED <<app, app_copy, handler, replanned>>

StepsOf(steps, c) == Filter(steps, {s \in Steps : s.comp = c})
ValidSteps(steps) == \A i \in DOMAIN steps : steps[i].host \in Eligible[steps[i].comp]

StartInitialPlan ==
  LET plan == Head(notifications)
  IN  /\ TakePlan /\ app.known /\ plan.initial
      /\ handler' = IF ~ValidSteps(plan.steps)
                    THEN [Working("reply", plan) EXCEPT !.status = "FAILED"]
                    ELSE [Working("deploying", plan) EXCEPT !.todo = IF app.here THEN @ ELSE << >>]
      /\ replanned' = (replanned \/ \E i \in DOMAIN plan.steps : app.hosts[plan.steps[i].comp] # << >>)
      /\ UNCHANGED <<app, app_copy, answers>>

\* The instance that is deployed next: components as the description lists them, each in
\* the plan's order.  What a component depends on is looked up under the key DependsOn,
\* where the custom resource definition has depends_on: priority_list stays in this order,
\* and the handler waits for no component.
IsNext(i, todo) ==
  \A j \in DOMAIN todo :
    \/ todo[i].comp < todo[j].comp
    \/ todo[i].comp = todo[j].comp /\ i <= j

RemoveAt(s, i) == SubSeq(s, 1, i - 1) \o SubSeq(s, i + 1, Len(s))

\* comp_spec['hosts'] becomes a copy of the plan's entries: ACTIVE once deployed.
InitialHosts(c, todo) ==
  LET entries == StepsOf(handler.steps, c)
      waiting == {todo[i] : i \in DOMAIN todo}
  IN  [i \in DOMAIN entries |->
         [host |-> entries[i].host,
          status |-> IF entries[i] \in waiting THEN "PENDING" ELSE "ACTIVE"]]

DeployInstance ==
  /\ handler.at = "deploying"
  /\ \E i \in DOMAIN handler.todo :
       LET c == handler.todo[i].comp
           h == handler.todo[i].host
           todo == RemoveAt(handler.todo, i)
           name == PodName(c, next_pod)
           deployed == [app EXCEPT !.hosts[c] = InitialHosts(c, todo)]
       IN
       /\ IsNext(i, handler.todo)
       /\ \/ /\ CreateOk([name |-> name, host |-> h])
             /\ app' = [deployed EXCEPT !.manifests[c] = Append(@, Manifest(name, h, "ACTIVE")),
                                        !.pod_names = @ \union {name}]
             /\ handler' = [handler EXCEPT !.todo = todo, !.report.placed = @ \union {name}]
          \/ /\ CreateFails(name)
             /\ app' = [deployed EXCEPT !.manifests[c] = Append(@, Manifest(name, h, "PENDING")),
                                        !.pod_names = {}]
             /\ Finish("FAILED")
  /\ next_pod' = next_pod + 1
  /\ UNCHANGED <<notifications, app_copy, monitored, envVars, answers, historyVars>>

\* update_internal_structures and start_monitor.
FinishInitialPlan ==
  /\ handler.at = "deploying" /\ handler.todo = << >>
  /\ monitored' = TRUE
  /\ Finish("COMPLETED")
  /\ UNCHANGED <<notifications, app, app_copy, pods, envVars, answers, historyVars, api_error,
                 next_pod, faults>>

-----------------------------------------------------------------------------
(* _app_handler: a later plan, and _handle_upd_app. *)

\* No adaptation before every component has hosts.  translate_plan: whether the
\* specification of a change_spec differs from the current one is left open.
StartPlan ==
  LET plan == Head(notifications)
      changes == \E i \in DOMAIN plan.steps : plan.steps[i].action = "change_spec"
  IN  /\ TakePlan /\ app.known /\ ~plan.initial
      /\ \/ /\ \/ \E c \in Comps : app.hosts[c] = << >>
               \/ changes
            /\ handler' = [Working("reply", plan) EXCEPT !.status = "FAILED"]
            /\ app_copy' = NoApp
         \/ /\ \A c \in Comps : app.hosts[c] # << >>
            /\ handler' = Working("acting", plan)
            /\ app_copy' = app
      /\ UNCHANGED <<app, answers, replanned>>

Listed(hosts, h) == \E i \in DOMAIN hosts : hosts[i].host = h

\* append_host_to_list: a host that is listed gets the new status.
append_host_to_list(hosts, h, status) ==
  IF Listed(hosts, h)
  THEN [i \in DOMAIN hosts |-> IF hosts[i].host = h THEN [hosts[i] EXCEPT !.status = status]
                                                    ELSE hosts[i]]
  ELSE Append(hosts, [host |-> h, status |-> status])

\* The next action of the plan, which goes on or ends it.
Act(action) ==
  /\ handler.at = "acting" /\ handler.todo # << >> /\ Head(handler.todo).action = action
  /\ UNCHANGED <<notifications, app_copy, monitored, envVars, answers, before, disordered,
                 replanned>>

GoOn == handler' = [handler EXCEPT !.todo = Tail(@)]
ActionEnds == UNCHANGED <<pods, respecified, api_error, next_pod, faults>>

\* A source that is not found fails the plan; what was changed so far stays.
ActMove ==
  LET s == Head(handler.todo)
      valid == s.host \in Eligible[s.comp]
      found == Listed(app.hosts[s.comp], s.src_host)
      left == append_host_to_list(app.hosts[s.comp], s.src_host, "INACTIVE")
  IN  /\ Act("move") /\ ActionEnds
      /\ IF valid /\ found
         THEN GoOn /\ app' = [app EXCEPT !.hosts[s.comp] = append_host_to_list(left, s.host, "PENDING")]
         ELSE Finish("FAILED") /\ UNCHANGED app

\* append_host_to_list returns nothing for a host it appends, which counts as an error:
\* the host stays in the list and the plan fails.
ActDeploy ==
  LET s == Head(handler.todo)
      valid == s.host \in Eligible[s.comp]
      listed == Listed(app.hosts[s.comp], s.host)
  IN  /\ Act("deploy") /\ ActionEnds
      /\ app' = IF valid THEN [app EXCEPT !.hosts[s.comp] = append_host_to_list(@, s.host, "PENDING")]
                         ELSE app
      /\ IF valid /\ listed THEN GoOn ELSE Finish("FAILED")

\* Deviation: the host leaves the list with its pods.
ActRemoveAtOnce ==
  LET s == Head(handler.todo)
  IN  /\ Act("remove") /\ ActionEnds
      /\ IF Listed(app.hosts[s.comp], s.host)
         THEN GoOn /\ app' = [app EXCEPT !.hosts[s.comp] = Filter(@, {e \in Entries : e.host # s.host})]
         ELSE Finish("FAILED") /\ UNCHANGED app

ActRemove ==
  LET s == Head(handler.todo)
  IN  /\ Act("remove") /\ ActionEnds
      /\ IF Listed(app.hosts[s.comp], s.host)
         THEN GoOn /\ app' = [app EXCEPT !.hosts[s.comp] = append_host_to_list(@, s.host, "INACTIVE")]
         ELSE Finish("FAILED") /\ UNCHANGED app

FailAndRestore == app' = app_copy /\ Finish("FAILED")

\* change_comp_spec: the first pod of the component is replaced by one with a new name.
IsFirstPod(n, c) == n.comp = c /\ \A m \in app.pod_names : m.comp = c => n.id <= m.id

\* The new specification takes over the metadata object of the pod template; the
\* manifests of earlier changes share it and are renamed with it.
Renamed(manifests, name) ==
  [i \in DOMAIN manifests |->
     IF manifests[i].shared THEN [manifests[i] EXCEPT !.name = name] ELSE manifests[i]]

ActChangeSpec ==
  LET s == Head(handler.todo)
      valid == s.host \in Eligible[s.comp]
      exists == \E n \in app.pod_names : n.comp = s.comp
      name == PodName(s.comp, next_pod)
  IN  /\ handler.at = "acting" /\ handler.todo # << >> /\ s.action = "change_spec"
      /\ UNCHANGED <<notifications, app_copy, monitored, envVars, before, disordered, replanned>>
      /\ \/ /\ ~valid /\ Finish("FAILED")
            /\ UNCHANGED <<app, pods, answers, respecified, api_error, next_pod, faults>>
         \/ /\ valid /\ ~exists /\ Raise
            /\ UNCHANGED <<app, pods, respecified, api_error, next_pod, faults>>
         \/ /\ valid /\ exists /\ CreateOk([name |-> name, host |-> s.host])
            /\ app' = [app EXCEPT !.pod_names = @ \union {name},
                                  !.manifests[s.comp] = Renamed(@, name)]
            /\ handler' = [handler EXCEPT !.at = "changing", !.pod = {name}]
            /\ respecified' = TRUE /\ next_pod' = next_pod + 1
            /\ UNCHANGED answers
         \/ /\ valid /\ exists /\ CreateFails(name) /\ FailAndRestore
            /\ UNCHANGED <<answers, respecified, next_pod>>

Respecify(manifest, old, new, host) ==
  IF manifest.name = old
  THEN [manifest EXCEPT !.name = new, !.host = host, !.shared = TRUE]
  ELSE manifest

\* Deviation: the pod that is gone is reported.
ReportedOldPod(old, new) == old

ReportedPod(old, new) == new

DeleteOldPod ==
  /\ handler.at = "changing"
  /\ \E old \in app.pod_names, new \in handler.pod :
       LET s == Head(handler.todo)
       IN
       /\ IsFirstPod(old, s.comp)
       /\ \/ /\ DeleteOk(old)
             /\ app' = [app EXCEPT
                  !.pod_names = @ \ {old},
                  !.manifests[s.comp] = [i \in DOMAIN @ |-> Respecify(@[i], old, new, s.host)]]
             /\ handler' = [handler EXCEPT !.at = "acting", !.todo = Tail(@), !.pod = {},
                                           !.report.modified = @ \union {ReportedPod(old, new)}]
          \/ DeleteFails(old) /\ FailAndRestore
  /\ UNCHANGED <<notifications, app_copy, monitored, envVars, answers, historyVars, next_pod>>

\* create_adjusted_pods_and_configs: a manifest for every PENDING host of the
\* application, those that an earlier plan left behind included.
PendingHosts(c) == Filter(app.hosts[c], {e \in Entries : e.status = "PENDING"})

\* Deviation: the names are not drawn anew.
NoNewNames(c) == 0

NamesBefore(c) ==
  Cardinality(UNION {{d} \X DOMAIN PendingHosts(d) : d \in {d \in Comps : d < c}})

AdjustedManifests(c) ==
  [i \in DOMAIN PendingHosts(c) |->
     Manifest(PodName(c, next_pod + NamesBefore(c) + i - 1), PendingHosts(c)[i].host, "PENDING")]

\* Deviation: old pods are deleted before the new ones are created.
StartWithDeleting ==
  /\ handler.at = "acting" /\ handler.todo = << >>
  /\ handler' = [handler EXCEPT !.at = "deleting"]
  /\ UNCHANGED <<notifications, app, app_copy, monitored, pods, envVars, answers, historyVars, api_error,
                 next_pod, faults>>

StartDeploying ==
  /\ handler.at = "acting" /\ handler.todo = << >>
  /\ handler' = [handler EXCEPT !.at = "creating"]
  /\ app' = [app EXCEPT
       !.manifests = [c \in Comps |-> app.manifests[c] \o AdjustedManifests(c)],
       !.hosts = [c \in Comps |-> [i \in DOMAIN app.hosts[c] |->
                    IF app.hosts[c][i].status = "PENDING"
                    THEN [app.hosts[c][i] EXCEPT !.status = "ACTIVE"] ELSE app.hosts[c][i]]]]
  /\ next_pod' = next_pod + NamesBefore(NumComps + 1)
  /\ UNCHANGED <<notifications, app_copy, monitored, pods, envVars, answers, historyVars, api_error, faults>>

\* Manifests as <<component, index>>, and the first of them.
AllManifests == UNION {{c} \X DOMAIN app.manifests[c] : c \in Comps}
IsFirst(x, S) == x \in S /\ \A y \in S : x[1] < y[1] \/ (x[1] = y[1] /\ x[2] <= y[2])

ToCreate == {x \in AllManifests : app.manifests[x[1]][x[2]].status = "PENDING"}
ToDelete == {x \in AllManifests :
               LET m == app.manifests[x[1]][x[2]]
               IN  \E i \in DOMAIN app.hosts[x[1]] :
                     app.hosts[x[1]][i] = [host |-> m.host, status |-> "INACTIVE"]}

\* plan_dict has an entry for the components of the plan only; for another one the
\* pod is created or deleted, and then the lookup raises.
Planned(c) == \E i \in DOMAIN handler.steps : handler.steps[i].comp = c

\* deploy_new_pods.
DeployNewPod ==
  /\ handler.at = "creating"
  /\ \E c \in Comps : \E i \in DOMAIN app.manifests[c] :
       LET m == app.manifests[c][i]
       IN
       /\ IsFirst(<<c, i>>, ToCreate)
       /\ \/ /\ CreateOk([name |-> m.name, host |-> m.host])
             /\ app' = [app EXCEPT !.manifests[c][i].status = "ACTIVE",
                                   !.pod_names = @ \union {m.name}]
             /\ IF Planned(c)
                THEN /\ handler' = [handler EXCEPT !.report.placed = @ \union {m.name}]
                     /\ UNCHANGED answers
                ELSE Raise
          \/ CreateFails(m.name) /\ FailAndRestore /\ UNCHANGED answers
  /\ UNCHANGED <<notifications, app_copy, monitored, envVars, historyVars, next_pod>>

StartDeleting ==
  /\ handler.at = "creating" /\ ToCreate = {}
  /\ handler' = [handler EXCEPT !.at = "deleting"]
  /\ UNCHANGED <<notifications, app, app_copy, monitored, pods, envVars, answers, historyVars, api_error,
                 next_pod, faults>>

RemainingHosts(c) == Filter(app.hosts[c], {e \in Entries : e.status # "INACTIVE"})

\* check_for_hosts_to_delete, component by component; plan_dict has one entry per pod.
DeleteUnusedPod ==
  /\ handler.at = "deleting"
  /\ \E c \in Comps : \E i \in DOMAIN app.manifests[c] :
       LET n == app.manifests[c][i].name
       IN
       /\ IsFirst(<<c, i>>, ToDelete)
       /\ \/ /\ DeleteOk(n)
             /\ IF Planned(c)
                THEN /\ app' = [app EXCEPT !.pod_names = @ \ {n}, !.manifests[c] = RemoveAt(@, i)]
                     /\ handler' = [handler EXCEPT !.report.placed = @ \ {n},
                                                   !.report.modified = @ \ {n},
                                                   !.report.removed = @ \union {n}]
                     /\ UNCHANGED answers
                ELSE /\ app' = [app EXCEPT
                          !.pod_names = @ \ {n},
                          !.hosts = [d \in Comps |-> IF d < c THEN RemainingHosts(d) ELSE @[d]]]
                     /\ Raise
          \/ DeleteFails(n) /\ FailAndRestore /\ UNCHANGED answers
  /\ UNCHANGED <<notifications, app_copy, monitored, envVars, historyVars, next_pod>>

\* Deviation: the hosts stay in the list.
FinishPlanKeepingHosts ==
  /\ handler.at = "deleting" /\ ToDelete = {}
  /\ Finish("COMPLETED")
  /\ UNCHANGED <<notifications, app, app_copy, monitored, pods, envVars, answers, historyVars, api_error,
                 next_pod, faults>>

FinishPlan ==
  /\ handler.at = "deleting" /\ ToDelete = {}
  /\ app' = [app EXCEPT !.hosts = [c \in Comps |-> RemainingHosts(c)]]
  /\ Finish("COMPLETED")
  /\ UNCHANGED <<notifications, app_copy, monitored, pods, envVars, answers, historyVars, api_error,
                 next_pod, faults>>

-----------------------------------------------------------------------------

\* The agent stops and starts again: setup removes the pods it finds (cleanup_pods,
\* which may not succeed) and the watcher reports the custom resource anew.
Restart ==
  /\ faults < MaxFaults /\ faults' = faults + 1
  /\ \E survivors \in {{}, pods} :
       pods' = survivors /\ api_error' = (api_error \/ survivors # {})
  /\ app' = NoApp /\ app_copy' = NoApp /\ handler' = Idle /\ monitored' = FALSE
  /\ announced' = FALSE /\ before' = {}
  /\ notifications' = Listing /\ relisted' = (resource # "none")
  /\ answers' = [i \in DOMAIN answers |-> IF answers[i] = "waiting" THEN "lost" ELSE answers[i]]
  /\ UNCHANGED <<resource, resources, respecified, disordered, replanned, next_pod>>

AppEvent == HandleAdded \/ HandleModified \/ HandleDeleted \/ RemovePod \/ ForgetApp
InitialPlan == StartInitialPlan \/ DeployInstance \/ FinishInitialPlan
LaterPlan ==
  \/ StartPlan \/ ActMove \/ ActDeploy \/ ActRemove \/ ActChangeSpec \/ DeleteOldPod
  \/ StartDeploying \/ DeployNewPod \/ StartDeleting \/ DeleteUnusedPod \/ FinishPlan

AppHandler == AppEvent \/ PlanOfUnknownApp \/ InitialPlan \/ LaterPlan \/ Answer

Next ==
  \/ \E where \in {"here", "elsewhere"} : CreateResource(where)
  \/ DeleteResource \/ ModifyResource \/ WatchRepeats
  \/ \E steps \in InitialPlans : Submit(steps, TRUE)
  \/ \E steps \in Plans : Submit(steps, FALSE)
  \/ AppHandler
  \/ \E p \in pods : PodDies(p)
  \/ Restart

Spec == Init /\ [][Next]_vars

-----------------------------------------------------------------------------
(* What must hold. *)

Names == [comp : Comps, id : 1..(next_pod - 1)]
Manifests == [name : Names, host : Hosts, status : {"PENDING", "ACTIVE"}, shared : BOOLEAN]

Apps == [known : {TRUE}, here : BOOLEAN, hosts : [Comps -> Seq(Entries)],
         manifests : [Comps -> Seq(Manifests)], pod_names : SUBSET Names]

Plan == [op : {"PLAN_SUBMITTED"}, id : DOMAIN answers, initial : BOOLEAN, steps : Seq(Steps)]
Events == [op : {"ADDED"}, here : BOOLEAN] \union [op : {"DELETED", "MODIFIED"}]

Reports == [placed : SUBSET Names, removed : SUBSET Names, modified : SUBSET Names]

\* A plan that is carried out; steps are left in "acting", and the pod that replaces
\* another one is known, while it is "changing".
Workers ==
  [at : {"reply", "deploying", "acting", "changing", "creating", "deleting"},
   id : DOMAIN answers, initial : BOOLEAN, steps : Seq(Steps), todo : Seq(Steps),
   pod : SUBSET Names, status : {"none", "COMPLETED", "FAILED"}, report : Reports]

TypeOK ==
  /\ app \in {NoApp} \union Apps /\ app_copy \in {NoApp} \union Apps
  /\ handler \in {Idle} \union [at : {"removing"}, todo : SUBSET Names] \union Workers
  /\ handler.at \notin {"idle", "reply"} => app.known
  /\ handler.at = "changing" => handler.todo # << >>
  /\ handler.at = "reply" => handler.status # "none"
  /\ notifications \in Seq(Events \union Plan)
  /\ pods \subseteq [name : Names, host : Hosts] /\ before \subseteq [name : Names, host : Hosts]
  /\ resource \in {"none", "here", "elsewhere"} /\ announced \in BOOLEAN /\ relisted \in BOOLEAN
  /\ answers \in Seq({"waiting", "COMPLETED", "FAILED", "raised", "lost"})
  /\ respecified \in BOOLEAN /\ disordered \in BOOLEAN /\ replanned \in BOOLEAN /\ monitored \in BOOLEAN
  /\ api_error \in BOOLEAN /\ next_pod \in Nat \ {0}
  /\ Len(answers) <= MaxPlans /\ resources \in 0..MaxResources /\ faults \in 0..MaxFaults

RunningNames == {p.name : p \in pods}

\* As long as Kubernetes refuses no call, every pod is in the application's list, so
\* that its removal finds it -- whatever plans failed or raised half-way -- and no pod
\* is left once the application is gone.  The exception is an application that is announced
\* again without having been removed: its new entry knows nothing of the pods it had.
NoOrphanPods ==
  handler = Idle /\ ~api_error /\ ~disordered =>
    RunningNames \subseteq (IF app.known THEN app.pod_names ELSE {})

\* Unless a specification was changed, or an initial plan overwrote the hosts of a component:
\* every pod has a manifest on its host, and the host is in the component's list, so that
\* a plan can still move or remove it.
PodsCanBeRemoved ==
  handler = Idle /\ app.known /\ ~api_error /\ ~respecified /\ ~disordered /\ ~replanned =>
    \A p \in pods : LET c == p.name.comp IN
      /\ Listed(app.hosts[c], p.host)
      /\ \E i \in DOMAIN app.manifests[c] :
           app.manifests[c][i].name = p.name /\ app.manifests[c][i].host = p.host

\* A plan that is reported as COMPLETED has worked off the whole application, or for an
\* initial plan all of its components: every host is active and has a pod there, and no
\* pod is elsewhere.
CompletedIsPlaced ==
  /\ handler.at = "reply" /\ handler.status = "COMPLETED"
  /\ app.here /\ ~respecified /\ ~disordered /\ ~replanned /\ ~api_error /\ faults = 0
  => \A c \in Comps : (handler.initial => Planned(c)) =>
       /\ \A i \in DOMAIN app.hosts[c] : app.hosts[c][i].status = "ACTIVE"
       /\ {app.hosts[c][i].host : i \in DOMAIN app.hosts[c]}
            = {p.host : p \in {q \in pods : q.name.comp = c}}

\* What PLAN_EXECUTED reports of a COMPLETED plan is what became of the pods: the node
\* agents learn of each pod that was created, and of each that was removed, unless
\* a specification was changed (the pod that is replaced is not reported).
ReportIsExact ==
  handler.at = "reply" /\ handler.status = "COMPLETED" =>
    LET was == {p.name : p \in before}
        r == handler.report
    IN  /\ (r.placed \union r.modified) \cap was = {}
        /\ RunningNames \ was \subseteq r.placed \union r.modified
        /\ r.removed \cap RunningNames = {}
        /\ (\A i \in DOMAIN handler.steps : handler.steps[i].action # "change_spec") =>
             was \ RunningNames \subseteq r.removed

\* A plan that moves a component never leaves it without a pod: the new one is created
\* before the old one is deleted.
Moves(c) == \E i \in DOMAIN handler.steps :
              handler.steps[i].comp = c /\ handler.steps[i].action = "move"
Has(P, c) == \E p \in P : p.name.comp = c

MoveKeepsAPod ==
  [][\A c \in Comps :
       /\ handler.at \in {"acting", "changing", "creating", "deleting"} /\ faults' = 0
       /\ Moves(c) /\ ~respecified' /\ Has(pods, c)
       => Has(pods', c)]_vars

\* controller.py: "Revert to previous specs" -- a plan that is answered FAILED leaves the
\* hosts of the application as they were.
FailedPlanReverts ==
  handler.at = "reply" /\ handler.status = "FAILED" /\ ~handler.initial /\ app_copy.known =>
    app.hosts = app_copy.hosts
=============================================================================
