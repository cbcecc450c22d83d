---------------------------- MODULE AppLifecycle ----------------------------
(***************************************************************************)
(* The life of an application at the top of the continuum: the northbound  *)
(* API writes requests and statuses to Redis, the continuum agent's        *)
(* ProcessBehaviour consumes them and puts events on the agent's internal  *)
(* message queue, whose listener starts and stops the application;         *)
(* FailoverBehavior submits the deployed applications again after a        *)
(* restart.                                                                *)
(*                                                                         *)
(* The API and the agent are two processes that interleave between any two *)
(* Redis commands.  Inside each of them the Redis client blocks the event  *)
(* loop: one request, and one coroutine of the agent, runs at a time.  The *)
(* placement plans of an application go through PlanPipeline; here a plan  *)
(* is under way or not.                                                    *)
(***************************************************************************)
EXTENDS Naturals, Sequences

CONSTANTS
  Apps,         \* application names
  MaxRequests,  \* bound: requests the API accepts
  MaxFaults     \* bound: failed requests, failed deployments and agent crashes

ASSUME BoundAssumption == MaxRequests \in Nat /\ MaxFaults \in Nat

NoApp == "none"
ASSUME AppAssumption == NoApp \notin Apps

VARIABLES
  valid_descriptions_queue, \* Redis list: full descriptions, and name-only entries of removals
  system_app_hash,          \* Redis hash: the status of every application
  app_data_hash,            \* Redis hash: apps whose description (and component list) is stored
  api,                      \* the request the API is handling, and its next step
  asked,                    \* history: the last request of each app that was answered with success
  agent,                    \* the coroutine of the agent that is between two Redis commands
  failover_due,             \* FailoverBehavior has not run since the agent started
  missed,                   \* history: deployed apps whose description FailoverBehavior did not find
  message_queue,            \* the agent's internal queue
  running,                  \* the description each app runs with (application_tasks_running)
  active_policies,          \* apps with an entry in PolicyController.active_policies
  scrape_interval,          \* the policy's entry in requests_scrape_intervals: "set", and "due" to be set
  terminating,              \* the app whose removal event the listener is suspended in
  planned,                  \* apps with a placement plan under way
  resources,                \* the custom resources in Karmada
  requests, faults          \* what has been used of the bounds

redisVars == <<valid_descriptions_queue, system_app_hash, app_data_hash>>
apiVars == <<api, asked, requests>>
failoverVars == <<failover_due, missed>>
loopVars == <<running, active_policies, scrape_interval, terminating, planned>>
agentVars == <<agent, failoverVars, message_queue, loopVars>>
vars == <<redisVars, apiVars, agentVars, resources, faults>>

Payloads == {"full", "name", "none"}
Statuses == {"absent", "Queued", "Under_deployment", "Deployed", "Deployment_Failed",
             "To_be_removed", "Removed"}
Entries == [app : Apps, payload : {"full", "name"}]
Events == [event : {"application_submitted"}, app : Apps, payload : Payloads]
          \union [event : {"application_removed"}, app : Apps, payload : {"name"}]

Submitted(a, p) == [event |-> "application_submitted", app |-> a, payload |-> p]
Removed(a) == [event |-> "application_removed", app |-> a, payload |-> "name"]

IdleApi == [at |-> "idle", app |-> NoApp]
IdleAgent == [at |-> "idle", entry |-> [app |-> NoApp, payload |-> "none"], todo |-> {}]
AgentIdle == agent.at = "idle"

Init ==
  /\ valid_descriptions_queue = << >>
  /\ system_app_hash = [a \in Apps |-> "absent"]
  /\ app_data_hash = {}
  /\ api = IdleApi /\ asked = [a \in Apps |-> "none"] /\ requests = 0
  /\ agent = IdleAgent /\ failover_due = TRUE /\ missed = {} /\ message_queue = << >>
  /\ running = [a \in Apps |-> "none"] /\ active_policies = {}
  /\ scrape_interval = {"set"}  \* the policy's template has been initialised
  /\ terminating = NoApp /\ planned = {} /\ resources = {} /\ faults = 0

SetStatus(a, new) == system_app_hash' = [system_app_hash EXCEPT ![a] = new]

-----------------------------------------------------------------------------
(* The northbound API: POST /apps/deploy and DELETE /apps/remove. *)

ApiStep(from, to, a) ==
  /\ api = [at |-> from, app |-> a]
  /\ api' = IF to = "idle" THEN IdleApi ELSE [at |-> to, app |-> a]
  /\ UNCHANGED <<agentVars, resources, faults>>

\* A deployment of an application that has a status is refused.
DeployCheck(a) ==
  /\ api = IdleApi /\ requests < MaxRequests
  /\ system_app_hash[a] = "absent"
  /\ api' = [at |-> "deploy push", app |-> a]
  /\ requests' = requests + 1
  /\ UNCHANGED <<redisVars, asked, agentVars, resources, faults>>

DeployPush(a) ==
  /\ ApiStep("deploy push", "deploy mark", a)
  /\ valid_descriptions_queue' =
       Append(valid_descriptions_queue, [app |-> a, payload |-> "full"])
  /\ UNCHANGED <<system_app_hash, app_data_hash, asked, requests>>

DeployMark(a) ==
  /\ ApiStep("deploy mark", "deploy store", a)
  /\ SetStatus(a, "Queued")
  /\ UNCHANGED <<valid_descriptions_queue, app_data_hash, asked, requests>>

DeployStore(a) ==
  /\ ApiStep("deploy store", "idle", a)
  /\ app_data_hash' = app_data_hash \union {a}
  /\ asked' = [asked EXCEPT ![a] = "deploy"]
  /\ UNCHANGED <<valid_descriptions_queue, system_app_hash, requests>>

RemoveCheck(a) ==
  /\ api = IdleApi /\ requests < MaxRequests
  /\ system_app_hash[a] # "absent"
  /\ api' = [at |-> "remove mark", app |-> a]
  /\ requests' = requests + 1
  /\ UNCHANGED <<redisVars, asked, agentVars, resources, faults>>

RemoveMark(a) ==
  /\ ApiStep("remove mark", "remove data", a)
  /\ SetStatus(a, "To_be_removed")
  /\ UNCHANGED <<valid_descriptions_queue, app_data_hash, asked, requests>>

RemoveData(a) ==
  /\ ApiStep("remove data", "remove push", a)
  /\ app_data_hash' = app_data_hash \ {a}
  /\ UNCHANGED <<valid_descriptions_queue, system_app_hash, asked, requests>>

\* Deviation (these show that the properties can fail): nothing is pushed.
RemoveWithoutPush(a) ==
  /\ ApiStep("remove push", "idle", a)
  /\ asked' = [asked EXCEPT ![a] = "remove"]
  /\ UNCHANGED <<redisVars, requests>>

RemovePush(a) ==
  /\ ApiStep("remove push", "idle", a)
  /\ valid_descriptions_queue' =
       Append(valid_descriptions_queue, [app |-> a, payload |-> "name"])
  /\ asked' = [asked EXCEPT ![a] = "remove"]
  /\ UNCHANGED <<system_app_hash, app_data_hash, requests>>

\* A Redis error or the end of the API process: the commands already sent stay.
RequestFails ==
  /\ api # IdleApi /\ faults < MaxFaults
  /\ api' = IdleApi /\ faults' = faults + 1
  /\ UNCHANGED <<redisVars, asked, requests, agentVars, resources>>

-----------------------------------------------------------------------------
(* ProcessBehaviour.run, one step per Redis command; the internal queue is  *)
(* unbounded, so putting an event on it does not suspend.                   *)

AgentStep(from, to) ==
  /\ agent.at = from
  /\ agent' = IF to = "idle" THEN IdleAgent ELSE [agent EXCEPT !.at = to]
  /\ missed' = IF from = "deploy" THEN missed \ {agent.entry.app} ELSE missed
  /\ UNCHANGED <<apiVars, failover_due, loopVars, resources>>

ProcessPop ==
  /\ AgentIdle /\ valid_descriptions_queue # << >>
  /\ agent' = [at |-> "popped", entry |-> Head(valid_descriptions_queue), todo |-> {}]
  /\ valid_descriptions_queue' = Tail(valid_descriptions_queue)
  /\ UNCHANGED <<system_app_hash, app_data_hash, apiVars, failoverVars, message_queue,
                 loopVars, resources, faults>>

\* Deviation: the listener is not told of a removal.
ProcessReadSilently ==
  /\ AgentStep("popped", IF system_app_hash[agent.entry.app] = "To_be_removed"
                         THEN "removed" ELSE "deploy")
  /\ UNCHANGED <<redisVars, message_queue, faults>>

\* The status, not the entry, tells a removal from a deployment.
ProcessRead ==
  LET a == agent.entry.app
      removal == system_app_hash[a] = "To_be_removed"
  IN  /\ AgentStep("popped", IF removal THEN "removed" ELSE "deploy")
      /\ message_queue' = IF removal THEN Append(message_queue, Removed(a)) ELSE message_queue
      /\ UNCHANGED <<redisVars, faults>>

ProcessRemoved ==
  /\ AgentStep("removed", "forget")
  /\ SetStatus(agent.entry.app, "Removed")
  /\ UNCHANGED <<valid_descriptions_queue, app_data_hash, message_queue, faults>>

ProcessForget ==
  /\ AgentStep("forget", "idle")
  /\ SetStatus(agent.entry.app, "absent")
  /\ UNCHANGED <<valid_descriptions_queue, app_data_hash, message_queue, faults>>

ProcessDeploy ==
  /\ AgentStep("deploy", "deployed")
  /\ SetStatus(agent.entry.app, "Under_deployment")
  /\ message_queue' = Append(message_queue, Submitted(agent.entry.app, agent.entry.payload))
  /\ UNCHANGED <<valid_descriptions_queue, app_data_hash, faults>>

ProcessDeployed ==
  /\ AgentStep("deployed", "idle")
  /\ SetStatus(agent.entry.app, "Deployed")
  /\ UNCHANGED <<valid_descriptions_queue, app_data_hash, message_queue, faults>>

\* A Redis error while the status of a deployment is written.
DeploymentFails ==
  /\ faults < MaxFaults /\ faults' = faults + 1
  /\ AgentStep("deploy", "idle") \/ AgentStep("deployed", "idle")
  /\ SetStatus(agent.entry.app, "Deployment_Failed")
  /\ UNCHANGED <<valid_descriptions_queue, app_data_hash, message_queue>>

-----------------------------------------------------------------------------
(* FailoverBehavior.run, once per start of the agent: a snapshot of the     *)
(* statuses, then the stored description of every deployed application.     *)

\* Deviations: the lower-cased status is compared with "Deployed"; the coroutine does
\* not end when there is nothing to submit.
FailoverCaseSensitive ==
  /\ AgentIdle /\ failover_due
  /\ failover_due' = FALSE
  /\ UNCHANGED <<redisVars, apiVars, agent, missed, message_queue, loopVars, resources, faults>>

FailoverOfNothing ==
  /\ AgentIdle /\ failover_due
  /\ failover_due' = FALSE
  /\ agent' = [IdleAgent EXCEPT !.at = "failover",
                               !.todo = {a \in Apps : system_app_hash[a] = "Deployed"}]
  /\ UNCHANGED <<redisVars, apiVars, missed, message_queue, loopVars, resources, faults>>

FailoverSnapshot ==
  /\ AgentIdle /\ failover_due
  /\ failover_due' = FALSE
  /\ agent' = LET deployed == {a \in Apps : system_app_hash[a] = "Deployed"}
              IN  IF deployed = {} THEN IdleAgent
                  ELSE [IdleAgent EXCEPT !.at = "failover", !.todo = deployed]
  /\ UNCHANGED <<redisVars, apiVars, missed, message_queue, loopVars, resources, faults>>

FailoverFetch(a) ==
  /\ agent.at = "failover" /\ a \in agent.todo
  /\ message_queue' =
       Append(message_queue, Submitted(a, IF a \in app_data_hash THEN "full" ELSE "none"))
  /\ missed' = IF a \in app_data_hash THEN missed ELSE missed \union {a}
  /\ agent' = IF agent.todo = {a} THEN IdleAgent ELSE [agent EXCEPT !.todo = @ \ {a}]
  /\ UNCHANGED <<redisVars, apiVars, failover_due, loopVars, resources, faults>>

-----------------------------------------------------------------------------
(* MLSContinuumAgent.message_queue_listener. *)

\* Deviation: the listener takes the next event while Kubernetes has not answered.
ListeningOn(event) ==
  /\ AgentIdle
  /\ message_queue # << >> /\ Head(message_queue).event = event
  /\ message_queue' = Tail(message_queue)
  /\ UNCHANGED <<redisVars, apiVars, agent, failoverVars, planned, resources, faults>>

Listening(event) ==
  /\ AgentIdle /\ terminating = NoApp
  /\ message_queue # << >> /\ Head(message_queue).event = event
  /\ message_queue' = Tail(message_queue)
  /\ UNCHANGED <<redisVars, apiVars, agent, failoverVars, planned, resources, faults>>

\* Deviation: an application that still has policies counts as known.
OnSubmittedUnlessPolicies ==
  LET m == Head(message_queue)
  IN  /\ Listening("application_submitted")
      /\ UNCHANGED terminating
      /\ IF m.payload = "none" \/ m.app \in active_policies
         THEN UNCHANGED <<running, active_policies, scrape_interval>>
         ELSE /\ running' = [running EXCEPT ![m.app] = m.payload]
              /\ active_policies' = active_policies \union {m.app}
              /\ scrape_interval' = scrape_interval \union {"due"}

\* An event without a description raises and is dropped; an application that is
\* already known keeps its description.
OnSubmitted ==
  LET m == Head(message_queue)
  IN  /\ Listening("application_submitted")
      /\ UNCHANGED terminating
      /\ IF m.payload = "none" THEN UNCHANGED <<running, active_policies, scrape_interval>>
         ELSE /\ running' = [running EXCEPT ![m.app] = IF @ = "none" THEN m.payload ELSE @]
              /\ active_policies' = active_policies \union {m.app}
              /\ scrape_interval' = scrape_interval \union {"due"}

\* All applications share the entry of their policy in requests_scrape_intervals:
\* the second removal finds none, raises KeyError, and ends there.
OnRemoved ==
  LET a == Head(message_queue).app
      raises == a \in active_policies /\ "set" \notin scrape_interval
  IN  /\ Listening("application_removed")
      /\ running' = [running EXCEPT ![a] = "none"]
      /\ IF raises THEN UNCHANGED <<active_policies, scrape_interval, terminating>>
         ELSE /\ scrape_interval' =
                   IF a \in active_policies THEN scrape_interval \ {"set"} ELSE scrape_interval
              /\ active_policies' = active_policies \ {a}
              /\ terminating' = a

\* delete_cr: the resource is deleted, or Kubernetes answers with an error.
DeleteResource ==
  /\ AgentIdle /\ terminating # NoApp
  /\ terminating' = NoApp
  /\ \/ resources' = resources \ {terminating}
     \/ UNCHANGED resources
  /\ UNCHANGED <<redisVars, apiVars, agent, failoverVars, message_queue, running,
                 active_policies, scrape_interval, planned, faults>>

\* The task Policy.initialize created.
AddNewInterval ==
  /\ AgentIdle /\ "due" \in scrape_interval
  /\ scrape_interval' = {"set"}
  /\ UNCHANGED <<redisVars, apiVars, agent, failoverVars, message_queue, running,
                 active_policies, terminating, planned, resources, faults>>

\* A placement plan of a running application; it is applied or gets lost.
PlanPlacement(a) ==
  /\ AgentIdle /\ running[a] # "none" /\ a \in active_policies
  /\ planned' = planned \union {a}
  /\ UNCHANGED <<redisVars, apiVars, agent, failoverVars, message_queue, running,
                 active_policies, scrape_interval, terminating, resources, faults>>

ApplyPlacement(a) ==
  /\ AgentIdle /\ a \in planned
  /\ planned' = planned \ {a}
  /\ \/ resources' = resources \union {a}
     \/ UNCHANGED resources
  /\ UNCHANGED <<redisVars, apiVars, agent, failoverVars, message_queue, running,
                 active_policies, scrape_interval, terminating, faults>>

\* The agent's memory is lost, Redis and Karmada are not.
Crash ==
  /\ faults < MaxFaults /\ faults' = faults + 1
  /\ agent' = IdleAgent /\ failover_due' = TRUE /\ missed' = {} /\ message_queue' = << >>
  /\ running' = [a \in Apps |-> "none"] /\ active_policies' = {}
  /\ scrape_interval' = {"set"} /\ terminating' = NoApp /\ planned' = {}
  /\ UNCHANGED <<redisVars, apiVars, resources>>

-----------------------------------------------------------------------------

Handler(a) ==
  \/ DeployPush(a) \/ DeployMark(a) \/ DeployStore(a)
  \/ RemoveMark(a) \/ RemoveData(a) \/ RemovePush(a)

ProcessBehaviour ==
  \/ ProcessPop \/ ProcessRead \/ ProcessRemoved \/ ProcessForget
  \/ ProcessDeploy \/ ProcessDeployed

Failover == FailoverSnapshot \/ \E a \in Apps : FailoverFetch(a)

Listener == OnSubmitted \/ OnRemoved \/ DeleteResource

Next ==
  \/ \E a \in Apps : DeployCheck(a) \/ RemoveCheck(a) \/ Handler(a)
  \/ RequestFails
  \/ ProcessBehaviour \/ DeploymentFails
  \/ Failover
  \/ Listener \/ AddNewInterval
  \/ \E a \in Apps : PlanPlacement(a) \/ ApplyPlacement(a)
  \/ Crash

Spec == Init /\ [][Next]_vars

\* A request that was accepted runs to its end, the agent's coroutines take their
\* turns, and calls to Kubernetes return or raise. Nobody has to send requests.
Fairness ==
  /\ WF_vars(\E a \in Apps : Handler(a))
  /\ WF_vars(ProcessBehaviour) /\ WF_vars(Failover)
  /\ WF_vars(Listener) /\ WF_vars(AddNewInterval)

FairSpec == Spec /\ Fairness

-----------------------------------------------------------------------------
(* What must hold. *)

RedisType ==
  /\ valid_descriptions_queue \in Seq(Entries)
  /\ system_app_hash \in [Apps -> Statuses] /\ app_data_hash \subseteq Apps

ApiSteps == {"deploy push", "deploy mark", "deploy store", "remove mark", "remove data", "remove push"}

ApiType ==
  /\ api = IdleApi \/ api \in [at : ApiSteps, app : Apps]
  /\ asked \in [Apps -> {"none", "deploy", "remove"}]
  /\ requests \in 0..MaxRequests

AgentSteps == {"popped", "removed", "forget", "deploy", "deployed"}

AgentType ==
  \/ agent = IdleAgent
  \/ agent \in [at : AgentSteps, entry : Entries, todo : {{}}]
  \/ agent \in [at : {"failover"}, entry : {IdleAgent.entry}, todo : (SUBSET Apps) \ {{}}]

EventType ==
  /\ failover_due \in BOOLEAN /\ missed \subseteq Apps
  /\ message_queue \in Seq(Events)

LoopType ==
  /\ running \in [Apps -> Payloads] /\ active_policies \subseteq Apps
  /\ scrape_interval \subseteq {"set", "due"} /\ terminating \in Apps \union {NoApp}
  /\ planned \subseteq Apps /\ resources \subseteq Apps

TypeOK ==
  RedisType /\ ApiType /\ AgentType /\ EventType /\ LoopType /\ faults \in 0..MaxFaults

\* The events of an application that wait in queue q and will not be dropped.
Pending(q, a) == {i \in 1..Len(q) : q[i].app = a /\ q[i].payload # "none"}

\* What becomes of the application once the listener has worked off q: the last event
\* decides; if there is none, the application stays as it is.
StartsIn(q, r, a) ==
  \/ Pending(q, a) = {} /\ r[a] # "none"
  \/ \E i \in Pending(q, a) :
       /\ q[i].event = "application_submitted"
       /\ \A j \in Pending(q, a) : j <= i

WillRun(a) == StartsIn(message_queue, running, a)

\* No application runs that the API does not know of: one that has no status (and so
\* could be neither listed nor removed) is stopped by the events under way.
RunningIsListed ==
  \A a \in Apps : system_app_hash[a] = "absent" => ~WillRun(a)

\* The status Deployed is true of the agent: it runs the application, or will once
\* the listener has caught up -- also after a crash, as soon as FailoverBehavior has
\* run and if it found the description.
DeployedIsRunning ==
  \A a \in Apps :
    /\ system_app_hash[a] = "Deployed"
    /\ ~failover_due /\ a \notin agent.todo \union missed
    => WillRun(a)

\* The removal of an application never deletes the resource of a later deployment of
\* it: no other event is handled while the listener waits for Kubernetes.
ResourcesOfStopped ==
  [][\A a \in resources \ resources' : running[a] = "none"]_vars

\* A deployment that was answered with success is started, unless it is taken back
\* (with no fault: MaxFaults = 0).
DeployIsServed ==
  \A a \in Apps : asked[a] = "deploy" ~> (running[a] # "none" \/ asked[a] = "remove")

\* A removal leaves the state To_be_removed (with no fault: MaxFaults = 0).
RemovalSettles ==
  \A a \in Apps : system_app_hash[a] = "To_be_removed" ~> system_app_hash[a] # "To_be_removed"

\* Nothing is left to do for the application.
Settled(a) ==
  /\ api.app # a /\ agent.entry.app # a /\ a \notin agent.todo
  /\ \A i \in 1..Len(valid_descriptions_queue) : valid_descriptions_queue[i].app # a
  /\ Pending(message_queue, a) = {} /\ terminating # a

\* northbound-api.md:22: DELETE /apps/remove removes (undeploys) the application.
RemovalUndeploys ==
  \A a \in Apps : asked[a] = "remove" /\ Settled(a) => running[a] = "none"

\* northbound-api.md:19: GET /apps/status gives the current status: what is reported
\* as Queued is queued, or being taken from the queue.
StatusIsCurrent ==
  \A a \in Apps : system_app_hash[a] = "Queued" => ~Settled(a) \/ running[a] = "none"
=============================================================================
