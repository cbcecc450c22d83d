---------------------------- MODULE PlanPipeline ----------------------------
(***************************************************************************)
(* The Analyze / Plan / Schedule / Execute pipeline of one MLSysOps agent  *)
(* (agents/mlsysops): applications come and go, Analyze tasks start Plan   *)
(* tasks, every Plan task logs a plan and puts it on the queue state.plans,*)
(* the Plan Scheduler drains the queue once per tick and starts one        *)
(* Execute task per granted (plan, mechanism) pair, and the answer of an   *)
(* asynchronous mechanism comes back later as PLAN_EXECUTED.               *)
(*                                                                         *)
(* The agent is one asyncio event loop, so an action here is what a        *)
(* coroutine does between two suspensions.  The scheduler's tick does not  *)
(* suspend after its sleep: it is written as one step per plan and asset,  *)
(* and Idle keeps every other coroutine out while a tick is going on.      *)
(***************************************************************************)
EXTENDS Naturals, Sequences, Functions

CONSTANTS
  Apps,                  \* application ids
  AppPolicies,           \* names of the application-scoped policies
  GlobalPolicies,        \* names of the global policies
  CorePolicies,          \* the policies loaded with core=True
  Mechanisms,            \* names a plan may use as an asset
  ActiveMechanisms,      \* state.active_mechanisms: modules loaded by the agent
  ConfiguredMechanisms,  \* state.configuration.mechanisms
  Deferred,              \* mechanisms whose apply answers later (fluidity, fluidity_proxy)
  Blocking,              \* mechanisms whose apply suspends and returns None (clusterPlacement)
  AssetLists,            \* the keys, in order, of the dictionaries policies may return
  Uids                   \* bound: the uuids, one per Plan task that is ever started

Owners == Apps \union GlobalPolicies

NoPlan == [application_id |-> "none", core |-> FALSE, assets |-> << >>]
NoUid == "none"

ASSUME PolicyAssumption ==
  /\ Apps \intersect GlobalPolicies = {}
  /\ CorePolicies \subseteq AppPolicies \union GlobalPolicies
ASSUME MechanismAssumption ==
  /\ ActiveMechanisms \subseteq Mechanisms
  /\ Deferred \subseteq ActiveMechanisms
  /\ Blocking \subseteq ActiveMechanisms
  /\ Deferred \intersect Blocking = {}
  /\ NoUid \notin Uids
ASSUME AssetAssumption ==
  \* a Python dictionary has each key once
  \A s \in AssetLists :
    /\ s \in Seq(Mechanisms)
    /\ IsInjective(s)

VARIABLES
  applications,       \* state.applications
  analyzing,          \* ApplicationController.application_tasks_running
  orphaned,           \* apps with an Analyze task that a later one of the same app replaced there
  active_policies,    \* apps with an entry in PolicyController.active_policies["application"]
  listener,           \* the message listener: idle, or suspended half-way through an app event
  task,               \* the Plan task of each uid
  plan,               \* the Plan object of each uid (assets filled in by the policy)
  status,             \* task_log[uid].status
  mechanism,          \* task_log[uid].mechanism
  plans,              \* state.plans, the asyncio queue
  current_plan_list,  \* what the running tick drained and has not finished; <<>> outside a tick
  position,           \* index of the next asset of the first plan of current_plan_list
  mechanisms_touched, \* the plan a non-core grant of this tick came from, per mechanism
  ready,              \* Execute tasks created and not run yet, in the loop's order
  applying,           \* <<uid, asset>> whose apply is suspended
  awaiting            \* <<uid, asset>> handed to a deferred mechanism, answer outstanding

appVars   == <<applications, analyzing, orphaned, active_policies, listener>>
tickVars  == <<current_plan_list, position, mechanisms_touched>>
execVars  == <<ready, applying, awaiting>>
logVars   == <<status, mechanism>>
vars == <<appVars, task, plan, logVars, plans, tickVars, execVars>>

TaskStates == {"absent", "created", "planning", "logged", "dropped"}
Statuses == {"absent", "Queued", "Scheduled", "Discarded", "Pending", "Failed", "Completed"}
MechanismStatuses == {"none", "Pending", "Success", "Failed"}

Pairs == Uids \X Mechanisms

\* The event loop runs other coroutines only while the scheduler sleeps.
Idle == current_plan_list = << >>

Init ==
  /\ applications = {} /\ analyzing = {} /\ orphaned = {} /\ active_policies = {}
  /\ listener = <<"idle">>
  /\ task = [u \in Uids |-> "absent"]
  /\ plan = [u \in Uids |-> NoPlan]
  /\ status = [u \in Uids |-> "absent"]
  /\ mechanism = [u \in Uids |-> [a \in Mechanisms |-> "none"]]
  /\ plans = << >>
  /\ current_plan_list = << >> /\ position = 1
  /\ mechanisms_touched = [a \in Mechanisms |-> NoUid]
  /\ ready = << >> /\ applying = {} /\ awaiting = {}

-----------------------------------------------------------------------------
(* Applications: the listener awaits inside both handlers. *)

OnApplicationReceived(a) ==
  /\ Idle /\ listener = <<"idle">>
  /\ applications' = applications \union {a}
  /\ listener' = <<"starting", a>>
  /\ UNCHANGED <<analyzing, orphaned, active_policies, task, plan, logVars, plans, tickVars, execVars>>

\* A second Analyze task of one application takes the first one's place in
\* application_tasks_running; the first keeps running, and nobody cancels it.
StartApplicationPolicies(a) ==
  /\ Idle /\ listener = <<"starting", a>>
  /\ analyzing' = analyzing \union {a}
  /\ orphaned' = orphaned \union (analyzing \intersect {a})
  /\ active_policies' = active_policies \union (IF AppPolicies = {} THEN {} ELSE {a})
  /\ listener' = <<"idle">>
  /\ UNCHANGED <<applications, task, plan, logVars, plans, tickVars, execVars>>

OnApplicationTerminated(a) ==
  /\ Idle /\ listener = <<"idle">>
  /\ a \in analyzing \union active_policies
  /\ analyzing' = analyzing \ {a}
  /\ applications' = IF a \in analyzing THEN applications \ {a} ELSE applications
  /\ listener' = IF a \in active_policies THEN <<"deleting", a>> ELSE listener
  /\ UNCHANGED <<orphaned, active_policies, task, plan, logVars, plans, tickVars, execVars>>

\* remove_interval raises KeyError for a policy without a scrape interval: the
\* listener catches it and the policies of the application stay.
DeleteApplicationPolicies(a) ==
  /\ Idle /\ listener = <<"deleting", a>>
  /\ \/ active_policies' = active_policies \ {a}
     \/ UNCHANGED active_policies
  /\ listener' = <<"idle">>
  /\ UNCHANGED <<applications, analyzing, orphaned, task, plan, logVars, plans, tickVars, execVars>>

-----------------------------------------------------------------------------
(* Analyze and Plan tasks. *)

\* A positive analysis starts a Plan task; nothing limits how many run at once.
Analyze(owner, policy) ==
  /\ Idle
  /\ \/ /\ owner \in (analyzing \union orphaned) \intersect active_policies \intersect applications
        /\ policy \in AppPolicies
     \/ owner \in GlobalPolicies /\ policy = owner
  /\ \E u \in Uids :
       /\ task[u] = "absent"
       /\ task' = [task EXCEPT ![u] = "created"]
       /\ plan' = [plan EXCEPT ![u] =
            [application_id |-> owner, core |-> policy \in CorePolicies, assets |-> << >>]]
  /\ UNCHANGED <<appVars, logVars, plans, tickVars, execVars>>

\* run: a policy that is gone (None) or an application that is gone (KeyError)
\* ends the task; otherwise it suspends in policy.plan.
PlanTaskRun(u) ==
  /\ Idle /\ task[u] = "created"
  /\ task' = [task EXCEPT ![u] =
       IF \/ plan[u].application_id \in GlobalPolicies
          \/ plan[u].application_id \in applications \intersect active_policies
       THEN "planning" ELSE "dropped"]
  /\ UNCHANGED <<appVars, plan, logVars, plans, tickVars, execVars>>

\* process_plan after policy.plan returned: log, then queue.
ProcessPlan(u) ==
  /\ Idle /\ task[u] = "planning"
  /\ \E assets \in AssetLists :
       /\ plan' = [plan EXCEPT ![u] = [@ EXCEPT !.assets = assets]]
       /\ mechanism' = [mechanism EXCEPT ![u] =
            [a \in Mechanisms |-> IF a \in Range(assets) THEN "Pending" ELSE "none"]]
  /\ status' = [status EXCEPT ![u] = "Queued"]
  /\ task' = [task EXCEPT ![u] = "logged"]
  /\ plans' = Append(plans, u)
  /\ UNCHANGED <<appVars, tickVars, execVars>>

-----------------------------------------------------------------------------
(* The Plan Scheduler. The tasks a tick creates are in the loop's ready     *)
(* queue long before the one-second timer of the next tick fires.           *)

\* Deviations a bug could introduce (used to show that the properties can fail):
\* the queue is read but not emptied, all but the first plan are lost, and the
\* assets are counted from zero.
WakeKeepingQueue ==
  /\ Idle /\ plans # << >> /\ ready = << >>
  /\ current_plan_list' = plans
  /\ position' = 1
  /\ mechanisms_touched' = [a \in Mechanisms |-> NoUid]
  /\ UNCHANGED <<appVars, task, plan, logVars, plans, execVars>>

WakeWithFirstPlan ==
  /\ Idle /\ plans # << >> /\ ready = << >>
  /\ current_plan_list' = <<Head(plans)>>
  /\ plans' = << >>
  /\ position' = 1
  /\ mechanisms_touched' = [a \in Mechanisms |-> NoUid]
  /\ UNCHANGED <<appVars, task, plan, logVars, execVars>>

WakeAtZero ==
  /\ Idle /\ plans # << >> /\ ready = << >>
  /\ current_plan_list' = plans
  /\ plans' = << >>
  /\ position' = 0
  /\ mechanisms_touched' = [a \in Mechanisms |-> NoUid]
  /\ UNCHANGED <<appVars, task, plan, logVars, execVars>>

SchedulerWake ==
  /\ Idle /\ plans # << >> /\ ready = << >>
  /\ current_plan_list' = plans
  /\ plans' = << >>
  /\ position' = 1
  /\ mechanisms_touched' = [a \in Mechanisms |-> NoUid]
  /\ UNCHANGED <<appVars, task, plan, logVars, execVars>>

\* Deviation: conflicts are not looked for.
DiscardWithoutConflicts(u, a) ==
  \/ status[u] = "Pending" /\ mechanism[u][a] = "Pending"
  \/ /\ plan[u].application_id \notin applications
     /\ plan[u].application_id \notin ActiveMechanisms

ShouldDiscard(u, a) ==
  \/ mechanisms_touched[a] # NoUid
  \/ status[u] = "Pending" /\ mechanism[u][a] = "Pending"
  \/ /\ plan[u].application_id \notin applications
     /\ plan[u].application_id \notin ActiveMechanisms

\* The plan and the asset the tick is at.
AtAsset(u, a) ==
  /\ ~Idle /\ u = Head(current_plan_list)
  /\ position <= Len(plan[u].assets)
  /\ a = plan[u].assets[position]

\* Deviation: a refused command marks its mechanism too.
DiscardTouching(u, a) ==
  /\ AtAsset(u, a)
  /\ ~plan[u].core /\ ShouldDiscard(u, a)
  /\ status' = [status EXCEPT ![u] = "Discarded"]
  /\ mechanisms_touched' = [mechanisms_touched EXCEPT ![a] = u]
  /\ position' = position + 1
  /\ UNCHANGED <<appVars, task, plan, mechanism, plans, current_plan_list, execVars>>

DiscardAsset(u, a) ==
  /\ AtAsset(u, a)
  /\ ~plan[u].core /\ ShouldDiscard(u, a)
  /\ status' = [status EXCEPT ![u] = "Discarded"]
  /\ position' = position + 1
  /\ UNCHANGED <<appVars, task, plan, mechanism, plans, current_plan_list,
                 mechanisms_touched, execVars>>

ScheduleAsset(u, a) ==
  /\ AtAsset(u, a)
  /\ plan[u].core \/ ~ShouldDiscard(u, a)
  /\ status' = [status EXCEPT ![u] = "Scheduled"]
  /\ mechanisms_touched' =
       IF plan[u].core THEN mechanisms_touched ELSE [mechanisms_touched EXCEPT ![a] = u]
  /\ ready' = Append(ready, <<u, a>>)
  /\ position' = position + 1
  /\ UNCHANGED <<appVars, task, plan, mechanism, plans, current_plan_list, applying, awaiting>>

NextPlan ==
  /\ ~Idle
  /\ position > Len(plan[Head(current_plan_list)].assets)
  /\ current_plan_list' = Tail(current_plan_list)
  /\ position' = 1
  /\ UNCHANGED <<appVars, task, plan, logVars, plans, mechanisms_touched, execVars>>

-----------------------------------------------------------------------------
(* MLSState.update_plan_status and the Execute task. *)

\* Deviation: one report is enough.
AnyReported(log) == \E a \in Mechanisms : log[a] \in {"Success", "Failed"}

Settled(log) == \A a \in Mechanisms : log[a] # "Pending"

UpdatePlanStatus(u, a, outcome) ==
  LET log == IF mechanism[u][a] = "none" THEN mechanism[u]
             ELSE [mechanism[u] EXCEPT ![a] = outcome]
  IN  /\ mechanism' = [mechanism EXCEPT ![u] = log]
      /\ status' = [status EXCEPT ![u] =
           IF mechanism[u][a] # "none" /\ Settled(log) THEN "Completed" ELSE @]

UpdateStatus(u, new) ==
  /\ status' = [status EXCEPT ![u] = new]
  /\ UNCHANGED mechanism

Running(u, a) == Idle /\ ready # << >> /\ Head(ready) = <<u, a>> /\ ready' = Tail(ready)

Handled(a) == a \in ConfiguredMechanisms \intersect ActiveMechanisms

\* Nothing is done, and nothing logged, for a mechanism this agent does not run.
ExecuteUnhandled(u, a) ==
  /\ Running(u, a) /\ ~Handled(a)
  /\ UNCHANGED <<appVars, task, plan, logVars, plans, tickVars, applying, awaiting>>

\* The command does not accept the plan uid, or apply raised at once.
ExecuteRaises(u, a) ==
  /\ Running(u, a) /\ Handled(a)
  /\ UpdateStatus(u, "Failed")
  /\ UNCHANGED <<appVars, task, plan, plans, tickVars, applying, awaiting>>

\* apply returned a true value.
ExecuteSucceeds(u, a) ==
  /\ Running(u, a) /\ Handled(a) /\ a \notin Deferred \union Blocking
  /\ UpdatePlanStatus(u, a, "Success")
  /\ UNCHANGED <<appVars, task, plan, plans, tickVars, applying, awaiting>>

\* apply handed the command over; an invalid one is refused by the mechanism,
\* whose answer names no plan, so none is awaited.
ExecuteDefers(u, a) ==
  /\ Running(u, a) /\ Handled(a) /\ a \in Deferred
  /\ UpdateStatus(u, "Pending")
  /\ \/ awaiting' = awaiting \union {<<u, a>>}
     \/ UNCHANGED awaiting
  /\ UNCHANGED <<appVars, task, plan, plans, tickVars, applying>>

ExecuteBlocks(u, a) ==
  /\ Running(u, a) /\ Handled(a) /\ a \in Blocking
  /\ applying' = applying \union {<<u, a>>}
  /\ UNCHANGED <<appVars, task, plan, logVars, plans, tickVars, awaiting>>

\* The suspended apply returns None or raises.
ApplyReturns(u, a) ==
  /\ Idle /\ <<u, a>> \in applying
  /\ applying' = applying \ {<<u, a>>}
  /\ \/ UpdateStatus(u, "Pending")
     \/ UpdateStatus(u, "Failed")
  /\ UNCHANGED <<appVars, task, plan, plans, tickVars, ready, awaiting>>

\* Deviation: the answer may be delivered again.
PlanExecutedAgain(u, a, outcome) ==
  /\ Idle /\ <<u, a>> \in awaiting
  /\ \A i \in 1..Len(ready) : ready[i][1] # u
  /\ UpdatePlanStatus(u, a, outcome)
  /\ UNCHANGED <<appVars, task, plan, plans, tickVars, execVars>>

\* PLAN_EXECUTED: the tasks one tick made ready run back to back, before the
\* listener can be woken by what the first of them submitted.
PlanExecuted(u, a, outcome) ==
  /\ Idle /\ <<u, a>> \in awaiting
  /\ \A i \in 1..Len(ready) : ready[i][1] # u
  /\ awaiting' = awaiting \ {<<u, a>>}
  /\ UpdatePlanStatus(u, a, outcome)
  /\ UNCHANGED <<appVars, task, plan, plans, tickVars, ready, applying>>

-----------------------------------------------------------------------------

AppEvent(a) ==
  \/ OnApplicationReceived(a) \/ StartApplicationPolicies(a)
  \/ OnApplicationTerminated(a) \/ DeleteApplicationPolicies(a)

Scheduler ==
  \/ SchedulerWake
  \/ \E u \in Uids, a \in Mechanisms : DiscardAsset(u, a) \/ ScheduleAsset(u, a)
  \/ NextPlan

Execute(u, a) ==
  \/ ExecuteUnhandled(u, a) \/ ExecuteRaises(u, a) \/ ExecuteSucceeds(u, a)
  \/ ExecuteDefers(u, a) \/ ExecuteBlocks(u, a)

Next ==
  \/ \E a \in Apps : AppEvent(a)
  \/ \E owner \in Owners, policy \in AppPolicies \union GlobalPolicies : Analyze(owner, policy)
  \/ \E u \in Uids : PlanTaskRun(u) \/ ProcessPlan(u)
  \/ Scheduler
  \/ \E u \in Uids, a \in Mechanisms :
       \/ Execute(u, a)
       \/ ApplyReturns(u, a)
       \/ \E outcome \in {"Success", "Failed"} : PlanExecuted(u, a, outcome)

Spec == Init /\ [][Next]_vars

\* The event loop keeps running the scheduler and the tasks that are ready; it
\* promises nothing about policies, mechanisms or applications.
Fairness ==
  /\ WF_vars(Scheduler)
  /\ WF_vars(\E u \in Uids, a \in Mechanisms : Execute(u, a))

FairSpec == Spec /\ Fairness

-----------------------------------------------------------------------------
(* What must hold. *)

TypeOK ==
  /\ applications \subseteq Apps /\ analyzing \subseteq Apps /\ orphaned \subseteq Apps
  /\ active_policies \subseteq Apps
  /\ listener \in {<<"idle">>} \union ({"starting", "deleting"} \X Apps)
  /\ task \in [Uids -> TaskStates]
  /\ plan \in [Uids -> [application_id : Owners \union {"none"}, core : BOOLEAN,
                        assets : AssetLists \union {<< >>}]]
  /\ status \in [Uids -> Statuses]
  /\ mechanism \in [Uids -> [Mechanisms -> MechanismStatuses]]
  /\ plans \in Seq(Uids) /\ current_plan_list \in Seq(Uids) /\ position \in Nat \ {0}
  /\ mechanisms_touched \in [Mechanisms -> Uids \union {NoUid}]
  /\ ready \in Seq(Pairs) /\ applying \subseteq Pairs /\ awaiting \subseteq Pairs

InFlight == Range(ready) \union applying \union awaiting

\* Conflict arbitration (mape.md: several policies may plan for one mechanism at
\* once): the Execute tasks a tick leaves behind never hold two commands for one
\* mechanism, unless a core policy issued one of them.
OneCommandPerMechanism ==
  \A i, j \in 1..Len(ready) :
    /\ i # j
    /\ ready[i][2] = ready[j][2]
    => plan[ready[i][1]].core \/ plan[ready[j][1]].core

\* A plan is recorded Completed exactly when every one of its mechanisms has
\* reported, whatever the order in which the Execute tasks of the plan and the
\* PLAN_EXECUTED answers reach the log (update_plan_status).
CompletedIffSettled ==
  \A u \in Uids :
    task[u] = "logged" /\ plan[u].assets # << >> =>
      (status[u] = "Completed" <=> Settled(mechanism[u]))

\* A command is in one place only while it is in flight, and nothing has been
\* recorded for its mechanism yet: no command is issued twice (ExecuteTask).
InFlightIsUnreported ==
  /\ applying \intersect awaiting = {}
  /\ (applying \union awaiting) \intersect Range(ready) = {}
  /\ IsInjective(ready)
  /\ \A p \in InFlight : mechanism[p[1]][p[2]] = "Pending"

\* The scheduler's check for "a pending task log from previous runs" finds none:
\* a plan waits in the queue once, and none of its commands has run by then.
QueuedPlansHaveNotRun ==
  \A u \in Range(plans) \union Range(current_plan_list) :
    /\ status[u] \in {"Queued", "Scheduled", "Discarded"}
    /\ \A a \in Range(plan[u].assets) : mechanism[u][a] = "Pending"
    /\ \A a \in Mechanisms : <<u, a>> \notin applying \union awaiting

\* First come, first served: a non-core command refused for a conflict lost to a
\* command granted in the same tick, whose Execute task is still to run.
TouchedIsGranted ==
  ~Idle => \A a \in Mechanisms :
    LET u == mechanisms_touched[a]
    IN  u # NoUid => <<u, a>> \in Range(ready) /\ ~plan[u].core

\* What a mechanism reported is never overwritten, and a Completed plan stays
\* Completed: late Execute tasks, answers and ticks do not reopen it.
OutcomesAreFinal ==
  [][\A u \in Uids :
       /\ status[u] = "Completed" => status'[u] = "Completed"
       /\ \A a \in Mechanisms : mechanism[u][a] \in {"Success", "Failed"}
            => mechanism'[u][a] = mechanism[u][a]]_vars

\* Every plan that names a mechanism is decided: the scheduler loses none of the
\* plans it drains from the queue.
EveryPlanIsDecided ==
  \A u \in Uids :
    (status[u] = "Queued" /\ plan[u].assets # << >>) ~> status[u] # "Queued"

\* mape.md:47: a plan that targets a mechanism already configured by a previous
\* plan is discarded -- as a whole, so none of its commands is ever issued.
DiscardedIsNotExecuted ==
  \A u \in Uids : status[u] = "Discarded" =>
    \A a \in Mechanisms : <<u, a>> \notin InFlight /\ mechanism[u][a] \notin {"Success", "Failed"}

\* mape.md:36-38: the outcome of every Execute task is logged into the state.  Once
\* nothing of a plan that was not discarded is queued or in flight, the log says how
\* each mechanism of it ended, or that the plan failed.
OutcomeIsLogged ==
  \A u \in Uids :
    /\ task[u] = "logged" /\ status[u] # "Discarded"
    /\ u \notin Range(plans) \union Range(current_plan_list)
    /\ \A a \in Mechanisms : <<u, a>> \notin InFlight
    => \A a \in Range(plan[u].assets) : Handled(a) =>
         status[u] = "Failed" \/ mechanism[u][a] \in {"Success", "Failed"}
=============================================================================
