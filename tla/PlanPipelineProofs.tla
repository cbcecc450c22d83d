------------------------- MODULE PlanPipelineProofs -------------------------
(***************************************************************************)
(* Machine-checked proofs about PlanPipeline, for any sets of              *)
(* applications, policies, mechanisms and uuids.                           *)
(***************************************************************************)
EXTENDS PlanRefinement, TLAPS

-----------------------------------------------------------------------------
(* Sequences as queues. *)

\* Appending adds one element, at the end.
LEMMA AppendRange ==
  ASSUME NEW S, NEW s \in Seq(S), NEW e \in S
  PROVE  /\ Append(s, e) \in Seq(S)
         /\ Range(Append(s, e)) = Range(s) \union {e}
<1>1. Append(s, e) \in Seq(S) /\ DOMAIN Append(s, e) = 1..(Len(s) + 1) /\ DOMAIN s = 1..Len(s)
  OBVIOUS
<1>2. Range(Append(s, e)) \subseteq Range(s) \union {e}
  BY <1>1 DEF Range
<1>3. Range(s) \subseteq Range(Append(s, e))
  BY <1>1 DEF Range
<1>4. e \in Range(Append(s, e))
  BY <1>1, Append(s, e)[Len(s) + 1] = e DEF Range
<1> QED
  BY <1>1, <1>2, <1>3, <1>4

\* The elements of a queue whose head is taken.
LEMMA TailRange ==
  ASSUME NEW S, NEW s \in Seq(S), s # << >>
  PROVE  /\ Tail(s) \in Seq(S) /\ Head(s) \in Range(s)
         /\ Range(Tail(s)) \subseteq Range(s)
         /\ IsInjective(s) => Head(s) \notin Range(Tail(s)) /\ IsInjective(Tail(s))
<1>1. Len(s) \in Nat \ {0} /\ DOMAIN s = 1..Len(s) /\ Head(s) = s[1]
  OBVIOUS
<1>2. /\ Tail(s) \in Seq(S) /\ DOMAIN Tail(s) = 1..(Len(s) - 1)
      /\ \A i \in 1..(Len(s) - 1) : Tail(s)[i] = s[i + 1]
  OBVIOUS
<1>3. \A i \in 1..(Len(s) - 1) : i + 1 \in 1..Len(s) /\ i + 1 # 1
  BY <1>1
<1>4. Head(s) \in Range(s) /\ Range(Tail(s)) \subseteq Range(s)
  BY <1>1, <1>2, <1>3 DEF Range
<1>5. ASSUME IsInjective(s) PROVE Head(s) \notin Range(Tail(s))
  BY <1>1, <1>2, <1>3, <1>5 DEF Range, IsInjective
<1>6. ASSUME IsInjective(s) PROVE IsInjective(Tail(s))
  <2> SUFFICES ASSUME NEW i \in 1..(Len(s) - 1), NEW j \in 1..(Len(s) - 1), s[i + 1] = s[j + 1]
               PROVE  i = j
    BY <1>2 DEF IsInjective
  <2> i + 1 = j + 1
    BY <1>1, <1>3, <1>6 DEF IsInjective
  <2> QED
    OBVIOUS
<1> QED
  BY <1>2, <1>4, <1>5, <1>6

\* A queue is its head and the rest.
LEMMA HeadAndTail ==
  ASSUME NEW S, NEW s \in Seq(S), s # << >>
  PROVE  Range(s) = {Head(s)} \union Range(Tail(s))
<1>1. Len(s) \in Nat \ {0} /\ DOMAIN s = 1..Len(s) /\ Head(s) = s[1]
  OBVIOUS
<1>2. Tail(s) \in Seq(S) /\ DOMAIN Tail(s) = 1..(Len(s) - 1)
      /\ \A i \in 1..(Len(s) - 1) : Tail(s)[i] = s[i + 1]
  OBVIOUS
<1>3. ASSUME NEW i \in 1..Len(s) PROVE s[i] \in {Head(s)} \union Range(Tail(s))
  <2>1. CASE i = 1
    BY <1>1, <2>1
  <2>2. CASE i # 1
    <3>1. i - 1 \in 1..(Len(s) - 1) /\ (i - 1) + 1 = i
      BY <1>1, <2>2
    <3>2. Tail(s)[i - 1] = s[i]
      BY <1>2, <3>1
    <3> QED
      BY <1>2, <3>1, <3>2 DEF Range
  <2> QED
    BY <2>1, <2>2
<1>4. Range(s) \subseteq {Head(s)} \union Range(Tail(s))
  BY <1>1, <1>3 DEF Range
<1>5. {Head(s)} \union Range(Tail(s)) \subseteq Range(s)
  BY TailRange, <1>1 DEF Range
<1> QED
  BY <1>4, <1>5

\* Appending an element that is not there keeps a queue free of duplicates.
LEMMA AppendInjective ==
  ASSUME NEW S, NEW s \in Seq(S), NEW e \in S, IsInjective(s), e \notin Range(s)
  PROVE  IsInjective(Append(s, e))
<1>1. DOMAIN Append(s, e) = 1..(Len(s) + 1) /\ DOMAIN s = 1..Len(s) /\ Len(s) \in Nat
  OBVIOUS
<1>2. \A i \in 1..Len(s) : Append(s, e)[i] = s[i] /\ s[i] # e
  BY <1>1 DEF Range
<1>3. Append(s, e)[Len(s) + 1] = e
  OBVIOUS
<1> SUFFICES ASSUME NEW i \in 1..(Len(s) + 1), NEW j \in 1..(Len(s) + 1),
                    Append(s, e)[i] = Append(s, e)[j]
             PROVE  i = j
  BY <1>1 DEF IsInjective
<1>4. CASE i \in 1..Len(s) /\ j \in 1..Len(s)
  BY <1>1, <1>2, <1>4 DEF IsInjective
<1>5. CASE i = Len(s) + 1 \/ j = Len(s) + 1
  BY <1>1, <1>2, <1>3, <1>5
<1> QED
  BY <1>1, <1>4, <1>5

-----------------------------------------------------------------------------
(* Type correctness. *)

LEMMA TypeOKInit == Init => TypeOK
BY PolicyAssumption, MechanismAssumption
   DEF Init, TypeOK, TaskStates, Statuses, MechanismStatuses, NoPlan

LEMMA AppEventType ==
  ASSUME TypeOK, NEW a \in Apps, AppEvent(a)
  PROVE  TypeOK'
BY DEF TypeOK, AppEvent, OnApplicationReceived, StartApplicationPolicies,
       OnApplicationTerminated, DeleteApplicationPolicies, tickVars, execVars, logVars

LEMMA PlanTaskType ==
  ASSUME TypeOK,
         \/ \E owner \in Owners, policy \in AppPolicies \union GlobalPolicies : Analyze(owner, policy)
         \/ \E u \in Uids : PlanTaskRun(u) \/ ProcessPlan(u)
  PROVE  TypeOK'
<1>1. CASE \E owner \in Owners, policy \in AppPolicies \union GlobalPolicies : Analyze(owner, policy)
  BY <1>1 DEF TypeOK, Analyze, TaskStates, appVars, tickVars, execVars, logVars
<1>2. ASSUME NEW u \in Uids, PlanTaskRun(u) PROVE TypeOK'
  BY <1>2 DEF TypeOK, PlanTaskRun, TaskStates, appVars, tickVars, execVars, logVars
<1>3. ASSUME NEW u \in Uids, ProcessPlan(u) PROVE TypeOK'
  <2> PICK assets \in AssetLists :
         /\ plan' = [plan EXCEPT ![u] = [@ EXCEPT !.assets = assets]]
         /\ mechanism' = [mechanism EXCEPT ![u] =
              [a \in Mechanisms |-> IF a \in Range(assets) THEN "Pending" ELSE "none"]]
    BY <1>3 DEF ProcessPlan
  <2>1. [plan[u] EXCEPT !.assets = assets] \in
          [application_id : Owners \union {"none"}, core : BOOLEAN, assets : AssetLists \union {<< >>}]
    <3> DEFINE A == AssetLists \union {<< >>}
    <3>1. plan[u] \in [application_id : Owners \union {"none"}, core : BOOLEAN, assets : A]
      BY DEF TypeOK
    <3>2. assets \in A
      OBVIOUS
    <3> HIDE DEF A
    <3>3. [plan[u] EXCEPT !.assets = assets]
            \in [application_id : Owners \union {"none"}, core : BOOLEAN, assets : A]
      BY <3>1, <3>2
    <3> QED
      BY <3>3 DEF A
  <2>2. [a \in Mechanisms |-> IF a \in Range(assets) THEN "Pending" ELSE "none"]
          \in [Mechanisms -> MechanismStatuses]
    BY DEF MechanismStatuses
  <2>3. plan' \in [Uids -> [application_id : Owners \union {"none"}, core : BOOLEAN,
                           assets : AssetLists \union {<< >>}]]
    BY <2>1 DEF TypeOK
  <2>4. mechanism' \in [Uids -> [Mechanisms -> MechanismStatuses]]
    BY <2>2 DEF TypeOK
  <2>5. task' \in [Uids -> TaskStates] /\ status' \in [Uids -> Statuses] /\ plans' \in Seq(Uids)
    BY <1>3 DEF ProcessPlan, TypeOK, TaskStates, Statuses
  <2> QED
    BY <1>3, <2>3, <2>4, <2>5 DEF TypeOK, ProcessPlan, appVars, tickVars, execVars
<1> QED
  BY <1>1, <1>2, <1>3

LEMMA SchedulerType ==
  ASSUME TypeOK, Scheduler
  PROVE  TypeOK'
<1>1. CASE SchedulerWake
  BY <1>1 DEF TypeOK, SchedulerWake, appVars, execVars, logVars
<1>2. ASSUME NEW u \in Uids, NEW a \in Mechanisms, DiscardAsset(u, a) PROVE TypeOK'
  BY <1>2 DEF TypeOK, DiscardAsset, Statuses, appVars, execVars
<1>3. ASSUME NEW u \in Uids, NEW a \in Mechanisms, ScheduleAsset(u, a) PROVE TypeOK'
  <2>1. ready' \in Seq(Pairs)
    BY <1>3 DEF TypeOK, ScheduleAsset, Pairs
  <2>2. mechanisms_touched' \in [Mechanisms -> Uids \union {NoUid}] /\ position' \in Nat \ {0}
    BY <1>3 DEF TypeOK, ScheduleAsset
  <2> QED
    BY <1>3, <2>1, <2>2 DEF TypeOK, ScheduleAsset, Statuses, appVars
<1>4. CASE NextPlan
  BY <1>4 DEF TypeOK, NextPlan, Idle, appVars, execVars, logVars
<1> QED
  BY <1>1, <1>2, <1>3, <1>4 DEF Scheduler

LEMMA LogType ==
  ASSUME TypeOK, NEW u \in Uids, NEW a \in Mechanisms
  PROVE  /\ \A outcome \in {"Success", "Failed"} : UpdatePlanStatus(u, a, outcome) =>
              status' \in [Uids -> Statuses] /\ mechanism' \in [Uids -> [Mechanisms -> MechanismStatuses]]
         /\ \A new \in Statuses : UpdateStatus(u, new) =>
              status' \in [Uids -> Statuses] /\ mechanism' \in [Uids -> [Mechanisms -> MechanismStatuses]]
<1>1. ASSUME NEW outcome \in {"Success", "Failed"}, UpdatePlanStatus(u, a, outcome)
      PROVE  status' \in [Uids -> Statuses] /\ mechanism' \in [Uids -> [Mechanisms -> MechanismStatuses]]
  <2> DEFINE log == IF mechanism[u][a] = "none" THEN mechanism[u]
                    ELSE [mechanism[u] EXCEPT ![a] = outcome]
  <2>1. log \in [Mechanisms -> MechanismStatuses]
    BY DEF TypeOK, MechanismStatuses
  <2>2. mechanism' = [mechanism EXCEPT ![u] = log]
    BY <1>1 DEF UpdatePlanStatus
  <2>3. status' \in [Uids -> Statuses]
    BY <1>1 DEF UpdatePlanStatus, TypeOK, Statuses
  <2> QED
    BY <2>1, <2>2, <2>3 DEF TypeOK
<1> QED
  BY <1>1 DEF TypeOK, UpdateStatus

LEMMA ExecuteType ==
  ASSUME TypeOK, NEW u \in Uids, NEW a \in Mechanisms,
         \/ Execute(u, a)
         \/ ApplyReturns(u, a)
         \/ \E outcome \in {"Success", "Failed"} : PlanExecuted(u, a, outcome)
  PROVE  TypeOK'
<1> <<u, a>> \in Pairs
  BY DEF Pairs
<1>0. ASSUME Running(u, a) PROVE ready' \in Seq(Pairs)
  BY <1>0 DEF TypeOK, Running
<1>1. CASE ExecuteUnhandled(u, a)
  BY <1>0, <1>1 DEF TypeOK, ExecuteUnhandled, appVars, logVars, tickVars
<1>2. CASE ExecuteRaises(u, a)
  BY <1>0, <1>2, LogType DEF TypeOK, ExecuteRaises, Statuses, appVars, tickVars
<1>3. CASE ExecuteSucceeds(u, a)
  BY <1>0, <1>3, LogType DEF TypeOK, ExecuteSucceeds, appVars, tickVars
<1>4. CASE ExecuteDefers(u, a)
  BY <1>0, <1>4, LogType DEF TypeOK, ExecuteDefers, Statuses, appVars, tickVars
<1>5. CASE ExecuteBlocks(u, a)
  BY <1>0, <1>5 DEF TypeOK, ExecuteBlocks, appVars, tickVars, logVars
<1>6. CASE ApplyReturns(u, a)
  BY <1>6, LogType DEF TypeOK, ApplyReturns, Statuses, appVars, tickVars
<1>7. ASSUME NEW outcome \in {"Success", "Failed"}, PlanExecuted(u, a, outcome) PROVE TypeOK'
  BY <1>7, LogType DEF TypeOK, PlanExecuted, appVars, tickVars
<1> QED
  BY <1>1, <1>2, <1>3, <1>4, <1>5, <1>6, <1>7 DEF Execute

LEMMA TypeOKStep == TypeOK /\ [Next]_vars => TypeOK'
<1> SUFFICES ASSUME TypeOK, [Next]_vars PROVE TypeOK'
  OBVIOUS
<1>1. CASE UNCHANGED vars
  BY <1>1 DEF TypeOK, vars, appVars, tickVars, execVars, logVars
<1>2. CASE Next
  BY <1>2, AppEventType, PlanTaskType, SchedulerType, ExecuteType DEF Next
<1> QED
  BY <1>1, <1>2

\* Every variable of the pipeline keeps its type, in every behaviour (TypeOK).
THEOREM TypeCorrect == Spec => []TypeOK
BY TypeOKInit, TypeOKStep, PTL DEF Spec

-----------------------------------------------------------------------------
(* The inductive invariant. *)

\* The log of a plan is written when the plan is queued, with one entry per asset.
LogInv ==
  \A u \in Uids :
    /\ task[u] # "logged" => status[u] = "absent" /\ \A a \in Mechanisms : mechanism[u][a] = "none"
    /\ task[u] = "logged" =>
         \A a \in Mechanisms : mechanism[u][a] = "none" <=> a \notin Range(plan[u].assets)

\* A plan is queued once, after it is logged, and leaves the queue for one tick.
QueueInv ==
  /\ IsInjective(plans) /\ IsInjective(current_plan_list)
  /\ Range(plans) \intersect Range(current_plan_list) = {}
  /\ \A u \in Range(plans) \union Range(current_plan_list) : task[u] = "logged"

\* Commands in flight belong to plans the scheduler is done with, or to assets
\* before the position of the running tick.
DispatchInv ==
  /\ \A p \in InFlight : task[p[1]] = "logged"
  /\ \A p \in Range(ready) :
       /\ p[1] \notin Range(plans)
       /\ p[1] \in Range(current_plan_list) =>
            /\ p[1] = Head(current_plan_list)
            /\ \E k \in 1..Len(plan[p[1]].assets) : k < position /\ plan[p[1]].assets[k] = p[2]

\* Every non-core command waiting to run holds its mechanism.
GrantInv ==
  \A p \in Range(ready) : ~plan[p[1]].core => mechanisms_touched[p[2]] = p[1]

Bookkeeping == LogInv /\ QueueInv /\ DispatchInv /\ GrantInv
Promises == CompletedIffSettled /\ InFlightIsUnreported /\ QueuedPlansHaveNotRun /\ TouchedIsGranted
IInv == TypeOK /\ Bookkeeping /\ Promises

LEMMA IInvInit == Init => Bookkeeping /\ Promises
<1> SUFFICES ASSUME Init PROVE Bookkeeping /\ Promises
  OBVIOUS
<1> Range(<< >>) = {} /\ IsInjective(<< >>)
  BY DEF Range, IsInjective
<1> QED
  BY DEF Init, Bookkeeping, Promises, LogInv, QueueInv, DispatchInv, GrantInv, CompletedIffSettled,
         InFlightIsUnreported, QueuedPlansHaveNotRun, TouchedIsGranted, InFlight, Idle

\* Steps of the listener change nothing the invariant speaks of.
LEMMA AppEventIInv ==
  ASSUME IInv, UNCHANGED <<task, plan, logVars, plans, tickVars, execVars>>
  PROVE  (Bookkeeping /\ Promises)'
<1>1. Bookkeeping'
  BY DEF IInv, Bookkeeping, LogInv, QueueInv, DispatchInv, GrantInv, InFlight, logVars, tickVars, execVars
<1>2. Promises'
  BY DEF IInv, Promises, CompletedIffSettled, InFlightIsUnreported, QueuedPlansHaveNotRun,
         TouchedIsGranted, InFlight, Idle, Settled, logVars, tickVars, execVars
<1> QED
  BY <1>1, <1>2

\* A Plan task that starts or ends without a plan: its uid is in no queue.
LEMMA PlanTaskIInv ==
  ASSUME IInv, NEW u \in Uids, task[u] # "logged",
         task' \in [Uids -> TaskStates], task'[u] # "logged",
         \A v \in Uids \ {u} : task'[v] = task[v] /\ plan'[v] = plan[v],
         UNCHANGED <<logVars, plans, tickVars, execVars>>
  PROVE  (Bookkeeping /\ Promises)'
<1>1. /\ \A v \in Range(plans) \union Range(current_plan_list) : v \in Uids \ {u}
      /\ \A p \in InFlight : p \in Pairs /\ p[1] \in Uids \ {u} /\ p[2] \in Mechanisms
  BY DEF IInv, Bookkeeping, QueueInv, DispatchInv, TypeOK, Range, InFlight, Pairs
<1>2. LogInv'
  BY DEF IInv, Bookkeeping, LogInv, logVars
<1>3. QueueInv'
  BY <1>1 DEF IInv, Bookkeeping, QueueInv, tickVars
<1>4. InFlight' = InFlight /\ Range(ready) \subseteq InFlight /\ Range(ready') = Range(ready)
  BY DEF InFlight, execVars
<1>5. DispatchInv'
  BY <1>1, <1>4 DEF IInv, Bookkeeping, DispatchInv, tickVars
<1>6. GrantInv'
  BY <1>1, <1>4 DEF IInv, Bookkeeping, GrantInv, tickVars
<1>7. CompletedIffSettled'
  BY DEF IInv, Promises, CompletedIffSettled, Settled, logVars
<1>8. InFlightIsUnreported'
  BY <1>4 DEF IInv, Promises, InFlightIsUnreported, logVars, execVars
<1>9. QueuedPlansHaveNotRun'
  BY <1>1 DEF IInv, Promises, QueuedPlansHaveNotRun, logVars, execVars, tickVars
<1>10. TouchedIsGranted'
  BY <1>1, <1>4 DEF IInv, Promises, TouchedIsGranted, Idle, tickVars
<1> QED
  BY <1>2, <1>3, <1>5, <1>6, <1>7, <1>8, <1>9, <1>10 DEF Bookkeeping, Promises

\* The names a well-typed state speaks of.
LEMMA KnownNames ==
  ASSUME TypeOK
  PROVE  /\ Range(plans) \subseteq Uids /\ Range(current_plan_list) \subseteq Uids
         /\ Range(ready) \subseteq Pairs /\ InFlight \subseteq Pairs
         /\ \A p \in Pairs : p = <<p[1], p[2]>> /\ p[1] \in Uids /\ p[2] \in Mechanisms
         /\ \A u \in Uids : plan[u].assets \in Seq(Mechanisms) /\ IsInjective(plan[u].assets)
         /\ NoUid \notin Uids
<1>1. << >> \in Seq(Mechanisms) /\ IsInjective(<< >>)
  BY DEF IsInjective
<1>2. \A u \in Uids : plan[u].assets \in AssetLists \union {<< >>}
  BY DEF TypeOK
<1>3. \A u \in Uids : plan[u].assets \in Seq(Mechanisms) /\ IsInjective(plan[u].assets)
  BY <1>1, <1>2, AssetAssumption
<1>4. Range(plans) \subseteq Uids /\ Range(current_plan_list) \subseteq Uids /\ Range(ready) \subseteq Pairs
  BY DEF TypeOK, Range
<1>5. InFlight \subseteq Pairs
  BY <1>4 DEF TypeOK, InFlight
<1>6. \A p \in Pairs : p = <<p[1], p[2]>> /\ p[1] \in Uids /\ p[2] \in Mechanisms
  BY DEF Pairs
<1> QED
  BY <1>3, <1>4, <1>5, <1>6, MechanismAssumption

\* A plan enters the queue: nothing is known of its uid before.
LEMMA ProcessPlanIInv ==
  ASSUME IInv, NEW u \in Uids, ProcessPlan(u)
  PROVE  (Bookkeeping /\ Promises)'
<1> TypeOK /\ task[u] # "logged" /\ Idle
  BY DEF IInv, ProcessPlan
<1> PICK assets \in AssetLists :
       /\ plan' = [plan EXCEPT ![u] = [@ EXCEPT !.assets = assets]]
       /\ mechanism' = [mechanism EXCEPT ![u] =
            [a \in Mechanisms |-> IF a \in Range(assets) THEN "Pending" ELSE "none"]]
  BY DEF ProcessPlan
<1>1. /\ \A v \in Uids \ {u} : /\ task'[v] = task[v] /\ plan'[v] = plan[v]
                               /\ status'[v] = status[v] /\ mechanism'[v] = mechanism[v]
      /\ task'[u] = "logged" /\ status'[u] = "Queued" /\ plan'[u].assets = assets
      /\ \A a \in Mechanisms :
           mechanism'[u][a] = IF a \in Range(assets) THEN "Pending" ELSE "none"
  BY DEF ProcessPlan, TypeOK
<1>2. /\ u \notin Range(plans) \union Range(current_plan_list)
      /\ \A p \in InFlight : p \in Pairs /\ p[1] \in Uids \ {u} /\ p[2] \in Mechanisms
  BY KnownNames DEF IInv, Bookkeeping, QueueInv, DispatchInv
<1>3. /\ Range(plans') = Range(plans) \union {u} /\ IsInjective(plans')
      /\ Range(current_plan_list') = {} /\ current_plan_list' = current_plan_list
      /\ Range(current_plan_list) = {} /\ IsInjective(current_plan_list')
  <2>1. plans \in Seq(Uids) /\ IsInjective(plans) /\ plans' = Append(plans, u)
    BY DEF ProcessPlan, IInv, TypeOK, Bookkeeping, QueueInv
  <2>2. Range(plans') = Range(plans) \union {u} /\ IsInjective(plans')
    BY <1>2, <2>1, AppendRange, AppendInjective
  <2>3. current_plan_list = << >> /\ current_plan_list' = << >> /\ Range(<< >>) = {} /\ IsInjective(<< >>)
    BY DEF ProcessPlan, Idle, Range, IsInjective, tickVars
  <2> QED
    BY <2>2, <2>3
<1>4. /\ InFlight' = InFlight /\ ready' = ready /\ applying' = applying /\ awaiting' = awaiting
      /\ mechanisms_touched' = mechanisms_touched /\ position' = position
      /\ Range(ready) \subseteq InFlight
  BY DEF InFlight, ProcessPlan, execVars, tickVars
<1>5. Range(plans) \subseteq Uids \ {u}
  BY <1>2, KnownNames
<1>6. LogInv'
  BY <1>1 DEF IInv, Bookkeeping, LogInv
<1>7. QueueInv'
  BY <1>1, <1>3, <1>5 DEF IInv, Bookkeeping, QueueInv
<1>8. DispatchInv'
  BY <1>1, <1>2, <1>3, <1>4 DEF IInv, Bookkeeping, DispatchInv
<1>9. GrantInv'
  BY <1>1, <1>2, <1>4 DEF IInv, Bookkeeping, GrantInv
<1>10. CompletedIffSettled'
  <2>1. assets # << >> => assets[1] \in Range(assets) /\ assets[1] \in Mechanisms
    BY AssetAssumption DEF Range
  <2> QED
    BY <1>1, <2>1 DEF IInv, Promises, CompletedIffSettled, Settled
<1>11. InFlightIsUnreported'
  BY <1>1, <1>2, <1>4 DEF IInv, Promises, InFlightIsUnreported
<1>12. QueuedPlansHaveNotRun'
  <2>1. \A a \in Mechanisms : <<u, a>> \notin applying \union awaiting
    BY <1>2 DEF InFlight
  <2>2. Range(assets) \subseteq Mechanisms
    BY AssetAssumption DEF Range
  <2> QED
    BY <1>1, <1>3, <1>4, <1>5, <2>1, <2>2 DEF IInv, Promises, QueuedPlansHaveNotRun
<1>13. TouchedIsGranted'
  BY <1>3 DEF TouchedIsGranted, Idle
<1> QED
  BY <1>6, <1>7, <1>8, <1>9, <1>10, <1>11, <1>12, <1>13 DEF Bookkeeping, Promises

-----------------------------------------------------------------------------
(* The scheduler. *)

LEMMA SchedulerWakeIInv ==
  ASSUME IInv, SchedulerWake
  PROVE  (Bookkeeping /\ Promises)'
<1>1. /\ Range(<< >>) = {} /\ IsInjective(<< >>)
      /\ current_plan_list = << >> /\ ready = << >> /\ plans' = << >> /\ current_plan_list' = plans
      /\ UNCHANGED <<task, plan, status, mechanism, ready, applying, awaiting>>
  BY DEF SchedulerWake, Idle, Range, IsInjective, logVars, execVars
<1>2. InFlight' = InFlight /\ \A a \in Mechanisms : mechanisms_touched'[a] = NoUid
  BY <1>1 DEF InFlight, SchedulerWake
<1>3. Bookkeeping'
  BY <1>1, <1>2 DEF IInv, Bookkeeping, LogInv, QueueInv, DispatchInv, GrantInv
<1>4. Promises'
  BY <1>1, <1>2 DEF IInv, Promises, CompletedIffSettled, InFlightIsUnreported,
                    QueuedPlansHaveNotRun, TouchedIsGranted
<1> QED
  BY <1>3, <1>4

\* What the invariant says of the plan and the asset the tick is at.
LEMMA AtAssetFacts ==
  ASSUME IInv, NEW u \in Uids, NEW a \in Mechanisms, AtAsset(u, a)
  PROVE  /\ u \in Range(current_plan_list) /\ u \notin Range(plans)
         /\ task[u] = "logged" /\ status[u] # "Completed"
         /\ position \in 1..Len(plan[u].assets) /\ a = plan[u].assets[position]
         /\ a \in Range(plan[u].assets) /\ mechanism[u][a] = "Pending"
         /\ <<u, a>> \notin InFlight
<1>1. u \in Range(current_plan_list) /\ u \notin Range(plans) /\ task[u] = "logged"
  BY TailRange DEF IInv, TypeOK, Bookkeeping, QueueInv, AtAsset, Idle
<1>2. position \in 1..Len(plan[u].assets) /\ a = plan[u].assets[position] /\ a \in Range(plan[u].assets)
  BY KnownNames DEF IInv, TypeOK, AtAsset, Range
<1>3. /\ mechanism[u][a] = "Pending" /\ status[u] \in {"Queued", "Scheduled", "Discarded"}
      /\ <<u, a>> \notin applying \union awaiting
  BY <1>1, <1>2 DEF IInv, Promises, QueuedPlansHaveNotRun
<1>4. ASSUME <<u, a>> \in Range(ready) PROVE FALSE
  <2> PICK k \in 1..Len(plan[u].assets) : k < position /\ plan[u].assets[k] = a
    BY <1>1, <1>4 DEF IInv, Bookkeeping, DispatchInv
  <2>1. /\ plan[u].assets \in Seq(Mechanisms) /\ IsInjective(plan[u].assets)
        /\ position \in Nat
    BY KnownNames DEF IInv, TypeOK
  <2>2. k = position
    BY <1>2, <2>1 DEF IsInjective
  <2> QED
    BY <2>1, <2>2
<1> QED
  BY <1>1, <1>2, <1>3, <1>4 DEF InFlight

LEMMA DiscardAssetIInv ==
  ASSUME IInv, NEW u \in Uids, NEW a \in Mechanisms, DiscardAsset(u, a)
  PROVE  (Bookkeeping /\ Promises)'
<1>1. /\ AtAsset(u, a) /\ position \in Nat
      /\ task[u] = "logged" /\ mechanism[u][a] = "Pending" /\ status[u] # "Completed"
  BY AtAssetFacts DEF DiscardAsset, IInv, TypeOK
<1>2. /\ UNCHANGED <<task, plan, mechanism, plans, current_plan_list, mechanisms_touched, InFlight>>
      /\ UNCHANGED <<ready, applying, awaiting>>
      /\ position' = position + 1 /\ status'[u] = "Discarded"
      /\ \A v \in Uids \ {u} : status'[v] = status[v]
  BY DEF DiscardAsset, IInv, TypeOK, execVars, InFlight
<1>3. LogInv' /\ QueueInv' /\ GrantInv'
  BY <1>1, <1>2 DEF IInv, Bookkeeping, LogInv, QueueInv, GrantInv
<1>4. DispatchInv'
  BY <1>1, <1>2 DEF IInv, Bookkeeping, DispatchInv
<1>5. CompletedIffSettled'
  BY <1>1, <1>2 DEF IInv, Promises, CompletedIffSettled, Settled
<1>6. InFlightIsUnreported' /\ TouchedIsGranted'
  BY <1>2 DEF IInv, Promises, InFlightIsUnreported, TouchedIsGranted, Idle
<1>7. QueuedPlansHaveNotRun'
  BY <1>2, KnownNames DEF IInv, Promises, QueuedPlansHaveNotRun
<1> QED
  BY <1>3, <1>4, <1>5, <1>6, <1>7 DEF Bookkeeping, Promises

\* A granted command: nothing of it was in flight, and no other non-core plan
\* holds its mechanism.
LEMMA ScheduleAssetIInv ==
  ASSUME IInv, NEW u \in Uids, NEW a \in Mechanisms, ScheduleAsset(u, a)
  PROVE  (Bookkeeping /\ Promises)'
<1> DEFINE g == <<u, a>>
<1>0. TypeOK /\ g \in Pairs /\ position \in Nat
  BY DEF IInv, TypeOK, Pairs
<1>1. /\ AtAsset(u, a) /\ UNCHANGED <<task, plan, mechanism, plans, current_plan_list, applying, awaiting>>
      /\ position' = position + 1 /\ status'[u] = "Scheduled"
      /\ \A v \in Uids \ {u} : status'[v] = status[v]
  BY <1>0 DEF ScheduleAsset, TypeOK
<1>2. /\ g \notin InFlight /\ mechanism[u][a] = "Pending" /\ status[u] # "Completed"
      /\ task[u] = "logged" /\ u \notin Range(plans) /\ u = Head(current_plan_list)
      /\ position \in 1..Len(plan[u].assets) /\ a = plan[u].assets[position]
  BY <1>1, AtAssetFacts DEF AtAsset
<1>3. Range(ready') = Range(ready) \union {g} /\ IsInjective(ready')
  <2>1. ready \in Seq(Pairs) /\ IsInjective(ready) /\ g \notin Range(ready) /\ ready' = Append(ready, g)
    BY <1>0, <1>2 DEF ScheduleAsset, TypeOK, IInv, Promises, InFlightIsUnreported, InFlight
  <2> QED
    BY <1>0, <2>1, AppendRange, AppendInjective
<1>4. InFlight' = InFlight \union {g}
  BY <1>1, <1>3 DEF InFlight
<1>5. LogInv' /\ QueueInv'
  BY <1>1, <1>2 DEF IInv, Bookkeeping, LogInv, QueueInv
<1>6. DispatchInv'
  <2>1. \A p \in InFlight' : task'[p[1]] = "logged"
    BY <1>1, <1>2, <1>4 DEF IInv, Bookkeeping, DispatchInv
  <2>2. ASSUME NEW p \in Range(ready)
        PROVE  /\ p[1] \notin Range(plans')
               /\ p[1] \in Range(current_plan_list') =>
                    /\ p[1] = Head(current_plan_list')
                    /\ \E k \in 1..Len(plan'[p[1]].assets) :
                         k < position' /\ plan'[p[1]].assets[k] = p[2]
    BY <1>0, <1>1 DEF IInv, Bookkeeping, DispatchInv
  <2>3. /\ u \notin Range(plans') /\ u = Head(current_plan_list')
        /\ position \in 1..Len(plan'[u].assets) /\ position < position' /\ plan'[u].assets[position] = a
    BY <1>0, <1>1, <1>2
  <2> QED
    BY <1>3, <2>1, <2>2, <2>3 DEF DispatchInv
<1>7. GrantInv' /\ TouchedIsGranted'
  <2>1. CASE plan[u].core
    <3>1. mechanisms_touched' = mechanisms_touched
      BY <2>1 DEF ScheduleAsset
    <3> QED
      BY <1>1, <1>3, <2>1, <3>1
         DEF IInv, Bookkeeping, GrantInv, Promises, TouchedIsGranted, Idle
  <2>2. CASE ~plan[u].core
    <3>1. mechanisms_touched[a] = NoUid
      BY <2>2 DEF ScheduleAsset, ShouldDiscard
    <3>2. /\ mechanisms_touched'[a] = u
          /\ \A b \in Mechanisms \ {a} : mechanisms_touched'[b] = mechanisms_touched[b]
      BY <1>0, <2>2 DEF ScheduleAsset, TypeOK
    <3>3. \A p \in Range(ready) : ~plan[p[1]].core => p[2] \in Mechanisms \ {a}
      BY <1>0, <3>1, KnownNames DEF IInv, Bookkeeping, GrantInv
    <3>4. GrantInv'
      BY <1>1, <1>3, <3>2, <3>3 DEF IInv, Bookkeeping, GrantInv
    <3>5. TouchedIsGranted'
      BY <1>1, <1>3, <2>2, <3>2 DEF IInv, Promises, TouchedIsGranted, Idle
    <3> QED
      BY <3>4, <3>5
  <2> QED
    BY <2>1, <2>2
<1>8. CompletedIffSettled'
  BY <1>1, <1>2 DEF IInv, Promises, CompletedIffSettled, Settled
<1>9. InFlightIsUnreported'
  BY <1>1, <1>2, <1>3, <1>4 DEF IInv, Promises, InFlightIsUnreported, InFlight
<1>10. QueuedPlansHaveNotRun'
  BY <1>0, <1>1, KnownNames DEF IInv, Promises, QueuedPlansHaveNotRun
<1> QED
  BY <1>5, <1>6, <1>7, <1>8, <1>9, <1>10 DEF Bookkeeping, Promises

LEMMA NextPlanIInv ==
  ASSUME IInv, NextPlan
  PROVE  (Bookkeeping /\ Promises)'
<1>1. /\ UNCHANGED <<task, plan, status, mechanism, plans, mechanisms_touched, ready, applying, awaiting>>
      /\ UNCHANGED InFlight /\ ~Idle
  BY DEF NextPlan, execVars, logVars, InFlight
<1>2. /\ Range(current_plan_list') \subseteq Range(current_plan_list)
      /\ Head(current_plan_list) \notin Range(current_plan_list') /\ IsInjective(current_plan_list')
  BY <1>1, TailRange DEF NextPlan, Idle, IInv, TypeOK, Bookkeeping, QueueInv
<1>3. LogInv' /\ QueueInv' /\ GrantInv'
  BY <1>1, <1>2 DEF IInv, Bookkeeping, LogInv, QueueInv, GrantInv
<1>4. DispatchInv'
  BY <1>1, <1>2 DEF IInv, Bookkeeping, DispatchInv
<1>5. CompletedIffSettled' /\ InFlightIsUnreported' /\ QueuedPlansHaveNotRun'
  BY <1>1, <1>2 DEF IInv, Promises, CompletedIffSettled, InFlightIsUnreported, QueuedPlansHaveNotRun
<1>6. TouchedIsGranted'
  BY <1>1 DEF IInv, Promises, TouchedIsGranted
<1> QED
  BY <1>3, <1>4, <1>5, <1>6 DEF Bookkeeping, Promises

-----------------------------------------------------------------------------
(* Commands that run, and the log. *)

\* A command in flight while the scheduler sleeps: its plan is in no queue.
LEMMA InFlightFacts ==
  ASSUME IInv, Idle, NEW u \in Uids, NEW a \in Mechanisms, <<u, a>> \in InFlight
  PROVE  /\ task[u] = "logged" /\ mechanism[u][a] = "Pending" /\ status[u] # "Completed"
         /\ u \notin Range(plans) /\ current_plan_list = << >>
         /\ a \in Range(plan[u].assets) /\ plan[u].assets # << >>
<1>1. task[u] = "logged" /\ mechanism[u][a] = "Pending"
  BY DEF IInv, Bookkeeping, DispatchInv, Promises, InFlightIsUnreported
<1>2. a \in Range(plan[u].assets) /\ plan[u].assets # << >>
  BY <1>1 DEF IInv, Bookkeeping, LogInv, Range
<1>3. status[u] # "Completed"
  BY <1>1, <1>2 DEF IInv, Promises, CompletedIffSettled, Settled
<1>4. CASE <<u, a>> \in Range(ready)
  BY <1>1, <1>2, <1>3, <1>4 DEF IInv, Bookkeeping, DispatchInv, Idle
<1>5. CASE <<u, a>> \in applying \union awaiting
  BY <1>1, <1>2, <1>3, <1>5 DEF IInv, Promises, QueuedPlansHaveNotRun, Idle
<1> QED
  BY <1>4, <1>5 DEF InFlight

\* What one entry in the log of plan u, for mechanism a, may change.
Recorded(u, a) ==
  /\ \A v \in Uids \ {u} : status'[v] = status[v] /\ mechanism'[v] = mechanism[v]
  /\ \A b \in Mechanisms \ {a} : mechanism'[u][b] = mechanism[u][b]
  /\ mechanism'[u][a] # "none"
  /\ status'[u] = "Completed" <=> Settled(mechanism'[u])

LEMMA UpdateStatusRecords ==
  ASSUME TypeOK, NEW u \in Uids, NEW a \in Mechanisms, mechanism[u][a] = "Pending",
         NEW new \in {"Pending", "Failed"}, UpdateStatus(u, new)
  PROVE  Recorded(u, a) /\ mechanism' = mechanism
BY DEF TypeOK, UpdateStatus, Recorded, Settled

LEMMA UpdatePlanStatusRecords ==
  ASSUME TypeOK, NEW u \in Uids, NEW a \in Mechanisms, mechanism[u][a] = "Pending",
         status[u] # "Completed",
         NEW outcome \in {"Success", "Failed"}, UpdatePlanStatus(u, a, outcome)
  PROVE  Recorded(u, a)
<1> DEFINE log == [mechanism[u] EXCEPT ![a] = outcome]
<1>1. mechanism' = [mechanism EXCEPT ![u] = log]
  BY DEF UpdatePlanStatus
<1>2. mechanism'[u] = log /\ \A v \in Uids \ {u} : mechanism'[v] = mechanism[v]
  BY <1>1 DEF TypeOK
<1>3. \A b \in Mechanisms : mechanism'[u][b] = IF b = a THEN outcome ELSE mechanism[u][b]
  BY <1>2 DEF TypeOK
<1>4. status' = [status EXCEPT ![u] = IF Settled(log) THEN "Completed" ELSE @]
  BY DEF UpdatePlanStatus
<1>5. /\ status'[u] = IF Settled(mechanism'[u]) THEN "Completed" ELSE status[u]
      /\ \A v \in Uids \ {u} : status'[v] = status[v]
  BY <1>2, <1>4 DEF TypeOK
<1> QED
  BY <1>2, <1>3, <1>5 DEF Recorded

\* A command in flight moves on, or its outcome is recorded and it is in flight
\* no longer.
LEMMA CommandIInv ==
  ASSUME IInv, Idle, NEW u \in Uids, NEW a \in Mechanisms, <<u, a>> \in InFlight,
         UNCHANGED <<task, plan, plans, tickVars>>,
         \/ Recorded(u, a)
         \/ UNCHANGED logVars,
         mechanism' = mechanism \/ <<u, a>> \notin InFlight',
         InFlight' \subseteq InFlight, Range(ready') \subseteq Range(ready), IsInjective(ready'),
         applying' \intersect awaiting' = {},
         (applying' \union awaiting') \intersect Range(ready') = {}
  PROVE  (Bookkeeping /\ Promises)'
<1> TypeOK
  BY DEF IInv
<1>1. /\ task[u] = "logged" /\ mechanism[u][a] = "Pending" /\ status[u] # "Completed"
      /\ u \notin Range(plans) /\ current_plan_list = << >>
      /\ a \in Range(plan[u].assets)
  BY InFlightFacts
<1>2. /\ UNCHANGED <<task, plan, plans, current_plan_list, position, mechanisms_touched>>
      /\ Range(current_plan_list) = {}
  BY <1>1 DEF tickVars, Range
<1>3. /\ \A v \in Uids \ {u} : status'[v] = status[v] /\ mechanism'[v] = mechanism[v]
      /\ \A b \in Mechanisms \ {a} : mechanism'[u][b] = mechanism[u][b]
      /\ mechanism'[u][a] # "none"
  BY <1>1 DEF Recorded, logVars
<1>4. LogInv'
  BY <1>1, <1>2, <1>3 DEF IInv, Bookkeeping, LogInv
<1>5. QueueInv' /\ GrantInv'
  BY <1>2 DEF IInv, Bookkeeping, QueueInv, GrantInv
<1>6. DispatchInv'
  BY <1>2 DEF IInv, Bookkeeping, DispatchInv
<1>7. CompletedIffSettled'
  <2>1. CASE Recorded(u, a)
    BY <1>2, <2>1 DEF IInv, Promises, CompletedIffSettled, Recorded, Settled
  <2>2. CASE UNCHANGED logVars
    BY <1>2, <2>2 DEF IInv, Promises, CompletedIffSettled, logVars, Settled
  <2> QED
    BY <2>1, <2>2
<1>8. InFlightIsUnreported'
  <2>1. ASSUME NEW p \in InFlight' PROVE mechanism'[p[1]][p[2]] = "Pending"
    <3>1. p \in InFlight /\ mechanism[p[1]][p[2]] = "Pending"
      BY DEF IInv, Promises, InFlightIsUnreported
    <3>2. CASE mechanism' = mechanism
      BY <3>1, <3>2
    <3>3. CASE p # <<u, a>>
      BY <1>3, <3>1, <3>3, KnownNames
    <3> QED
      BY <3>2, <3>3
  <2> QED
    BY <2>1 DEF InFlightIsUnreported
<1>9. QueuedPlansHaveNotRun'
  <2> SUFFICES ASSUME NEW v \in Range(plans)
               PROVE  /\ status'[v] \in {"Queued", "Scheduled", "Discarded"}
                      /\ \A b \in Range(plan[v].assets) : mechanism'[v][b] = "Pending"
                      /\ \A b \in Mechanisms : <<v, b>> \notin applying' \union awaiting'
    BY <1>2 DEF QueuedPlansHaveNotRun
  <2>1. v \in Uids \ {u}
    BY <1>1, KnownNames
  <2>2. /\ status[v] \in {"Queued", "Scheduled", "Discarded"}
        /\ \A b \in Range(plan[v].assets) : mechanism[v][b] = "Pending"
        /\ \A b \in Mechanisms : <<v, b>> \notin applying \union awaiting
    BY DEF IInv, Promises, QueuedPlansHaveNotRun
  <2>3. ASSUME NEW b \in Mechanisms, <<v, b>> \in InFlight PROVE FALSE
    BY <2>1, <2>3, InFlightFacts
  <2>4. applying' \union awaiting' \subseteq InFlight
    BY DEF InFlight
  <2> QED
    BY <1>3, <2>1, <2>2, <2>3, <2>4
<1>10. TouchedIsGranted'
  BY <1>1, <1>2 DEF TouchedIsGranted, Idle
<1> QED
  BY <1>4, <1>5, <1>6, <1>7, <1>8, <1>9, <1>10 DEF Bookkeeping, Promises

\* The command at the head of the event loop.
LEMMA RunningFacts ==
  ASSUME IInv, NEW u \in Uids, NEW a \in Mechanisms, Running(u, a)
  PROVE  /\ Idle /\ <<u, a>> \in InFlight /\ <<u, a>> \notin applying \union awaiting
         /\ Range(ready') \subseteq Range(ready) \ {<<u, a>>} /\ IsInjective(ready')
         /\ mechanism[u][a] = "Pending" /\ status[u] # "Completed"
         /\ applying \intersect awaiting = {}
         /\ (applying \union awaiting) \intersect Range(ready') = {}
<1>1. ready \in Seq(Pairs) /\ IsInjective(ready) /\ ready # << >>
  BY DEF IInv, TypeOK, Promises, InFlightIsUnreported, Running
<1>2. /\ <<u, a>> \in Range(ready) /\ Range(ready') \subseteq Range(ready) \ {<<u, a>>}
      /\ IsInjective(ready')
  BY <1>1, TailRange DEF Running
<1>3. /\ <<u, a>> \in InFlight /\ <<u, a>> \notin applying \union awaiting
      /\ applying \intersect awaiting = {}
      /\ (applying \union awaiting) \intersect Range(ready') = {}
  BY <1>2 DEF InFlight, IInv, Promises, InFlightIsUnreported
<1>4. Idle
  BY DEF Running
<1> QED
  BY <1>2, <1>3, <1>4, InFlightFacts

LEMMA ExecuteIInv ==
  ASSUME IInv, NEW u \in Uids, NEW a \in Mechanisms, Execute(u, a)
  PROVE  (Bookkeeping /\ Promises)'
<1> TypeOK /\ Running(u, a)
  BY DEF IInv, Execute, ExecuteUnhandled, ExecuteRaises, ExecuteSucceeds, ExecuteDefers, ExecuteBlocks
<1> DEFINE c == <<u, a>>
<1>1. /\ Idle /\ c \in InFlight /\ c \notin applying \union awaiting
      /\ Range(ready') \subseteq Range(ready) \ {c} /\ IsInjective(ready')
      /\ mechanism[u][a] = "Pending" /\ status[u] # "Completed"
      /\ applying \intersect awaiting = {}
      /\ (applying \union awaiting) \intersect Range(ready') = {}
  BY RunningFacts
<1>2. UNCHANGED <<task, plan, plans, tickVars>>
  BY DEF Execute, ExecuteUnhandled, ExecuteRaises, ExecuteSucceeds, ExecuteDefers, ExecuteBlocks
<1>3. CASE UNCHANGED <<applying, awaiting>>
  <2>1. InFlight' \subseteq InFlight \ {c}
    BY <1>1, <1>3 DEF InFlight
  <2>2. Recorded(u, a) \/ UNCHANGED logVars
    <3>1. CASE ExecuteUnhandled(u, a) \/ ExecuteBlocks(u, a)
      BY <3>1 DEF ExecuteUnhandled, ExecuteBlocks
    <3>2. CASE ExecuteRaises(u, a) \/ ExecuteDefers(u, a)
      BY <1>1, <3>2, UpdateStatusRecords DEF ExecuteRaises, ExecuteDefers
    <3>3. CASE ExecuteSucceeds(u, a)
      BY <1>1, <3>3, UpdatePlanStatusRecords DEF ExecuteSucceeds
    <3> QED
      BY <3>1, <3>2, <3>3 DEF Execute
  <2>3. /\ applying' \intersect awaiting' = {}
        /\ (applying' \union awaiting') \intersect Range(ready') = {}
    BY <1>1, <1>3
  <2> QED
    BY <1>1, <1>2, <2>1, <2>2, <2>3, CommandIInv
<1>4. CASE \/ applying' = applying \union {c} /\ UNCHANGED <<awaiting, logVars>>
           \/ awaiting' = awaiting \union {c} /\ UNCHANGED applying /\ UpdateStatus(u, "Pending")
  <2>1. InFlight' \subseteq InFlight
    BY <1>1, <1>4 DEF InFlight
  <2>2. (Recorded(u, a) \/ UNCHANGED logVars) /\ mechanism' = mechanism
    BY <1>1, <1>4, UpdateStatusRecords DEF logVars
  <2>3. /\ applying' \intersect awaiting' = {}
        /\ (applying' \union awaiting') \intersect Range(ready') = {}
    BY <1>1, <1>4
  <2> QED
    BY <1>1, <1>2, <2>1, <2>2, <2>3, CommandIInv
<1> QED
  BY <1>3, <1>4
     DEF Execute, ExecuteUnhandled, ExecuteRaises, ExecuteSucceeds, ExecuteDefers, ExecuteBlocks

\* An apply that was suspended returns, or the answer of a mechanism arrives.
LEMMA AnswerIInv ==
  ASSUME IInv, NEW u \in Uids, NEW a \in Mechanisms,
         \/ ApplyReturns(u, a)
         \/ \E outcome \in {"Success", "Failed"} : PlanExecuted(u, a, outcome)
  PROVE  (Bookkeeping /\ Promises)'
<1> TypeOK
  BY DEF IInv
<1> DEFINE c == <<u, a>>
<1>1. /\ Idle /\ c \in InFlight /\ UNCHANGED <<task, plan, plans, tickVars, ready>>
  BY DEF ApplyReturns, PlanExecuted, InFlight
<1>2. /\ IsInjective(ready) /\ applying \intersect awaiting = {}
      /\ (applying \union awaiting) \intersect Range(ready) = {}
  BY DEF IInv, Promises, InFlightIsUnreported
<1>3. applying' \subseteq applying /\ awaiting' \subseteq awaiting /\ c \notin applying' \union awaiting'
  BY <1>2 DEF ApplyReturns, PlanExecuted
<1>4. InFlight' \subseteq InFlight \ {c}
  BY <1>1, <1>2, <1>3 DEF InFlight, ApplyReturns, PlanExecuted
<1>5. mechanism[u][a] = "Pending" /\ status[u] # "Completed"
  BY <1>1, InFlightFacts
<1>6. Recorded(u, a)
  BY <1>5, UpdateStatusRecords, UpdatePlanStatusRecords DEF ApplyReturns, PlanExecuted
<1>7. /\ applying' \intersect awaiting' = {} /\ IsInjective(ready') /\ Range(ready') \subseteq Range(ready)
      /\ (applying' \union awaiting') \intersect Range(ready') = {}
  BY <1>1, <1>2, <1>3
<1> QED
  BY <1>1, <1>4, <1>6, <1>7, CommandIInv

-----------------------------------------------------------------------------
(* The invariant, and what follows from it. *)

LEMMA IInvStep == IInv /\ [Next]_vars => IInv'
<1> SUFFICES ASSUME IInv, [Next]_vars PROVE (Bookkeeping /\ Promises)'
  BY TypeOKStep DEF IInv
<1> USE DEF appVars
<1>1. CASE UNCHANGED vars
  BY <1>1, AppEventIInv DEF vars
<1>2. ASSUME NEW a \in Apps, AppEvent(a) PROVE (Bookkeeping /\ Promises)'
  BY <1>2, AppEventIInv
     DEF AppEvent, OnApplicationReceived, StartApplicationPolicies,
         OnApplicationTerminated, DeleteApplicationPolicies
<1>3. ASSUME NEW owner \in Owners, NEW policy \in AppPolicies \union GlobalPolicies,
             Analyze(owner, policy)
      PROVE  (Bookkeeping /\ Promises)'
  <2> PICK u \in Uids :
         /\ task[u] = "absent"
         /\ task' = [task EXCEPT ![u] = "created"]
         /\ plan' = [plan EXCEPT ![u] =
              [application_id |-> owner, core |-> policy \in CorePolicies, assets |-> << >>]]
    BY <1>3 DEF Analyze
  <2>1. /\ task' \in [Uids -> TaskStates] /\ task'[u] # "logged"
        /\ \A v \in Uids \ {u} : task'[v] = task[v] /\ plan'[v] = plan[v]
    BY DEF IInv, TypeOK, TaskStates
  <2>2. UNCHANGED <<logVars, plans, tickVars, execVars>>
    BY <1>3 DEF Analyze
  <2> QED
    BY <2>1, <2>2, PlanTaskIInv
<1>4. ASSUME NEW u \in Uids, PlanTaskRun(u) PROVE (Bookkeeping /\ Promises)'
  <2>1. /\ task' \in [Uids -> TaskStates] /\ task'[u] # "logged" /\ task[u] # "logged"
        /\ \A v \in Uids \ {u} : task'[v] = task[v] /\ plan'[v] = plan[v]
    BY <1>4 DEF IInv, TypeOK, TaskStates, PlanTaskRun
  <2>2. UNCHANGED <<logVars, plans, tickVars, execVars>>
    BY <1>4 DEF PlanTaskRun
  <2> QED
    BY <2>1, <2>2, PlanTaskIInv
<1>5. ASSUME NEW u \in Uids, ProcessPlan(u) PROVE (Bookkeeping /\ Promises)'
  BY <1>5, ProcessPlanIInv
<1>6. CASE Scheduler
  BY <1>6, SchedulerWakeIInv, DiscardAssetIInv, ScheduleAssetIInv, NextPlanIInv DEF Scheduler
<1>7. ASSUME NEW u \in Uids, NEW a \in Mechanisms,
             \/ Execute(u, a)
             \/ ApplyReturns(u, a)
             \/ \E outcome \in {"Success", "Failed"} : PlanExecuted(u, a, outcome)
      PROVE  (Bookkeeping /\ Promises)'
  BY <1>7, ExecuteIInv, AnswerIInv
<1> QED
  BY <1>1, <1>2, <1>3, <1>4, <1>5, <1>6, <1>7 DEF Next

\* The inductive invariant holds in every reachable state of the pipeline.
THEOREM InvariantHolds == Spec => []IInv
<1>1. Init => IInv
  BY TypeOKInit, IInvInit DEF IInv
<1> QED
  BY <1>1, IInvStep, PTL DEF Spec

\* Plans are recorded Completed exactly when every mechanism has reported
\* (update_plan_status; CompletedIffSettled).
THEOREM CompletionIsExact == Spec => []CompletedIffSettled
BY InvariantHolds, PTL DEF IInv, Promises

\* No command is issued twice, and none whose outcome is known is in flight
\* (ExecuteTask; InFlightIsUnreported).
THEOREM NoDoubleExecution == Spec => []InFlightIsUnreported
BY InvariantHolds, PTL DEF IInv, Promises

\* No command of a queued plan has run (the pending check of the scheduler finds
\* nothing; QueuedPlansHaveNotRun).
THEOREM QueueIsFresh == Spec => []QueuedPlansHaveNotRun
BY InvariantHolds, PTL DEF IInv, Promises

\* A refusal for a conflict always has its winner (mechanisms_touched;
\* TouchedIsGranted).
THEOREM RefusedForAGrant == Spec => []TouchedIsGranted
BY InvariantHolds, PTL DEF IInv, Promises

\* A tick grants each mechanism to one non-core command (OneCommandPerMechanism).
THEOREM ConflictsAreArbitrated == Spec => []OneCommandPerMechanism
<1>1. IInv => OneCommandPerMechanism
  <2> SUFFICES ASSUME IInv, NEW i \in 1..Len(ready), NEW j \in 1..Len(ready),
                      i # j, ready[i][2] = ready[j][2],
                      ~plan[ready[i][1]].core, ~plan[ready[j][1]].core
               PROVE  FALSE
    BY DEF OneCommandPerMechanism
  <2>1. ready \in Seq(Pairs) /\ IsInjective(ready)
    BY DEF IInv, TypeOK, Promises, InFlightIsUnreported
  <2>2. ready[i] \in Range(ready) /\ ready[j] \in Range(ready) /\ ready[i] # ready[j]
    BY <2>1 DEF Range, IsInjective
  <2>3. ready[i][1] = ready[j][1]
    BY <2>2 DEF IInv, Bookkeeping, GrantInv
  <2>4. ready[i] \in Pairs /\ ready[j] \in Pairs
    BY <2>2, KnownNames DEF IInv
  <2> QED
    BY <2>2, <2>3, <2>4 DEF Pairs
<1> QED
  BY <1>1, InvariantHolds, PTL

\* What one step may do to the outcomes already recorded: nothing.
OutcomesKept ==
  \A u \in Uids :
    /\ status[u] = "Completed" => status'[u] = "Completed"
    /\ \A a \in Mechanisms : mechanism[u][a] \in {"Success", "Failed"}
         => mechanism'[u][a] = mechanism[u][a]

LEMMA CommandKeepsOutcomes ==
  ASSUME IInv, Idle, NEW u \in Uids, NEW a \in Mechanisms, <<u, a>> \in InFlight, Recorded(u, a)
  PROVE  OutcomesKept
BY InFlightFacts DEF Recorded, OutcomesKept

LEMMA StepKeepsOutcomes == IInv /\ [Next]_vars => OutcomesKept
<1> SUFFICES ASSUME IInv, [Next]_vars PROVE OutcomesKept
  OBVIOUS
<1> TypeOK
  BY DEF IInv
<1>1. CASE UNCHANGED logVars
  BY <1>1 DEF logVars, OutcomesKept
<1>2. ASSUME NEW u \in Uids, ProcessPlan(u) PROVE OutcomesKept
  <2>1. status[u] = "absent" /\ \A a \in Mechanisms : mechanism[u][a] = "none"
    BY <1>2 DEF ProcessPlan, IInv, Bookkeeping, LogInv
  <2>2. \A v \in Uids \ {u} : status'[v] = status[v] /\ mechanism'[v] = mechanism[v]
    BY <1>2 DEF ProcessPlan, TypeOK
  <2> QED
    BY <2>1, <2>2 DEF OutcomesKept
<1>3. ASSUME NEW u \in Uids, NEW a \in Mechanisms, DiscardAsset(u, a) \/ ScheduleAsset(u, a)
      PROVE  OutcomesKept
  <2>1. status[u] # "Completed"
    BY <1>3, AtAssetFacts DEF DiscardAsset, ScheduleAsset
  <2>2. mechanism' = mechanism /\ \A v \in Uids \ {u} : status'[v] = status[v]
    BY <1>3 DEF DiscardAsset, ScheduleAsset, TypeOK
  <2> QED
    BY <2>1, <2>2 DEF OutcomesKept
<1>4. ASSUME NEW u \in Uids, NEW a \in Mechanisms, Execute(u, a) PROVE OutcomesKept
  <2>1. Running(u, a)
    BY <1>4 DEF Execute, ExecuteUnhandled, ExecuteRaises, ExecuteSucceeds, ExecuteDefers, ExecuteBlocks
  <2>2. CASE ExecuteRaises(u, a) \/ ExecuteDefers(u, a)
    BY <2>1, <2>2, RunningFacts, UpdateStatusRecords, CommandKeepsOutcomes DEF ExecuteRaises, ExecuteDefers
  <2>3. CASE ExecuteSucceeds(u, a)
    BY <2>1, <2>3, RunningFacts, UpdatePlanStatusRecords, CommandKeepsOutcomes DEF ExecuteSucceeds
  <2>4. CASE ExecuteUnhandled(u, a) \/ ExecuteBlocks(u, a)
    BY <2>4, <1>1 DEF ExecuteUnhandled, ExecuteBlocks
  <2> QED
    BY <1>4, <2>2, <2>3, <2>4 DEF Execute
<1>5. ASSUME NEW u \in Uids, NEW a \in Mechanisms,
             \/ ApplyReturns(u, a)
             \/ \E outcome \in {"Success", "Failed"} : PlanExecuted(u, a, outcome)
      PROVE  OutcomesKept
  <2>1. Idle /\ <<u, a>> \in InFlight
    BY <1>5 DEF ApplyReturns, PlanExecuted, InFlight
  <2>2. mechanism[u][a] = "Pending" /\ status[u] # "Completed"
    BY <2>1, InFlightFacts
  <2>3. Recorded(u, a)
    BY <1>5, <2>2, UpdateStatusRecords, UpdatePlanStatusRecords DEF ApplyReturns, PlanExecuted
  <2> QED
    BY <2>1, <2>3, CommandKeepsOutcomes
<1>6. ASSUME \/ \E a \in Apps : AppEvent(a)
             \/ \E owner \in Owners, policy \in AppPolicies \union GlobalPolicies : Analyze(owner, policy)
             \/ \E u \in Uids : PlanTaskRun(u)
             \/ SchedulerWake \/ NextPlan
             \/ UNCHANGED vars
      PROVE  UNCHANGED logVars
  BY <1>6 DEF AppEvent, OnApplicationReceived, StartApplicationPolicies, OnApplicationTerminated,
              DeleteApplicationPolicies, Analyze, PlanTaskRun, SchedulerWake, NextPlan, vars
<1> QED
  BY <1>1, <1>2, <1>3, <1>4, <1>5, <1>6 DEF Next, Scheduler

\* A reported outcome and a Completed status are final (OutcomesAreFinal).
THEOREM OutcomesStay == Spec => OutcomesAreFinal
<1>1. IInv /\ [Next]_vars => [OutcomesKept]_vars
  BY StepKeepsOutcomes
<1>2. Spec => [][OutcomesKept]_vars
  BY <1>1, InvariantHolds, PTL DEF Spec
<1> QED
  BY <1>2 DEF OutcomesAreFinal, OutcomesKept
-----------------------------------------------------------------------------
(* The pipeline implements PlanContract. *)

\* What the mapping reads of the pipeline.
phaseVars == <<task, plan, plans, tickVars, execVars>>

LEMMA PhasesStay ==
  ASSUME UNCHANGED phaseVars
  PROVE  UNCHANGED <<Phases, CorePlans>>
<1>1. \A u, a : Phase(u, a)' = Phase(u, a)
  BY DEF phaseVars, tickVars, execVars, Phase, Undecided, Idle
<1> QED
  BY <1>1 DEF phaseVars, Phases, CorePlans

LEMMA PhaseOf ==
  ASSUME NEW u \in Uids, NEW a \in Mechanisms
  PROVE  <<u, a>> \in Pairs /\ Phases[<<u, a>>] = Phase(u, a)
BY DEF Phases, Pairs

\* One command gets another phase, and the others keep theirs.
LEMMA PhasesWith ==
  ASSUME NEW u \in Uids, NEW a \in Mechanisms, NEW new, Phase(u, a)' = new,
         \A v \in Uids, b \in Mechanisms : <<v, b>> # <<u, a>> => Phase(v, b)' = Phase(v, b)
  PROVE  Phases' = [Phases EXCEPT ![<<u, a>>] = new]
<1>1. ASSUME NEW p \in Pairs PROVE Phase(p[1], p[2])' = IF p = <<u, a>> THEN new ELSE Phase(p[1], p[2])
  <2>1. p[1] \in Uids /\ p[2] \in Mechanisms /\ p = <<p[1], p[2]>>
    BY DEF Pairs
  <2>2. CASE p = <<u, a>>
    BY <2>2
  <2>3. CASE p # <<u, a>>
    BY <2>1, <2>3
  <2> QED
    BY <2>2, <2>3
<1> QED
  BY <1>1 DEF Phases

\* A Plan task that has not queued its plan has no part in the contract.
LEMMA UnqueuedPlan ==
  ASSUME IInv, NEW u \in Uids, task[u] # "logged", task'[u] # "logged",
         \A v \in Uids \ {u} : task'[v] = task[v] /\ plan'[v] = plan[v],
         UNCHANGED <<plans, tickVars, execVars>>
  PROVE  UNCHANGED <<Phases, CorePlans>>
<1>1. ASSUME NEW v \in Uids, NEW a \in Mechanisms PROVE Phase(v, a)' = Phase(v, a)
  <2>1. CASE v = u
    BY <2>1 DEF Phase
  <2>2. CASE v # u
    BY <2>2 DEF tickVars, execVars, Phase, Undecided, Idle
  <2> QED
    BY <2>1, <2>2
<1>2. Phases' = Phases
  BY <1>1 DEF Phases, Pairs
<1>3. CorePlans' = CorePlans
  BY DEF CorePlans
<1> QED
  BY <1>2, <1>3

\* A plan is queued: all its commands are submitted at once.
LEMMA QueuingSubmits ==
  ASSUME IInv, NEW u \in Uids, ProcessPlan(u)
  PROVE  Contract!Submit(u)
<1> TypeOK /\ task[u] # "logged" /\ Idle
  BY DEF IInv, ProcessPlan
<1> PICK assets \in AssetLists : plan' = [plan EXCEPT ![u] = [@ EXCEPT !.assets = assets]]
  BY DEF ProcessPlan
<1> DEFINE targets == Range(assets)
<1>1. /\ \A v \in Uids \ {u} : task'[v] = task[v] /\ plan'[v] = plan[v]
      /\ task'[u] = "logged" /\ plan'[u].assets = assets /\ plan'[u].core = plan[u].core
  BY DEF ProcessPlan, TypeOK
<1>2. UNCHANGED <<tickVars, execVars>> /\ Range(plans') = Range(plans) \union {u}
  BY AppendRange DEF ProcessPlan, TypeOK
<1>3. targets \in SUBSET Mechanisms
  BY AssetAssumption DEF Range
<1>4. \A a \in Mechanisms : Phases[<<u, a>>] = "idle"
  BY PhaseOf DEF Phase
<1>5. u \notin CorePlans
  BY DEF CorePlans
<1>6. ASSUME NEW v \in Uids, NEW a \in Mechanisms
      PROVE  Phase(v, a)' = IF v = u /\ a \in targets THEN "queued" ELSE Phase(v, a)
  <2>1. CASE v = u
    BY <1>1, <1>2, <2>1 DEF Phase, Undecided
  <2>2. CASE v # u
    BY <1>1, <1>2, <2>2 DEF tickVars, execVars, Phase, Undecided, Idle
  <2> QED
    BY <2>1, <2>2
<1>7. Phases' = [p \in Uids \X Mechanisms |->
                   IF p[1] = u /\ p[2] \in targets THEN "queued" ELSE Phases[p]]
  BY <1>6 DEF Phases, Pairs
<1>8. CorePlans' \in {CorePlans, CorePlans \union {u}}
  BY <1>1 DEF CorePlans
<1> HIDE DEF targets
<1> QED
  BY <1>3, <1>4, <1>5, <1>7, <1>8 DEF Contract!Submit

\* A tick begins: what was in the queue is ahead of it.
LEMMA WakingDecidesNothing ==
  ASSUME IInv, SchedulerWake
  PROVE  UNCHANGED <<Phases, CorePlans>>
<1>1. /\ UNCHANGED <<task, plan, execVars>> /\ Idle /\ plans # << >>
      /\ current_plan_list' = plans /\ plans' = << >> /\ position' = 1
  BY DEF SchedulerWake
<1>2. /\ plans \in Seq(Uids) /\ Range(plans) = {Head(plans)} \union Range(Tail(plans))
      /\ Range(<< >>) = {}
  <2>1. plans \in Seq(Uids)
    BY DEF IInv, TypeOK
  <2>2. Range(<< >>) = {}
    BY DEF Range
  <2> QED
    BY <1>1, <2>1, <2>2, HeadAndTail
<1>3. ASSUME NEW u \in Uids, NEW a \in Mechanisms PROVE Undecided(u, a)' <=> Undecided(u, a)
  <2>1. a \in Range(plan[u].assets) <=> \E i \in 1..Len(plan[u].assets) : plan[u].assets[i] = a
    BY KnownNames DEF IInv, Range
  <2> QED
    BY <1>1, <1>2, <2>1 DEF Undecided, Idle
<1>4. ASSUME NEW u \in Uids, NEW a \in Mechanisms PROVE Phase(u, a)' = Phase(u, a)
  BY <1>1, <1>3 DEF Phase, execVars
<1> QED
  BY <1>1, <1>4 DEF Phases, Pairs, CorePlans

\* What the tick decides next is the command it is at.
LEMMA DecidedAsset ==
  ASSUME IInv, NEW u \in Uids, NEW a \in Mechanisms, AtAsset(u, a),
         UNCHANGED <<task, plan, plans, current_plan_list>>, position' = position + 1
  PROVE  /\ Undecided(u, a) /\ ~Undecided(u, a)'
         /\ \A v \in Uids, b \in Mechanisms :
              <<v, b>> # <<u, a>> => (Undecided(v, b)' <=> Undecided(v, b))
<1>1. /\ u \in Range(current_plan_list) /\ u \notin Range(plans)
      /\ task[u] = "logged" /\ a \in Range(plan[u].assets)
      /\ position \in 1..Len(plan[u].assets) /\ a = plan[u].assets[position]
  BY AtAssetFacts
<1>2. /\ plan[u].assets \in Seq(Mechanisms) /\ IsInjective(plan[u].assets)
      /\ Len(plan[u].assets) \in Nat /\ position \in Nat
      /\ DOMAIN plan[u].assets = 1..Len(plan[u].assets)
  BY KnownNames DEF IInv, TypeOK
<1>3. ~Idle /\ u = Head(current_plan_list) /\ u \notin Range(Tail(current_plan_list))
  BY TailRange DEF AtAsset, Idle, IInv, TypeOK, Bookkeeping, QueueInv
<1>4. Undecided(u, a)
  BY <1>1, <1>2, <1>3 DEF Undecided
<1>5. ~Undecided(u, a)'
  <2>1. \A i \in (position + 1)..Len(plan[u].assets) : plan[u].assets[i] # a
    BY <1>1, <1>2 DEF IsInjective
  <2> QED
    BY <1>1, <1>3, <2>1 DEF Undecided
<1>6. ASSUME NEW v \in Uids, NEW b \in Mechanisms, <<v, b>> # <<u, a>>
      PROVE  Undecided(v, b)' <=> Undecided(v, b)
  <2>1. v = u => ((\E i \in position..Len(plan[v].assets) : plan[v].assets[i] = b)
                    <=> (\E i \in (position + 1)..Len(plan[v].assets) : plan[v].assets[i] = b))
    BY <1>1, <1>2, <1>6
  <2> QED
    BY <1>3, <2>1 DEF Undecided, Idle
<1> QED
  BY <1>4, <1>5, <1>6

LEMMA DiscardingRefuses ==
  ASSUME IInv, NEW u \in Uids, NEW a \in Mechanisms, DiscardAsset(u, a)
  PROVE  Contract!Refuse(u, a)
<1>1. /\ UNCHANGED <<task, plan, plans, current_plan_list, ready, applying, awaiting>>
      /\ AtAsset(u, a) /\ position' = position + 1 /\ ~plan[u].core
  BY DEF DiscardAsset, execVars
<1>2. /\ task[u] = "logged" /\ a \in Range(plan[u].assets) /\ <<u, a>> \notin InFlight
  BY <1>1, AtAssetFacts
<1>3. /\ Undecided(u, a) /\ ~Undecided(u, a)'
      /\ \A v \in Uids, b \in Mechanisms :
           <<v, b>> # <<u, a>> => (Undecided(v, b)' <=> Undecided(v, b))
  BY <1>1, DecidedAsset
<1>4. Phases[<<u, a>>] = "queued" /\ u \notin CorePlans /\ CorePlans' = CorePlans
  BY <1>1, <1>2, <1>3, PhaseOf DEF Phase, CorePlans
<1>5. Phase(u, a)' = "closed"
  BY <1>1, <1>2, <1>3 DEF Phase, InFlight
<1>6. \A v \in Uids, b \in Mechanisms : <<v, b>> # <<u, a>> => Phase(v, b)' = Phase(v, b)
  BY <1>1, <1>3 DEF Phase
<1>7. Phases' = [Phases EXCEPT ![<<u, a>>] = "closed"]
  BY <1>5, <1>6, PhasesWith
<1> QED
  BY <1>4, <1>7 DEF Contract!Refuse

\* A non-core command is scheduled only if no other one holds its mechanism (GrantInv).
LEMMA SchedulingGrants ==
  ASSUME IInv, NEW u \in Uids, NEW a \in Mechanisms, ScheduleAsset(u, a)
  PROVE  Contract!Grant(u, a)
<1>1. /\ UNCHANGED <<task, plan, plans, current_plan_list, applying, awaiting>>
      /\ AtAsset(u, a) /\ position' = position + 1
      /\ plan[u].core \/ mechanisms_touched[a] = NoUid
  BY DEF ScheduleAsset, ShouldDiscard
<1>2. /\ task[u] = "logged" /\ a \in Range(plan[u].assets) /\ <<u, a>> \notin InFlight
  BY <1>1, AtAssetFacts
<1>3. Range(ready') = Range(ready) \union {<<u, a>>}
  <2>1. ready \in Seq(Pairs) /\ <<u, a>> \in Pairs /\ ready' = Append(ready, <<u, a>>)
    BY DEF ScheduleAsset, IInv, TypeOK, Pairs
  <2> QED
    BY <2>1, AppendRange
<1>4. /\ Undecided(u, a) /\ ~Undecided(u, a)'
      /\ \A v \in Uids, b \in Mechanisms :
           <<v, b>> # <<u, a>> => (Undecided(v, b)' <=> Undecided(v, b))
  BY <1>1, DecidedAsset
<1>5. Phases[<<u, a>>] = "queued" /\ CorePlans' = CorePlans
  BY <1>1, <1>2, <1>4, PhaseOf DEF Phase, CorePlans
<1>6. u \in CorePlans \/ \A v \in Uids \ CorePlans : Phases[<<v, a>>] # "granted"
  <2> SUFFICES ASSUME ~plan[u].core, NEW v \in Uids \ CorePlans, Phase(v, a) = "granted"
               PROVE  FALSE
    BY <1>2, PhaseOf DEF CorePlans
  <2>1. <<v, a>> \in Range(ready) /\ ~plan[v].core
    BY DEF Phase, CorePlans
  <2>2. mechanisms_touched[a] = v
    BY <2>1 DEF IInv, Bookkeeping, GrantInv
  <2> QED
    BY <1>1, <2>2, MechanismAssumption
<1>7. Phase(u, a)' = "granted"
  BY <1>1, <1>2, <1>3, <1>4 DEF Phase
<1>8. \A v \in Uids, b \in Mechanisms : <<v, b>> # <<u, a>> => Phase(v, b)' = Phase(v, b)
  BY <1>1, <1>3, <1>4 DEF Phase
<1>9. Phases' = [Phases EXCEPT ![<<u, a>>] = "granted"]
  BY <1>7, <1>8, PhasesWith
<1> QED
  BY <1>5, <1>6, <1>9 DEF Contract!Grant

\* The tick leaves a plan of which every command is decided.
LEMMA NextPlanDecidesNothing ==
  ASSUME IInv, NextPlan
  PROVE  UNCHANGED <<Phases, CorePlans>>
<1> DEFINE list == current_plan_list
<1>1. /\ UNCHANGED <<task, plan, plans, execVars>> /\ list # << >>
      /\ list' = Tail(list) /\ position' = 1
      /\ position > Len(plan[Head(list)].assets)
  BY DEF NextPlan, Idle
<1>2. list \in Seq(Uids) /\ Tail(list) \in Seq(Uids) /\ Range(<< >>) = {} /\ Head(list) \in Uids
  BY <1>1 DEF IInv, TypeOK, Range
<1>3. /\ Head(list) \notin Range(Tail(list))
      /\ Tail(list) # << >> => Range(Tail(list)) = {Head(Tail(list))} \union Range(Tail(Tail(list)))
  BY <1>1, <1>2, TailRange, HeadAndTail DEF IInv, Bookkeeping, QueueInv
<1>4. ~\E i \in position..Len(plan[Head(list)].assets) : TRUE
  BY <1>1, <1>2, KnownNames DEF IInv, TypeOK
<1>5. ASSUME NEW u \in Uids, NEW a \in Mechanisms PROVE Undecided(u, a)' <=> Undecided(u, a)
  <2>1. a \in Range(plan[u].assets) <=> \E i \in 1..Len(plan[u].assets) : plan[u].assets[i] = a
    BY KnownNames DEF IInv, Range
  <2>2. Undecided(u, a) <=> /\ task[u] = "logged" /\ a \in Range(plan[u].assets)
                            /\ u \in Range(plans) \/ u \in Range(Tail(list))
    BY <1>1, <1>4 DEF Undecided, Idle
  <2>3. Undecided(u, a)' <=> /\ task[u] = "logged" /\ a \in Range(plan[u].assets)
                             /\ u \in Range(plans) \/ u \in Range(Tail(list))
    BY <1>1, <1>2, <1>3, <2>1 DEF Undecided, Idle
  <2> QED
    BY <2>2, <2>3
<1>6. ASSUME NEW u \in Uids, NEW a \in Mechanisms PROVE Phase(u, a)' = Phase(u, a)
  BY <1>1, <1>5 DEF Phase, execVars
<1> QED
  BY <1>1, <1>6 DEF Phases, Pairs, CorePlans

\* A command in flight while the scheduler sleeps is decided.
LEMMA InFlightIsDecided ==
  ASSUME IInv, Idle, NEW u \in Uids, NEW a \in Mechanisms, <<u, a>> \in InFlight
  PROVE  task[u] = "logged" /\ a \in Range(plan[u].assets) /\ ~Undecided(u, a)
BY InFlightFacts DEF Undecided

LEMMA ExecutionStarts ==
  ASSUME IInv, NEW u \in Uids, NEW a \in Mechanisms, Execute(u, a)
  PROVE  Contract!Start(u, a)
<1> DEFINE c == <<u, a>>
<1>1. Running(u, a) /\ UNCHANGED <<task, plan, plans, tickVars>>
  BY DEF Execute, ExecuteUnhandled, ExecuteRaises, ExecuteSucceeds, ExecuteDefers, ExecuteBlocks
<1>2. /\ Idle /\ c \in InFlight /\ c \in Range(ready)
      /\ c \notin applying \union awaiting /\ Range(ready') = Range(ready) \ {c}
  <2>1. ready \in Seq(Pairs) /\ ready # << >>
    BY <1>1 DEF IInv, TypeOK, Running
  <2>2. c \in Range(ready) /\ Range(ready) = {c} \union Range(ready')
    BY <1>1, <2>1, TailRange, HeadAndTail DEF Running
  <2> QED
    BY <1>1, <2>2, RunningFacts
<1>3. applying' \in {applying, applying \union {c}} /\ awaiting' \in {awaiting, awaiting \union {c}}
  BY DEF Execute, ExecuteUnhandled, ExecuteRaises, ExecuteSucceeds, ExecuteDefers, ExecuteBlocks
<1>4. \A v \in Uids, b \in Mechanisms : Undecided(v, b)' <=> Undecided(v, b)
  BY <1>1 DEF Undecided, Idle, tickVars
<1>5. task[u] = "logged" /\ a \in Range(plan[u].assets) /\ ~Undecided(u, a)
  BY <1>2, InFlightIsDecided
<1>6. Phases[c] = "granted" /\ CorePlans' = CorePlans
  BY <1>1, <1>2, <1>5, PhaseOf DEF Phase, CorePlans
<1>7. Phase(u, a)' \in {"open", "closed"}
  BY <1>1, <1>2, <1>4, <1>5 DEF Phase
<1>8. \A v \in Uids, b \in Mechanisms : <<v, b>> # c => Phase(v, b)' = Phase(v, b)
  BY <1>1, <1>2, <1>3, <1>4 DEF Phase
<1>9. \E next \in {"open", "closed"} : Phases' = [Phases EXCEPT ![c] = next]
  BY <1>7, <1>8, PhasesWith
<1> QED
  BY <1>6, <1>9 DEF Contract!Start

LEMMA AnswersFinish ==
  ASSUME IInv, NEW u \in Uids, NEW a \in Mechanisms,
         \/ ApplyReturns(u, a)
         \/ \E outcome \in {"Success", "Failed"} : PlanExecuted(u, a, outcome)
  PROVE  Contract!Finish(u, a)
<1> DEFINE c == <<u, a>>
<1>1. /\ Idle /\ c \in applying \union awaiting /\ UNCHANGED <<task, plan, plans, tickVars, ready>>
  BY DEF ApplyReturns, PlanExecuted
<1>2. applying \intersect awaiting = {} /\ c \notin Range(ready) /\ c \in InFlight
  BY <1>1 DEF IInv, Promises, InFlightIsUnreported, InFlight
<1>3. applying' \union awaiting' = (applying \union awaiting) \ {c}
  BY <1>2 DEF ApplyReturns, PlanExecuted
<1>4. \A v \in Uids, b \in Mechanisms : Undecided(v, b)' <=> Undecided(v, b)
  BY <1>1 DEF Undecided, Idle, tickVars
<1>5. task[u] = "logged" /\ a \in Range(plan[u].assets) /\ ~Undecided(u, a)
  BY <1>1, <1>2, InFlightIsDecided
<1>6. Phases[c] = "open" /\ CorePlans' = CorePlans
  BY <1>1, <1>2, <1>5, PhaseOf DEF Phase, CorePlans
<1>7. Phase(u, a)' = "closed"
  BY <1>1, <1>2, <1>3, <1>4, <1>5 DEF Phase
<1>8. \A v \in Uids, b \in Mechanisms : <<v, b>> # c => Phase(v, b)' = Phase(v, b)
  BY <1>1, <1>3, <1>4 DEF Phase
<1>9. Phases' = [Phases EXCEPT ![c] = "closed"]
  BY <1>7, <1>8, PhasesWith
<1> QED
  BY <1>6, <1>9 DEF Contract!Finish

LEMMA StepsImplement == IInv /\ [Next]_vars => [Contract!Next]_(Contract!cvars)
<1> SUFFICES ASSUME IInv, [Next]_vars
             PROVE  Contract!Next \/ UNCHANGED <<Phases, CorePlans>>
  BY DEF Contract!cvars
<1> USE DEF phaseVars
<1>1. CASE UNCHANGED vars
  BY <1>1, PhasesStay DEF vars
<1>2. ASSUME NEW a \in Apps, AppEvent(a) PROVE UNCHANGED <<Phases, CorePlans>>
  BY <1>2, PhasesStay
     DEF AppEvent, OnApplicationReceived, StartApplicationPolicies,
         OnApplicationTerminated, DeleteApplicationPolicies
<1>3. ASSUME NEW owner \in Owners, NEW policy \in AppPolicies \union GlobalPolicies,
             Analyze(owner, policy)
      PROVE  UNCHANGED <<Phases, CorePlans>>
  <2> PICK u \in Uids :
         /\ task[u] = "absent"
         /\ task' = [task EXCEPT ![u] = "created"]
         /\ plan' = [plan EXCEPT ![u] =
              [application_id |-> owner, core |-> policy \in CorePolicies, assets |-> << >>]]
    BY <1>3 DEF Analyze
  <2>1. /\ task[u] # "logged" /\ task'[u] # "logged"
        /\ \A v \in Uids \ {u} : task'[v] = task[v] /\ plan'[v] = plan[v]
    BY DEF IInv, TypeOK
  <2>2. UNCHANGED <<plans, tickVars, execVars>>
    BY <1>3 DEF Analyze
  <2> QED
    BY <2>1, <2>2, UnqueuedPlan
<1>4. ASSUME NEW u \in Uids, PlanTaskRun(u) PROVE UNCHANGED <<Phases, CorePlans>>
  <2>1. /\ task[u] # "logged" /\ task'[u] # "logged"
        /\ \A v \in Uids \ {u} : task'[v] = task[v] /\ plan'[v] = plan[v]
    BY <1>4 DEF IInv, TypeOK, PlanTaskRun
  <2>2. UNCHANGED <<plans, tickVars, execVars>>
    BY <1>4 DEF PlanTaskRun
  <2> QED
    BY <2>1, <2>2, UnqueuedPlan
<1>5. ASSUME NEW u \in Uids, ProcessPlan(u) PROVE Contract!Next
  BY <1>5, QueuingSubmits DEF Contract!Next
<1>6. CASE Scheduler
  BY <1>6, WakingDecidesNothing, DiscardingRefuses, SchedulingGrants, NextPlanDecidesNothing
     DEF Scheduler, Contract!Next
<1>7. ASSUME NEW u \in Uids, NEW a \in Mechanisms,
             \/ Execute(u, a)
             \/ ApplyReturns(u, a)
             \/ \E outcome \in {"Success", "Failed"} : PlanExecuted(u, a, outcome)
      PROVE  Contract!Next
  BY <1>7, ExecutionStarts, AnswersFinish DEF Contract!Next
<1> QED
  BY <1>1, <1>2, <1>3, <1>4, <1>5, <1>6, <1>7 DEF Next

\* The pipeline makes only the steps that PlanContract allows: a command is refused or
\* granted once, is started once, ends once, and waits for the one that holds its
\* mechanism (the safety part of ImplementsContract).
THEOREM SafelyImplements == Spec => Contract!Spec
<1>1. Init => Contract!Init
  BY DEF Init, Contract!Init, Phases, Phase, CorePlans, Pairs
<1> QED
  BY <1>1, StepsImplement, InvariantHolds, PTL DEF Spec, Contract!Spec

=============================================================================
