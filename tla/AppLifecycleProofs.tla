------------------------- MODULE AppLifecycleProofs -------------------------
(***************************************************************************)
(* Machine-checked proofs about AppLifecycle, for any applications and any *)
(* number of requests and faults.                                          *)
(***************************************************************************)
EXTENDS AppLifecycle, TLAPS

-----------------------------------------------------------------------------
(* The message queue. *)

\* An event put on the queue decides what becomes of its application, and of no other.
LEMMA AppendEvent ==
  ASSUME NEW q \in Seq(Events), NEW m \in Events, NEW r, NEW a \in Apps
  PROVE  StartsIn(Append(q, m), r, a) <=>
           IF m.app = a /\ m.payload # "none" THEN m.event = "application_submitted"
           ELSE StartsIn(q, r, a)
<1> DEFINE Q == Append(q, m)
<1>1. /\ Len(q) \in Nat /\ Len(Q) = Len(q) + 1 /\ Q[Len(q) + 1] = m
      /\ \A i \in 1..Len(q) : Q[i] = q[i]
  OBVIOUS
<1>2. CASE m.app = a /\ m.payload # "none"
  <2>1. Len(q) + 1 \in Pending(Q, a) /\ \A j \in Pending(Q, a) : j <= Len(q) + 1
    BY <1>1, <1>2 DEF Pending
  <2>2. \A i \in Pending(Q, a) :
          (\A j \in Pending(Q, a) : j <= i) => i = Len(q) + 1
    BY <1>1, <2>1 DEF Pending
  <2> QED
    BY <1>1, <1>2, <2>1, <2>2 DEF StartsIn
<1>3. CASE ~(m.app = a /\ m.payload # "none")
  <2>1. Pending(Q, a) = Pending(q, a)
    BY <1>1, <1>3 DEF Pending
  <2>2. \A i \in Pending(q, a) : Q[i] = q[i]
    BY <1>1 DEF Pending
  <2> QED
    BY <1>3, <2>1, <2>2 DEF StartsIn
<1> QED
  BY <1>2, <1>3

\* Taking the first event, and doing what it says, changes nothing about what will
\* become of an application.
LEMMA TakeEvent ==
  ASSUME NEW q \in Seq(Events), q # << >>, NEW r, NEW s, NEW a \in Apps,
         Head(q).app = a /\ Head(q).payload # "none"
           => (s[a] # "none" <=> Head(q).event = "application_submitted"),
         ~(Head(q).app = a /\ Head(q).payload # "none") => s[a] = r[a]
  PROVE  StartsIn(Tail(q), s, a) <=> StartsIn(q, r, a)
<1> DEFINE Q == Tail(q)
<1>1. /\ Len(q) \in Nat \ {0} /\ Len(Q) = Len(q) - 1 /\ Head(q) = q[1]
      /\ \A i \in 1..(Len(q) - 1) : Q[i] = q[i + 1]
  OBVIOUS
<1>2. \A i \in Nat : i \in Pending(Q, a) <=> i + 1 \in Pending(q, a) /\ i # 0
  BY <1>1 DEF Pending
<1>3. 1 \in Pending(q, a) <=> Head(q).app = a /\ Head(q).payload # "none"
  BY <1>1 DEF Pending
<1>4. Pending(q, a) \subseteq Nat \ {0} /\ Pending(Q, a) \subseteq Nat \ {0}
  BY <1>1 DEF Pending
<1>5. \A i \in Pending(Q, a) : Q[i] = q[i + 1]
  BY <1>1 DEF Pending
<1>6. \A k \in Pending(q, a) : k = 1 \/ k - 1 \in Pending(Q, a)
  BY <1>2, <1>4
<1>7. CASE Pending(Q, a) = {}
  <2>1. Pending(q, a) \subseteq {1}
    BY <1>6, <1>7
  <2>2. CASE 1 \in Pending(q, a)
    <3>1. Pending(q, a) = {1}
      BY <2>1, <2>2
    <3>2. StartsIn(q, r, a) <=> Head(q).event = "application_submitted"
      BY <3>1, <1>1 DEF StartsIn
    <3> QED
      BY <3>2, <1>3, <2>2, <1>7 DEF StartsIn
  <2>3. CASE 1 \notin Pending(q, a)
    <3>1. Pending(q, a) = {}
      BY <2>1, <2>3
    <3> QED
      BY <3>1, <1>3, <2>3, <1>7 DEF StartsIn
  <2> QED
    BY <2>2, <2>3
<1>8. CASE Pending(Q, a) # {}
  <2>1. PICK p \in Pending(Q, a) : TRUE
    BY <1>8
  <2>2. p + 1 \in Pending(q, a) /\ p + 1 > 1
    BY <1>2, <1>4, <2>1
  <2>3. ASSUME NEW i \in Pending(Q, a), Q[i].event = "application_submitted",
               \A j \in Pending(Q, a) : j <= i
        PROVE  StartsIn(q, r, a)
    <3>1. i + 1 \in Pending(q, a) /\ q[i + 1].event = "application_submitted"
      BY <1>2, <1>4, <1>5, <2>3
    <3>2. \A j \in Pending(q, a) : j <= i + 1
      BY <1>4, <1>6, <2>3
    <3> QED
      BY <3>1, <3>2 DEF StartsIn
  <2>4. ASSUME NEW i \in Pending(q, a), q[i].event = "application_submitted",
               \A j \in Pending(q, a) : j <= i
        PROVE  StartsIn(Q, s, a)
    <3>1. i # 1
      BY <2>2, <2>4, <1>4
    <3>2. i - 1 \in Pending(Q, a) /\ Q[i - 1] = q[i]
      <4>1. i - 1 \in Pending(Q, a)
        BY <3>1, <1>6
      <4>2. (i - 1) + 1 = i
        BY <1>4
      <4> QED
        BY <4>1, <4>2, <1>5
    <3>3. \A j \in Pending(Q, a) : j <= i - 1
      BY <1>2, <1>4, <2>4
    <3> QED
      BY <3>2, <3>3, <2>4 DEF StartsIn
  <2>5. Pending(q, a) # {}
    BY <2>2
  <2> QED
    BY <1>8, <2>3, <2>4, <2>5 DEF StartsIn
<1> QED
  BY <1>7, <1>8

-----------------------------------------------------------------------------
(* Type correctness. *)

\* A step of the agent's coroutine keeps the type of its program counter.
LEMMA AgentStepType ==
  ASSUME AgentType, missed \subseteq Apps, NEW from \in AgentSteps,
         NEW to \in {"idle"} \union AgentSteps, AgentStep(from, to)
  PROVE  /\ agent.entry \in Entries /\ agent.entry.app \in Apps
         /\ AgentType' /\ missed' \subseteq Apps
<1>1. agent \in [at : AgentSteps, entry : Entries, todo : {{}}]
  BY DEF AgentType, AgentStep, IdleAgent, AgentSteps
<1>2. agent.entry \in Entries /\ agent.entry.app \in Apps
  BY <1>1 DEF Entries
<1>3. missed' \subseteq Apps
  BY DEF AgentStep
<1>4. ASSUME to = "idle" PROVE AgentType'
  BY <1>4 DEF AgentStep, AgentType
<1>5. ASSUME to # "idle" PROVE AgentType'
  <2>1. agent' = [agent EXCEPT !.at = to] /\ to \in AgentSteps
    BY <1>5 DEF AgentStep
  <2> QED
    BY <1>1, <2>1 DEF AgentType
<1> QED
  BY <1>2, <1>3, <1>4, <1>5

LEMMA TypeInit == Init => TypeOK
<1> SUFFICES ASSUME Init PROVE TypeOK
  OBVIOUS
<1>1. RedisType
  BY DEF Init, RedisType, Statuses
<1>2. ApiType /\ AgentType
  BY BoundAssumption DEF Init, ApiType, AgentType
<1>3. EventType /\ LoopType /\ faults \in 0..MaxFaults
  BY BoundAssumption DEF Init, EventType, LoopType, Payloads
<1> QED
  BY <1>1, <1>2, <1>3 DEF TypeOK

LEMMA StatusType ==
  ASSUME RedisType, NEW a \in Apps, NEW new \in Statuses, SetStatus(a, new)
  PROVE  system_app_hash' \in [Apps -> Statuses]
BY DEF RedisType, SetStatus

\* The parts that a step leaves alone keep their type.
LEMMA TypeUnchanged ==
  ASSUME TypeOK
  PROVE  /\ UNCHANGED redisVars => RedisType'
         /\ UNCHANGED apiVars => ApiType'
         /\ UNCHANGED agent => AgentType'
         /\ UNCHANGED <<failoverVars, message_queue>> => EventType'
         /\ UNCHANGED <<loopVars, resources>> => LoopType'
<1>1. UNCHANGED redisVars => RedisType'
  BY DEF TypeOK, RedisType, redisVars
<1>2. UNCHANGED apiVars => ApiType'
  BY DEF TypeOK, ApiType, apiVars
<1>3. UNCHANGED agent => AgentType'
  BY DEF TypeOK, AgentType
<1>4. UNCHANGED <<failoverVars, message_queue>> => EventType'
  BY DEF TypeOK, EventType, failoverVars
<1>5. UNCHANGED <<loopVars, resources>> => LoopType'
  BY DEF TypeOK, LoopType, loopVars
<1> QED
  BY <1>1, <1>2, <1>3, <1>4, <1>5

\* The requests of the API.
LEMMA TypeApi ==
  ASSUME TypeOK, NEW a \in Apps, DeployCheck(a) \/ RemoveCheck(a) \/ Handler(a)
  PROVE  TypeOK'
<1>0. UNCHANGED <<agentVars, resources, faults>>
  BY DEF DeployCheck, RemoveCheck, Handler, DeployPush, DeployMark, DeployStore, RemoveMark,
         RemoveData, RemovePush, ApiStep
<1>1. AgentType' /\ EventType' /\ LoopType' /\ faults' \in 0..MaxFaults
  BY <1>0, TypeUnchanged DEF agentVars, TypeOK
<1>2. ASSUME NEW from, NEW to \in {"idle"} \union ApiSteps, ApiStep(from, to, a)
      PROVE  api' = IdleApi \/ api' \in [at : ApiSteps, app : Apps]
  BY <1>2 DEF ApiStep
<1>3. [app |-> a, payload |-> "full"] \in Entries /\ [app |-> a, payload |-> "name"] \in Entries
  BY DEF Entries
<1>4. CASE DeployCheck(a) \/ RemoveCheck(a)
  <2>1. RedisType'
    BY <1>4, TypeUnchanged DEF DeployCheck, RemoveCheck
  <2>2. ApiType'
    <3>1. requests < MaxRequests /\ requests' = requests + 1
      BY <1>4 DEF DeployCheck, RemoveCheck
    <3>2. requests \in 0..MaxRequests
      BY DEF ApiType, TypeOK
    <3>3. requests' \in 0..MaxRequests
      BY <3>1, <3>2, BoundAssumption
    <3>4. PICK at \in {"deploy push", "remove mark"} : api' = [at |-> at, app |-> a]
      BY <1>4 DEF DeployCheck, RemoveCheck
    <3>5. api' \in [at : ApiSteps, app : Apps]
      BY <3>4 DEF ApiSteps
    <3> QED
      BY <1>4, <3>3, <3>5 DEF DeployCheck, RemoveCheck, ApiType, TypeOK
  <2> QED
    BY <1>1, <2>1, <2>2 DEF TypeOK
<1>5. CASE DeployPush(a)
  <2>1. RedisType'
    <3>1. valid_descriptions_queue' = Append(valid_descriptions_queue, [app |-> a, payload |-> "full"])
      BY <1>5 DEF DeployPush
    <3>2. valid_descriptions_queue' \in Seq(Entries)
      BY <1>3, <3>1 DEF TypeOK, RedisType
    <3> QED
      BY <1>5, <3>2 DEF DeployPush, TypeOK, RedisType
  <2>2. ApiType'
    BY <1>2, <1>5 DEF DeployPush, TypeOK, ApiType, ApiSteps
  <2> QED
    BY <1>1, <2>1, <2>2 DEF TypeOK
<1>6. CASE DeployMark(a)
  <2>1. RedisType'
    BY <1>6, StatusType DEF DeployMark, TypeOK, RedisType, Statuses
  <2>2. ApiType'
    BY <1>2, <1>6 DEF DeployMark, TypeOK, ApiType, ApiSteps
  <2> QED
    BY <1>1, <2>1, <2>2 DEF TypeOK
<1>7. CASE DeployStore(a)
  <2>1. RedisType'
    BY <1>7 DEF DeployStore, TypeOK, RedisType
  <2>2. ApiType'
    BY <1>2, <1>7 DEF DeployStore, TypeOK, ApiType, ApiSteps
  <2> QED
    BY <1>1, <2>1, <2>2 DEF TypeOK
<1>8. CASE RemoveMark(a)
  <2>1. RedisType'
    BY <1>8, StatusType DEF RemoveMark, TypeOK, RedisType, Statuses
  <2>2. ApiType'
    BY <1>2, <1>8 DEF RemoveMark, TypeOK, ApiType, ApiSteps
  <2> QED
    BY <1>1, <2>1, <2>2 DEF TypeOK
<1>9. CASE RemoveData(a)
  <2>1. RedisType'
    BY <1>9 DEF RemoveData, TypeOK, RedisType
  <2>2. ApiType'
    BY <1>2, <1>9 DEF RemoveData, TypeOK, ApiType, ApiSteps
  <2> QED
    BY <1>1, <2>1, <2>2 DEF TypeOK
<1>10. CASE RemovePush(a)
  <2>1. RedisType'
    <3>1. valid_descriptions_queue' = Append(valid_descriptions_queue, [app |-> a, payload |-> "name"])
      BY <1>10 DEF RemovePush
    <3>2. valid_descriptions_queue' \in Seq(Entries)
      BY <1>3, <3>1 DEF TypeOK, RedisType
    <3> QED
      BY <1>10, <3>2 DEF RemovePush, TypeOK, RedisType
  <2>2. ApiType'
    BY <1>2, <1>10 DEF RemovePush, TypeOK, ApiType, ApiSteps
  <2> QED
    BY <1>1, <2>1, <2>2 DEF TypeOK
<1> QED
  BY <1>4, <1>5, <1>6, <1>7, <1>8, <1>9, <1>10 DEF Handler

LEMMA TypeRequestFails ==
  ASSUME TypeOK, RequestFails
  PROVE  TypeOK'
<1>1. RedisType' /\ AgentType' /\ EventType' /\ LoopType'
  BY TypeUnchanged DEF RequestFails, agentVars
<1>2. ApiType' /\ faults' \in 0..MaxFaults
  BY BoundAssumption DEF RequestFails, TypeOK, ApiType
<1> QED
  BY <1>1, <1>2 DEF TypeOK

\* ProcessBehaviour.
LEMMA TypeProcess ==
  ASSUME TypeOK, ProcessBehaviour \/ DeploymentFails
  PROVE  TypeOK'
<1>0. AgentType /\ missed \subseteq Apps /\ message_queue \in Seq(Events)
  BY DEF TypeOK, EventType
<1>1. CASE ProcessPop
  <2>1. ApiType' /\ EventType' /\ LoopType' /\ faults' \in 0..MaxFaults
    BY <1>1, TypeUnchanged DEF ProcessPop, TypeOK
  <2>2. /\ Head(valid_descriptions_queue) \in Entries
        /\ Tail(valid_descriptions_queue) \in Seq(Entries)
    BY <1>1 DEF ProcessPop, TypeOK, RedisType
  <2>3. RedisType' /\ AgentType'
    BY <1>1, <2>2 DEF ProcessPop, TypeOK, RedisType, AgentType, AgentSteps
  <2> QED
    BY <2>1, <2>3 DEF TypeOK
<1>2. ASSUME NEW from \in AgentSteps, NEW to \in {"idle"} \union AgentSteps, AgentStep(from, to)
      PROVE  /\ agent.entry \in Entries /\ agent.entry.app \in Apps
             /\ ApiType' /\ AgentType' /\ LoopType'
             /\ failover_due' \in BOOLEAN /\ missed' \subseteq Apps
  <2>1. UNCHANGED apiVars /\ UNCHANGED <<loopVars, resources>> /\ failover_due' = failover_due
    BY <1>2 DEF AgentStep
  <2> QED
    BY <1>0, <1>2, <2>1, AgentStepType, TypeUnchanged DEF TypeOK, EventType
<1>3. ASSUME NEW a \in Apps, NEW new \in Statuses, SetStatus(a, new),
             UNCHANGED <<valid_descriptions_queue, app_data_hash>>
      PROVE  RedisType'
  BY <1>3, StatusType DEF TypeOK, RedisType
<1>4. CASE ProcessRead
  <2>1. PICK to \in {"removed", "deploy"} : AgentStep("popped", to)
    BY <1>4 DEF ProcessRead
  <2>2. /\ agent.entry.app \in Apps /\ ApiType' /\ AgentType' /\ LoopType'
        /\ failover_due' \in BOOLEAN /\ missed' \subseteq Apps
    BY <2>1, <1>2 DEF AgentSteps
  <2>3. Removed(agent.entry.app) \in Events
    BY <2>2 DEF Removed, Events
  <2>4. message_queue' \in Seq(Events)
    BY <1>0, <1>4, <2>3 DEF ProcessRead
  <2>5. RedisType' /\ faults' \in 0..MaxFaults
    BY <1>4, TypeUnchanged DEF ProcessRead, TypeOK
  <2> QED
    BY <2>2, <2>4, <2>5 DEF TypeOK, EventType
<1>5. CASE ProcessRemoved \/ ProcessForget \/ ProcessDeployed
  <2>1. PICK from \in AgentSteps, to \in {"idle", "forget"} : AgentStep(from, to)
    BY <1>5 DEF ProcessRemoved, ProcessForget, ProcessDeployed, AgentSteps
  <2>2. /\ agent.entry.app \in Apps /\ ApiType' /\ AgentType' /\ LoopType'
        /\ failover_due' \in BOOLEAN /\ missed' \subseteq Apps
    BY <2>1, <1>2 DEF AgentSteps
  <2>3. /\ \E new \in Statuses : SetStatus(agent.entry.app, new)
        /\ UNCHANGED <<valid_descriptions_queue, app_data_hash, message_queue, faults>>
    BY <1>5 DEF ProcessRemoved, ProcessForget, ProcessDeployed, Statuses
  <2>4. RedisType'
    BY <1>3, <2>2, <2>3
  <2> QED
    BY <1>0, <2>2, <2>3, <2>4 DEF TypeOK, EventType
<1>6. CASE ProcessDeploy
  <2>1. AgentStep("deploy", "deployed")
    BY <1>6 DEF ProcessDeploy
  <2>2. /\ agent.entry \in Entries /\ agent.entry.app \in Apps
        /\ ApiType' /\ AgentType' /\ LoopType'
        /\ failover_due' \in BOOLEAN /\ missed' \subseteq Apps
    BY <2>1, <1>2 DEF AgentSteps
  <2>3. Submitted(agent.entry.app, agent.entry.payload) \in Events
    BY <2>2 DEF Submitted, Events, Entries, Payloads
  <2>4. message_queue' \in Seq(Events)
    BY <1>0, <1>6, <2>3 DEF ProcessDeploy
  <2>5. RedisType' /\ faults' = faults
    BY <1>3, <1>6, <2>2 DEF ProcessDeploy, Statuses
  <2> QED
    BY <2>2, <2>4, <2>5 DEF TypeOK, EventType
<1>7. CASE DeploymentFails
  <2>1. PICK from \in {"deploy", "deployed"} : AgentStep(from, "idle")
    BY <1>7 DEF DeploymentFails
  <2>2. /\ agent.entry.app \in Apps /\ ApiType' /\ AgentType' /\ LoopType'
        /\ failover_due' \in BOOLEAN /\ missed' \subseteq Apps
    BY <2>1, <1>2 DEF AgentSteps
  <2>3. RedisType' /\ message_queue' = message_queue
    BY <1>3, <1>7, <2>2 DEF DeploymentFails, Statuses
  <2>4. faults' \in 0..MaxFaults
    BY <1>7, BoundAssumption DEF DeploymentFails, TypeOK
  <2> QED
    BY <1>0, <2>2, <2>3, <2>4 DEF TypeOK, EventType
<1> QED
  BY <1>1, <1>4, <1>5, <1>6, <1>7 DEF ProcessBehaviour

\* FailoverBehavior.
LEMMA TypeFailover ==
  ASSUME TypeOK, Failover
  PROVE  TypeOK'
<1>0. RedisType' /\ ApiType' /\ LoopType' /\ faults' \in 0..MaxFaults
  BY TypeUnchanged DEF Failover, FailoverSnapshot, FailoverFetch, TypeOK
<1>1. CASE FailoverSnapshot
  <2> DEFINE deployed == {a \in Apps : system_app_hash[a] = "Deployed"}
  <2>1. \/ agent' = IdleAgent
        \/ deployed # {} /\ agent' = [IdleAgent EXCEPT !.at = "failover", !.todo = deployed]
    BY <1>1 DEF FailoverSnapshot
  <2>2. AgentType'
    BY <2>1 DEF AgentType, IdleAgent
  <2>3. EventType'
    BY <1>1 DEF FailoverSnapshot, EventType, TypeOK
  <2> QED
    BY <1>0, <2>2, <2>3 DEF TypeOK
<1>2. ASSUME NEW a \in Apps, FailoverFetch(a)
      PROVE  TypeOK'
  <2>1. agent \in [at : {"failover"}, entry : {IdleAgent.entry}, todo : (SUBSET Apps) \ {{}}]
    BY <1>2 DEF FailoverFetch, TypeOK, AgentType, IdleAgent, AgentSteps
  <2>2. AgentType'
    <3>1. CASE agent.todo = {a}
      BY <1>2, <3>1 DEF FailoverFetch, AgentType
    <3>2. CASE agent.todo # {a}
      <4>1. agent' = [agent EXCEPT !.todo = @ \ {a}] /\ a \in agent.todo
        BY <1>2, <3>2 DEF FailoverFetch
      <4>2. agent.todo \ {a} \in (SUBSET Apps) \ {{}}
        BY <2>1, <3>2, <4>1
      <4> QED
        BY <2>1, <4>1, <4>2 DEF AgentType
    <3> QED
      BY <3>1, <3>2
  <2>3. \A p \in {"full", "none"} : Submitted(a, p) \in Events
    BY DEF Submitted, Events, Payloads
  <2>4. EventType'
    <3>1. \E p \in {"full", "none"} : message_queue' = Append(message_queue, Submitted(a, p))
      BY <1>2 DEF FailoverFetch
    <3>2. message_queue' \in Seq(Events)
      BY <2>3, <3>1 DEF TypeOK, EventType
    <3> QED
      BY <1>2, <3>2 DEF FailoverFetch, TypeOK, EventType
  <2> QED
    BY <1>0, <2>2, <2>4 DEF TypeOK
<1> QED
  BY <1>1, <1>2 DEF Failover

\* The listener and the placements.
LEMMA TypeLoop ==
  ASSUME TypeOK,
         \/ Listener \/ AddNewInterval
         \/ \E a \in Apps : PlanPlacement(a) \/ ApplyPlacement(a)
  PROVE  TypeOK'
<1>0. UNCHANGED <<redisVars, apiVars, agent, failoverVars, faults>>
  BY DEF Listener, OnSubmitted, OnRemoved, Listening, DeleteResource, AddNewInterval,
         PlanPlacement, ApplyPlacement
<1>1. RedisType' /\ ApiType' /\ AgentType' /\ faults' \in 0..MaxFaults
  BY <1>0, TypeUnchanged DEF TypeOK
<1>2. ASSUME NEW e, Listening(e)
      PROVE  /\ Head(message_queue) \in Events /\ Head(message_queue).app \in Apps
             /\ Head(message_queue).payload \in Payloads /\ EventType'
  <2>1. Head(message_queue) \in Events /\ Tail(message_queue) \in Seq(Events)
    BY <1>2 DEF Listening, TypeOK, EventType
  <2>2. Head(message_queue).app \in Apps /\ Head(message_queue).payload \in Payloads
    BY <2>1 DEF Events, Payloads
  <2>3. EventType'
    BY <1>0, <1>2, <2>1 DEF Listening, TypeOK, EventType, failoverVars
  <2> QED
    BY <2>1, <2>2, <2>3
<1>3. CASE OnSubmitted
  <2>1. Listening("application_submitted")
    BY <1>3 DEF OnSubmitted
  <2>2. LoopType'
    BY <1>2, <1>3, <2>1 DEF OnSubmitted, Listening, TypeOK, LoopType
  <2> QED
    BY <1>1, <1>2, <2>1, <2>2 DEF TypeOK
<1>4. CASE OnRemoved
  <2>1. Listening("application_removed")
    BY <1>4 DEF OnRemoved
  <2>2. LoopType'
    BY <1>2, <1>4, <2>1 DEF OnRemoved, Listening, TypeOK, LoopType, Payloads
  <2> QED
    BY <1>1, <1>2, <2>1, <2>2 DEF TypeOK
<1>5. ASSUME \/ DeleteResource \/ AddNewInterval
             \/ \E a \in Apps : PlanPlacement(a) \/ ApplyPlacement(a)
      PROVE  TypeOK'
  <2>1. EventType'
    BY <1>0, <1>5, TypeUnchanged DEF DeleteResource, AddNewInterval, PlanPlacement, ApplyPlacement
  <2>2. LoopType'
    BY <1>5 DEF DeleteResource, AddNewInterval, PlanPlacement, ApplyPlacement, TypeOK, LoopType
  <2> QED
    BY <1>1, <2>1, <2>2 DEF TypeOK
<1> QED
  BY <1>3, <1>4, <1>5 DEF Listener

LEMMA TypeCrash ==
  ASSUME TypeOK, Crash
  PROVE  TypeOK'
<1>1. RedisType' /\ ApiType'
  BY TypeUnchanged DEF Crash
<1>2. AgentType' /\ EventType'
  BY DEF Crash, AgentType, EventType
<1>3. LoopType'
  BY DEF Crash, LoopType, Payloads, TypeOK
<1>4. faults' \in 0..MaxFaults
  BY BoundAssumption DEF Crash, TypeOK
<1> QED
  BY <1>1, <1>2, <1>3, <1>4 DEF TypeOK

LEMMA TypeNext == TypeOK /\ [Next]_vars => TypeOK'
<1> SUFFICES ASSUME TypeOK, [Next]_vars PROVE TypeOK'
  OBVIOUS
<1>1. CASE UNCHANGED vars
  <2>1. RedisType' /\ ApiType' /\ AgentType' /\ EventType' /\ LoopType'
    BY <1>1, TypeUnchanged DEF vars, agentVars
  <2> QED
    BY <1>1, <2>1 DEF vars, TypeOK
<1> QED
  BY <1>1, TypeApi, TypeRequestFails, TypeProcess, TypeFailover, TypeLoop, TypeCrash DEF Next

\* The variables always have the values TypeOK gives them.
THEOREM LifecycleTypeCorrect == Spec => []TypeOK
BY TypeInit, TypeNext, PTL DEF Spec

-----------------------------------------------------------------------------
(* Statuses, events and applications agree. *)

\* While ProcessBehaviour finishes a removal its event has been sent, and the status is
\* not Deployed; while it finishes a deployment the event has been sent; and the
\* applications FailoverBehavior still has to submit keep a status.
CoroutineInv ==
  /\ agent.at \in {"removed", "forget"} =>
       ~WillRun(agent.entry.app) /\ system_app_hash[agent.entry.app] # "Deployed"
  /\ agent.at = "deployed" => WillRun(agent.entry.app)
  /\ \A a \in agent.todo : system_app_hash[a] # "absent"

LifecycleInv == TypeOK /\ RunningIsListed /\ DeployedIsRunning /\ CoroutineInv

\* The entry that a coroutine works on names an application.
LEMMA EntryApp ==
  ASSUME AgentType
  PROVE  /\ agent.at \in AgentSteps => /\ agent.entry \in Entries /\ agent.entry.app \in Apps
                                       /\ agent.todo = {}
         /\ agent.at \notin AgentSteps \union {"failover"} => agent = IdleAgent
         /\ agent.todo \subseteq Apps
<1>1. CASE agent = IdleAgent
  BY <1>1 DEF IdleAgent, AgentSteps
<1>2. CASE agent \in [at : AgentSteps, entry : Entries, todo : {{}}]
  BY <1>2 DEF Entries
<1>3. CASE agent \in [at : {"failover"}, entry : {IdleAgent.entry}, todo : (SUBSET Apps) \ {{}}]
  BY <1>3 DEF AgentSteps
<1> QED
  BY <1>1, <1>2, <1>3 DEF AgentType

\* Nothing starts out of an empty queue.
LEMMA NothingStarts ==
  ASSUME NEW r, NEW a \in Apps, r[a] = "none"
  PROVE  ~StartsIn(<< >>, r, a)
<1>1. Pending(<< >>, a) = {}
  BY Len(<< >>) = 0 DEF Pending
<1> QED
  BY <1>1 DEF StartsIn

LEMMA InvInit == Init => LifecycleInv
<1> SUFFICES ASSUME Init PROVE LifecycleInv
  OBVIOUS
<1>1. \A a \in Apps : ~WillRun(a)
  BY NothingStarts DEF Init, WillRun
<1>2. agent.at = "idle" /\ agent.todo = {} /\ failover_due
  BY DEF Init, IdleAgent
<1> QED
  BY <1>1, <1>2, TypeInit DEF LifecycleInv, RunningIsListed, DeployedIsRunning, CoroutineInv

\* What a request does to a status breaks none of the agreements, because it never
\* removes one and never writes Deployed.
LEMMA InvApi ==
  ASSUME LifecycleInv, NEW a \in Apps,
         DeployCheck(a) \/ RemoveCheck(a) \/ Handler(a) \/ RequestFails
  PROVE  RunningIsListed' /\ DeployedIsRunning' /\ CoroutineInv'
<1>1. UNCHANGED <<agent, failover_due, missed, message_queue, running>>
  BY DEF DeployCheck, RemoveCheck, Handler, DeployPush, DeployMark, DeployStore, RemoveMark,
         RemoveData, RemovePush, RequestFails, ApiStep, agentVars, failoverVars, loopVars
<1>2. \A b \in Apps : \/ system_app_hash'[b] = system_app_hash[b]
                     \/ system_app_hash'[b] \in {"Queued", "To_be_removed"}
  BY DEF DeployCheck, RemoveCheck, Handler, DeployPush, DeployMark, DeployStore, RemoveMark,
         RemoveData, RemovePush, RequestFails, SetStatus, redisVars, LifecycleInv, TypeOK, RedisType
<1>3. \A b : WillRun(b)' <=> WillRun(b)
  BY <1>1 DEF WillRun
<1>4. AgentType
  BY DEF LifecycleInv, TypeOK
<1>5. RunningIsListed'
  BY <1>2, <1>3 DEF LifecycleInv, RunningIsListed
<1>6. DeployedIsRunning'
  BY <1>1, <1>2, <1>3 DEF LifecycleInv, DeployedIsRunning
<1>7. CoroutineInv'
  BY <1>1, <1>2, <1>3, <1>4, EntryApp DEF LifecycleInv, CoroutineInv, AgentSteps
<1> QED
  BY <1>5, <1>6, <1>7

\* A step of ProcessBehaviour that changes only the status of its application.
LEMMA InvStatus ==
  ASSUME LifecycleInv, ProcessRemoved \/ ProcessForget \/ ProcessDeployed \/ DeploymentFails
  PROVE  RunningIsListed' /\ DeployedIsRunning' /\ CoroutineInv'
<1> DEFINE a == agent.entry.app
<1>0. AgentType /\ RedisType
  BY DEF LifecycleInv, TypeOK
<1>1. /\ agent.at \in AgentSteps
      /\ UNCHANGED <<failover_due, message_queue, running>>
  BY DEF ProcessRemoved, ProcessForget, ProcessDeployed, DeploymentFails, AgentStep, AgentSteps,
         loopVars
<1>2. a \in Apps /\ agent.todo = {}
  BY <1>0, <1>1, EntryApp
<1>3. \A b : WillRun(b)' <=> WillRun(b)
  BY <1>1 DEF WillRun
<1>4. agent' = IdleAgent \/ agent' = [agent EXCEPT !.at = "forget"]
  BY DEF ProcessRemoved, ProcessForget, ProcessDeployed, DeploymentFails, AgentStep
<1>5. agent'.todo = {} /\ (agent' # IdleAgent => agent'.at = "forget" /\ agent'.entry.app = a)
  <2>1. CASE agent' = IdleAgent
    BY <2>1 DEF IdleAgent
  <2>2. CASE agent' = [agent EXCEPT !.at = "forget"] /\ agent' # IdleAgent
    <3>1. agent \in [at : AgentSteps, entry : Entries, todo : {{}}]
      BY <1>0, <1>1 DEF AgentType, IdleAgent, AgentSteps
    <3> QED
      BY <2>2, <3>1
  <2> QED
    BY <1>4, <2>1, <2>2
<1>6. IdleAgent.at = "idle"
  BY DEF IdleAgent
<1> HIDE DEF a
<1>7. CASE ProcessRemoved
  <2>1. /\ agent.at = "removed" /\ missed' = missed
        /\ system_app_hash' = [system_app_hash EXCEPT ![a] = "Removed"]
    BY <1>7 DEF ProcessRemoved, AgentStep, SetStatus, a
  <2>2. ~WillRun(a)
    BY <2>1 DEF LifecycleInv, CoroutineInv, a
  <2>3. RunningIsListed' /\ DeployedIsRunning'
    BY <1>0, <1>1, <1>2, <1>3, <1>5, <2>1 DEF LifecycleInv, RunningIsListed, DeployedIsRunning,
                                             RedisType
  <2>4. CoroutineInv'
    BY <1>0, <1>2, <1>3, <1>5, <1>6, <2>1, <2>2 DEF CoroutineInv, RedisType
  <2> QED
    BY <2>3, <2>4
<1>8. CASE ProcessForget
  <2>1. /\ agent.at = "forget" /\ missed' = missed /\ agent' = IdleAgent
        /\ system_app_hash' = [system_app_hash EXCEPT ![a] = "absent"]
    BY <1>8 DEF ProcessForget, AgentStep, SetStatus, a
  <2>2. ~WillRun(a)
    BY <2>1 DEF LifecycleInv, CoroutineInv, a
  <2>3. RunningIsListed' /\ DeployedIsRunning'
    BY <1>0, <1>1, <1>2, <1>3, <1>5, <2>1, <2>2 DEF LifecycleInv, RunningIsListed,
                                                  DeployedIsRunning, RedisType
  <2>4. CoroutineInv'
    BY <1>5, <1>6, <2>1 DEF CoroutineInv
  <2> QED
    BY <2>3, <2>4
<1>9. CASE ProcessDeployed
  <2>1. /\ agent.at = "deployed" /\ missed' = missed /\ agent' = IdleAgent
        /\ system_app_hash' = [system_app_hash EXCEPT ![a] = "Deployed"]
    BY <1>9 DEF ProcessDeployed, AgentStep, SetStatus, a
  <2>2. WillRun(a)
    BY <2>1 DEF LifecycleInv, CoroutineInv, a
  <2>3. RunningIsListed' /\ DeployedIsRunning'
    BY <1>0, <1>1, <1>2, <1>3, <1>5, <2>1, <2>2 DEF LifecycleInv, RunningIsListed,
                                                  DeployedIsRunning, RedisType
  <2>4. CoroutineInv'
    BY <1>5, <1>6, <2>1 DEF CoroutineInv
  <2> QED
    BY <2>3, <2>4
<1>10. CASE DeploymentFails
  <2>1. /\ missed \ {a} \subseteq missed' /\ agent' = IdleAgent
        /\ system_app_hash' = [system_app_hash EXCEPT ![a] = "Deployment_Failed"]
    BY <1>10 DEF DeploymentFails, AgentStep, SetStatus, a
  <2>2. RunningIsListed' /\ DeployedIsRunning'
    BY <1>0, <1>1, <1>2, <1>3, <1>5, <2>1 DEF LifecycleInv, RunningIsListed, DeployedIsRunning,
                                             RedisType
  <2>3. CoroutineInv'
    BY <1>5, <1>6, <2>1 DEF CoroutineInv
  <2> QED
    BY <2>2, <2>3
<1> QED
  BY <1>7, <1>8, <1>9, <1>10

\* ProcessBehaviour takes an entry, or puts an event on the message queue.
LEMMA InvProcess ==
  ASSUME LifecycleInv, ProcessPop \/ ProcessRead \/ ProcessDeploy
  PROVE  RunningIsListed' /\ DeployedIsRunning' /\ CoroutineInv'
<1>0. AgentType /\ RedisType /\ message_queue \in Seq(Events)
  BY DEF LifecycleInv, TypeOK, EventType
<1>1. CASE ProcessPop
  <2>1. UNCHANGED <<system_app_hash, failover_due, missed, message_queue, running>>
    BY <1>1 DEF ProcessPop, failoverVars, loopVars
  <2>2. agent'.at = "popped" /\ agent'.todo = {} /\ agent.todo = {}
    BY <1>0, <1>1, EntryApp DEF ProcessPop, AgentIdle, AgentSteps, IdleAgent
  <2>3. \A b : WillRun(b)' <=> WillRun(b)
    BY <2>1 DEF WillRun
  <2> QED
    BY <2>1, <2>2, <2>3 DEF LifecycleInv, RunningIsListed, DeployedIsRunning, CoroutineInv
<1>2. CASE ProcessRead
  <2> DEFINE a == agent.entry.app
             to == IF system_app_hash[a] = "To_be_removed" THEN "removed" ELSE "deploy"
  <2>1. /\ agent.at = "popped" /\ UNCHANGED <<system_app_hash, failover_due, missed, running>>
        /\ agent' = [agent EXCEPT !.at = to]
    BY <1>2 DEF ProcessRead, AgentStep, redisVars, loopVars
  <2>2. a \in Apps /\ agent.todo = {} /\ agent \in [at : AgentSteps, entry : Entries, todo : {{}}]
    BY <1>0, <2>1, EntryApp DEF AgentSteps, AgentType, IdleAgent
  <2>3. agent'.at = to /\ agent'.entry.app = a /\ agent'.todo = {}
    BY <2>1, <2>2
  <2>4. CASE system_app_hash[a] = "To_be_removed"
    <3>1. message_queue' = Append(message_queue, Removed(a))
      BY <1>2, <2>4 DEF ProcessRead
    <3>2. Removed(a) \in Events
      BY <2>2 DEF Removed, Events
    <3>3. \A b \in Apps : WillRun(b)' <=> b # a /\ WillRun(b)
      BY <1>0, <2>1, <3>1, <3>2, AppendEvent DEF WillRun, Removed
    <3>4. RunningIsListed'
      BY <2>1, <3>3 DEF LifecycleInv, RunningIsListed
    <3>5. DeployedIsRunning'
      BY <2>1, <2>2, <2>3, <2>4, <3>3 DEF LifecycleInv, DeployedIsRunning
    <3>6. CoroutineInv'
      BY <2>1, <2>2, <2>3, <2>4, <3>3 DEF CoroutineInv
    <3> QED
      BY <3>4, <3>5, <3>6
  <2>5. CASE system_app_hash[a] # "To_be_removed"
    <3>1. message_queue' = message_queue /\ to = "deploy"
      BY <1>2, <2>5 DEF ProcessRead
    <3>2. \A b : WillRun(b)' <=> WillRun(b)
      BY <2>1, <3>1 DEF WillRun
    <3>3. RunningIsListed' /\ DeployedIsRunning'
      BY <2>1, <2>2, <2>3, <3>2 DEF LifecycleInv, RunningIsListed, DeployedIsRunning
    <3>4. CoroutineInv'
      BY <2>3, <3>1 DEF CoroutineInv
    <3> QED
      BY <3>3, <3>4
  <2> QED
    BY <2>4, <2>5
<1>3. CASE ProcessDeploy
  <2> DEFINE a == agent.entry.app
  <2>1. /\ agent.at = "deploy" /\ UNCHANGED <<failover_due, running>>
        /\ agent' = [agent EXCEPT !.at = "deployed"] /\ missed' = missed \ {a}
        /\ system_app_hash' = [system_app_hash EXCEPT ![a] = "Under_deployment"]
        /\ message_queue' = Append(message_queue, Submitted(a, agent.entry.payload))
    BY <1>3 DEF ProcessDeploy, AgentStep, SetStatus, loopVars
  <2>2. /\ a \in Apps /\ agent.entry \in Entries /\ agent.todo = {}
        /\ agent \in [at : AgentSteps, entry : Entries, todo : {{}}]
    BY <1>0, <2>1, EntryApp DEF AgentSteps, AgentType, IdleAgent
  <2>3. agent'.at = "deployed" /\ agent'.entry.app = a /\ agent'.todo = {}
    BY <2>1, <2>2
  <2>4. Submitted(a, agent.entry.payload) \in Events /\ agent.entry.payload # "none"
    BY <2>2 DEF Submitted, Events, Entries, Payloads
  <2>5. \A b \in Apps : WillRun(b)' <=> b = a \/ WillRun(b)
    BY <1>0, <2>1, <2>4, AppendEvent DEF WillRun, Submitted
  <2> HIDE DEF a
  <2>6. RunningIsListed' /\ DeployedIsRunning'
    BY <1>0, <2>1, <2>2, <2>3, <2>5 DEF LifecycleInv, RunningIsListed, DeployedIsRunning, RedisType
  <2>7. CoroutineInv'
    BY <2>2, <2>3, <2>5 DEF CoroutineInv
  <2> QED
    BY <2>6, <2>7
<1> QED
  BY <1>1, <1>2, <1>3

LEMMA InvFailover ==
  ASSUME LifecycleInv, Failover
  PROVE  RunningIsListed' /\ DeployedIsRunning' /\ CoroutineInv'
<1>0. AgentType /\ RedisType /\ message_queue \in Seq(Events)
  BY DEF LifecycleInv, TypeOK, EventType
<1>1. CASE FailoverSnapshot
  <2> DEFINE deployed == {a \in Apps : system_app_hash[a] = "Deployed"}
  <2>1. UNCHANGED <<system_app_hash, missed, message_queue, running>>
    BY <1>1 DEF FailoverSnapshot, redisVars, loopVars
  <2>2. agent'.at \in {"idle", "failover"} /\ agent'.todo = deployed
    <3>1. CASE deployed = {}
      BY <1>1, <3>1 DEF FailoverSnapshot, IdleAgent
    <3>2. CASE deployed # {}
      BY <1>1, <3>2 DEF FailoverSnapshot, IdleAgent
    <3> QED
      BY <3>1, <3>2
  <2>3. \A b : WillRun(b)' <=> WillRun(b)
    BY <2>1 DEF WillRun
  <2>4. RunningIsListed'
    BY <2>1, <2>3 DEF LifecycleInv, RunningIsListed
  <2>5. DeployedIsRunning'
    BY <2>1, <2>2 DEF DeployedIsRunning
  <2>6. CoroutineInv'
    BY <2>1, <2>2 DEF CoroutineInv
  <2> QED
    BY <2>4, <2>5, <2>6
<1>2. ASSUME NEW a \in Apps, FailoverFetch(a)
      PROVE  RunningIsListed' /\ DeployedIsRunning' /\ CoroutineInv'
  <2> DEFINE payload == IF a \in app_data_hash THEN "full" ELSE "none"
  <2>1. /\ agent.at = "failover" /\ a \in agent.todo
        /\ UNCHANGED <<system_app_hash, failover_due, running>>
        /\ message_queue' = Append(message_queue, Submitted(a, payload))
        /\ missed' = IF payload = "full" THEN missed ELSE missed \union {a}
    BY <1>2 DEF FailoverFetch, redisVars, loopVars
  <2>2. agent'.at \in {"idle", "failover"} /\ agent'.todo = agent.todo \ {a}
    <3>1. CASE agent.todo = {a}
      BY <1>2, <3>1 DEF FailoverFetch, IdleAgent
    <3>2. CASE agent.todo # {a}
      <4>1. agent \in [at : {"failover"}, entry : {IdleAgent.entry}, todo : (SUBSET Apps) \ {{}}]
        BY <1>0, <2>1 DEF AgentType, IdleAgent, AgentSteps
      <4> QED
        BY <1>2, <3>2, <4>1 DEF FailoverFetch
    <3> QED
      BY <3>1, <3>2
  <2>3. Submitted(a, payload) \in Events /\ payload \in {"full", "none"}
    BY DEF Submitted, Events, Payloads
  <2> HIDE DEF payload
  <2>4. \A b \in Apps : WillRun(b)' <=> (b = a /\ payload = "full") \/ WillRun(b)
    BY <1>0, <2>1, <2>3, AppendEvent DEF WillRun, Submitted
  <2>5. system_app_hash[a] # "absent"
    BY <2>1 DEF LifecycleInv, CoroutineInv
  <2>6. RunningIsListed'
    BY <2>1, <2>4, <2>5 DEF LifecycleInv, RunningIsListed
  <2>7. DeployedIsRunning'
    BY <2>1, <2>2, <2>3, <2>4 DEF LifecycleInv, DeployedIsRunning
  <2>8. CoroutineInv'
    BY <2>1, <2>2 DEF LifecycleInv, CoroutineInv
  <2> QED
    BY <2>6, <2>7, <2>8
<1> QED
  BY <1>1, <1>2 DEF Failover

\* The listener does what the queue says, so what will become of an application stays.
LEMMA InvListener ==
  ASSUME LifecycleInv,
         \/ Listener \/ AddNewInterval
         \/ \E a \in Apps : PlanPlacement(a) \/ ApplyPlacement(a)
  PROVE  RunningIsListed' /\ DeployedIsRunning' /\ CoroutineInv'
<1>0. message_queue \in Seq(Events) /\ running \in [Apps -> Payloads]
  BY DEF LifecycleInv, TypeOK, EventType, LoopType
<1>1. UNCHANGED <<system_app_hash, agent, failover_due, missed>>
  BY DEF Listener, OnSubmitted, OnRemoved, Listening, DeleteResource, AddNewInterval,
         PlanPlacement, ApplyPlacement, redisVars, failoverVars
<1>2. agent.at = "idle"
  BY DEF Listener, OnSubmitted, OnRemoved, Listening, DeleteResource, AddNewInterval,
         PlanPlacement, ApplyPlacement, AgentIdle
<1>3. ASSUME \A a \in Apps : WillRun(a)' <=> WillRun(a)
      PROVE  RunningIsListed' /\ DeployedIsRunning' /\ CoroutineInv'
  BY <1>1, <1>2, <1>3 DEF LifecycleInv, RunningIsListed, DeployedIsRunning, CoroutineInv
<1>4. CASE OnSubmitted
  <2> DEFINE m == Head(message_queue)
  <2>1. /\ message_queue # << >> /\ m.event = "application_submitted"
        /\ message_queue' = Tail(message_queue)
        /\ IF m.payload = "none" THEN running' = running
           ELSE running' = [running EXCEPT ![m.app] = IF @ = "none" THEN m.payload ELSE @]
    BY <1>4 DEF OnSubmitted, Listening
  <2>2. m \in Events
    BY <1>0, <2>1
  <2>3. m.app \in Apps
    BY <2>2 DEF Events
  <2> HIDE DEF m
  <2>4. \A a \in Apps : m.app = a /\ m.payload # "none" => running'[a] # "none"
    BY <1>0, <2>1, <2>3
  <2>5. \A a \in Apps : ~(m.app = a /\ m.payload # "none") => running'[a] = running[a]
    BY <1>0, <2>1, <2>3
  <2>6. \A a \in Apps : WillRun(a)' <=> WillRun(a)
    BY <1>0, <2>1, <2>4, <2>5, TakeEvent DEF WillRun, m
  <2> QED
    BY <1>3, <2>6
<1>5. CASE OnRemoved
  <2> DEFINE m == Head(message_queue)
  <2>1. /\ message_queue # << >> /\ m.event = "application_removed"
        /\ message_queue' = Tail(message_queue)
        /\ running' = [running EXCEPT ![m.app] = "none"]
    BY <1>5 DEF OnRemoved, Listening
  <2>2. m \in Events
    BY <1>0, <2>1
  <2>3. m.app \in Apps /\ m.payload = "name"
    BY <2>1, <2>2 DEF Events
  <2> HIDE DEF m
  <2>4. \A a \in Apps : IF m.app = a THEN running'[a] = "none" ELSE running'[a] = running[a]
    BY <1>0, <2>1, <2>3
  <2>5. ASSUME NEW a \in Apps PROVE WillRun(a)' <=> WillRun(a)
    <3>1. m.app = a /\ m.payload # "none"
            => (running'[a] # "none" <=> m.event = "application_submitted")
      BY <2>1, <2>4
    <3>2. ~(m.app = a /\ m.payload # "none") => running'[a] = running[a]
      BY <2>3, <2>4
    <3> DEFINE q == message_queue
               r == running
               s == running'
    <3>3. /\ q \in Seq(Events) /\ q # << >> /\ Head(q) = m /\ message_queue' = Tail(q)
          /\ running'[a] = s[a]
      BY <1>0, <2>1 DEF m
    <3> HIDE DEF q, r, s
    <3>4. StartsIn(Tail(q), s, a) <=> StartsIn(q, r, a)
      BY <3>1, <3>2, <3>3, TakeEvent DEF r, s
    <3> QED
      BY <3>3, <3>4 DEF WillRun, q, r, s
  <2> QED
    BY <1>3, <2>5
<1>6. CASE \/ DeleteResource \/ AddNewInterval
           \/ \E a \in Apps : PlanPlacement(a) \/ ApplyPlacement(a)
  <2>1. UNCHANGED <<message_queue, running>>
    BY <1>6 DEF DeleteResource, AddNewInterval, PlanPlacement, ApplyPlacement
  <2>2. \A a \in Apps : WillRun(a)' <=> WillRun(a)
    BY <2>1 DEF WillRun
  <2> QED
    BY <1>3, <2>2
<1> QED
  BY <1>4, <1>5, <1>6 DEF Listener

LEMMA InvCrash ==
  ASSUME LifecycleInv, Crash
  PROVE  RunningIsListed' /\ DeployedIsRunning' /\ CoroutineInv'
<1>1. /\ failover_due' /\ agent' = IdleAgent /\ message_queue' = << >>
      /\ running' = [a \in Apps |-> "none"]
  BY DEF Crash
<1>2. \A a \in Apps : ~WillRun(a)'
  BY <1>1, NothingStarts DEF WillRun
<1>3. agent'.at = "idle" /\ agent'.todo = {}
  BY <1>1 DEF IdleAgent
<1> QED
  BY <1>1, <1>2, <1>3 DEF RunningIsListed, DeployedIsRunning, CoroutineInv

LEMMA InvNext == LifecycleInv /\ [Next]_vars => LifecycleInv'
<1> SUFFICES ASSUME LifecycleInv, [Next]_vars PROVE LifecycleInv'
  OBVIOUS
<1>1. TypeOK'
  BY TypeNext DEF LifecycleInv
<1>2. RunningIsListed' /\ DeployedIsRunning' /\ CoroutineInv'
  <2>1. CASE UNCHANGED vars
    BY <2>1 DEF vars, agentVars, redisVars, failoverVars, loopVars, LifecycleInv,
                RunningIsListed, DeployedIsRunning, CoroutineInv, WillRun
  <2>2. CASE \E a \in Apps : DeployCheck(a) \/ RemoveCheck(a) \/ Handler(a)
    BY <2>2, InvApi
  <2>3. CASE RequestFails
    <3>1. CASE Apps = {}
      BY <2>3, <3>1, EntryApp DEF RequestFails, LifecycleInv, TypeOK, RunningIsListed,
           DeployedIsRunning, CoroutineInv, AgentSteps, Entries, agentVars
    <3>2. CASE Apps # {}
      BY <2>3, <3>2, InvApi
    <3> QED
      BY <3>1, <3>2
  <2>4. CASE ProcessBehaviour \/ DeploymentFails
    BY <2>4, InvProcess, InvStatus DEF ProcessBehaviour
  <2>5. CASE Failover
    BY <2>5, InvFailover
  <2>6. CASE \/ Listener \/ AddNewInterval
             \/ \E a \in Apps : PlanPlacement(a) \/ ApplyPlacement(a)
    BY <2>6, InvListener
  <2>7. CASE Crash
    BY <2>7, InvCrash
  <2> QED
    BY <2>1, <2>2, <2>3, <2>4, <2>5, <2>6, <2>7 DEF Next
<1> QED
  BY <1>1, <1>2 DEF LifecycleInv

\* Statuses, events and applications agree in every state, whatever the interleaving of
\* the API and the agent, and however often requests fail or the agent crashes.
THEOREM LifecycleInvariant == Spec => []LifecycleInv
BY InvInit, InvNext, PTL DEF Spec

\* Every application that runs, or will, has a status, so that it is listed and can be
\* removed.
THEOREM NothingRunsUnlisted == Spec => []RunningIsListed
<1>1. LifecycleInv => RunningIsListed
  BY DEF LifecycleInv
<1> QED
  BY <1>1, LifecycleInvariant, PTL

\* An application whose status is Deployed runs, or will.
THEOREM DeployedMeansRunning == Spec => []DeployedIsRunning
<1>1. LifecycleInv => DeployedIsRunning
  BY DEF LifecycleInv
<1> QED
  BY <1>1, LifecycleInvariant, PTL

-----------------------------------------------------------------------------
(* Resources in Karmada. *)

\* The listener takes no event while it waits for Kubernetes, so that the application it
\* removes stays stopped.
TerminatingIsStopped == terminating # NoApp => running[terminating] = "none"

\* Besides the listener and a restart, nothing stops an application or deletes a resource.
LEMMA OnlyListenerStops ==
  ASSUME Next, ~Listener, ~Crash
  PROVE  UNCHANGED <<running, terminating>> /\ resources \subseteq resources'
<1>1. CASE \E a \in Apps : DeployCheck(a) \/ RemoveCheck(a) \/ Handler(a)
  BY <1>1 DEF DeployCheck, RemoveCheck, Handler, DeployPush, DeployMark, DeployStore, RemoveMark,
              RemoveData, RemovePush, ApiStep, agentVars, loopVars
<1>2. CASE RequestFails
  BY <1>2 DEF RequestFails, agentVars, loopVars
<1>3. CASE ProcessBehaviour \/ DeploymentFails
  BY <1>3 DEF ProcessBehaviour, DeploymentFails, ProcessPop, ProcessRead, ProcessRemoved,
              ProcessForget, ProcessDeploy, ProcessDeployed, AgentStep, loopVars
<1>4. CASE Failover
  BY <1>4 DEF Failover, FailoverSnapshot, FailoverFetch, loopVars
<1>5. CASE AddNewInterval \/ \E a \in Apps : PlanPlacement(a) \/ ApplyPlacement(a)
  BY <1>5 DEF AddNewInterval, PlanPlacement, ApplyPlacement
<1> QED
  BY <1>1, <1>2, <1>3, <1>4, <1>5 DEF Next

LEMMA TerminatingStep == TypeOK /\ TerminatingIsStopped /\ [Next]_vars => TerminatingIsStopped'
<1> SUFFICES ASSUME TypeOK, TerminatingIsStopped, [Next]_vars
             PROVE  TerminatingIsStopped'
  OBVIOUS
<1> running \in [Apps -> Payloads]
  BY DEF TypeOK, LoopType
<1>1. CASE UNCHANGED vars
  BY <1>1 DEF vars, agentVars, loopVars, TerminatingIsStopped
<1>2. CASE Next /\ ~Listener /\ ~Crash
  BY <1>2, OnlyListenerStops DEF TerminatingIsStopped
<1>3. CASE OnSubmitted \/ DeleteResource \/ Crash
  BY <1>3 DEF OnSubmitted, Listening, DeleteResource, Crash, TerminatingIsStopped
<1>4. CASE OnRemoved
  <2>1. Head(message_queue).app \in Apps
    BY <1>4 DEF OnRemoved, Listening, TypeOK, EventType, Events
  <2> QED
    BY <1>4, <2>1 DEF OnRemoved, Listening, TerminatingIsStopped
<1> QED
  BY <1>1, <1>2, <1>3, <1>4 DEF Listener

\* A resource is deleted only while its application is stopped: the removal of an
\* application never takes away what a later deployment of it has put there.
THEOREM OnlyStoppedLoseResources == Spec => ResourcesOfStopped
<1> DEFINE Kept == \A a \in resources \ resources' : running[a] = "none"
<1>1. Init => TerminatingIsStopped
  BY DEF Init, TerminatingIsStopped
<1>2. TerminatingIsStopped /\ [Next]_vars => [Kept]_vars
  <2> SUFFICES ASSUME TerminatingIsStopped, Next PROVE Kept
    OBVIOUS
  <2>1. CASE ~Listener /\ ~Crash
    BY <2>1, OnlyListenerStops
  <2>2. CASE OnSubmitted \/ OnRemoved \/ Crash
    BY <2>2 DEF OnSubmitted, OnRemoved, Listening, Crash
  <2>3. CASE DeleteResource
    BY <2>3 DEF DeleteResource, TerminatingIsStopped
  <2> QED
    BY <2>1, <2>2, <2>3 DEF Listener
<1>3. Spec => [][Kept]_vars
  BY <1>1, <1>2, TerminatingStep, LifecycleTypeCorrect, PTL DEF Spec
<1> QED
  BY <1>3 DEF ResourcesOfStopped
=============================================================================
