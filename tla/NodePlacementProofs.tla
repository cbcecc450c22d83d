------------------------ MODULE NodePlacementProofs ------------------------
(***************************************************************************)
(* Machine-checked proofs about NodePlacement, for any components, nodes,  *)
(* plans and policies, and any number of restarts: the nodes, the cluster  *)
(* agent and Fluidity agree on what runs where, and analyses follow it.    *)
(***************************************************************************)
EXTENDS NodePlacement, TLAPS, FiniteSetTheorems, SequenceTheorems

-----------------------------------------------------------------------------
(* Sequences and numbers. *)

\* A set of numbers has a least one.
LEMMA NatMin ==
  ASSUME NEW T, T \subseteq Nat, T # {}
  PROVE  \E x \in T : \A y \in T : x <= y
<1>1. PICK x \in T : \A y \in T : ~(<<y, x>> \in OpToRel(<, Nat))
  BY NatLessThanWellFounded, WFMin
<1>2. \A y \in T : ~(y < x)
  BY <1>1 DEF OpToRel
<1> QED
  BY <1>2

\* A bounded set of numbers has a greatest one.
LEMMA NatMax ==
  ASSUME NEW n \in Nat, NEW T, T \subseteq 0..n, T # {}
  PROVE  \E x \in T : \A y \in T : y <= x
<1> DEFINE R == {n - x : x \in T}
<1>1. R \subseteq Nat /\ R # {}
  <2>1. \A x \in T : n - x \in Nat
    BY SMT
  <2> QED
    BY <2>1
<1> HIDE DEF R
<1>2. PICK r \in R : \A y \in R : r <= y
  BY <1>1, NatMin
<1>3. PICK x \in T : r = n - x
  BY DEF R
<1>4. \A y \in T : n - y \in R
  BY DEF R
<1> QED
  BY <1>2, <1>3, <1>4

LEMMA EmptyIn ==
  ASSUME NEW S
  PROVE  << >> \in Seq(S)
OBVIOUS

LEMMA Appended ==
  ASSUME NEW S, NEW s \in Seq(S), NEW e \in S
  PROVE  /\ Append(s, e) \in Seq(S) /\ Len(s) \in Nat /\ Len(Append(s, e)) = Len(s) + 1
         /\ DOMAIN s = 1..Len(s) /\ DOMAIN Append(s, e) = 1..(Len(s) + 1)
         /\ \A i \in DOMAIN s : Append(s, e)[i] = s[i]
         /\ Append(s, e)[Len(s) + 1] = e
OBVIOUS

LEMMA Shortened ==
  ASSUME NEW S, NEW s \in Seq(S), s # << >>
  PROVE  /\ Tail(s) \in Seq(S) /\ Len(s) \in Nat /\ Len(s) > 0 /\ Head(s) = s[1] /\ s[1] \in S
         /\ DOMAIN s = 1..Len(s) /\ DOMAIN Tail(s) = 1..(Len(s) - 1) /\ Len(Tail(s)) = Len(s) - 1
         /\ 1 \in DOMAIN s
         /\ \A i \in DOMAIN Tail(s) : i + 1 \in DOMAIN s /\ Tail(s)[i] = s[i + 1]
OBVIOUS

-----------------------------------------------------------------------------
(* The controllers of an agent. *)

Controllers == [task : BOOLEAN, orphans : Nat, policies : BOOLEAN, interval : BOOLEAN,
                requested : Nat]

LEMMA Bounds == MaxApps \in Nat /\ MaxPlans \in Nat /\ MaxFaults \in Nat
BY ConstantAssumption

LEMMA Agent == Cluster \notin Nodes /\ Cluster \in Agents /\ Nodes \subseteq Agents
BY ConstantAssumption DEF Agents

LEMMA StepsOf ==
  ASSUME NEW plan \in InitialPlans \union Plans
  PROVE  plan \in Seq(Steps)
BY ConstantAssumption

LEMMA PolicyOf ==
  TypeOK => \A a \in Agents : policy[a] \in {"none", "no interval", "interval"}
BY ConstantAssumption DEF TypeOK

LEMMA FreshController ==
  ASSUME TypeOK, NEW a \in Agents
  PROVE  Fresh(a) \in Controllers /\ ~Fresh(a).task /\ Fresh(a).orphans = 0
BY PolicyOf DEF Fresh, Controllers

LEMMA ReceivedController ==
  ASSUME NEW c \in Controllers
  PROVE  /\ Received(c) \in Controllers /\ Received(c).task
         /\ ~c.task => Received(c).orphans = c.orphans
<1>1. PICK x : x = IF c.task THEN c.orphans + 1 ELSE c.orphans
  OBVIOUS
<1>2. x \in Nat /\ (~c.task => x = c.orphans)
  BY <1>1 DEF Controllers
<1>3. Received(c) = [c EXCEPT !.orphans = x, !.task = TRUE]
  BY <1>1 DEF Received, Controllers
<1>4. Received(c) \in Controllers
  BY <1>2, <1>3 DEF Controllers
<1>5. Received(c).task /\ Received(c).orphans = x
  BY <1>3 DEF Controllers
<1> QED
  BY <1>2, <1>4, <1>5

LEMMA StartedController ==
  ASSUME TypeOK, NEW a \in Agents, NEW c \in Controllers
  PROVE  /\ StartPolicies(a, c) \in Controllers
         /\ StartPolicies(a, c).task = c.task /\ StartPolicies(a, c).orphans = c.orphans
<1>1. CASE policy[a] = "none"
  BY <1>1 DEF StartPolicies
<1>2. CASE policy[a] = "no interval"
  <2>1. StartPolicies(a, c) = [c EXCEPT !.policies = TRUE]
    BY <1>2 DEF StartPolicies
  <2> QED
    BY <1>2, <2>1 DEF Controllers
<1>3. CASE policy[a] = "interval"
  <2>1. PICK x : x = c.requested + 1
    OBVIOUS
  <2>2. x \in Nat
    BY <2>1 DEF Controllers
  <2>3. StartPolicies(a, c) = [c EXCEPT !.policies = TRUE, !.requested = x]
    BY <1>3, <2>1 DEF StartPolicies, Controllers
  <2>4. StartPolicies(a, c) \in Controllers
    BY <2>2, <2>3 DEF Controllers
  <2>5. StartPolicies(a, c).task = c.task /\ StartPolicies(a, c).orphans = c.orphans
    BY <2>3 DEF Controllers
  <2> QED
    BY <2>4, <2>5
<1> QED
  BY <1>1, <1>2, <1>3, PolicyOf

LEMMA TerminatedController ==
  ASSUME NEW c \in Controllers
  PROVE  /\ Terminated(c) \in Controllers
         /\ ~Terminated(c).task /\ Terminated(c).orphans = c.orphans
BY DEF Terminated, Controllers

LEMMA DeletedController ==
  ASSUME NEW c \in Controllers
  PROVE  /\ DeletePolicies(c) \in Controllers
         /\ DeletePolicies(c).task = c.task /\ DeletePolicies(c).orphans = c.orphans
BY DEF DeletePolicies, Controllers

-----------------------------------------------------------------------------
(* Type correctness. *)

LEMMA InitTypes == Init => TypeOK
<1> SUFFICES ASSUME Init PROVE TypeOK
  OBVIOUS
<1>1. controller \in [Agents -> Controllers]
  BY DEF Init, Fresh, Controllers
<1>2. << >> \in Seq(Steps) /\ << >> \in Reports /\ << >> \in Seq(Events)
      /\ << >> \in Seq(Messages) /\ << >> \in Seq(Nodes)
  BY EmptyIn DEF Reports
<1>3. answer \in [steps : Seq(Steps), report : Reports, rest : Reports]
  BY <1>2 DEF Init, Handled
<1>4. /\ nodes_state \in [Nodes -> [known : BOOLEAN, app : BOOLEAN, comps : SUBSET Comps]]
      /\ active \in [Nodes -> [listed : BOOLEAN, comps : SUBSET Comps]]
  BY DEF Init, Unknown, NoApplication
<1>5. inbox \in [Nodes -> Seq(Messages)] /\ requests \in Seq(Nodes) /\ events \in Seq(Events)
  BY <1>2 DEF Init
<1>6. apps \in 0..MaxApps /\ plans \in 0..MaxPlans /\ faults \in 0..MaxFaults
  BY Bounds DEF Init
<1>7. /\ untold \subseteq Comps \X Nodes /\ pods \subseteq Comps \X Nodes
      /\ doubled \subseteq Comps \X Nodes /\ heard \in BOOLEAN
      /\ phase \in {"absent", "created", "deployed"}
      /\ policy \in PolicySets /\ stuck \subseteq Agents
      /\ unreported \in BOOLEAN /\ forgotten \in BOOLEAN
  BY DEF Init
<1> QED
  BY <1>1, <1>3, <1>4, <1>5, <1>6, <1>7 DEF TypeOK, Controllers

\* A sequence of one element followed by one or two equal ones.
LEMMA Joined ==
  ASSUME NEW x, NEW y
  PROVE  <<x>> \o <<y>> = <<x, y>> /\ <<x>> \o <<y, y>> = <<x, y, y>>
<1>1. /\ DOMAIN (<<x>> \o <<y>>) = 1..2 /\ DOMAIN (<<x>> \o <<y, y>>) = 1..3
      /\ (<<x>> \o <<y>>)[1] = x /\ (<<x>> \o <<y>>)[2] = y
      /\ (<<x>> \o <<y, y>>)[1] = x /\ (<<x>> \o <<y, y>>)[2] = y
      /\ (<<x>> \o <<y, y>>)[3] = y
  OBVIOUS
<1>2. /\ <<x>> \o <<y>> \in Seq({x, y}) /\ <<x>> \o <<y, y>> \in Seq({x, y})
      /\ Len(<<x>> \o <<y>>) = 2 /\ Len(<<x>> \o <<y, y>>) = 3
  OBVIOUS
<1>3. <<x, y>> \in Seq({x, y}) /\ <<x, y, y>> \in Seq({x, y})
  OBVIOUS
<1>4. <<x>> \o <<y>> = <<x, y>>
  <2>1. \A i \in 1..2 : (<<x>> \o <<y>>)[i] = <<x, y>>[i]
    BY <1>1
  <2> QED
    BY <1>2, <1>3, <2>1, SeqEqual
<1>5. <<x>> \o <<y, y>> = <<x, y, y>>
  <2>1. \A i \in 1..3 : (<<x>> \o <<y, y>>)[i] = <<x, y, y>>[i]
    BY <1>1
  <2> QED
    BY <1>2, <1>3, <2>1, SeqEqual
<1> QED
  BY <1>4, <1>5

\* A step's report: at most one pod is placed, and those removed are of one node.
LEMMA ReportIs ==
  ASSUME NEW step \in Steps
  PROVE  LET gone == [comp |-> step.comp, event |-> "removed", host |-> step.src_host]
             made == [comp |-> step.comp, event |-> "placed", host |-> step.host]
             twice == <<step.comp, step.src_host>> \in doubled
         IN  /\ step.action = "remove" /\ ~twice => ReportOf(step) = <<gone>>
             /\ step.action = "remove" /\ twice => ReportOf(step) = <<gone, gone>>
             /\ step.action # "remove" /\ ~Leaves(step) => ReportOf(step) = <<made>>
             /\ step.action # "remove" /\ Leaves(step) /\ ~twice => ReportOf(step) = <<made, gone>>
             /\ step.action # "remove" /\ Leaves(step) /\ twice => ReportOf(step) = <<made, gone, gone>>
             /\ step.action = "remove" => Leaves(step)
<1> DEFINE gone == [comp |-> step.comp, event |-> "removed", host |-> step.src_host]
           made == [comp |-> step.comp, event |-> "placed", host |-> step.host]
           twice == <<step.comp, step.src_host>> \in doubled
<1>1. PICK removed : removed = [i \in 1..(IF twice THEN 2 ELSE 1) |-> gone]
  OBVIOUS
<1>2. ReportOf(step) = (IF step.action = "remove" THEN << >> ELSE <<made>>)
                         \o (IF Leaves(step) THEN removed ELSE << >>)
  BY <1>1 DEF ReportOf
<1>3. step.action = "remove" => Leaves(step)
  BY DEF Leaves
<1> HIDE DEF gone, made
<1>4. (twice => removed = <<gone, gone>>) /\ (~twice => removed = <<gone>>)
  BY <1>1
<1>5. /\ << >> \o <<gone>> = <<gone>> /\ << >> \o <<gone, gone>> = <<gone, gone>>
      /\ <<made>> \o << >> = <<made>> /\ <<made>> \o <<gone>> = <<made, gone>>
      /\ <<made>> \o <<gone, gone>> = <<made, gone, gone>>
  <2>1. << >> \o <<gone>> = <<gone>>
    OBVIOUS
  <2>2. << >> \o <<gone, gone>> = <<gone, gone>>
    OBVIOUS
  <2>3. <<made>> \o << >> = <<made>>
    OBVIOUS
  <2>4. <<made>> \o <<gone>> = <<made, gone>>
    BY Joined
  <2>5. <<made>> \o <<gone, gone>> = <<made, gone, gone>>
    BY Joined
  <2> QED
    BY <2>1, <2>2, <2>3, <2>4, <2>5
<1> HIDE DEF twice
<1>6. /\ step.action = "remove" /\ ~twice => ReportOf(step) = <<gone>>
      /\ step.action = "remove" /\ twice => ReportOf(step) = <<gone, gone>>
      /\ step.action # "remove" /\ ~Leaves(step) => ReportOf(step) = <<made>>
      /\ step.action # "remove" /\ Leaves(step) /\ ~twice => ReportOf(step) = <<made, gone>>
      /\ step.action # "remove" /\ Leaves(step) /\ twice => ReportOf(step) = <<made, gone, gone>>
  BY <1>2, <1>3, <1>4, <1>5
<1> QED
  BY <1>3, <1>6 DEF gone, made, twice

\* The answer to a plan is a report of the pods of each step.
LEMMA ReportTypes ==
  ASSUME NEW plan \in InitialPlans \union Plans
  PROVE  /\ plan \in Seq(Steps) /\ \A i \in DOMAIN plan : plan[i] \in Steps
         /\ [i \in DOMAIN plan |-> ReportOf(plan[i])] \in Reports
<1>1. plan \in Seq(Steps) /\ DOMAIN plan = 1..Len(plan) /\ Len(plan) \in Nat
      /\ \A i \in DOMAIN plan : plan[i] \in Steps
  BY StepsOf
<1>2. \A step \in Steps : ReportOf(step) \in Seq(Pods) \ {<< >>}
  <2> SUFFICES ASSUME NEW step \in Steps PROVE ReportOf(step) \in Seq(Pods) \ {<< >>}
    OBVIOUS
  <2>1. /\ [comp |-> step.comp, event |-> "removed", host |-> step.src_host] \in Pods
        /\ [comp |-> step.comp, event |-> "placed", host |-> step.host] \in Pods
    BY DEF Steps, Pods
  <2> DEFINE P == Pods
  <2> HIDE DEF P
  <2>2. \A x, y \in P :
          {<<x>>, <<x, y>>, <<x, x>>, <<y, x, x>>} \subseteq Seq(P) \ {<< >>}
    OBVIOUS
  <2> DEFINE gone == [comp |-> step.comp, event |-> "removed", host |-> step.src_host]
             made == [comp |-> step.comp, event |-> "placed", host |-> step.host]
  <2>3. ReportOf(step) \in {<<made>>, <<gone>>, <<gone, gone>>, <<made, gone>>, <<made, gone, gone>>}
    BY ReportIs
  <2>4. gone \in P /\ made \in P
    BY <2>1 DEF P
  <2> HIDE DEF gone, made
  <2> QED
    BY <2>2, <2>3, <2>4 DEF P
<1> DEFINE R == Seq(Pods) \ {<< >>}
<1>3. \A i \in DOMAIN plan : ReportOf(plan[i]) \in R
  BY <1>1, <1>2
<1>4. [i \in DOMAIN plan |-> ReportOf(plan[i])] \in Seq(R)
  <2> HIDE DEF R
  <2> QED
    BY <1>1, <1>3
<1> QED
  BY <1>1, <1>4 DEF Reports

LEMMA QueuedEvent ==
  ASSUME TypeOK, NEW e \in Events, events' = Append(events, e)
  PROVE  events' \in Seq(Events)
BY Appended DEF TypeOK

LEMMA FluidityTypes ==
  ASSUME TypeOK, Fluidity
  PROVE  TypeOK'
<1>1. CASE CreateApp
  <2>1. [event |-> "APP_CREATED"] \in Events
    BY DEF Events
  <2>2. events' \in Seq(Events)
    BY <1>1, <2>1, QueuedEvent DEF CreateApp
  <2>3. apps' \in 0..MaxApps
    BY <1>1, Bounds DEF CreateApp, TypeOK
  <2> QED
    BY <1>1, <2>2, <2>3 DEF CreateApp, TypeOK, clusterVars, nodeVars, agentVars
<1>2. CASE DeleteApp
  <2>1. [event |-> "APP_DELETED"] \in Events
    BY DEF Events
  <2>2. events' \in Seq(Events)
    BY <1>2, <2>1, QueuedEvent DEF DeleteApp
  <2> QED
    BY <1>2, <2>2 DEF DeleteApp, TypeOK, clusterVars, nodeVars, boundVars, agentVars
<1>3. ASSUME NEW plan \in InitialPlans \union Plans, PlanSucceeds(plan) PROVE TypeOK'
  <2>1. [event |-> "PLAN_EXECUTED", plan |-> plan,
         report |-> [i \in DOMAIN plan |-> ReportOf(plan[i])]] \in Events
    BY ReportTypes DEF Events
  <2>2. events' \in Seq(Events)
    BY <1>3, <2>1, QueuedEvent DEF PlanSucceeds, Answered
  <2>3. pods' \subseteq Comps \X Nodes /\ doubled' \subseteq Comps \X Nodes
    <3>1. NewPods(plan) \subseteq Comps \X Nodes
      <4>1. \A i \in DOMAIN plan : plan[i] \in Steps
        BY ReportTypes
      <4>2. \A step \in Steps : PodOf(step) \in Comps \X Nodes
        BY DEF Steps, PodOf
      <4> QED
        BY <4>1, <4>2 DEF NewPods
    <3>2. PICK gone \in Gone(plan) : /\ pods' = (pods \ gone) \union NewPods(plan)
                                    /\ doubled' \in Doubled(plan, gone)
      BY <1>3 DEF PlanSucceeds
    <3>3. doubled' \subseteq doubled \union NewPods(plan)
      BY <3>2 DEF Doubled
    <3> QED
      BY <3>1, <3>2, <3>3 DEF TypeOK
  <2>4. plans' \in 0..MaxPlans
    BY <1>3, Bounds DEF PlanSucceeds, MayPlan, TypeOK
  <2>5. unreported' \in BOOLEAN
    BY <1>3 DEF PlanSucceeds, TypeOK
  <2> QED
    BY <1>3, <2>2, <2>3, <2>4, <2>5 DEF PlanSucceeds, TypeOK, clusterVars, nodeVars, agentVars
<1>4. ASSUME NEW plan \in InitialPlans \union Plans, PlanFails(plan) PROVE TypeOK'
  <2>1. [event |-> "PLAN_EXECUTED", plan |-> plan, report |-> << >>] \in Events
    <3>1. << >> \in Reports
      BY EmptyIn DEF Reports
    <3> QED
      BY <3>1, ReportTypes DEF Events
  <2>2. events' \in Seq(Events)
    BY <1>4, <2>1, QueuedEvent DEF PlanFails, Answered
  <2>3. /\ pods' \subseteq Comps \X Nodes /\ doubled' \subseteq Comps \X Nodes
        /\ unreported' \in BOOLEAN
    <3>1. \A i \in DOMAIN plan : PodOf(plan[i]) \in Comps \X Nodes
      BY ReportTypes DEF Steps, PodOf
    <3> QED
      BY <1>4, <3>1 DEF TypeOK, PlanFails
  <2>4. plans' \in 0..MaxPlans /\ faults' \in 0..MaxFaults
    BY <1>4, Bounds DEF PlanFails, MayPlan, TypeOK
  <2> QED
    BY <1>4, <2>2, <2>3, <2>4 DEF PlanFails, TypeOK, clusterVars, nodeVars, agentVars
<1> QED
  BY <1>1, <1>2, <1>3, <1>4 DEF Fluidity

\* The pods that are left of an answer are pods.
LEMMA PodTypes ==
  ASSUME NEW rest \in Reports, rest # << >>
  PROVE  Head(Head(rest)) \in Pods /\ RestOf(rest) \in Reports
<1> DEFINE P == Pods
           R == Seq(P) \ {<< >>}
<1>1. rest \in Seq(R)
  BY DEF Reports
<1>2. PICK h : h = Head(rest)
  OBVIOUS
<1> HIDE DEF P
<1>3. h \in Seq(P) /\ h # << >>
  <2> HIDE DEF R
  <2>1. h \in R
    BY <1>1, <1>2
  <2> QED
    BY <2>1 DEF R
<1>4. Head(h) \in P
  BY <1>3
<1>5. CASE Len(h) = 1
  <2>1. Tail(rest) \in Seq(R)
    <3> HIDE DEF R
    <3> QED
      BY <1>1
  <2> QED
    BY <1>2, <1>4, <1>5, <2>1 DEF RestOf, Reports, P
<1>6. CASE Len(h) # 1
  <2>1. Tail(h) \in R
    <3>1. Tail(h) \in Seq(P) /\ Len(Tail(h)) = Len(h) - 1 /\ Len(h) \in Nat /\ Len(h) > 0
      BY <1>3, Shortened
    <3>2. Len(Tail(h)) # 0
      BY <1>6, <3>1
    <3>3. ASSUME NEW t \in Seq(P), Len(t) # 0 PROVE t # << >>
      BY <3>3
    <3>4. Tail(h) # << >>
      BY <3>1, <3>2, <3>3
    <3> QED
      BY <3>1, <3>4
  <2>2. [rest EXCEPT ![1] = Tail(h)] \in Seq(R)
    <3> HIDE DEF R
    <3> QED
      BY <1>1, <2>1
  <2>3. RestOf(rest) = [rest EXCEPT ![1] = Tail(h)]
    <3>1. Head(rest) = rest[1]
      BY <1>1
    <3> QED
      BY <1>2, <1>6, <3>1 DEF RestOf
  <2> QED
    BY <1>2, <1>4, <2>2, <2>3 DEF Reports, P
<1> QED
  BY <1>5, <1>6

Answers == [steps : Seq(Steps), report : Reports, rest : Reports]

LEMMA AnswerTypes ==
  ASSUME TypeOK
  PROVE  /\ answer \in Answers /\ Handled \in Answers
         /\ \A steps \in Seq(Steps), rest \in Reports : GoOn(steps, rest) => answer' \in Answers
<1>1. Handled \in Answers
  BY EmptyIn DEF Handled, Answers, Reports
<1>2. answer \in Answers
  BY DEF TypeOK, Answers
<1>3. \A steps \in Seq(Steps), rest \in Reports :
        [answer EXCEPT !.steps = steps, !.rest = rest] \in Answers
  BY <1>2 DEF Answers
<1> QED
  BY <1>1, <1>2, <1>3 DEF GoOn

\* What a message changes: the inbox of one node.
LEMMA TellTypes ==
  ASSUME TypeOK, NEW n \in Nodes, NEW m \in Messages, inbox' = [inbox EXCEPT ![n] = Append(@, m)]
  PROVE  /\ inbox' \in [Nodes -> Seq(Messages)] /\ inbox'[n] = Append(inbox[n], m)
         /\ \A k \in Nodes \ {n} : inbox'[k] = inbox[k]
<1>1. inbox \in [Nodes -> Seq(Messages)]
  BY DEF TypeOK
<1> DEFINE M == Messages
<1> HIDE DEF M
<1>2. inbox \in [Nodes -> Seq(M)] /\ m \in M
  BY <1>1 DEF M
<1>3. /\ inbox' \in [Nodes -> Seq(M)] /\ inbox'[n] = Append(inbox[n], m)
      /\ \A k \in Nodes \ {n} : inbox'[k] = inbox[k]
  BY <1>2
<1> QED
  BY <1>3 DEF M

LEMMA MessageTypes ==
  \A c \in Comps : /\ Message("COMPONENT_PLACED", c) \in Messages
                   /\ Message("COMPONENT_UPDATED", c) \in Messages
                   /\ Message("COMPONENT_REMOVED", c) \in Messages
BY DEF Message, Messages

LEMMA ReportTypesStay ==
  ASSUME TypeOK, Report
  PROVE  TypeOK'
<1>0. /\ answer \in Answers /\ answer.steps \in Seq(Steps) /\ answer.rest \in Reports
      /\ answer.report \in Reports
      /\ nodes_state \in [Nodes -> [known : BOOLEAN, app : BOOLEAN, comps : SUBSET Comps]]
      /\ untold \subseteq Comps \X Nodes /\ << >> \in Reports
  BY AnswerTypes, EmptyIn DEF TypeOK, Reports
<1>1. UNCHANGED <<pods, doubled, phase, unreported, events, requests, active, controller, policy, stuck,
                  forgotten, heard, apps, plans, faults>>
  BY DEF Report, fluidityVars, boundVars, agentVars
<1>2. SUFFICES /\ answer' \in Answers /\ untold' \subseteq Comps \X Nodes
               /\ inbox' \in [Nodes -> Seq(Messages)]
               /\ nodes_state' \in [Nodes -> [known : BOOLEAN, app : BOOLEAN, comps : SUBSET Comps]]
  BY <1>1 DEF TypeOK, Answers
<1>3. ASSUME answer.steps # << >>
      PROVE  /\ Head(answer.steps) \in Steps /\ Head(answer.steps).comp \in Comps
             /\ Head(answer.steps).host \in Nodes /\ Tail(answer.steps) \in Seq(Steps)
  <2>1. Head(answer.steps) \in Steps /\ Tail(answer.steps) \in Seq(Steps)
    BY <1>0, <1>3, Shortened
  <2> QED
    BY <2>1 DEF Steps
<1>4. ASSUME answer.rest # << >>
      PROVE  /\ Head(Head(answer.rest)).comp \in Comps /\ Head(Head(answer.rest)).host \in Nodes
             /\ RestOf(answer.rest) \in Reports
  BY <1>0, <1>4, PodTypes DEF Pods
<1>5. CASE ReportStep
  BY <1>0, <1>3, <1>5, AnswerTypes DEF ReportStep, TypeOK
<1>6. CASE ReportSpec
  <2> DEFINE c == Head(answer.steps).comp
             n == Head(answer.steps).host
  <2>1. c \in Comps /\ n \in Nodes /\ Tail(answer.steps) \in Seq(Steps)
    BY <1>3, <1>6 DEF ReportSpec
  <2>2. CASE nodes_state[n].app
    <3>1. /\ GoOn(Tail(answer.steps), << >>)
          /\ nodes_state' = [nodes_state EXCEPT ![n].comps = @ \union {c}]
          /\ inbox' = [inbox EXCEPT ![n] = Append(@, Message("COMPONENT_UPDATED", c))]
          /\ untold' \in {untold, untold \union {<<c, n>>}}
      BY <1>6, <2>2 DEF ReportSpec, Tell
    <3> HIDE DEF c, n
    <3>2. inbox' \in [Nodes -> Seq(Messages)]
      BY <2>1, <3>1, TellTypes, MessageTypes
    <3>3. answer' \in Answers
      BY <1>0, <2>1, <3>1, AnswerTypes
    <3>4. untold' \subseteq Comps \X Nodes
      BY <1>0, <2>1, <3>1
    <3>5. nodes_state' \in [Nodes -> [known : BOOLEAN, app : BOOLEAN, comps : SUBSET Comps]]
      BY <1>0, <2>1, <3>1
    <3> QED
      BY <3>2, <3>3, <3>4, <3>5
  <2>3. CASE ~nodes_state[n].app
    BY <1>0, <1>6, <2>3, AnswerTypes DEF ReportSpec, Raise, TypeOK
  <2> QED
    BY <2>2, <2>3
<1>7. CASE ReportPlaced
  <2> DEFINE c == Head(Head(answer.rest)).comp
             n == Head(Head(answer.rest)).host
  <2>1. c \in Comps /\ n \in Nodes /\ RestOf(answer.rest) \in Reports
    <3>1. answer.rest # << >>
      BY <1>7 DEF ReportPlaced
    <3> QED
      BY <1>4, <3>1
  <2>2. /\ GoOn(answer.steps, RestOf(answer.rest))
        /\ nodes_state' = [nodes_state EXCEPT ![n] =
                             [known |-> TRUE, app |-> TRUE, comps |-> @.comps \union {c}]]
        /\ inbox' = [inbox EXCEPT ![n] = Append(@, Message("COMPONENT_PLACED", c))]
        /\ untold' = untold \ {<<c, n>>}
    BY <1>7 DEF ReportPlaced, Tell
  <2> HIDE DEF c, n
  <2>3. inbox' \in [Nodes -> Seq(Messages)]
    BY <2>1, <2>2, TellTypes, MessageTypes
  <2>4. answer' \in Answers
    BY <1>0, <2>1, <2>2, AnswerTypes
  <2> QED
    BY <1>0, <2>1, <2>2, <2>3, <2>4
<1>8. CASE ReportRemoved
  <2> DEFINE c == Head(Head(answer.rest)).comp
             n == Head(Head(answer.rest)).host
  <2>1. c \in Comps /\ n \in Nodes /\ RestOf(answer.rest) \in Reports
    <3>1. answer.rest # << >>
      BY <1>8 DEF ReportRemoved
    <3> QED
      BY <1>4, <3>1
  <2>2. /\ GoOn(answer.steps, RestOf(answer.rest)) \/ answer' = Handled
        /\ nodes_state' = [nodes_state EXCEPT ![n].comps = @ \ {c}]
        /\ inbox' = [inbox EXCEPT ![n] = Append(@, Message("COMPONENT_REMOVED", c))]
        /\ untold' = untold \ {<<c, n>>}
    BY <1>8 DEF ReportRemoved, Tell, Raise
  <2> HIDE DEF c, n
  <2>3. inbox' \in [Nodes -> Seq(Messages)]
    BY <2>1, <2>2, TellTypes, MessageTypes
  <2>4. answer' \in Answers
    BY <1>0, <2>1, <2>2, AnswerTypes
  <2> QED
    BY <1>0, <2>1, <2>2, <2>3, <2>4
<1> QED
  BY <1>5, <1>6, <1>7, <1>8 DEF Report

\* The messages of a removal: one for each component the node is believed to run.
LEMMA Removals ==
  ASSUME TypeOK, NEW n \in Nodes
  PROVE  /\ RemovalsFrom(n) \in Seq(Messages)
         /\ \A i \in DOMAIN RemovalsFrom(n) :
              \E c \in nodes_state[n].comps : RemovalsFrom(n)[i] = Message("COMPONENT_REMOVED", c)
         /\ \A c \in nodes_state[n].comps :
              \E i \in DOMAIN RemovalsFrom(n) : RemovalsFrom(n)[i] = Message("COMPONENT_REMOVED", c)
<1> DEFINE comps == nodes_state[n].comps
           k == Cardinality(comps)
           order == CHOOSE o \in Bijection(1..k, comps) : TRUE
<1>1. comps \subseteq Comps
  BY DEF TypeOK
<1>2. IsFiniteSet(comps)
  BY <1>1, ConstantAssumption, FS_Subset
<1>3. k \in Nat /\ ExistsBijection(1..k, comps)
  BY <1>2, FS_CardinalityType
<1>4. order \in Bijection(1..k, comps)
  <2>1. \E o : o \in Bijection(1..k, comps)
    BY <1>3 DEF ExistsBijection
  <2> QED
    BY <2>1
<1>5. RemovalsFrom(n) = [i \in 1..k |-> Message("COMPONENT_REMOVED", order[i])]
  BY DEF RemovalsFrom
<1> HIDE DEF order, k
<1>6. /\ \A i \in 1..k : order[i] \in comps
      /\ \A c \in comps : \E i \in 1..k : order[i] = c
  BY <1>4 DEF Bijection, Injection, Surjection
<1> HIDE DEF comps
<1> DEFINE M == Messages
<1>7. \A i \in 1..k : Message("COMPONENT_REMOVED", order[i]) \in M
  BY <1>1, <1>6, MessageTypes
<1>8. RemovalsFrom(n) \in Seq(M)
  <2> HIDE DEF M
  <2> QED
    BY <1>3, <1>5, <1>7
<1> QED
  BY <1>5, <1>6, <1>8 DEF comps

LEMMA TakeEvent ==
  ASSUME TypeOK, NEW e, Take(e)
  PROVE  /\ events # << >> /\ events \in Seq(Events) /\ events' = Tail(events)
         /\ events' \in Seq(Events) /\ Head(events) \in Events /\ Head(events).event = e
BY Shortened DEF Take, TypeOK

LEMMA ClusterListenerTypes ==
  ASSUME TypeOK, ClusterListener
  PROVE  TypeOK'
<1>0. /\ controller \in [Agents -> Controllers] /\ Cluster \in Agents
      /\ inbox \in [Nodes -> Seq(Messages)]
      /\ nodes_state \in [Nodes -> [known : BOOLEAN, app : BOOLEAN, comps : SUBSET Comps]]
  BY Agent DEF TypeOK, Controllers
<1>1. CASE OnAppCreated
  <2>1. events' \in Seq(Events)
    BY <1>1, TakeEvent DEF OnAppCreated
  <2>2. controller' \in [Agents -> Controllers]
    <3>1. StartPolicies(Cluster, Received(controller[Cluster])) \in Controllers
      BY <1>0, ReceivedController, StartedController
    <3> QED
      BY <1>0, <1>1, <3>1 DEF OnAppCreated
  <2> QED
    BY <1>1, <2>1, <2>2
    DEF OnAppCreated, TypeOK, Controllers, fluidityVars, clusterVars, nodeVars, boundVars, agentVars
<1>2. CASE OnAppDeleted
  <2>1. events' \in Seq(Events)
    BY <1>2, TakeEvent DEF OnAppDeleted
  <2>2. controller' \in [Agents -> Controllers]
    <3>1. DeletePolicies(Terminated(controller[Cluster])) \in Controllers
      BY <1>0, TerminatedController, DeletedController
    <3> QED
      BY <1>0, <1>2, <3>1 DEF OnAppDeleted
  <2>3. UNCHANGED <<pods, doubled, phase, unreported, answer, requests, active, policy, forgotten, heard,
                    apps, plans, faults>>
    BY <1>2 DEF OnAppDeleted, fluidityVars, boundVars, agentVars
  <2>4. /\ stuck' \subseteq Agents /\ inbox' \in [Nodes -> Seq(Messages)]
        /\ untold' \subseteq Comps \X Nodes
        /\ nodes_state' \in [Nodes -> [known : BOOLEAN, app : BOOLEAN, comps : SUBSET Comps]]
    <3>1. CASE DeletionRaises(Terminated(controller[Cluster]))
      BY <1>0, <1>2, <3>1 DEF OnAppDeleted, TypeOK
    <3>2. CASE ~DeletionRaises(Terminated(controller[Cluster]))
      <4>1. /\ inbox' = [n \in Nodes |-> inbox[n] \o RemovalsFrom(n)]
            /\ nodes_state' = [n \in Nodes |-> [nodes_state[n] EXCEPT !.app = FALSE, !.comps = {}]]
            /\ untold' = {} /\ stuck' = stuck
        BY <1>2, <3>2 DEF OnAppDeleted
      <4>2. ASSUME NEW n \in Nodes PROVE inbox[n] \o RemovalsFrom(n) \in Seq(Messages)
        <5> DEFINE M == Messages
        <5>1. inbox[n] \in Seq(M) /\ RemovalsFrom(n) \in Seq(M)
          BY <1>0, Removals
        <5> HIDE DEF M
        <5>2. inbox[n] \o RemovalsFrom(n) \in Seq(M)
          BY <5>1
        <5> QED
          BY <5>2 DEF M
      <4>3. inbox' \in [Nodes -> Seq(Messages)]
        BY <4>1, <4>2
      <4>4. nodes_state' \in [Nodes -> [known : BOOLEAN, app : BOOLEAN, comps : SUBSET Comps]]
        BY <1>0, <4>1
      <4> QED
        BY <4>1, <4>3, <4>4 DEF TypeOK
    <3> QED
      BY <3>1, <3>2
  <2> QED
    BY <2>1, <2>2, <2>3, <2>4 DEF TypeOK, Controllers
<1>3. CASE OnPlanExecuted
  <2>1. /\ events' \in Seq(Events) /\ Head(events) \in Events
        /\ Head(events).event = "PLAN_EXECUTED"
    BY <1>3, TakeEvent DEF OnPlanExecuted
  <2>2. Head(events).plan \in Seq(Steps) /\ Head(events).report \in Reports
    <3> DEFINE R == Reports
               S == Seq(Steps)
    <3>1. Head(events) \in [event : {"APP_CREATED", "APP_DELETED"}]
                             \union [event : {"PLAN_EXECUTED"}, plan : S, report : R]
      BY <2>1 DEF Events
    <3> HIDE DEF R, S
    <3>2. Head(events).plan \in S /\ Head(events).report \in R
      BY <2>1, <3>1
    <3> QED
      BY <3>2 DEF R, S
  <2>3. answer' \in Answers
    BY <1>3, <2>2, AnswerTypes, EmptyIn DEF OnPlanExecuted, Answers, Reports
  <2> QED
    BY <1>3, <2>1, <2>3 DEF OnPlanExecuted, TypeOK, Answers, fluidityVars, nodeVars, boundVars, agentVars
<1> QED
  BY <1>1, <1>2, <1>3 DEF ClusterListener

LEMMA OnSyncRequestTypes ==
  ASSUME TypeOK, OnSyncRequest
  PROVE  TypeOK'
<1>1. /\ requests \in Seq(Nodes) /\ Head(requests) \in Nodes /\ requests' \in Seq(Nodes)
  BY Shortened DEF OnSyncRequest, TypeOK
<1> DEFINE n == Head(requests)
           m == [event |-> "NODE_STATE_SYNC", app |-> nodes_state[n].app,
                 comps |-> nodes_state[n].comps]
<1>2. m \in Messages
  BY <1>1 DEF TypeOK, Messages
<1>3. inbox' = inbox \/ inbox' = [inbox EXCEPT ![n] = Append(@, m)]
  BY DEF OnSyncRequest
<1> HIDE DEF n, m
<1>4. inbox' \in [Nodes -> Seq(Messages)]
  BY <1>1, <1>2, <1>3, TellTypes DEF n, TypeOK
<1>5. untold' \subseteq untold
  BY DEF OnSyncRequest
<1> QED
  BY <1>1, <1>4, <1>5 DEF OnSyncRequest, TypeOK, fluidityVars, boundVars, agentVars

LEMMA ClusterRestartsTypes ==
  ASSUME TypeOK, ClusterRestarts
  PROVE  TypeOK'
<1>1. events' \in Seq(Events)
  <2>1. [event |-> "APP_CREATED"] \in Events
    BY DEF Events
  <2> DEFINE E == Events
  <2> HIDE DEF E
  <2>2. \A e \in E : <<e>> \in Seq(E) /\ << >> \in Seq(E)
    OBVIOUS
  <2> QED
    BY <2>1, <2>2 DEF ClusterRestarts, E
<1>2. controller' \in [Agents -> Controllers]
  BY Agent, FreshController DEF ClusterRestarts, TypeOK, Controllers
<1>3. nodes_state' \in [Nodes -> [known : BOOLEAN, app : BOOLEAN, comps : SUBSET Comps]]
  BY DEF ClusterRestarts, Unknown
<1>4. requests' \in Seq(Nodes)
  <2>1. requests' \in {requests, << >>}
    BY DEF ClusterRestarts
  <2>2. requests \in Seq(Nodes) /\ << >> \in Seq(Nodes)
    BY EmptyIn DEF TypeOK
  <2> QED
    BY <2>1, <2>2
<1>5. faults' \in 0..MaxFaults
  BY Bounds DEF ClusterRestarts, TypeOK
<1> QED
  BY <1>1, <1>2, <1>3, <1>4, <1>5 DEF ClusterRestarts, TypeOK, Controllers, nodeVars

\* A node takes the first message of its queue.
LEMMA TakeMessage ==
  ASSUME TypeOK, NEW n \in Nodes, NEW e, Receive(n, e)
  PROVE  /\ inbox[n] \in Seq(Messages) /\ inbox[n] # << >> /\ Head(inbox[n]) \in Messages
         /\ Head(inbox[n]).event = e /\ inbox' \in [Nodes -> Seq(Messages)]
         /\ inbox'[n] = Tail(inbox[n]) /\ \A k \in Nodes \ {n} : inbox'[k] = inbox[k]
         /\ UNCHANGED <<pods, doubled, phase, unreported, events, nodes_state, answer, untold, requests,
                        policy, forgotten, heard, apps, plans, faults>>
<1>1. inbox \in [Nodes -> Seq(Messages)]
  BY DEF TypeOK
<1>2. /\ inbox[n] # << >> /\ Head(inbox[n]).event = e
      /\ inbox' = [inbox EXCEPT ![n] = Tail(@)]
      /\ UNCHANGED <<pods, doubled, phase, unreported, events, nodes_state, answer, untold, requests,
                     policy, forgotten, heard, apps, plans, faults>>
  BY DEF Receive, fluidityVars, clusterVars, boundVars, agentVars
<1> DEFINE M == Messages
<1>3. inbox \in [Nodes -> Seq(M)]
  BY <1>1
<1> HIDE DEF M
<1>4. /\ inbox[n] \in Seq(M) /\ Head(inbox[n]) \in M /\ Tail(inbox[n]) \in Seq(M)
  BY <1>2, <1>3, Shortened
<1>5. /\ inbox' \in [Nodes -> Seq(M)] /\ inbox'[n] = Tail(inbox[n])
      /\ \A k \in Nodes \ {n} : inbox'[k] = inbox[k]
  BY <1>2, <1>3, <1>4
<1> QED
  BY <1>2, <1>4, <1>5 DEF M

LEMMA MessageFields ==
  ASSUME NEW m \in Messages
  PROVE  /\ m.event = "NODE_STATE_SYNC" => m.app \in BOOLEAN /\ m.comps \in SUBSET Comps
         /\ m.event # "NODE_STATE_SYNC" => m.comp \in Comps
         /\ m.event \in {"COMPONENT_PLACED", "COMPONENT_UPDATED", "COMPONENT_REMOVED",
                         "NODE_STATE_SYNC"}
BY DEF Messages

\* What placing components on a node does.
LEMMA PlaceEffect ==
  ASSUME TypeOK, NEW n \in Nodes, NEW comps \in SUBSET Comps, Place(n, comps)
  PROVE  /\ active' \in [Nodes -> [listed : BOOLEAN, comps : SUBSET Comps]]
         /\ active'[n].listed /\ active'[n].comps = active[n].comps \union comps
         /\ \A k \in Nodes \ {n} : active'[k] = active[k]
         /\ controller' \in [Agents -> Controllers]
         /\ \A b \in Agents \ {n} : controller'[b] = controller[b]
         /\ active[n].listed => controller' = controller
         /\ ~active[n].listed =>
              controller'[n] = StartPolicies(n, Received(controller[n]))
<1>1. /\ active \in [Nodes -> [listed : BOOLEAN, comps : SUBSET Comps]]
      /\ controller \in [Agents -> Controllers] /\ n \in Agents
  BY Agent DEF TypeOK, Controllers
<1>2. /\ active' = [active EXCEPT ![n] = [listed |-> TRUE, comps |-> @.comps \union comps]]
      /\ controller' = IF active[n].listed THEN controller
                       ELSE [controller EXCEPT ![n] = StartPolicies(n, Received(@))]
  BY DEF Place
<1>3. StartPolicies(n, Received(controller[n])) \in Controllers
  BY <1>1, ReceivedController, StartedController
<1>4. active'[n] = [listed |-> TRUE, comps |-> active[n].comps \union comps]
  BY <1>1, <1>2
<1>5. /\ active' \in [Nodes -> [listed : BOOLEAN, comps : SUBSET Comps]]
      /\ \A k \in Nodes \ {n} : active'[k] = active[k]
  BY <1>1, <1>2
<1>6. CASE active[n].listed
  BY <1>1, <1>2, <1>4, <1>5, <1>6
<1>7. CASE ~active[n].listed
  BY <1>1, <1>2, <1>3, <1>4, <1>5, <1>7
<1> QED
  BY <1>6, <1>7

\* What the removal of a component does to a node: nothing if the application is not
\* listed, and the controllers are asked to stop only with the last component.
LEMMA RemovedEffect ==
  ASSUME TypeOK, NEW n \in Nodes, OnRemoved(n), NEW c, c = Head(inbox[n]).comp
  PROVE  /\ active' \in [Nodes -> [listed : BOOLEAN, comps : SUBSET Comps]]
         /\ controller' \in [Agents -> Controllers] /\ stuck' \subseteq Agents
         /\ \A k \in Nodes \ {n} : active'[k] = active[k]
         /\ \A b \in Agents \ {n} : controller'[b] = controller[b]
         /\ \/ ~active[n].listed /\ UNCHANGED <<active, controller, stuck>>
            \/ /\ active[n].listed /\ active[n].comps \ {c} # {} /\ active'[n].listed
               /\ active'[n].comps = active[n].comps \ {c} /\ UNCHANGED <<controller, stuck>>
            \/ /\ active[n].listed /\ active[n].comps \ {c} = {} /\ active'[n].comps = {}
               /\ controller'[n] = DeletePolicies(Terminated(controller[n]))
               /\ \/ ~active'[n].listed /\ stuck' = stuck
                  \/ active'[n].listed /\ stuck' = stuck \union {n}
<1>1. /\ active \in [Nodes -> [listed : BOOLEAN, comps : SUBSET Comps]]
      /\ controller \in [Agents -> Controllers] /\ n \in Agents /\ stuck \subseteq Agents
  BY Agent DEF TypeOK, Controllers
<1>2. PICK comps : comps = active[n].comps \ {c}
  OBVIOUS
<1>3. PICK t : t = Terminated(controller[n])
  OBVIOUS
<1>4. IF ~active[n].listed THEN UNCHANGED <<active, controller, stuck>>
      ELSE IF comps # {}
      THEN /\ active' = [active EXCEPT ![n].comps = comps]
           /\ UNCHANGED <<controller, stuck>>
      ELSE /\ controller' = [controller EXCEPT ![n] = DeletePolicies(t)]
           /\ active' = [active EXCEPT ![n] = [listed |-> DeletionRaises(t), comps |-> {}]]
           /\ stuck' = IF DeletionRaises(t) THEN stuck \union {n} ELSE stuck
  BY <1>2, <1>3 DEF OnRemoved, Remaining
<1>5. t \in Controllers /\ DeletePolicies(t) \in Controllers /\ DeletionRaises(t) \in BOOLEAN
  <2>1. t \in Controllers
    BY <1>1, <1>3, TerminatedController
  <2> QED
    BY <1>1, <2>1, DeletedController DEF DeletionRaises, Controllers
<1>6. CASE ~active[n].listed
  BY <1>1, <1>4, <1>6
<1>7. CASE active[n].listed /\ comps # {}
  <2>1. comps \in SUBSET Comps
    BY <1>1, <1>2
  <2>2. active' = [active EXCEPT ![n].comps = comps] /\ UNCHANGED <<controller, stuck>>
    BY <1>4, <1>7
  <2>3. /\ active'[n].listed = active[n].listed /\ active'[n].comps = comps
        /\ \A k \in Nodes \ {n} : active'[k] = active[k]
        /\ active' \in [Nodes -> [listed : BOOLEAN, comps : SUBSET Comps]]
    BY <1>1, <2>1, <2>2
  <2> QED
    BY <1>1, <1>2, <1>7, <2>2, <2>3
<1>8. CASE active[n].listed /\ comps = {}
  <2>1. /\ controller' = [controller EXCEPT ![n] = DeletePolicies(t)]
        /\ active' = [active EXCEPT ![n] = [listed |-> DeletionRaises(t), comps |-> {}]]
        /\ stuck' = IF DeletionRaises(t) THEN stuck \union {n} ELSE stuck
    BY <1>4, <1>8
  <2>2. /\ active'[n] = [listed |-> DeletionRaises(t), comps |-> {}]
        /\ \A k \in Nodes \ {n} : active'[k] = active[k]
        /\ active' \in [Nodes -> [listed : BOOLEAN, comps : SUBSET Comps]]
    BY <1>1, <1>5, <2>1
  <2>3. /\ controller' \in [Agents -> Controllers] /\ controller'[n] = DeletePolicies(t)
        /\ \A b \in Agents \ {n} : controller'[b] = controller[b]
    BY <1>1, <1>5, <2>1
  <2> QED
    BY <1>1, <1>2, <1>3, <1>5, <1>8, <2>1, <2>2, <2>3
<1> QED
  BY <1>6, <1>7, <1>8

LEMMA NodeListenerTypes ==
  ASSUME TypeOK, NEW n \in Nodes, NodeListener(n)
  PROVE  TypeOK'
<1>1. ASSUME NEW e, Receive(n, e),
             active' \in [Nodes -> [listed : BOOLEAN, comps : SUBSET Comps]],
             controller' \in [Agents -> Controllers], stuck' \subseteq Agents
      PROVE  TypeOK'
  <2>1. /\ inbox' \in [Nodes -> Seq(Messages)]
        /\ UNCHANGED <<pods, doubled, phase, unreported, events, nodes_state, answer, untold, requests,
                       policy, forgotten, heard, apps, plans, faults>>
    BY <1>1, TakeMessage
  <2> QED
    BY <1>1, <2>1 DEF TypeOK, Controllers
<1>2. /\ active \in [Nodes -> [listed : BOOLEAN, comps : SUBSET Comps]]
      /\ controller \in [Agents -> Controllers] /\ stuck \subseteq Agents
  BY DEF TypeOK, Controllers
<1>3. CASE OnPlaced(n)
  <2>1. Receive(n, "COMPONENT_PLACED") /\ Place(n, {Head(inbox[n]).comp}) /\ stuck' = stuck
    BY <1>3 DEF OnPlaced
  <2>2. {Head(inbox[n]).comp} \in SUBSET Comps
    BY <2>1, TakeMessage, MessageFields
  <2> QED
    BY <1>1, <1>2, <2>1, <2>2, PlaceEffect
<1>4. CASE OnUpdated(n)
  BY <1>1, <1>2, <1>4 DEF OnUpdated
<1>5. CASE OnRemoved(n)
  BY <1>1, <1>5, RemovedEffect DEF OnRemoved
<1>6. CASE OnSync(n)
  <2>1. Receive(n, "NODE_STATE_SYNC") /\ stuck' = stuck
    BY <1>6 DEF OnSync
  <2>2. Head(inbox[n]).comps \in SUBSET Comps
    BY <2>1, TakeMessage, MessageFields
  <2>3. Place(n, Head(inbox[n]).comps) \/ UNCHANGED <<active, controller>>
    BY <1>6 DEF OnSync
  <2> QED
    BY <1>1, <1>2, <2>1, <2>2, <2>3, PlaceEffect
<1> QED
  BY <1>3, <1>4, <1>5, <1>6 DEF NodeListener

\* A suffix of what a node was sent is left when it restarts.
LEMMA Suffix ==
  ASSUME NEW S, NEW s \in Seq(S), NEW i \in 0..Len(s)
  PROVE  /\ SubSeq(s, i + 1, Len(s)) \in Seq(S) /\ Len(s) \in Nat
         /\ DOMAIN SubSeq(s, i + 1, Len(s)) = 1..(Len(s) - i) /\ DOMAIN s = 1..Len(s)
         /\ \A j \in 1..(Len(s) - i) : SubSeq(s, i + 1, Len(s))[j] = s[i + j]
<1>1. Len(s) \in Nat /\ i \in Nat /\ i + 1 \in Nat /\ DOMAIN s = 1..Len(s)
  OBVIOUS
<1>2. SubSeq(s, i + 1, Len(s)) = [j \in 1..(Len(s) - i) |-> s[i + j]]
  BY <1>1
<1> QED
  BY <1>1, <1>2

LEMMA NodeRestartsTypes ==
  ASSUME TypeOK, NEW n \in Nodes, NodeRestarts(n)
  PROVE  TypeOK'
<1>1. controller' \in [Agents -> Controllers]
  BY Agent, FreshController DEF NodeRestarts, TypeOK, Controllers
<1>2. active' \in [Nodes -> [listed : BOOLEAN, comps : SUBSET Comps]]
  BY DEF NodeRestarts, TypeOK, NoApplication
<1>3. requests' \in Seq(Nodes)
  BY Appended DEF NodeRestarts, SyncRequest, TypeOK
<1>4. inbox' \in [Nodes -> Seq(Messages)]
  <2> DEFINE M == Messages
  <2>1. inbox \in [Nodes -> Seq(M)]
    BY DEF TypeOK
  <2>2. PICK i \in 0..Len(inbox[n]) :
               inbox' = [inbox EXCEPT ![n] = SubSeq(@, i + 1, Len(@))]
    BY DEF NodeRestarts
  <2> HIDE DEF M
  <2>3. SubSeq(inbox[n], i + 1, Len(inbox[n])) \in Seq(M)
    BY <2>1, Suffix
  <2>4. inbox' \in [Nodes -> Seq(M)]
    BY <2>1, <2>2, <2>3
  <2> QED
    BY <2>4 DEF M
<1>5. faults' \in 0..MaxFaults
  BY Bounds DEF NodeRestarts, TypeOK
<1> QED
  BY <1>1, <1>2, <1>3, <1>4, <1>5
  DEF NodeRestarts, TypeOK, Controllers, fluidityVars, clusterVars, agentVars

LEMMA AddedController ==
  ASSUME TypeOK, NEW a \in Agents, AddInterval(a)
  PROVE  /\ controller' \in [Agents -> Controllers] /\ controller'[a].interval
         /\ controller'[a].task = controller[a].task
         /\ controller'[a].orphans = controller[a].orphans
         /\ \A b \in Agents \ {a} : controller'[b] = controller[b]
         /\ UNCHANGED <<pods, doubled, phase, unreported, events, nodes_state, answer, untold, requests,
                        inbox, active, policy, stuck, forgotten, heard, apps, plans, faults>>
<1>1. controller \in [Agents -> Controllers] /\ controller[a].requested > 0
  BY DEF TypeOK, Controllers, AddInterval
<1>2. PICK x : x = controller[a].requested - 1
  OBVIOUS
<1>3. x \in Nat
  BY <1>1, <1>2 DEF Controllers
<1>4. PICK c : c = [controller[a] EXCEPT !.requested = x, !.interval = TRUE]
  OBVIOUS
<1>5. /\ c \in Controllers /\ c.interval /\ c.task = controller[a].task
      /\ c.orphans = controller[a].orphans
  BY <1>1, <1>3, <1>4 DEF Controllers
<1>6. controller' = [controller EXCEPT ![a] = c]
  BY <1>1, <1>2, <1>4 DEF AddInterval
<1>7. UNCHANGED <<pods, doubled, phase, unreported, events, nodes_state, answer, untold, requests,
                  inbox, active, policy, stuck, forgotten, heard, apps, plans, faults>>
  BY DEF AddInterval, fluidityVars, clusterVars, nodeVars, boundVars, agentVars
<1> QED
  BY <1>1, <1>5, <1>6, <1>7

LEMMA SharedController ==
  ASSUME TypeOK, NEW a \in Agents, OtherApplication(a)
  PROVE  /\ controller' \in [Agents -> Controllers]
         /\ controller'[a].task = controller[a].task
         /\ controller'[a].orphans = controller[a].orphans
         /\ \A b \in Agents \ {a} : controller'[b] = controller[b]
         /\ UNCHANGED <<pods, doubled, phase, unreported, events, nodes_state, answer, untold, requests,
                        inbox, active, policy, stuck, forgotten, heard, apps, plans, faults>>
<1>1. controller \in [Agents -> Controllers]
  BY DEF TypeOK, Controllers
<1>2. PICK x \in BOOLEAN : x = ~controller[a].interval
  OBVIOUS
<1>3. PICK c : c = [controller[a] EXCEPT !.interval = x]
  OBVIOUS
<1>4. c \in Controllers /\ c.task = controller[a].task /\ c.orphans = controller[a].orphans
  BY <1>1, <1>2, <1>3 DEF Controllers
<1>5. controller' = [controller EXCEPT ![a] = c]
  BY <1>1, <1>2, <1>3 DEF OtherApplication
<1>6. UNCHANGED <<pods, doubled, phase, unreported, events, nodes_state, answer, untold, requests,
                  inbox, active, policy, stuck, forgotten, heard, apps, plans, faults>>
  BY DEF OtherApplication, fluidityVars, clusterVars, nodeVars, boundVars, agentVars
<1> QED
  BY <1>1, <1>4, <1>5, <1>6

\* Type correctness.
THEOREM PlacementTypes == Spec => []TypeOK
<1>1. Init => TypeOK
  BY InitTypes
<1>2. TypeOK /\ [Next]_vars => TypeOK'
  <2> SUFFICES ASSUME TypeOK, [Next]_vars PROVE TypeOK'
    OBVIOUS
  <2>1. ASSUME NEW a \in Agents, AddInterval(a) \/ OtherApplication(a) PROVE TypeOK'
    BY <2>1, AddedController, SharedController DEF TypeOK, Controllers
  <2>2. CASE UNCHANGED vars
    BY <2>2 DEF vars, fluidityVars, clusterVars, nodeVars, boundVars, agentVars, TypeOK
  <2> QED
    BY <2>1, <2>2, FluidityTypes, ReportTypesStay, ClusterListenerTypes, OnSyncRequestTypes,
       ClusterRestartsTypes, NodeListenerTypes, NodeRestartsTypes DEF Next
<1> QED
  BY <1>1, <1>2, PTL DEF Spec

-----------------------------------------------------------------------------
(* Analyses. *)

\* A node that does not list the application does not run it; one whose policies could
\* always be deleted runs it exactly while it lists a component.
AnalysisOf(n) ==
  /\ ~active[n].listed => active[n].comps = {} /\ ~controller[n].task
  /\ n \notin stuck => /\ active[n].listed <=> active[n].comps # {}
                      /\ controller[n].task <=> active[n].listed

AnalysisOfNodes == \A n \in Nodes : AnalysisOf(n)

\* The announcement of an application starts its analysis, and its removal ends it.
Turn(e, x, y) ==
  \/ e.event = "APP_CREATED" /\ y
  \/ e.event = "APP_DELETED" /\ ~y
  \/ e.event = "PLAN_EXECUTED" /\ (x <=> y)

\* What the events of a queue make of x is y.
Follows(q, x, y) ==
  \E t \in [0..Len(q) -> BOOLEAN] :
    /\ t[0] <=> x
    /\ t[Len(q)] <=> y
    /\ \A i \in DOMAIN q : Turn(q[i], t[i - 1], t[i])

QueueFollows == Follows(events, controller[Cluster].task, phase # "absent")

AnalysisInv == NodesAnalyzeOnce /\ AnalysisOfNodes /\ QueueFollows

LEMMA FollowsAppended ==
  ASSUME NEW q \in Seq(Events), NEW x, NEW y, NEW z \in BOOLEAN, NEW e \in Events,
         Follows(q, x, y), Turn(e, y, z)
  PROVE  Follows(Append(q, e), x, z)
<1>1. PICK t \in [0..Len(q) -> BOOLEAN] :
        (t[0] <=> x) /\ (t[Len(q)] <=> y) /\ \A i \in DOMAIN q : Turn(q[i], t[i - 1], t[i])
  BY DEF Follows
<1> DEFINE k == Len(q)
           u == [i \in 0..(k + 1) |-> IF i = k + 1 THEN z ELSE t[i]]
<1>2. /\ k \in Nat /\ Len(Append(q, e)) = k + 1 /\ DOMAIN q = 1..k
      /\ DOMAIN Append(q, e) = 1..(k + 1)
      /\ \A i \in DOMAIN q : Append(q, e)[i] = q[i]
      /\ Append(q, e)[k + 1] = e
  BY Appended
<1>3. /\ u \in [0..(k + 1) -> BOOLEAN] /\ u[k + 1] = z
      /\ \A i \in 0..k : u[i] = t[i]
  BY <1>1, <1>2
<1> HIDE DEF u
<1>4. (u[0] <=> x) /\ (u[k + 1] <=> z)
  BY <1>1, <1>2, <1>3
<1>5. ASSUME NEW i \in 1..(k + 1) PROVE Turn(Append(q, e)[i], u[i - 1], u[i])
  <2>1. CASE i = k + 1
    <3>1. u[i] = z /\ i - 1 = k /\ u[k] = t[k] /\ Append(q, e)[i] = e
      BY <1>2, <1>3, <2>1
    <3>2. Turn(e, t[k], z)
      BY <1>1 DEF Turn
    <3> QED
      BY <3>1, <3>2
  <2>2. CASE i # k + 1
    <3>1. i \in 1..k /\ i - 1 \in 0..k /\ i \in 0..k
      BY <1>2, <2>2
    <3>2. u[i] = t[i] /\ u[i - 1] = t[i - 1] /\ Append(q, e)[i] = q[i]
      BY <1>2, <1>3, <3>1
    <3> QED
      BY <1>1, <1>2, <3>1, <3>2
  <2> QED
    BY <2>1, <2>2
<1> QED
  BY <1>2, <1>3, <1>4, <1>5 DEF Follows

LEMMA FollowsShortened ==
  ASSUME NEW q \in Seq(Events), q # << >>, NEW x, NEW y, Follows(q, x, y)
  PROVE  \E z \in BOOLEAN : Turn(Head(q), x, z) /\ Follows(Tail(q), z, y)
<1>1. PICK t \in [0..Len(q) -> BOOLEAN] :
        (t[0] <=> x) /\ (t[Len(q)] <=> y) /\ \A i \in DOMAIN q : Turn(q[i], t[i - 1], t[i])
  BY DEF Follows
<1> DEFINE k == Len(q)
           u == [i \in 0..(k - 1) |-> t[i + 1]]
<1>2. /\ k \in Nat /\ k > 0 /\ Len(Tail(q)) = k - 1 /\ DOMAIN q = 1..k /\ 1 \in DOMAIN q
      /\ DOMAIN Tail(q) = 1..(k - 1) /\ Head(q) = q[1]
      /\ \A i \in DOMAIN Tail(q) : i + 1 \in DOMAIN q /\ Tail(q)[i] = q[i + 1]
  BY Shortened
<1>3. /\ u \in [0..(k - 1) -> BOOLEAN]
      /\ \A i \in 0..(k - 1) : u[i] = t[i + 1]
  BY <1>1, <1>2
<1> HIDE DEF u
<1>4. u[0] = t[1] /\ u[k - 1] = t[k] /\ t[1] \in BOOLEAN
  BY <1>1, <1>2, <1>3
<1>5. ASSUME NEW i \in 1..(k - 1) PROVE Turn(Tail(q)[i], u[i - 1], u[i])
  <2>1. u[i - 1] = t[i] /\ u[i] = t[i + 1] /\ i + 1 - 1 = i
    BY <1>2, <1>3
  <2>2. Turn(q[i + 1], t[i + 1 - 1], t[i + 1])
    BY <1>1, <1>2
  <2> QED
    BY <1>2, <2>1, <2>2
<1>6. Follows(Tail(q), t[1], y)
  BY <1>1, <1>2, <1>3, <1>4, <1>5 DEF Follows
<1>7. Turn(Head(q), x, t[1])
  <2>1. Turn(q[1], t[0], t[1])
    BY <1>1, <1>2
  <2> QED
    BY <1>1, <1>2, <2>1 DEF Turn
<1> QED
  BY <1>4, <1>6, <1>7

LEMMA FollowsNothing ==
  ASSUME NEW x, NEW y
  PROVE  Follows(<< >>, x, y) <=> (x <=> y)
<1>1. Len(<< >>) = 0 /\ DOMAIN << >> = {}
  OBVIOUS
<1>2. ASSUME Follows(<< >>, x, y) PROVE x <=> y
  BY <1>1, <1>2 DEF Follows
<1>3. ASSUME x <=> y PROVE Follows(<< >>, x, y)
  <2>1. PICK b \in BOOLEAN : b <=> x
    OBVIOUS
  <2> DEFINE t == [i \in 0..0 |-> b]
  <2>2. t \in [0..0 -> BOOLEAN] /\ t[0] = b
    OBVIOUS
  <2> HIDE DEF t
  <2> QED
    BY <1>1, <1>3, <2>1, <2>2 DEF Follows
<1> QED
  BY <1>2, <1>3

\* A step that concerns one agent leaves the others as they are.
LEMMA Elsewhere ==
  ASSUME AnalysisInv, NEW a \in Agents, policy' = policy,
         \A b \in Agents \ {a} : controller'[b] = controller[b],
         \A n \in Nodes \ {a} : active'[n] = active[n] /\ (n \in stuck' <=> n \in stuck),
         a \in Nodes => AnalysisOf(a)' /\ controller'[a].orphans = 0
  PROVE  NodesAnalyzeOnce' /\ AnalysisOfNodes'
<1>1. ASSUME NEW n \in Nodes PROVE AnalysisOf(n)' /\ controller'[n].orphans = 0
  <2>1. CASE n = a
    BY <2>1
  <2>2. CASE n # a
    <3>1. n \in Agents
      BY Agent
    <3> QED
      BY <2>2, <3>1 DEF AnalysisInv, AnalysisOfNodes, AnalysisOf, NodesAnalyzeOnce
  <2> QED
    BY <2>1, <2>2
<1> QED
  BY <1>1 DEF NodesAnalyzeOnce, AnalysisOfNodes

LEMMA FluidityAnalysis ==
  ASSUME TypeOK, AnalysisInv, Fluidity
  PROVE  AnalysisInv'
<1>1. UNCHANGED <<controller, active, stuck, policy>>
  BY DEF Fluidity, CreateApp, DeleteApp, PlanSucceeds, PlanFails, nodeVars
<1>2. QueueFollows'
  <2>0. /\ events \in Seq(Events)
        /\ Follows(events, controller[Cluster].task, phase # "absent")
    BY DEF TypeOK, AnalysisInv, QueueFollows
  <2>1. PICK e \in Events : /\ events' = Append(events, e)
                            /\ Turn(e, phase # "absent", phase' # "absent")
    <3>1. CASE CreateApp
      <4>1. [event |-> "APP_CREATED"] \in Events
        BY DEF Events
      <4> QED
        BY <3>1, <4>1 DEF CreateApp, Turn
    <3>2. CASE DeleteApp
      <4>1. [event |-> "APP_DELETED"] \in Events
        BY DEF Events
      <4> QED
        BY <3>2, <4>1 DEF DeleteApp, Turn
    <3>3. ASSUME NEW plan \in InitialPlans \union Plans, PlanSucceeds(plan) \/ PlanFails(plan)
          PROVE  \E e \in Events : /\ events' = Append(events, e)
                                   /\ Turn(e, phase # "absent", phase' # "absent")
      <4>1. PICK report \in Reports :
              events' = Append(events,
                               [event |-> "PLAN_EXECUTED", plan |-> plan, report |-> report])
        BY <3>3, ReportTypes, EmptyIn DEF PlanSucceeds, PlanFails, Answered, Reports
      <4>2. [event |-> "PLAN_EXECUTED", plan |-> plan, report |-> report] \in Events
        BY <4>1, ReportTypes DEF Events
      <4>3. phase # "absent" /\ phase' # "absent"
        BY <3>3 DEF PlanSucceeds, PlanFails, MayPlan
      <4> QED
        BY <4>1, <4>2, <4>3 DEF Turn
    <3> QED
      BY <3>1, <3>2, <3>3 DEF Fluidity
  <2>2. Follows(events', controller[Cluster].task, phase' # "absent")
    BY <2>0, <2>1, FollowsAppended
  <2> QED
    BY <1>1, <2>2 DEF QueueFollows
<1> QED
  BY <1>1, <1>2 DEF AnalysisInv, NodesAnalyzeOnce, AnalysisOfNodes, AnalysisOf

LEMMA ClusterListenerAnalysis ==
  ASSUME TypeOK, AnalysisInv, ClusterListener
  PROVE  AnalysisInv'
<1>0. /\ controller[Cluster] \in Controllers /\ Cluster \in Agents /\ Cluster \notin Nodes
      /\ Nodes \subseteq Agents /\ DOMAIN controller = Agents
  BY Agent DEF TypeOK, Controllers
<1>1. /\ UNCHANGED <<active, phase, policy>>
      /\ events \in Seq(Events) /\ events # << >> /\ events' = Tail(events)
  BY TakeEvent
  DEF ClusterListener, OnAppCreated, OnAppDeleted, OnPlanExecuted, fluidityVars, nodeVars
<1>2. PICK z \in BOOLEAN : /\ Turn(Head(events), controller[Cluster].task, z)
                           /\ Follows(events', z, phase' # "absent")
  BY <1>1, FollowsShortened DEF AnalysisInv, QueueFollows
<1>3. CASE OnAppCreated
  <2>1. controller' = [controller EXCEPT ![Cluster] = StartPolicies(Cluster, Received(@))]
        /\ Head(events).event = "APP_CREATED" /\ stuck' = stuck
    BY <1>3 DEF OnAppCreated, Take
  <2>2. z
    BY <1>2, <2>1 DEF Turn
  <2>3. PICK c : c = StartPolicies(Cluster, Received(controller[Cluster]))
    OBVIOUS
  <2>4. c \in Controllers /\ c.task
    BY <1>0, <2>3, ReceivedController, StartedController
  <2>5. /\ controller'[Cluster] = c
        /\ \A b \in Agents \ {Cluster} : controller'[b] = controller[b]
    BY <1>0, <2>1, <2>3
  <2>7. NodesAnalyzeOnce' /\ AnalysisOfNodes'
    BY <1>0, <1>1, <2>1, <2>5, Elsewhere
  <2>8. c.task = z
    BY <2>2, <2>4 DEF Controllers
  <2> QED
    BY <1>2, <2>5, <2>7, <2>8 DEF AnalysisInv, QueueFollows
<1>4. CASE OnAppDeleted
  <2>1. /\ controller' = [controller EXCEPT ![Cluster] =
                            DeletePolicies(Terminated(controller[Cluster]))]
        /\ Head(events).event = "APP_DELETED"
        /\ stuck' \in {stuck, stuck \union {Cluster}}
    BY <1>4 DEF OnAppDeleted, Take
  <2>2. ~z
    BY <1>2, <2>1 DEF Turn
  <2>3. PICK c : c = DeletePolicies(Terminated(controller[Cluster]))
    OBVIOUS
  <2>4. c \in Controllers /\ ~c.task
    BY <1>0, <2>3, TerminatedController, DeletedController
  <2>5. /\ controller'[Cluster] = c
        /\ \A b \in Agents \ {Cluster} : controller'[b] = controller[b]
    BY <1>0, <2>1, <2>3
  <2>7. NodesAnalyzeOnce' /\ AnalysisOfNodes'
    BY <1>0, <1>1, <2>1, <2>5, Elsewhere
  <2>8. c.task = z
    BY <2>2, <2>4 DEF Controllers
  <2> QED
    BY <1>2, <2>5, <2>7, <2>8 DEF AnalysisInv, QueueFollows
<1>5. CASE OnPlanExecuted
  <2>1. Head(events).event = "PLAN_EXECUTED" /\ UNCHANGED <<controller, stuck>>
    BY <1>5 DEF OnPlanExecuted, Take
  <2>2. controller[Cluster].task = z
    BY <1>0, <1>2, <2>1 DEF Turn, Controllers
  <2>3. QueueFollows'
    BY <1>2, <2>1, <2>2 DEF QueueFollows
  <2> QED
    BY <1>1, <2>1, <2>3
    DEF AnalysisInv, NodesAnalyzeOnce, AnalysisOfNodes, AnalysisOf
<1> QED
  BY <1>3, <1>4, <1>5 DEF ClusterListener

LEMMA ClusterRestartsAnalysis ==
  ASSUME TypeOK, AnalysisInv, ClusterRestarts
  PROVE  AnalysisInv'
<1>0. /\ Cluster \in Agents /\ Cluster \notin Nodes /\ Nodes \subseteq Agents
      /\ DOMAIN controller = Agents /\ [event |-> "APP_CREATED"] \in Events
  BY Agent DEF TypeOK, Events
<1>1. /\ controller' = [controller EXCEPT ![Cluster] = Fresh(Cluster)]
      /\ UNCHANGED <<active, policy>> /\ stuck' = stuck \ {Cluster}
      /\ IF phase = "absent" THEN phase' = "absent" /\ events' = << >>
         ELSE phase' = "created" /\ events' = <<[event |-> "APP_CREATED"]>>
  BY DEF ClusterRestarts, nodeVars
<1>2. /\ controller'[Cluster] = Fresh(Cluster)
      /\ \A b \in Agents \ {Cluster} : controller'[b] = controller[b]
  BY <1>0, <1>1
<1>3. Fresh(Cluster).task = FALSE
  BY DEF Fresh
<1>5. NodesAnalyzeOnce' /\ AnalysisOfNodes'
  BY <1>0, <1>1, <1>2, Elsewhere
<1>6. QueueFollows'
  <2>1. CASE phase = "absent"
    <3>1. Follows(<< >>, FALSE, phase' # "absent")
      BY <1>1, <2>1, FollowsNothing
    <3> QED
      BY <1>1, <1>2, <1>3, <2>1, <3>1 DEF QueueFollows
  <2>2. CASE phase # "absent"
    <3>1. Follows(<< >>, FALSE, FALSE)
      BY FollowsNothing
    <3>2. Turn([event |-> "APP_CREATED"], FALSE, TRUE)
      BY DEF Turn
    <3>3. Follows(Append(<< >>, [event |-> "APP_CREATED"]), FALSE, TRUE)
      BY <1>0, <3>1, <3>2, FollowsAppended, EmptyIn
    <3>4. Append(<< >>, [event |-> "APP_CREATED"]) = events' /\ (phase' # "absent") = TRUE
      BY <1>1, <2>2
    <3> QED
      BY <1>2, <1>3, <3>3, <3>4 DEF QueueFollows
  <2> QED
    BY <2>1, <2>2
<1> QED
  BY <1>5, <1>6 DEF AnalysisInv

\* A node that does not list the application takes it up with its first component.
LEMMA PlaceAnalysis ==
  ASSUME TypeOK, AnalysisInv, NEW n \in Nodes, NEW comps \in SUBSET Comps, comps # {},
         Place(n, comps), UNCHANGED <<policy, stuck>>
  PROVE  NodesAnalyzeOnce' /\ AnalysisOfNodes'
<1>0. /\ n \in Agents /\ Nodes \subseteq Agents /\ controller[n] \in Controllers
      /\ controller[n].orphans = 0 /\ AnalysisOf(n)
  BY Agent DEF TypeOK, Controllers, AnalysisInv, NodesAnalyzeOnce, AnalysisOfNodes
<1>1. /\ active'[n].listed /\ active'[n].comps = active[n].comps \union comps
      /\ \A k \in Nodes \ {n} : active'[k] = active[k]
      /\ \A b \in Agents \ {n} : controller'[b] = controller[b]
      /\ active[n].listed => controller' = controller
      /\ ~active[n].listed => controller'[n] = StartPolicies(n, Received(controller[n]))
  BY PlaceEffect
<1>2. /\ controller'[n].orphans = 0
      /\ n \notin stuck => controller'[n].task
  <2>1. CASE active[n].listed
    BY <1>0, <1>1, <2>1 DEF AnalysisOf
  <2>2. CASE ~active[n].listed
    <3>1. ~controller[n].task
      BY <1>0, <2>2 DEF AnalysisOf
    <3>2. /\ Received(controller[n]) \in Controllers /\ Received(controller[n]).task
          /\ Received(controller[n]).orphans = 0
      BY <1>0, <3>1, ReceivedController
    <3> QED
      BY <1>0, <1>1, <2>2, <3>2, StartedController
  <2> QED
    BY <2>1, <2>2
<1>3. AnalysisOf(n)'
  BY <1>1, <1>2 DEF AnalysisOf
<1> QED
  BY <1>0, <1>1, <1>2, <1>3, Elsewhere

LEMMA NodeListenerAnalysis ==
  ASSUME TypeOK, AnalysisInv, NEW n \in Nodes, NodeListener(n)
  PROVE  AnalysisInv'
<1>0. /\ n \in Agents /\ Nodes \subseteq Agents /\ Cluster \in Agents /\ Cluster # n
      /\ controller[n] \in Controllers
      /\ controller[n].orphans = 0 /\ AnalysisOf(n)
  BY Agent DEF TypeOK, Controllers, AnalysisInv, NodesAnalyzeOnce, AnalysisOfNodes
<1>1. UNCHANGED <<events, phase, policy>>
  BY DEF NodeListener, OnPlaced, OnUpdated, OnRemoved, OnSync, Receive, fluidityVars
<1>2. ASSUME NodesAnalyzeOnce' /\ AnalysisOfNodes',
             controller'[Cluster] = controller[Cluster]
      PROVE  AnalysisInv'
  BY <1>1, <1>2 DEF AnalysisInv, QueueFollows
<1>3. ASSUME UNCHANGED <<active, controller, stuck>> PROVE AnalysisInv'
  BY <1>1, <1>3
  DEF AnalysisInv, NodesAnalyzeOnce, AnalysisOfNodes, AnalysisOf, QueueFollows
<1>4. ASSUME NEW comps \in SUBSET Comps, comps # {}, Place(n, comps), stuck' = stuck
      PROVE  AnalysisInv'
  BY <1>0, <1>1, <1>2, <1>4, PlaceAnalysis, PlaceEffect
<1>5. CASE OnPlaced(n)
  <2>1. Receive(n, "COMPONENT_PLACED") /\ Place(n, {Head(inbox[n]).comp}) /\ stuck' = stuck
    BY <1>5 DEF OnPlaced
  <2>2. {Head(inbox[n]).comp} \in SUBSET Comps
    BY <2>1, TakeMessage, MessageFields
  <2> QED
    BY <1>4, <2>1, <2>2
<1>6. CASE OnUpdated(n)
  BY <1>3, <1>6 DEF OnUpdated
<1>7. CASE OnRemoved(n)
  <2>1. PICK c : c = Head(inbox[n]).comp
    OBVIOUS
  <2>2. /\ \A k \in Nodes \ {n} : active'[k] = active[k]
        /\ \A b \in Agents \ {n} : controller'[b] = controller[b]
        /\ \/ UNCHANGED <<active, controller, stuck>>
           \/ /\ active[n].listed /\ active[n].comps \ {c} # {} /\ active'[n].listed
              /\ active'[n].comps = active[n].comps \ {c} /\ UNCHANGED <<controller, stuck>>
           \/ /\ active'[n].comps = {}
              /\ controller'[n] = DeletePolicies(Terminated(controller[n]))
              /\ \/ ~active'[n].listed /\ stuck' = stuck
                 \/ active'[n].listed /\ stuck' = stuck \union {n}
    BY <1>7, <2>1, RemovedEffect
  <2>3. CASE UNCHANGED <<active, controller, stuck>>
    BY <1>3, <2>3
  <2>4. CASE /\ active[n].listed /\ active[n].comps \ {c} # {} /\ active'[n].listed
             /\ active'[n].comps = active[n].comps \ {c} /\ UNCHANGED <<controller, stuck>>
    <3>1. AnalysisOf(n)' /\ controller'[n].orphans = 0
      BY <1>0, <1>1, <2>4 DEF AnalysisOf
    <3> QED
      BY <1>0, <1>1, <1>2, <2>2, <2>4, <3>1, Elsewhere
  <2>5. CASE /\ active'[n].comps = {}
             /\ controller'[n] = DeletePolicies(Terminated(controller[n]))
             /\ \/ ~active'[n].listed /\ stuck' = stuck
                \/ active'[n].listed /\ stuck' = stuck \union {n}
    <3>1. PICK d : d = DeletePolicies(Terminated(controller[n]))
      OBVIOUS
    <3>2. ~d.task /\ d.orphans = 0
      BY <1>0, <3>1, TerminatedController, DeletedController
    <3>3. AnalysisOf(n)' /\ controller'[n].orphans = 0
      BY <1>1, <2>5, <3>1, <3>2 DEF AnalysisOf
    <3>4. \A k \in Nodes \ {n} : k \in stuck' <=> k \in stuck
      BY <2>5
    <3> QED
      BY <1>0, <1>1, <1>2, <2>2, <3>3, <3>4, Elsewhere
  <2> QED
    BY <2>2, <2>3, <2>4, <2>5
<1>8. CASE OnSync(n)
  <2>1. Receive(n, "NODE_STATE_SYNC") /\ stuck' = stuck
    BY <1>8 DEF OnSync
  <2>2. Head(inbox[n]).comps \in SUBSET Comps
    BY <2>1, TakeMessage, MessageFields
  <2>3. \/ Head(inbox[n]).comps # {} /\ Place(n, Head(inbox[n]).comps)
        \/ UNCHANGED <<active, controller>>
    BY <1>8 DEF OnSync
  <2> QED
    BY <1>3, <1>4, <2>1, <2>2, <2>3
<1> QED
  BY <1>5, <1>6, <1>7, <1>8 DEF NodeListener

LEMMA NodeRestartsAnalysis ==
  ASSUME TypeOK, AnalysisInv, NEW n \in Nodes, NodeRestarts(n)
  PROVE  AnalysisInv'
<1>0. /\ n \in Agents /\ Nodes \subseteq Agents /\ Cluster \in Agents /\ Cluster # n
      /\ DOMAIN controller = Agents /\ DOMAIN active = Nodes
  BY Agent DEF TypeOK
<1>1. /\ controller' = [controller EXCEPT ![n] = Fresh(n)]
      /\ active' = [active EXCEPT ![n] = NoApplication]
      /\ UNCHANGED <<policy, events, phase>> /\ stuck' = stuck \ {n}
  BY DEF NodeRestarts, fluidityVars
<1>2. /\ controller'[n] = Fresh(n) /\ active'[n] = NoApplication
      /\ \A b \in Agents \ {n} : controller'[b] = controller[b]
      /\ \A k \in Nodes \ {n} : active'[k] = active[k]
  BY <1>0, <1>1
<1>3. ~Fresh(n).task /\ Fresh(n).orphans = 0
  BY <1>0, FreshController
<1>4. AnalysisOf(n)'
  BY <1>1, <1>2, <1>3 DEF AnalysisOf, NoApplication
<1>5. NodesAnalyzeOnce' /\ AnalysisOfNodes'
  BY <1>0, <1>1, <1>2, <1>3, <1>4, Elsewhere
<1> QED
  BY <1>0, <1>1, <1>2, <1>5 DEF AnalysisInv, QueueFollows

LEMMA IntervalAnalysis ==
  ASSUME TypeOK, AnalysisInv, NEW a \in Agents, AddInterval(a) \/ OtherApplication(a)
  PROVE  AnalysisInv'
<1>0. Nodes \subseteq Agents /\ Cluster \in Agents
  BY Agent
<1>1. /\ controller'[a].task = controller[a].task
      /\ controller'[a].orphans = controller[a].orphans
      /\ \A b \in Agents \ {a} : controller'[b] = controller[b]
      /\ UNCHANGED <<active, stuck, policy, events, phase>>
  BY AddedController, SharedController
<1>2. a \in Nodes => AnalysisOf(a)' /\ controller'[a].orphans = 0
  BY <1>1 DEF AnalysisInv, NodesAnalyzeOnce, AnalysisOfNodes, AnalysisOf
<1>3. NodesAnalyzeOnce' /\ AnalysisOfNodes'
  BY <1>0, <1>1, <1>2, Elsewhere
<1>4. controller'[Cluster].task = controller[Cluster].task
  BY <1>0, <1>1
<1> QED
  BY <1>1, <1>3, <1>4 DEF AnalysisInv, QueueFollows

LEMMA AnalysisInvariant == Spec => [](TypeOK /\ AnalysisInv)
<1>1. Init => AnalysisInv
  <2> SUFFICES ASSUME Init PROVE AnalysisInv
    OBVIOUS
  <2>1. TypeOK /\ Cluster \in Agents /\ Nodes \subseteq Agents
    BY InitTypes, Agent
  <2>2. \A a \in Agents : controller[a] = Fresh(a)
    BY DEF Init
  <2>3. \A a \in Agents : Fresh(a).task = FALSE /\ Fresh(a).orphans = 0
    BY DEF Fresh
  <2>4. Follows(<< >>, FALSE, FALSE)
    BY FollowsNothing
  <2>5. QueueFollows
    <3>1. events = << >> /\ (phase # "absent") = FALSE /\ controller[Cluster].task = FALSE
      BY <2>1, <2>2, <2>3 DEF Init
    <3> QED
      BY <2>4, <3>1 DEF QueueFollows
  <2>6. AnalysisOfNodes
    BY <2>1, <2>2, <2>3 DEF Init, AnalysisOfNodes, AnalysisOf, NoApplication
  <2> QED
    BY <2>1, <2>2, <2>3, <2>5, <2>6 DEF AnalysisInv, NodesAnalyzeOnce
<1>2. TypeOK /\ AnalysisInv /\ [Next]_vars => AnalysisInv'
  <2> SUFFICES ASSUME TypeOK, AnalysisInv, [Next]_vars PROVE AnalysisInv'
    OBVIOUS
  <2>1. ASSUME UNCHANGED <<controller, active, stuck, policy, events, phase>> PROVE AnalysisInv'
    BY <2>1 DEF AnalysisInv, NodesAnalyzeOnce, AnalysisOfNodes, AnalysisOf,
                QueueFollows
  <2>2. CASE Report \/ OnSyncRequest \/ UNCHANGED vars
    BY <2>1, <2>2 DEF Report, OnSyncRequest, vars, fluidityVars, clusterVars, nodeVars, boundVars, agentVars
  <2> QED
    BY <2>2, FluidityAnalysis, ClusterListenerAnalysis, ClusterRestartsAnalysis,
       NodeListenerAnalysis, NodeRestartsAnalysis, IntervalAnalysis DEF Next
<1> QED
  BY <1>1, <1>2, PlacementTypes, PTL DEF Spec

\* No node runs two analyses of one application: it takes it up only while it does not list
\* it, and what it does not list it does not run.
THEOREM NodesHaveOneAnalysis == Spec => []NodesAnalyzeOnce
<1>1. AnalysisInv => NodesAnalyzeOnce
  BY DEF AnalysisInv
<1> QED
  BY <1>1, AnalysisInvariant, PTL

\* An agent analyses the application while it has something of it, and not afterwards.
THEOREM AnalysisFollowsPlacement == Spec => []AnalysisMatchesPlacement
<1>1. TypeOK /\ AnalysisInv => AnalysisMatchesPlacement
  <2> SUFFICES ASSUME TypeOK, AnalysisInv PROVE AnalysisMatchesPlacement
    OBVIOUS
  <2>1. \A n \in Nodes : n \notin stuck => (controller[n].task <=> active[n].comps # {})
    BY DEF AnalysisInv, AnalysisOfNodes, AnalysisOf
  <2>2. events = << >> => (controller[Cluster].task <=> phase # "absent")
    <3> SUFFICES ASSUME events = << >> PROVE controller[Cluster].task <=> phase # "absent"
      OBVIOUS
    <3>1. \E t \in [0..Len(events) -> BOOLEAN] :
             (t[0] <=> controller[Cluster].task) /\ (t[Len(events)] <=> phase # "absent")
      BY DEF AnalysisInv, QueueFollows, Follows
    <3>2. Len(events) = 0
      OBVIOUS
    <3> QED
      BY <3>1, <3>2
  <2> QED
    BY <2>1, <2>2 DEF AnalysisMatchesPlacement
<1> QED
  BY <1>1, AnalysisInvariant, PTL

-----------------------------------------------------------------------------
(* What the nodes know. *)

\* What a message says of a component; the answer to a synchronisation only names
\* what there is, an update of a specification says nothing.
Adds(m, c) ==
  \/ m.event = "COMPONENT_PLACED" /\ m.comp = c
  \/ m.event = "NODE_STATE_SYNC" /\ m.app /\ c \in m.comps
Removes(m, c) == m.event = "COMPONENT_REMOVED" /\ m.comp = c
Names(m, c) == Adds(m, c) \/ Removes(m, c)

Told(q, c) == {i \in DOMAIN q : Names(q[i], c)}
LastAdds(q, c) == \E i \in Told(q, c) : (\A j \in Told(q, c) : j <= i) /\ Adds(q[i], c)

Asked(n) == \E i \in DOMAIN requests : requests[i] = n

\* The last message about a component says what the cluster agent believes; without one
\* the node knows nothing wrong, and lacks nothing unless it is about to be told all.
Informed(n, c) ==
  IF Told(inbox[n], c) = {}
  THEN /\ c \in active[n].comps => c \in nodes_state[n].comps
       /\ c \in nodes_state[n].comps /\ ~Asked(n) => c \in active[n].comps
  ELSE LastAdds(inbox[n], c) <=> c \in nodes_state[n].comps

NodesAreInformed ==
  ~forgotten => \A n \in Nodes : \A c \in Comps : <<c, n>> \notin untold => Informed(n, c)

StateIsKnown ==
  \A n \in Nodes : /\ nodes_state[n].comps # {} => nodes_state[n].app
                   /\ nodes_state[n].app => nodes_state[n].known

UntoldIsListed ==
  \A n \in Nodes : \A c \in Comps : <<c, n>> \in untold => c \in nodes_state[n].comps

KnowledgeInv == StateIsKnown /\ UntoldIsListed /\ NodesAreInformed

\* A message about something else changes nothing, one about the component is the last.
LEMMA ToldAppended ==
  ASSUME NEW q \in Seq(Messages), NEW m \in Messages, NEW c
  PROVE  /\ ~Names(m, c) => /\ Told(Append(q, m), c) = Told(q, c)
                            /\ LastAdds(Append(q, m), c) <=> LastAdds(q, c)
         /\ Names(m, c) => /\ Told(Append(q, m), c) # {}
                           /\ LastAdds(Append(q, m), c) <=> Adds(m, c)
<1> DEFINE r == Append(q, m)
           k == Len(q) + 1
<1>1. /\ Len(q) \in Nat /\ DOMAIN q = 1..Len(q) /\ DOMAIN r = 1..k
      /\ (\A i \in DOMAIN q : r[i] = q[i]) /\ r[k] = m
  BY Appended
<1> HIDE DEF r
<1>2. CASE ~Names(m, c)
  <2>1. Told(r, c) = Told(q, c)
    <3>1. \A i \in DOMAIN r : i # k => i \in DOMAIN q
      BY <1>1
    <3>2. \A i \in DOMAIN q : i \in DOMAIN r
      BY <1>1
    <3> QED
      BY <1>1, <1>2, <3>1, <3>2 DEF Told
  <2>2. \A i \in Told(q, c) : r[i] = q[i]
    BY <1>1 DEF Told
  <2> QED
    BY <1>2, <2>1, <2>2 DEF LastAdds, r
<1>3. CASE Names(m, c)
  <2>1. k \in Told(r, c) /\ \A i \in Told(r, c) : i <= k /\ i \in Nat
    BY <1>1, <1>3 DEF Told
  <2>2. \A i \in Told(r, c) : (\A j \in Told(r, c) : j <= i) => i = k
    BY <1>1, <2>1
  <2>3. LastAdds(r, c) <=> Adds(m, c)
    BY <1>1, <2>1, <2>2 DEF LastAdds
  <2> QED
    BY <1>3, <2>1, <2>3 DEF r
<1> QED
  BY <1>2, <1>3

\* The later messages of a queue, if they name the component, decide.
LEMMA ToldLater ==
  ASSUME NEW q \in Seq(Messages), NEW r, NEW k \in Nat, NEW c,
         DOMAIN r = 1..(Len(q) - k), \A j \in DOMAIN r : r[j] = q[j + k], Told(r, c) # {}
  PROVE  Told(q, c) # {} /\ (LastAdds(r, c) <=> LastAdds(q, c))
<1>1. Len(q) \in Nat /\ DOMAIN q = 1..Len(q)
  OBVIOUS
<1>2. \A j \in Told(r, c) : j \in Nat /\ j > 0 /\ j + k \in Told(q, c) /\ r[j] = q[j + k]
  BY <1>1 DEF Told
<1>3. \A i \in Told(q, c) : i \in Nat /\ (i > k => i - k \in Told(r, c))
  <2> SUFFICES ASSUME NEW i \in Told(q, c) PROVE i \in Nat /\ (i > k => i - k \in Told(r, c))
    OBVIOUS
  <2>1. i \in 1..Len(q) /\ Names(q[i], c)
    BY <1>1 DEF Told
  <2>2. ASSUME i > k PROVE i - k \in DOMAIN r /\ (i - k) + k = i
    BY <1>1, <2>1, <2>2
  <2> QED
    BY <2>1, <2>2 DEF Told
<1>4. PICK h \in Told(r, c) : TRUE
  OBVIOUS
<1>5. ASSUME LastAdds(r, c) PROVE LastAdds(q, c)
  <2>1. PICK i \in Told(r, c) : (\A j \in Told(r, c) : j <= i) /\ Adds(r[i], c)
    BY <1>5 DEF LastAdds
  <2>2. i + k \in Told(q, c) /\ Adds(q[i + k], c) /\ i \in Nat
    BY <1>2, <2>1
  <2>3. ASSUME NEW j \in Told(q, c) PROVE j <= i + k
    <3>1. CASE j > k
      <4>1. j - k <= i
        BY <1>3, <2>1, <3>1
      <4> QED
        BY <1>3, <2>2, <4>1
    <3>2. CASE ~(j > k)
      BY <1>3, <2>2, <3>2
    <3> QED
      BY <3>1, <3>2
  <2> QED
    BY <2>2, <2>3 DEF LastAdds
<1>6. ASSUME LastAdds(q, c) PROVE LastAdds(r, c)
  <2>1. PICK i \in Told(q, c) : (\A j \in Told(q, c) : j <= i) /\ Adds(q[i], c)
    BY <1>6 DEF LastAdds
  <2>2. i \in Nat /\ h + k <= i /\ h \in Nat /\ h > 0
    BY <1>2, <1>3, <2>1
  <2>3. i - k \in Told(r, c) /\ i - k + k = i
    BY <1>3, <2>2
  <2>4. Adds(r[i - k], c)
    BY <1>2, <2>1, <2>3
  <2>5. ASSUME NEW j \in Told(r, c) PROVE j <= i - k
    <3>1. j + k <= i /\ j \in Nat
      BY <1>2, <2>1
    <3> QED
      BY <2>2, <3>1
  <2> QED
    BY <2>3, <2>4, <2>5 DEF LastAdds
<1> QED
  BY <1>2, <1>4, <1>5, <1>6

LEMMA ToldShortened ==
  ASSUME NEW q \in Seq(Messages), q # << >>, NEW c
  PROVE  /\ Told(Tail(q), c) # {} => /\ Told(q, c) # {}
                                     /\ LastAdds(Tail(q), c) <=> LastAdds(q, c)
         /\ Told(Tail(q), c) = {} /\ Names(Head(q), c) =>
              Told(q, c) # {} /\ (LastAdds(q, c) <=> Adds(Head(q), c))
         /\ Told(Tail(q), c) = {} /\ ~Names(Head(q), c) => Told(q, c) = {}
<1> DEFINE r == Tail(q)
<1>1. /\ Len(q) \in Nat /\ Len(q) > 0 /\ DOMAIN q = 1..Len(q) /\ DOMAIN r = 1..(Len(q) - 1)
      /\ Head(q) = q[1] /\ 1 \in DOMAIN q
      /\ \A i \in DOMAIN r : i + 1 \in DOMAIN q /\ r[i] = q[i + 1]
  BY Shortened
<1> HIDE DEF r
<1>2. ASSUME Told(r, c) # {} PROVE Told(q, c) # {} /\ (LastAdds(r, c) <=> LastAdds(q, c))
  BY <1>1, <1>2, ToldLater
<1>3. ASSUME Told(r, c) = {}, NEW i \in Told(q, c) PROVE i = 1
  <2>1. i \in 1..Len(q) /\ Names(q[i], c)
    BY <1>1, <1>3 DEF Told
  <2>2. ASSUME i # 1 PROVE i - 1 \in DOMAIN r /\ r[i - 1] = q[i]
    <3>1. i - 1 \in DOMAIN r /\ (i - 1) + 1 = i
      BY <1>1, <2>1, <2>2
    <3> QED
      BY <1>1, <3>1
  <2> QED
    BY <1>3, <2>1, <2>2 DEF Told
<1>4. 1 \in Told(q, c) <=> Names(Head(q), c)
  BY <1>1 DEF Told
<1>5. ASSUME Told(r, c) = {}, Names(Head(q), c)
      PROVE  Told(q, c) # {} /\ (LastAdds(q, c) <=> Adds(Head(q), c))
  <2>1. Told(q, c) = {1}
    BY <1>3, <1>4, <1>5
  <2> QED
    BY <1>1, <2>1 DEF LastAdds
<1>6. ASSUME Told(r, c) = {}, ~Names(Head(q), c) PROVE Told(q, c) = {}
  BY <1>3, <1>4, <1>6
<1> QED
  BY <1>2, <1>5, <1>6 DEF r

\* Messages that only remove.
LEMMA ToldRemovals ==
  ASSUME NEW q \in Seq(Messages), NEW r \in Seq(Messages), NEW c,
         \A i \in DOMAIN r : ~Adds(r[i], c)
  PROVE  /\ Told(r, c) = {} => /\ Told(q \o r, c) = Told(q, c)
                               /\ LastAdds(q \o r, c) <=> LastAdds(q, c)
         /\ Told(r, c) # {} => Told(q \o r, c) # {} /\ ~LastAdds(q \o r, c)
<1> DEFINE s == q \o r
<1>1. /\ Len(q) \in Nat /\ Len(r) \in Nat /\ DOMAIN q = 1..Len(q) /\ DOMAIN r = 1..Len(r)
      /\ DOMAIN s = 1..(Len(q) + Len(r)) /\ Len(s) = Len(q) + Len(r) /\ s \in Seq(Messages)
  <2> DEFINE M == Messages
  <2>1. q \in Seq(M) /\ r \in Seq(M)
    OBVIOUS
  <2> HIDE DEF M
  <2>2. s \in Seq(M) /\ Len(s) = Len(q) + Len(r) /\ DOMAIN s = 1..Len(s)
    BY <2>1
  <2> QED
    BY <2>1, <2>2 DEF M
<1>2. /\ \A i \in DOMAIN q : i \in DOMAIN s /\ s[i] = q[i]
      /\ \A i \in DOMAIN r : i + Len(q) \in DOMAIN s /\ s[i + Len(q)] = r[i]
  BY <1>1
<1> HIDE DEF s
<1>3. CASE Told(r, c) = {}
  <2>1. ASSUME NEW i \in Told(s, c) PROVE i \in DOMAIN q
    <3>1. i \in 1..(Len(q) + Len(r)) /\ Names(s[i], c)
      BY <1>1 DEF Told
    <3>2. ASSUME i > Len(q) PROVE i - Len(q) \in DOMAIN r /\ s[i] = r[i - Len(q)]
      <4>1. i - Len(q) \in DOMAIN r /\ (i - Len(q)) + Len(q) = i
        BY <1>1, <3>1, <3>2
      <4> QED
        BY <1>2, <4>1
    <3> QED
      BY <1>1, <1>3, <3>1, <3>2 DEF Told
  <2>2. Told(s, c) = Told(q, c)
    BY <1>2, <2>1 DEF Told
  <2>3. \A i \in Told(q, c) : s[i] = q[i]
    BY <1>2 DEF Told
  <2>4. LastAdds(s, c) <=> LastAdds(q, c)
    BY <2>2, <2>3 DEF LastAdds
  <2> QED
    BY <1>3, <2>2, <2>4 DEF s
<1>4. CASE Told(r, c) # {}
  <2>1. ~LastAdds(r, c)
    BY DEF LastAdds, Told
  <2>2. DOMAIN r = 1..(Len(s) - Len(q)) /\ \A j \in DOMAIN r : r[j] = s[j + Len(q)]
    BY <1>1, <1>2
  <2>3. Told(s, c) # {} /\ (LastAdds(r, c) <=> LastAdds(s, c))
    BY <1>1, <1>4, <2>2, ToldLater
  <2> QED
    BY <1>4, <2>1, <2>3 DEF s
<1> QED
  BY <1>3, <1>4

\* A queue that says of a component what it said leaves what a node knows of it.
LEMMA StaysInformed ==
  ASSUME NEW n \in Nodes, NEW c \in Comps, Informed(n, c),
         Told(inbox'[n], c) = Told(inbox[n], c),
         LastAdds(inbox'[n], c) <=> LastAdds(inbox[n], c),
         c \in active'[n].comps <=> c \in active[n].comps,
         c \in nodes_state'[n].comps <=> c \in nodes_state[n].comps,
         Asked(n)' <=> Asked(n)
  PROVE  Informed(n, c)'
BY DEF Informed

\* The cluster agent sends node n a message, and changes what it believes of this node.
LEMMA NodeTold ==
  ASSUME TypeOK, KnowledgeInv, NEW n \in Nodes, NEW m \in Messages,
         inbox' = [inbox EXCEPT ![n] = Append(@, m)], UNCHANGED <<active, forgotten>>,
         \A k \in Nodes \ {n} : /\ nodes_state'[k] = nodes_state[k] /\ (Asked(k)' <=> Asked(k))
                                /\ \A d \in Comps : <<d, k>> \in untold' <=> <<d, k>> \in untold,
         \A d \in Comps : <<d, n>> \notin untold' =>
            IF Names(m, d) THEN Adds(m, d) <=> d \in nodes_state'[n].comps
            ELSE /\ <<d, n>> \notin untold
                 /\ d \in nodes_state'[n].comps <=> d \in nodes_state[n].comps
                 /\ d \notin nodes_state[n].comps \/ (Asked(n)' <=> Asked(n))
  PROVE  NodesAreInformed'
<1> SUFFICES ASSUME ~forgotten, NEW k \in Nodes, NEW d \in Comps, <<d, k>> \notin untold'
             PROVE  Informed(k, d)'
  BY DEF NodesAreInformed
<1>1. /\ inbox'[n] = Append(inbox[n], m) /\ \A j \in Nodes \ {n} : inbox'[j] = inbox[j]
      /\ inbox[n] \in Seq(Messages)
  BY TellTypes DEF TypeOK
<1>2. CASE k # n
  <2>1. Informed(k, d)
    BY <1>2 DEF KnowledgeInv, NodesAreInformed
  <2> QED
    BY <1>1, <1>2, <2>1, StaysInformed
<1>3. CASE k = n /\ Names(m, d)
  <2>1. Told(inbox'[n], d) # {} /\ (LastAdds(inbox'[n], d) <=> Adds(m, d))
    BY <1>1, <1>3, ToldAppended
  <2>2. Adds(m, d) <=> d \in nodes_state'[n].comps
    BY <1>3
  <2> QED
    BY <1>3, <2>1, <2>2 DEF Informed
<1>4. CASE k = n /\ ~Names(m, d)
  <2>1. /\ Told(inbox'[n], d) = Told(inbox[n], d)
        /\ LastAdds(inbox'[n], d) <=> LastAdds(inbox[n], d)
    BY <1>1, <1>4, ToldAppended
  <2>2. /\ <<d, n>> \notin untold
        /\ d \in nodes_state'[n].comps <=> d \in nodes_state[n].comps
        /\ d \notin nodes_state[n].comps \/ (Asked(n)' <=> Asked(n))
    BY <1>4
  <2>3. Informed(n, d)
    BY <2>2 DEF KnowledgeInv, NodesAreInformed
  <2> QED
    BY <1>4, <2>1, <2>2, <2>3 DEF Informed
<1> QED
  BY <1>2, <1>3, <1>4

LEMMA NamesOf ==
  ASSUME NEW c \in Comps, NEW d \in Comps
  PROVE  /\ Names(Message("COMPONENT_PLACED", c), d) <=> c = d
         /\ Adds(Message("COMPONENT_PLACED", c), d) <=> c = d
         /\ ~Names(Message("COMPONENT_UPDATED", c), d)
         /\ Names(Message("COMPONENT_REMOVED", c), d) <=> c = d
         /\ ~Adds(Message("COMPONENT_REMOVED", c), d)
BY DEF Names, Adds, Removes, Message

States == [known : BOOLEAN, app : BOOLEAN, comps : SUBSET Comps]

LEMMA ReportKnowledge ==
  ASSUME TypeOK, KnowledgeInv, Report
  PROVE  KnowledgeInv'
<1>0. /\ nodes_state \in [Nodes -> States] /\ untold \subseteq Comps \X Nodes
      /\ answer.steps \in Seq(Steps) /\ answer.rest \in Reports
  BY DEF TypeOK, States
<1>1. UNCHANGED <<requests, active, forgotten>>
  BY DEF Report, agentVars
<1>2. \A k : Asked(k)' <=> Asked(k)
  BY <1>1 DEF Asked
<1>3. ASSUME UNCHANGED <<nodes_state, untold, inbox>> PROVE KnowledgeInv'
  BY <1>1, <1>3
  DEF KnowledgeInv, StateIsKnown, UntoldIsListed, NodesAreInformed, Informed, Asked
<1>4. CASE ReportStep
  BY <1>3, <1>4 DEF ReportStep
<1>5. CASE ReportSpec
  <2> DEFINE c == Head(answer.steps).comp
             n == Head(answer.steps).host
  <2>1. c \in Comps /\ n \in Nodes
    <3>1. Head(answer.steps) \in Steps
      BY <1>0, <1>5, Shortened DEF ReportSpec
    <3> QED
      BY <3>1 DEF Steps
  <2>2. CASE nodes_state[n].app
    <3>1. /\ nodes_state' = [nodes_state EXCEPT ![n].comps = @ \union {c}]
          /\ inbox' = [inbox EXCEPT ![n] = Append(@, Message("COMPONENT_UPDATED", c))]
          /\ untold' = IF c \in nodes_state[n].comps THEN untold ELSE untold \union {<<c, n>>}
      BY <1>5, <2>2 DEF ReportSpec, Tell
    <3> HIDE DEF c, n
    <3>2. /\ nodes_state'[n].comps = nodes_state[n].comps \union {c}
          /\ nodes_state'[n].app = nodes_state[n].app
          /\ nodes_state'[n].known = nodes_state[n].known
          /\ \A k \in Nodes \ {n} : nodes_state'[k] = nodes_state[k]
      BY <1>0, <2>1, <3>1 DEF States
    <3>3. \A k \in Nodes \ {n} : \A d \in Comps : <<d, k>> \in untold' <=> <<d, k>> \in untold
      BY <2>1, <3>1
    <3>4. /\ \A d \in Comps : <<d, n>> \in untold => <<d, n>> \in untold'
          /\ c \notin nodes_state[n].comps => <<c, n>> \in untold'
          /\ \A d \in Comps : <<d, n>> \in untold' => <<d, n>> \in untold \/ d = c
      BY <2>1, <3>1
    <3>5. StateIsKnown'
      BY <2>2, <3>2 DEF KnowledgeInv, StateIsKnown
    <3>6. UntoldIsListed'
      <4> SUFFICES ASSUME NEW k \in Nodes, NEW d \in Comps, <<d, k>> \in untold'
                   PROVE  d \in nodes_state'[k].comps
        BY DEF UntoldIsListed
      <4> QED
        BY <3>2, <3>3, <3>4 DEF KnowledgeInv, UntoldIsListed
    <3>7. NodesAreInformed'
      <4>1. \A d \in Comps : <<d, n>> \notin untold' =>
              /\ ~Names(Message("COMPONENT_UPDATED", c), d)
              /\ <<d, n>> \notin untold
              /\ d \in nodes_state'[n].comps <=> d \in nodes_state[n].comps
        BY <2>1, <3>2, <3>4, NamesOf
      <4> QED
        BY <1>1, <1>2, <2>1, <3>1, <3>2, <3>3, <4>1, NodeTold, MessageTypes
    <3> QED
      BY <3>5, <3>6, <3>7 DEF KnowledgeInv
  <2>3. CASE ~nodes_state[n].app
    BY <1>3, <1>5, <2>3 DEF ReportSpec
  <2> QED
    BY <2>2, <2>3
<1>6. CASE ReportPlaced
  <2> DEFINE c == Head(Head(answer.rest)).comp
             n == Head(Head(answer.rest)).host
  <2>1. c \in Comps /\ n \in Nodes
    BY <1>0, <1>6, PodTypes DEF ReportPlaced, Pods
  <2>2. /\ nodes_state' = [nodes_state EXCEPT ![n] =
                             [known |-> TRUE, app |-> TRUE, comps |-> @.comps \union {c}]]
        /\ inbox' = [inbox EXCEPT ![n] = Append(@, Message("COMPONENT_PLACED", c))]
        /\ untold' = untold \ {<<c, n>>}
    BY <1>6 DEF ReportPlaced, Tell
  <2> HIDE DEF c, n
  <2>3. /\ nodes_state'[n] = [known |-> TRUE, app |-> TRUE,
                               comps |-> nodes_state[n].comps \union {c}]
        /\ \A k \in Nodes \ {n} : nodes_state'[k] = nodes_state[k]
    BY <1>0, <2>1, <2>2
  <2>4. /\ \A k \in Nodes \ {n} : \A d \in Comps : <<d, k>> \in untold' <=> <<d, k>> \in untold
        /\ \A d \in Comps : <<d, n>> \in untold' <=> <<d, n>> \in untold /\ d # c
    BY <2>1, <2>2
  <2>5. StateIsKnown'
    BY <2>3 DEF KnowledgeInv, StateIsKnown
  <2>6. UntoldIsListed'
    <3> SUFFICES ASSUME NEW k \in Nodes, NEW d \in Comps, <<d, k>> \in untold'
                 PROVE  d \in nodes_state'[k].comps
      BY DEF UntoldIsListed
    <3> QED
      BY <2>3, <2>4 DEF KnowledgeInv, UntoldIsListed
  <2>7. NodesAreInformed'
    <3>1. \A d \in Comps : <<d, n>> \notin untold' =>
            IF Names(Message("COMPONENT_PLACED", c), d)
            THEN Adds(Message("COMPONENT_PLACED", c), d) <=> d \in nodes_state'[n].comps
            ELSE /\ <<d, n>> \notin untold
                 /\ d \in nodes_state'[n].comps <=> d \in nodes_state[n].comps
      BY <2>1, <2>3, <2>4, NamesOf
    <3>2. Message("COMPONENT_PLACED", c) \in Messages
      BY <2>1, MessageTypes
    <3>3. UNCHANGED <<active, forgotten>>
      BY <1>1
    <3> QED
      BY <1>2, <2>1, <2>2, <2>3, <2>4, <3>1, <3>2, <3>3, NodeTold
  <2> QED
    BY <2>5, <2>6, <2>7 DEF KnowledgeInv
<1>7. CASE ReportRemoved
  <2> DEFINE c == Head(Head(answer.rest)).comp
             n == Head(Head(answer.rest)).host
  <2>1. c \in Comps /\ n \in Nodes
    BY <1>0, <1>7, PodTypes DEF ReportRemoved, Pods
  <2>2. /\ nodes_state' = [nodes_state EXCEPT ![n].comps = @ \ {c}]
        /\ inbox' = [inbox EXCEPT ![n] = Append(@, Message("COMPONENT_REMOVED", c))]
        /\ untold' = untold \ {<<c, n>>}
    BY <1>7 DEF ReportRemoved, Tell
  <2> HIDE DEF c, n
  <2>3. /\ nodes_state'[n].comps = nodes_state[n].comps \ {c}
        /\ nodes_state'[n].app = nodes_state[n].app
        /\ nodes_state'[n].known = nodes_state[n].known
        /\ \A k \in Nodes \ {n} : nodes_state'[k] = nodes_state[k]
    BY <1>0, <2>1, <2>2 DEF States
  <2>4. /\ \A k \in Nodes \ {n} : \A d \in Comps : <<d, k>> \in untold' <=> <<d, k>> \in untold
        /\ \A d \in Comps : <<d, n>> \in untold' <=> <<d, n>> \in untold /\ d # c
    BY <2>1, <2>2
  <2>5. StateIsKnown'
    BY <2>3 DEF KnowledgeInv, StateIsKnown
  <2>6. UntoldIsListed'
    <3> SUFFICES ASSUME NEW k \in Nodes, NEW d \in Comps, <<d, k>> \in untold'
                 PROVE  d \in nodes_state'[k].comps
      BY DEF UntoldIsListed
    <3> QED
      BY <2>3, <2>4 DEF KnowledgeInv, UntoldIsListed
  <2>7. NodesAreInformed'
    <3>1. \A d \in Comps : <<d, n>> \notin untold' =>
            IF Names(Message("COMPONENT_REMOVED", c), d)
            THEN Adds(Message("COMPONENT_REMOVED", c), d) <=> d \in nodes_state'[n].comps
            ELSE /\ <<d, n>> \notin untold
                 /\ d \in nodes_state'[n].comps <=> d \in nodes_state[n].comps
      BY <2>1, <2>3, <2>4, NamesOf
    <3>2. Message("COMPONENT_REMOVED", c) \in Messages
      BY <2>1, MessageTypes
    <3>3. UNCHANGED <<active, forgotten>>
      BY <1>1
    <3> QED
      BY <1>2, <2>1, <2>2, <2>3, <2>4, <3>1, <3>2, <3>3, NodeTold
  <2> QED
    BY <2>5, <2>6, <2>7 DEF KnowledgeInv
<1> QED
  BY <1>4, <1>5, <1>6, <1>7 DEF Report

\* With the application every node is told of the removal of what it was believed to run.
LEMMA OnAppDeletedKnowledge ==
  ASSUME TypeOK, KnowledgeInv, OnAppDeleted
  PROVE  KnowledgeInv'
<1>0. nodes_state \in [Nodes -> States] /\ inbox \in [Nodes -> Seq(Messages)]
  BY DEF TypeOK, States
<1>1. UNCHANGED <<requests, active, forgotten>>
  BY DEF OnAppDeleted, agentVars
<1>2. CASE UNCHANGED <<inbox, nodes_state, untold>>
  BY <1>1, <1>2
  DEF KnowledgeInv, StateIsKnown, UntoldIsListed, NodesAreInformed, Informed, Asked
<1>3. CASE /\ inbox' = [n \in Nodes |-> inbox[n] \o RemovalsFrom(n)]
           /\ nodes_state' = [n \in Nodes |-> [nodes_state[n] EXCEPT !.app = FALSE, !.comps = {}]]
           /\ untold' = {}
  <2>1. \A n \in Nodes : /\ nodes_state'[n].comps = {} /\ nodes_state'[n].app = FALSE
                         /\ nodes_state'[n].known = nodes_state[n].known
    BY <1>0, <1>3 DEF States
  <2>2. StateIsKnown' /\ UntoldIsListed'
    BY <1>3, <2>1 DEF StateIsKnown, UntoldIsListed
  <2>3. ASSUME ~forgotten, NEW n \in Nodes, NEW c \in Comps PROVE Informed(n, c)'
    <3> DEFINE r == RemovalsFrom(n)
    <3>1. /\ r \in Seq(Messages)
          /\ \A i \in DOMAIN r : \E d \in nodes_state[n].comps : r[i] = Message("COMPONENT_REMOVED", d)
          /\ \A d \in nodes_state[n].comps :
               \E i \in DOMAIN r : r[i] = Message("COMPONENT_REMOVED", d)
          /\ inbox'[n] = inbox[n] \o r /\ inbox[n] \in Seq(Messages)
          /\ nodes_state[n].comps \subseteq Comps
      BY <1>0, <1>3, Removals DEF States
    <3> HIDE DEF r
    <3>2. \A i \in DOMAIN r : ~Adds(r[i], c)
      BY <3>1, NamesOf
    <3>3. Told(r, c) = {} <=> c \notin nodes_state[n].comps
      BY <3>1, NamesOf DEF Told
    <3>4. /\ Told(r, c) = {} => /\ Told(inbox'[n], c) = Told(inbox[n], c)
                                /\ LastAdds(inbox'[n], c) <=> LastAdds(inbox[n], c)
          /\ Told(r, c) # {} => Told(inbox'[n], c) # {} /\ ~LastAdds(inbox'[n], c)
      <4>1. PICK q \in Seq(Messages) : q = inbox[n]
        BY <3>1
      <4>2. /\ Told(r, c) = {} => /\ Told(q \o r, c) = Told(q, c)
                                  /\ LastAdds(q \o r, c) <=> LastAdds(q, c)
            /\ Told(r, c) # {} => Told(q \o r, c) # {} /\ ~LastAdds(q \o r, c)
        BY <3>1, <3>2, ToldRemovals
      <4> QED
        BY <3>1, <4>1, <4>2
    <3>5. CASE c \in nodes_state[n].comps
      BY <2>1, <3>3, <3>4, <3>5 DEF Informed
    <3>6. CASE c \notin nodes_state[n].comps
      <4>1. Informed(n, c)
        BY <2>3, <3>6 DEF KnowledgeInv, UntoldIsListed, NodesAreInformed
      <4>2. Asked(n)' <=> Asked(n)
        BY <1>1 DEF Asked
      <4> QED
        BY <1>1, <2>1, <3>3, <3>4, <3>6, <4>1, <4>2, StaysInformed
    <3> QED
      BY <3>5, <3>6
  <2> QED
    BY <1>1, <2>2, <2>3 DEF KnowledgeInv, NodesAreInformed
<1> QED
  BY <1>2, <1>3 DEF OnAppDeleted

\* A node that asks is told all that it is believed to run.
LEMMA OnSyncRequestKnowledge ==
  ASSUME TypeOK, KnowledgeInv, OnSyncRequest
  PROVE  KnowledgeInv'
<1> DEFINE n == Head(requests)
           m == [event |-> "NODE_STATE_SYNC", app |-> nodes_state[n].app,
                 comps |-> nodes_state[n].comps]
<1>0. /\ requests \in Seq(Nodes) /\ requests # << >> /\ requests' = Tail(requests) /\ n \in Nodes
      /\ nodes_state \in [Nodes -> States]
  BY Shortened DEF OnSyncRequest, TypeOK, States
<1>1. /\ UNCHANGED <<nodes_state, active, forgotten>>
      /\ untold' = {p \in untold : p[2] # n}
      /\ nodes_state[n].known => inbox' = [inbox EXCEPT ![n] = Append(@, m)]
      /\ ~nodes_state[n].known => inbox' = inbox
  BY DEF OnSyncRequest, agentVars
<1>2. m \in Messages
  BY <1>0 DEF States, Messages
<1>3. \A d \in Comps : /\ Adds(m, d) <=> nodes_state[n].app /\ d \in nodes_state[n].comps
                       /\ ~Removes(m, d)
  BY DEF Adds, Removes
<1> HIDE DEF m
<1>4. \A k \in Nodes \ {n} : Asked(k)' <=> Asked(k)
  <2> SUFFICES ASSUME NEW k \in Nodes \ {n} PROVE Asked(k)' <=> Asked(k)
    OBVIOUS
  <2>1. /\ DOMAIN requests = 1..Len(requests) /\ DOMAIN requests' = 1..(Len(requests) - 1)
        /\ Len(requests) \in Nat /\ requests[1] = n
        /\ \A i \in DOMAIN requests' : i + 1 \in DOMAIN requests /\ requests'[i] = requests[i + 1]
    BY <1>0, Shortened
  <2>2. ASSUME Asked(k) PROVE Asked(k)'
    <3>1. PICK i \in DOMAIN requests : requests[i] = k
      BY <2>2 DEF Asked
    <3>2. i - 1 \in DOMAIN requests' /\ (i - 1) + 1 = i
      BY <2>1, <3>1
    <3> QED
      BY <2>1, <3>1, <3>2 DEF Asked
  <2>3. ASSUME Asked(k)' PROVE Asked(k)
    BY <2>1, <2>3 DEF Asked
  <2> QED
    BY <2>2, <2>3
<1>5. /\ \A k \in Nodes \ {n} : \A d \in Comps : <<d, k>> \in untold' <=> <<d, k>> \in untold
      /\ \A d \in Comps : <<d, n>> \notin untold'
      /\ untold' \subseteq untold
  BY <1>1
<1>6. \A d \in Comps : d \notin nodes_state[n].comps => <<d, n>> \notin untold
  BY <1>0 DEF KnowledgeInv, UntoldIsListed
<1> HIDE DEF n
<1>7. StateIsKnown' /\ UntoldIsListed'
  BY <1>1, <1>5 DEF KnowledgeInv, StateIsKnown, UntoldIsListed
<1>8. CASE nodes_state[n].known
  <2>1. \A d \in Comps : IF Names(m, d) THEN Adds(m, d) <=> d \in nodes_state'[n].comps
                         ELSE d \notin nodes_state[n].comps /\ <<d, n>> \notin untold
    BY <1>0, <1>1, <1>3, <1>6 DEF Names, KnowledgeInv, StateIsKnown
  <2>2. NodesAreInformed'
    BY <1>0, <1>1, <1>2, <1>4, <1>5, <1>8, <2>1, NodeTold
  <2> QED
    BY <1>7, <2>2 DEF KnowledgeInv
<1>9. CASE ~nodes_state[n].known
  <2>1. \A d \in Comps : d \notin nodes_state[n].comps /\ <<d, n>> \notin untold
    BY <1>0, <1>6, <1>9 DEF KnowledgeInv, StateIsKnown
  <2>2. ASSUME ~forgotten, NEW k \in Nodes, NEW d \in Comps, <<d, k>> \notin untold'
        PROVE  Informed(k, d)'
    <3>1. Informed(k, d)
      BY <1>5, <2>1, <2>2 DEF KnowledgeInv, NodesAreInformed
    <3> QED
      BY <1>1, <1>4, <1>9, <2>1, <3>1 DEF Informed
  <2> QED
    BY <1>1, <1>7, <2>2 DEF KnowledgeInv, NodesAreInformed
<1> QED
  BY <1>8, <1>9

\* What a node makes of the message it takes: it lists what the message adds, does not
\* list what it removes, and leaves the others.
LEMMA NodeListens ==
  ASSUME TypeOK, AnalysisInv, NEW n \in Nodes, NodeListener(n)
  PROVE  /\ inbox[n] \in Seq(Messages) /\ inbox[n] # << >> /\ inbox'[n] = Tail(inbox[n])
         /\ \A k \in Nodes \ {n} : inbox'[k] = inbox[k] /\ active'[k] = active[k]
         /\ \A c \in Comps : /\ Adds(Head(inbox[n]), c) => c \in active'[n].comps
                             /\ Removes(Head(inbox[n]), c) => c \notin active'[n].comps
                             /\ ~Names(Head(inbox[n]), c) =>
                                  (c \in active'[n].comps <=> c \in active[n].comps)
<1> DEFINE m == Head(inbox[n])
<1>1. PICK e : Receive(n, e)
  BY DEF NodeListener, OnPlaced, OnUpdated, OnRemoved, OnSync
<1>2. /\ inbox[n] \in Seq(Messages) /\ inbox[n] # << >> /\ inbox'[n] = Tail(inbox[n])
      /\ \A k \in Nodes \ {n} : inbox'[k] = inbox[k]
      /\ m \in Messages /\ m.event = e
  BY <1>1, TakeMessage
<1>3. /\ m.event = "NODE_STATE_SYNC" => m.comps \in SUBSET Comps
      /\ m.event # "NODE_STATE_SYNC" => m.comp \in Comps
  BY <1>2, MessageFields
<1> SUFFICES /\ \A k \in Nodes \ {n} : active'[k] = active[k]
             /\ \A c \in Comps : /\ Adds(m, c) => c \in active'[n].comps
                                 /\ Removes(m, c) => c \notin active'[n].comps
                                 /\ ~Names(m, c) => (c \in active'[n].comps <=> c \in active[n].comps)
  BY <1>2
<1>4. CASE OnPlaced(n)
  <2>1. m.event = "COMPONENT_PLACED" /\ Place(n, {m.comp})
    BY <1>4 DEF OnPlaced, Receive
  <2>2. {m.comp} \in SUBSET Comps
    BY <1>3, <2>1
  <2>3. /\ active'[n].comps = active[n].comps \union {m.comp}
        /\ \A k \in Nodes \ {n} : active'[k] = active[k]
    BY <2>1, <2>2, PlaceEffect
  <2> QED
    BY <2>1, <2>3 DEF Adds, Removes, Names
<1>5. CASE OnUpdated(n)
  BY <1>5 DEF OnUpdated, Receive, Adds, Removes, Names
<1>6. CASE OnRemoved(n)
  <2>1. m.event = "COMPONENT_REMOVED"
    BY <1>6 DEF OnRemoved, Receive
  <2>2. PICK d : d = m.comp
    OBVIOUS
  <2>3. /\ \A k \in Nodes \ {n} : active'[k] = active[k]
        /\ \/ ~active[n].listed /\ active' = active
           \/ active'[n].comps = active[n].comps \ {d}
    BY <1>6, <2>2, RemovedEffect
  <2>4. ~active[n].listed => active[n].comps = {}
    BY DEF AnalysisInv, AnalysisOfNodes, AnalysisOf
  <2>5. active'[n].comps = active[n].comps \ {d}
    BY <2>3, <2>4
  <2> QED
    BY <2>1, <2>2, <2>3, <2>5 DEF Adds, Removes, Names
<1>7. CASE OnSync(n)
  <2>1. m.event = "NODE_STATE_SYNC"
    BY <1>7 DEF OnSync, Receive
  <2>2. CASE m.app /\ m.comps # {}
    <3>1. Place(n, m.comps) /\ m.comps \in SUBSET Comps
      BY <1>3, <1>7, <2>1, <2>2 DEF OnSync
    <3>2. /\ active'[n].comps = active[n].comps \union m.comps
          /\ \A k \in Nodes \ {n} : active'[k] = active[k]
      BY <3>1, PlaceEffect
    <3> QED
      BY <2>1, <2>2, <3>2 DEF Adds, Removes, Names
  <2>3. CASE ~(m.app /\ m.comps # {})
    <3>1. active' = active
      BY <1>7, <2>3 DEF OnSync
    <3> QED
      BY <2>1, <2>3, <3>1 DEF Adds, Removes, Names
  <2> QED
    BY <2>2, <2>3
<1> QED
  BY <1>4, <1>5, <1>6, <1>7 DEF NodeListener

LEMMA NodeListenerKnowledge ==
  ASSUME TypeOK, AnalysisInv, KnowledgeInv, NEW n \in Nodes, NodeListener(n)
  PROVE  KnowledgeInv'
<1>1. UNCHANGED <<nodes_state, untold, requests, forgotten>>
  BY DEF NodeListener, OnPlaced, OnUpdated, OnRemoved, OnSync, Receive, clusterVars, agentVars
<1>2. \A k : Asked(k)' <=> Asked(k)
  BY <1>1 DEF Asked
<1>3. StateIsKnown' /\ UntoldIsListed'
  BY <1>1 DEF KnowledgeInv, StateIsKnown, UntoldIsListed
<1>4. ASSUME ~forgotten, NEW k \in Nodes, NEW c \in Comps, <<c, k>> \notin untold
      PROVE  Informed(k, c)'
  <2>1. Informed(k, c)
    BY <1>4 DEF KnowledgeInv, NodesAreInformed
  <2>2. CASE k # n
    BY <1>1, <1>2, <2>1, <2>2, NodeListens, StaysInformed
  <2>3. CASE k = n
    <3> DEFINE q == inbox[n]
    <3>1. /\ q \in Seq(Messages) /\ q # << >> /\ inbox'[n] = Tail(q)
          /\ Adds(Head(q), c) => c \in active'[n].comps
          /\ Removes(Head(q), c) => c \notin active'[n].comps
          /\ ~Names(Head(q), c) => (c \in active'[n].comps <=> c \in active[n].comps)
      BY NodeListens
    <3>2. Informed(n, c)
      BY <2>1, <2>3
    <3>3. CASE Told(Tail(q), c) # {}
      <4>1. Told(q, c) # {} /\ (LastAdds(Tail(q), c) <=> LastAdds(q, c))
        BY <3>1, <3>3, ToldShortened
      <4> QED
        BY <1>1, <2>3, <3>1, <3>2, <3>3, <4>1 DEF Informed
    <3>4. CASE Told(Tail(q), c) = {} /\ Names(Head(q), c)
      <4>1. Told(q, c) # {} /\ (LastAdds(q, c) <=> Adds(Head(q), c))
        BY <3>1, <3>4, ToldShortened
      <4>2. Adds(Head(q), c) <=> c \in active'[n].comps
        BY <3>1, <3>4 DEF Names
      <4> QED
        BY <1>1, <2>3, <3>1, <3>2, <3>4, <4>1, <4>2 DEF Informed
    <3>5. CASE Told(Tail(q), c) = {} /\ ~Names(Head(q), c)
      <4>1. Told(q, c) = {}
        BY <3>1, <3>5, ToldShortened
      <4> QED
        BY <1>1, <1>2, <2>3, <3>1, <3>2, <3>5, <4>1 DEF Informed
    <3> QED
      BY <3>3, <3>4, <3>5
  <2> QED
    BY <2>2, <2>3
<1> QED
  BY <1>1, <1>3, <1>4 DEF KnowledgeInv, NodesAreInformed

\* A node that restarts asks, and what is left of its queue are the later messages.
LEMMA NodeRestartsKnowledge ==
  ASSUME TypeOK, KnowledgeInv, NEW n \in Nodes, NodeRestarts(n)
  PROVE  KnowledgeInv'
<1>0. /\ inbox \in [Nodes -> Seq(Messages)] /\ requests \in Seq(Nodes) /\ DOMAIN active = Nodes
  BY DEF TypeOK
<1>1. /\ UNCHANGED <<nodes_state, untold, forgotten>> /\ requests' = Append(requests, n)
      /\ active' = [active EXCEPT ![n] = NoApplication]
  BY DEF NodeRestarts, clusterVars, agentVars, SyncRequest
<1>2. PICK i \in 0..Len(inbox[n]) : inbox' = [inbox EXCEPT ![n] = SubSeq(@, i + 1, Len(@))]
  BY DEF NodeRestarts
<1> DEFINE q == inbox[n]
           r == SubSeq(q, i + 1, Len(q))
<1>3. /\ q \in Seq(Messages) /\ i \in Nat
      /\ DOMAIN r = 1..(Len(q) - i) /\ \A j \in DOMAIN r : r[j] = q[j + i]
  <2> DEFINE M == Messages
  <2>1. q \in Seq(M) /\ i \in 0..Len(q)
    BY <1>0
  <2> HIDE DEF M, q
  <2>2. /\ DOMAIN r = 1..(Len(q) - i) /\ Len(q) \in Nat
        /\ \A j \in 1..(Len(q) - i) : r[j] = q[i + j]
    BY <2>1, Suffix
  <2> QED
    BY <2>1, <2>2 DEF M
<1>4. /\ inbox'[n] = r /\ active'[n].comps = {}
      /\ \A k \in Nodes \ {n} : inbox'[k] = inbox[k] /\ active'[k] = active[k]
  BY <1>0, <1>1, <1>2 DEF NoApplication
<1>5. /\ Asked(n)' /\ \A k \in Nodes \ {n} : Asked(k)' <=> Asked(k)
  <2>1. /\ DOMAIN requests = 1..Len(requests) /\ DOMAIN requests' = 1..(Len(requests) + 1)
        /\ Len(requests) \in Nat /\ requests'[Len(requests) + 1] = n
        /\ \A j \in DOMAIN requests : requests'[j] = requests[j]
    BY <1>0, <1>1, Appended
  <2>2. \A j \in DOMAIN requests' : j \in DOMAIN requests \/ requests'[j] = n
    BY <2>1
  <2>3. \A j \in DOMAIN requests : j \in DOMAIN requests'
    BY <2>1
  <2>4. Len(requests) + 1 \in DOMAIN requests'
    BY <2>1
  <2> QED
    BY <2>1, <2>2, <2>3, <2>4 DEF Asked
<1> HIDE DEF r, q
<1>6. StateIsKnown' /\ UntoldIsListed'
  BY <1>1 DEF KnowledgeInv, StateIsKnown, UntoldIsListed
<1>7. ASSUME ~forgotten, NEW k \in Nodes, NEW c \in Comps, <<c, k>> \notin untold
      PROVE  Informed(k, c)'
  <2>1. Informed(k, c)
    BY <1>7 DEF KnowledgeInv, NodesAreInformed
  <2>2. CASE k # n
    BY <1>1, <1>4, <1>5, <2>1, <2>2, StaysInformed
  <2>3. CASE k = n /\ Told(r, c) # {}
    <3>1. Told(q, c) # {} /\ (LastAdds(r, c) <=> LastAdds(q, c))
      BY <1>3, <2>3, ToldLater
    <3> QED
      BY <1>1, <1>4, <2>1, <2>3, <3>1 DEF Informed, q
  <2>4. CASE k = n /\ Told(r, c) = {}
    BY <1>4, <1>5, <2>4 DEF Informed
  <2> QED
    BY <2>2, <2>3, <2>4
<1> QED
  BY <1>1, <1>6, <1>7 DEF KnowledgeInv, NodesAreInformed

LEMMA KnowledgeInvariant == Spec => [](TypeOK /\ AnalysisInv /\ KnowledgeInv)
<1>1. Init => KnowledgeInv
  <2> SUFFICES ASSUME Init PROVE KnowledgeInv
    OBVIOUS
  <2>1. \A n \in Nodes : /\ inbox[n] = << >> /\ active[n].comps = {} /\ nodes_state[n].comps = {}
                         /\ nodes_state[n].app = FALSE
    BY DEF Init, Unknown, NoApplication
  <2>2. \A c : Told(<< >>, c) = {}
    BY DEF Told
  <2>3. \A n \in Nodes : \A c \in Comps : Informed(n, c)
    BY <2>1, <2>2 DEF Informed
  <2> QED
    BY <2>1, <2>3
    DEF Init, KnowledgeInv, StateIsKnown, UntoldIsListed, NodesAreInformed
<1>2. TypeOK /\ AnalysisInv /\ KnowledgeInv /\ [Next]_vars => KnowledgeInv'
  <2> SUFFICES ASSUME TypeOK, AnalysisInv, KnowledgeInv, [Next]_vars PROVE KnowledgeInv'
    OBVIOUS
  <2>1. ASSUME UNCHANGED <<inbox, active, nodes_state, requests, untold, forgotten>>
        PROVE  KnowledgeInv'
    BY <2>1
    DEF KnowledgeInv, StateIsKnown, UntoldIsListed, NodesAreInformed, Informed, Asked
  <2>2. CASE Fluidity \/ OnAppCreated \/ OnPlanExecuted \/ UNCHANGED vars
    BY <2>1, <2>2
    DEF Fluidity, CreateApp, DeleteApp, PlanSucceeds, PlanFails, OnAppCreated, OnPlanExecuted,
        vars, fluidityVars, clusterVars, nodeVars, boundVars, agentVars
  <2>3. ASSUME NEW a \in Agents, AddInterval(a) \/ OtherApplication(a) PROVE KnowledgeInv'
    BY <2>1, <2>3, AddedController, SharedController
  <2>4. CASE ClusterRestarts
    <3>1. /\ forgotten' /\ untold' = {}
          /\ \A n \in Nodes : nodes_state'[n].comps = {} /\ nodes_state'[n].app = FALSE
      BY <2>4 DEF ClusterRestarts, Unknown
    <3> QED
      BY <3>1 DEF KnowledgeInv, StateIsKnown, UntoldIsListed, NodesAreInformed
  <2> QED
    BY <2>2, <2>3, <2>4, ReportKnowledge, OnAppDeletedKnowledge, OnSyncRequestKnowledge,
       NodeListenerKnowledge, NodeRestartsKnowledge DEF Next, ClusterListener
<1> QED
  BY <1>1, <1>2, AnalysisInvariant, PTL DEF Spec

\* A node with nothing left to handle knows exactly the components that the cluster agent
\* believes to run there, whatever was lost when nodes restarted: by the messages that
\* are left in its queue, or by the answer to the request it sent.
THEOREM NodesAgree == Spec => []NodeAgreesWithCluster
<1>1. KnowledgeInv => NodeAgreesWithCluster
  <2> SUFFICES ASSUME KnowledgeInv, NEW n \in Nodes, NEW c \in Comps, inbox[n] = << >>, ~forgotten,
                      \A i \in DOMAIN requests : requests[i] # n, <<c, n>> \notin untold
               PROVE  c \in active[n].comps <=> c \in nodes_state[n].comps
    BY DEF NodeAgreesWithCluster
  <2>1. Informed(n, c)
    BY DEF KnowledgeInv, NodesAreInformed
  <2>2. Told(inbox[n], c) = {} /\ ~Asked(n)
    BY DEF Told, Asked
  <2> QED
    BY <2>1, <2>2 DEF Informed
<1> QED
  BY <1>1, KnowledgeInvariant, PTL

-----------------------------------------------------------------------------
(* The cluster agent and the pods. *)

Believed == {p \in Comps \X Nodes : p[1] \in nodes_state[p[2]].comps}

\* The components and nodes a report says are placed, or removed.
Entry(p, e) == [comp |-> p[1], event |-> e, host |-> p[2]]

Listed(q, e) ==
  {p \in Comps \X Nodes : \E i \in DOMAIN q : \E k \in DOMAIN q[i] : q[i][k] = Entry(p, e)}

Applied(q, S) == (S \ Listed(q, "removed")) \union Listed(q, "placed")

\* What a report has still to change in S.
Undone(q, S) == (Listed(q, "removed") \intersect S) \union (Listed(q, "placed") \ S)

\* No pod is removed twice.
Once(q) ==
  \A i, j \in DOMAIN q : \A k \in DOMAIN q[i], l \in DOMAIN q[j] :
    q[i][k] = q[j][l] /\ q[i][k].event = "removed" => i = j /\ k = l

\* A change_spec is about a component that stays where it is.
Known(steps, S) ==
  \A i \in DOMAIN steps : steps[i].action = "change_spec" => <<steps[i].comp, steps[i].host>> \in S

\* Some step goes over the pods of the answer.
Full(steps) == \E i \in DOMAIN steps : steps[i].action # "change_spec"

Fits(steps, q, S) ==
  /\ Once(q) /\ Listed(q, "removed") \intersect Listed(q, "placed") = {}
  /\ Known(steps, S \intersect Listed(q, "placed"))

\* The steps to come will tell of everything, and no KeyError cuts them short before.
Complete(steps, q, S) ==
  Undone(q, S) = {} \/ (Listed(q, "removed") \subseteq S /\ Full(steps))

\* What is left of the answer tells of all that is still to change.
AnswerFits ==
  LET q == answer.report
      rest == answer.rest
  IN  /\ Fits(answer.steps, q, Believed)
      /\ Once(rest)
      /\ \A e \in {"placed", "removed"} : Listed(rest, e) \subseteq Listed(q, e)
      /\ rest = << >> => Complete(answer.steps, q, Believed)
      /\ rest # << >> =>
           /\ Undone(q, Believed) \subseteq Listed(rest, "placed") \union Listed(rest, "removed")
           /\ Undone(q, Believed) = {} \/ Listed(rest, "removed") \subseteq Believed

\* What an event makes of the pods S that the cluster agent believes in.
Leads(e, S, T) ==
  \/ e.event = "APP_CREATED" /\ T = S
  \/ e.event = "APP_DELETED" /\ T = {}
  \/ /\ e.event = "PLAN_EXECUTED" /\ T = Applied(e.report, S)
     /\ e.report # << >> => Fits(e.plan, e.report, S) /\ Complete(e.plan, e.report, S)

\* What the events of a queue make of S is T.
Arrives(q, S, T) ==
  \E v \in [0..Len(q) -> SUBSET (Comps \X Nodes)] :
    /\ v[0] = S /\ v[Len(q)] = T
    /\ \A i \in DOMAIN q : Leads(q[i], v[i - 1], v[i])

\* The answer at hand and the queue make what runs of what the cluster agent believes.
PodsArrive ==
  unreported \/ Cluster \in stuck
    \/ (AnswerFits /\ Arrives(events, Applied(answer.report, Believed), pods))

-----------------------------------------------------------------------------

LEMMA ArrivesAppended ==
  ASSUME NEW q \in Seq(Events), NEW e \in Events, NEW S, NEW T,
         NEW U \in SUBSET (Comps \X Nodes), Arrives(q, S, T), Leads(e, T, U)
  PROVE  Arrives(Append(q, e), S, U)
<1> DEFINE D == SUBSET (Comps \X Nodes)
<1> HIDE DEF D
<1>0. U \in D
  BY DEF D
<1>1. PICK v \in [0..Len(q) -> D] :
        v[0] = S /\ v[Len(q)] = T /\ \A i \in DOMAIN q : Leads(q[i], v[i - 1], v[i])
  BY DEF Arrives, D
<1> DEFINE k == Len(q)
           u == [i \in 0..(k + 1) |-> IF i = k + 1 THEN U ELSE v[i]]
<1>2. /\ k \in Nat /\ Len(Append(q, e)) = k + 1 /\ DOMAIN q = 1..k
      /\ DOMAIN Append(q, e) = 1..(k + 1)
      /\ \A i \in DOMAIN q : Append(q, e)[i] = q[i]
      /\ Append(q, e)[k + 1] = e
  BY Appended
<1>3. /\ u \in [0..(k + 1) -> D] /\ u[k + 1] = U
      /\ \A i \in 0..k : u[i] = v[i]
  BY <1>0, <1>1, <1>2
<1> HIDE DEF u
<1>4. u[0] = S /\ u[k + 1] = U /\ u[k] = T
  BY <1>1, <1>2, <1>3
<1>5. ASSUME NEW i \in 1..(k + 1) PROVE Leads(Append(q, e)[i], u[i - 1], u[i])
  <2>1. CASE i = k + 1
    <3>1. u[i] = U /\ i - 1 = k /\ u[k] = T /\ Append(q, e)[i] = e
      BY <1>2, <1>3, <1>4, <2>1
    <3> QED
      BY <3>1
  <2>2. CASE i # k + 1
    <3>1. i \in 1..k /\ i - 1 \in 0..k /\ i \in 0..k
      BY <1>2, <2>2
    <3>2. u[i] = v[i] /\ u[i - 1] = v[i - 1] /\ Append(q, e)[i] = q[i]
      BY <1>2, <1>3, <3>1
    <3> QED
      BY <1>1, <1>2, <3>1, <3>2
  <2> QED
    BY <2>1, <2>2
<1> QED
  <2>1. /\ u \in [0..Len(Append(q, e)) -> D] /\ u[0] = S /\ u[Len(Append(q, e))] = U
        /\ \A i \in DOMAIN Append(q, e) : Leads(Append(q, e)[i], u[i - 1], u[i])
    BY <1>2, <1>3, <1>4, <1>5
  <2> QED
    BY <2>1, Zenon DEF Arrives, D

LEMMA ArrivesShortened ==
  ASSUME NEW q \in Seq(Events), q # << >>, NEW S, NEW T, Arrives(q, S, T)
  PROVE  \E U \in SUBSET (Comps \X Nodes) : Leads(Head(q), S, U) /\ Arrives(Tail(q), U, T)
<1> DEFINE D == SUBSET (Comps \X Nodes)
<1> HIDE DEF D
<1>1. PICK v \in [0..Len(q) -> D] :
        v[0] = S /\ v[Len(q)] = T /\ \A i \in DOMAIN q : Leads(q[i], v[i - 1], v[i])
  BY DEF Arrives, D
<1> DEFINE k == Len(q)
           u == [i \in 0..(k - 1) |-> v[i + 1]]
<1>2. /\ k \in Nat /\ k > 0 /\ Len(Tail(q)) = k - 1 /\ DOMAIN q = 1..k /\ 1 \in DOMAIN q
      /\ DOMAIN Tail(q) = 1..(k - 1) /\ Head(q) = q[1]
      /\ \A i \in DOMAIN Tail(q) : i + 1 \in DOMAIN q /\ Tail(q)[i] = q[i + 1]
  BY Shortened
<1>3. /\ u \in [0..(k - 1) -> D]
      /\ \A i \in 0..(k - 1) : u[i] = v[i + 1]
  BY <1>1, <1>2
<1> HIDE DEF u
<1>4. u[0] = v[1] /\ u[k - 1] = v[k] /\ v[1] \in D
  BY <1>1, <1>2, <1>3
<1>5. ASSUME NEW i \in 1..(k - 1) PROVE Leads(Tail(q)[i], u[i - 1], u[i])
  <2>1. u[i - 1] = v[i] /\ u[i] = v[i + 1] /\ i + 1 - 1 = i
    BY <1>2, <1>3
  <2>2. Leads(q[i + 1], v[i + 1 - 1], v[i + 1])
    BY <1>1, <1>2
  <2> QED
    BY <1>2, <2>1, <2>2
<1>6. Arrives(Tail(q), v[1], T)
  <2>1. /\ u \in [0..Len(Tail(q)) -> D] /\ u[0] = v[1] /\ u[Len(Tail(q))] = T
        /\ \A i \in DOMAIN Tail(q) : Leads(Tail(q)[i], u[i - 1], u[i])
    BY <1>1, <1>2, <1>3, <1>4, <1>5
  <2> QED
    BY <2>1, Zenon DEF Arrives, D
<1>7. Leads(Head(q), S, v[1])
  <2>1. Leads(q[1], v[0], v[1])
    BY <1>1, <1>2
  <2> QED
    BY <1>1, <1>2, <2>1
<1> QED
  BY <1>4, <1>6, <1>7 DEF D

LEMMA ArrivesNothing ==
  ASSUME NEW S \in SUBSET (Comps \X Nodes), NEW T
  PROVE  Arrives(<< >>, S, T) <=> S = T
<1>1. Len(<< >>) = 0 /\ DOMAIN << >> = {}
  OBVIOUS
<1>2. ASSUME Arrives(<< >>, S, T) PROVE S = T
  BY <1>1, <1>2 DEF Arrives
<1>3. ASSUME S = T PROVE Arrives(<< >>, S, T)
  <2> DEFINE v == [i \in 0..0 |-> S]
  <2>1. v \in [0..0 -> SUBSET (Comps \X Nodes)] /\ v[0] = S
    OBVIOUS
  <2> HIDE DEF v
  <2> QED
    BY <1>1, <1>3, <2>1 DEF Arrives
<1> QED
  BY <1>2, <1>3

\* A pod of a report is the entry of its component and node.
LEMMA PodIsEntry ==
  ASSUME NEW pod \in Pods
  PROVE  /\ <<pod.comp, pod.host>> \in Comps \X Nodes
         /\ pod = Entry(<<pod.comp, pod.host>>, pod.event) /\ pod.event \in {"placed", "removed"}
BY DEF Pods, Entry

LEMMA EntriesDiffer ==
  ASSUME NEW p \in Comps \X Nodes, NEW r \in Comps \X Nodes, NEW e, NEW f,
         Entry(p, e) = Entry(r, f)
  PROVE  p = r /\ e = f
<1>1. Entry(p, e).comp = Entry(r, f).comp /\ Entry(p, e).event = Entry(r, f).event
      /\ Entry(p, e).host = Entry(r, f).host
  OBVIOUS
<1> QED
  BY <1>1 DEF Entry

\* The first pod is gone from what is left of an answer, the others are there.
LEMMA RestOfReport ==
  ASSUME NEW q \in Reports, q # << >>, NEW p \in Comps \X Nodes, NEW e,
         Head(Head(q)) = Entry(p, e)
  PROVE  /\ p \in Listed(q, e) /\ Listed(q, e) \subseteq Listed(RestOf(q), e) \union {p}
         /\ \A f : f # e => Listed(q, f) \subseteq Listed(RestOf(q), f)
         /\ \A f : Listed(RestOf(q), f) \subseteq Listed(q, f)
         /\ Once(q) => Once(RestOf(q)) /\ (e = "removed" => p \notin Listed(RestOf(q), e))
<1> DEFINE r == RestOf(q)
<1>1. /\ DOMAIN q = 1..Len(q) /\ Len(q) \in Nat /\ Len(q) > 0 /\ Head(q) = q[1]
      /\ \A i \in DOMAIN q : DOMAIN q[i] = 1..Len(q[i]) /\ Len(q[i]) \in Nat /\ Len(q[i]) > 0
      /\ q[1][1] = Entry(p, e)
  <2> DEFINE P == Pods
             R == Seq(P) \ {<< >>}
  <2>1. q \in Seq(R)
    BY DEF Reports
  <2> HIDE DEF P
  <2>2. \A x \in R : DOMAIN x = 1..Len(x) /\ Len(x) \in Nat /\ Len(x) > 0 /\ Head(x) = x[1]
    BY Shortened
  <2> HIDE DEF R
  <2>3. /\ DOMAIN q = 1..Len(q) /\ Len(q) \in Nat /\ Len(q) > 0 /\ Head(q) = q[1]
        /\ \A i \in DOMAIN q : q[i] \in R
    BY <2>1
  <2> QED
    BY <2>2, <2>3
<1>2. \/ /\ Len(q[1]) = 1 /\ DOMAIN r = 1..(Len(q) - 1)
         /\ \A i \in DOMAIN r : r[i] = q[i + 1]
      \/ /\ Len(q[1]) # 1 /\ DOMAIN r = DOMAIN q /\ DOMAIN r[1] = 1..(Len(q[1]) - 1)
         /\ \A k \in DOMAIN r[1] : r[1][k] = q[1][k + 1]
         /\ \A i \in DOMAIN q \ {1} : r[i] = q[i]
  <2> DEFINE P == Pods
             R == Seq(P) \ {<< >>}
  <2>1. q \in Seq(R)
    BY DEF Reports
  <2> HIDE DEF P
  <2>2. q[1] \in Seq(P) /\ q[1] # << >>
    <3>1. q[1] \in R
      <4> HIDE DEF R
      <4> QED
        BY <1>1, <2>1
    <3> QED
      BY <3>1
  <2> HIDE DEF R
  <2>3. CASE Len(q[1]) = 1
    <3>1. r = Tail(q)
      BY <1>1, <2>3 DEF RestOf
    <3> QED
      BY <2>1, <2>3, <3>1, Shortened, SMTT(30)
  <2>4. CASE Len(q[1]) # 1
    <3>1. r = [q EXCEPT ![1] = Tail(q[1])]
      BY <1>1, <2>4 DEF RestOf
    <3>2. /\ DOMAIN Tail(q[1]) = 1..(Len(q[1]) - 1)
          /\ \A k \in DOMAIN Tail(q[1]) : Tail(q[1])[k] = q[1][k + 1]
      BY <2>2, Shortened
    <3>3. DOMAIN r = DOMAIN q /\ r[1] = Tail(q[1]) /\ \A i \in DOMAIN q \ {1} : r[i] = q[i]
      BY <1>1, <2>1, <3>1
    <3> QED
      BY <2>4, <3>2, <3>3
  <2> QED
    BY <2>3, <2>4
<1> HIDE DEF r
<1>3. \A i \in DOMAIN r : \A k \in DOMAIN r[i] :
        \E j \in DOMAIN q : \E l \in DOMAIN q[j] : q[j][l] = r[i][k]
  <2> SUFFICES ASSUME NEW i \in DOMAIN r, NEW k \in DOMAIN r[i]
               PROVE  \E j \in DOMAIN q : \E l \in DOMAIN q[j] : q[j][l] = r[i][k]
    OBVIOUS
  <2>1. CASE Len(q[1]) = 1
    <3>1. i + 1 \in DOMAIN q /\ r[i] = q[i + 1]
      BY <1>1, <1>2, <2>1
    <3> QED
      BY <3>1
  <2>2. CASE Len(q[1]) # 1 /\ i = 1
    <3>1. k + 1 \in DOMAIN q[1] /\ r[1][k] = q[1][k + 1] /\ 1 \in DOMAIN q
      BY <1>1, <1>2, <2>2
    <3> QED
      BY <2>2, <3>1
  <2>3. CASE Len(q[1]) # 1 /\ i # 1
    BY <1>1, <1>2, <2>3
  <2> QED
    BY <2>1, <2>2, <2>3
<1>4. \A j \in DOMAIN q : \A l \in DOMAIN q[j] : (j # 1 \/ l # 1) =>
        \E i \in DOMAIN r : \E k \in DOMAIN r[i] : q[j][l] = r[i][k]
  <2> SUFFICES ASSUME NEW j \in DOMAIN q, NEW l \in DOMAIN q[j], j # 1 \/ l # 1
               PROVE  \E i \in DOMAIN r : \E k \in DOMAIN r[i] : q[j][l] = r[i][k]
    OBVIOUS
  <2>1. CASE Len(q[1]) = 1
    <3>1. j # 1
      BY <1>1, <2>1
    <3>2. j - 1 \in DOMAIN r /\ r[j - 1] = q[j]
      BY <1>1, <1>2, <2>1, <3>1
    <3> QED
      BY <3>2
  <2>2. CASE Len(q[1]) # 1 /\ j = 1
    <3>1. l - 1 \in DOMAIN r[1] /\ r[1][l - 1] = q[1][l] /\ 1 \in DOMAIN r
      BY <1>1, <1>2, <2>2
    <3> QED
      BY <2>2, <3>1
  <2>3. CASE Len(q[1]) # 1 /\ j # 1
    BY <1>1, <1>2, <2>3
  <2> QED
    BY <2>1, <2>2, <2>3
<1>5. p \in Listed(q, e)
  <2>1. 1 \in DOMAIN q /\ 1 \in DOMAIN q[1]
    BY <1>1
  <2> QED
    BY <1>1, <2>1 DEF Listed
<1>6. \A f : Listed(r, f) \subseteq Listed(q, f)
  <2> SUFFICES ASSUME NEW f, NEW s \in Listed(r, f) PROVE s \in Listed(q, f)
    OBVIOUS
  <2>1. PICK i, k : i \in DOMAIN r /\ k \in DOMAIN r[i] /\ r[i][k] = Entry(s, f)
    BY DEF Listed
  <2>2. PICK j \in DOMAIN q : \E l \in DOMAIN q[j] : q[j][l] = Entry(s, f)
    BY <1>3, <2>1
  <2> QED
    BY <2>2 DEF Listed
<1>7. ASSUME NEW f, NEW s \in Listed(q, f), s # p \/ f # e PROVE s \in Listed(r, f)
  <2>1. PICK j, l : j \in DOMAIN q /\ l \in DOMAIN q[j] /\ q[j][l] = Entry(s, f)
    BY DEF Listed
  <2>2. j # 1 \/ l # 1
    BY <1>1, <1>7, <2>1, EntriesDiffer DEF Listed
  <2>3. PICK i \in DOMAIN r : \E k \in DOMAIN r[i] : r[i][k] = Entry(s, f)
    BY <1>4, <2>1, <2>2
  <2> QED
    BY <2>3 DEF Listed
<1>8. ASSUME Once(q) PROVE Once(r)
  <2> SUFFICES ASSUME NEW i \in DOMAIN r, NEW j \in DOMAIN r, NEW k \in DOMAIN r[i],
                      NEW l \in DOMAIN r[j], r[i][k] = r[j][l], r[i][k].event = "removed"
               PROVE  i = j /\ k = l
    BY DEF Once
  <2>0. ASSUME NEW a \in DOMAIN q, NEW b \in DOMAIN q,
               NEW c \in DOMAIN q[a], NEW d \in DOMAIN q[b], q[a][c] = q[b][d], q[a][c].event = "removed"
        PROVE  a = b /\ c = d
    BY <1>8, <2>0 DEF Once
  <2>1. CASE Len(q[1]) = 1
    <3>1. /\ i + 1 \in DOMAIN q /\ j + 1 \in DOMAIN q /\ r[i] = q[i + 1] /\ r[j] = q[j + 1]
          /\ i \in Nat /\ j \in Nat
      BY <1>1, <1>2, <2>1
    <3>2. i + 1 = j + 1 /\ k = l
      BY <2>0, <3>1
    <3> QED
      BY <3>1, <3>2
  <2>2. CASE Len(q[1]) # 1
    <3> DEFINE At(a, b) == IF a = 1 THEN b + 1 ELSE b
    <3>1. ASSUME NEW a \in DOMAIN r, NEW b \in DOMAIN r[a]
          PROVE  a \in DOMAIN q /\ At(a, b) \in DOMAIN q[a] /\ r[a][b] = q[a][At(a, b)] /\ b \in Nat
      BY <1>1, <1>2, <2>2, <3>1
    <3>2. i = j /\ At(i, k) = At(j, l)
      <4> HIDE DEF At
      <4>1. /\ i \in DOMAIN q /\ At(i, k) \in DOMAIN q[i] /\ r[i][k] = q[i][At(i, k)]
            /\ j \in DOMAIN q /\ At(j, l) \in DOMAIN q[j] /\ r[j][l] = q[j][At(j, l)]
        BY <3>1
      <4>2. PICK c, d : c = At(i, k) /\ d = At(j, l)
        OBVIOUS
      <4>3. /\ i \in DOMAIN q /\ j \in DOMAIN q /\ c \in DOMAIN q[i] /\ d \in DOMAIN q[j]
            /\ q[i][c] = q[j][d] /\ q[i][c].event = "removed"
        BY <4>1, <4>2
      <4>4. i = j /\ c = d
        BY <2>0, <4>3
      <4> QED
        BY <4>2, <4>4
    <3> QED
      BY <3>1, <3>2
  <2> QED
    BY <2>1, <2>2
<1>9. ASSUME Once(q), e = "removed", p \in Listed(r, e) PROVE FALSE
  <2>1. PICK i, k : i \in DOMAIN r /\ k \in DOMAIN r[i] /\ r[i][k] = Entry(p, e)
    BY <1>9 DEF Listed
  <2>2. \E j \in DOMAIN q : \E l \in DOMAIN q[j] : q[j][l] = Entry(p, e) /\ (j # 1 \/ l # 1)
    <3>1. CASE Len(q[1]) = 1
      <4>1. i + 1 \in DOMAIN q /\ r[i] = q[i + 1] /\ i + 1 # 1
        BY <1>1, <1>2, <2>1, <3>1
      <4> QED
        BY <2>1, <4>1
    <3>2. CASE Len(q[1]) # 1 /\ i = 1
      <4>1. k + 1 \in DOMAIN q[1] /\ r[1][k] = q[1][k + 1] /\ 1 \in DOMAIN q /\ k + 1 # 1
        BY <1>1, <1>2, <2>1, <3>2
      <4> QED
        BY <2>1, <3>2, <4>1
    <3>3. CASE Len(q[1]) # 1 /\ i # 1
      BY <1>1, <1>2, <2>1, <3>3
    <3> QED
      BY <3>1, <3>2, <3>3
  <2>3. PICK j, l : j \in DOMAIN q /\ l \in DOMAIN q[j] /\ q[j][l] = Entry(p, e) /\ (j # 1 \/ l # 1)
    BY <2>2
  <2>4. 1 \in DOMAIN q /\ 1 \in DOMAIN q[1] /\ Entry(p, e).event = "removed"
    BY <1>1, <1>9 DEF Entry
  <2>5. j = 1 /\ l = 1
    BY <1>1, <1>9, <2>3, <2>4 DEF Once
  <2> QED
    BY <2>3, <2>5
<1> QED
  BY <1>5, <1>6, <1>7, <1>8, <1>9 DEF r

-----------------------------------------------------------------------------
(* The answer that is being handled. *)

LEMMA NothingListed ==
  /\ \A e : Listed(<< >>, e) = {}
  /\ \A S : Applied(<< >>, S) = S /\ Undone(<< >>, S) = {}
  /\ Once(<< >>)
<1>1. DOMAIN << >> = {}
  OBVIOUS
<1>2. \A e : Listed(<< >>, e) = {}
  BY <1>1 DEF Listed
<1>3. Once(<< >>)
  BY <1>1 DEF Once
<1> QED
  BY <1>2, <1>3 DEF Applied, Undone

LEMMA HandledFits ==
  ASSUME answer' = Handled
  PROVE  AnswerFits' /\ Applied(answer.report, Believed)' = Believed'
<1>1. answer'.steps = << >> /\ answer'.report = << >> /\ answer'.rest = << >>
  BY DEF Handled
<1>2. DOMAIN << >> = {}
  OBVIOUS
<1>3. \A S : Fits(<< >>, << >>, S) /\ Complete(<< >>, << >>, S)
  BY <1>2, NothingListed DEF Fits, Once, Known, Complete
<1> QED
  BY <1>1, <1>3, NothingListed DEF AnswerFits

\* What GoOn makes of the answer, as long as something is left of it.
LEMMA GoneOn ==
  ASSUME TypeOK, NEW steps, NEW rest, GoOn(steps, rest)
  PROVE  \/ steps = << >> /\ rest = << >> /\ answer' = Handled
         \/ /\ steps # << >> \/ rest # << >>
            /\ answer'.steps = steps /\ answer'.report = answer.report /\ answer'.rest = rest
BY DEF TypeOK, GoOn

\* A step is taken off the steps.
LEMMA StepTaken ==
  ASSUME NEW steps \in Seq(Steps), steps # << >>
  PROVE  /\ \A S : Known(steps, S) => Known(Tail(steps), S)
         /\ Head(steps).action = "change_spec" =>
              /\ Full(steps) => Full(Tail(steps))
              /\ \A S : Known(steps, S) => <<Head(steps).comp, Head(steps).host>> \in S
<1>1. /\ DOMAIN steps = 1..Len(steps) /\ DOMAIN Tail(steps) = 1..(Len(steps) - 1)
      /\ Len(steps) \in Nat /\ Head(steps) = steps[1] /\ 1 \in DOMAIN steps
      /\ \A i \in DOMAIN Tail(steps) : i + 1 \in DOMAIN steps /\ Tail(steps)[i] = steps[i + 1]
  BY Shortened
<1>2. ASSUME NEW S, Known(steps, S) PROVE Known(Tail(steps), S)
  BY <1>1, <1>2 DEF Known
<1>3. ASSUME Head(steps).action = "change_spec", Full(steps) PROVE Full(Tail(steps))
  <2>1. PICK i \in DOMAIN steps : steps[i].action # "change_spec"
    BY <1>3 DEF Full
  <2>2. i # 1
    BY <1>1, <1>3, <2>1
  <2>3. i - 1 \in DOMAIN Tail(steps) /\ Tail(steps)[i - 1] = steps[i]
    BY <1>1, <2>2
  <2> QED
    BY <2>1, <2>3 DEF Full
<1> QED
  BY <1>1, <1>2, <1>3 DEF Known

LEMMA ReportStepArrives ==
  ASSUME TypeOK, AnswerFits, ReportStep
  PROVE  AnswerFits' /\ Applied(answer.report, Believed)' = Applied(answer.report, Believed)
<1> DEFINE q == answer.report
           steps == answer.steps
           S == Believed
<1>1. /\ steps \in Seq(Steps) /\ steps # << >> /\ answer.rest = << >>
      /\ GoOn(Tail(steps), q) /\ nodes_state' = nodes_state
  BY DEF ReportStep, TypeOK
<1>2. Believed' = Believed
  BY <1>1 DEF Believed
<1>3. Fits(steps, q, S) /\ Complete(steps, q, S)
  BY <1>1 DEF AnswerFits
<1>4. CASE answer' = Handled /\ q = << >>
  BY <1>2, <1>4, HandledFits, NothingListed
<1>5. CASE /\ Tail(steps) # << >> \/ q # << >>
           /\ answer'.steps = Tail(steps) /\ answer'.report = q /\ answer'.rest = q
  <2>1. Fits(Tail(steps), q, S) /\ Once(q)
    BY <1>1, <1>3, StepTaken DEF Fits
  <2>2. Undone(q, S) \subseteq Listed(q, "placed") \union Listed(q, "removed")
    BY DEF Undone
  <2>3. Undone(q, S) = {} \/ Listed(q, "removed") \subseteq S
    BY <1>3 DEF Complete
  <2>4. q = << >> => Complete(Tail(steps), q, S)
    BY NothingListed DEF Complete
  <2> HIDE DEF q, S, steps
  <2>5. AnswerFits'
    BY <1>2, <1>5, <2>1, <2>2, <2>3, <2>4 DEF AnswerFits, S
  <2> QED
    BY <1>2, <1>5, <2>5 DEF q
<1> QED
  BY <1>1, <1>4, <1>5, GoneOn

LEMMA ReportSpecArrives ==
  ASSUME TypeOK, StateIsKnown, AnswerFits, ReportSpec
  PROVE  AnswerFits' /\ Applied(answer.report, Believed)' = Applied(answer.report, Believed)
<1> DEFINE q == answer.report
           steps == answer.steps
           S == Believed
           c == Head(steps).comp
           n == Head(steps).host
<1>1. /\ steps \in Seq(Steps) /\ steps # << >> /\ answer.rest = << >>
      /\ Head(steps).action = "change_spec" /\ nodes_state \in [Nodes -> States]
  BY DEF ReportSpec, TypeOK, States
<1>2. Fits(steps, q, S) /\ Complete(steps, q, S)
  BY <1>1 DEF AnswerFits
<1>3. <<c, n>> \in S
  BY <1>1, <1>2, StepTaken DEF Fits
<1>4. c \in Comps /\ n \in Nodes /\ c \in nodes_state[n].comps
  BY <1>3 DEF Believed
<1>5. nodes_state[n].app
  BY <1>4 DEF StateIsKnown
<1>6. /\ GoOn(Tail(steps), << >>)
      /\ nodes_state' = [nodes_state EXCEPT ![n].comps = @ \union {c}]
  BY <1>5 DEF ReportSpec
<1>7. Believed' = Believed
  <2>1. nodes_state[n].comps \union {c} = nodes_state[n].comps
    BY <1>4
  <2>2. nodes_state' = nodes_state
    BY <1>1, <1>4, <1>6, <2>1 DEF States
  <2> QED
    BY <2>2 DEF Believed
<1>8. CASE Tail(steps) = << >> /\ answer' = Handled
  <2>1. ~Full(Tail(steps))
    BY <1>8 DEF Full
  <2>2. Undone(q, S) = {}
    BY <1>1, <1>2, <2>1, StepTaken DEF Complete
  <2>3. Applied(q, S) = S
    BY <2>2 DEF Applied, Undone
  <2> QED
    BY <1>7, <1>8, <2>3, HandledFits
<1>9. CASE answer'.steps = Tail(steps) /\ answer'.report = q /\ answer'.rest = << >>
  <2>1. Fits(Tail(steps), q, S) /\ Once(<< >>)
    BY <1>1, <1>2, StepTaken, NothingListed DEF Fits
  <2>2. Complete(Tail(steps), q, S)
    BY <1>1, <1>2, StepTaken DEF Complete
  <2> HIDE DEF q, S, steps
  <2>3. AnswerFits'
    BY <1>7, <1>9, <2>1, <2>2, NothingListed DEF AnswerFits, S
  <2> QED
    BY <1>7, <1>9, <2>3 DEF q
<1> QED
  BY <1>6, <1>8, <1>9, GoneOn

\* The first pod of what is left of the answer.
LEMMA FirstPod ==
  ASSUME TypeOK, answer.rest # << >>
  PROVE  \E p \in Comps \X Nodes : \E e \in {"placed", "removed"} :
           /\ Head(Head(answer.rest)) = Entry(p, e)
           /\ Entry(p, e).comp = p[1] /\ Entry(p, e).host = p[2] /\ Entry(p, e).event = e
<1>1. answer.rest \in Reports
  BY DEF TypeOK
<1>2. PICK pod \in Pods : pod = Head(Head(answer.rest))
  BY <1>1, PodTypes
<1> QED
  BY <1>2, PodIsEntry DEF Entry

\* What the cluster agent makes of a pod.
LEMMA PlacedEffect ==
  ASSUME NEW pod, pod = Head(Head(answer.rest)), ReportPlaced
  PROVE  /\ answer.rest # << >> /\ pod.event = "placed"
         /\ nodes_state' = [nodes_state EXCEPT ![pod.host] =
                              [known |-> TRUE, app |-> TRUE, comps |-> @.comps \union {pod.comp}]]
         /\ GoOn(answer.steps, RestOf(answer.rest))
BY Zenon DEF ReportPlaced

LEMMA DroppedEffect ==
  ASSUME NEW pod, pod = Head(Head(answer.rest)), ReportRemoved
  PROVE  /\ answer.rest # << >> /\ pod.event = "removed"
         /\ nodes_state' = [nodes_state EXCEPT ![pod.host].comps = @ \ {pod.comp}]
         /\ pod.comp \in nodes_state[pod.host].comps => GoOn(answer.steps, RestOf(answer.rest))
         /\ pod.comp \notin nodes_state[pod.host].comps => answer' = Handled
BY Zenon DEF ReportRemoved, Raise

LEMMA ReportPlacedArrives ==
  ASSUME TypeOK, AnswerFits, ReportPlaced
  PROVE  AnswerFits' /\ Applied(answer.report, Believed)' = Applied(answer.report, Believed)
<1> DEFINE q == answer.report
           rest == answer.rest
           left == RestOf(rest)
           S == Believed
<1>1. /\ rest \in Reports /\ rest # << >> /\ nodes_state \in [Nodes -> States]
      /\ GoOn(answer.steps, left)
  BY PlacedEffect DEF TypeOK, States
<1>2. PICK p \in Comps \X Nodes : /\ Head(Head(rest)) = Entry(p, "placed")
                                   /\ Entry(p, "placed").comp = p[1]
                                   /\ Entry(p, "placed").host = p[2]
  <2>1. Head(Head(rest)).event = "placed"
    BY PlacedEffect
  <2> QED
    BY <1>1, <2>1, FirstPod
<1>3. nodes_state' = [nodes_state EXCEPT ![p[2]] =
                        [known |-> TRUE, app |-> TRUE, comps |-> @.comps \union {p[1]}]]
  BY <1>2, PlacedEffect
<1>4. Believed' = S \union {p}
  <2>1. p = <<p[1], p[2]>> /\ p[1] \in Comps /\ p[2] \in Nodes
    OBVIOUS
  <2>2. /\ nodes_state'[p[2]].comps = nodes_state[p[2]].comps \union {p[1]}
        /\ \A n \in Nodes : n # p[2] => nodes_state'[n].comps = nodes_state[n].comps
    BY <1>1, <1>3, <2>1
  <2> QED
    BY <2>1, <2>2 DEF Believed
<1>5. /\ Fits(answer.steps, q, S) /\ Once(rest)
      /\ Listed(rest, "placed") \subseteq Listed(q, "placed")
      /\ Listed(rest, "removed") \subseteq Listed(q, "removed")
      /\ Undone(q, S) \subseteq Listed(rest, "placed") \union Listed(rest, "removed")
      /\ Undone(q, S) = {} \/ Listed(rest, "removed") \subseteq S
  BY <1>1 DEF AnswerFits
<1>6. /\ p \in Listed(rest, "placed")
      /\ Listed(rest, "placed") \subseteq Listed(left, "placed") \union {p}
      /\ Listed(rest, "removed") = Listed(left, "removed")
      /\ Listed(left, "placed") \subseteq Listed(rest, "placed")
      /\ Once(left)
  <2>1. /\ p \in Listed(rest, "placed")
        /\ Listed(rest, "placed") \subseteq Listed(left, "placed") \union {p}
        /\ Listed(rest, "removed") \subseteq Listed(left, "removed")
        /\ \A f : Listed(left, f) \subseteq Listed(rest, f)
        /\ Once(left)
    BY <1>1, <1>2, <1>5, RestOfReport
  <2> QED
    BY <2>1
<1>7. p \in Listed(q, "placed") /\ p \notin Listed(q, "removed")
  BY <1>5, <1>6 DEF Fits
<1> DEFINE T == S \union {p}
<1>8. /\ Undone(q, T) = Undone(q, S) \ {p} /\ Applied(q, T) = Applied(q, S)
  BY <1>7 DEF Undone, Applied
<1>9. Fits(answer.steps, q, T)
  BY <1>5 DEF Fits, Known
<1>10. CASE left = << >> /\ answer' = Handled
  <2>1. Undone(q, T) = {}
    BY <1>5, <1>6, <1>8, <1>10, NothingListed
  <2>2. Applied(q, T) = T
    BY <2>1 DEF Applied, Undone
  <2> QED
    BY <1>4, <1>8, <1>10, <2>2, HandledFits
<1>11. CASE answer'.steps = answer.steps /\ answer'.report = q /\ answer'.rest = left
  <2>1. Undone(q, T) \subseteq Listed(left, "placed") \union Listed(left, "removed")
    BY <1>5, <1>6, <1>8
  <2>2. Undone(q, T) = {} \/ Listed(left, "removed") \subseteq T
    BY <1>5, <1>6, <1>8
  <2>3. left = << >> => Complete(answer.steps, q, T)
    BY <2>1, NothingListed DEF Complete
  <2>4. /\ Listed(left, "placed") \subseteq Listed(q, "placed")
        /\ Listed(left, "removed") \subseteq Listed(q, "removed")
    BY <1>5, <1>6
  <2> HIDE DEF q, S, rest, left, T
  <2>5. AnswerFits'
    BY <1>4, <1>6, <1>9, <1>11, <2>1, <2>2, <2>3, <2>4 DEF AnswerFits, T
  <2> QED
    BY <1>4, <1>8, <1>11, <2>5 DEF q, S, T
<1> QED
  BY <1>1, <1>10, <1>11, GoneOn

LEMMA ReportRemovedArrives ==
  ASSUME TypeOK, AnswerFits, ReportRemoved
  PROVE  AnswerFits' /\ Applied(answer.report, Believed)' = Applied(answer.report, Believed)
<1> DEFINE q == answer.report
           rest == answer.rest
           left == RestOf(rest)
           S == Believed
<1>1. rest \in Reports /\ rest # << >> /\ nodes_state \in [Nodes -> States]
  BY DroppedEffect DEF TypeOK, States
<1>2. PICK p \in Comps \X Nodes : /\ Head(Head(rest)) = Entry(p, "removed")
                                   /\ Entry(p, "removed").comp = p[1]
                                   /\ Entry(p, "removed").host = p[2]
  <2>1. Head(Head(rest)).event = "removed"
    BY DroppedEffect
  <2> QED
    BY <1>1, <2>1, FirstPod
<1>3. /\ nodes_state' = [nodes_state EXCEPT ![p[2]].comps = @ \ {p[1]}]
      /\ p[1] \in nodes_state[p[2]].comps => GoOn(answer.steps, left)
      /\ p[1] \notin nodes_state[p[2]].comps => answer' = Handled
  BY <1>2, DroppedEffect
<1>4. Believed' = S \ {p} /\ (p \in S <=> p[1] \in nodes_state[p[2]].comps)
  <2>1. p = <<p[1], p[2]>> /\ p[1] \in Comps /\ p[2] \in Nodes
    OBVIOUS
  <2>2. /\ nodes_state'[p[2]].comps = nodes_state[p[2]].comps \ {p[1]}
        /\ \A n \in Nodes : n # p[2] => nodes_state'[n].comps = nodes_state[n].comps
    BY <1>1, <1>3, <2>1 DEF States
  <2> QED
    BY <2>1, <2>2 DEF Believed
<1>5. /\ Fits(answer.steps, q, S) /\ Once(rest)
      /\ Listed(rest, "placed") \subseteq Listed(q, "placed")
      /\ Listed(rest, "removed") \subseteq Listed(q, "removed")
      /\ Undone(q, S) \subseteq Listed(rest, "placed") \union Listed(rest, "removed")
      /\ Undone(q, S) = {} \/ Listed(rest, "removed") \subseteq S
  BY <1>1 DEF AnswerFits
<1>6. /\ p \in Listed(rest, "removed")
      /\ Listed(rest, "removed") \subseteq Listed(left, "removed") \union {p}
      /\ Listed(rest, "placed") = Listed(left, "placed")
      /\ Listed(left, "removed") \subseteq Listed(rest, "removed")
      /\ Once(left) /\ p \notin Listed(left, "removed")
  <2>1. /\ p \in Listed(rest, "removed")
        /\ Listed(rest, "removed") \subseteq Listed(left, "removed") \union {p}
        /\ Listed(rest, "placed") \subseteq Listed(left, "placed")
        /\ \A f : Listed(left, f) \subseteq Listed(rest, f)
        /\ Once(left) /\ p \notin Listed(left, "removed")
    BY <1>1, <1>2, <1>5, RestOfReport
  <2> QED
    BY <2>1
<1>7. p \in Listed(q, "removed") /\ p \notin Listed(q, "placed")
  BY <1>5, <1>6 DEF Fits
<1> DEFINE T == S \ {p}
<1>8. /\ Undone(q, T) = Undone(q, S) \ {p} /\ Applied(q, T) = Applied(q, S)
  BY <1>7 DEF Undone, Applied
<1>9. Fits(answer.steps, q, T)
  <2>1. T \intersect Listed(q, "placed") = S \intersect Listed(q, "placed")
    BY <1>7
  <2> QED
    BY <1>5, <2>1 DEF Fits
<1>10. CASE answer' = Handled /\ (p \notin S \/ left = << >>)
  <2>1. Undone(q, T) = {}
    <3>1. CASE p \notin S
      BY <1>5, <1>6, <1>8, <3>1
    <3>2. CASE left = << >>
      BY <1>5, <1>6, <1>8, <3>2, NothingListed
    <3> QED
      BY <1>10, <3>1, <3>2
  <2>2. Applied(q, T) = T
    BY <2>1 DEF Applied, Undone
  <2> QED
    BY <1>4, <1>8, <1>10, <2>2, HandledFits
<1>11. CASE /\ p \in S
            /\ answer'.steps = answer.steps /\ answer'.report = q /\ answer'.rest = left
  <2>1. Undone(q, T) \subseteq Listed(left, "placed") \union Listed(left, "removed")
    BY <1>5, <1>6, <1>8
  <2>2. Listed(left, "removed") \subseteq T
    <3>1. p \in Undone(q, S)
      BY <1>7, <1>11 DEF Undone
    <3> QED
      BY <1>5, <1>6, <3>1
  <2>3. left = << >> => Complete(answer.steps, q, T)
    BY <2>1, NothingListed DEF Complete
  <2>4. /\ Listed(left, "placed") \subseteq Listed(q, "placed")
        /\ Listed(left, "removed") \subseteq Listed(q, "removed")
    BY <1>5, <1>6
  <2> HIDE DEF q, S, rest, left, T
  <2>5. AnswerFits'
    BY <1>4, <1>6, <1>9, <1>11, <2>1, <2>2, <2>3, <2>4 DEF AnswerFits, T
  <2> QED
    BY <1>4, <1>8, <1>11, <2>5 DEF q, S, T
<1>12. CASE p \in S
  <2>1. GoOn(answer.steps, left)
    BY <1>3, <1>4, <1>12
  <2> QED
    BY <1>10, <1>11, <1>12, <2>1, GoneOn
<1> QED
  BY <1>3, <1>4, <1>10, <1>12

LEMMA ReportArrives ==
  ASSUME TypeOK, StateIsKnown, PodsArrive, Report
  PROVE  PodsArrive'
<1>1. UNCHANGED <<unreported, stuck, events, pods>>
  BY DEF Report, fluidityVars
<1>2. AnswerFits =>
        AnswerFits' /\ Applied(answer.report, Believed)' = Applied(answer.report, Believed)
  BY ReportStepArrives, ReportSpecArrives, ReportPlacedArrives, ReportRemovedArrives DEF Report
<1> QED
  BY <1>1, <1>2 DEF PodsArrive

-----------------------------------------------------------------------------
(* The answer to a plan that succeeds. *)

\* A step reports the pods it drops as removed and those it makes as placed, each once
\* unless there were several of them.
LEMMA ReportOfStep ==
  ASSUME NEW step \in Steps
  PROVE  /\ \A p \in Comps \X Nodes : \A e \in {"placed", "removed"} :
              (\E k \in DOMAIN ReportOf(step) : ReportOf(step)[k] = Entry(p, e))
                <=> \/ e = "removed" /\ Leaves(step) /\ p = <<step.comp, step.src_host>>
                    \/ e = "placed" /\ step.action # "remove" /\ p = <<step.comp, step.host>>
         /\ \A k \in DOMAIN ReportOf(step) : ReportOf(step)[k].comp = step.comp
         /\ <<step.comp, step.src_host>> \notin doubled =>
              \A k, l \in DOMAIN ReportOf(step) :
                ReportOf(step)[k].event = ReportOf(step)[l].event => k = l
         /\ \A k \in DOMAIN ReportOf(step) : ReportOf(step)[k].event = "removed" => Leaves(step)
<1> DEFINE gone == Entry(<<step.comp, step.src_host>>, "removed")
           made == Entry(<<step.comp, step.host>>, "placed")
<1>1. /\ <<step.comp, step.src_host>> \in Comps \X Nodes
      /\ <<step.comp, step.host>> \in Comps \X Nodes
      /\ step.action \in {"deploy", "remove", "move", "change_spec"}
  BY DEF Steps
<1>2. /\ gone.comp = step.comp /\ gone.event = "removed"
      /\ made.comp = step.comp /\ made.event = "placed"
  BY DEF Entry
<1> DEFINE twice == <<step.comp, step.src_host>> \in doubled
<1>3. /\ step.action = "remove" /\ ~twice => ReportOf(step) = <<gone>>
      /\ step.action = "remove" /\ twice => ReportOf(step) = <<gone, gone>>
      /\ step.action # "remove" /\ ~Leaves(step) => ReportOf(step) = <<made>>
      /\ step.action # "remove" /\ Leaves(step) /\ ~twice => ReportOf(step) = <<made, gone>>
      /\ step.action # "remove" /\ Leaves(step) /\ twice => ReportOf(step) = <<made, gone, gone>>
      /\ step.action = "remove" => Leaves(step)
  BY ReportIs DEF Entry
<1>4. \A p \in Comps \X Nodes : \A e \in {"placed", "removed"} :
        /\ gone = Entry(p, e) <=> e = "removed" /\ p = <<step.comp, step.src_host>>
        /\ made = Entry(p, e) <=> e = "placed" /\ p = <<step.comp, step.host>>
  BY <1>1, EntriesDiffer
<1> HIDE DEF gone, made, twice
<1> DEFINE Says(r) ==
             /\ \A p \in Comps \X Nodes : \A e \in {"placed", "removed"} :
                  (\E k \in DOMAIN r : r[k] = Entry(p, e))
                    <=> \/ e = "removed" /\ Leaves(step) /\ p = <<step.comp, step.src_host>>
                        \/ e = "placed" /\ step.action # "remove" /\ p = <<step.comp, step.host>>
             /\ \A k \in DOMAIN r : r[k].comp = step.comp
             /\ ~twice => \A k, l \in DOMAIN r : r[k].event = r[l].event => k = l
             /\ \A k \in DOMAIN r : r[k].event = "removed" => Leaves(step)
<1>5. CASE step.action = "remove" /\ ~twice
  <2>1. Says(<<gone>>)
    BY <1>2, <1>3, <1>4, <1>5
  <2> QED
    BY <1>3, <1>5, <2>1 DEF twice
<1>6. CASE step.action = "remove" /\ twice
  <2>1. Says(<<gone, gone>>)
    BY <1>2, <1>3, <1>4, <1>6
  <2> QED
    BY <1>3, <1>6, <2>1 DEF twice
<1>7. CASE step.action # "remove" /\ ~Leaves(step)
  <2>1. Says(<<made>>)
    BY <1>2, <1>4, <1>7
  <2> QED
    BY <1>3, <1>7, <2>1 DEF twice
<1>8. CASE step.action # "remove" /\ Leaves(step) /\ ~twice
  <2>1. Says(<<made, gone>>)
    BY <1>2, <1>4, <1>8
  <2> QED
    BY <1>3, <1>8, <2>1 DEF twice
<1>9. CASE step.action # "remove" /\ Leaves(step) /\ twice
  <2>1. Says(<<made, gone, gone>>)
    BY <1>2, <1>4, <1>9
  <2> QED
    BY <1>3, <1>9, <2>1 DEF twice
<1> QED
  BY <1>5, <1>6, <1>7, <1>8, <1>9

\* As long as no pod goes that it does not mention, the answer says what the plan made of
\* the pods, and it can be gone through without a KeyError.
LEMMA AnswerIsExact ==
  ASSUME TypeOK, NEW plan \in InitialPlans \union Plans, PlanSucceeds(plan), ~unreported',
         NEW q, q = [i \in DOMAIN plan |-> ReportOf(plan[i])]
  PROVE  pods' = Applied(q, pods) /\ Fits(plan, q, pods) /\ Complete(plan, q, pods)
<1> DEFINE D == Comps \X Nodes
           R == Listed(q, "removed")
           new == Listed(q, "placed")
<1>1. pods \subseteq D /\ plan \in Seq(Steps) /\ \A i \in DOMAIN plan : plan[i] \in Steps
  BY ReportTypes DEF TypeOK
<1>2. DOMAIN q = DOMAIN plan /\ \A i \in DOMAIN plan : q[i] = ReportOf(plan[i])
  OBVIOUS
<1>3. \A p : p \in R <=> /\ p \in D
                       /\ \E i \in DOMAIN plan : /\ Leaves(plan[i])
                                                 /\ p = <<plan[i].comp, plan[i].src_host>>
  <2> SUFFICES ASSUME NEW p \in D
               PROVE  p \in R <=> \E i \in DOMAIN plan : /\ Leaves(plan[i])
                                                         /\ p = <<plan[i].comp, plan[i].src_host>>
    BY DEF Listed
  <2>1. ASSUME NEW i \in DOMAIN plan
        PROVE  (\E k \in DOMAIN q[i] : q[i][k] = Entry(p, "removed"))
                 <=> Leaves(plan[i]) /\ p = <<plan[i].comp, plan[i].src_host>>
    <3>1. PICK step \in Steps : step = plan[i]
      BY <1>1
    <3>2. q[i] = ReportOf(step)
      BY <1>2, <3>1
    <3>3. (\E k \in DOMAIN ReportOf(step) : ReportOf(step)[k] = Entry(p, "removed"))
            <=> Leaves(step) /\ p = <<step.comp, step.src_host>>
      BY ReportOfStep
    <3> QED
      BY <3>1, <3>2, <3>3
  <2> QED
    BY <1>2, <2>1 DEF Listed
<1>4. \A p : p \in new <=> /\ p \in D
                         /\ \E i \in DOMAIN plan : /\ plan[i].action # "remove"
                                                   /\ p = <<plan[i].comp, plan[i].host>>
  <2> SUFFICES ASSUME NEW p \in D
               PROVE  p \in new <=> \E i \in DOMAIN plan : /\ plan[i].action # "remove"
                                                           /\ p = <<plan[i].comp, plan[i].host>>
    BY DEF Listed
  <2>1. ASSUME NEW i \in DOMAIN plan
        PROVE  (\E k \in DOMAIN q[i] : q[i][k] = Entry(p, "placed"))
                 <=> plan[i].action # "remove" /\ p = <<plan[i].comp, plan[i].host>>
    <3>1. PICK step \in Steps : step = plan[i]
      BY <1>1
    <3>2. q[i] = ReportOf(step)
      BY <1>2, <3>1
    <3>3. (\E k \in DOMAIN ReportOf(step) : ReportOf(step)[k] = Entry(p, "placed"))
            <=> step.action # "remove" /\ p = <<step.comp, step.host>>
      BY ReportOfStep
    <3> QED
      BY <3>1, <3>2, <3>3
  <2> QED
    BY <1>2, <2>1 DEF Listed
<1>5. \/ \A i \in DOMAIN plan : plan[i].action = "deploy"
      \/ \A i, j \in DOMAIN plan : plan[i].comp = plan[j].comp => i = j
  BY ConstantAssumption
<1>6. \A i \in DOMAIN plan : /\ <<plan[i].comp, plan[i].host>> \in D
                             /\ <<plan[i].comp, plan[i].src_host>> \in D
                             /\ plan[i].action \in {"deploy", "remove", "move", "change_spec"}
  BY <1>1 DEF Steps
<1>7. PICK gone \in Gone(plan) : pods' = (pods \ gone) \union NewPods(plan)
  BY DEF PlanSucceeds
<1>8. pods' = (pods \ gone) \union new /\ gone \subseteq pods
  <2>1. NewPods(plan) = new
    BY <1>4, <1>6 DEF NewPods, Placed, PodOf
  <2> QED
    BY <1>7, <2>1 DEF Gone
<1>0. ~Misreported(plan, pods')
  BY DEF PlanSucceeds
<1>9. gone \subseteq R \union new
  <2> SUFFICES ASSUME NEW p \in gone, p \notin new PROVE p \in R
    OBVIOUS
  <2>1. p \in pods \ pods' /\ p \in D
    BY <1>1, <1>8
  <2>2. ToldGone(plan, p)
    BY <1>0, <2>1 DEF Misreported
  <2> QED
    BY <1>3, <2>1, <2>2 DEF ToldGone
<1>10. \A i \in DOMAIN plan : Leaves(plan[i]) => <<plan[i].comp, plan[i].src_host>> \in gone
  <2> SUFFICES ASSUME NEW i \in DOMAIN plan, Leaves(plan[i])
               PROVE  <<plan[i].comp, plan[i].src_host>> \in gone
    OBVIOUS
  <2>1. Takes(plan[i], gone)
    BY <1>7 DEF Gone
  <2>2. {p \in gone : p[1] = plan[i].comp} = {<<plan[i].comp, plan[i].src_host>>}
    BY <2>1 DEF Takes
  <2> QED
    BY <2>2
<1>11. \A i \in DOMAIN plan : Leaves(plan[i]) => <<plan[i].comp, plan[i].src_host>> \notin doubled
  BY <1>0 DEF Misreported, ToldGone
<1> HIDE DEF R, new
<1>12. R \subseteq gone
  BY <1>3, <1>10
<1>13. R \intersect new = {}
  <2> SUFFICES ASSUME NEW p \in R, p \in new PROVE FALSE
    OBVIOUS
  <2>1. PICK i \in DOMAIN plan : Leaves(plan[i]) /\ p = <<plan[i].comp, plan[i].src_host>>
    BY <1>3
  <2>2. PICK j \in DOMAIN plan : plan[j].action # "remove" /\ p = <<plan[j].comp, plan[j].host>>
    BY <1>4
  <2>3. plan[i].comp = plan[j].comp /\ plan[i].src_host = plan[j].host
    BY <2>1, <2>2
  <2> QED
    BY <1>5, <2>1, <2>2, <2>3 DEF Leaves
<1>14. pods' = Applied(q, pods)
  BY <1>8, <1>9, <1>12, <1>13 DEF Applied, R, new
<1>15. Once(q)
  <2> SUFFICES ASSUME NEW i \in DOMAIN q, NEW j \in DOMAIN q, NEW k \in DOMAIN q[i],
                      NEW l \in DOMAIN q[j], q[i][k] = q[j][l], q[i][k].event = "removed"
               PROVE  i = j /\ k = l
    BY DEF Once
  <2>1. /\ plan[i] \in Steps /\ plan[j] \in Steps
        /\ q[i] = ReportOf(plan[i]) /\ q[j] = ReportOf(plan[j])
    BY <1>1, <1>2
  <2>2. q[i][k].comp = plan[i].comp /\ q[j][l].comp = plan[j].comp /\ Leaves(plan[i])
    BY <2>1, ReportOfStep
  <2>3. i = j
    BY <1>2, <1>5, <2>2 DEF Leaves
  <2>4. <<plan[i].comp, plan[i].src_host>> \notin doubled
    BY <1>2, <1>11, <2>2
  <2> QED
    BY <2>1, <2>3, <2>4, ReportOfStep
\* A change_spec that is told of correctly stays on its node.
<1>16. ASSUME NEW i \in DOMAIN plan, plan[i].action = "change_spec"
       PROVE  <<plan[i].comp, plan[i].host>> \in pods \intersect new
  <2>1. <<plan[i].comp, plan[i].host>> \in pods
    BY <1>0, <1>16 DEF Misreported, PodOf
  <2>2. <<plan[i].comp, plan[i].host>> \in new
    BY <1>4, <1>6, <1>16
  <2> QED
    BY <2>1, <2>2
<1>17. Fits(plan, q, pods)
  BY <1>13, <1>15, <1>16 DEF Fits, Known, R, new
<1>18. Complete(plan, q, pods)
  <2>1. CASE Full(plan)
    BY <1>8, <1>12, <2>1 DEF Complete, R
  <2>2. CASE ~Full(plan)
    <3>1. \A i \in DOMAIN plan : plan[i].action = "change_spec"
      BY <2>2 DEF Full
    <3>2. R = {}
      BY <1>3, <3>1 DEF Leaves
    <3>3. new \subseteq pods
      BY <1>4, <1>16, <3>1
    <3> QED
      BY <3>2, <3>3 DEF Complete, Undone, R, new
  <2> QED
    BY <2>1, <2>2
<1> QED
  BY <1>14, <1>17, <1>18

\* What happens to the pods is what the event that is queued says.
LEMMA FluidityArrives ==
  ASSUME TypeOK, PodsArrive, Fluidity
  PROVE  PodsArrive'
<1> DEFINE A == Applied(answer.report, Believed)
<1>0. /\ pods \in SUBSET (Comps \X Nodes) /\ events \in Seq(Events)
      /\ pods' \in SUBSET (Comps \X Nodes) /\ events' \in Seq(Events)
  BY FluidityTypes DEF TypeOK
<1>1. UNCHANGED <<nodes_state, answer, stuck>> /\ (unreported => unreported')
  <2>1. CASE CreateApp
    <3>1. UNCHANGED <<nodes_state, answer, stuck>>
      BY <2>1 DEF CreateApp, clusterVars
    <3>2. unreported => unreported'
      BY <2>1, Zenon DEF CreateApp
    <3> QED
      BY <3>1, <3>2
  <2>4. CASE DeleteApp
    BY <2>4 DEF DeleteApp, clusterVars
  <2>2. ASSUME NEW plan \in InitialPlans \union Plans, PlanSucceeds(plan)
        PROVE  UNCHANGED <<nodes_state, answer, stuck>> /\ (unreported => unreported')
    BY <2>2, Zenon DEF PlanSucceeds, clusterVars
  <2>3. ASSUME NEW plan \in InitialPlans \union Plans, PlanFails(plan)
        PROVE  UNCHANGED <<nodes_state, answer, stuck>> /\ (unreported => unreported')
    BY <2>3 DEF PlanFails, clusterVars
  <2> QED
    BY <2>1, <2>2, <2>3, <2>4 DEF Fluidity
<1>2. Believed' = Believed /\ (AnswerFits => AnswerFits')
  BY <1>1 DEF Believed, AnswerFits, Fits, Known, Complete, Undone
<1>3. A' = A
  BY <1>1, <1>2
<1> HIDE DEF A
<1>4. SUFFICES ASSUME ~unreported', Arrives(events, A, pods) PROVE Arrives(events', A, pods')
  BY <1>1, <1>2, <1>3 DEF PodsArrive, A
<1>5. SUFFICES \E e \in Events : events' = Append(events, e) /\ Leads(e, pods, pods')
  BY <1>0, <1>4, ArrivesAppended
<1>6. CASE CreateApp
  <2> DEFINE e == [event |-> "APP_CREATED"]
  <2>1. e \in Events /\ events' = Append(events, e) /\ pods' = pods
    BY <1>4, <1>6 DEF CreateApp, Events
  <2>2. Leads(e, pods, pods')
    BY <2>1 DEF Leads
  <2> QED
    BY <2>1, <2>2
<1>7. CASE DeleteApp
  <2> DEFINE e == [event |-> "APP_DELETED"]
  <2>1. e \in Events /\ events' = Append(events, e) /\ pods' = {}
    BY <1>7 DEF DeleteApp, Events
  <2>2. Leads(e, pods, pods')
    BY <2>1 DEF Leads
  <2> QED
    BY <2>1, <2>2
<1>8. ASSUME NEW plan \in InitialPlans \union Plans, PlanSucceeds(plan)
      PROVE  \E e \in Events : events' = Append(events, e) /\ Leads(e, pods, pods')
  <2>1. PICK q : q = [i \in DOMAIN plan |-> ReportOf(plan[i])]
    OBVIOUS
  <2> DEFINE e == [event |-> "PLAN_EXECUTED", plan |-> plan, report |-> q]
  <2>2. e \in Events
    BY <2>1, ReportTypes DEF Events
  <2>3. events' = Append(events, e)
    BY <1>8, <2>1 DEF PlanSucceeds, Answered
  <2>4. pods' = Applied(q, pods) /\ Fits(plan, q, pods) /\ Complete(plan, q, pods)
    BY <1>4, <1>8, <2>1, AnswerIsExact
  <2>5. Leads(e, pods, pods')
    BY <2>4 DEF Leads
  <2> QED
    BY <2>2, <2>3, <2>5
<1>9. ASSUME NEW plan \in InitialPlans \union Plans, PlanFails(plan)
      PROVE  \E e \in Events : events' = Append(events, e) /\ Leads(e, pods, pods')
  <2> DEFINE e == [event |-> "PLAN_EXECUTED", plan |-> plan, report |-> << >>]
  <2>1. e \in Events
    <3>1. << >> \in Reports
      BY EmptyIn DEF Reports
    <3> QED
      BY <3>1, ReportTypes DEF Events
  <2>2. events' = Append(events, e) /\ pods' = pods
    BY <1>4, <1>9 DEF PlanFails, Answered
  <2>3. Leads(e, pods, pods')
    BY <2>2, NothingListed DEF Leads
  <2> QED
    BY <2>1, <2>2, <2>3
<1> QED
  BY <1>6, <1>7, <1>8, <1>9 DEF Fluidity

LEMMA ClusterListenerArrives ==
  ASSUME TypeOK, PodsArrive, ~Reporting, ClusterListener
  PROVE  PodsArrive'
<1>1. UNCHANGED <<unreported, pods>> /\ (Cluster \in stuck => Cluster \in stuck')
  BY DEF ClusterListener, OnAppCreated, OnAppDeleted, OnPlanExecuted, fluidityVars
<1>2. answer = Handled /\ answer.report = << >>
  BY DEF Reporting, Handled
<1>3. SUFFICES ASSUME Arrives(events, Believed, pods), Cluster \notin stuck'
               PROVE  AnswerFits' /\ Arrives(events', Applied(answer.report, Believed)', pods)
  BY <1>1, <1>2, NothingListed DEF PodsArrive
<1>4. PICK e : Take(e)
  BY DEF ClusterListener, OnAppCreated, OnAppDeleted, OnPlanExecuted
<1>5. events # << >> /\ events \in Seq(Events) /\ events' = Tail(events) /\ Head(events).event = e
  BY <1>4, TakeEvent
<1>6. PICK U : Leads(Head(events), Believed, U) /\ Arrives(events', U, pods)
  BY <1>3, <1>5, ArrivesShortened
<1>7. SUFFICES AnswerFits' /\ Applied(answer.report, Believed)' = U
  BY <1>6
<1>8. CASE OnAppCreated
  <2>1. answer' = Handled /\ nodes_state' = nodes_state /\ Head(events).event = "APP_CREATED"
    BY <1>2, <1>8 DEF OnAppCreated, clusterVars, Take
  <2>2. Believed' = Believed
    BY <2>1 DEF Believed
  <2>3. U = Believed
    BY <1>6, <2>1 DEF Leads
  <2> QED
    BY <2>1, <2>2, <2>3, HandledFits
<1>9. CASE OnAppDeleted
  <2>1. answer' = Handled /\ Head(events).event = "APP_DELETED"
    BY <1>2, <1>9 DEF OnAppDeleted, Take
  <2>2. nodes_state' = [n \in Nodes |-> [nodes_state[n] EXCEPT !.app = FALSE, !.comps = {}]]
    BY <1>3, <1>9 DEF OnAppDeleted
  <2>3. Believed' = {}
    <3>1. \A n \in Nodes : nodes_state'[n].comps = {}
      BY <2>2 DEF TypeOK
    <3> QED
      BY <3>1 DEF Believed
  <2>4. U = {}
    BY <1>6, <2>1 DEF Leads
  <2> QED
    BY <2>1, <2>3, <2>4, HandledFits
<1>10. CASE OnPlanExecuted
  <2> DEFINE q == Head(events).report
             plan == Head(events).plan
  <2>1. nodes_state' = nodes_state /\ Head(events).event = "PLAN_EXECUTED"
    BY <1>10 DEF OnPlanExecuted, Take
  <2>2. Believed' = Believed
    BY <2>1 DEF Believed
  <2>3. /\ U = Applied(q, Believed)
        /\ q # << >> => Fits(plan, q, Believed) /\ Complete(plan, q, Believed)
    BY <1>6, <2>1 DEF Leads
  <2>4. CASE q = << >>
    <3>1. answer' = Handled
      BY <1>10, <2>4 DEF OnPlanExecuted
    <3> QED
      BY <2>2, <2>3, <2>4, <3>1, HandledFits, NothingListed
  <2>5. CASE q # << >>
    <3>1. answer' = [steps |-> plan, report |-> q, rest |-> << >>]
      BY <1>10, <2>5 DEF OnPlanExecuted
    <3>2. answer'.steps = plan /\ answer'.report = q /\ answer'.rest = << >>
      BY <3>1
    <3> HIDE DEF q, plan
    <3>3. AnswerFits'
      BY <2>2, <2>3, <2>5, <3>2, NothingListed DEF AnswerFits
    <3> QED
      BY <2>2, <2>3, <3>2, <3>3
  <2> QED
    BY <2>4, <2>5
<1> QED
  BY <1>8, <1>9, <1>10 DEF ClusterListener

\* A cluster agent that restarts finds neither pods nor anything in its tables.
LEMMA ClusterRestartsArrives ==
  ASSUME ~Reporting, ClusterRestarts
  PROVE  PodsArrive'
<1>1. answer' = Handled /\ pods' = {}
  BY DEF ClusterRestarts, Reporting
<1>2. Believed' = {}
  <2>1. \A n \in Nodes : nodes_state'[n].comps = {}
    BY DEF ClusterRestarts, Unknown
  <2> QED
    BY <2>1 DEF Believed
<1>3. AnswerFits' /\ Applied(answer.report, Believed)' = {}
  BY <1>1, <1>2, HandledFits
<1>4. Arrives(<< >>, {}, {})
  BY ArrivesNothing
<1>5. Arrives(events', {}, {})
  <2> DEFINE e == [event |-> "APP_CREATED"]
  <2>1. e \in Events /\ Leads(e, {}, {}) /\ << >> \in Seq(Events)
    BY EmptyIn DEF Events, Leads
  <2>2. Arrives(Append(<< >>, e), {}, {})
    BY <1>4, <2>1, ArrivesAppended
  <2>3. events' = << >> \/ events' = <<e>>
    BY DEF ClusterRestarts
  <2>4. Append(<< >>, e) = <<e>>
    OBVIOUS
  <2> QED
    BY <1>4, <2>2, <2>3, <2>4
<1> QED
  BY <1>1, <1>3, <1>5 DEF PodsArrive

LEMMA InitArrives == Init => PodsArrive
<1> SUFFICES ASSUME Init PROVE PodsArrive
  OBVIOUS
<1>1. answer.steps = << >> /\ answer.report = << >> /\ answer.rest = << >>
  BY DEF Init, Handled
<1>2. Believed = {}
  <2>1. \A n \in Nodes : nodes_state[n].comps = {}
    BY DEF Init, Unknown
  <2> QED
    BY <2>1 DEF Believed
<1>3. Known(<< >>, {}) /\ Undone(<< >>, {}) = {}
  BY NothingListed DEF Known
<1>4. AnswerFits
  BY <1>1, <1>2, <1>3, NothingListed DEF AnswerFits, Fits, Complete
<1>5. Arrives(events, Applied(answer.report, Believed), pods)
  BY <1>1, <1>2, NothingListed, ArrivesNothing DEF Init
<1> QED
  BY <1>4, <1>5 DEF PodsArrive

LEMMA NextArrives ==
  ASSUME TypeOK, StateIsKnown, PodsArrive, [Next]_vars
  PROVE  PodsArrive'
<1>1. ASSUME UNCHANGED <<pods, unreported, events, nodes_state, answer>>,
             Cluster \in stuck' <=> Cluster \in stuck
      PROVE  PodsArrive'
  <2>1. Believed' = Believed
    BY <1>1 DEF Believed
  <2>2. AnswerFits' <=> AnswerFits
    BY <1>1, <2>1 DEF AnswerFits
  <2> QED
    BY <1>1, <2>1, <2>2 DEF PodsArrive
<1>2. ASSUME NEW a \in Agents, AddInterval(a) \/ OtherApplication(a) PROVE PodsArrive'
  BY <1>1, <1>2, AddedController, SharedController
<1>3. CASE UNCHANGED vars \/ OnSyncRequest
  BY <1>1, <1>3 DEF vars, fluidityVars, clusterVars, OnSyncRequest
<1>4. ASSUME NEW n \in Nodes, NodeListener(n) \/ NodeRestarts(n) PROVE PodsArrive'
  <2>1. UNCHANGED <<pods, unreported, events, nodes_state, answer>>
    BY <1>4
    DEF NodeListener, OnPlaced, OnUpdated, OnRemoved, OnSync, Receive, NodeRestarts,
        fluidityVars, clusterVars
  <2>2. stuck' \in {stuck, stuck \union {n}, stuck \ {n}}
    BY <1>4 DEF NodeListener, OnPlaced, OnUpdated, OnRemoved, OnSync, NodeRestarts
  <2> QED
    BY <1>1, <2>1, <2>2, Agent
<1> QED
  BY <1>2, <1>3, <1>4, ReportArrives, FluidityArrives, ClusterListenerArrives,
     ClusterRestartsArrives DEF Next

\* Once the cluster agent has handled all events, nodes_state is what Fluidity runs,
\* unless pods changed without a report or the removal of an application was cut short
\* by its policies: although every step goes over all pods of the answer again, a
\* KeyError only comes when everything has been told.
THEOREM StateFollowsPods == Spec => []NodesStateIsPods
<1>1. TypeOK /\ PodsArrive => NodesStateIsPods
  <2> SUFFICES ASSUME TypeOK, PodsArrive, events = << >>, ~Reporting, ~unreported,
                      Cluster \notin stuck, NEW n \in Nodes
               PROVE  nodes_state[n].comps = {c \in Comps : <<c, n>> \in pods}
    BY DEF NodesStateIsPods
  <2>1. answer.report = << >>
    BY DEF Reporting, Handled
  <2>2. Arrives(<< >>, Believed, pods)
    BY <2>1, NothingListed DEF PodsArrive
  <2>3. Believed = pods
    BY <2>2, ArrivesNothing DEF Believed
  <2>4. nodes_state[n].comps \subseteq Comps
    BY DEF TypeOK
  <2>5. \A c \in Comps : <<c, n>> \in Believed <=> c \in nodes_state[n].comps
    BY DEF Believed
  <2> QED
    BY <2>3, <2>4, <2>5
<1>2. TypeOK /\ KnowledgeInv /\ PodsArrive /\ [Next]_vars => PodsArrive'
  BY NextArrives DEF KnowledgeInv
<1> QED
  BY <1>1, <1>2, InitArrives, KnowledgeInvariant, PTL DEF Spec
=============================================================================
