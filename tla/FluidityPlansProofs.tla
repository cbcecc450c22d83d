------------------------- MODULE FluidityPlansProofs -------------------------
(***************************************************************************)
(* Machine-checked proofs about what the plans of FluidityApps achieve,    *)
(* from the invariants of FluidityAppsProofs: the hosts of a completed     *)
(* plan are those that run the pods, and a component that is moved keeps   *)
(* a pod.                                                                  *)
(***************************************************************************)
EXTENDS FluidityAppsProofs

-----------------------------------------------------------------------------
(* What a completed plan leaves.  As long as nothing goes wrong, the hosts   *)
(* of a component that are in use run one of its pods, or will once the      *)
(* manifest that waits for it is created.                                    *)

Quiet == Undisturbed /\ app.here /\ faults = 0
Deploying == handler.at = "deploying"

HasPod(P, c, h) == \E p \in P : p.name.comp = c /\ p.host = h
WillHavePod(M, c, h) == \E i \in DOMAIN M[c] : M[c][i].status = "PENDING" /\ M[c][i].host = h

NamedApart(M) ==
  \A c, d \in Comps : \A i \in DOMAIN M[c], j \in DOMAIN M[d] :
    M[c][i].name = M[d][j].name => c = d /\ i = j
\* The entries of a host in the list of a component do not differ.
OneStatus(hosts) ==
  \A i, j \in DOMAIN hosts : hosts[i].host = hosts[j].host => hosts[i].status = hosts[j].status
SameStatus(H) == \A c \in Comps : OneStatus(H[c])
ActiveRuns(H, M, P) ==
  \A c \in Comps : \A i \in DOMAIN H[c] :
    H[c][i].status = "ACTIVE" => HasPod(P, c, H[c][i].host) \/ WillHavePod(M, c, H[c][i].host)
NoHost(H, status) == \A c \in Comps : \A i \in DOMAIN H[c] : H[c][i].status # status
AllCreated(M) == \A c \in Comps : \A i \in DOMAIN M[c] : M[c][i].status = "ACTIVE"

\* Of some components only.
NoHostOf(C, H, status) == \A c \in C : \A i \in DOMAIN H[c] : H[c][i].status # status
AllCreatedOf(C, M) == \A c \in C : \A i \in DOMAIN M[c] : M[c][i].status = "ACTIVE"

\* The steps of an initial plan wait, or have their pod; of its components only hosts that
\* wait are PENDING.
Begun(H, P, todo, steps) ==
  /\ \A k \in DOMAIN steps :
       (\E j \in DOMAIN todo : todo[j] = steps[k]) \/ HasPod(P, steps[k].comp, steps[k].host)
  /\ \A c \in Comps : Concerns(steps, c) => \A i \in DOMAIN H[c] :
       H[c][i].status = "PENDING" => \E j \in DOMAIN todo : todo[j].comp = c

\* The components an initial plan is about, and those the plan settles.
Concerned(steps) == {c \in Comps : Concerns(steps, c)}
Scope == IF handler.initial THEN Concerned(handler.steps) ELSE Comps

TablesAgree ==
  Quiet => /\ NamedApart(app.manifests)
           /\ ~Deploying => SameStatus(app.hosts)
           /\ announced => ActiveRuns(app.hosts, app.manifests, pods)
InitialPlanBegun ==
  Quiet /\ Deploying => /\ handler.initial
                        /\ Begun(app.hosts, pods, handler.todo, handler.steps)
                        /\ NoHostOf(Concerned(handler.steps), app.hosts, "INACTIVE")
                        /\ AllCreatedOf(Concerned(handler.steps), app.manifests)
                        /\ \A c \in Comps \ Concerned(handler.steps) : OneStatus(app.hosts[c])
LaterPlanWorked ==
  Quiet => /\ handler.at \in {"creating", "deleting"} => NoHost(app.hosts, "PENDING")
           /\ handler.at = "deleting" => AllCreated(app.manifests)
Settled ==
  Quiet /\ handler.at = "reply" /\ handler.status = "COMPLETED" =>
    /\ NoHostOf(Scope, app.hosts, "PENDING") /\ NoHostOf(Scope, app.hosts, "INACTIVE")
    /\ AllCreatedOf(Scope, app.manifests)

PlacedInv == TablesAgree /\ InitialPlanBegun /\ LaterPlanWorked /\ Settled

\* No plan is carried out, one has only begun, or it has failed.
Resting == \/ handler.at \in {"idle", "removing", "acting", "changing"}
           \/ handler.at = "reply" /\ handler.status # "COMPLETED"

LEMMA OfAll ==
  ASSUME NEW H, NEW M
  PROVE  /\ \A status : NoHost(H, status) => NoHostOf(Scope', H, status)
         /\ AllCreated(M) => AllCreatedOf(Scope', M)
BY DEF NoHost, NoHostOf, AllCreated, AllCreatedOf, Scope, Concerned

LEMMA NotQuiet ==
  ASSUME Quiet' => FALSE
  PROVE  PlacedInv'
BY DEF PlacedInv, TablesAgree, InitialPlanBegun, LaterPlanWorked, Settled

LEMMA Agreeing ==
  ASSUME Resting',
         Quiet' => /\ NamedApart(app'.manifests) /\ SameStatus(app'.hosts)
                   /\ announced' => ActiveRuns(app'.hosts, app'.manifests, pods')
  PROVE  PlacedInv'
BY DEF PlacedInv, TablesAgree, InitialPlanBegun, LaterPlanWorked, Settled, Resting, Deploying

\* The tables and the pods stay, and no plan goes on.
LEMMA RestPlaced ==
  ASSUME PlacedInv, Resting', UNCHANGED app, announced' => announced /\ pods' = pods, Quiet' => Quiet,
         Deploying => FALSE
  PROVE  PlacedInv'
BY Agreeing DEF PlacedInv, TablesAgree

\* A step of the environment.
LEMMA SamePlaced ==
  ASSUME PlacedInv, UNCHANGED <<app, handler, pods, announced>>, Quiet' => Quiet
  PROVE  PlacedInv'
BY DEF PlacedInv, TablesAgree, InitialPlanBegun, LaterPlanWorked, Settled, Deploying, Scope

LEMMA CallsMade ==
  ASSUME TypeOK
  PROVE  /\ \A n : DeleteOk(n) => UNCHANGED <<api_error, faults>>
         /\ \A p : CreateOk(p) => UNCHANGED <<api_error, faults>>
         /\ \A n : DeleteFails(n) \/ CreateFails(n) => ~Quiet'
         /\ faults \in Nat /\ (faults' = faults + 1 => ~Quiet')
<1>1. faults \in Nat
  BY Basics, Bounds
<1>2. \A n : DeleteFails(n) \/ CreateFails(n) => api_error'
  BY DEF DeleteFails, CreateFails
<1> QED
  BY <1>1, <1>2 DEF DeleteOk, CreateOk, Quiet, Undisturbed

LEMMA NothingPlaced ==
  ASSUME NEW here
  PROVE  /\ NamedApart(NewApp(here).manifests) /\ SameStatus(NewApp(here).hosts)
         /\ \A P : ActiveRuns(NewApp(here).hosts, NewApp(here).manifests, P)
BY DEF NewApp, NamedApart, OneStatus, SameStatus, ActiveRuns

LEMMA EventPlaced ==
  ASSUME TypeOK, OrphanInv, PlacedInv, AppEvent
  PROVE  PlacedInv'
<1>1. CASE HandleAdded
  <2>1. handler' = handler /\ handler.at = "idle"
    BY <1>1, AtIdle DEF HandleAdded, Take
  <2>2. CASE app' = NewApp(Head(notifications).here)
    BY <2>1, <2>2, NothingPlaced, Agreeing DEF Resting
  <2>3. CASE faults' = faults + 1
    BY <2>3, CallsMade, NotQuiet
  <2> QED
    BY <1>1, <2>2, <2>3 DEF HandleAdded
<1>2. CASE HandleModified
  <2>1. UNCHANGED <<app, handler, pods, announced, disordered, replanned, respecified, api_error, faults>>
    BY <1>2 DEF HandleModified, envVars, historyVars
  <2> QED
    BY <2>1, SamePlaced DEF Quiet, Undisturbed
<1>3. CASE HandleDeleted
  <2>1. /\ handler.at = "idle" /\ handler'.at \in {"removing", "idle"} /\ ~announced'
        /\ UNCHANGED <<app, respecified, replanned, api_error, faults>> /\ (disordered => disordered')
    BY <1>3, AtIdle DEF HandleDeleted, Idle, Take
  <2> QED
    BY <2>1, RestPlaced DEF Quiet, Undisturbed, Resting, Deploying
<1>4. CASE RemovePod
  <2>1. handler.at = "removing" /\ UNCHANGED <<app, announced, disordered, replanned, respecified>> /\ ~announced
    BY <1>4 DEF RemovePod, envVars, historyVars, OrphanInv, RemovesWithdrawn
  <2>2. PICK n : \/ DeleteOk(n) /\ handler' = [handler EXCEPT !.todo = @ \ {n}]
                 \/ DeleteFails(n) /\ handler' = Idle
    BY <1>4, Zenon DEF RemovePod
  <2>3. CASE DeleteFails(n)
    BY <2>3, CallsMade, NotQuiet
  <2>4. CASE DeleteOk(n) /\ handler' = [handler EXCEPT !.todo = @ \ {n}]
    <3>1. UNCHANGED <<api_error, faults>> /\ handler'.at = "removing"
      BY <2>1, <2>4, CallsMade, Remover
    <3> QED
      BY <2>1, <3>1, RestPlaced DEF Quiet, Undisturbed, Resting, Deploying
  <2> QED
    BY <2>2, <2>3, <2>4
<1>5. CASE ForgetApp
  <2>1. /\ handler.at = "removing" /\ handler'.at = "idle" /\ app' \in {app, NoApp}
        /\ UNCHANGED <<pods, announced, disordered, replanned, api_error, respecified, faults>>
    BY <1>5 DEF ForgetApp, Idle, historyVars, envVars
  <2>2. CASE app' = NoApp
    BY <2>1, <2>2, NotQuiet DEF Quiet, Undisturbed, NoApp
  <2>3. CASE app' = app
    BY <2>1, <2>3, RestPlaced DEF Quiet, Undisturbed, Resting, Deploying
  <2> QED
    BY <2>1, <2>2, <2>3
<1> QED
  BY <1>1, <1>2, <1>3, <1>4, <1>5 DEF AppEvent

LEMMA StartPlaced ==
  ASSUME TypeOK, RemovalInv, PlacedInv, PlanOfUnknownApp \/ StartInitialPlan \/ StartPlan
  PROVE  PlacedInv'
<1>1. TakePlan /\ app' = app
  BY DEF PlanOfUnknownApp, StartInitialPlan, StartPlan
<1>2. /\ UNCHANGED <<pods, announced, respecified, disordered, api_error, faults>>
      /\ Take("PLAN_SUBMITTED") /\ handler = Idle /\ handler.at = "idle" /\ ~Deploying
  BY <1>1 DEF TakePlan, envVars, Take, Idle, Deploying
<1>3. Quiet' => Quiet
  <2>1. replanned => replanned'
    <3>1. CASE PlanOfUnknownApp \/ StartPlan
      BY <3>1 DEF PlanOfUnknownApp, StartPlan
    <3>2. CASE StartInitialPlan
      BY <3>2 DEF StartInitialPlan
    <3> QED
      BY <3>1, <3>2
  <2> QED
    BY <1>1, <1>2, <2>1 DEF Quiet, Undisturbed
<1>4. PICK plan : plan = Head(notifications)
  OBVIOUS
<1>5. CASE Resting'
  BY <1>1, <1>2, <1>3, <1>5, RestPlaced
<1>6. CASE ~Resting'
  <2>1. /\ StartInitialPlan /\ plan.initial
        /\ handler' = [Working("deploying", plan) EXCEPT !.todo = IF app.here THEN @ ELSE << >>]
    <3>1. ~PlanOfUnknownApp
      BY <1>2, <1>6 DEF PlanOfUnknownApp, Resting
    <3>2. [Working("reply", plan) EXCEPT !.status = "FAILED"].at = "reply"
          /\ [Working("reply", plan) EXCEPT !.status = "FAILED"].status = "FAILED"
      BY DEF Working
    <3>3. Working("acting", plan).at = "acting"
      BY DEF Working
    <3>4. ~StartPlan
      BY <1>4, <1>6, <3>2, <3>3 DEF StartPlan, Resting
    <3>5. /\ StartInitialPlan /\ plan.initial
          /\ handler' = IF ~ValidSteps(plan.steps)
                        THEN [Working("reply", plan) EXCEPT !.status = "FAILED"]
                        ELSE [Working("deploying", plan) EXCEPT !.todo = IF app.here THEN @ ELSE << >>]
      BY <1>4, <3>1, <3>4 DEF StartInitialPlan
    <3> QED
      BY <1>6, <3>2, <3>5 DEF Resting
  <2>2. /\ handler'.at = "deploying" /\ handler'.steps = plan.steps /\ handler'.initial
        /\ app.here => handler'.todo = plan.steps
    BY <2>1 DEF Working
  <2>3. ASSUME Quiet', NEW c \in Comps, Concerns(plan.steps, c)
        PROVE  app.hosts[c] = << >> /\ ~(\E i \in DOMAIN app.manifests[c] : TRUE)
    <3>1. OnListed(app.manifests, app.hosts)
      BY <1>3, <2>3 DEF RemovalInv, InPlace, Quiet
    <3>2. app.hosts[c] = << >>
      BY <1>4, <2>1, <2>3 DEF Quiet, Undisturbed, StartInitialPlan, Concerns
    <3> QED
      BY <3>1, <3>2 DEF OnListed, Listed
  <2>4. ASSUME Quiet'
        PROVE  Begun(app'.hosts, pods', handler'.todo, handler'.steps)
    <3>1. handler'.todo = plan.steps
      BY <1>3, <2>2, <2>4 DEF Quiet
    <3> QED
      BY <1>1, <2>2, <2>3, <2>4, <3>1 DEF Begun
  <2>5. ASSUME Quiet'
        PROVE  \A c \in Comps : OneStatus(app'.hosts[c])
    BY <1>1, <1>2, <1>3, <2>5 DEF PlacedInv, TablesAgree, SameStatus
  <2>6. InitialPlanBegun'
    <3>1. ASSUME Quiet'
          PROVE  /\ NoHostOf(Concerned(plan.steps), app.hosts, "INACTIVE")
                 /\ AllCreatedOf(Concerned(plan.steps), app.manifests)
      BY <2>3, <3>1 DEF NoHostOf, AllCreatedOf, Concerned
    <3> QED
      BY <1>1, <2>2, <2>4, <2>5, <3>1 DEF InitialPlanBegun, Concerned, Deploying
  <2>7. TablesAgree'
    BY <1>1, <1>2, <1>3, <2>2 DEF PlacedInv, TablesAgree, Deploying
  <2> QED
    BY <2>2, <2>6, <2>7 DEF PlacedInv, LaterPlanWorked, Settled
<1> QED
  BY <1>5, <1>6

LEMMA TableTypes ==
  ASSUME TypeOK, app.known
  PROVE  /\ \A c \in Comps : app.hosts[c] \in Seq(Entries) /\ app.manifests[c] \in Seq(ManifestsOf(Names))
         /\ \A c \in Comps : \A i \in DOMAIN app.hosts[c] :
              app.hosts[c][i] \in Entries /\ app.hosts[c][i].status \in {"PENDING", "ACTIVE", "INACTIVE"}
         /\ \A c \in Comps : \A i \in DOMAIN app.manifests[c] :
              app.manifests[c][i].status \in {"PENDING", "ACTIVE"}
<1>1. app.hosts \in [Comps -> Seq(Entries)] /\ app.manifests \in [Comps -> Seq(ManifestsOf(Names))]
  BY KnownApp, AppFields
<1>2. ASSUME NEW c \in Comps, NEW i \in DOMAIN app.hosts[c]
      PROVE  app.hosts[c][i] \in Entries /\ app.hosts[c][i].status \in {"PENDING", "ACTIVE", "INACTIVE"}
  <2>1. app.hosts[c] \in Seq(Entries)
    BY <1>1
  <2>2. app.hosts[c][i] \in Entries
    BY <1>2, <2>1
  <2> QED
    BY <2>2 DEF Entries
<1>3. ASSUME NEW c \in Comps, NEW i \in DOMAIN app.manifests[c]
      PROVE  app.manifests[c][i].status \in {"PENDING", "ACTIVE"}
  <2>1. app.manifests[c] \in Seq(ManifestsOf(Names))
    BY <1>1
  <2>2. app.manifests[c][i] \in ManifestsOf(Names)
    BY <1>3, <2>1
  <2> QED
    BY <2>2 DEF ManifestsOf
<1> QED
  BY <1>1, <1>2, <1>3

LEMMA ManifestPair ==
  ASSUME NEW c \in Comps, NEW i \in DOMAIN app.manifests[c]
  PROVE  <<c, i>> \in AllManifests
<1>1. <<c, i>> \in {c} \X DOMAIN app.manifests[c]
  OBVIOUS
<1>2. \E S \in {{d} \X DOMAIN app.manifests[d] : d \in Comps} : <<c, i>> \in S
  BY <1>1, Zenon
<1> QED
  BY <1>2, Zenon DEF AllManifests

LEMMA QuietPlaced ==
  ASSUME TypeOK, PlacedInv, Answer \/ FinishInitialPlan \/ StartDeleting
  PROVE  PlacedInv'
<1>1. UNCHANGED <<app, pods, announced, disordered, replanned, api_error, respecified, faults>>
  BY DEF Answer, FinishInitialPlan, StartDeleting, historyVars, envVars
<1>2. Quiet' <=> Quiet
  BY <1>1 DEF Quiet, Undisturbed
<1>3. handler.at \notin {"idle", "removing"} /\ handler \in Workers /\ RunningNames' = RunningNames
  <2>1. handler.at \notin {"idle", "removing"}
    BY DEF Answer, FinishInitialPlan, StartDeleting
  <2> QED
    BY <1>1, <2>1, Worker DEF RunningNames
<1>4. CASE Answer
  BY <1>1, <1>2, <1>4, RestPlaced DEF Answer, Resting, Deploying, Idle
<1>6. CASE FinishInitialPlan
  <2>1. handler.at = "deploying" /\ handler.todo = << >> /\ Finish("COMPLETED")
    BY <1>6 DEF FinishInitialPlan
  <2>2. /\ handler'.at = "reply" /\ handler'.initial = handler.initial
        /\ handler'.steps = handler.steps
    BY <1>3, <2>1, FinishLooks
  <2>3. PICK C : C = Concerned(handler.steps)
    OBVIOUS
  <2>4. ASSUME Quiet
        PROVE  /\ NoHostOf(C, app.hosts, "PENDING") /\ NoHostOf(C, app.hosts, "INACTIVE")
               /\ AllCreatedOf(C, app.manifests) /\ SameStatus(app.hosts) /\ Scope' = C
    <3>1. /\ Begun(app.hosts, pods, << >>, handler.steps) /\ handler.initial
          /\ NoHostOf(C, app.hosts, "INACTIVE") /\ AllCreatedOf(C, app.manifests)
          /\ \A c \in Comps \ C : OneStatus(app.hosts[c])
      BY <2>1, <2>3, <2>4 DEF PlacedInv, InitialPlanBegun, Deploying
    <3>2. NoHostOf(C, app.hosts, "PENDING")
      BY <2>3, <3>1 DEF Begun, NoHostOf, Concerned
    <3>3. SameStatus(app.hosts)
      <4>1. \A c \in C : OneStatus(app.hosts[c])
        BY <2>3, <2>4, <3>1, <3>2, TableTypes DEF NoHostOf, OneStatus, Quiet, Undisturbed, Concerned
      <4> QED
        BY <3>1, <4>1 DEF SameStatus
    <3>4. Scope' = C
      BY <2>2, <2>3, <3>1 DEF Scope, Concerned
    <3> QED
      BY <3>1, <3>2, <3>3, <3>4
  <2> QED
    BY <1>1, <1>2, <2>2, <2>4 DEF PlacedInv, TablesAgree, InitialPlanBegun, LaterPlanWorked, Settled, Deploying
<1>7. CASE StartDeleting
  <2>1. handler.at = "creating" /\ ToCreate = {} /\ handler' = [handler EXCEPT !.at = "deleting"]
    BY <1>7 DEF StartDeleting
  <2>2. handler'.at = "deleting"
    <3>1. Looks(handler', "deleting", handler.todo, handler.pod, handler.report)
      BY <1>3, <2>1, WorkerLooks, Zenon
    <3> QED
      BY <3>1 DEF Looks
  <2>3. ASSUME Quiet
        PROVE  AllCreated(app.manifests) /\ NoHost(app.hosts, "PENDING")
    <3>1. NoHost(app.hosts, "PENDING")
      BY <2>1, <2>3 DEF PlacedInv, LaterPlanWorked
    <3>2. ASSUME NEW c \in Comps, NEW i \in DOMAIN app.manifests[c]
          PROVE  app.manifests[c][i].status = "ACTIVE"
      <4>1. <<c, i>> \in AllManifests /\ <<c, i>>[1] = c /\ <<c, i>>[2] = i
        BY <3>2, ManifestPair
      <4>2. app.manifests[c][i].status # "PENDING"
        BY <2>1, <4>1 DEF ToCreate
      <4> QED
        BY <2>3, <3>2, <4>2, TableTypes DEF Quiet, Undisturbed
    <3> QED
      BY <3>1, <3>2 DEF AllCreated
  <2> QED
    BY <1>1, <1>2, <2>1, <2>2, <2>3 DEF PlacedInv, TablesAgree, InitialPlanBegun, LaterPlanWorked, Settled,
                                        Deploying
<1> QED
  BY <1>4, <1>6, <1>7

\* A host gets a status that is not ACTIVE.
LEMMA StatusChanged ==
  ASSUME NEW hosts \in Seq(Entries), NEW h \in Hosts, NEW status \in {"PENDING", "INACTIVE"},
         OneStatus(hosts)
  PROVE  LET new == append_host_to_list(hosts, h, status)
         IN  /\ OneStatus(new)
             /\ \A i \in DOMAIN new : new[i].status = "ACTIVE" => i \in DOMAIN hosts /\ new[i] = hosts[i]
<1>1. PICK new : new = append_host_to_list(hosts, h, status)
  OBVIOUS
<1>2. \A i \in DOMAIN hosts : hosts[i] \in Entries
  OBVIOUS
<1>3. CASE Listed(hosts, h)
  <2> DEFINE change(j) == IF hosts[j].host = h THEN [hosts[j] EXCEPT !.status = status] ELSE hosts[j]
  <2>1. new = [j \in DOMAIN hosts |-> change(j)]
    BY <1>1, <1>3 DEF append_host_to_list
  <2>2. ASSUME NEW i \in DOMAIN hosts
        PROVE  /\ change(i).host = hosts[i].host
               /\ change(i).status = IF hosts[i].host = h THEN status ELSE hosts[i].status
               /\ change(i).status = "ACTIVE" => change(i) = hosts[i]
    <3>1. hosts[i] \in Entries
      BY <1>2
    <3> QED
      BY <3>1 DEF Entries
  <2> HIDE DEF change
  <2>3. DOMAIN new = DOMAIN hosts /\ \A i \in DOMAIN hosts : new[i] = change(i)
    BY <2>1
  <2>4. OneStatus(new)
    BY <2>2, <2>3 DEF OneStatus
  <2>5. \A i \in DOMAIN new : new[i].status = "ACTIVE" => i \in DOMAIN hosts /\ new[i] = hosts[i]
    BY <2>2, <2>3
  <2> QED
    BY <1>1, <2>4, <2>5
<1>4. CASE ~Listed(hosts, h)
  <2>1. PICK e : e = [host |-> h, status |-> status]
    OBVIOUS
  <2>2. new = Append(hosts, e) /\ e \in Entries /\ e.host = h /\ e.status = status
    BY <1>1, <1>4, <2>1 DEF append_host_to_list, Entries
  <2>3. PICK k : k = Len(hosts) + 1
    OBVIOUS
  <2>4. /\ DOMAIN new = DOMAIN hosts \union {k} /\ new[k] = e
        /\ \A i \in DOMAIN hosts : new[i] = hosts[i]
    BY <2>2, <2>3, Appended
  <2>5. \A i \in DOMAIN hosts : hosts[i].host # h
    BY <1>4 DEF Listed
  <2>6. OneStatus(new)
    BY <2>2, <2>4, <2>5 DEF OneStatus
  <2>7. \A i \in DOMAIN new : new[i].status = "ACTIVE" => i \in DOMAIN hosts /\ new[i] = hosts[i]
    BY <2>2, <2>4
  <2> QED
    BY <1>1, <2>6, <2>7
<1> QED
  BY <1>3, <1>4

LEMMA ActPlaced ==
  ASSUME TypeOK, PlacedInv, ActMove \/ ActDeploy \/ ActRemove
  PROVE  PlacedInv'
<1>1. /\ handler.at = "acting" /\ handler \in Workers /\ handler.todo \in Seq(Steps) /\ handler.todo # << >>
      /\ app.known /\ app \in Apps
  <2>1. handler.at = "acting" /\ handler.todo # << >>
    BY DEF ActMove, ActDeploy, ActRemove, Act
  <2> QED
    BY <2>1, Worker, Basics, KnownApp
<1>2. UNCHANGED <<pods, announced, disordered, replanned, api_error, respecified, faults>>
  <2>1. \E action : Act(action) /\ ActionEnds
    BY Zenon DEF ActMove, ActDeploy, ActRemove
  <2> QED
    BY <2>1 DEF Act, ActionEnds, envVars
<1>3. Resting'
  <2>1. GoOn \/ Finish("FAILED")
    BY Zenon DEF ActMove, ActDeploy, ActRemove
  <2>2. CASE GoOn
    <3>1. PICK todo : handler' = [handler EXCEPT !.todo = todo]
      BY <2>2 DEF GoOn
    <3>2. Looks(handler', handler.at, todo, handler.pod, handler.report)
      BY <1>1, <3>1, WorkerLooks, Zenon
    <3> QED
      BY <1>1, <3>2 DEF Looks, Resting
  <2>3. CASE Finish("FAILED")
    BY <1>1, <2>3, FinishLooks DEF Resting
  <2> QED
    BY <2>1, <2>2, <2>3
<1>4. PICK s : s = Head(handler.todo)
  OBVIOUS
<1>5. s \in Steps
  BY <1>1, <1>4, Shortened
<1>6. s.comp \in Comps /\ s.host \in Hosts /\ s.src_host \in Hosts
  BY <1>5 DEF Steps
<1>7. PICK l : l = app.hosts[s.comp]
  OBVIOUS
<1>8. app.hosts \in [Comps -> Seq(Entries)] /\ l \in Seq(Entries)
  BY <1>1, <1>6, <1>7, KnownApp, AppFields
<1>9. PICK left, moved, kept, removed :
        /\ left = append_host_to_list(l, s.src_host, "INACTIVE")
        /\ moved = append_host_to_list(left, s.host, "PENDING")
        /\ kept = append_host_to_list(l, s.host, "PENDING")
        /\ removed = append_host_to_list(l, s.host, "INACTIVE")
  OBVIOUS
<1>10. \/ app' = app
       \/ \E hosts \in {moved, kept, removed} : app' = [app EXCEPT !.hosts[s.comp] = hosts]
  <2>1. CASE ActMove
    <3>1. \/ app' = app
          \/ app' = [app EXCEPT !.hosts[s.comp] =
               append_host_to_list(append_host_to_list(app.hosts[s.comp], s.src_host, "INACTIVE"),
                                   s.host, "PENDING")]
      BY <1>4, <2>1, Zenon DEF ActMove
    <3> QED
      BY <1>7, <1>9, <3>1, Zenon
  <2>2. CASE ActDeploy
    <3>1. \/ app' = app
          \/ app' = [app EXCEPT !.hosts[s.comp] = append_host_to_list(@, s.host, "PENDING")]
      BY <1>4, <2>2, Zenon DEF ActDeploy
    <3>2. app' = app \/ app' = [app EXCEPT !.hosts[s.comp] = kept]
      BY <1>7, <1>9, <3>1
    <3> QED
      BY <3>2
  <2>3. CASE ActRemove
    <3>1. \/ app' = app
          \/ app' = [app EXCEPT !.hosts[s.comp] = append_host_to_list(@, s.host, "INACTIVE")]
      BY <1>4, <2>3, Zenon DEF ActRemove
    <3>2. app' = app \/ app' = [app EXCEPT !.hosts[s.comp] = removed]
      BY <1>7, <1>9, <3>1
    <3> QED
      BY <3>2
  <2> QED
    BY <2>1, <2>2, <2>3
<1>11. ASSUME OneStatus(l), NEW hosts \in {moved, kept, removed}
       PROVE  /\ OneStatus(hosts)
              /\ \A i \in DOMAIN hosts : hosts[i].status = "ACTIVE" => i \in DOMAIN l /\ hosts[i] = l[i]
  <2>1. \A status \in {"PENDING", "INACTIVE"} : \A h \in Hosts :
          LET new == append_host_to_list(l, h, status)
          IN  /\ OneStatus(new)
              /\ \A i \in DOMAIN new : new[i].status = "ACTIVE" => i \in DOMAIN l /\ new[i] = l[i]
    BY <1>8, <1>11, StatusChanged
  <2>2. left \in Seq(Entries)
    BY <1>6, <1>8, <1>9, HostAppended
  <2>3. /\ OneStatus(left)
        /\ \A i \in DOMAIN left : left[i].status = "ACTIVE" => i \in DOMAIN l /\ left[i] = l[i]
    BY <1>6, <1>9, <2>1
  <2>4. /\ OneStatus(moved)
        /\ \A i \in DOMAIN moved : moved[i].status = "ACTIVE" => i \in DOMAIN left /\ moved[i] = left[i]
    BY <1>6, <1>9, <2>2, <2>3, StatusChanged
  <2>5. \A i \in DOMAIN moved : moved[i].status = "ACTIVE" => i \in DOMAIN l /\ moved[i] = l[i]
    BY <2>3, <2>4
  <2>6. /\ OneStatus(kept)
        /\ \A i \in DOMAIN kept : kept[i].status = "ACTIVE" => i \in DOMAIN l /\ kept[i] = l[i]
    BY <1>6, <1>9, <2>1
  <2>7. /\ OneStatus(removed)
        /\ \A i \in DOMAIN removed : removed[i].status = "ACTIVE" => i \in DOMAIN l /\ removed[i] = l[i]
    BY <1>6, <1>9, <2>1
  <2> QED
    BY <1>11, <2>4, <2>5, <2>6, <2>7
<1>12. CASE app' = app
  BY <1>1, <1>2, <1>3, <1>12, RestPlaced DEF Quiet, Undisturbed, Deploying
<1>13. ASSUME NEW hosts \in {moved, kept, removed}, app' = [app EXCEPT !.hosts[s.comp] = hosts]
       PROVE  PlacedInv'
  <2>1. /\ app'.manifests = app.manifests /\ app'.known = app.known /\ app'.here = app.here
        /\ app'.hosts = [app.hosts EXCEPT ![s.comp] = hosts]
    BY <1>1, <1>13 DEF Apps
  <2>2. Quiet' <=> Quiet
    BY <1>2, <2>1 DEF Quiet, Undisturbed
  <2>3. PICK G : G = app'.hosts
    OBVIOUS
  <2>4. G[s.comp] = hosts /\ \A c \in Comps : c # s.comp => G[c] = app.hosts[c]
    BY <1>6, <1>8, <2>1, <2>3
  <2>5. ASSUME Quiet
        PROVE  /\ NamedApart(app.manifests) /\ SameStatus(app.hosts)
               /\ announced => ActiveRuns(app.hosts, app.manifests, pods)
    BY <1>1, <2>5 DEF PlacedInv, TablesAgree, Deploying
  <2>6. ASSUME SameStatus(app.hosts)
        PROVE  /\ OneStatus(hosts)
               /\ \A i \in DOMAIN hosts : hosts[i].status = "ACTIVE" => i \in DOMAIN l /\ hosts[i] = l[i]
    BY <1>6, <1>7, <1>11, <1>13, <2>6 DEF SameStatus
  <2>7. ASSUME SameStatus(app.hosts)
        PROVE  SameStatus(G)
    BY <2>4, <2>6, <2>7 DEF SameStatus
  <2>8. ASSUME SameStatus(app.hosts), ActiveRuns(app.hosts, app.manifests, pods)
        PROVE  ActiveRuns(G, app.manifests, pods)
    <3>1. ASSUME NEW c \in Comps, NEW i \in DOMAIN G[c], G[c][i].status = "ACTIVE"
          PROVE  i \in DOMAIN app.hosts[c] /\ G[c][i] = app.hosts[c][i]
      BY <1>7, <2>4, <2>6, <2>8, <3>1
    <3> QED
      BY <2>8, <3>1 DEF ActiveRuns
  <2> QED
    BY <1>2, <1>3, <2>1, <2>2, <2>3, <2>5, <2>7, <2>8, Agreeing
<1> QED
  BY <1>10, <1>12, <1>13

LEMMA ChangePlaced ==
  ASSUME TypeOK, PlacedInv, ActChangeSpec \/ DeleteOldPod, RemovalInv
  PROVE  PlacedInv'
<1>1. CASE respecified'
  BY <1>1, NotQuiet DEF Quiet, Undisturbed
<1>2. CASE ~respecified'
  <2>1. ~DeleteOldPod
    <3>1. DeleteOldPod => respecified /\ respecified' = respecified
      BY Zenon DEF DeleteOldPod, RemovalInv, Respecifies, historyVars
    <3> QED
      BY <1>2, <3>1
  <2>2. /\ handler.at = "acting" /\ handler \in Workers
        /\ UNCHANGED <<disordered, replanned, announced>>
    BY <2>1, Worker DEF ActChangeSpec, envVars
  <2>3. PICK name :
          \/ (Finish("FAILED") \/ Raise) /\ UNCHANGED <<app, pods, api_error, respecified, faults>>
          \/ CreateFails(name) /\ FailAndRestore
    BY <1>2, <2>1 DEF ActChangeSpec
  <2>4. CASE (Finish("FAILED") \/ Raise) /\ UNCHANGED <<app, pods, api_error, respecified, faults>>
    <3>1. Resting'
      BY <2>2, <2>4, Stopped, FinishLooks DEF Resting
    <3> QED
      BY <2>2, <2>4, <3>1, RestPlaced DEF Quiet, Undisturbed, Deploying
  <2>5. CASE CreateFails(name) /\ FailAndRestore
    BY <2>5, CallsMade, NotQuiet
  <2> QED
    BY <2>3, <2>4, <2>5
<1> QED
  BY <1>1, <1>2

\* Hosts leave the lists, and pods and manifests stay.
LEMMA FewerHosts ==
  ASSUME NEW H, NEW G, NEW M, NEW P,
         \A c \in Comps : \A i \in DOMAIN G[c] : \E j \in DOMAIN H[c] : G[c][i] = H[c][j]
  PROVE  /\ SameStatus(H) => SameStatus(G)
         /\ ActiveRuns(H, M, P) => ActiveRuns(G, M, P)
         /\ \A status : NoHost(H, status) => NoHost(G, status)
<1>1. SameStatus(H) => SameStatus(G)
  <2> SUFFICES ASSUME SameStatus(H), NEW c \in Comps, NEW i \in DOMAIN G[c], NEW j \in DOMAIN G[c],
                      G[c][i].host = G[c][j].host
               PROVE  G[c][i].status = G[c][j].status
    BY DEF SameStatus, OneStatus
  <2>1. PICK k \in DOMAIN H[c] : G[c][i] = H[c][k]
    OBVIOUS
  <2>2. PICK l \in DOMAIN H[c] : G[c][j] = H[c][l]
    OBVIOUS
  <2> QED
    BY <2>1, <2>2 DEF SameStatus, OneStatus
<1>2. ActiveRuns(H, M, P) => ActiveRuns(G, M, P)
  <2> SUFFICES ASSUME ActiveRuns(H, M, P), NEW c \in Comps, NEW i \in DOMAIN G[c], G[c][i].status = "ACTIVE"
               PROVE  HasPod(P, c, G[c][i].host) \/ WillHavePod(M, c, G[c][i].host)
    BY DEF ActiveRuns
  <2>1. PICK k \in DOMAIN H[c] : G[c][i] = H[c][k]
    OBVIOUS
  <2> QED
    BY <2>1 DEF ActiveRuns
<1>3. \A status : NoHost(H, status) => NoHost(G, status)
  BY DEF NoHost
<1> QED
  BY <1>1, <1>2, <1>3

LEMMA Remain ==
  ASSUME TypeOK, app.known, NEW c \in Comps
  PROVE  \A i \in DOMAIN RemainingHosts(c) :
           /\ \E j \in DOMAIN app.hosts[c] : RemainingHosts(c)[i] = app.hosts[c][j]
           /\ RemainingHosts(c)[i].status # "INACTIVE"
<1>1. PICK l, T : l = app.hosts[c] /\ T = {e \in Entries : e.status # "INACTIVE"}
  OBVIOUS
<1>2. l \in Seq(Entries) /\ RemainingHosts(c) = Filter(l, T)
  BY <1>1, TableTypes DEF RemainingHosts
<1>3. \A i \in DOMAIN Filter(l, T) : Filter(l, T)[i] \in T /\ \E j \in DOMAIN l : Filter(l, T)[i] = l[j]
  BY <1>2, Filtered
<1> QED
  BY <1>1, <1>2, <1>3

LEMMA FinishPlaced ==
  ASSUME TypeOK, PlacedInv, FinishPlan
  PROVE  PlacedInv'
<1>1. handler.at = "deleting" /\ handler \in Workers /\ app.known /\ app \in Apps
  BY Worker, Basics, KnownApp DEF FinishPlan
<1>2. /\ UNCHANGED <<pods, announced, disordered, replanned, api_error, respecified, faults>> /\ Finish("COMPLETED")
  BY DEF FinishPlan, historyVars, envVars
<1>3. handler'.at = "reply"
  BY <1>1, <1>2, FinishLooks
<1>4. PICK H : H = [c \in Comps |-> RemainingHosts(c)]
  OBVIOUS
<1>5. /\ app'.known = app.known /\ app'.here = app.here /\ app'.manifests = app.manifests
      /\ app'.hosts = H
  <2>1. app' = [app EXCEPT !.hosts = H]
    BY <1>4 DEF FinishPlan
  <2> QED
    BY <1>1, <2>1 DEF Apps
<1>6. \A c \in Comps : \A i \in DOMAIN H[c] :
        H[c][i].status # "INACTIVE" /\ \E j \in DOMAIN app.hosts[c] : H[c][i] = app.hosts[c][j]
  BY <1>1, <1>4, Remain
<1>7. /\ SameStatus(app.hosts) => SameStatus(H)
      /\ ActiveRuns(app.hosts, app.manifests, pods) => ActiveRuns(H, app.manifests, pods)
      /\ NoHost(app.hosts, "PENDING") => NoHost(H, "PENDING")
  BY <1>6, FewerHosts
<1>8. NoHost(H, "INACTIVE")
  BY <1>6 DEF NoHost
<1>9. Quiet' <=> Quiet
  BY <1>2, <1>5 DEF Quiet, Undisturbed
<1>10. NoHost(H, "PENDING") /\ AllCreated(app.manifests) =>
         /\ NoHostOf(Scope', H, "PENDING") /\ NoHostOf(Scope', H, "INACTIVE")
         /\ AllCreatedOf(Scope', app.manifests)
  BY <1>8, OfAll
<1> QED
  BY <1>1, <1>2, <1>3, <1>5, <1>7, <1>9, <1>10
  DEF PlacedInv, TablesAgree, InitialPlanBegun, LaterPlanWorked, Settled, Deploying

\* PENDING hosts become ACTIVE, each with a manifest that waits for its pod.
LEMMA StartDeployingPlaced ==
  ASSUME TypeOK, PlacedInv, StartDeploying
  PROVE  PlacedInv'
<1>1. handler.at = "acting" /\ handler \in Workers /\ app.known /\ app \in Apps
  BY Worker, Basics, KnownApp DEF StartDeploying
<1>2. /\ UNCHANGED <<pods, announced, disordered, replanned, api_error, respecified, faults>>
      /\ handler' = [handler EXCEPT !.at = "creating"]
      /\ next_pod' = next_pod + NamesBefore(NumComps + 1)
  BY DEF StartDeploying, historyVars, envVars
<1>3. handler'.at = "creating"
  <2>1. Looks(handler', "creating", handler.todo, handler.pod, handler.report)
    BY <1>1, <1>2, WorkerLooks, Zenon
  <2> QED
    BY <2>1 DEF Looks
<1>4. PICK M, H, N : /\ M = app.manifests /\ H = app.hosts
                     /\ N = [c \in Comps |-> app.manifests[c] \o AdjustedManifests(c)]
  OBVIOUS
<1> DEFINE new(c, i) == IF app.hosts[c][i].status = "PENDING"
                        THEN [app.hosts[c][i] EXCEPT !.status = "ACTIVE"] ELSE app.hosts[c][i]
<1>5. PICK G : G = [c \in Comps |-> [i \in DOMAIN app.hosts[c] |-> new(c, i)]]
  OBVIOUS
<1>6. app' = [app EXCEPT !.manifests = N, !.hosts = G]
  BY <1>4, <1>5 DEF StartDeploying
<1>7. app'.known = app.known /\ app'.here = app.here /\ app'.manifests = N /\ app'.hosts = G
  BY <1>1, <1>6 DEF Apps
<1>8. Quiet' <=> Quiet
  BY <1>2, <1>7 DEF Quiet, Undisturbed
<1>9. ASSUME NEW c \in Comps, NEW i \in DOMAIN H[c]
      PROVE  /\ new(c, i).host = H[c][i].host
             /\ new(c, i).status = IF H[c][i].status = "PENDING" THEN "ACTIVE" ELSE H[c][i].status
  <2>1. H[c][i] \in Entries
    BY <1>1, <1>4, <1>9, TableTypes
  <2> QED
    BY <1>4, <2>1 DEF Entries
<1> HIDE DEF new
<1>10. \A c \in Comps :
         /\ DOMAIN G[c] = DOMAIN H[c]
         /\ \A i \in DOMAIN H[c] :
              /\ G[c][i].host = H[c][i].host
              /\ G[c][i].status = IF H[c][i].status = "PENDING" THEN "ACTIVE" ELSE H[c][i].status
  BY <1>4, <1>5, <1>9
<1>11. SameStatus(H) => SameStatus(G)
  <2> SUFFICES ASSUME SameStatus(H), NEW c \in Comps, NEW i \in DOMAIN G[c], NEW j \in DOMAIN G[c],
                      G[c][i].host = G[c][j].host
               PROVE  G[c][i].status = G[c][j].status
    BY DEF SameStatus, OneStatus
  <2>1. H[c][i].status = H[c][j].status
    BY <1>10 DEF SameStatus, OneStatus
  <2> QED
    BY <1>10, <2>1
<1>12. NoHost(G, "PENDING")
  BY <1>10 DEF NoHost
<1>13. ASSUME NEW c \in Comps
       PROVE  /\ \A j \in DOMAIN AdjustedManifests(c) :
                   \E k \in Nat : /\ k = next_pod + NamesBefore(c) + j - 1 /\ k >= next_pod
                                  /\ AdjustedManifests(c)[j].name = PodName(c, k)
              /\ \A i \in DOMAIN H[c] : H[c][i].status = "PENDING" =>
                   \E j \in DOMAIN AdjustedManifests(c) :
                     AdjustedManifests(c)[j].status = "PENDING" /\ AdjustedManifests(c)[j].host = H[c][i].host
  <2>1. PICK T, l, A : /\ T = {e \in Entries : e.status = "PENDING"} /\ l = PendingHosts(c)
                       /\ A = AdjustedManifests(c)
    OBVIOUS
  <2>2. l = Filter(H[c], T) /\ H[c] \in Seq(Entries)
    BY <1>1, <1>4, <2>1, TableTypes DEF PendingHosts
  <2>3. l \in Seq(Entries) /\ \A i \in DOMAIN H[c] : H[c][i] \in T => \E j \in DOMAIN l : l[j] = H[c][i]
    BY <2>2, Filtered
  <2>4. /\ DOMAIN A = DOMAIN l
        /\ \A j \in DOMAIN l :
             A[j] = Manifest(PodName(c, next_pod + NamesBefore(c) + j - 1), l[j].host, "PENDING")
    BY <2>1 DEF AdjustedManifests
  <2>5. \A n, h : Manifest(n, h, "PENDING").name = n /\ Manifest(n, h, "PENDING").host = h
                  /\ Manifest(n, h, "PENDING").status = "PENDING"
    BY DEF Manifest
  <2>6. ASSUME NEW j \in DOMAIN A
        PROVE  \E k \in Nat : /\ k = next_pod + NamesBefore(c) + j - 1 /\ k >= next_pod
                              /\ A[j].name = PodName(c, k)
    <3>1. PICK k : k = next_pod + NamesBefore(c) + j - 1
      OBVIOUS
    <3>2. A[j].name = PodName(c, k)
      BY <2>4, <2>5, <2>6, <3>1
    <3>3. NamesBefore(c) \in Nat /\ next_pod \in Nat /\ j \in Nat /\ j > 0
      <4>1. j \in 1..Len(l) /\ Len(l) \in Nat
        BY <2>3, <2>4, <2>6
      <4> QED
        BY <1>1, <4>1, NewNames, Basics
    <3>4. k \in Nat /\ k >= next_pod
      BY <3>1, <3>3
    <3> QED
      BY <3>1, <3>2, <3>4
  <2>7. ASSUME NEW i \in DOMAIN H[c], H[c][i].status = "PENDING"
        PROVE  \E j \in DOMAIN A : A[j].status = "PENDING" /\ A[j].host = H[c][i].host
    <3>1. H[c][i] \in T
      BY <1>1, <1>4, <2>1, <2>7, TableTypes
    <3>2. PICK j \in DOMAIN l : l[j] = H[c][i]
      BY <2>3, <3>1
    <3> QED
      BY <2>4, <2>5, <3>2
  <2> QED
    BY <2>1, <2>6, <2>7
<1>14. ASSUME NEW c \in Comps
       PROVE  /\ \A i \in DOMAIN M[c] : i \in DOMAIN N[c] /\ N[c][i] = M[c][i]
              /\ \A i \in DOMAIN N[c] :
                   \/ i \in DOMAIN M[c] /\ N[c][i] = M[c][i]
                   \/ \E j \in DOMAIN AdjustedManifests(c) :
                        i = Len(M[c]) + j /\ N[c][i] = AdjustedManifests(c)[j]
              /\ \A j \in DOMAIN AdjustedManifests(c) :
                   Len(M[c]) + j \in DOMAIN N[c] /\ N[c][Len(M[c]) + j] = AdjustedManifests(c)[j]
              /\ Len(M[c]) \in Nat /\ DOMAIN AdjustedManifests(c) \subseteq Nat
  <2>1. PICK s, t : s = M[c] /\ t = AdjustedManifests(c)
    OBVIOUS
  <2>2. s \in Seq(ManifestsOf(Names)) /\ t \in Seq(ManifestsOf(Names'))
    BY <1>1, <1>2, <1>4, <2>1, TableTypes, AdjustedType
  <2>3. PICK S : S = ManifestsOf(Names) \union ManifestsOf(Names')
    OBVIOUS
  <2>4. s \in Seq(S) /\ t \in Seq(S) /\ N[c] = s \o t
    BY <1>4, <2>1, <2>2, <2>3, SeqGrows
  <2>5. /\ DOMAIN N[c] = 1..(Len(s) + Len(t))
        /\ \A i \in 1..(Len(s) + Len(t)) : N[c][i] = IF i <= Len(s) THEN s[i] ELSE t[i - Len(s)]
    BY <2>4, Concatenated
  <2>6. /\ Len(s) \in Nat /\ Len(t) \in Nat /\ DOMAIN s = 1..Len(s) /\ DOMAIN t = 1..Len(t)
    BY <2>2
  <2>7. \A i \in DOMAIN s : i \in DOMAIN N[c] /\ N[c][i] = s[i]
    BY <2>5, <2>6
  <2>8. ASSUME NEW i \in DOMAIN N[c]
        PROVE  \/ i \in DOMAIN s
               \/ \E j \in DOMAIN t : i = Len(s) + j /\ N[c][i] = t[j]
    <3>1. CASE i <= Len(s)
      BY <2>5, <2>6, <2>8, <3>1
    <3>2. CASE ~(i <= Len(s))
      <4>1. i - Len(s) \in DOMAIN t /\ i = Len(s) + (i - Len(s))
        BY <2>5, <2>6, <2>8, <3>2
      <4>2. N[c][i] = t[i - Len(s)]
        BY <2>5, <2>8, <3>2
      <4> QED
        BY <4>1, <4>2
    <3> QED
      BY <3>1, <3>2
  <2>9. ASSUME NEW j \in DOMAIN t
        PROVE  Len(s) + j \in DOMAIN N[c] /\ N[c][Len(s) + j] = t[j]
    <3>1. Len(s) + j \in 1..(Len(s) + Len(t)) /\ ~(Len(s) + j <= Len(s)) /\ Len(s) + j - Len(s) = j
      BY <2>6, <2>9
    <3> QED
      BY <2>5, <3>1
  <2> QED
    BY <2>1, <2>6, <2>7, <2>8, <2>9
<1>15. ASSUME NamedApart(M)
       PROVE  NamedApart(N)
  <2> SUFFICES ASSUME NEW c \in Comps, NEW d \in Comps, NEW i \in DOMAIN N[c], NEW j \in DOMAIN N[d],
                      N[c][i].name = N[d][j].name
               PROVE  c = d /\ i = j
    BY DEF NamedApart
  <2>1. \A e \in Comps : \A k \in DOMAIN M[e] : \A b \in Comps : \A l \in DOMAIN AdjustedManifests(b) :
          M[e][k].name # AdjustedManifests(b)[l].name
    <3> SUFFICES ASSUME NEW e \in Comps, NEW k \in DOMAIN M[e], NEW b \in Comps,
                        NEW l \in DOMAIN AdjustedManifests(b)
                 PROVE  M[e][k].name # AdjustedManifests(b)[l].name
      OBVIOUS
    <3>1. PICK n \in Nat : n >= next_pod /\ AdjustedManifests(b)[l].name = PodName(b, n)
      BY <1>13
    <3> QED
      BY <1>1, <1>4, <3>1, NewName
  <2>2. CASE i \in DOMAIN M[c] /\ N[c][i] = M[c][i] /\ j \in DOMAIN M[d] /\ N[d][j] = M[d][j]
    BY <1>15, <2>2 DEF NamedApart
  <2>3. ASSUME NEW k \in DOMAIN AdjustedManifests(c), NEW l \in DOMAIN AdjustedManifests(d),
               i = Len(M[c]) + k, N[c][i] = AdjustedManifests(c)[k],
               j = Len(M[d]) + l, N[d][j] = AdjustedManifests(d)[l]
        PROVE  c = d /\ i = j
    <3>1. PICK m \in Nat : m = next_pod + NamesBefore(c) + k - 1 /\ AdjustedManifests(c)[k].name = PodName(c, m)
      BY <1>13
    <3>2. PICK n \in Nat : n = next_pod + NamesBefore(d) + l - 1 /\ AdjustedManifests(d)[l].name = PodName(d, n)
      BY <1>13
    <3>3. c = d /\ m = n
      BY <2>3, <3>1, <3>2 DEF PodName
    <3>4. k \in Nat /\ l \in Nat /\ NamesBefore(c) \in Nat /\ next_pod \in Nat
      BY <1>1, <1>14, NewNames, Basics
    <3>5. k = l
      BY <3>1, <3>2, <3>3, <3>4
    <3> QED
      BY <2>3, <3>3, <3>5
  <2>4. \/ i \in DOMAIN M[c] /\ N[c][i] = M[c][i]
        \/ \E k \in DOMAIN AdjustedManifests(c) : i = Len(M[c]) + k /\ N[c][i] = AdjustedManifests(c)[k]
    BY <1>14
  <2>5. \/ j \in DOMAIN M[d] /\ N[d][j] = M[d][j]
        \/ \E l \in DOMAIN AdjustedManifests(d) : j = Len(M[d]) + l /\ N[d][j] = AdjustedManifests(d)[l]
    BY <1>14
  <2> QED
    BY <2>1, <2>2, <2>3, <2>4, <2>5
<1>16. ASSUME ActiveRuns(H, M, pods)
       PROVE  ActiveRuns(G, N, pods)
  <2> SUFFICES ASSUME NEW c \in Comps, NEW i \in DOMAIN G[c], G[c][i].status = "ACTIVE"
               PROVE  HasPod(pods, c, G[c][i].host) \/ WillHavePod(N, c, G[c][i].host)
    BY DEF ActiveRuns
  <2>1. i \in DOMAIN H[c] /\ G[c][i].host = H[c][i].host
    BY <1>10
  <2>2. CASE H[c][i].status = "PENDING"
    <3>1. PICK j \in DOMAIN AdjustedManifests(c) :
            AdjustedManifests(c)[j].status = "PENDING" /\ AdjustedManifests(c)[j].host = H[c][i].host
      BY <1>13, <2>1, <2>2
    <3> QED
      BY <1>14, <2>1, <3>1 DEF WillHavePod
  <2>3. CASE H[c][i].status # "PENDING"
    <3>1. H[c][i].status = "ACTIVE"
      BY <1>10, <2>1, <2>3
    <3>2. HasPod(pods, c, H[c][i].host) \/ WillHavePod(M, c, H[c][i].host)
      BY <1>16, <2>1, <3>1 DEF ActiveRuns
    <3>3. WillHavePod(M, c, H[c][i].host) => WillHavePod(N, c, H[c][i].host)
      BY <1>14 DEF WillHavePod
    <3> QED
      BY <2>1, <3>2, <3>3
  <2> QED
    BY <2>2, <2>3
<1> QED
  BY <1>1, <1>2, <1>3, <1>4, <1>7, <1>8, <1>11, <1>12, <1>15, <1>16
  DEF PlacedInv, TablesAgree, InitialPlanBegun, LaterPlanWorked, Settled, Deploying

LEMMA LeftOut ==
  ASSUME NEW S, NEW s \in Seq(S), NEW i \in DOMAIN s
  PROVE  /\ \A j \in DOMAIN RemoveAt(s, i) : \E k \in DOMAIN s :
              k # i /\ k = (IF j < i THEN j ELSE j + 1) /\ RemoveAt(s, i)[j] = s[k]
         /\ \A k \in DOMAIN s : k # i => \E j \in DOMAIN RemoveAt(s, i) : RemoveAt(s, i)[j] = s[k]
         /\ DOMAIN RemoveAt(s, i) \subseteq Nat /\ i \in Nat
<1>1. PICK t : t = RemoveAt(s, i)
  OBVIOUS
<1>2. /\ t \in Seq(S) /\ Len(t) = Len(s) - 1
      /\ \A j \in DOMAIN t : t[j] = IF j < i THEN s[j] ELSE s[j + 1]
  BY <1>1, Removed
<1>3. Len(s) \in Nat /\ DOMAIN s = 1..Len(s) /\ DOMAIN t = 1..(Len(s) - 1)
  BY <1>2
<1>4. ASSUME NEW j \in DOMAIN t
      PROVE  \E k \in DOMAIN s : k # i /\ k = (IF j < i THEN j ELSE j + 1) /\ t[j] = s[k]
  BY <1>2, <1>3
<1>5. ASSUME NEW k \in DOMAIN s, k # i
      PROVE  \E j \in DOMAIN t : t[j] = s[k]
  <2>1. CASE k < i
    <3>1. k \in DOMAIN t /\ t[k] = s[k]
      BY <1>2, <1>3, <2>1
    <3> QED
      BY <3>1
  <2>2. CASE ~(k < i)
    <3>1. k - 1 \in DOMAIN t /\ ~(k - 1 < i) /\ k - 1 + 1 = k
      BY <1>3, <1>5, <2>2
    <3>2. t[k - 1] = s[k]
      BY <1>2, <3>1
    <3> QED
      BY <3>1, <3>2
  <2> QED
    BY <2>1, <2>2
<1> QED
  BY <1>1, <1>3, <1>4, <1>5

\* The hosts of a component whose steps have begun: those with a step that waits are PENDING.
LEMMA InitialStatus ==
  ASSUME handler.steps \in Seq(Steps), NEW c \in Comps, NEW todo
  PROVE  \A i \in DOMAIN InitialHosts(c, todo) :
           /\ InitialHosts(c, todo)[i].status \in {"PENDING", "ACTIVE"}
           /\ \E k \in DOMAIN handler.steps :
                /\ handler.steps[k].comp = c /\ handler.steps[k].host = InitialHosts(c, todo)[i].host
                /\ InitialHosts(c, todo)[i].status = "PENDING" <=>
                     \E j \in DOMAIN todo : todo[j] = handler.steps[k]
<1>1. PICK entries, waiting : /\ entries = StepsOf(handler.steps, c)
                              /\ waiting = {todo[i] : i \in DOMAIN todo}
  OBVIOUS
<1> DEFINE status(i) == IF entries[i] \in waiting THEN "PENDING" ELSE "ACTIVE"
<1>2. InitialHosts(c, todo) = [i \in DOMAIN entries |-> [host |-> entries[i].host, status |-> status(i)]]
  BY <1>1 DEF InitialHosts
<1>3. \A i \in DOMAIN entries :
        entries[i].comp = c /\ \E k \in DOMAIN handler.steps : entries[i] = handler.steps[k]
  BY <1>1, StepsOfType
<1>4. ASSUME NEW i \in DOMAIN entries
      PROVE  /\ status(i) \in {"PENDING", "ACTIVE"}
             /\ status(i) = "PENDING" <=> \E j \in DOMAIN todo : todo[j] = entries[i]
  BY <1>1
<1> HIDE DEF status
<1>5. ASSUME NEW i \in DOMAIN InitialHosts(c, todo)
      PROVE  i \in DOMAIN entries /\ InitialHosts(c, todo)[i].host = entries[i].host
             /\ InitialHosts(c, todo)[i].status = status(i)
  BY <1>2, <1>5
<1> QED
  BY <1>3, <1>4, <1>5

LEMMA DeployPlaced ==
  ASSUME TypeOK, RemovalInv, PlacedInv, DeployInstance
  PROVE  PlacedInv'
<1>1. /\ handler.at = "deploying" /\ handler \in Workers
      /\ handler.todo \in Seq(Steps) /\ handler.steps \in Seq(Steps)
      /\ app.known /\ app \in Apps
  BY Worker, Basics, KnownApp DEF DeployInstance
<1>2. UNCHANGED <<announced, disordered, replanned, respecified>>
  BY DEF DeployInstance, historyVars, envVars
<1>3. PICK i, c, h, todo, name, hosts, a :
        Deploys(i, c, h, todo, name, hosts, a)
  BY DeployParts
<1>4. /\ i \in DOMAIN handler.todo /\ c = handler.todo[i].comp /\ h = handler.todo[i].host
      /\ todo = RemoveAt(handler.todo, i) /\ hosts = InitialHosts(c, todo)
      /\ name = PodName(c, next_pod)
      /\ a = [app EXCEPT !.hosts[c] = hosts]
  BY <1>3 DEF Deploys
<1>5. c \in Comps
  <2>1. handler.todo[i] \in Steps
    BY <1>1, <1>4
  <2> QED
    BY <1>4, <2>1 DEF Steps
<1>6. CASE CreateFails(name) /\ Finish("FAILED")
  BY <1>6, CallsMade, NotQuiet
<1>7. CASE /\ CreateOk([name |-> name, host |-> h])
           /\ app' = [a EXCEPT !.manifests[c] = Append(@, Manifest(name, h, "ACTIVE")),
                               !.pod_names = @ \union {name}]
           /\ handler' = [handler EXCEPT !.todo = todo, !.report.placed = @ \union {name}]
  <2>1. PICK m, p, M, N, H, G :
          /\ m = Manifest(name, h, "ACTIVE") /\ p = [name |-> name, host |-> h]
          /\ M = app.manifests /\ N = app'.manifests /\ H = app.hosts /\ G = app'.hosts
    OBVIOUS
  <2>2. /\ m.name = name /\ m.status = "ACTIVE" /\ p.name = name /\ p.host = h /\ name.comp = c
    BY <1>4, <2>1 DEF Manifest, PodName
  <2>3. pods' = pods \union {p} /\ UNCHANGED <<api_error, faults>>
    BY <1>7, <2>1, PodsAfter, CallsMade
  <2>4. M \in [Comps -> Seq(ManifestsOf(Names))] /\ H \in [Comps -> Seq(Entries)]
    BY <1>1, <2>1, KnownApp, AppFields
  <2>5. PICK list, names : list = Append(M[c], m) /\ names = app.pod_names \union {name}
    OBVIOUS
  <2>6. /\ a.known = app.known /\ a.here = app.here /\ a.manifests = M /\ a.pod_names = app.pod_names
        /\ a.hosts = [H EXCEPT ![c] = hosts]
        /\ DOMAIN a = {"known", "here", "hosts", "manifests", "pod_names"}
    BY <1>1, <1>4, <2>1 DEF Apps
  <2>7. app' = [a EXCEPT !.manifests[c] = list, !.pod_names = names]
    BY <1>7, <2>1, <2>5, <2>6
  <2>8. /\ app'.known = app.known /\ app'.here = app.here
        /\ N = [M EXCEPT ![c] = list] /\ G = [H EXCEPT ![c] = hosts]
    BY <2>1, <2>6, <2>7
  <2>9. PICK k : k = Len(M[c]) + 1
    OBVIOUS
  <2>10. /\ DOMAIN N[c] = DOMAIN M[c] \union {k} /\ N[c][k] = m
         /\ \A l \in DOMAIN M[c] : N[c][l] = M[c][l]
         /\ \A d \in Comps : d # c => N[d] = M[d]
    <3>1. N[c] = list /\ \A d \in Comps : d # c => N[d] = M[d]
      BY <1>5, <2>4, <2>8
    <3>2. PICK S : S = ManifestsOf(Names) \union {m}
      OBVIOUS
    <3>3. M[c] \in Seq(S) /\ m \in S
      BY <1>5, <2>4, <3>2, SeqGrows
    <3>4. /\ DOMAIN list = DOMAIN M[c] \union {k} /\ list[k] = m
          /\ \A l \in DOMAIN M[c] : list[l] = M[c][l]
      BY <2>5, <2>9, <3>3, Appended
    <3> QED
      BY <3>1, <3>4
  <2>11. G[c] = hosts /\ \A d \in Comps : d # c => G[d] = H[d]
    BY <1>5, <2>4, <2>8
  <2>12. /\ handler'.at = "deploying" /\ handler'.todo = todo /\ handler'.steps = handler.steps
         /\ handler'.initial = handler.initial
    <3>1. PICK report : report = [handler.report EXCEPT !.placed = @ \union {name}]
      OBVIOUS
    <3>2. handler' = [handler EXCEPT !.todo = todo, !.report = report]
      BY <1>7, <3>1
    <3>3. Looks(handler', handler.at, todo, handler.pod, report)
      BY <1>1, <3>2, WorkerLooks, Zenon
    <3> QED
      BY <1>1, <3>3 DEF Looks
  <2>13. Quiet' <=> Quiet
    BY <1>2, <2>3, <2>8 DEF Quiet, Undisturbed
  <2>14. PICK C : C = Concerned(handler.steps)
    OBVIOUS
  <2>15. ASSUME Quiet
         PROVE  /\ NamedApart(M) /\ (announced => ActiveRuns(H, M, pods)) /\ handler.initial
                /\ Begun(H, pods, handler.todo, handler.steps)
                /\ NoHostOf(C, H, "INACTIVE") /\ AllCreatedOf(C, M)
                /\ \A d \in Comps \ C : OneStatus(H[d])
    BY <1>1, <2>1, <2>15, <2>14 DEF PlacedInv, TablesAgree, InitialPlanBegun, Deploying
  <2>16. NamedApart(M) => NamedApart(N)
    <3> SUFFICES ASSUME NamedApart(M), NEW d \in Comps, NEW e \in Comps,
                        NEW j \in DOMAIN N[d], NEW l \in DOMAIN N[e], N[d][j].name = N[e][l].name
                 PROVE  d = e /\ j = l
      BY DEF NamedApart
    <3>1. \A b \in Comps : \A o \in DOMAIN M[b] : M[b][o].name # name
      <4>1. next_pod \in Nat /\ next_pod >= next_pod
        BY Basics
      <4> QED
        BY <1>1, <1>4, <2>1, <4>1, NewName
    <3>2. /\ (d = c /\ j = k) \/ (j \in DOMAIN M[d] /\ N[d][j] = M[d][j])
          /\ (e = c /\ l = k) \/ (l \in DOMAIN M[e] /\ N[e][l] = M[e][l])
      BY <2>10
    <3> QED
      BY <2>2, <2>10, <3>1, <3>2 DEF NamedApart
  <2>17. AllCreatedOf(C, M) => AllCreatedOf(C, N)
    BY <2>2, <2>10, <2>14 DEF AllCreatedOf, Concerned
  <2>18. /\ \A j \in DOMAIN todo : \E l \in DOMAIN handler.todo : todo[j] = handler.todo[l]
         /\ \A l \in DOMAIN handler.todo : l # i => \E j \in DOMAIN todo : todo[j] = handler.todo[l]
    BY <1>1, <1>4, LeftOut
  <2>19. \A d, x : HasPod(pods, d, x) => HasPod(pods', d, x)
    BY <2>3 DEF HasPod
  <2>20. ASSUME NEW j \in DOMAIN hosts
         PROVE  /\ hosts[j].status \in {"PENDING", "ACTIVE"}
                /\ \E o \in DOMAIN handler.steps :
                     /\ handler.steps[o].comp = c /\ handler.steps[o].host = hosts[j].host
                     /\ hosts[j].status = "PENDING" <=> \E l \in DOMAIN todo : todo[l] = handler.steps[o]
    BY <1>1, <1>4, <1>5, <2>20, InitialStatus
  <2>21. ASSUME Begun(H, pods, handler.todo, handler.steps)
         PROVE  Begun(G, pods', todo, handler.steps)
    <3>1. ASSUME NEW o \in DOMAIN handler.steps
          PROVE  \/ \E j \in DOMAIN todo : todo[j] = handler.steps[o]
                 \/ HasPod(pods', handler.steps[o].comp, handler.steps[o].host)
      <4>1. CASE handler.steps[o] = handler.todo[i]
        BY <1>4, <2>2, <2>3, <4>1 DEF HasPod
      <4>2. CASE handler.steps[o] # handler.todo[i]
        <5>1. CASE HasPod(pods, handler.steps[o].comp, handler.steps[o].host)
          BY <2>19, <5>1
        <5>2. CASE \E j \in DOMAIN handler.todo : handler.todo[j] = handler.steps[o]
          BY <2>18, <4>2, <5>2
        <5> QED
          BY <2>21, <5>1, <5>2 DEF Begun
      <4> QED
        BY <4>1, <4>2
    <3>2. ASSUME NEW d \in Comps, Concerns(handler.steps, d), NEW j \in DOMAIN G[d],
                 G[d][j].status = "PENDING"
          PROVE  \E l \in DOMAIN todo : todo[l].comp = d
      <4>1. CASE d = c
        <5>1. j \in DOMAIN hosts /\ hosts[j].status = "PENDING"
          BY <2>11, <3>2, <4>1
        <5> QED
          BY <2>20, <4>1, <5>1
      <4>2. CASE d # c
        <5>1. PICK l \in DOMAIN handler.todo : handler.todo[l].comp = d
          BY <2>11, <2>21, <3>2, <4>2 DEF Begun
        <5>2. l # i
          BY <1>4, <4>2, <5>1
        <5> QED
          BY <2>18, <5>1, <5>2
      <4> QED
        BY <4>1, <4>2
    <3> QED
      BY <3>1, <3>2 DEF Begun
  <2>22. NoHostOf(C, H, "INACTIVE") => NoHostOf(C, G, "INACTIVE")
    BY <2>11, <2>20, <2>14 DEF NoHostOf, Concerned
  <2>23. ASSUME ActiveRuns(H, M, pods), Begun(G, pods', todo, handler.steps)
         PROVE  ActiveRuns(G, N, pods')
    <3> SUFFICES ASSUME NEW d \in Comps, NEW j \in DOMAIN G[d], G[d][j].status = "ACTIVE"
                 PROVE  HasPod(pods', d, G[d][j].host) \/ WillHavePod(N, d, G[d][j].host)
      BY DEF ActiveRuns
    <3>1. CASE d = c
      <4>1. j \in DOMAIN hosts /\ hosts[j] = G[d][j] /\ hosts[j].status = "ACTIVE"
        BY <2>11, <3>1
      <4>2. PICK o \in DOMAIN handler.steps :
              /\ handler.steps[o].comp = c /\ handler.steps[o].host = hosts[j].host
              /\ ~\E l \in DOMAIN todo : todo[l] = handler.steps[o]
        BY <2>20, <4>1
      <4> QED
        BY <2>23, <3>1, <4>1, <4>2 DEF Begun
    <3>2. CASE d # c
      <4>1. G[d] = H[d] /\ N[d] = M[d]
        BY <2>10, <2>11, <3>2
      <4>2. HasPod(pods, d, H[d][j].host) \/ WillHavePod(M, d, H[d][j].host)
        BY <2>23, <4>1 DEF ActiveRuns
      <4>3. WillHavePod(M, d, H[d][j].host) => WillHavePod(N, d, H[d][j].host)
        BY <4>1 DEF WillHavePod
      <4> QED
        BY <2>19, <4>1, <4>2, <4>3
    <3> QED
      BY <3>1, <3>2
  <2>24. ASSUME Quiet
         PROVE  \A d \in Comps \ C : OneStatus(G[d])
    <3>1. Among(handler.todo, handler.steps)
      BY <1>1, <2>24 DEF RemovalInv, DeploysItsSteps, Quiet
    <3>2. c \in C
      BY <1>4, <1>5, <2>14, <3>1 DEF Among, Concerned, Concerns
    <3> QED
      BY <2>11, <2>15, <2>24, <3>2
  <2>25. ASSUME Quiet
         PROVE  /\ NamedApart(N) /\ (announced => ActiveRuns(G, N, pods')) /\ handler.initial
                /\ Begun(G, pods', todo, handler.steps) /\ NoHostOf(C, G, "INACTIVE")
                /\ AllCreatedOf(C, N) /\ \A d \in Comps \ C : OneStatus(G[d])
    <3>1. Begun(G, pods', todo, handler.steps)
      BY <2>15, <2>21, <2>25
    <3>2. announced => ActiveRuns(G, N, pods')
      BY <2>15, <2>23, <2>25, <3>1
    <3> QED
      BY <2>15, <2>16, <2>17, <2>22, <2>24, <2>25, <3>1, <3>2
  <2>26. TablesAgree'
    <3>1. Deploying'
      BY <2>12 DEF Deploying
    <3>2. Quiet' => NamedApart(app'.manifests) /\ (announced' => ActiveRuns(app'.hosts, app'.manifests, pods'))
      BY <1>2, <2>1, <2>13, <2>25
    <3> QED
      BY <3>1, <3>2 DEF TablesAgree
  <2>27. InitialPlanBegun'
    BY <2>1, <2>12, <2>13, <2>25, <2>14 DEF InitialPlanBegun
  <2> QED
    BY <2>12, <2>26, <2>27 DEF PlacedInv, LaterPlanWorked, Settled
<1> QED
  BY <1>3, <1>6, <1>7 DEF Deploys

\* A manifest that waits gets its pod.
LEMMA DeployNewPlaced ==
  ASSUME TypeOK, RemovalInv, PlacedInv, DeployNewPod
  PROVE  PlacedInv'
<1>1. handler.at = "creating" /\ handler \in Workers /\ app.known /\ app \in Apps
  BY Worker, Basics, KnownApp DEF DeployNewPod
<1>2. UNCHANGED <<announced, disordered, replanned, respecified>>
  BY DEF DeployNewPod, historyVars, envVars
<1>3. PICK c \in Comps : \E i \in DOMAIN app.manifests[c] :
        LET m == app.manifests[c][i]
        IN
        \/ /\ CreateOk([name |-> m.name, host |-> m.host])
           /\ app' = [app EXCEPT !.manifests[c][i].status = "ACTIVE",
                                 !.pod_names = @ \union {m.name}]
           /\ IF Planned(c)
              THEN /\ handler' = [handler EXCEPT !.report.placed = @ \union {m.name}]
                   /\ UNCHANGED answers
              ELSE Raise
        \/ CreateFails(m.name) /\ FailAndRestore /\ UNCHANGED answers
  BY Zenon DEF DeployNewPod
<1>4. PICK i \in DOMAIN app.manifests[c] :
        LET m == app.manifests[c][i]
        IN
        \/ /\ CreateOk([name |-> m.name, host |-> m.host])
           /\ app' = [app EXCEPT !.manifests[c][i].status = "ACTIVE",
                                 !.pod_names = @ \union {m.name}]
           /\ IF Planned(c)
              THEN /\ handler' = [handler EXCEPT !.report.placed = @ \union {m.name}]
                   /\ UNCHANGED answers
              ELSE Raise
        \/ CreateFails(m.name) /\ FailAndRestore /\ UNCHANGED answers
  BY Zenon, <1>3
<1>5. PICK m : m = app.manifests[c][i]
  OBVIOUS
<1>6. CASE CreateFails(m.name)
  BY <1>6, CallsMade, NotQuiet
<1>7. CASE /\ CreateOk([name |-> m.name, host |-> m.host])
           /\ app' = [app EXCEPT !.manifests[c][i].status = "ACTIVE", !.pod_names = @ \union {m.name}]
           /\ \/ handler' = [handler EXCEPT !.report.placed = @ \union {m.name}]
              \/ Raise
  <2>1. PICK p, M, N, H : /\ p = [name |-> m.name, host |-> m.host] /\ H = app.hosts
                          /\ M = app.manifests /\ N = app'.manifests
    OBVIOUS
  <2>2. p.name = m.name /\ p.host = m.host /\ pods' = pods \union {p} /\ UNCHANGED <<api_error, faults>>
    BY <1>7, <2>1, PodsAfter, CallsMade
  <2>3. M \in [Comps -> Seq(ManifestsOf(Names))] /\ M[c] \in Seq(ManifestsOf(Names))
    BY <1>1, <2>1, KnownApp, AppFields
  <2>4. PICK list, names : /\ list = [M[c] EXCEPT ![i].status = "ACTIVE"]
                           /\ names = app.pod_names \union {m.name}
    OBVIOUS
  <2>5. app' = [app EXCEPT !.manifests[c] = list, !.pod_names = names]
    BY <1>7, <2>1, <2>4
  <2>6. app'.known = app.known /\ app'.here = app.here /\ N = [M EXCEPT ![c] = list] /\ app'.hosts = H
    BY <1>1, <2>1, <2>5 DEF Apps
  <2>7. /\ DOMAIN list = DOMAIN M[c]
        /\ \A j \in DOMAIN M[c] : list[j].name = M[c][j].name /\ list[j].host = M[c][j].host
        /\ \A j \in DOMAIN M[c] : j # i => list[j].status = M[c][j].status
    <3>1. \A j \in DOMAIN M[c] : M[c][j] \in ManifestsOf(Names)
      BY <2>3
    <3>2. \A e \in ManifestsOf(Names) :
            [e EXCEPT !.status = "ACTIVE"].name = e.name /\ [e EXCEPT !.status = "ACTIVE"].host = e.host
      BY DEF ManifestsOf
    <3>3. \A j \in DOMAIN M[c] : list[j] = IF j = i THEN [M[c][j] EXCEPT !.status = "ACTIVE"] ELSE M[c][j]
      BY <2>3, <2>4
    <3> QED
      BY <2>4, <3>1, <3>2, <3>3
  <2>8. N[c] = list /\ \A d \in Comps : d # c => N[d] = M[d]
    BY <2>3, <2>6
  <2>9. handler'.at \in {"creating", "idle"}
    <3>1. CASE Raise
      BY <3>1 DEF Raise, Idle
    <3>2. CASE handler' = [handler EXCEPT !.report.placed = @ \union {m.name}]
      <4>1. PICK report : report = [handler.report EXCEPT !.placed = @ \union {m.name}]
        OBVIOUS
      <4>2. handler' = [handler EXCEPT !.report = report]
        BY <3>2, <4>1
      <4>3. Looks(handler', handler.at, handler.todo, handler.pod, report)
        BY <1>1, <4>2, WorkerLooks, Zenon
      <4> QED
        BY <1>1, <4>3 DEF Looks
    <3> QED
      BY <1>7, <3>1, <3>2
  <2>10. Quiet' <=> Quiet
    BY <1>2, <2>2, <2>6 DEF Quiet, Undisturbed
  <2>11. ASSUME Quiet
         PROVE  /\ NamedApart(M) /\ SameStatus(H) /\ NoHost(H, "PENDING") /\ m.name.comp = c
                /\ (announced => ActiveRuns(H, M, pods))
    <3>1. NamedApart(M) /\ SameStatus(H) /\ (announced => ActiveRuns(H, M, pods))
      BY <1>1, <2>1, <2>11 DEF PlacedInv, TablesAgree, Deploying
    <3>2. NoHost(H, "PENDING")
      BY <1>1, <2>1, <2>11 DEF PlacedInv, LaterPlanWorked
    <3>3. m.name.comp = c
      BY <1>4, <1>5, <2>11 DEF RemovalInv, InPlace, OnListed, Quiet
    <3> QED
      BY <3>1, <3>2, <3>3
  <2>12. NamedApart(M) => NamedApart(N)
    <3>1. \A d \in Comps : /\ DOMAIN N[d] = DOMAIN M[d]
                           /\ \A j \in DOMAIN M[d] : N[d][j].name = M[d][j].name
      BY <2>7, <2>8
    <3> QED
      BY <3>1 DEF NamedApart
  <2>13. ASSUME m.name.comp = c, NEW d \in Comps, NEW x, HasPod(pods, d, x) \/ WillHavePod(M, d, x)
         PROVE  HasPod(pods', d, x) \/ WillHavePod(N, d, x)
    <3>1. CASE HasPod(pods, d, x)
      BY <2>2, <3>1 DEF HasPod
    <3>2. CASE WillHavePod(M, d, x)
      <4>1. PICK j \in DOMAIN M[d] : M[d][j].status = "PENDING" /\ M[d][j].host = x
        BY <3>2 DEF WillHavePod
      <4>2. CASE d = c /\ j = i
        <5>1. m.host = x
          BY <1>5, <2>1, <4>1, <4>2
        <5> QED
          BY <2>2, <2>13, <4>2, <5>1 DEF HasPod
      <4>3. CASE ~(d = c /\ j = i)
        <5>1. j \in DOMAIN N[d] /\ N[d][j].status = "PENDING" /\ N[d][j].host = x
          BY <2>7, <2>8, <4>1, <4>3
        <5> QED
          BY <5>1 DEF WillHavePod
      <4> QED
        BY <4>2, <4>3
    <3> QED
      BY <2>13, <3>1, <3>2
  <2>14. ASSUME m.name.comp = c, ActiveRuns(H, M, pods)
         PROVE  ActiveRuns(H, N, pods')
    BY <2>13, <2>14 DEF ActiveRuns
  <2>15. ASSUME Quiet
         PROVE  NamedApart(N) /\ (announced => ActiveRuns(H, N, pods'))
    BY <2>11, <2>12, <2>14, <2>15
  <2>16. TablesAgree'
    BY <1>2, <2>1, <2>6, <2>10, <2>11, <2>15 DEF TablesAgree
  <2>17. LaterPlanWorked'
    BY <2>1, <2>6, <2>9, <2>10, <2>11 DEF LaterPlanWorked
  <2> QED
    BY <2>9, <2>16, <2>17 DEF PlacedInv, InitialPlanBegun, Settled, Deploying
<1> QED
  BY <1>4, <1>5, <1>6, <1>7

\* No host that stays in use loses the pod that is deleted: it ran on a host that is not.
LEMMA DeleteUnusedPlaced ==
  ASSUME TypeOK, OrphanInv, RemovalInv, PlacedInv, DeleteUnusedPod
  PROVE  PlacedInv'
<1>1. handler.at = "deleting" /\ handler \in Workers /\ app.known /\ app \in Apps
  BY Worker, Basics, KnownApp DEF DeleteUnusedPod
<1>2. UNCHANGED <<announced, disordered, replanned, respecified>>
  BY DEF DeleteUnusedPod, historyVars, envVars
<1>3. PICK c \in Comps : \E i \in DOMAIN app.manifests[c] :
        LET n == app.manifests[c][i].name
        IN
        /\ IsFirst(<<c, i>>, ToDelete)
        /\ \/ /\ DeleteOk(n)
              /\ IF Planned(c)
                 THEN /\ app' = [app EXCEPT !.pod_names = @ \ {n}, !.manifests[c] = RemoveAt(@, i)]
                      /\ handler' = [handler EXCEPT !.report.placed = @ \ {n},
                                                    !.report.modified = @ \ {n},
                                                    !.report.removed = @ \union {n}]
                      /\ UNCHANGED answers
                 ELSE /\ app' = [app EXCEPT
                           !.pod_names = @ \ {n},
                           !.hosts = [d \in Comps |-> IF d < c THEN RemainingHosts(d) ELSE @[d]]]
                      /\ Raise
           \/ DeleteFails(n) /\ FailAndRestore /\ UNCHANGED answers
  BY Zenon DEF DeleteUnusedPod
<1>4. PICK i \in DOMAIN app.manifests[c] :
        LET n == app.manifests[c][i].name
        IN
        /\ IsFirst(<<c, i>>, ToDelete)
        /\ \/ /\ DeleteOk(n)
              /\ IF Planned(c)
                 THEN /\ app' = [app EXCEPT !.pod_names = @ \ {n}, !.manifests[c] = RemoveAt(@, i)]
                      /\ handler' = [handler EXCEPT !.report.placed = @ \ {n},
                                                    !.report.modified = @ \ {n},
                                                    !.report.removed = @ \union {n}]
                      /\ UNCHANGED answers
                 ELSE /\ app' = [app EXCEPT
                           !.pod_names = @ \ {n},
                           !.hosts = [d \in Comps |-> IF d < c THEN RemainingHosts(d) ELSE @[d]]]
                      /\ Raise
           \/ DeleteFails(n) /\ FailAndRestore /\ UNCHANGED answers
  BY Zenon, <1>3
<1>5. PICK m, n, M, H, names : /\ m = app.manifests[c][i] /\ n = m.name
                               /\ M = app.manifests /\ H = app.hosts /\ names = app.pod_names \ {n}
  OBVIOUS
<1>6. M \in [Comps -> Seq(ManifestsOf(Names))]
  BY <1>1, <1>5, KnownApp, AppFields
<1>7. CASE DeleteFails(n)
  BY <1>7, CallsMade, NotQuiet
<1>8. PICK k \in DOMAIN H[c] : H[c][k].host = m.host /\ H[c][k].status = "INACTIVE"
  <2>1. <<c, i>> \in ToDelete
    BY <1>4 DEF IsFirst
  <2>2. \E k \in DOMAIN app.hosts[c] : app.hosts[c][k] = [host |-> m.host, status |-> "INACTIVE"]
    BY <1>5, <2>1 DEF ToDelete
  <2> QED
    BY <1>5, <2>2
<1>9. ASSUME Quiet
      PROVE  /\ NamedApart(M) /\ SameStatus(H) /\ (announced => ActiveRuns(H, M, pods))
             /\ NoHost(H, "PENDING") /\ AllCreated(M) /\ HaveManifests(pods, M)
  <2>1. NamedApart(M) /\ SameStatus(H) /\ (announced => ActiveRuns(H, M, pods))
    BY <1>1, <1>5, <1>9 DEF PlacedInv, TablesAgree, Deploying
  <2>2. NoHost(H, "PENDING") /\ AllCreated(M)
    BY <1>1, <1>5, <1>9 DEF PlacedInv, LaterPlanWorked
  <2>3. HaveManifests(pods, M)
    BY <1>5, <1>9 DEF RemovalInv, InPlace, Quiet
  <2> QED
    BY <2>1, <2>2, <2>3
<1>10. ASSUME Quiet, announced, pods' = {p \in pods : p.name # n}
       PROVE  \A N : ActiveRuns(H, N, pods')
  <2> SUFFICES ASSUME NEW d \in Comps, NEW j \in DOMAIN H[d], H[d][j].status = "ACTIVE"
               PROVE  HasPod(pods', d, H[d][j].host)
    BY DEF ActiveRuns
  <2>1. ~WillHavePod(M, d, H[d][j].host)
    BY <1>9, <1>10 DEF AllCreated, WillHavePod
  <2>2. PICK p \in pods : p.name.comp = d /\ p.host = H[d][j].host
    BY <1>9, <1>10, <2>1 DEF ActiveRuns, HasPod
  <2>3. p.name # n
    <3> SUFFICES ASSUME p.name = n PROVE FALSE
      OBVIOUS
    <3>1. PICK l \in DOMAIN M[d] : M[d][l].name = n /\ M[d][l].host = p.host
      BY <1>9, <1>10, <2>2 DEF HaveManifests
    <3>2. d = c /\ l = i
      BY <1>4, <1>5, <1>9, <1>10, <3>1 DEF NamedApart
    <3>3. H[c][j].host = H[c][k].host
      BY <1>5, <1>8, <2>2, <3>1, <3>2
    <3>4. H[c][j].status = H[c][k].status
      BY <1>8, <1>9, <1>10, <3>2, <3>3 DEF SameStatus, OneStatus
    <3> QED
      BY <1>8, <3>2, <3>4
  <2> QED
    BY <1>10, <2>2, <2>3 DEF HasPod
<1>11. CASE /\ DeleteOk(n)
            /\ app' = [app EXCEPT !.pod_names = @ \ {n}, !.manifests[c] = RemoveAt(@, i)]
            /\ handler' = [handler EXCEPT !.report.placed = @ \ {n},
                                          !.report.modified = @ \ {n},
                                          !.report.removed = @ \union {n}]
  <2>1. PICK list, N : list = RemoveAt(M[c], i) /\ N = app'.manifests
    OBVIOUS
  <2>2. app' = [app EXCEPT !.pod_names = names, !.manifests[c] = list]
    BY <1>5, <1>11, <2>1
  <2>3. app'.known = app.known /\ app'.here = app.here /\ N = [M EXCEPT ![c] = list] /\ app'.hosts = H
    BY <1>1, <1>5, <2>1, <2>2 DEF Apps
  <2>4. pods' = {p \in pods : p.name # n} /\ UNCHANGED <<api_error, faults>>
    BY <1>11, CallsMade DEF DeleteOk
  <2>5. handler'.at = "deleting"
    <3>1. PICK report : report = [handler.report EXCEPT !.placed = @ \ {n}, !.modified = @ \ {n},
                                                        !.removed = @ \union {n}]
      OBVIOUS
    <3>2. handler' = [handler EXCEPT !.report = report]
      BY <1>11, <3>1
    <3>3. Looks(handler', handler.at, handler.todo, handler.pod, report)
      BY <1>1, <3>2, WorkerLooks, Zenon
    <3> QED
      BY <1>1, <3>3 DEF Looks
  <2>6. /\ \A j \in DOMAIN list : \E l \in DOMAIN M[c] : l = (IF j < i THEN j ELSE j + 1) /\ list[j] = M[c][l]
        /\ DOMAIN list \subseteq Nat /\ i \in Nat
    <3>1. PICK s : s = M[c]
      OBVIOUS
    <3>2. s \in Seq(ManifestsOf(Names)) /\ i \in DOMAIN s /\ list = RemoveAt(s, i)
      BY <1>4, <1>5, <1>6, <2>1, <3>1
    <3> QED
      BY <3>1, <3>2, LeftOut
  <2>7. N[c] = list /\ \A d \in Comps : d # c => N[d] = M[d]
    BY <1>6, <2>3
  <2>8. Quiet' <=> Quiet
    BY <1>2, <2>3, <2>4 DEF Quiet, Undisturbed
  <2>9. NamedApart(M) => NamedApart(N)
    <3> DEFINE old(d, j) == IF d = c /\ ~(j < i) THEN j + 1 ELSE j
    <3>1. ASSUME NEW d \in Comps, NEW j \in DOMAIN N[d]
          PROVE  old(d, j) \in DOMAIN M[d] /\ N[d][j] = M[d][old(d, j)]
      BY <2>6, <2>7, <3>1
    <3>2. ASSUME NEW j \in DOMAIN list, NEW l \in DOMAIN list, old(c, j) = old(c, l)
          PROVE  j = l
      BY <2>6, <3>2
    <3>3. \A d \in Comps : d # c => \A j : old(d, j) = j
      OBVIOUS
    <3> HIDE DEF old
    <3> SUFFICES ASSUME NamedApart(M), NEW d \in Comps, NEW e \in Comps,
                        NEW j \in DOMAIN N[d], NEW l \in DOMAIN N[e], N[d][j].name = N[e][l].name
                 PROVE  d = e /\ j = l
      BY DEF NamedApart
    <3>4. d = e /\ old(d, j) = old(e, l)
      BY <3>1 DEF NamedApart
    <3>5. CASE d = c
      BY <2>7, <3>2, <3>4, <3>5
    <3>6. CASE d # c
      BY <3>3, <3>4, <3>6
    <3> QED
      BY <3>4, <3>5, <3>6
  <2>10. AllCreated(M) => AllCreated(N)
    BY <2>6, <2>7 DEF AllCreated
  <2>11. ASSUME Quiet
         PROVE  /\ NamedApart(N) /\ SameStatus(H) /\ (announced => ActiveRuns(H, N, pods'))
                /\ NoHost(H, "PENDING") /\ AllCreated(N)
    BY <1>9, <1>10, <2>4, <2>9, <2>10, <2>11
  <2>12. TablesAgree' /\ LaterPlanWorked'
    BY <1>2, <2>1, <2>3, <2>8, <2>11 DEF TablesAgree, LaterPlanWorked
  <2> QED
    BY <2>5, <2>12 DEF PlacedInv, InitialPlanBegun, Settled, Deploying
<1>12. CASE /\ DeleteOk(n)
            /\ app' = [app EXCEPT
                  !.pod_names = @ \ {n},
                  !.hosts = [d \in Comps |-> IF d < c THEN RemainingHosts(d) ELSE @[d]]]
            /\ Raise
  <2>1. PICK G : G = [d \in Comps |-> IF d < c THEN RemainingHosts(d) ELSE H[d]]
    OBVIOUS
  <2>2. app' = [app EXCEPT !.pod_names = names, !.hosts = G]
    BY <1>5, <1>12, <2>1
  <2>3. app'.known = app.known /\ app'.here = app.here /\ app'.manifests = M /\ app'.hosts = G
    BY <1>1, <1>5, <2>2 DEF Apps
  <2>4. pods' = {p \in pods : p.name # n} /\ UNCHANGED <<api_error, faults>>
    BY <1>12, CallsMade DEF DeleteOk
  <2>5. Resting'
    BY <1>12 DEF Raise, Idle, Resting
  <2>6. Quiet' <=> Quiet
    BY <1>2, <2>3, <2>4 DEF Quiet, Undisturbed
  <2>7. \A d \in Comps : \A j \in DOMAIN G[d] : \E l \in DOMAIN H[d] : G[d][j] = H[d][l]
    <3>1. ASSUME NEW d \in Comps, NEW j \in DOMAIN G[d]
          PROVE  \E l \in DOMAIN H[d] : G[d][j] = H[d][l]
      <4>1. CASE d < c
        <5>1. G[d] = RemainingHosts(d)
          BY <2>1, <4>1
        <5> QED
          BY <1>1, <1>5, <3>1, <5>1, Remain
      <4>2. CASE ~(d < c)
        BY <2>1, <3>1, <4>2
      <4> QED
        BY <4>1, <4>2
    <3> QED
      BY <3>1
  <2>8. (SameStatus(H) => SameStatus(G)) /\ (ActiveRuns(H, M, pods') => ActiveRuns(G, M, pods'))
    BY <2>7, FewerHosts
  <2>9. ASSUME Quiet
        PROVE  NamedApart(M) /\ SameStatus(G) /\ (announced => ActiveRuns(G, M, pods'))
    BY <1>9, <1>10, <2>4, <2>8, <2>9
  <2> QED
    BY <1>2, <2>3, <2>5, <2>6, <2>9, Agreeing
<1> QED
  BY <1>4, <1>5, <1>7, <1>11, <1>12

LEMMA NextPlaced ==
  ASSUME TypeOK, OrphanInv, RemovalInv, PlacedInv, [Next]_vars
  PROVE  PlacedInv'
<1>1. CASE UNCHANGED vars
  BY <1>1, SamePlaced DEF vars, envVars, historyVars, Quiet, Undisturbed
<1>2. CASE \/ \E where \in {"here", "elsewhere"} : CreateResource(where)
           \/ DeleteResource \/ ModifyResource \/ WatchRepeats
           \/ \E steps \in InitialPlans : Submit(steps, TRUE)
           \/ \E steps \in Plans : Submit(steps, FALSE)
  <2>1. /\ UNCHANGED <<app, disordered, replanned, api_error, respecified, handler, pods, announced>>
        /\ faults' = faults \/ faults' = faults + 1
    BY <1>2 DEF CreateResource, DeleteResource, ModifyResource, WatchRepeats, Submit, Watched,
                historyVars, envVars
  <2>2. CASE faults' = faults
    BY <2>1, <2>2, SamePlaced DEF Quiet, Undisturbed
  <2>3. CASE faults' = faults + 1
    BY <2>3, CallsMade, NotQuiet
  <2> QED
    BY <2>1, <2>2, <2>3
<1>3. CASE Restart \/ \E p \in pods : PodDies(p)
  BY <1>3, CallsMade, NotQuiet DEF Restart, PodDies
<1>4. CASE AppHandler
  <2>1. CASE AppEvent
    BY <2>1, EventPlaced
  <2>2. CASE PlanOfUnknownApp \/ StartInitialPlan \/ StartPlan
    BY <2>2, StartPlaced
  <2>3. CASE Answer \/ FinishInitialPlan \/ StartDeleting
    BY <2>3, QuietPlaced
  <2>4. CASE ActMove \/ ActDeploy \/ ActRemove
    BY <2>4, ActPlaced
  <2>5. CASE DeployInstance
    BY <2>5, DeployPlaced
  <2>6. CASE ActChangeSpec \/ DeleteOldPod
    BY <2>6, ChangePlaced
  <2>7. CASE StartDeploying
    BY <2>7, StartDeployingPlaced
  <2>8. CASE DeployNewPod
    BY <2>8, DeployNewPlaced
  <2>9. CASE DeleteUnusedPod
    BY <2>9, DeleteUnusedPlaced
  <2>10. CASE FinishPlan
    BY <2>10, FinishPlaced
  <2> QED
    BY <1>4, <2>1, <2>2, <2>3, <2>4, <2>5, <2>6, <2>7, <2>8, <2>9, <2>10
    DEF AppHandler, InitialPlan, LaterPlan
<1> QED
  BY <1>1, <1>2, <1>3, <1>4 DEF Next

\* An application is known when a plan for it is completed.
KnownWhenDone == handler.at = "reply" /\ handler.status = "COMPLETED" => app.known

Ongoing == {"deploying", "acting", "changing", "creating", "deleting"}

\* A plan goes on.
GoesOn == handler'.at \in Ongoing

LEMMA Going ==
  ASSUME handler \in Workers, handler.at \in Ongoing, NEW at \in Ongoing, NEW todo, NEW pod, NEW report
  PROVE  \/ handler' = [handler EXCEPT !.at = at, !.todo = todo, !.pod = pod, !.report = report]
         \/ handler' = [handler EXCEPT !.todo = todo, !.report = report]
         \/ handler' = [handler EXCEPT !.at = at, !.pod = pod]
         \/ handler' = [handler EXCEPT !.at = at]
         \/ handler' = [handler EXCEPT !.todo = todo]
         \/ handler' = [handler EXCEPT !.report = report]
         => GoesOn
<1>1. /\ handler' = [handler EXCEPT !.at = at, !.todo = todo, !.pod = pod, !.report = report]
           => Looks(handler', at, todo, pod, report)
      /\ handler' = [handler EXCEPT !.todo = todo, !.report = report]
           => Looks(handler', handler.at, todo, handler.pod, report)
      /\ handler' = [handler EXCEPT !.at = at, !.pod = pod]
           => Looks(handler', at, handler.todo, pod, handler.report)
      /\ handler' = [handler EXCEPT !.at = at]
           => Looks(handler', at, handler.todo, handler.pod, handler.report)
      /\ handler' = [handler EXCEPT !.todo = todo]
           => Looks(handler', handler.at, todo, handler.pod, handler.report)
      /\ handler' = [handler EXCEPT !.report = report]
           => Looks(handler', handler.at, handler.todo, handler.pod, report)
  BY WorkerLooks, Zenon
<1>2. \A a, t, p, r : Looks(handler', a, t, p, r) /\ a \in Ongoing => GoesOn
  BY DEF Looks, GoesOn
<1> QED
  BY <1>1, <1>2, Zenon

LEMMA WorkDone ==
  ASSUME TypeOK,
         \/ ActMove \/ ActDeploy \/ ActRemove \/ ActChangeSpec \/ DeleteOldPod \/ StartDeploying
         \/ DeployInstance \/ DeployNewPod \/ StartDeleting \/ DeleteUnusedPod
  PROVE  handler'.at = "reply" => handler'.status # "COMPLETED"
<1>1. handler \in Workers /\ handler.at \in Ongoing
  <2>1. handler.at \in Ongoing
    BY Zenon DEF ActMove, ActDeploy, ActRemove, Act, ActChangeSpec, DeleteOldPod, StartDeploying, DeployInstance,
           DeployNewPod, StartDeleting, DeleteUnusedPod, Ongoing
  <2> QED
    BY <2>1, Worker DEF Ongoing
<1>2. {"acting", "deploying", "changing", "creating", "deleting"} \subseteq Ongoing
  BY DEF Ongoing
<1>3. Finish("FAILED") \/ FailAndRestore \/ Raise \/ GoesOn
  <2>1. CASE ActMove \/ ActDeploy \/ ActRemove
    <3>1. GoOn \/ Finish("FAILED")
      BY <2>1, Zenon DEF ActMove, ActDeploy, ActRemove
    <3> QED
      BY <1>1, <1>2, <3>1, Going, Zenon DEF GoOn
  <2>2. CASE ActChangeSpec
    <3>1. \/ Finish("FAILED") \/ FailAndRestore \/ Raise
          \/ \E pod : handler' = [handler EXCEPT !.at = "changing", !.pod = pod]
      BY <2>2, Zenon DEF ActChangeSpec
    <3> QED
      BY <1>1, <1>2, <3>1, Going, Zenon
  <2>3. CASE DeleteOldPod
    <3>1. FailAndRestore \/ \E new :
            handler' = [handler EXCEPT !.at = "acting", !.todo = Tail(@), !.pod = {},
                                       !.report.modified = @ \union {new}]
      BY <2>3, Zenon DEF DeleteOldPod
    <3>2. ASSUME NEW new, handler' = [handler EXCEPT !.at = "acting", !.todo = Tail(@), !.pod = {},
                                                     !.report.modified = @ \union {new}]
          PROVE  GoesOn
      <4>1. PICK todo, pod, report : /\ todo = Tail(handler.todo) /\ pod = {}
                                     /\ report = [handler.report EXCEPT !.modified = @ \union {new}]
        OBVIOUS
      <4>2. handler' = [handler EXCEPT !.at = "acting", !.todo = todo, !.pod = pod, !.report = report]
        BY <3>2, <4>1
      <4> QED
        BY <1>1, <1>2, <4>2, Going
    <3> QED
      BY <3>1, <3>2
  <2>4. CASE StartDeploying \/ StartDeleting
    <3>1. \E at \in {"creating", "deleting"} : handler' = [handler EXCEPT !.at = at]
      BY <2>4 DEF StartDeploying, StartDeleting
    <3> QED
      BY <1>1, <1>2, <3>1, Going
  <2>5. CASE DeployInstance
    <3>1. PICK i, c, h, todo, name, hosts, a : Deploys(i, c, h, todo, name, hosts, a)
      BY <2>5, DeployParts
    <3>2. \/ Finish("FAILED")
          \/ handler' = [handler EXCEPT !.todo = todo, !.report.placed = @ \union {name}]
      BY <3>1 DEF Deploys
    <3>3. PICK report : report = [handler.report EXCEPT !.placed = @ \union {name}]
      OBVIOUS
    <3>4. Finish("FAILED") \/ handler' = [handler EXCEPT !.todo = todo, !.report = report]
      BY <3>2, <3>3
    <3> QED
      BY <1>1, <3>4, Going, Zenon
  <2>7. CASE DeployNewPod
    <3>1. FailAndRestore \/ Raise \/ \E n : handler' = [handler EXCEPT !.report.placed = @ \union {n}]
      BY <2>7, Zenon DEF DeployNewPod
    <3>2. ASSUME NEW n, handler' = [handler EXCEPT !.report.placed = @ \union {n}]
          PROVE  GoesOn
      <4>1. PICK report : report = [handler.report EXCEPT !.placed = @ \union {n}]
        OBVIOUS
      <4>2. handler' = [handler EXCEPT !.report = report]
        BY <3>2, <4>1
      <4> QED
        BY <1>1, <4>2, Going
    <3> QED
      BY <3>1, <3>2
  <2>8. CASE DeleteUnusedPod
    <3>1. \/ FailAndRestore \/ Raise
          \/ \E n : handler' = [handler EXCEPT !.report.placed = @ \ {n}, !.report.modified = @ \ {n},
                                               !.report.removed = @ \union {n}]
      BY <2>8, Zenon DEF DeleteUnusedPod
    <3>2. ASSUME NEW n, handler' = [handler EXCEPT !.report.placed = @ \ {n}, !.report.modified = @ \ {n},
                                                   !.report.removed = @ \union {n}]
          PROVE  GoesOn
      <4>1. PICK report : report = [handler.report EXCEPT !.placed = @ \ {n}, !.modified = @ \ {n},
                                                          !.removed = @ \union {n}]
        OBVIOUS
      <4>2. handler' = [handler EXCEPT !.report = report]
        BY <3>2, <4>1
      <4> QED
        BY <1>1, <4>2, Going
    <3> QED
      BY <3>1, <3>2
  <2> QED
    BY <2>1, <2>2, <2>3, <2>4, <2>5, <2>7, <2>8
<1>4. Finish("FAILED") \/ FailAndRestore => handler'.status = "FAILED"
  BY <1>1, FinishLooks DEF FailAndRestore
<1>5. Raise => handler'.at = "idle"
  BY <1>1, Stopped
<1> QED
  BY <1>3, <1>4, <1>5 DEF GoesOn, Ongoing

LEMMA NextKnown ==
  ASSUME TypeOK, KnownWhenDone, [Next]_vars
  PROVE  KnownWhenDone'
<1>1. CASE UNCHANGED <<app, handler>>
  BY <1>1 DEF KnownWhenDone
<1>2. CASE \/ \E where \in {"here", "elsewhere"} : CreateResource(where)
           \/ DeleteResource \/ ModifyResource \/ WatchRepeats
           \/ \E steps \in InitialPlans : Submit(steps, TRUE)
           \/ \E steps \in Plans : Submit(steps, FALSE)
           \/ \E p \in pods : PodDies(p)
           \/ UNCHANGED vars
  BY <1>1, <1>2 DEF CreateResource, DeleteResource, ModifyResource, WatchRepeats, Submit, PodDies, vars
<1>3. CASE Restart
  BY <1>3 DEF Restart, Idle, KnownWhenDone
<1>4. CASE AppEvent \/ PlanOfUnknownApp \/ StartInitialPlan \/ StartPlan \/ Answer
  <2>1. CASE HandleAdded \/ HandleModified \/ PlanOfUnknownApp
    <3>1. handler' = handler /\ handler.at = "idle"
      BY <2>1 DEF HandleAdded, HandleModified, PlanOfUnknownApp, TakePlan, Take, Idle
    <3> QED
      BY <3>1 DEF KnownWhenDone
  <2>2. CASE HandleDeleted \/ ForgetApp \/ Answer
    <3>1. handler'.at \in {"idle", "removing"}
      BY <2>2 DEF HandleDeleted, ForgetApp, Answer, Idle
    <3> QED
      BY <3>1 DEF KnownWhenDone
  <2>3. CASE RemovePod
    <3>1. handler.at = "removing"
      BY <2>3 DEF RemovePod
    <3>2. PICK n : handler' = [handler EXCEPT !.todo = @ \ {n}] \/ handler' = Idle
      BY <2>3, Zenon DEF RemovePod
    <3>3. handler'.at \in {"idle", "removing"}
      BY <3>1, <3>2, Remover DEF Idle
    <3> QED
      BY <3>3 DEF KnownWhenDone
  <2>4. CASE StartInitialPlan \/ StartPlan
    <3>1. PICK plan : plan = Head(notifications)
      OBVIOUS
    <3>2. \/ handler' = [Working("reply", plan) EXCEPT !.status = "FAILED"]
          \/ \E todo : handler' = [Working("deploying", plan) EXCEPT !.todo = todo]
          \/ handler' = Working("acting", plan)
      BY <2>4, <3>1 DEF StartInitialPlan, StartPlan
    <3>3. handler'.at = "reply" => handler'.status = "FAILED"
      BY <3>2 DEF Working
    <3> QED
      BY <3>3 DEF KnownWhenDone
  <2> QED
    BY <1>4, <2>1, <2>2, <2>3, <2>4 DEF AppEvent
<1>5. CASE FinishInitialPlan \/ FinishPlan
  <2>1. app.known /\ app \in Apps
    BY <1>5, Basics, KnownApp DEF FinishInitialPlan, FinishPlan
  <2>2. app' = app \/ \E H : app' = [app EXCEPT !.hosts = H]
    BY <1>5 DEF FinishInitialPlan, FinishPlan
  <2>3. app'.known
    BY <2>1, <2>2 DEF Apps
  <2> QED
    BY <2>3 DEF KnownWhenDone
<1>6. CASE \/ ActMove \/ ActDeploy \/ ActRemove \/ ActChangeSpec \/ DeleteOldPod \/ StartDeploying
           \/ DeployInstance \/ DeployNewPod \/ StartDeleting \/ DeleteUnusedPod
  BY <1>6, WorkDone DEF KnownWhenDone
<1> QED
  BY <1>2, <1>3, <1>4, <1>5, <1>6 DEF Next, AppHandler, InitialPlan, LaterPlan

LEMMA InitPlaced == Init => PlacedInv /\ KnownWhenDone
<1> SUFFICES ASSUME Init PROVE PlacedInv /\ KnownWhenDone
  OBVIOUS
<1>1. ~Quiet /\ handler.at = "idle"
  BY DEF Init, NoApp, Idle, Quiet, Undisturbed
<1> QED
  BY <1>1 DEF PlacedInv, TablesAgree, InitialPlanBegun, LaterPlanWorked, Settled, KnownWhenDone

\* A plan that is answered COMPLETED, in a run in which no call was refused, nothing died, no
\* specification was changed, the application was not announced again and no initial plan
\* came for a component with hosts, leaves every host of every component active (of the
\* components it is about, for an initial plan), with a pod of the component there, and no
\* pod of it anywhere else: whatever earlier plans failed half-way.
THEOREM CompletedArePlaced == Spec => []CompletedIsPlaced
<1> DEFINE IInv == OrphanInv /\ RemovalInv /\ PlacedInv /\ KnownWhenDone
<1>1. Init => IInv
  BY InitOrphans, InitRemoval, InitPlaced
<1>2. TypeOK /\ IInv /\ [Next]_vars => IInv'
  BY NextOrphans, NextRemoval, NextPlaced, NextKnown
<1>3. TypeOK /\ IInv => CompletedIsPlaced
  <2> SUFFICES ASSUME TypeOK, IInv, handler.at = "reply", handler.status = "COMPLETED",
                      app.here, ~respecified, ~disordered, ~replanned, ~api_error, faults = 0,
                      NEW c \in Comps, handler.initial => Planned(c)
               PROVE  /\ \A i \in DOMAIN app.hosts[c] : app.hosts[c][i].status = "ACTIVE"
                      /\ {app.hosts[c][i].host : i \in DOMAIN app.hosts[c]}
                           = {p.host : p \in {q \in pods : q.name.comp = c}}
    BY DEF CompletedIsPlaced
  <2>1. app.known
    BY DEF KnownWhenDone
  <2>2. Quiet /\ announced
    BY <2>1 DEF Quiet, Undisturbed, OrphanInv, Withdrawn
  <2>8. c \in Scope
    BY DEF Scope, Concerned, Concerns, Planned
  <2>3. /\ NoHostOf(Scope, app.hosts, "PENDING") /\ NoHostOf(Scope, app.hosts, "INACTIVE")
        /\ AllCreatedOf(Scope, app.manifests) /\ ActiveRuns(app.hosts, app.manifests, pods)
    BY <2>2 DEF PlacedInv, Settled, TablesAgree
  <2>4. OnListed(app.manifests, app.hosts) /\ HaveManifests(pods, app.manifests)
    BY <2>2 DEF RemovalInv, InPlace, Quiet
  <2>5. \A i \in DOMAIN app.hosts[c] : app.hosts[c][i].status = "ACTIVE"
    BY <2>1, <2>3, <2>8, TableTypes DEF NoHostOf
  <2>6. ASSUME NEW i \in DOMAIN app.hosts[c]
        PROVE  \E p \in pods : p.name.comp = c /\ p.host = app.hosts[c][i].host
    <3>1. ~WillHavePod(app.manifests, c, app.hosts[c][i].host)
      BY <2>3, <2>8 DEF AllCreatedOf, WillHavePod
    <3> QED
      BY <2>3, <2>5, <2>6, <3>1 DEF ActiveRuns, HasPod
  <2>7. ASSUME NEW p \in pods, p.name.comp = c
        PROVE  \E i \in DOMAIN app.hosts[c] : app.hosts[c][i].host = p.host
    BY <2>4, <2>7 DEF OnListed, HaveManifests, Listed
  <2> QED
    BY <2>5, <2>6, <2>7
<1> QED
  BY <1>1, <1>2, <1>3, TypesOK, PTL DEF Spec

-----------------------------------------------------------------------------
(* A plan that moves a component.  A component can be moved and removed by   *)
(* one plan, and then it may have no pod in between or at the end.           *)

\* The tables once there is a manifest for every PENDING host.
LEMMA PlannedTables ==
  ASSUME TypeOK, StartDeploying
  PROVE  /\ app'.known = app.known /\ app'.here = app.here
         /\ \A c \in Comps :
              /\ DOMAIN app'.hosts[c] = DOMAIN app.hosts[c]
              /\ \A i \in DOMAIN app.hosts[c] :
                   /\ app'.hosts[c][i].host = app.hosts[c][i].host
                   /\ app'.hosts[c][i].status = IF app.hosts[c][i].status = "PENDING" THEN "ACTIVE"
                                                ELSE app.hosts[c][i].status
                   /\ app.hosts[c][i].status = "PENDING" =>
                        WillHavePod(app'.manifests, c, app.hosts[c][i].host)
              /\ \A i \in DOMAIN app.manifests[c] :
                   i \in DOMAIN app'.manifests[c] /\ app'.manifests[c][i] = app.manifests[c][i]
              /\ \A i \in DOMAIN app'.manifests[c] :
                   i \in DOMAIN app.manifests[c] \/ app'.manifests[c][i].name.comp = c
         /\ NamedApart(app.manifests) => NamedApart(app'.manifests)
<1>1. handler.at = "acting" /\ app.known /\ app \in Apps
  BY Basics, KnownApp DEF StartDeploying
<1>2. next_pod' = next_pod + NamesBefore(NumComps + 1)
  BY DEF StartDeploying
<1>4. PICK M, H, N : /\ M = app.manifests /\ H = app.hosts
                     /\ N = [c \in Comps |-> app.manifests[c] \o AdjustedManifests(c)]
  OBVIOUS
<1> DEFINE new(c, i) == IF app.hosts[c][i].status = "PENDING"
                        THEN [app.hosts[c][i] EXCEPT !.status = "ACTIVE"] ELSE app.hosts[c][i]
<1>5. PICK G : G = [c \in Comps |-> [i \in DOMAIN app.hosts[c] |-> new(c, i)]]
  OBVIOUS
<1>6. app' = [app EXCEPT !.manifests = N, !.hosts = G]
  BY <1>4, <1>5 DEF StartDeploying
<1>7. app'.known = app.known /\ app'.here = app.here /\ app'.manifests = N /\ app'.hosts = G
  BY <1>1, <1>6 DEF Apps
<1>9. ASSUME NEW c \in Comps, NEW i \in DOMAIN H[c]
      PROVE  /\ new(c, i).host = H[c][i].host
             /\ new(c, i).status = IF H[c][i].status = "PENDING" THEN "ACTIVE" ELSE H[c][i].status
  <2>1. H[c][i] \in Entries
    BY <1>1, <1>4, <1>9, TableTypes
  <2> QED
    BY <1>4, <2>1 DEF Entries
<1> HIDE DEF new
<1>10. \A c \in Comps :
         /\ DOMAIN G[c] = DOMAIN H[c]
         /\ \A i \in DOMAIN H[c] :
              /\ G[c][i].host = H[c][i].host
              /\ G[c][i].status = IF H[c][i].status = "PENDING" THEN "ACTIVE" ELSE H[c][i].status
  BY <1>4, <1>5, <1>9
<1>13. ASSUME NEW c \in Comps
       PROVE  /\ \A j \in DOMAIN AdjustedManifests(c) :
                   \E k \in Nat : /\ k = next_pod + NamesBefore(c) + j - 1 /\ k >= next_pod
                                  /\ AdjustedManifests(c)[j].name = PodName(c, k)
              /\ \A i \in DOMAIN H[c] : H[c][i].status = "PENDING" =>
                   \E j \in DOMAIN AdjustedManifests(c) :
                     AdjustedManifests(c)[j].status = "PENDING" /\ AdjustedManifests(c)[j].host = H[c][i].host
  <2>1. PICK T, l, A : /\ T = {e \in Entries : e.status = "PENDING"} /\ l = PendingHosts(c)
                       /\ A = AdjustedManifests(c)
    OBVIOUS
  <2>2. l = Filter(H[c], T) /\ H[c] \in Seq(Entries)
    BY <1>1, <1>4, <2>1, TableTypes DEF PendingHosts
  <2>3. l \in Seq(Entries) /\ \A i \in DOMAIN H[c] : H[c][i] \in T => \E j \in DOMAIN l : l[j] = H[c][i]
    BY <2>2, Filtered
  <2>4. /\ DOMAIN A = DOMAIN l
        /\ \A j \in DOMAIN l :
             A[j] = Manifest(PodName(c, next_pod + NamesBefore(c) + j - 1), l[j].host, "PENDING")
    BY <2>1 DEF AdjustedManifests
  <2>5. \A n, h : Manifest(n, h, "PENDING").name = n /\ Manifest(n, h, "PENDING").host = h
                  /\ Manifest(n, h, "PENDING").status = "PENDING"
    BY DEF Manifest
  <2>6. ASSUME NEW j \in DOMAIN A
        PROVE  \E k \in Nat : /\ k = next_pod + NamesBefore(c) + j - 1 /\ k >= next_pod
                              /\ A[j].name = PodName(c, k)
    <3>1. PICK k : k = next_pod + NamesBefore(c) + j - 1
      OBVIOUS
    <3>2. A[j].name = PodName(c, k)
      BY <2>4, <2>5, <2>6, <3>1
    <3>3. NamesBefore(c) \in Nat /\ next_pod \in Nat /\ j \in Nat /\ j > 0
      <4>1. j \in 1..Len(l) /\ Len(l) \in Nat
        BY <2>3, <2>4, <2>6
      <4> QED
        BY <1>1, <4>1, NewNames, Basics
    <3>4. k \in Nat /\ k >= next_pod
      BY <3>1, <3>3
    <3> QED
      BY <3>1, <3>2, <3>4
  <2>7. ASSUME NEW i \in DOMAIN H[c], H[c][i].status = "PENDING"
        PROVE  \E j \in DOMAIN A : A[j].status = "PENDING" /\ A[j].host = H[c][i].host
    <3>1. H[c][i] \in T
      BY <1>1, <1>4, <2>1, <2>7, TableTypes
    <3>2. PICK j \in DOMAIN l : l[j] = H[c][i]
      BY <2>3, <3>1
    <3> QED
      BY <2>4, <2>5, <3>2
  <2> QED
    BY <2>1, <2>6, <2>7
<1>14. ASSUME NEW c \in Comps
       PROVE  /\ \A i \in DOMAIN M[c] : i \in DOMAIN N[c] /\ N[c][i] = M[c][i]
              /\ \A i \in DOMAIN N[c] :
                   \/ i \in DOMAIN M[c] /\ N[c][i] = M[c][i]
                   \/ \E j \in DOMAIN AdjustedManifests(c) :
                        i = Len(M[c]) + j /\ N[c][i] = AdjustedManifests(c)[j]
              /\ \A j \in DOMAIN AdjustedManifests(c) :
                   Len(M[c]) + j \in DOMAIN N[c] /\ N[c][Len(M[c]) + j] = AdjustedManifests(c)[j]
              /\ Len(M[c]) \in Nat /\ DOMAIN AdjustedManifests(c) \subseteq Nat
  <2>1. PICK s, t : s = M[c] /\ t = AdjustedManifests(c)
    OBVIOUS
  <2>2. s \in Seq(ManifestsOf(Names)) /\ t \in Seq(ManifestsOf(Names'))
    BY <1>1, <1>2, <1>4, <2>1, TableTypes, AdjustedType
  <2>3. PICK S : S = ManifestsOf(Names) \union ManifestsOf(Names')
    OBVIOUS
  <2>4. s \in Seq(S) /\ t \in Seq(S) /\ N[c] = s \o t
    BY <1>4, <2>1, <2>2, <2>3, SeqGrows
  <2>5. /\ DOMAIN N[c] = 1..(Len(s) + Len(t))
        /\ \A i \in 1..(Len(s) + Len(t)) : N[c][i] = IF i <= Len(s) THEN s[i] ELSE t[i - Len(s)]
    BY <2>4, Concatenated
  <2>6. /\ Len(s) \in Nat /\ Len(t) \in Nat /\ DOMAIN s = 1..Len(s) /\ DOMAIN t = 1..Len(t)
    BY <2>2
  <2>7. \A i \in DOMAIN s : i \in DOMAIN N[c] /\ N[c][i] = s[i]
    BY <2>5, <2>6
  <2>8. ASSUME NEW i \in DOMAIN N[c]
        PROVE  \/ i \in DOMAIN s
               \/ \E j \in DOMAIN t : i = Len(s) + j /\ N[c][i] = t[j]
    <3>1. CASE i <= Len(s)
      BY <2>5, <2>6, <2>8, <3>1
    <3>2. CASE ~(i <= Len(s))
      <4>1. i - Len(s) \in DOMAIN t /\ i = Len(s) + (i - Len(s))
        BY <2>5, <2>6, <2>8, <3>2
      <4>2. N[c][i] = t[i - Len(s)]
        BY <2>5, <2>8, <3>2
      <4> QED
        BY <4>1, <4>2
    <3> QED
      BY <3>1, <3>2
  <2>9. ASSUME NEW j \in DOMAIN t
        PROVE  Len(s) + j \in DOMAIN N[c] /\ N[c][Len(s) + j] = t[j]
    <3>1. Len(s) + j \in 1..(Len(s) + Len(t)) /\ ~(Len(s) + j <= Len(s)) /\ Len(s) + j - Len(s) = j
      BY <2>6, <2>9
    <3> QED
      BY <2>5, <3>1
  <2> QED
    BY <2>1, <2>6, <2>7, <2>8, <2>9
<1>15. ASSUME NamedApart(M)
       PROVE  NamedApart(N)
  <2> SUFFICES ASSUME NEW c \in Comps, NEW d \in Comps, NEW i \in DOMAIN N[c], NEW j \in DOMAIN N[d],
                      N[c][i].name = N[d][j].name
               PROVE  c = d /\ i = j
    BY DEF NamedApart
  <2>1. \A e \in Comps : \A k \in DOMAIN M[e] : \A b \in Comps : \A l \in DOMAIN AdjustedManifests(b) :
          M[e][k].name # AdjustedManifests(b)[l].name
    <3> SUFFICES ASSUME NEW e \in Comps, NEW k \in DOMAIN M[e], NEW b \in Comps,
                        NEW l \in DOMAIN AdjustedManifests(b)
                 PROVE  M[e][k].name # AdjustedManifests(b)[l].name
      OBVIOUS
    <3>1. PICK n \in Nat : n >= next_pod /\ AdjustedManifests(b)[l].name = PodName(b, n)
      BY <1>13
    <3> QED
      BY <1>1, <1>4, <3>1, NewName
  <2>2. CASE i \in DOMAIN M[c] /\ N[c][i] = M[c][i] /\ j \in DOMAIN M[d] /\ N[d][j] = M[d][j]
    BY <1>15, <2>2 DEF NamedApart
  <2>3. ASSUME NEW k \in DOMAIN AdjustedManifests(c), NEW l \in DOMAIN AdjustedManifests(d),
               i = Len(M[c]) + k, N[c][i] = AdjustedManifests(c)[k],
               j = Len(M[d]) + l, N[d][j] = AdjustedManifests(d)[l]
        PROVE  c = d /\ i = j
    <3>1. PICK m \in Nat : m = next_pod + NamesBefore(c) + k - 1 /\ AdjustedManifests(c)[k].name = PodName(c, m)
      BY <1>13
    <3>2. PICK n \in Nat : n = next_pod + NamesBefore(d) + l - 1 /\ AdjustedManifests(d)[l].name = PodName(d, n)
      BY <1>13
    <3>3. c = d /\ m = n
      BY <2>3, <3>1, <3>2 DEF PodName
    <3>4. k \in Nat /\ l \in Nat /\ NamesBefore(c) \in Nat /\ next_pod \in Nat
      BY <1>1, <1>14, NewNames, Basics
    <3>5. k = l
      BY <3>1, <3>2, <3>3, <3>4
    <3> QED
      BY <2>3, <3>3, <3>5
  <2>4. \/ i \in DOMAIN M[c] /\ N[c][i] = M[c][i]
        \/ \E k \in DOMAIN AdjustedManifests(c) : i = Len(M[c]) + k /\ N[c][i] = AdjustedManifests(c)[k]
    BY <1>14
  <2>5. \/ j \in DOMAIN M[d] /\ N[d][j] = M[d][j]
        \/ \E l \in DOMAIN AdjustedManifests(d) : j = Len(M[d]) + l /\ N[d][j] = AdjustedManifests(d)[l]
    BY <1>14
  <2> QED
    BY <2>1, <2>2, <2>3, <2>4, <2>5
<1>16. ASSUME NEW c \in Comps, NEW i \in DOMAIN H[c], H[c][i].status = "PENDING"
       PROVE  WillHavePod(N, c, H[c][i].host)
  BY <1>13, <1>14, <1>16 DEF WillHavePod
<1>17. ASSUME NEW c \in Comps, NEW i \in DOMAIN N[c]
       PROVE  i \in DOMAIN M[c] \/ N[c][i].name.comp = c
  <2>1. \A j \in DOMAIN AdjustedManifests(c) : AdjustedManifests(c)[j].name.comp = c
    <3>1. \A n : PodName(c, n).comp = c
      BY DEF PodName
    <3> QED
      BY <1>13, <3>1
  <2> QED
    BY <1>14, <1>17, <2>1
<1>18. ASSUME NEW c \in Comps
       PROVE  /\ \A i \in DOMAIN H[c] : H[c][i].status = "PENDING" => WillHavePod(N, c, H[c][i].host)
              /\ \A i \in DOMAIN M[c] : i \in DOMAIN N[c] /\ N[c][i] = M[c][i]
              /\ \A i \in DOMAIN N[c] : i \in DOMAIN M[c] \/ N[c][i].name.comp = c
  BY <1>14, <1>16, <1>17, Zenon
<1>19. /\ app.manifests = M /\ app.hosts = H /\ app'.manifests = N /\ app'.hosts = G
       /\ app'.known = app.known /\ app'.here = app.here
  BY <1>4, <1>7
<1>20. \A c \in Comps : \A i \in DOMAIN H[c] :
         H[c][i].status = "PENDING" => WillHavePod(app'.manifests, c, H[c][i].host)
  BY <1>18, <1>19
<1>21. NamedApart(app.manifests) => NamedApart(app'.manifests)
  BY <1>15, <1>19
<1> QED
  BY <1>10, <1>18, <1>19, <1>20, <1>21

\* The tables once an instance has its manifest, and its pod or not.
Deployed(c, name, hosts) ==
  /\ c \in Comps /\ name.comp = c
  /\ app'.known = app.known /\ app'.here = app.here
  /\ app'.hosts[c] = hosts /\ \A d \in Comps : d # c => app'.hosts[d] = app.hosts[d]
  /\ \E k : /\ DOMAIN app'.manifests[c] = DOMAIN app.manifests[c] \union {k}
            /\ app'.manifests[c][k].name = name
            /\ app'.manifests[c][k].status = "ACTIVE" \/ \E n : CreateFails(n)
  /\ \A d \in Comps : /\ \A l \in DOMAIN app.manifests[d] : app'.manifests[d][l] = app.manifests[d][l]
                      /\ d # c => DOMAIN app'.manifests[d] = DOMAIN app.manifests[d]
  /\ NamedApart(app.manifests) => NamedApart(app'.manifests)

LEMMA DeployedTables ==
  ASSUME TypeOK, handler.at = "deploying", NEW i, NEW c, NEW h, NEW todo, NEW name, NEW hosts, NEW a,
         Deploys(i, c, h, todo, name, hosts, a)
  PROVE  Deployed(c, name, hosts)
<1>1. /\ handler \in Workers /\ handler.todo \in Seq(Steps) /\ app.known /\ app \in Apps
  BY Worker, Basics, KnownApp
<1>2. /\ i \in DOMAIN handler.todo /\ c = handler.todo[i].comp
      /\ name = PodName(c, next_pod) /\ a = [app EXCEPT !.hosts[c] = hosts]
  BY DEF Deploys
<1>3. c \in Comps
  <2>1. handler.todo[i] \in Steps
    BY <1>1, <1>2
  <2> QED
    BY <1>2, <2>1 DEF Steps
<1>4. PICK M, N, H, G : M = app.manifests /\ N = app'.manifests /\ H = app.hosts /\ G = app'.hosts
  OBVIOUS
<1>5. M \in [Comps -> Seq(ManifestsOf(Names))] /\ H \in [Comps -> Seq(Entries)]
  BY <1>1, <1>4, KnownApp, AppFields
<1>6. /\ a.known = app.known /\ a.here = app.here /\ a.manifests = M
      /\ a.hosts = [H EXCEPT ![c] = hosts]
      /\ DOMAIN a = {"known", "here", "hosts", "manifests", "pod_names"}
  BY <1>1, <1>2, <1>4 DEF Apps
<1>7. PICK status, names :
        /\ app' = [a EXCEPT !.manifests[c] = Append(M[c], Manifest(name, h, status)), !.pod_names = names]
        /\ status = "ACTIVE" \/ \E n : CreateFails(n)
  <2>1. CASE app' = [a EXCEPT !.manifests[c] = Append(@, Manifest(name, h, "ACTIVE")),
                              !.pod_names = @ \union {name}]
    <3>1. PICK names : names = a.pod_names \union {name}
      OBVIOUS
    <3> QED
      BY <1>6, <2>1, <3>1
  <2>2. CASE /\ CreateFails(name)
             /\ app' = [a EXCEPT !.manifests[c] = Append(@, Manifest(name, h, "PENDING")), !.pod_names = {}]
    BY <1>6, <2>2
  <2> QED
    BY <2>1, <2>2 DEF Deploys
<1>8. PICK m, list, k : m = Manifest(name, h, status) /\ list = Append(M[c], m) /\ k = Len(M[c]) + 1
  OBVIOUS
<1>9. m.name = name /\ m.status = status /\ name.comp = c
  BY <1>2, <1>8 DEF Manifest, PodName
<1>10. /\ app'.known = app.known /\ app'.here = app.here
       /\ N = [M EXCEPT ![c] = list] /\ G = [H EXCEPT ![c] = hosts]
  <2>1. app' = [a EXCEPT !.manifests[c] = list, !.pod_names = names]
    BY <1>7, <1>8
  <2> QED
    BY <1>4, <1>6, <2>1
<1>11. G[c] = hosts /\ \A d \in Comps : d # c => G[d] = H[d]
  BY <1>3, <1>5, <1>10
<1>12. /\ DOMAIN N[c] = DOMAIN M[c] \union {k} /\ N[c][k] = m
       /\ \A l \in DOMAIN M[c] : N[c][l] = M[c][l]
       /\ \A d \in Comps : d # c => N[d] = M[d]
  <2>1. N[c] = list /\ \A d \in Comps : d # c => N[d] = M[d]
    BY <1>3, <1>5, <1>10
  <2>2. PICK S : S = ManifestsOf(Names) \union {m}
    OBVIOUS
  <2>3. M[c] \in Seq(S) /\ m \in S
    BY <1>3, <1>5, <2>2, SeqGrows
  <2>4. /\ DOMAIN list = DOMAIN M[c] \union {k} /\ list[k] = m
        /\ \A l \in DOMAIN M[c] : list[l] = M[c][l]
    BY <1>8, <2>3, Appended
  <2> QED
    BY <2>1, <2>4
<1>13. NamedApart(M) => NamedApart(N)
  <2> SUFFICES ASSUME NamedApart(M), NEW d \in Comps, NEW e \in Comps,
                      NEW j \in DOMAIN N[d], NEW l \in DOMAIN N[e], N[d][j].name = N[e][l].name
               PROVE  d = e /\ j = l
    BY DEF NamedApart
  <2>1. \A b \in Comps : \A o \in DOMAIN M[b] : M[b][o].name # name
    <3>1. next_pod \in Nat /\ next_pod >= next_pod
      BY Basics
    <3> QED
      BY <1>1, <1>2, <1>4, <3>1, NewName
  <2>2. /\ (d = c /\ j = k) \/ (j \in DOMAIN M[d] /\ N[d][j] = M[d][j])
        /\ (e = c /\ l = k) \/ (l \in DOMAIN M[e] /\ N[e][l] = M[e][l])
    BY <1>12
  <2> QED
    BY <1>9, <1>12, <2>1, <2>2 DEF NamedApart
<1>14. \E o : /\ DOMAIN N[c] = DOMAIN M[c] \union {o} /\ N[c][o].name = name
              /\ N[c][o].status = "ACTIVE" \/ \E n : CreateFails(n)
  BY <1>7, <1>9, <1>12
<1> QED
  BY <1>3, <1>4, <1>9, <1>10, <1>11, <1>12, <1>13, <1>14 DEF Deployed

\* A manifest that waits gets its pod.
Creates(c, i) ==
  LET m == app.manifests[c][i]
  IN  /\ UNCHANGED <<api_error, faults>> /\ pods' = pods \union {[name |-> m.name, host |-> m.host]}
      /\ app'.known = app.known /\ app'.here = app.here /\ app'.hosts = app.hosts
      /\ \A d \in Comps :
           /\ DOMAIN app'.manifests[d] = DOMAIN app.manifests[d]
           /\ \A j \in DOMAIN app.manifests[d] :
                /\ app'.manifests[d][j].name = app.manifests[d][j].name
                /\ app'.manifests[d][j].host = app.manifests[d][j].host
                /\ ~(d = c /\ j = i) => app'.manifests[d][j].status = app.manifests[d][j].status
      /\ \/ handler'.at = "creating" /\ handler'.steps = handler.steps
         \/ handler'.at = "idle"

LEMMA CreatedTables ==
  ASSUME TypeOK, DeployNewPod
  PROVE  \/ FailAndRestore /\ \E n : CreateFails(n)
         \/ \E c \in Comps : \E i \in DOMAIN app.manifests[c] :
              Creates(c, i)
<1>1. handler.at = "creating" /\ handler \in Workers /\ app.known /\ app \in Apps
  BY Worker, Basics, KnownApp DEF DeployNewPod
<1>2. PICK c \in Comps : \E i \in DOMAIN app.manifests[c] :
        LET m == app.manifests[c][i]
        IN
        \/ /\ CreateOk([name |-> m.name, host |-> m.host])
           /\ app' = [app EXCEPT !.manifests[c][i].status = "ACTIVE",
                                 !.pod_names = @ \union {m.name}]
           /\ IF Planned(c)
              THEN /\ handler' = [handler EXCEPT !.report.placed = @ \union {m.name}]
                   /\ UNCHANGED answers
              ELSE Raise
        \/ CreateFails(m.name) /\ FailAndRestore /\ UNCHANGED answers
  BY Zenon DEF DeployNewPod
<1>3. PICK i \in DOMAIN app.manifests[c] :
        LET m == app.manifests[c][i]
        IN
        \/ /\ CreateOk([name |-> m.name, host |-> m.host])
           /\ app' = [app EXCEPT !.manifests[c][i].status = "ACTIVE",
                                 !.pod_names = @ \union {m.name}]
           /\ IF Planned(c)
              THEN /\ handler' = [handler EXCEPT !.report.placed = @ \union {m.name}]
                   /\ UNCHANGED answers
              ELSE Raise
        \/ CreateFails(m.name) /\ FailAndRestore /\ UNCHANGED answers
  BY Zenon, <1>2
<1>4. PICK m : m = app.manifests[c][i]
  OBVIOUS
<1>5. CASE CreateFails(m.name) /\ FailAndRestore
  BY <1>5
<1>6. CASE /\ CreateOk([name |-> m.name, host |-> m.host])
           /\ app' = [app EXCEPT !.manifests[c][i].status = "ACTIVE", !.pod_names = @ \union {m.name}]
           /\ \/ handler' = [handler EXCEPT !.report.placed = @ \union {m.name}]
              \/ Raise
  <2>1. PICK M, N, H : H = app.hosts /\ M = app.manifests /\ N = app'.manifests
    OBVIOUS
  <2>2. pods' = pods \union {[name |-> m.name, host |-> m.host]} /\ UNCHANGED <<api_error, faults>>
    BY <1>6, PodsAfter, CallsMade
  <2>3. M \in [Comps -> Seq(ManifestsOf(Names))] /\ M[c] \in Seq(ManifestsOf(Names))
    BY <1>1, <2>1, KnownApp, AppFields
  <2>4. PICK list, names : /\ list = [M[c] EXCEPT ![i].status = "ACTIVE"]
                           /\ names = app.pod_names \union {m.name}
    OBVIOUS
  <2>5. app' = [app EXCEPT !.manifests[c] = list, !.pod_names = names]
    BY <1>6, <2>1, <2>4
  <2>6. app'.known = app.known /\ app'.here = app.here /\ N = [M EXCEPT ![c] = list] /\ app'.hosts = H
    BY <1>1, <2>1, <2>5 DEF Apps
  <2>7. /\ DOMAIN list = DOMAIN M[c]
        /\ \A j \in DOMAIN M[c] : list[j].name = M[c][j].name /\ list[j].host = M[c][j].host
        /\ \A j \in DOMAIN M[c] : j # i => list[j].status = M[c][j].status
    <3>1. \A j \in DOMAIN M[c] : M[c][j] \in ManifestsOf(Names)
      BY <2>3
    <3>2. \A e \in ManifestsOf(Names) :
            [e EXCEPT !.status = "ACTIVE"].name = e.name /\ [e EXCEPT !.status = "ACTIVE"].host = e.host
      BY DEF ManifestsOf
    <3>3. \A j \in DOMAIN M[c] : list[j] = IF j = i THEN [M[c][j] EXCEPT !.status = "ACTIVE"] ELSE M[c][j]
      BY <2>3, <2>4
    <3> QED
      BY <2>4, <3>1, <3>2, <3>3
  <2>8. N[c] = list /\ \A d \in Comps : d # c => N[d] = M[d]
    BY <2>3, <2>6
  <2>9. (handler'.at = "creating" /\ handler'.steps = handler.steps) \/ handler'.at = "idle"
    <3>1. CASE Raise
      BY <3>1 DEF Raise, Idle
    <3>2. CASE handler' = [handler EXCEPT !.report.placed = @ \union {m.name}]
      <4>1. PICK report : report = [handler.report EXCEPT !.placed = @ \union {m.name}]
        OBVIOUS
      <4>2. handler' = [handler EXCEPT !.report = report]
        BY <3>2, <4>1
      <4>3. Looks(handler', handler.at, handler.todo, handler.pod, report)
        BY <1>1, <4>2, WorkerLooks, Zenon
      <4> QED
        BY <1>1, <4>3 DEF Looks
    <3> QED
      BY <1>6, <3>1, <3>2
  <2>10. ASSUME NEW d \in Comps
         PROVE  /\ DOMAIN N[d] = DOMAIN M[d]
                /\ \A j \in DOMAIN M[d] :
                     /\ N[d][j].name = M[d][j].name /\ N[d][j].host = M[d][j].host
                     /\ ~(d = c /\ j = i) => N[d][j].status = M[d][j].status
    BY <2>7, <2>8
  <2> QED
    BY <1>4, <2>1, <2>2, <2>6, <2>9, <2>10 DEF Creates
<1> QED
  BY <1>3, <1>4, <1>5, <1>6

\* The pod of a manifest on an INACTIVE host is deleted; the manifest goes too, unless
\* the plan is not about its component.
Deletes(c, i) ==
  LET n == app.manifests[c][i].name
  IN  /\ UNCHANGED <<api_error, faults>> /\ pods' = {p \in pods : p.name # n}
      /\ app'.known = app.known /\ app'.here = app.here
      /\ \E k \in DOMAIN app.hosts[c] :
           app.hosts[c][k].host = app.manifests[c][i].host /\ app.hosts[c][k].status = "INACTIVE"
      /\ \/ /\ app'.hosts = app.hosts /\ handler'.at = "deleting" /\ handler'.steps = handler.steps
            /\ \A d \in Comps : d # c => app'.manifests[d] = app.manifests[d]
            /\ app'.manifests[c] = RemoveAt(app.manifests[c], i)
         \/ /\ app'.manifests = app.manifests /\ handler'.at = "idle"
            /\ app'.hosts = [d \in Comps |-> IF d < c THEN RemainingHosts(d) ELSE app.hosts[d]]

LEMMA DeletedTables ==
  ASSUME TypeOK, DeleteUnusedPod
  PROVE  \/ FailAndRestore /\ \E n : DeleteFails(n)
         \/ \E c \in Comps : \E i \in DOMAIN app.manifests[c] : Deletes(c, i)
<1>1. handler.at = "deleting" /\ handler \in Workers /\ app.known /\ app \in Apps
  BY Worker, Basics, KnownApp DEF DeleteUnusedPod
<1>3. PICK c \in Comps : \E i \in DOMAIN app.manifests[c] :
        LET n == app.manifests[c][i].name
        IN
        /\ IsFirst(<<c, i>>, ToDelete)
        /\ \/ /\ DeleteOk(n)
              /\ IF Planned(c)
                 THEN /\ app' = [app EXCEPT !.pod_names = @ \ {n}, !.manifests[c] = RemoveAt(@, i)]
                      /\ handler' = [handler EXCEPT !.report.placed = @ \ {n},
                                                    !.report.modified = @ \ {n},
                                                    !.report.removed = @ \union {n}]
                      /\ UNCHANGED answers
                 ELSE /\ app' = [app EXCEPT
                           !.pod_names = @ \ {n},
                           !.hosts = [d \in Comps |-> IF d < c THEN RemainingHosts(d) ELSE @[d]]]
                      /\ Raise
           \/ DeleteFails(n) /\ FailAndRestore /\ UNCHANGED answers
  BY Zenon DEF DeleteUnusedPod
<1>4. PICK i \in DOMAIN app.manifests[c] :
        LET n == app.manifests[c][i].name
        IN
        /\ IsFirst(<<c, i>>, ToDelete)
        /\ \/ /\ DeleteOk(n)
              /\ IF Planned(c)
                 THEN /\ app' = [app EXCEPT !.pod_names = @ \ {n}, !.manifests[c] = RemoveAt(@, i)]
                      /\ handler' = [handler EXCEPT !.report.placed = @ \ {n},
                                                    !.report.modified = @ \ {n},
                                                    !.report.removed = @ \union {n}]
                      /\ UNCHANGED answers
                 ELSE /\ app' = [app EXCEPT
                           !.pod_names = @ \ {n},
                           !.hosts = [d \in Comps |-> IF d < c THEN RemainingHosts(d) ELSE @[d]]]
                      /\ Raise
           \/ DeleteFails(n) /\ FailAndRestore /\ UNCHANGED answers
  BY Zenon, <1>3
<1>5. PICK m, n, M, H, names : /\ m = app.manifests[c][i] /\ n = m.name
                               /\ M = app.manifests /\ H = app.hosts /\ names = app.pod_names \ {n}
  OBVIOUS
<1>6. M \in [Comps -> Seq(ManifestsOf(Names))]
  BY <1>1, <1>5, KnownApp, AppFields
<1>7. CASE DeleteFails(n) /\ FailAndRestore
  BY <1>7
<1>8. \E k \in DOMAIN H[c] : H[c][k].host = m.host /\ H[c][k].status = "INACTIVE"
  <2>1. <<c, i>> \in ToDelete
    BY <1>4 DEF IsFirst
  <2>2. \E k \in DOMAIN app.hosts[c] : app.hosts[c][k] = [host |-> m.host, status |-> "INACTIVE"]
    BY <1>5, <2>1 DEF ToDelete
  <2> QED
    BY <1>5, <2>2
<1>9. CASE DeleteOk(n)
  <2>1. pods' = {p \in pods : p.name # n} /\ UNCHANGED <<api_error, faults>>
    BY <1>9, CallsMade DEF DeleteOk
  <2>2. CASE /\ app' = [app EXCEPT !.pod_names = @ \ {n}, !.manifests[c] = RemoveAt(@, i)]
             /\ handler' = [handler EXCEPT !.report.placed = @ \ {n},
                                           !.report.modified = @ \ {n},
                                           !.report.removed = @ \union {n}]
    <3>1. PICK list, N : list = RemoveAt(M[c], i) /\ N = app'.manifests
      OBVIOUS
    <3>2. app' = [app EXCEPT !.pod_names = names, !.manifests[c] = list]
      BY <1>5, <2>2, <3>1
    <3>3. app'.known = app.known /\ app'.here = app.here /\ N = [M EXCEPT ![c] = list] /\ app'.hosts = H
      BY <1>1, <1>5, <3>1, <3>2 DEF Apps
    <3>4. PICK report : report = [handler.report EXCEPT !.placed = @ \ {n}, !.modified = @ \ {n},
                                                        !.removed = @ \union {n}]
      OBVIOUS
    <3>5. handler' = [handler EXCEPT !.report = report]
      BY <2>2, <3>4
    <3>6. Looks(handler', handler.at, handler.todo, handler.pod, report)
      BY <1>1, <3>5, WorkerLooks, Zenon
    <3>7. N[c] = list /\ \A d \in Comps : d # c => N[d] = M[d]
      BY <1>6, <3>3
    <3> QED
      BY <1>1, <1>5, <1>8, <2>1, <3>1, <3>3, <3>6, <3>7 DEF Looks, Deletes
  <2>3. CASE /\ app' = [app EXCEPT
                  !.pod_names = @ \ {n},
                  !.hosts = [d \in Comps |-> IF d < c THEN RemainingHosts(d) ELSE @[d]]]
             /\ Raise
    <3>1. PICK G : G = [d \in Comps |-> IF d < c THEN RemainingHosts(d) ELSE H[d]]
      OBVIOUS
    <3>2. app' = [app EXCEPT !.pod_names = names, !.hosts = G]
      BY <1>5, <2>3, <3>1
    <3>3. app'.known = app.known /\ app'.here = app.here /\ app'.manifests = M /\ app'.hosts = G
      BY <1>1, <1>5, <3>2 DEF Apps
    <3>4. handler'.at = "idle"
      BY <2>3 DEF Raise, Idle
    <3> QED
      BY <1>5, <1>8, <2>1, <3>1, <3>3, <3>4 DEF Deletes
  <2> QED
    BY <1>4, <1>5, <1>9, <2>2, <2>3
<1> QED
  BY <1>4, <1>5, <1>7, <1>9

\* A manifest leaves the list of its component.
LEMMA FewerManifests ==
  ASSUME NEW S, NEW M \in [Comps -> Seq(S)], NEW c \in Comps, NEW i \in DOMAIN M[c],
         NEW N, N[c] = RemoveAt(M[c], i), \A d \in Comps : d # c => N[d] = M[d]
  PROVE  /\ \A d \in Comps : \A j \in DOMAIN N[d] : \E l \in DOMAIN M[d] : N[d][j] = M[d][l]
         /\ \A d \in Comps : \A l \in DOMAIN M[d] :
              ~(d = c /\ l = i) => \E j \in DOMAIN N[d] : N[d][j] = M[d][l]
         /\ NamedApart(M) => NamedApart(N)
<1>1. PICK s, list : s = M[c] /\ list = RemoveAt(s, i)
  OBVIOUS
<1>2. s \in Seq(S) /\ i \in DOMAIN s
  BY <1>1
<1>3. /\ \A j \in DOMAIN list : \E l \in DOMAIN s : l = (IF j < i THEN j ELSE j + 1) /\ list[j] = s[l]
      /\ \A l \in DOMAIN s : l # i => \E j \in DOMAIN list : list[j] = s[l]
      /\ DOMAIN list \subseteq Nat /\ i \in Nat
  BY <1>1, <1>2, LeftOut
<1> DEFINE old(d, j) == IF d = c /\ ~(j < i) THEN j + 1 ELSE j
<1>4. ASSUME NEW d \in Comps, NEW j \in DOMAIN N[d]
      PROVE  old(d, j) \in DOMAIN M[d] /\ N[d][j] = M[d][old(d, j)]
  BY <1>1, <1>3, <1>4
<1>5. ASSUME NEW j \in DOMAIN list, NEW l \in DOMAIN list, old(c, j) = old(c, l)
      PROVE  j = l
  BY <1>3, <1>5
<1>6. \A d \in Comps : d # c => \A j : old(d, j) = j
  OBVIOUS
<1> HIDE DEF old
<1>7. \A d \in Comps : \A l \in DOMAIN M[d] :
        ~(d = c /\ l = i) => \E j \in DOMAIN N[d] : N[d][j] = M[d][l]
  BY <1>1, <1>3
<1>8. ASSUME NamedApart(M)
      PROVE  NamedApart(N)
  <2> SUFFICES ASSUME NEW d \in Comps, NEW e \in Comps,
                      NEW j \in DOMAIN N[d], NEW l \in DOMAIN N[e], N[d][j].name = N[e][l].name
               PROVE  d = e /\ j = l
    BY DEF NamedApart
  <2>1. d = e /\ old(d, j) = old(e, l)
    BY <1>4, <1>8 DEF NamedApart
  <2>2. CASE d = c
    BY <1>1, <1>5, <2>1, <2>2
  <2>3. CASE d # c
    BY <1>6, <2>1, <2>3
  <2> QED
    BY <2>1, <2>2, <2>3
<1> QED
  BY <1>4, <1>7, <1>8

\* No plan removes a component from a host that it moves it to.
MovesStay ==
  \A steps \in Plans : \A k, l \in DOMAIN steps :
    /\ steps[k].action = "move" /\ steps[l].action = "remove" /\ steps[k].comp = steps[l].comp
    => steps[k].host # steps[l].host

LaterStates == {"acting", "changing", "creating", "deleting"}

FromPlans ==
  /\ \A i \in DOMAIN notifications :
       notifications[i].op = "PLAN_SUBMITTED" /\ ~notifications[i].initial =>
         notifications[i].steps \in Plans
  /\ handler.at \in LaterStates => handler.steps \in Plans

\* A manifest names a pod of its component, and no two name the same.
OwnNames(M) == NamedApart(M) /\ \A c \in Comps : \A i \in DOMAIN M[c] : M[c][i].name.comp = c
NamesApart ==
  ~respecified => /\ app.known => OwnNames(app.manifests)
                  /\ app_copy.known => OwnNames(app_copy.manifests)

InUse(hosts, h) == \A j \in DOMAIN hosts : hosts[j].host = h => hosts[j].status # "INACTIVE"
WillBeUsed(hosts, h) ==
  InUse(hosts, h) /\ \E i \in DOMAIN hosts : hosts[i].host = h /\ hosts[i].status = "PENDING"

ToMove(todo, c) == \E j \in DOMAIN todo : todo[j].comp = c /\ todo[j].action = "move"
MovedTo(c, h) == \E k \in DOMAIN handler.steps :
  handler.steps[k].comp = c /\ handler.steps[k].action = "move" /\ handler.steps[k].host = h

\* While the plan's steps are dealt with, a component that is moved has a step left or a
\* host that waits for it.
MovesWait ==
  handler.at = "acting" /\ ~respecified =>
    \A c \in Comps : Moves(c) =>
      \/ ToMove(handler.todo, c)
      \/ \E h \in Hosts : MovedTo(c, h) /\ WillBeUsed(app.hosts[c], h)

\* Afterwards it has a manifest on a host in use, which waits for its pod or names one that runs.
MovedIsKept ==
  handler.at \in {"creating", "deleting"} /\ ~respecified /\ faults = 0 =>
    \A c \in Comps : Moves(c) =>
      \E i \in DOMAIN app.manifests[c] :
        /\ InUse(app.hosts[c], app.manifests[c][i].host)
        /\ \/ handler.at = "creating" /\ app.manifests[c][i].status = "PENDING"
           \/ app.manifests[c][i].name \in RunningNames

MoveInv == FromPlans /\ NamesApart /\ MovesWait /\ MovedIsKept

\* What a step of the plan does to the hosts in use.
LEMMA UseOfHosts ==
  ASSUME NEW hosts \in Seq(Entries), NEW h \in Hosts, NEW status \in {"PENDING", "INACTIVE"}
  PROVE  LET new == append_host_to_list(hosts, h, status)
         IN  /\ status = "PENDING" => WillBeUsed(new, h)
             /\ \A x : x # h /\ WillBeUsed(hosts, x) => WillBeUsed(new, x)
<1>1. PICK new : new = append_host_to_list(hosts, h, status)
  OBVIOUS
<1>2. /\ \A j \in DOMAIN new : new[j].host = h => new[j].status = status
      /\ \E j \in DOMAIN new : new[j].host = h
      /\ \A j \in DOMAIN new : new[j].host # h => j \in DOMAIN hosts /\ new[j] = hosts[j]
      /\ \A j \in DOMAIN hosts : hosts[j].host # h => j \in DOMAIN new /\ new[j] = hosts[j]
  <2>1. CASE Listed(hosts, h)
    <3> DEFINE change(j) == IF hosts[j].host = h THEN [hosts[j] EXCEPT !.status = status] ELSE hosts[j]
    <3>1. new = [j \in DOMAIN hosts |-> change(j)]
      BY <1>1, <2>1 DEF append_host_to_list
    <3>2. ASSUME NEW j \in DOMAIN hosts
          PROVE  /\ change(j).host = hosts[j].host
                 /\ hosts[j].host = h => change(j).status = status
                 /\ hosts[j].host # h => change(j) = hosts[j]
      <4>1. hosts[j] \in Entries
        OBVIOUS
      <4> QED
        BY <4>1 DEF Entries
    <3> HIDE DEF change
    <3>3. DOMAIN new = DOMAIN hosts /\ \A j \in DOMAIN hosts : new[j] = change(j)
      BY <3>1
    <3> QED
      BY <2>1, <3>2, <3>3 DEF Listed
  <2>2. CASE ~Listed(hosts, h)
    <3>1. PICK e : e = [host |-> h, status |-> status]
      OBVIOUS
    <3>2. new = Append(hosts, e) /\ e \in Entries /\ e.host = h /\ e.status = status
      BY <1>1, <2>2, <3>1 DEF append_host_to_list, Entries
    <3>3. PICK k : k = Len(hosts) + 1
      OBVIOUS
    <3>4. /\ DOMAIN new = DOMAIN hosts \union {k} /\ new[k] = e
          /\ \A i \in DOMAIN hosts : new[i] = hosts[i]
      BY <3>2, <3>3, Appended
    <3>5. \A i \in DOMAIN hosts : hosts[i].host # h
      BY <2>2 DEF Listed
    <3> QED
      BY <3>2, <3>4, <3>5
  <2> QED
    BY <2>1, <2>2
<1>3. status = "PENDING" => WillBeUsed(new, h)
  BY <1>2 DEF WillBeUsed, InUse
<1>4. ASSUME NEW x, x # h, WillBeUsed(hosts, x)
      PROVE  WillBeUsed(new, x)
  <2>1. InUse(new, x)
    BY <1>2, <1>4 DEF WillBeUsed, InUse
  <2>2. \E i \in DOMAIN new : new[i].host = x /\ new[i].status = "PENDING"
    BY <1>2, <1>4 DEF WillBeUsed
  <2> QED
    BY <2>1, <2>2 DEF WillBeUsed
<1> QED
  BY <1>1, <1>3, <1>4

\* Only these steps leave the handler at work on a later plan.
LEMMA LaterSteps ==
  ASSUME TypeOK, [Next]_vars, handler'.at \in LaterStates
  PROVE  \/ /\ handler' = handler /\ UNCHANGED <<app, app_copy, respecified>>
            /\ (pods' = pods /\ faults' = faults) \/ faults' = faults + 1
         \/ StartPlan /\ handler' = Working("acting", Head(notifications))
         \/ (ActMove \/ ActDeploy \/ ActRemove) /\ GoOn
         \/ ActChangeSpec \/ DeleteOldPod
         \/ StartDeploying \/ DeployNewPod \/ StartDeleting \/ DeleteUnusedPod
<1>1. CASE \/ \E where \in {"here", "elsewhere"} : CreateResource(where)
           \/ DeleteResource \/ ModifyResource \/ WatchRepeats
           \/ \E steps \in InitialPlans : Submit(steps, TRUE)
           \/ \E steps \in Plans : Submit(steps, FALSE)
           \/ UNCHANGED vars
  BY <1>1 DEF CreateResource, DeleteResource, ModifyResource, WatchRepeats, Submit, Watched, vars, historyVars
<1>2. CASE \E p \in pods : PodDies(p)
  BY <1>2 DEF PodDies
<1>3. CASE Restart
  BY <1>3 DEF Restart, Idle, LaterStates
<1>4. CASE AppEvent \/ PlanOfUnknownApp \/ Answer
  <2>1. CASE HandleAdded \/ HandleModified \/ PlanOfUnknownApp
    <3>1. handler' = handler /\ handler.at = "idle"
      BY <2>1 DEF HandleAdded, HandleModified, PlanOfUnknownApp, TakePlan, Take, Idle
    <3> QED
      BY <3>1 DEF LaterStates
  <2>2. CASE HandleDeleted \/ ForgetApp \/ Answer
    <3>1. handler'.at \in {"idle", "removing"}
      BY <2>2 DEF HandleDeleted, ForgetApp, Answer, Idle
    <3> QED
      BY <3>1 DEF LaterStates
  <2>3. CASE RemovePod
    <3>1. handler.at = "removing"
      BY <2>3 DEF RemovePod
    <3>2. PICK n : handler' = [handler EXCEPT !.todo = @ \ {n}] \/ handler' = Idle
      BY <2>3, Zenon DEF RemovePod
    <3>3. handler'.at \in {"idle", "removing"}
      BY <3>1, <3>2, Remover DEF Idle
    <3> QED
      BY <3>3 DEF LaterStates
  <2> QED
    BY <1>4, <2>1, <2>2, <2>3 DEF AppEvent
<1>5. CASE StartInitialPlan \/ StartPlan
  <2>1. PICK plan : plan = Head(notifications)
    OBVIOUS
  <2>2. \/ handler' = [Working("reply", plan) EXCEPT !.status = "FAILED"]
        \/ \E todo : handler' = [Working("deploying", plan) EXCEPT !.todo = todo]
        \/ StartPlan /\ handler' = Working("acting", plan)
    BY <1>5, <2>1 DEF StartInitialPlan, StartPlan
  <2>3. \/ handler'.at \in {"reply", "deploying"}
        \/ StartPlan /\ handler' = Working("acting", plan)
    BY <2>2 DEF Working
  <2> QED
    BY <2>1, <2>3 DEF LaterStates
<1>6. CASE FinishInitialPlan \/ FinishPlan
  <2>1. handler \in Workers /\ Finish("COMPLETED")
    BY <1>6, Worker DEF FinishInitialPlan, FinishPlan
  <2>2. handler'.at = "reply"
    BY <2>1, FinishLooks
  <2> QED
    BY <2>2 DEF LaterStates
<1>7. CASE DeployInstance
  <2>1. handler \in Workers /\ handler.at = "deploying"
    BY <1>7, Worker DEF DeployInstance
  <2>2. PICK i, c, h, todo, name, hosts, a : Deploys(i, c, h, todo, name, hosts, a)
    BY <1>7, DeployParts
  <2>3. \/ Finish("FAILED")
        \/ handler' = [handler EXCEPT !.todo = todo, !.report.placed = @ \union {name}]
    BY <2>2 DEF Deploys
  <2>4. PICK report : report = [handler.report EXCEPT !.placed = @ \union {name}]
    OBVIOUS
  <2>5. Finish("FAILED") \/ handler' = [handler EXCEPT !.todo = todo, !.report = report]
    BY <2>3, <2>4
  <2>6. ASSUME handler' = [handler EXCEPT !.todo = todo, !.report = report]
        PROVE  handler'.at = "deploying"
    <3>1. Looks(handler', handler.at, todo, handler.pod, report)
      BY <2>1, <2>6, WorkerLooks, Zenon
    <3> QED
      BY <2>1, <3>1 DEF Looks
  <2>7. handler'.at \in {"reply", "deploying"}
    BY <2>1, <2>5, <2>6, FinishLooks
  <2> QED
    BY <2>7 DEF LaterStates
<1>8. CASE ActMove \/ ActDeploy \/ ActRemove
  <2>1. handler \in Workers
    BY <1>8, Worker DEF ActMove, ActDeploy, ActRemove, Act
  <2>2. GoOn \/ Finish("FAILED")
    BY <1>8, Zenon DEF ActMove, ActDeploy, ActRemove
  <2>3. ~Finish("FAILED")
    BY <2>1, FinishLooks DEF LaterStates
  <2> QED
    BY <1>8, <2>2, <2>3
<1> QED
  BY <1>1, <1>2, <1>3, <1>4, <1>5, <1>6, <1>7, <1>8 DEF Next, AppHandler, InitialPlan, LaterPlan

\* The steps of the plan stay as long as it goes on.
LEMMA StepsStay ==
  ASSUME TypeOK, handler.at \in LaterStates, handler'.at \in LaterStates,
         \/ handler' = handler
         \/ (ActMove \/ ActDeploy \/ ActRemove) /\ GoOn
         \/ ActChangeSpec \/ DeleteOldPod
         \/ StartDeploying \/ DeployNewPod \/ StartDeleting \/ DeleteUnusedPod
  PROVE  handler'.steps = handler.steps
<1>1. handler \in Workers
  BY Worker DEF LaterStates
<1>2. /\ \A status : Finish(status) => handler'.steps = handler.steps
      /\ FailAndRestore => handler'.steps = handler.steps
      /\ ~Raise
  BY <1>1, FinishLooks DEF FailAndRestore, Raise, Idle, LaterStates
<1>3. \A at, todo, pod, report :
        /\ handler' = [handler EXCEPT !.at = at, !.todo = todo, !.pod = pod, !.report = report]
           => handler'.steps = handler.steps
        /\ handler' = [handler EXCEPT !.at = at, !.pod = pod] => handler'.steps = handler.steps
        /\ handler' = [handler EXCEPT !.at = at] => handler'.steps = handler.steps
        /\ handler' = [handler EXCEPT !.todo = todo] => handler'.steps = handler.steps
  <2> DEFINE S == Seq(Steps)
  <2>1. handler \in [at : States, id : DOMAIN answers, initial : BOOLEAN, steps : S, todo : S,
                     pod : SUBSET Names, status : {"none", "COMPLETED", "FAILED"}, report : Reports]
    BY <1>1 DEF Workers, States
  <2> HIDE DEF S
  <2> QED
    BY <2>1
<1>4. CASE (ActMove \/ ActDeploy \/ ActRemove) /\ GoOn
  <2>1. \E todo : handler' = [handler EXCEPT !.todo = todo]
    BY <1>4 DEF GoOn
  <2> QED
    BY <1>3, <2>1, Zenon
<1>5. CASE ActChangeSpec
  <2>1. \/ Finish("FAILED") \/ FailAndRestore \/ Raise
        \/ \E pod : handler' = [handler EXCEPT !.at = "changing", !.pod = pod]
    BY <1>5, Zenon DEF ActChangeSpec
  <2> QED
    BY <1>2, <1>3, <2>1, Zenon
<1>6. CASE DeleteOldPod
  <2>1. FailAndRestore \/ \E new :
          handler' = [handler EXCEPT !.at = "acting", !.todo = Tail(@), !.pod = {},
                                     !.report.modified = @ \union {new}]
    BY <1>6, Zenon DEF DeleteOldPod
  <2>2. ASSUME NEW new, handler' = [handler EXCEPT !.at = "acting", !.todo = Tail(@), !.pod = {},
                                                   !.report.modified = @ \union {new}]
        PROVE  handler'.steps = handler.steps
    <3>1. PICK todo, pod, report : /\ todo = Tail(handler.todo) /\ pod = {}
                                   /\ report = [handler.report EXCEPT !.modified = @ \union {new}]
      OBVIOUS
    <3>2. handler' = [handler EXCEPT !.at = "acting", !.todo = todo, !.pod = pod, !.report = report]
      BY <2>2, <3>1
    <3> QED
      BY <1>3, <3>2, Zenon
  <2> QED
    BY <1>2, <2>1, <2>2
<1>7. CASE StartDeploying \/ StartDeleting
  <2>1. \E at : handler' = [handler EXCEPT !.at = at]
    BY <1>7 DEF StartDeploying, StartDeleting
  <2> QED
    BY <1>3, <2>1, Zenon
<1>8. CASE DeployNewPod
  <2>1. CASE FailAndRestore
    BY <1>2, <2>1
  <2>2. CASE \E c \in Comps : \E i \in DOMAIN app.manifests[c] : Creates(c, i)
    BY <2>2 DEF Creates, LaterStates
  <2> QED
    BY <1>8, <2>1, <2>2, CreatedTables
<1>9. CASE DeleteUnusedPod
  <2>1. CASE FailAndRestore
    BY <1>2, <2>1
  <2>2. CASE \E c \in Comps : \E i \in DOMAIN app.manifests[c] : Deletes(c, i)
    BY <2>2 DEF Deletes, LaterStates
  <2> QED
    BY <1>9, <2>1, <2>2, DeletedTables
<1> QED
  BY <1>4, <1>5, <1>6, <1>7, <1>8, <1>9

LEMMA NextFromPlans ==
  ASSUME TypeOK, FromPlans, [Next]_vars
  PROVE  FromPlans'
<1> DEFINE Known(q) == \A i \in DOMAIN q :
             q[i].op = "PLAN_SUBMITTED" /\ ~q[i].initial => q[i].steps \in Plans
           S == Events \union Plan
<1>1. Known(notifications) /\ (handler.at \in LaterStates => handler.steps \in Plans)
  BY DEF FromPlans
<1>2. notifications \in Seq(S)
  BY DEF TypeOK
<1>3. \A e \in Events : e \in S /\ e.op # "PLAN_SUBMITTED"
  BY DEF Events
<1> HIDE DEF S
<1>4. ASSUME NEW e, notifications' = Append(notifications, e),
             e.op = "PLAN_SUBMITTED" /\ ~e.initial => e.steps \in Plans
      PROVE  Known(notifications')
  <2>1. PICK T : T = S \union {e}
    OBVIOUS
  <2>2. notifications \in Seq(T) /\ e \in T
    BY <1>2, <2>1, SeqGrows
  <2>3. PICK k : k = Len(notifications) + 1
    OBVIOUS
  <2>4. /\ DOMAIN notifications' = DOMAIN notifications \union {k} /\ notifications'[k] = e
        /\ \A i \in DOMAIN notifications : notifications'[i] = notifications[i]
    BY <1>4, <2>2, <2>3, Appended
  <2> QED
    BY <1>1, <1>4, <2>4
<1>5. ASSUME notifications # << >>, notifications' = Tail(notifications)
      PROVE  Known(notifications')
  <2>1. \A i \in DOMAIN notifications' :
          i + 1 \in DOMAIN notifications /\ notifications'[i] = notifications[i + 1]
    BY <1>2, <1>5, Shortened
  <2> QED
    BY <1>1, <2>1
<1>6. ASSUME NEW t \in Seq(S), \A j \in DOMAIN t : t[j].op # "PLAN_SUBMITTED",
             notifications' = notifications \o t
      PROVE  Known(notifications')
  BY <1>1, <1>2, <1>6
<1>7. Known(notifications')
  <2>1. CASE \/ \E where \in {"here", "elsewhere"} : CreateResource(where)
             \/ DeleteResource \/ ModifyResource \/ WatchRepeats
    <3>1. PICK d \in Events, e \in Events :
            \/ notifications' = notifications \/ notifications' = Append(notifications, e)
            \/ notifications' = notifications \o <<d, e>> \/ notifications' = notifications \o <<e>>
      <4>1. Deleted \in Events
        BY DEF Deleted, Events
      <4>2. \E where : CreateResource(where) \/ DeleteResource \/ ModifyResource \/ WatchRepeats
        BY <2>1
      <4> QED
        BY <4>1, <4>2, WatchedIs
    <3>2. /\ <<d, e>> \in Seq(S) /\ \A j \in DOMAIN <<d, e>> : <<d, e>>[j].op # "PLAN_SUBMITTED"
          /\ <<e>> \in Seq(S) /\ \A j \in DOMAIN <<e>> : <<e>>[j].op # "PLAN_SUBMITTED"
      <4>1. d \in S /\ e \in S /\ d.op # "PLAN_SUBMITTED" /\ e.op # "PLAN_SUBMITTED"
        BY <1>3
      <4>2. DOMAIN <<d, e>> = {1, 2} /\ <<d, e>>[1] = d /\ <<d, e>>[2] = e
            /\ DOMAIN <<e>> = {1} /\ <<e>>[1] = e
        OBVIOUS
      <4> QED
        BY <4>1, <4>2
    <3>3. CASE notifications' = Append(notifications, e)
      BY <1>4, <1>3, <3>3
    <3>4. CASE notifications' = notifications
      BY <1>1, <3>4
    <3> HIDE DEF Known
    <3> QED
      BY <1>6, <3>1, <3>2, <3>3, <3>4
  <2>2. ASSUME NEW steps, NEW initial \in BOOLEAN, Submit(steps, initial), ~initial => steps \in Plans
        PROVE  Known(notifications')
    <3>1. PICK e : /\ e = [op |-> "PLAN_SUBMITTED", id |-> Len(answers) + 1, initial |-> initial, steps |-> steps]
                   /\ notifications' = Append(notifications, e)
      BY <2>2 DEF Submit
    <3> QED
      BY <1>4, <2>2, <3>1
  <2>3. CASE \/ HandleAdded \/ HandleModified \/ HandleDeleted \/ PlanOfUnknownApp \/ StartInitialPlan
             \/ StartPlan
    <3>1. \E op : Take(op)
      BY <2>3 DEF HandleAdded, HandleModified, HandleDeleted, PlanOfUnknownApp, StartInitialPlan, StartPlan, TakePlan
    <3> QED
      BY <1>5, <3>1 DEF Take
  <2>4. CASE Restart
    BY <2>4, ListsNoPlan DEF Restart, NoPlanIn
  <2>5. CASE \/ RemovePod \/ ForgetApp \/ DeployInstance \/ FinishInitialPlan
             \/ ActMove \/ ActDeploy \/ ActRemove \/ ActChangeSpec \/ DeleteOldPod \/ StartDeploying
             \/ DeployNewPod \/ StartDeleting \/ DeleteUnusedPod \/ FinishPlan \/ Answer
             \/ (\E p \in pods : PodDies(p)) \/ UNCHANGED vars
    <3>1. notifications' = notifications
      BY <2>5, Zenon DEF RemovePod, ForgetApp, DeployInstance, FinishInitialPlan, ActMove, ActDeploy,
        ActRemove, Act, ActChangeSpec, DeleteOldPod, StartDeploying, DeployNewPod, StartDeleting,
        DeleteUnusedPod, FinishPlan, Answer, PodDies, vars
    <3> QED
      BY <1>1, <3>1
  <2> HIDE DEF Known
  <2>6. CASE (\E steps \in InitialPlans : Submit(steps, TRUE)) \/ (\E steps \in Plans : Submit(steps, FALSE))
    BY <2>2, <2>6
  <2> QED
    BY <2>1, <2>3, <2>4, <2>5, <2>6 DEF Next, AppHandler, AppEvent, InitialPlan, LaterPlan
<1>8. ASSUME handler'.at \in LaterStates
      PROVE  handler'.steps \in Plans
  <2>1. CASE StartPlan /\ handler' = Working("acting", Head(notifications))
    <3>1. PICK plan : plan = Head(notifications)
      OBVIOUS
    <3>2. notifications # << >> /\ plan.op = "PLAN_SUBMITTED" /\ ~plan.initial
      BY <2>1, <3>1 DEF StartPlan, TakePlan, Take
    <3>3. 1 \in DOMAIN notifications /\ plan = notifications[1]
      BY <1>2, <3>1, <3>2, Shortened
    <3>4. plan.steps \in Plans
      BY <1>1, <3>2, <3>3
    <3> QED
      BY <2>1, <3>1, <3>4 DEF Working
  <2>2. CASE handler' = handler
    BY <1>1, <1>8, <2>2
  <2>3. CASE \/ (ActMove \/ ActDeploy \/ ActRemove) /\ GoOn
             \/ ActChangeSpec \/ DeleteOldPod
             \/ StartDeploying \/ DeployNewPod \/ StartDeleting \/ DeleteUnusedPod
    <3>1. handler.at \in LaterStates
      BY <2>3, Zenon DEF ActMove, ActDeploy, ActRemove, Act, ActChangeSpec, DeleteOldPod, StartDeploying,
        DeployNewPod, StartDeleting, DeleteUnusedPod, LaterStates
    <3> QED
      BY <1>1, <1>8, <2>3, <3>1, StepsStay
  <2> QED
    BY <1>8, <2>1, <2>2, <2>3, LaterSteps
<1> QED
  BY <1>7, <1>8 DEF FromPlans

LEMMA NamesStay ==
  ASSUME NamesApart, respecified => respecified',
         app' \in {app, app_copy, NoApp} \/ (app'.known /\ ~respecified' => OwnNames(app'.manifests)),
         app_copy' \in {app, app_copy, NoApp}
  PROVE  NamesApart'
<1>1. ~NoApp.known
  BY DEF NoApp
<1> QED
  BY <1>1 DEF NamesApart

\* New manifests get new names.
LEMMA NextNames ==
  ASSUME TypeOK, Respecifies, NamesApart, [Next]_vars
  PROVE  NamesApart'
<1>1. CASE \/ \E where \in {"here", "elsewhere"} : CreateResource(where)
           \/ DeleteResource \/ ModifyResource \/ WatchRepeats
           \/ \E steps \in InitialPlans : Submit(steps, TRUE)
           \/ \E steps \in Plans : Submit(steps, FALSE)
           \/ (\E p \in pods : PodDies(p)) \/ Restart \/ UNCHANGED vars
  <2>1. app' \in {app, NoApp} /\ app_copy' \in {app_copy, NoApp} /\ respecified' = respecified
    BY <1>1 DEF CreateResource, DeleteResource, ModifyResource, WatchRepeats, Submit, PodDies, Restart, vars, historyVars
  <2> QED
    BY <2>1, NamesStay
<1>2. CASE HandleAdded
  <2>1. UNCHANGED <<app_copy, respecified>> /\ (app' = app \/ app' = NewApp(Head(notifications).here))
    BY <1>2 DEF HandleAdded, historyVars
  <2>2. \A here : OwnNames(NewApp(here).manifests)
    BY NothingPlaced DEF OwnNames, NewApp
  <2> QED
    BY <2>1, <2>2, NamesStay
<1>3. CASE \/ HandleModified \/ HandleDeleted \/ RemovePod \/ ForgetApp \/ PlanOfUnknownApp
           \/ StartInitialPlan \/ StartPlan \/ Answer \/ FinishInitialPlan \/ StartDeleting
  <2>1. app' \in {app, NoApp} /\ app_copy' \in {app, app_copy, NoApp} /\ respecified' = respecified
    BY <1>3 DEF HandleModified, HandleDeleted, RemovePod, ForgetApp, PlanOfUnknownApp, StartInitialPlan,
      StartPlan, Answer, FinishInitialPlan, StartDeleting, TakePlan, historyVars
  <2> QED
    BY <2>1, NamesStay
<1>4. CASE ActMove \/ ActDeploy \/ ActRemove \/ FinishPlan
  <2>1. UNCHANGED <<app_copy, respecified>>
    <3>1. (\E action : Act(action) /\ ActionEnds) \/ FinishPlan
      BY <1>4, Zenon DEF ActMove, ActDeploy, ActRemove
    <3> QED
      BY <3>1 DEF Act, ActionEnds, FinishPlan, historyVars
  <2>2. app.known /\ app \in Apps
    BY <1>4, Basics, KnownApp, Zenon DEF ActMove, ActDeploy, ActRemove, Act, FinishPlan
  <2>3. app' = app \/ (\E c, hosts : app' = [app EXCEPT !.hosts[c] = hosts])
                   \/ \E H : app' = [app EXCEPT !.hosts = H]
    <3>1. PICK s : s = Head(handler.todo)
      OBVIOUS
    <3>2. CASE ActMove
      <4>1. \/ app' = app
            \/ app' = [app EXCEPT !.hosts[s.comp] =
                 append_host_to_list(append_host_to_list(app.hosts[s.comp], s.src_host, "INACTIVE"),
                                     s.host, "PENDING")]
        BY <3>1, <3>2, Zenon DEF ActMove
      <4> QED
        BY <4>1, Zenon
    <3>3. CASE ActDeploy
      <4>1. \/ app' = app
            \/ app' = [app EXCEPT !.hosts[s.comp] = append_host_to_list(app.hosts[s.comp], s.host, "PENDING")]
        BY <3>1, <3>3 DEF ActDeploy
      <4> QED
        BY <4>1, Zenon
    <3>4. CASE ActRemove
      <4>1. \/ app' = app
            \/ app' = [app EXCEPT !.hosts[s.comp] = append_host_to_list(app.hosts[s.comp], s.host, "INACTIVE")]
        BY <3>1, <3>4 DEF ActRemove
      <4> QED
        BY <4>1, Zenon
    <3>5. CASE FinishPlan
      BY <3>5 DEF FinishPlan
    <3> QED
      BY <1>4, <3>2, <3>3, <3>4, <3>5
  <2>4. app'.manifests = app.manifests
    BY <2>2, <2>3 DEF Apps
  <2> QED
    BY <2>1, <2>2, <2>4, NamesStay DEF NamesApart
<1>5. CASE ActChangeSpec \/ DeleteOldPod
  <2>1. app_copy' = app_copy
    BY <1>5, Zenon DEF ActChangeSpec, DeleteOldPod
  <2>2. respecified' \/ (app' \in {app, app_copy} /\ respecified' = respecified)
    <3>1. CASE ActChangeSpec
      BY <3>1, Zenon DEF ActChangeSpec, FailAndRestore
    <3>2. CASE DeleteOldPod
      BY <3>2, Zenon DEF DeleteOldPod, Respecifies, historyVars
    <3> QED
      BY <1>5, <3>1, <3>2
  <2> QED
    BY <2>1, <2>2, NamesStay DEF NamesApart
<1>6. CASE DeployInstance
  <2>1. UNCHANGED <<app_copy, respecified>> /\ handler.at = "deploying" /\ app.known
    BY <1>6, Basics DEF DeployInstance, historyVars
  <2>2. PICK i, c, h, todo, name, hosts, a : Deploys(i, c, h, todo, name, hosts, a)
    BY <1>6, DeployParts
  <2>3. /\ c \in Comps /\ name.comp = c
        /\ \E k : DOMAIN app'.manifests[c] = DOMAIN app.manifests[c] \union {k} /\ app'.manifests[c][k].name = name
        /\ \A d \in Comps : /\ \A l \in DOMAIN app.manifests[d] : app'.manifests[d][l] = app.manifests[d][l]
                            /\ d # c => DOMAIN app'.manifests[d] = DOMAIN app.manifests[d]
        /\ NamedApart(app.manifests) => NamedApart(app'.manifests)
    <3>1. Deployed(c, name, hosts)
      BY <2>1, <2>2, DeployedTables
    <3> QED
      BY <3>1 DEF Deployed
  <2>4. OwnNames(app.manifests) => OwnNames(app'.manifests)
    BY <2>3 DEF OwnNames
  <2> QED
    BY <2>1, <2>4, NamesStay DEF NamesApart
<1>7. CASE StartDeploying
  <2>1. UNCHANGED <<app_copy, respecified>> /\ app.known
    BY <1>7, Basics DEF StartDeploying, historyVars
  <2>2. OwnNames(app.manifests) => OwnNames(app'.manifests)
    BY <1>7, PlannedTables DEF OwnNames
  <2> QED
    BY <2>1, <2>2, NamesStay DEF NamesApart
<1>8. CASE DeployNewPod
  <2>1. UNCHANGED <<app_copy, respecified>> /\ app.known
    BY <1>8, Basics DEF DeployNewPod, historyVars
  <2>2. CASE FailAndRestore
    BY <2>1, <2>2, NamesStay DEF FailAndRestore
  <2>3. ASSUME NEW c \in Comps, NEW i \in DOMAIN app.manifests[c], Creates(c, i)
        PROVE  OwnNames(app.manifests) => OwnNames(app'.manifests)
    BY <2>3 DEF Creates, OwnNames, NamedApart
  <2> QED
    BY <1>8, <2>1, <2>2, <2>3, CreatedTables, NamesStay DEF NamesApart
<1>9. CASE DeleteUnusedPod
  <2>1. UNCHANGED <<app_copy, respecified>> /\ app.known
    BY <1>9, Basics DEF DeleteUnusedPod, historyVars
  <2>2. CASE FailAndRestore
    BY <2>1, <2>2, NamesStay DEF FailAndRestore
  <2>3. ASSUME NEW c \in Comps, NEW i \in DOMAIN app.manifests[c], Deletes(c, i)
        PROVE  OwnNames(app.manifests) => OwnNames(app'.manifests)
    <3>1. CASE app'.manifests = app.manifests
      BY <3>1
    <3>2. CASE /\ \A d \in Comps : d # c => app'.manifests[d] = app.manifests[d]
               /\ app'.manifests[c] = RemoveAt(app.manifests[c], i)
      <4>1. PICK M, N : M = app.manifests /\ N = app'.manifests
        OBVIOUS
      <4>2. M \in [Comps -> Seq(ManifestsOf(Names))]
        BY <2>1, <4>1, KnownApp, AppFields
      <4>3. /\ \A d \in Comps : \A j \in DOMAIN N[d] : \E l \in DOMAIN M[d] : N[d][j] = M[d][l]
            /\ NamedApart(M) => NamedApart(N)
        <5>1. i \in DOMAIN M[c] /\ N[c] = RemoveAt(M[c], i) /\ \A d \in Comps : d # c => N[d] = M[d]
          BY <2>3, <3>2, <4>1
        <5> QED
          BY <4>2, <5>1, FewerManifests
      <4> QED
        BY <4>1, <4>3 DEF OwnNames
    <3> QED
      BY <2>3, <3>1, <3>2 DEF Deletes
  <2> QED
    BY <1>9, <2>1, <2>2, <2>3, DeletedTables, NamesStay DEF NamesApart
<1> QED
  BY <1>1, <1>2, <1>3, <1>4, <1>5, <1>6, <1>7, <1>8, <1>9 DEF Next, AppHandler, AppEvent, InitialPlan, LaterPlan

\* A step of the plan: the component that is moved, is moved, or goes on waiting.
LEMMA ActMoves ==
  ASSUME TypeOK, StepsLeft, FromPlans, MovesStay, MovesWait, ~respecified,
         ActMove \/ ActDeploy \/ ActRemove, GoOn, handler'.at = "acting"
  PROVE  MovesWait'
<1>1. /\ handler.at = "acting" /\ handler \in Workers /\ handler.todo \in Seq(Steps) /\ handler.todo # << >>
      /\ app.known /\ app \in Apps
  <2>1. handler.at = "acting" /\ handler.todo # << >>
    BY DEF ActMove, ActDeploy, ActRemove, Act
  <2> QED
    BY <2>1, Worker, Basics, KnownApp
<1>2. PICK s, todo : s = Head(handler.todo) /\ todo = Tail(handler.todo)
  OBVIOUS
<1>3. s \in Steps /\ \A j \in DOMAIN handler.todo :
        handler.todo[j] = s \/ \E l \in DOMAIN todo : todo[l] = handler.todo[j]
  <2>1. PICK q : q = handler.todo
    OBVIOUS
  <2>2. /\ Tail(q) \in Seq(Steps) /\ Len(q) \in Nat /\ Len(q) > 0 /\ s = q[1] /\ q[1] \in Steps
        /\ DOMAIN q = 1..Len(q) /\ DOMAIN todo = 1..(Len(q) - 1)
        /\ \A l \in 1..(Len(q) - 1) : todo[l] = q[l + 1]
    BY <1>1, <1>2, <2>1
  <2>3. ASSUME NEW j \in DOMAIN q, j # 1
        PROVE  \E l \in DOMAIN todo : todo[l] = q[j]
    <3>1. j - 1 \in 1..(Len(q) - 1) /\ j - 1 + 1 = j
      BY <2>2, <2>3
    <3> QED
      BY <2>2, <3>1
  <2> QED
    BY <2>1, <2>2, <2>3
<1>4. handler'.todo = todo /\ handler'.steps = handler.steps
  <2>1. handler' = [handler EXCEPT !.todo = todo]
    BY <1>2 DEF GoOn
  <2>2. Looks(handler', handler.at, todo, handler.pod, handler.report)
    BY <1>1, <2>1, WorkerLooks, Zenon
  <2> QED
    BY <2>2 DEF Looks
<1>5. PICK k \in DOMAIN handler.steps : handler.steps[k] = s
  <2>1. 1 \in DOMAIN handler.todo /\ handler.todo[1] = s
    BY <1>1, <1>2, Shortened
  <2> QED
    BY <1>1, <2>1 DEF StepsLeft
<1>6. s.comp \in Comps /\ s.host \in Hosts /\ s.src_host \in Hosts
  BY <1>3 DEF Steps
<1>7. PICK l, left, moved, kept, removed :
        /\ l = app.hosts[s.comp]
        /\ left = append_host_to_list(l, s.src_host, "INACTIVE")
        /\ moved = append_host_to_list(left, s.host, "PENDING")
        /\ kept = append_host_to_list(l, s.host, "PENDING")
        /\ removed = append_host_to_list(l, s.host, "INACTIVE")
  OBVIOUS
<1>8. app.hosts \in [Comps -> Seq(Entries)] /\ l \in Seq(Entries) /\ left \in Seq(Entries)
  <2>1. app.hosts \in [Comps -> Seq(Entries)] /\ l \in Seq(Entries)
    BY <1>1, <1>6, <1>7, KnownApp, AppFields
  <2> QED
    BY <1>6, <1>7, <2>1, HostAppended
<1>9. /\ WillBeUsed(moved, s.host) /\ WillBeUsed(kept, s.host)
      /\ \A x : x # s.host /\ WillBeUsed(l, x) => WillBeUsed(kept, x) /\ WillBeUsed(removed, x)
  BY <1>6, <1>7, <1>8, UseOfHosts
<1>10. ~Finish("FAILED")
  BY <1>1, FinishLooks
<1>11. \/ s.action = "move" /\ app' = [app EXCEPT !.hosts[s.comp] = moved]
       \/ s.action = "deploy" /\ app' = [app EXCEPT !.hosts[s.comp] = kept]
       \/ s.action = "remove" /\ app' = [app EXCEPT !.hosts[s.comp] = removed]
  <2>1. CASE ActMove
    <3>1. /\ s.action = "move"
          /\ app' = [app EXCEPT !.hosts[s.comp] =
               append_host_to_list(append_host_to_list(app.hosts[s.comp], s.src_host, "INACTIVE"),
                                   s.host, "PENDING")]
      BY <1>2, <1>10, <2>1, Zenon DEF ActMove, Act
    <3> QED
      BY <1>7, <3>1, Zenon
  <2>2. CASE ActDeploy
    <3>1. /\ s.action = "deploy"
          /\ app' = [app EXCEPT !.hosts[s.comp] = append_host_to_list(@, s.host, "PENDING")]
      BY <1>2, <1>10, <2>2 DEF ActDeploy, Act
    <3> QED
      BY <1>7, <3>1
  <2>3. CASE ActRemove
    <3>1. /\ s.action = "remove"
          /\ app' = [app EXCEPT !.hosts[s.comp] = append_host_to_list(@, s.host, "INACTIVE")]
      BY <1>2, <1>10, <2>3, Zenon DEF ActRemove, Act
    <3> QED
      BY <1>7, <3>1
  <2> QED
    BY <2>1, <2>2, <2>3
<1>12. PICK hosts : /\ app'.hosts = [app.hosts EXCEPT ![s.comp] = hosts]
                    /\ \/ s.action = "move" /\ hosts = moved
                       \/ s.action = "deploy" /\ hosts = kept
                       \/ s.action = "remove" /\ hosts = removed
  BY <1>1, <1>11 DEF Apps
<1>13. app'.hosts[s.comp] = hosts /\ \A c \in Comps : c # s.comp => app'.hosts[c] = app.hosts[c]
  BY <1>6, <1>8, <1>12
<1> SUFFICES ASSUME NEW c \in Comps, Moves(c)', ~ToMove(todo, c)
             PROVE  \E h \in Hosts : MovedTo(c, h) /\ WillBeUsed(app'.hosts[c], h)
  BY <1>4 DEF MovesWait, MovedTo, ToMove
<1>14. CASE s.comp = c /\ s.action = "move"
  BY <1>5, <1>6, <1>9, <1>12, <1>13, <1>14 DEF MovedTo
<1>15. CASE ~(s.comp = c /\ s.action = "move")
  <2>1. ~ToMove(handler.todo, c)
    BY <1>3, <1>15 DEF ToMove
  <2>2. PICK x \in Hosts : MovedTo(c, x) /\ WillBeUsed(app.hosts[c], x)
    BY <1>1, <1>4, <2>1 DEF MovesWait, Moves
  <2>3. CASE s.comp # c
    BY <1>13, <2>2, <2>3
  <2>4. CASE s.comp = c /\ s.action = "deploy"
    BY <1>7, <1>9, <1>12, <1>13, <2>2, <2>4
  <2>5. CASE s.comp = c /\ s.action = "remove"
    <3>1. x # s.host
      <4>1. PICK m \in DOMAIN handler.steps : /\ handler.steps[m].comp = c /\ handler.steps[m].action = "move"
                                              /\ handler.steps[m].host = x
        BY <2>2 DEF MovedTo
      <4>2. handler.steps \in Plans
        BY <1>1 DEF FromPlans, LaterStates
      <4> QED
        BY <1>5, <2>5, <4>1, <4>2 DEF MovesStay
    <3> QED
      BY <1>7, <1>9, <1>12, <1>13, <2>2, <2>5, <3>1
  <2> QED
    BY <1>12, <1>15, <2>3, <2>4, <2>5
<1> QED
  BY <1>14, <1>15

LEMMA NextMoves ==
  ASSUME TypeOK, Respecifies, StepsLeft, MoveInv, MovesStay, [Next]_vars
  PROVE  MovesWait' /\ MovedIsKept'
<1> USE DEF MoveInv
<1>1. CASE handler'.at \notin LaterStates
  BY <1>1 DEF LaterStates, MovesWait, MovedIsKept
<1>2. ASSUME /\ handler' = handler /\ UNCHANGED <<app, app_copy, respecified>>
             /\ (pods' = pods /\ faults' = faults) \/ faults' = faults + 1
      PROVE  MovesWait' /\ MovedIsKept'
  <2>1. faults' = 0 => pods' = pods /\ faults' = faults
    BY <1>2, Basics, Bounds
  <2> QED
    BY <1>2, <2>1 DEF MovesWait, MovedIsKept, Moves, MovedTo, RunningNames
<1>3. CASE handler'.at \in LaterStates /\ StartPlan /\ handler' = Working("acting", Head(notifications))
  <2>1. handler'.at = "acting" /\ handler'.todo = handler'.steps
    BY <1>3 DEF Working
  <2> QED
    BY <2>1 DEF MovesWait, MovedIsKept, Moves, ToMove
<1>4. CASE handler'.at \in LaterStates /\ (ActMove \/ ActDeploy \/ ActRemove) /\ GoOn
  <2>1. handler.at = "acting" /\ handler \in Workers /\ respecified' = respecified
    <3>1. \E action : Act(action) /\ ActionEnds
      BY <1>4, Zenon DEF ActMove, ActDeploy, ActRemove
    <3> QED
      BY <3>1, Worker DEF Act, ActionEnds
  <2>2. handler'.at = "acting"
    <3>1. PICK todo : handler' = [handler EXCEPT !.todo = todo]
      BY <1>4 DEF GoOn
    <3>2. Looks(handler', handler.at, todo, handler.pod, handler.report)
      BY <2>1, <3>1, WorkerLooks, Zenon
    <3> QED
      BY <2>1, <3>2 DEF Looks
  <2>3. CASE respecified
    BY <2>1, <2>2, <2>3 DEF MovesWait, MovedIsKept
  <2>4. CASE ~respecified
    BY <1>4, <2>2, <2>4, ActMoves DEF MovedIsKept
  <2> QED
    BY <2>3, <2>4
<1>5. CASE handler'.at \in LaterStates /\ (ActChangeSpec \/ DeleteOldPod)
  <2>1. respecified'
    <3>1. CASE ActChangeSpec
      <4>1. handler \in Workers
        BY <3>1, Worker DEF ActChangeSpec
      <4>2. ~Finish("FAILED") /\ ~FailAndRestore /\ ~Raise
        BY <1>5, <4>1, Stopped DEF LaterStates
      <4> QED
        BY <3>1, <4>2, Zenon DEF ActChangeSpec
    <3>2. CASE DeleteOldPod
      BY <3>2, Zenon DEF DeleteOldPod, Respecifies, historyVars
    <3> QED
      BY <1>5, <3>1, <3>2
  <2> QED
    BY <2>1 DEF MovesWait, MovedIsKept
<1>6. CASE StartDeploying
  <2>1. /\ handler.at = "acting" /\ handler.todo = << >> /\ handler \in Workers /\ app.known
        /\ respecified' = respecified
    BY <1>6, Worker, Basics DEF StartDeploying, historyVars
  <2>2. handler'.at = "creating" /\ handler'.steps = handler.steps
    <3>1. handler' = [handler EXCEPT !.at = "creating"]
      BY <1>6 DEF StartDeploying
    <3>2. Looks(handler', "creating", handler.todo, handler.pod, handler.report)
      BY <2>1, <3>1, WorkerLooks, Zenon
    <3> QED
      BY <3>2 DEF Looks
  <2> SUFFICES ASSUME ~respecified, NEW c \in Comps, Moves(c)
               PROVE  \E i \in DOMAIN app'.manifests[c] :
                        /\ InUse(app'.hosts[c], app'.manifests[c][i].host)
                        /\ app'.manifests[c][i].status = "PENDING"
    BY <2>1, <2>2 DEF MovesWait, MovedIsKept, Moves
  <2>3. PICK h : WillBeUsed(app.hosts[c], h)
    BY <2>1 DEF MovesWait, ToMove
  <2>4. PICK k \in DOMAIN app.hosts[c] : app.hosts[c][k].host = h /\ app.hosts[c][k].status = "PENDING"
    BY <2>3 DEF WillBeUsed
  <2>5. WillHavePod(app'.manifests, c, h)
    BY <1>6, <2>4, PlannedTables
  <2>6. InUse(app'.hosts[c], h)
    <3>1. /\ DOMAIN app'.hosts[c] = DOMAIN app.hosts[c]
          /\ \A i \in DOMAIN app.hosts[c] :
               /\ app'.hosts[c][i].host = app.hosts[c][i].host
               /\ app'.hosts[c][i].status = IF app.hosts[c][i].status = "PENDING" THEN "ACTIVE"
                                            ELSE app.hosts[c][i].status
      BY <1>6, PlannedTables
    <3> QED
      BY <2>3, <3>1 DEF WillBeUsed, InUse
  <2> QED
    BY <2>5, <2>6 DEF WillHavePod
<1>7. CASE handler'.at \in LaterStates /\ DeployNewPod
  <2>1. /\ handler.at = "creating" /\ handler \in Workers /\ respecified' = respecified
    BY <1>7, Worker DEF DeployNewPod, historyVars
  <2>2. ~FailAndRestore
    BY <1>7, <2>1, Stopped DEF LaterStates
  <2>3. PICK d \in Comps : \E j \in DOMAIN app.manifests[d] : Creates(d, j)
    BY <1>7, <2>2, CreatedTables
  <2>4. PICK j \in DOMAIN app.manifests[d] : Creates(d, j)
    BY <2>3
  <2>5. PICK n : n = app.manifests[d][j].name
    OBVIOUS
  <2>6. /\ faults' = faults /\ RunningNames' = RunningNames \union {n}
        /\ handler'.at = "creating" /\ handler'.steps = handler.steps /\ app'.hosts = app.hosts
        /\ \A c \in Comps :
             /\ DOMAIN app'.manifests[c] = DOMAIN app.manifests[c]
             /\ \A i \in DOMAIN app.manifests[c] :
                  /\ app'.manifests[c][i].name = app.manifests[c][i].name
                  /\ app'.manifests[c][i].host = app.manifests[c][i].host
                  /\ ~(c = d /\ i = j) => app'.manifests[c][i].status = app.manifests[c][i].status
    <3>1. PICK p : p = [name |-> n, host |-> app.manifests[d][j].host] /\ pods' = pods \union {p}
      BY <2>4, <2>5 DEF Creates
    <3>2. RunningNames' = RunningNames \union {n}
      BY <3>1 DEF RunningNames
    <3> QED
      BY <1>7, <2>4, <3>2 DEF Creates, LaterStates
  <2> SUFFICES ASSUME ~respecified, faults = 0, NEW c \in Comps, Moves(c)
               PROVE  \E i \in DOMAIN app'.manifests[c] :
                        /\ InUse(app'.hosts[c], app'.manifests[c][i].host)
                        /\ \/ app'.manifests[c][i].status = "PENDING"
                           \/ app'.manifests[c][i].name \in RunningNames'
    BY <2>1, <2>6 DEF MovesWait, MovedIsKept, Moves
  <2>7. PICK i \in DOMAIN app.manifests[c] :
          /\ InUse(app.hosts[c], app.manifests[c][i].host)
          /\ \/ app.manifests[c][i].status = "PENDING"
             \/ app.manifests[c][i].name \in RunningNames
    BY <2>1 DEF MovedIsKept
  <2>8. InUse(app'.hosts[c], app'.manifests[c][i].host) /\ i \in DOMAIN app'.manifests[c]
    BY <2>6, <2>7
  <2>9. app'.manifests[c][i].status = "PENDING" \/ app'.manifests[c][i].name \in RunningNames'
    BY <2>5, <2>6, <2>7
  <2> QED
    BY <2>8, <2>9
<1>8. CASE StartDeleting
  <2>1. /\ handler.at = "creating" /\ handler \in Workers /\ ToCreate = {}
        /\ UNCHANGED <<app, pods, respecified, faults>>
    BY <1>8, Worker DEF StartDeleting, historyVars
  <2>2. handler'.at = "deleting" /\ handler'.steps = handler.steps
    <3>1. handler' = [handler EXCEPT !.at = "deleting"]
      BY <1>8 DEF StartDeleting
    <3>2. Looks(handler', "deleting", handler.todo, handler.pod, handler.report)
      BY <2>1, <3>1, WorkerLooks, Zenon
    <3> QED
      BY <3>2 DEF Looks
  <2>3. \A c \in Comps : \A i \in DOMAIN app.manifests[c] : app.manifests[c][i].status # "PENDING"
    <3> SUFFICES ASSUME NEW c \in Comps, NEW i \in DOMAIN app.manifests[c],
                        app.manifests[c][i].status = "PENDING"
                 PROVE  <<c, i>> \in ToCreate
      BY <2>1
    <3> QED
      BY ManifestPair DEF ToCreate
  <2> QED
    BY <2>1, <2>2, <2>3 DEF MovesWait, MovedIsKept, Moves, RunningNames
<1>9. CASE handler'.at \in LaterStates /\ DeleteUnusedPod
  <2>1. /\ handler.at = "deleting" /\ handler \in Workers /\ respecified' = respecified
        /\ app.known
    BY <1>9, Worker, Basics DEF DeleteUnusedPod, historyVars
  <2>2. ~FailAndRestore
    BY <1>9, <2>1, Stopped DEF LaterStates
  <2>3. PICK d \in Comps : \E j \in DOMAIN app.manifests[d] : Deletes(d, j)
    BY <1>9, <2>2, DeletedTables
  <2>4. PICK j \in DOMAIN app.manifests[d] : Deletes(d, j)
    BY <2>3
  <2>5. PICK M, N, n : M = app.manifests /\ N = app'.manifests /\ n = M[d][j].name
    OBVIOUS
  <2>6. /\ faults' = faults /\ pods' = {p \in pods : p.name # n} /\ app'.hosts = app.hosts
        /\ \E k \in DOMAIN app.hosts[d] : app.hosts[d][k].host = M[d][j].host /\ app.hosts[d][k].status = "INACTIVE"
        /\ handler'.at = "deleting" /\ handler'.steps = handler.steps
        /\ N[d] = RemoveAt(M[d], j) /\ \A c \in Comps : c # d => N[c] = M[c]
    BY <1>9, <2>4, <2>5 DEF Deletes, LaterStates
  <2>7. \A x \in RunningNames : x # n => x \in RunningNames'
    BY <2>6 DEF RunningNames
  <2>8. M \in [Comps -> Seq(ManifestsOf(Names))]
    BY <2>1, <2>5, KnownApp, AppFields
  <2>9. \A c \in Comps : \A i \in DOMAIN M[c] :
          ~(c = d /\ i = j) => \E l \in DOMAIN N[c] : N[c][l] = M[c][i]
    BY <2>4, <2>5, <2>6, <2>8, FewerManifests
  <2> SUFFICES ASSUME ~respecified, faults = 0, NEW c \in Comps, Moves(c)
               PROVE  \E l \in DOMAIN N[c] :
                        InUse(app.hosts[c], N[c][l].host) /\ N[c][l].name \in RunningNames'
    BY <2>1, <2>5, <2>6 DEF MovesWait, MovedIsKept, Moves
  <2>10. PICK i \in DOMAIN M[c] : InUse(app.hosts[c], M[c][i].host) /\ M[c][i].name \in RunningNames
    BY <2>1, <2>5 DEF MovedIsKept
  <2>11. ~(c = d /\ i = j)
    BY <2>6, <2>10 DEF InUse
  <2>12. M[c][i].name # n
    BY <2>1, <2>4, <2>5, <2>11 DEF NamesApart, OwnNames, NamedApart
  <2> QED
    BY <2>7, <2>9, <2>10, <2>11, <2>12
<1> QED
  BY <1>1, <1>2, <1>3, <1>4, <1>5, <1>6, <1>7, <1>8, <1>9, LaterSteps

\* The pod of a moved component that a step deletes is not its last one.
LEMMA MoveStep ==
  ASSUME TypeOK, Respecifies, MoveInv, [Next]_vars, NEW c \in Comps,
         handler.at \in LaterStates, faults' = 0, Moves(c), ~respecified', Has(pods, c)
  PROVE  Has(pods', c)
<1>1. CASE pods \subseteq pods'
  BY <1>1 DEF Has
<1>2. CASE \/ \E where \in {"here", "elsewhere"} : CreateResource(where)
           \/ DeleteResource \/ ModifyResource \/ WatchRepeats
           \/ \E steps \in InitialPlans : Submit(steps, TRUE)
           \/ \E steps \in Plans : Submit(steps, FALSE)
           \/ AppEvent \/ PlanOfUnknownApp \/ Answer \/ InitialPlan
           \/ StartPlan \/ UNCHANGED vars
  <2>1. handler.at \notin {"idle", "removing", "reply", "deploying"} /\ handler # Idle
    BY DEF LaterStates, Idle
  <2>3. ~AppEvent
    <3>1. ~HandleAdded /\ ~HandleModified /\ ~HandleDeleted
      BY <2>1 DEF HandleAdded, HandleModified, HandleDeleted, Take
    <3>2. ~RemovePod /\ ~ForgetApp
      BY <2>1 DEF RemovePod, ForgetApp
    <3> QED
      BY <3>1, <3>2 DEF AppEvent
  <2>4. ~PlanOfUnknownApp /\ ~Answer
    BY <2>1 DEF PlanOfUnknownApp, Answer, TakePlan, Take
  <2>5. ~InitialPlan
    <3>1. ~StartInitialPlan /\ ~DeployInstance
      BY <2>1 DEF StartInitialPlan, DeployInstance, TakePlan, Take
    <3>2. ~FinishInitialPlan
      BY <2>1 DEF FinishInitialPlan
    <3> QED
      BY <3>1, <3>2 DEF InitialPlan
  <2>6. ~StartPlan
    BY <2>1 DEF StartPlan, TakePlan, Take
  <2>2. pods' = pods
    BY <1>2, <2>3, <2>4, <2>5, <2>6 DEF CreateResource, DeleteResource, ModifyResource, WatchRepeats, Submit, vars
  <2> QED
    BY <1>1, <2>2
<1>3. CASE Restart \/ \E p \in pods : PodDies(p)
  <2>1. faults' = faults + 1
    BY <1>3 DEF Restart, PodDies
  <2> QED
    BY <2>1, CallsMade
<1>4. CASE \/ ActMove \/ ActDeploy \/ ActRemove \/ ActChangeSpec \/ StartDeploying \/ DeployNewPod
           \/ StartDeleting \/ FinishPlan
  <2>1. CASE ActMove \/ ActDeploy \/ ActRemove
    <3>1. ActionEnds
      BY <2>1, Zenon DEF ActMove, ActDeploy, ActRemove
    <3> QED
      BY <1>1, <3>1 DEF ActionEnds
  <2>2. CASE ActChangeSpec
    <3>1. \/ pods' = pods
          \/ \E n : CreateFails(n)
          \/ \E p : CreateOk(p)
      BY <2>2, Zenon DEF ActChangeSpec
    <3> QED
      BY <1>1, <3>1, PodsAfter
  <2>3. CASE StartDeploying \/ StartDeleting \/ FinishPlan
    BY <1>1, <2>3 DEF StartDeploying, StartDeleting, FinishPlan
  <2>4. CASE DeployNewPod
    <3>1. (\E n : CreateFails(n)) \/ \E p : CreateOk(p)
      BY <2>4, Zenon DEF DeployNewPod
    <3> QED
      BY <1>1, <3>1, PodsAfter
  <2> QED
    BY <1>4, <2>1, <2>2, <2>3, <2>4
<1>5. CASE DeleteOldPod
  BY <1>5, Zenon DEF DeleteOldPod, Respecifies, historyVars
<1>6. CASE DeleteUnusedPod
  <2>1. handler.at = "deleting" /\ respecified' = respecified /\ app.known
    BY <1>6, Basics DEF DeleteUnusedPod, historyVars
  <2>2. CASE \E n : DeleteFails(n)
    BY <1>1, <2>2, PodsAfter
  <2>3. ASSUME NEW d \in Comps, NEW j \in DOMAIN app.manifests[d], Deletes(d, j)
        PROVE  Has(pods', c)
    <3>1. PICK M, n : M = app.manifests /\ n = M[d][j].name
      OBVIOUS
    <3>2. /\ faults = 0 /\ pods' = {p \in pods : p.name # n}
          /\ \E k \in DOMAIN app.hosts[d] : app.hosts[d][k].host = M[d][j].host /\ app.hosts[d][k].status = "INACTIVE"
      BY <2>3, <3>1 DEF Deletes
    <3>3. OwnNames(M)
      BY <2>1, <3>1 DEF MoveInv, NamesApart
    <3>4. PICK i \in DOMAIN M[c] : InUse(app.hosts[c], M[c][i].host) /\ M[c][i].name \in RunningNames
      BY <2>1, <3>1, <3>2 DEF MoveInv, MovedIsKept
    <3>5. ~(c = d /\ i = j)
      BY <3>2, <3>4 DEF InUse
    <3>6. M[c][i].name # n /\ M[c][i].name.comp = c
      BY <2>3, <3>1, <3>3, <3>5 DEF OwnNames, NamedApart
    <3>7. PICK p \in pods : p.name = M[c][i].name
      BY <3>4 DEF RunningNames
    <3> QED
      BY <3>2, <3>6, <3>7 DEF Has
  <2> QED
    BY <1>6, <2>2, <2>3, DeletedTables
<1> QED
  BY <1>2, <1>3, <1>4, <1>5, <1>6 DEF Next, AppHandler, LaterPlan

\* A plan that moves a component never leaves it without a pod, as long as nothing dies and no
\* specification is changed: if no plan removes a component from the host it moves it to, the new
\* pod runs when the old one is deleted, whatever else the plan does and earlier plans left behind.
THEOREM MovedKeepAPod == MovesStay /\ Spec => MoveKeepsAPod
<1>1. ASSUME MovesStay
      PROVE  Spec => MoveKeepsAPod
  <2>1. Init => ReportInv /\ RemovalInv /\ OrphanInv
    BY InitReport, InitRemoval, InitOrphans
  <2>2. Init => MoveInv
    <3> SUFFICES ASSUME Init PROVE MoveInv
      OBVIOUS
    <3>1. ~app.known /\ ~app_copy.known /\ handler.at = "idle" /\ NoPlanIn(notifications)
      BY ListsNoPlan DEF Init, NoApp, Idle
    <3> QED
      BY <3>1 DEF MoveInv, FromPlans, NamesApart, MovesWait, MovedIsKept, LaterStates, NoPlanIn
  <2>3. TypeOK /\ OrphanInv /\ ReportInv /\ RemovalInv /\ MoveInv /\ [Next]_vars
        => (OrphanInv /\ ReportInv /\ RemovalInv /\ MoveInv)'
    BY <1>1, NextOrphans, NextReport, NextRemoval, NextFromPlans, NextNames, NextMoves
    DEF MoveInv, RemovalInv, ReportInv
  <2>4. TypeOK /\ RemovalInv /\ MoveInv /\ [Next]_vars
        => [\A c \in Comps :
              /\ handler.at \in {"acting", "changing", "creating", "deleting"} /\ faults' = 0
              /\ Moves(c) /\ ~respecified' /\ Has(pods, c)
              => Has(pods', c)]_vars
    BY MoveStep DEF RemovalInv, LaterStates
  <2> QED
    BY <2>1, <2>2, <2>3, <2>4, TypesOK, PTL DEF Spec, MoveKeepsAPod
<1> QED
  BY <1>1
=============================================================================
