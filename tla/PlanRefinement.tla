--------------------------- MODULE PlanRefinement ---------------------------
(* PlanPipeline implements PlanContract: the refinement mapping. *)
EXTENDS PlanPipeline

\* Still to be decided: in the queue, or ahead of the running tick.
Undecided(u, a) ==
  /\ task[u] = "logged" /\ a \in Range(plan[u].assets)
  /\ \/ u \in Range(plans)
     \/ ~Idle /\ u \in Range(Tail(current_plan_list))
     \/ ~Idle /\ u = Head(current_plan_list)
        /\ \E i \in position..Len(plan[u].assets) : plan[u].assets[i] = a

Phase(u, a) ==
  IF task[u] # "logged" \/ a \notin Range(plan[u].assets) THEN "idle"
  ELSE IF Undecided(u, a) THEN "queued"
  ELSE IF <<u, a>> \in Range(ready) THEN "granted"
  ELSE IF <<u, a>> \in applying \union awaiting THEN "open"
  ELSE "closed"

Phases == [p \in Pairs |-> Phase(p[1], p[2])]
CorePlans == {u \in Uids : task[u] = "logged" /\ plan[u].core}

Contract == INSTANCE PlanContract WITH phase <- Phases, core <- CorePlans

\* The pipeline keeps the scheduler's promises (PlanContract), and under the
\* fairness of the event loop every command is decided and, if granted, started.
ImplementsContract == Contract!FairSpec
=============================================================================
