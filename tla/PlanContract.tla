---------------------------- MODULE PlanContract ----------------------------
(***************************************************************************)
(* What the Plan Scheduler promises the policies and the mechanisms, with  *)
(* no queue, log or tick in it: a submitted plan is a set of commands, one *)
(* per mechanism; each is either refused or granted, once; a granted       *)
(* command starts, once, and ends; and as long as a non-core command is    *)
(* granted and not started, no other non-core command is granted for the   *)
(* same mechanism.  Commands of core plans are never refused.              *)
(***************************************************************************)
CONSTANTS Uids, Mechanisms

VARIABLES
  phase,  \* the stage of every command
  core    \* the plans of core policies

cvars == <<phase, core>>

Init == phase = [p \in Uids \X Mechanisms |-> "idle"] /\ core = {}

\* All the commands of a plan are submitted at once, and only once.
Submit(u) ==
  \E targets \in SUBSET Mechanisms :
    /\ \A a \in Mechanisms : phase[<<u, a>>] = "idle"
    /\ u \notin core
    /\ phase' = [p \in Uids \X Mechanisms |->
         IF p[1] = u /\ p[2] \in targets THEN "queued" ELSE phase[p]]
    /\ core' \in {core, core \union {u}}

Grant(u, a) ==
  /\ phase[<<u, a>>] = "queued"
  /\ u \in core \/ \A v \in Uids \ core : phase[<<v, a>>] # "granted"
  /\ phase' = [phase EXCEPT ![<<u, a>>] = "granted"]
  /\ UNCHANGED core

Refuse(u, a) ==
  /\ phase[<<u, a>>] = "queued" /\ u \notin core
  /\ phase' = [phase EXCEPT ![<<u, a>>] = "closed"]
  /\ UNCHANGED core

Start(u, a) ==
  /\ phase[<<u, a>>] = "granted"
  /\ \E next \in {"open", "closed"} : phase' = [phase EXCEPT ![<<u, a>>] = next]
  /\ UNCHANGED core

Finish(u, a) ==
  /\ phase[<<u, a>>] = "open"
  /\ phase' = [phase EXCEPT ![<<u, a>>] = "closed"]
  /\ UNCHANGED core

Next ==
  \/ \E u \in Uids : Submit(u)
  \/ \E u \in Uids, a \in Mechanisms : Grant(u, a) \/ Refuse(u, a) \/ Start(u, a) \/ Finish(u, a)

Spec == Init /\ [][Next]_cvars

\* The scheduler decides and the event loop starts what was granted.
Fairness ==
  /\ \A u \in Uids, a \in Mechanisms : WF_cvars(Grant(u, a) \/ Refuse(u, a))
  /\ \A u \in Uids, a \in Mechanisms : WF_cvars(Start(u, a))

FairSpec == Spec /\ Fairness
=============================================================================
