--------------------------- MODULE AgentServices ---------------------------
(***************************************************************************)
(* Five parts of the framework that share no state, composed into one      *)
(* specification: a behaviour is one of the part that its initial state    *)
(* chooses.                                                                *)
(***************************************************************************)
EXTENDS Naturals, Sequences, FiniteSets

CONSTANTS
  Models, Direct, MaxEvents, MaxAnswers, MaxModelFaults,              \* ModelDeployment
  Nodes, Cluster, Policies, Intervals, Default, MaxEntries, MaxChanges, \* ScrapeIntervals
  Hosts, Layers, Generic, MaxRevision, MaxWatchFaults,                \* NodeRegistry
  Count, Periods, InitialPeriod, MaxDuration, MaxRaises,              \* AnalyzeLoop
  Users, Keys, MaxCommands, MaxEdits, MaxFailures                     \* Installation

VARIABLES rows, inserting, uploads, answers, api, entries, endpoint, consumer, checks, found,
          resources, running, unposted, untended, posted, modelFaults
VARIABLES requests, current, pods, collector, deploys, updates, started, changes
VARIABLES kind, log, compacted, watch, version, backlog, at, notices, table, missed, watchFaults
VARIABLES intervals, turn, policy, seen, analyze_period, left, since, waited, raises
VARIABLES objects, steps, data, revision, edits, used, described, undescribed, accepted
VARIABLE part

Model == INSTANCE ModelDeployment
Scrape == INSTANCE ScrapeIntervals
Registry == INSTANCE NodeRegistry
Loop == INSTANCE AnalyzeLoop
Install == INSTANCE Installation

ASSUME ConstantAssumptions ==
  /\ Model!ConstantAssumption /\ Scrape!ConstantAssumption /\ Registry!ConstantAssumption
  /\ Loop!ConstantAssumption /\ Install!ConstantAssumption

modelVars == <<rows, inserting, uploads, answers, api, entries, endpoint, consumer, checks,
               found, resources, running, unposted, untended, posted, modelFaults>>
intervalVars == <<requests, current, pods, collector, deploys, updates, started, changes>>
registryVars == <<kind, log, compacted, watch, version, backlog, at, notices, table, missed,
                  watchFaults>>
loopVars == <<intervals, turn, policy, seen, analyze_period, left, since, waited, raises>>
installVars == <<objects, steps, data, revision, edits, used, described, undescribed, accepted>>
vars == <<part, modelVars, intervalVars, registryVars, loopVars, installVars>>

\* The parts that are not chosen start from one fixed state and stay there.
Init ==
  /\ part \in {"model", "scrape", "registry", "loop", "install"}
  /\ Model!Init /\ Scrape!Init /\ Registry!Init /\ Loop!Init /\ Install!Init
  /\ part # "registry" => kind = "Node" /\ log = << >>
  /\ part # "loop" => intervals = [i \in 1..Count |-> 1]

InModel ==
  part = "model" /\ UNCHANGED <<part, intervalVars, registryVars, loopVars, installVars>>
InScrape ==
  part = "scrape" /\ UNCHANGED <<part, modelVars, registryVars, loopVars, installVars>>
InRegistry ==
  part = "registry" /\ UNCHANGED <<part, modelVars, intervalVars, loopVars, installVars>>
InLoop ==
  part = "loop" /\ UNCHANGED <<part, modelVars, intervalVars, registryVars, installVars>>
InInstall ==
  part = "install" /\ UNCHANGED <<part, modelVars, intervalVars, registryVars, loopVars>>

Next ==
  \/ InModel /\ Model!Next
  \/ InScrape /\ Scrape!Next
  \/ InRegistry /\ Registry!Next
  \/ InLoop /\ Loop!Next
  \/ InInstall /\ Install!Next

\* The queue behaviour and its Redis commands, the handlers of the northbound API and of
\* the agents' messages, and the start of an agent are never put off for ever.
Fairness ==
  /\ WF_vars(InModel /\ Model!Consumer)
  /\ WF_vars(InModel /\ Model!Api)
  /\ WF_vars(InModel /\ Model!StoreEndpoint)
  /\ WF_vars(InScrape /\ Scrape!Deliver)
  /\ \A a \in Nodes \union {Cluster} : WF_vars(InScrape /\ Scrape!Initialize(a))

Spec == Init /\ [][Next]_vars /\ Fairness

-----------------------------------------------------------------------------
\* Every variable has its type.
TypeOK ==
  Model!TypeOK /\ Scrape!TypeOK /\ Registry!TypeOK /\ Loop!TypeOK /\ Install!TypeOK

\* A model under deployment has a check behaviour that waits for its pod, or a consumer
\* at work on it, in whatever order deployments and removals are queued and marked.
UnderDeploymentIsTended == Model!UnderDeploymentIsTended

\* A model with a custom resource in Karmada is in the hash the API lists.
ResourceIsListed == Model!ResourceIsListed

\* A deployment in the connector's database is known to the API or its request failed.
RowIsKnown == Model!RowIsKnown

\* The queue of ML deployments is emptied again and again unless the behaviour that
\* serves it has ended with an exception.
QueueIsServed == []<>(entries = << >> \/ consumer.pc = "ended")

\* Every agent applies an interval no longer than any that is asked of it.
RequestsAreServed == Scrape!RequestsAreServed

\* With no message on its way, a node's collector runs with the node's interval, which
\* is no longer than the cluster's.
NodesFollowCluster == Scrape!NodesFollowCluster

\* The intervals that agents send each other come to rest: a node's new collector makes
\* the cluster agent answer with its own interval, and that must not go on for ever.
Settles == <>[]Scrape!Quiet

\* The controller's table of nodes is that of the API server once every event is handled.
TableIsCurrent == Registry!TableIsCurrent

\* A policy is called within its interval, one sleep and one round of analyses.
AnalyzedInTime == Loop!AnalyzedInTime

\* Agents lack a description only if a command found none where it looked.
NoDescriptionIsLost == Install!NoDescriptionIsLost

\* No successful change of a policy is undone by another user's change.
PolicyChangesAreKept == Install!PolicyChangesAreKept
=============================================================================
