---------------------------- MODULE Installation ----------------------------
(***************************************************************************)
(* How the command line interface installs the framework and changes the   *)
(* policies of the agents.  A framework command walks over the resources   *)
(* of its templates; any call to the API server can fail, a command can be *)
(* interrupted and run again, and users change policies meanwhile.         *)
(***************************************************************************)
EXTENDS Naturals, Sequences

CONSTANTS
  Users,
  Keys,          \* the file names of policies
  MaxCommands,   \* bound on framework commands
  MaxEdits,      \* bound on policy commands
  MaxFailures    \* bound on failing calls, missing files and interrupts

ConstantAssumption == MaxCommands \in Nat /\ MaxEdits \in Nat /\ MaxFailures \in Nat

VARIABLES
  objects,       \* the resources that exist, of two API servers
  steps,         \* what is left of the framework command
  data,          \* the policies in the config map of each layer
  revision,      \* its resourceVersion
  edits,         \* what each user's policy command has read
  used,          \* commands, edits and failures so far
  described,     \* the layers whose config map describes all their systems
  undescribed,   \* history: layers for which a command found no or not all descriptions
  accepted       \* history: the policies that the successful writes add up to

descriptionVars == <<described, undescribed>>
installVars == <<objects, steps, data, revision, edits, used, descriptionVars, accepted>>

Levels == {"continuum", "cluster", "node"}
\* A resource belongs to an API server or to the agents of a layer.
PlaneOf(owner) == IF owner \in {"host", "continuum"} THEN "host" ELSE "karmada"
Namespace(owner) == <<PlaneOf(owner), "namespace">>

\* parse_yaml_from_file sorts config maps before the daemon set.
DaemonSet(layer) == <<<<layer, "policies">>, <<layer, "config">>, <<layer, "agent">>>>
Base(plane) == <<<<plane, "namespace">>, <<plane, "rbac">>>>
Services == Base("host") \o <<<<"host", "services">>>>
ContinuumAgents ==
  Base("host") \o <<<<"continuum", "description">>, <<"continuum", "karmadapi">>>>
    \o DaemonSet("continuum")
ClusterAgents ==
  Base("karmada") \o <<<<"karmada", "propagation">>, <<"cluster", "description">>>>
    \o DaemonSet("cluster")
NodeAgents == <<<<"node", "description">>>> \o DaemonSet("node")
Commands ==
  {Services, ContinuumAgents, ClusterAgents, NodeAgents,
   Services \o ContinuumAgents \o ClusterAgents \o NodeAgents}

NoEdit == [layer |-> "none"]

Init ==
  /\ objects = {} /\ steps = << >>
  /\ data = [l \in Levels |-> {}] /\ revision = [l \in Levels |-> 0]
  /\ edits = [u \in Users |-> NoEdit]
  /\ used = [commands |-> 0, edits |-> 0, failures |-> 0]
  /\ described = {} /\ undescribed = {} /\ accepted = [l \in Levels |-> {}]

Spend(what, bound) == used[what] < bound /\ used' = [used EXCEPT ![what] = @ + 1]

-----------------------------------------------------------------------------
(* The framework commands. *)

Run ==
  /\ steps = << >> /\ steps' \in Commands /\ Spend("commands", MaxCommands)
  /\ UNCHANGED <<objects, data, revision, edits, descriptionVars, accepted>>

Object == Head(steps)
GoOn == steps' = Tail(steps)
Abort == steps' = << >>
HasNamespace == Object[2] \in {"namespace", "propagation"} \/ Namespace(Object[1]) \in objects
CreateOnly == {"description", "karmadapi"}
Upserts == steps # << >> /\ Object[2] \notin CreateOnly \union {"propagation"}

\* Writing a policies template empties the config map whatever its resourceVersion.
ResetPolicies ==
  IF Object[2] = "policies"
  THEN /\ data' = [data EXCEPT ![Object[1]] = {}]
       /\ accepted' = [accepted EXCEPT ![Object[1]] = {}]
       /\ revision' = [revision EXCEPT ![Object[1]] = @ + 1]
  ELSE UNCHANGED <<data, accepted, revision>>

\* The resource is replaced, or created when reading it answers 404.
CreateOrUpdate ==
  /\ Upserts /\ HasNamespace
  /\ objects' = objects \union {Object} /\ GoOn /\ ResetPolicies
  /\ UNCHANGED <<edits, used, descriptionVars>>

\* Reading or replacing fails: the error is printed and the command goes on.
UpdateFails ==
  /\ Upserts /\ GoOn /\ Spend("failures", MaxFailures)
  /\ UNCHANGED <<objects, data, revision, edits, descriptionVars, accepted>>

\* Creating raises: without its namespace, or on any other error.
CreateFails ==
  /\ Upserts /\ Object \notin objects /\ Abort
  /\ IF HasNamespace THEN Spend("failures", MaxFailures) ELSE UNCHANGED used
  /\ UNCHANGED <<objects, data, revision, edits, descriptionVars, accepted>>

Creates == steps # << >> /\ Object[2] \in CreateOnly

\* The files of a directory go into the config map.  One that does not exist or is laid out
\* otherwise has none; a cluster without master node was skipped when they were generated.
AllFound == described' = described \union {Object[1]} /\ UNCHANGED undescribed
SomeMissing ==
  /\ described' = described \ {Object[1]} /\ undescribed' = undescribed \union {Object[1]}

\* A config map that exists answers 409 and is kept as it is.
CreateConfigMap ==
  /\ Creates /\ HasNamespace /\ objects' = objects \union {Object} /\ GoOn
  /\ IF Object[2] = "description" /\ Object \notin objects
     THEN \/ AllFound /\ UNCHANGED used
          \/ SomeMissing /\ Spend("failures", MaxFailures)
     ELSE UNCHANGED <<used, descriptionVars>>
  /\ UNCHANGED <<data, revision, edits, accepted>>

\* Deviation: an error other than 409 is passed over.
CreateConfigMapQuietly ==
  /\ Creates /\ GoOn /\ Spend("failures", MaxFailures)
  /\ UNCHANGED <<objects, data, revision, edits, descriptionVars, accepted>>

\* Creating fails otherwise; the config map is then replaced, which raises if there is none
\* or fails too.
CreateConfigMapFails ==
  /\ Creates
  /\ \/ /\ Object \in objects /\ GoOn /\ Spend("failures", MaxFailures)
        /\ IF Object[2] = "description" THEN AllFound \/ SomeMissing
                                        ELSE UNCHANGED descriptionVars
     \/ HasNamespace /\ Abort /\ Spend("failures", MaxFailures) /\ UNCHANGED descriptionVars
     \/ ~HasNamespace /\ Abort /\ UNCHANGED <<used, descriptionVars>>
  /\ UNCHANGED <<objects, data, revision, edits, accepted>>

\* A description that cannot be read is reported, and the command goes on.
ReadFails ==
  /\ Creates /\ Object[2] = "description" /\ GoOn /\ Spend("failures", MaxFailures)
  /\ undescribed' = undescribed \union {Object[1]}
  /\ UNCHANGED <<objects, data, revision, edits, described, accepted>>

\* The propagation policies are applied or not, and the command goes on.
ApplyPolicies ==
  /\ steps # << >> /\ Object[2] = "propagation" /\ GoOn
  /\ \/ objects' = objects \union {Object} /\ UNCHANGED used
     \/ Spend("failures", MaxFailures) /\ UNCHANGED objects
  /\ UNCHANGED <<data, revision, edits, descriptionVars, accepted>>

\* The user interrupts the command, or a description cannot be written.
Interrupt ==
  /\ steps # << >> /\ Abort /\ Spend("failures", MaxFailures)
  /\ UNCHANGED <<objects, data, revision, edits, descriptionVars, accepted>>

-----------------------------------------------------------------------------
(* The policy commands.  They talk to the Karmada API server whatever the layer, *)
(* so that the policies of the continuum agent are out of their reach.           *)

ReadPolicies(u) ==
  /\ edits[u] = NoEdit /\ Spend("edits", MaxEdits)
  /\ \E l \in Levels, key \in Keys, add \in BOOLEAN :
       /\ PlaneOf(l) = "karmada" /\ <<l, "policies">> \in objects
       /\ add \/ key \in data[l]
       /\ edits' = [edits EXCEPT ![u] =
            [layer |-> l, key |-> key, add |-> add, revision |-> revision[l],
             data |-> IF add THEN data[l] \union {key} ELSE data[l] \ {key}]]
  /\ UNCHANGED <<objects, steps, data, revision, descriptionVars, accepted>>

\* Deviation: the config map is written without the version that was read.
WriteBlindly(u) ==
  LET edit == edits[u]
      l == edit.layer
  IN /\ edit # NoEdit /\ edits' = [edits EXCEPT ![u] = NoEdit]
     /\ data' = [data EXCEPT ![l] = edit.data]
     /\ revision' = [revision EXCEPT ![l] = @ + 1]
     /\ accepted' = [accepted EXCEPT ![l] =
                       IF edit.add THEN @ \union {edit.key} ELSE @ \ {edit.key}]
     /\ UNCHANGED <<objects, steps, used, descriptionVars>>

\* The whole config map is written back with the resourceVersion that was read; after
\* another write that is a conflict, and the command fails.
WritePolicies(u) ==
  LET edit == edits[u]
      l == edit.layer
  IN /\ edit # NoEdit /\ edits' = [edits EXCEPT ![u] = NoEdit]
     /\ IF edit.revision = revision[l]
        THEN /\ data' = [data EXCEPT ![l] = edit.data]
             /\ revision' = [revision EXCEPT ![l] = @ + 1]
             /\ accepted' = [accepted EXCEPT ![l] =
                               IF edit.add THEN @ \union {edit.key} ELSE @ \ {edit.key}]
        ELSE UNCHANGED <<data, revision, accepted>>
     /\ UNCHANGED <<objects, steps, used, descriptionVars>>

Next ==
  \/ Run \/ CreateOrUpdate \/ UpdateFails \/ CreateFails \/ CreateConfigMap
  \/ CreateConfigMapFails \/ ReadFails \/ ApplyPolicies \/ Interrupt
  \/ \E u \in Users : ReadPolicies(u) \/ WritePolicies(u)

-----------------------------------------------------------------------------
(* What must hold. *)

Owners == {"host", "karmada"} \union Levels
Kinds == {"namespace", "rbac", "services", "propagation", "description", "karmadapi",
          "policies", "config", "agent"}
Edit == [layer : Levels, key : Keys, add : BOOLEAN, revision : Nat, data : SUBSET Keys]

TypeOK ==
  /\ objects \subseteq Owners \X Kinds /\ steps \in Seq(Owners \X Kinds)
  /\ data \in [Levels -> SUBSET Keys] /\ accepted \in [Levels -> SUBSET Keys]
  /\ revision \in [Levels -> Nat] /\ edits \in [Users -> Edit \union {NoEdit}]
  /\ used \in [commands : 0..MaxCommands, edits : 0..MaxEdits, failures : 0..MaxFailures]
  /\ described \subseteq Levels /\ undescribed \subseteq Levels

\* No agents are started outside of their namespace or without the descriptions a command
\* has read: whichever calls failed, whatever was interrupted, and though a config map that
\* exists is kept, agents lack a description only if a command found none where it looked.
NoDescriptionIsLost ==
  \A l \in Levels : <<l, "agent">> \in objects =>
    Namespace(l) \in objects /\ (l \in described \/ l \in undescribed)

\* No successful change of a policy is undone by another user's change.
PolicyChangesAreKept == data = accepted
=============================================================================
