--------------------------- MODULE MCPlanPipeline ---------------------------
(* Small instances of PlanPipeline for TLC. *)
EXTENDS PlanPipeline, SequencesExt

\* Every dictionary a policy may return over at most two of the mechanisms.
ListsOfTwo == {s \in SeqOf(Mechanisms, 2) : IsInjective(s)}

\* Uuids are only compared for equality.
PlanSymmetry == Permutations(Uids)
=============================================================================
