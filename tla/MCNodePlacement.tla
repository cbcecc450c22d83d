-------------------------- MODULE MCNodePlacement --------------------------
(* A small instance of NodePlacement for TLC: two components, two nodes.   *)
EXTENDS NodePlacement

CONSTANTS c1, c2, n1, n2

Step(c, action, h, src) == [comp |-> c, action |-> action, host |-> h, src_host |-> src]

\* The second one deploys two instances on one node.
SomeInitialPlans ==
  {<<Step(c1, "deploy", n1, n1), Step(c2, "deploy", n1, n1)>>,
   <<Step(c1, "deploy", n2, n2), Step(c1, "deploy", n2, n2)>>}

SomePlans ==
  {<<Step(c1, "change_spec", n1, n1)>>, <<Step(c1, "move", n1, n2)>>,
   <<Step(c1, "remove", n1, n1), Step(c2, "move", n2, n1)>>,
   <<Step(c2, "change_spec", n1, n1), Step(c1, "move", n2, n1)>>}

\* A policy with a scrape interval on the cluster agent, or on a node.
SomePolicySets ==
  {[a \in Agents |-> IF a = Cluster THEN "interval" ELSE "none"],
   [a \in Agents |-> CASE a = Cluster -> "no interval" [] a = n1 -> "interval" [] a = n2 -> "none"]}
=============================================================================
