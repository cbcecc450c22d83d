--------------------------- MODULE MCFluidityApps ---------------------------
(* A small instance of FluidityApps for TLC: two components and two nodes, *)
(* one of which does not suit the second component.                        *)
EXTENDS FluidityApps

CONSTANTS h1, h2

SecondOnOneHost == [c \in 1..2 |-> IF c = 1 THEN {h1, h2} ELSE {h1}]

Step(c, action, h, src) == [comp |-> c, action |-> action, host |-> h, src_host |-> src]
Simple(c, action, h) == Step(c, action, h, h)

SomeInitialPlans ==
  {<<Simple(1, "deploy", h1), Simple(2, "deploy", h1)>>,
   <<Simple(1, "deploy", h1), Simple(1, "deploy", h2), Simple(2, "deploy", h1)>>,
   <<Simple(1, "deploy", h1), Simple(2, "deploy", h2)>>,
   <<Simple(1, "deploy", h2)>>}

\* One action each, and plans of two actions that can fail between them.
SomePlans ==
  {<<Step(1, "move", h2, h1)>>, <<Simple(1, "deploy", h2)>>, <<Simple(2, "remove", h1)>>,
   <<Simple(1, "change_spec", h1)>>, <<Simple(1, "change_spec", h2), Simple(2, "change_spec", h2)>>,
   <<Step(1, "move", h2, h1), Step(2, "move", h2, h1)>>,
   <<Simple(1, "remove", h1), Simple(2, "deploy", h1)>>}
=============================================================================
