--------------------------- MODULE MCPlanContract ---------------------------
(* A small instance on which TLC checks that PlanPipeline implements        *)
(* PlanContract.                                                            *)
EXTENDS MCPlanPipeline, PlanRefinement
=============================================================================
