----------------------------- MODULE MCPlanTree -----------------------------
(***************************************************************************)
(* Instance of PlanTree for TLC: documents of up to three nodes, one       *)
(* buffer counter, counts 0 and 1, one worker entry per node.              *)
(***************************************************************************)
EXTENDS PlanTree

(* One of the ten counter names; the keys are summed independently.       *)
OneKey == {"Shared Hit Blocks"}

(* Zero and a positive count tell a present zero from an absent counter. *)
SmallCounts == 0..1
=============================================================================
