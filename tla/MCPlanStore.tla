---------------------------- MODULE MCPlanStore ----------------------------
(* Instances of PlanStore: a store with two places for three plans, and     *)
(* clients that watch one of them.                                          *)
EXTENDS PlanStore, TLC

CONSTANTS watched, other, third

MCPlanOf == [s \in Subs |-> watched]

ClientSymmetry == Permutations(Subs)
=============================================================================
