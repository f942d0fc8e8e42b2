-------------------------- MODULE MCIncidentEngine --------------------------
(***************************************************************************)
(* A small instance of IncidentEngine.  One family that fails in two       *)
(* environments is enough for two rows in one tick, hence for a tick that  *)
(* is cut short between them.  ReplayWindow < MaxTime lets a row go stale, *)
(* and MaxDelay > 0 and IdBucket > Window + ResolveAfter - 1 let an id be  *)
(* opened again after it was resolved.                                     *)
(***************************************************************************)
EXTENDS IncidentEngine

AtStart == [d \in Deploys |-> 0]
=============================================================================
