------------------------- MODULE ControllerWorkers -------------------------
(* The workers that call the controller, shared by the modules of its parts. *)
EXTENDS Naturals, FiniteSets

CONSTANT Workers

\* All workers exist before the first call, and pass this number along.
ASSUME WorkersAssumption == IsFiniteSet(Workers) /\ Workers # {}

NumWorkers == Cardinality(Workers)
=============================================================================
