--------------------------- MODULE MCReplanProtocol ---------------------------
(* Finite instances of ReplanProtocol. *)
EXTENDS ReplanProtocol

MCPlans == PlanIds \X (1..MaxVersions)
MCMutations == 1..2
=============================================================================
