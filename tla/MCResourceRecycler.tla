-------------------------- MODULE MCResourceRecycler --------------------------
(* Instances of ResourceRecycler for TLC: two resources of one recycler    *)
(* and one of another, so that a part may have the same owner or not.  No  *)
(* more than two of them are made in a behaviour.                          *)
EXTENDS ResourceRecycler, TLC

CONSTANTS early, late,          \* two recyclers
          mesh, buffer, image   \* their resources

MCRecycler == {early, late}
MCResource == {mesh, buffer, image}
MCOwner == mesh :> early @@ buffer :> early @@ image :> late

MaxCreated == 2

FewResourcesSpec ==
  /\ ResourceInit
  /\ [][ResourceNext /\ Cardinality(created') <= MaxCreated]_allVars
  /\ Fairness
==============================================================================
