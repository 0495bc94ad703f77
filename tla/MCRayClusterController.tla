----------------------- MODULE MCRayClusterController -----------------------
(***************************************************************************)
(* The RayCluster controller on small instances.                           *)
(***************************************************************************)
EXTENDS RayClusterController

\* The garbage collector takes the objects whose content matters to Reconcile
\* one by one and the others, whose only state is their owner, together ...
SweepByContent ==
    {{"caSecret"}, {"serviceAccount"}, Kinds \ {"caSecret", "serviceAccount"}}

\* ... or all in one step.
SweepTogether == {Kinds}
=============================================================================
