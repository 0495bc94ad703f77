--------------------------- MODULE FinalizerProtocol ---------------------------
(***************************************************************************)
(* What the OAuth finalizer promises.  A ClusterRoleBinding is not in the  *)
(* namespace of its RayCluster, so it can have no owner reference and the  *)
(* garbage collector never removes it.  The finalizer makes up for that:   *)
(* the binding is created only for a cluster that carries the finalizer,   *)
(* and the finalizer is removed only when the binding is.                  *)
(***************************************************************************)
VARIABLES
    life,   \* of the RayCluster: absent, bare (it has no finalizer), guarded
            \* (it has), closing (it has, and is being deleted)
    bound   \* does the ClusterRoleBinding grant anything?

vars == <<life, bound>>

Init == life = "absent" /\ bound = FALSE

Create == life = "absent" /\ ~bound /\ life' = "bare" /\ UNCHANGED bound
Drop == life = "bare" /\ ~bound /\ life' = "absent" /\ UNCHANGED bound
Guard == life = "bare" /\ life' = "guarded" /\ UNCHANGED bound
Close == life = "guarded" /\ life' = "closing" /\ UNCHANGED bound
Release == life = "closing" /\ ~bound /\ life' = "absent" /\ UNCHANGED bound

Bind == life \in {"guarded", "closing"} /\ bound' = TRUE /\ UNCHANGED life
Unbind == bound /\ bound' = FALSE /\ UNCHANGED life

Next == Create \/ Drop \/ Guard \/ Close \/ Release \/ Bind \/ Unbind

Spec == Init /\ [][Next]_vars
=============================================================================
