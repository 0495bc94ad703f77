--------------------- MODULE RayClusterControllerProofs ---------------------
(***************************************************************************)
(* Proofs about the RayCluster controller, for every platform,             *)
(* configuration, history and bound.                                       *)
(***************************************************************************)
EXTENDS RayClusterController, TLAPS

USE DEF OAuthKinds, IngressKinds, Policies

\* What a write to the RayCluster does: a new version, which is the object
\* written, or nothing if it was being deleted and lost its last finalizer.
LEMMA StoreEffect ==
    ASSUME TypeOK, NEW c \in Clusters, Store(c)
    PROVE  /\ cluster' \in Clusters
           /\ watch' = watch \cup {cluster'}
           /\ watch' \subseteq Clusters
           /\ cluster'.rv = cluster.rv + 1
           /\ \/ /\ cluster'.uid = c.uid
                 /\ cluster'.fin = c.fin
                 /\ cluster'.del = c.del
                 /\ cluster'.other = c.other
                 /\ cluster'.ann = c.ann
              \/ /\ c.del /\ ~c.fin /\ ~c.other
                 /\ cluster'.uid = 0
                 /\ ~cluster'.fin
                 /\ ~cluster'.del
                 /\ ~cluster'.other
<1>. DEFINE d == [c EXCEPT !.rv = cluster.rv + 1]
<1>1. d \in Clusters /\ d.rv = cluster.rv + 1 /\ d.uid = c.uid /\ d.fin = c.fin
        /\ d.del = c.del /\ d.other = c.other /\ d.ann = c.ann
  BY DEF TypeOK, Clusters
<1>2. cluster' = Settle(d) /\ watch' = watch \cup {cluster'}
  BY DEF Store
<1>3. CASE d.del /\ ~d.fin /\ ~d.other
  <2>1. cluster' = [NoCluster EXCEPT !.rv = d.rv]
    BY <1>2, <1>3 DEF Settle
  <2>2. cluster' = [uid |-> 0, rv |-> d.rv, del |-> FALSE, fin |-> FALSE,
                    other |-> FALSE, ann |-> FALSE, susp |-> FALSE,
                    pull |-> FALSE]
    BY <2>1 DEF NoCluster
  <2>3. /\ cluster' \in Clusters
        /\ cluster'.rv = d.rv
        /\ cluster'.uid = 0
        /\ ~cluster'.fin
        /\ ~cluster'.del
        /\ ~cluster'.other
    BY <2>2, <1>1 DEF Clusters
  <2>. QED
    BY <2>3, <1>1, <1>2, <1>3 DEF TypeOK
<1>4. CASE ~(d.del /\ ~d.fin /\ ~d.other)
  <2>1. cluster' = d
    BY <1>2, <1>4 DEF Settle
  <2>. QED
    BY <2>1, <1>1, <1>2 DEF TypeOK
<1>. QED
  BY <1>3, <1>4

-----------------------------------------------------------------------------
(* The versions of the cluster that the actions write.                     *)

\* The absent cluster is well typed and carries nothing.
LEMMA NoClusterType ==
    /\ NoCluster \in Clusters
    /\ NoCluster.uid = 0 /\ NoCluster.rv = 0
    /\ ~NoCluster.fin /\ ~NoCluster.del /\ ~NoCluster.other /\ ~NoCluster.ann
  BY DEF NoCluster, Clusters

\* The webhook sets the annotation and leaves all else alone.
LEMMA DefaultEffect ==
    ASSUME NEW c \in Clusters
    PROVE  /\ Default(c) \in Clusters
           /\ Default(c).uid = c.uid
           /\ Default(c).fin = c.fin
           /\ Default(c).del = c.del
           /\ Default(c).other = c.other
           /\ Default(c).ann = TRUE
  BY DEF Default, Clusters

\* Setting or clearing the OAuth finalizer changes nothing else ...
LEMMA WithFinalizer ==
    ASSUME NEW c \in Clusters, NEW b \in BOOLEAN
    PROVE  LET d == [c EXCEPT !.fin = b]
           IN  /\ d \in Clusters
               /\ d.uid = c.uid /\ d.fin = b /\ d.del = c.del
               /\ d.other = c.other /\ d.ann = c.ann
  BY DEF Clusters

\* ... nor does the deletion, beyond the finalizer of its policy ...
LEMMA WithDeletion ==
    ASSUME NEW c \in Clusters, NEW b \in BOOLEAN
    PROVE  LET d == [c EXCEPT !.del = TRUE, !.other = b]
           IN  /\ d \in Clusters
               /\ d.uid = c.uid /\ d.fin = c.fin /\ d.del
               /\ d.other = b /\ d.ann = c.ann
  BY DEF Clusters

\* ... nor the garbage collector's removal of that one ...
LEMMA WithoutForeground ==
    ASSUME NEW c \in Clusters
    PROVE  LET d == [c EXCEPT !.other = FALSE]
           IN  /\ d \in Clusters
               /\ d.uid = c.uid /\ d.fin = c.fin /\ d.del = c.del
               /\ ~d.other /\ d.ann = c.ann
  BY DEF Clusters

\* ... nor a user's edit.
LEMMA WithEdit ==
    ASSUME NEW c \in Clusters, NEW s \in BOOLEAN
    PROVE  LET d == [c EXCEPT !.susp = s]
           IN  /\ d \in Clusters
               /\ d.uid = c.uid /\ d.fin = c.fin /\ d.del = c.del
               /\ d.other = c.other /\ d.ann = c.ann
  BY DEF Clusters

\* What a cluster that has just been created looks like.
LEMMA NewCluster ==
    ASSUME NEW u \in Nat, NEW b \in BOOLEAN
    PROVE  LET d == [NoCluster EXCEPT !.uid = u, !.pull = b]
           IN  /\ d \in Clusters
               /\ d.uid = u /\ ~d.fin /\ ~d.del /\ ~d.other
  BY NoClusterType DEF Clusters

-----------------------------------------------------------------------------
(* The order of the requests.                                              *)

\* Past the finalizer, a reconciliation stays among the apply steps until it
\* ends (raycluster_controller.go, lines 168-309).
LEMMA StepOrder ==
    ASSUME NEW c
    PROVE  /\ AfterCA(c) \in ApplySteps
           /\ AfterFinalizer(c) \in ApplySteps
           /\ AfterServiceAccount(c) \in ApplySteps
           /\ \A k \in Kinds : After(k, c) \in ApplySteps \cup {"idle"}
<1>1. AfterCA(c) \in ApplySteps
  BY DEF AfterCA, ApplySteps, Kinds
<1>2. AfterFinalizer(c) \in ApplySteps
  BY <1>1 DEF AfterFinalizer, ApplySteps, Kinds
<1>3. AfterServiceAccount(c) \in ApplySteps
  BY DEF AfterServiceAccount, ApplySteps, Kinds
<1>4. \A k \in Kinds : After(k, c) \in ApplySteps \cup {"idle"}
  <2>. SUFFICES ASSUME NEW k \in Kinds
                PROVE  After(k, c) \in ApplySteps \cup {"idle"}
    OBVIOUS
  <2>1. k = "caSecret" => After(k, c) = AfterCA(c)
    BY DEF After
  <2>2. k = "serviceAccount" => After(k, c) = AfterServiceAccount(c)
    BY DEF After
  <2>3. k \in Kinds \ {"caSecret", "serviceAccount"} =>
          After(k, c) \in {"oauthSecret", "service", "serviceAccount",
              "kubeRayPods", "clientIngress", "workersPolicy", "idle"}
    BY DEF After, Kinds
  <2>. QED
    BY <1>1, <1>3, <2>1, <2>2, <2>3 DEF ApplySteps, Kinds
<1>. QED
  BY <1>1, <1>2, <1>3, <1>4

\* Every object has one of the two names (lines 117-121).
LEMMA NamesOf ==
    ASSUME NEW c
    PROVE  NameOf(c) \in Names /\ \A k : NameFor(k, c) \in Names
  BY DEF NameOf, NameFor, Names

\* Going on to a step keeps the controller's variables well typed.
LEMMA GotoType ==
    ASSUME TypeOK, NEW step \in Steps, Goto(step)
    PROVE  /\ pc' = step
           /\ queued' \in BOOLEAN
           /\ local' \in Clusters
           /\ mem' \in MemType
           /\ step # "idle" => local' = local
           /\ step = "idle" => local' = NoCluster
<1>1. EmptyMem \in MemType
  BY DEF EmptyMem, MemType
<1>2. pc' = step /\ queued' \in BOOLEAN
  BY DEF Goto, TypeOK
<1>3. CASE step = "idle"
  BY <1>1, <1>2, <1>3, NoClusterType DEF Goto
<1>4. CASE step # "idle"
  BY <1>2, <1>4 DEF Goto, TypeOK
<1>. QED
  BY <1>3, <1>4

\* So does returning an error.
LEMMA RequeueType ==
    ASSUME Requeue
    PROVE  /\ pc' = "idle" /\ pc' \in Steps
           /\ queued' \in BOOLEAN
           /\ local' \in Clusters
           /\ mem' \in MemType
           /\ local' = NoCluster
  BY NoClusterType DEF Requeue, EmptyMem, MemType, Steps

-----------------------------------------------------------------------------
(* Type correctness.                                                       *)

\* The initial states are well typed.
LEMMA TypeInit == Init => TypeOK
<1>. SUFFICES ASSUME Init PROVE TypeOK
  OBVIOUS
<1>1. LegacyState \in Clusters /\ LegacyState.uid = 1
  BY NoClusterType DEF LegacyState, Clusters
<1>2. cluster \in Clusters /\ cluster.uid \in Nat
  BY <1>1, NoClusterType DEF Init, Clusters
<1>3. obj \in [Kinds -> [Names -> Nat]] /\ caKey \in [Names -> Nat]
  <2>1. \A k : OldRelease(k) \in Nat
    BY DEF OldRelease
  <2>2. obj \in [Kinds -> [Names -> Nat]]
    BY <2>1 DEF Init
  <2>. QED
    BY <2>2 DEF Init, Kinds
<1>4. crb \in [Names -> {"absent", "present", "terminating"}]
        /\ saPull \in [Names -> BOOLEAN]
        /\ kubeRay \in KubeRayHomes /\ dsci \in DSCIs
        /\ pod \in PodType
  BY DEF Init, NoPod, PodType
<1>4a. peers \in [Names -> SUBSET Namespaces]
  <2>1. Lookup \in SUBSET Namespaces
    BY <1>4, SettingsAssumption DEF Lookup, Namespaces
  <2>. QED
    BY <2>1 DEF Init
<1>5. mem \in MemType
  BY DEF Init, EmptyMem, MemType
<1>6. queued \in BOOLEAN /\ notify \in BOOLEAN
  BY SettingsAssumption DEF Init
<1>. QED
  BY <1>2, <1>3, <1>4, <1>4a, <1>5, <1>6, NoClusterType DEF Init, TypeOK, Steps

\* Deleting objects keeps their variables well typed.
LEMMA EraseType ==
    ASSUME TypeOK, NEW gone, Erase(gone)
    PROVE  /\ obj' \in [Kinds -> [Names -> Nat]]
           /\ caKey' \in [Names -> Nat]
           /\ saPull' \in [Names -> BOOLEAN]
           /\ peers' \in [Names -> SUBSET Namespaces]
           /\ notify' \in BOOLEAN
  BY DEF Erase, TypeOK

\* Pods that are leaving, or gone, are Pods.
LEMMA PodTypes ==
    /\ NoPod \in PodType
    /\ [is |-> "leaving", listed |-> FALSE] \in PodType
    /\ \A q \in PodType : [q EXCEPT !.is = "leaving"] \in PodType
  BY DEF NoPod, PodType

\* Every step preserves the types.
LEMMA TypeStep == TypeOK /\ [Next]_vars => TypeOK'
<1>. SUFFICES ASSUME TypeOK, [Next]_vars PROVE TypeOK'
  OBVIOUS
<1>. USE DEF apiVars, ctrlVars, objVars
<1>1. CASE UNCHANGED vars
  BY <1>1 DEF vars, TypeOK
<1>2. CASE Users
  <2>1. CASE Create
    <3>1. PICK pull \in PullSecrets :
            Store(Default([NoCluster EXCEPT !.uid = uids + 1, !.pull = pull]))
      BY <2>1 DEF Create
    <3>2. Default([NoCluster EXCEPT !.uid = uids + 1, !.pull = pull]) \in Clusters
      <4>1. uids + 1 \in Nat /\ pull \in BOOLEAN
        BY SettingsAssumption DEF TypeOK
      <4>2. [NoCluster EXCEPT !.uid = uids + 1, !.pull = pull] \in Clusters
        BY <4>1, NewCluster
      <4>. QED
        BY <4>2, DefaultEffect
    <3>. QED
      BY <2>1, <3>1, <3>2, StoreEffect DEF Create, TypeOK
  <2>2. CASE Edit
    <3>0. PICK susp \in BOOLEAN : Store(Default([cluster EXCEPT !.susp = susp]))
      BY <2>2 DEF Edit
    <3>1. Default([cluster EXCEPT !.susp = susp]) \in Clusters
      BY WithEdit, DefaultEffect DEF TypeOK
    <3>. QED
      BY <2>2, <3>0, <3>1, StoreEffect DEF Edit, TypeOK
  <2>3. CASE UpdateStatus
    BY <2>3, StoreEffect DEF UpdateStatus, TypeOK
  <2>4. CASE Delete
    <3>1. PICK foreground \in Foreground :
            Store([cluster EXCEPT !.del = TRUE, !.other = foreground])
      BY <2>4 DEF Delete
    <3>2. [cluster EXCEPT !.del = TRUE, !.other = foreground] \in Clusters
      BY WithDeletion, SettingsAssumption DEF TypeOK
    <3>. QED
      BY <2>4, <3>1, <3>2, StoreEffect DEF Delete, TypeOK
  <2>. QED
    BY <1>2, <2>1, <2>2, <2>3, <2>4 DEF Users
<1>3. CASE Kubernetes
  <2>1. CASE ReleaseForeground
    <3>1. Default([cluster EXCEPT !.other = FALSE]) \in Clusters
      BY WithoutForeground, DefaultEffect DEF TypeOK
    <3>. QED
      BY <2>1, <3>1, StoreEffect DEF ReleaseForeground, TypeOK
  <2>2. CASE Collect
    BY <2>2, EraseType DEF Collect, Erase, TypeOK
  <2>3. CASE BindingGone
    BY <2>3 DEF BindingGone, TypeOK
  <2>4. CASE AddPullSecret
    BY <2>4 DEF AddPullSecret, TypeOK
  <2>5. CASE CreateHeadPod
    BY <2>5, NamesOf DEF CreateHeadPod, NoPod, PodType, TypeOK
  <2>6. CASE DeleteHeadPod \/ HeadPodGone
    <3>1. pod' \in PodType
      BY <2>6, PodTypes DEF DeleteHeadPod, HeadPodGone, TypeOK
    <3>. QED
      BY <2>6, <3>1 DEF DeleteHeadPod, HeadPodGone, TypeOK
  <2>7. CASE MoveKubeRay \/ EditDSCI
    BY <2>7 DEF MoveKubeRay, EditDSCI, TypeOK
  <2>. QED
    BY <1>3, <2>1, <2>2, <2>3, <2>4, <2>5, <2>6, <2>7 DEF Kubernetes
<1>4. CASE Manager
  <2>1. CASE Deliver
    BY <2>1 DEF Deliver, TypeOK
  <2>2. CASE DeliverObject
    BY <2>2 DEF DeliverObject, TypeOK
  <2>3. CASE Resync
    BY <2>3 DEF Resync, TypeOK
  <2>. QED
    BY <1>4, <2>1, <2>2, <2>3 DEF Manager
<1>5. CASE Faults
  <2>1. CASE DeleteObject
    BY <2>1, EraseType DEF DeleteObject, Erase, TypeOK
  <2>2. CASE DeleteBinding
    BY <2>2 DEF DeleteBinding, TypeOK
  <2>3. CASE Restart
    <3>1. Requeue
      BY <2>3 DEF Restart
    <3>2. watch' \subseteq Clusters /\ cached' \in Clusters /\ faults' \in Nat
      BY <2>3 DEF Restart, TypeOK
    <3>3. notify' \in BOOLEAN
      BY <2>3 DEF Restart
    <3>4. UNCHANGED <<cluster, uids, objVars, crb, pod, edits>>
      BY <2>3 DEF Restart
    <3>. QED
      BY <3>1, <3>2, <3>3, <3>4, RequeueType DEF TypeOK
  <2>4. CASE Fail
    BY <2>4, RequeueType DEF Fail, TypeOK
  <2>5. CASE FailPolicy
    <3>1. After(pc, local) \in Steps
      BY <2>5, StepOrder DEF FailPolicy, Kinds, Steps
    <3>2. Goto(After(pc, local)) /\ faults' = faults + 1
            /\ UNCHANGED <<apiVars, cached, notify, objVars, crb, pod, edits>>
      BY <2>5 DEF FailPolicy
    <3>. HIDE DEF Policies
    <3>. QED
      BY <3>1, <3>2, GotoType DEF TypeOK
  <2>. QED
    BY <1>5, <2>1, <2>2, <2>3, <2>4, <2>5 DEF Faults
<1>6. CASE Request
  <2>1. CASE Start
    <3>1. FirstStep(cached) \in Steps
      BY StepOrder DEF FirstStep, Steps
    <3>. QED
      BY <2>1, <3>1 DEF Start, TypeOK
  <2>2. CASE AddFinalizer
    <3>1. Default([local EXCEPT !.fin = TRUE]) \in Clusters
      BY WithFinalizer, DefaultEffect DEF TypeOK
    <3>2. AfterFinalizer(local') \in Steps
      BY StepOrder DEF Steps
    <3>. QED
      BY <2>2, <3>1, <3>2, StoreEffect DEF AddFinalizer, TypeOK
  <2>3. CASE DeleteCRB
    <3>1. "removeFinalizer" \in Steps
      BY DEF Steps
    <3>2. crb' \in [Names -> {"absent", "present", "terminating"}]
      BY <2>3, NamesOf DEF DeleteCRB, TypeOK
    <3>3. notify' \in BOOLEAN
      BY <2>3 DEF DeleteCRB, TypeOK
    <3>. QED
      BY <2>3, <3>1, <3>2, <3>3, GotoType DEF DeleteCRB, TypeOK
  <2>4. CASE RemoveFinalizer
    <3>1. Default([local EXCEPT !.fin = FALSE]) \in Clusters
      BY WithFinalizer, DefaultEffect DEF TypeOK
    <3>2. "idle" \in Steps
      BY DEF Steps
    <3>. QED
      BY <2>4, <3>1, <3>2, StoreEffect, GotoType DEF RemoveFinalizer, TypeOK
  <2>5. CASE Conflict
    BY <2>5, RequeueType DEF Conflict, TypeOK
  <2>6. CASE GetCA
    <3>1. NewKey \in Nat
      <4>1. \E key \in 1..3 : \A n \in Names : key # caKey[n]
        BY DEF Names
      <4>. QED
        BY <4>1 DEF NewKey
    <3>2. mem' \in MemType
      BY <2>6, <3>1, NamesOf DEF GetCA, TypeOK, MemType
    <3>. QED
      BY <2>6, <3>2 DEF GetCA, TypeOK, Steps, ApplySteps, Kinds
  <2>7. ASSUME NEW k \in Kinds, Apply(k) PROVE TypeOK'
    <3>1. After(k, local) \in Steps
      BY StepOrder DEF Steps
    <3>2. obj' \in [Kinds -> [Names -> Nat]]
      BY <2>7, NamesOf DEF Apply, TypeOK, Clusters
    <3>3. caKey' \in [Names -> Nat]
      BY <2>7, NamesOf DEF Apply, TypeOK, MemType
    <3>4. notify' \in BOOLEAN
      BY <2>7 DEF Apply, TypeOK
    <3>5. peers' \in [Names -> SUBSET Namespaces]
      BY <2>7, NamesOf DEF Apply, TypeOK, MemType
    <3>. QED
      BY <2>7, <3>1, <3>2, <3>3, <3>4, <3>5, GotoType DEF Apply, TypeOK
  <2>8. CASE ApplyCRB
    <3>1. "clientRoute" \in Steps
      BY DEF Steps, ApplySteps, Kinds
    <3>2. crb' \in [Names -> {"absent", "present", "terminating"}]
      BY <2>8, NamesOf DEF ApplyCRB, TypeOK
    <3>3. notify' \in BOOLEAN
      BY <2>8 DEF ApplyCRB, TypeOK
    <3>. QED
      BY <2>8, <3>1, <3>2, <3>3, GotoType DEF ApplyCRB, TypeOK
  <2>9. CASE GetServiceAccount
    <3>1. "podList" \in Steps
      BY DEF Steps, ApplySteps
    <3>2. CASE Requeue
      BY <2>9, <3>2, RequeueType DEF GetServiceAccount, TypeOK
    <3>3. CASE /\ mem' = [mem EXCEPT !.pull =
                           saPull[NameFor("serviceAccount", local)]]
               /\ pc' = "podList"
               /\ UNCHANGED <<queued, local>>
      BY <2>9, <3>1, <3>3, NamesOf DEF GetServiceAccount, TypeOK, MemType
    <3>. QED
      BY <2>9, <3>2, <3>3 DEF GetServiceAccount
  <2>10. CASE ListHeadPods
    <3>1. {"podDelete", "crb"} \subseteq Steps
      BY DEF Steps, ApplySteps
    <3>2. pod' \in PodType
      BY <2>10 DEF ListHeadPods, PodType, TypeOK
    <3>3. Goto("podDelete") \/ Goto("crb")
      BY <2>10 DEF ListHeadPods
    <3>4. UNCHANGED <<apiVars, cached, notify, objVars, crb, edits, faults>>
      BY <2>10 DEF ListHeadPods
    <3>. QED
      BY <3>1, <3>2, <3>3, <3>4, GotoType DEF TypeOK
  <2>11. CASE DeletePod
    <3>1. "crb" \in Steps
      BY DEF Steps, ApplySteps
    <3>2. pod' \in PodType
      BY <2>11, PodTypes DEF DeletePod, TypeOK
    <3>. QED
      BY <2>11, <3>1, <3>2, GotoType, RequeueType DEF DeletePod, TypeOK
  <2>12. CASE ListKubeRayPods
    <3>1. {"dsci", "headPolicy"} \subseteq Steps
      BY DEF Steps, ApplySteps, Kinds
    <3>2. (IF kubeRay = "none" THEN {kubeRayDefaultNamespace} ELSE {kubeRay})
            \in SUBSET Namespaces
      BY DEF TypeOK, Namespaces
    <3>3. mem' \in MemType
      BY <2>12, <3>2 DEF ListKubeRayPods, TypeOK, MemType
    <3>. QED
      BY <2>12, <3>1, <3>3 DEF ListKubeRayPods, TypeOK
  <2>13. CASE GetDSCI
    <3>1. "headPolicy" \in Steps
      BY DEF Steps, ApplySteps, Kinds
    <3>2. CASE DSCIServed
      <4>1. (IF dsci = "none" THEN {odhNamespace, rhdsAppsNamespace} ELSE {dsci})
              \in SUBSET Namespaces
        BY DEF TypeOK, Namespaces
      <4>2. mem' \in MemType
        BY <2>13, <3>2, <4>1 DEF GetDSCI, TypeOK, MemType
      <4>. QED
        BY <2>13, <3>1, <3>2, <4>2 DEF GetDSCI, TypeOK
    <3>3. CASE ~DSCIServed
      BY <2>13, <3>3, RequeueType DEF GetDSCI, TypeOK
    <3>. QED
      BY <3>2, <3>3
  <2>. QED
    BY <1>6, <2>1, <2>2, <2>3, <2>4, <2>5, <2>6, <2>7, <2>8, <2>9, <2>10,
       <2>11, <2>12, <2>13 DEF Request
<1>. QED
  BY <1>1, <1>2, <1>3, <1>4, <1>5, <1>6 DEF Next

\* The variables keep to their types, whatever the bounds.
THEOREM TypeCorrect == Spec => []TypeOK
  BY TypeInit, TypeStep, PTL DEF Spec

-----------------------------------------------------------------------------
(* The finalizer invariant.                                                *)

Knowledge == VersionsInOrder /\ VersionsIdentify /\ CopiesGuarded /\ StepKnows

\* Reconcile goes from one apply to the next, or ends.
LEMMA KnowledgeGoesOn ==
    ASSUME FinalizerInv,
           UNCHANGED <<cluster, watch, cached>>,
           \/ pc' = "idle" /\ local' = NoCluster
           \/ pc \in ApplySteps /\ pc' \in ApplySteps /\ local' = local
    PROVE  Knowledge'
<1>1. \A e \in Copies' : e \in Copies \/ e = NoCluster
  BY DEF Copies
<1>2. VersionsInOrder'
  BY NoClusterType DEF FinalizerInv, VersionsInOrder, TypeOK, Clusters
<1>3. VersionsIdentify'
  BY <1>1, NoClusterType DEF FinalizerInv, VersionsIdentify, Exists
<1>4. CopiesGuarded'
  BY <1>1, NoClusterType DEF FinalizerInv, CopiesGuarded, Exists
<1>5. StepKnows'
  <2>1. CASE pc' = "idle"
    BY <2>1 DEF StepKnows, ApplySteps, Kinds
  <2>2. CASE pc \in ApplySteps /\ pc' \in ApplySteps /\ local' = local
    BY <2>2 DEF FinalizerInv, StepKnows, ApplySteps, Kinds, Exists
  <2>. QED
    BY <2>1, <2>2
<1>. QED
  BY <1>2, <1>3, <1>4, <1>5 DEF Knowledge

\* Steps that leave the cluster and the copies alone, and create no binding.
LEMMA KnowledgeStays ==
    ASSUME FinalizerInv,
           UNCHANGED <<cluster, watch, cached, local, pc>>,
           \A n \in Names : crb'[n] = "present" => crb[n] = "present"
    PROVE  Knowledge'
<1>1. NameOf(local) \in Names
  BY NamesOf
<1>2. NameOf(local)' = NameOf(local)
  BY DEF NameOf
<1>. QED
  BY <1>1, <1>2 DEF FinalizerInv, Knowledge, VersionsInOrder, VersionsIdentify,
     CopiesGuarded, Copies, StepKnows, Exists

\* Someone other than the controller writes the cluster: it is a new one, or
\* has the finalizer if and only if it had it before.
LEMMA KnowledgeOfWrite ==
    ASSUME FinalizerInv, NEW c \in Clusters, Store(c),
           UNCHANGED <<cached, local, pc, crb>>,
           c.uid # 0,
           \/ ~Exists(cluster) /\ ~c.fin
           \/ Exists(cluster) /\ c.uid = cluster.uid /\ c.fin = cluster.fin
    PROVE  Knowledge'
<1>. USE DEF FinalizerInv
<1>1. /\ cluster' \in Clusters
      /\ watch' = watch \cup {cluster'}
      /\ cluster'.rv = cluster.rv + 1
      /\ \/ cluster'.uid = c.uid /\ cluster'.fin = c.fin
         \/ ~c.fin /\ cluster'.uid = 0 /\ ~cluster'.fin
  BY StoreEffect
<1>2. cluster.rv \in Nat /\ cached.rv \in Nat /\ local.rv \in Nat
        /\ \A e \in watch : e.rv \in Nat
  BY DEF TypeOK, Clusters
<1>3. \A e \in Copies : e.rv < cluster'.rv
  BY <1>1, <1>2 DEF VersionsInOrder, Copies
<1>4. \A e \in Copies' : e \in Copies \/ e = cluster'
  BY <1>1 DEF Copies
<1>5. VersionsInOrder'
  BY <1>1, <1>2, <1>3 DEF VersionsInOrder, Copies
<1>6. VersionsIdentify'
  <2>1. \A e \in Copies' : Exists(e) /\ e.rv = cluster'.rv => e = cluster'
    BY <1>1, <1>2, <1>3, <1>4 DEF TypeOK, Copies
  <2>2. ~Exists(cluster)' => ~cluster'.fin
    BY <1>1 DEF Exists
  <2>. QED
    BY <2>1, <2>2 DEF VersionsIdentify, Exists
<1>7. CopiesGuarded'
  <2>. SUFFICES ASSUME NEW e \in Copies', Exists(e), e.fin, ~e.del
                PROVE  cluster'.uid = e.uid /\ cluster'.fin
    BY DEF CopiesGuarded, Exists
  <2>1. CASE e = cluster'
    BY <2>1
  <2>2. CASE e \in Copies
    <3>1. cluster.uid = e.uid /\ cluster.fin
      BY <2>2 DEF CopiesGuarded
    <3>2. c.uid = e.uid /\ c.fin
      BY <3>1 DEF Exists
    <3>. QED
      BY <3>2, <1>1
  <2>. QED
    BY <1>4, <2>1, <2>2
<1>8. StepKnows'
  BY DEF StepKnows, Exists, NameOf
<1>. QED
  BY <1>5, <1>6, <1>7, <1>8 DEF Knowledge

\* The informer receives the next version, and the older ones are history.
LEMMA KnowledgeOfDelivery == FinalizerInv /\ Deliver => Knowledge'
<1>. SUFFICES ASSUME FinalizerInv, Deliver PROVE Knowledge'
  OBVIOUS
<1>. USE DEF FinalizerInv
<1>1. PICK e \in watch : /\ \A f \in watch : e.rv <= f.rv
                         /\ cached' = e
                         /\ watch' = watch \ {e}
  BY DEF Deliver
<1>2. UNCHANGED <<cluster, local, pc, crb>>
  BY DEF Deliver
<1>3. cluster.rv \in Nat /\ cached.rv \in Nat /\ local.rv \in Nat
        /\ \A f \in watch : f.rv \in Nat
  BY DEF TypeOK, Clusters
<1>4. Copies' \subseteq Copies
  BY <1>1, <1>2 DEF Copies
<1>5. VersionsInOrder'
  BY <1>1, <1>2, <1>3 DEF VersionsInOrder
<1>6. VersionsIdentify'
  BY <1>2, <1>4 DEF VersionsIdentify, Exists
<1>7. CopiesGuarded'
  BY <1>2, <1>4 DEF CopiesGuarded, Exists
<1>8. StepKnows'
  BY <1>1, <1>2, <1>3 DEF StepKnows, VersionsInOrder, Exists, NameOf
<1>. QED
  BY <1>5, <1>6, <1>7, <1>8 DEF Knowledge

\* After a restart the informer's copy is the current cluster.
LEMMA KnowledgeOfRestart == FinalizerInv /\ Restart => Knowledge'
<1>. SUFFICES ASSUME FinalizerInv, Restart PROVE Knowledge'
  OBVIOUS
<1>. USE DEF FinalizerInv
<1>1. cached' = cluster /\ watch' = {} /\ cluster' = cluster
  BY DEF Restart
<1>2. pc' = "idle" /\ local' = NoCluster
  BY RequeueType DEF Restart
<1>3. \A e \in Copies' : e = cluster \/ e = NoCluster
  BY <1>1, <1>2 DEF Copies
<1>4. VersionsInOrder'
  BY <1>1, <1>2, NoClusterType DEF VersionsInOrder, TypeOK, Clusters
<1>5. VersionsIdentify'
  BY <1>1, <1>3, NoClusterType DEF VersionsIdentify, Exists
<1>6. CopiesGuarded'
  BY <1>1, <1>3, NoClusterType DEF CopiesGuarded, Exists
<1>7. StepKnows'
  BY <1>2 DEF StepKnows, ApplySteps, Kinds
<1>. QED
  BY <1>4, <1>5, <1>6, <1>7 DEF Knowledge

\* Reconcile takes the informer's copy for its own.
LEMMA KnowledgeOfStart == FinalizerInv /\ Start => Knowledge'
<1>. SUFFICES ASSUME FinalizerInv, Start PROVE Knowledge'
  OBVIOUS
<1>. USE DEF FinalizerInv
<1>1. UNCHANGED <<cluster, watch, cached, crb>>
  BY DEF Start, apiVars
<1>2. CASE ~Exists(cached)
  <2>1. UNCHANGED <<local, pc>>
    BY <1>2 DEF Start
  <2>. QED
    BY <1>1, <2>1, KnowledgeStays
<1>3. CASE Exists(cached)
  <2>1. local' = cached /\ pc' = FirstStep(cached)
    BY <1>3 DEF Start
  <2>2. Copies' \subseteq Copies
    BY <1>1, <2>1 DEF Copies
  <2>3. VersionsInOrder'
    BY <1>1, <2>1 DEF VersionsInOrder
  <2>4. VersionsIdentify'
    BY <1>1, <2>2 DEF VersionsIdentify, Exists
  <2>5. CopiesGuarded'
    BY <1>1, <2>2 DEF CopiesGuarded, Exists
  <2>6. StepKnows'
    <3>1. \/ pc' = "addFinalizer" /\ ~cached.fin /\ ~cached.del
          \/ pc' = "deleteCRB" /\ cached.fin /\ cached.del
          \/ pc' \in ApplySteps /\ cached.fin /\ ~cached.del
          \/ pc' \in ApplySteps /\ cached.del /\ ~cached.fin
      BY <2>1, StepOrder DEF FirstStep
    <3>2. cached.rv <= cached.rv
      BY DEF TypeOK, Clusters
    <3>. QED
      BY <1>1, <1>3, <2>1, <3>1, <3>2 DEF StepKnows, ApplySteps, Kinds, Exists
  <2>. QED
    BY <2>3, <2>4, <2>5, <2>6 DEF Knowledge
<1>. QED
  BY <1>2, <1>3

\* The finalizer is added to the current version, which is Reconcile's own.
LEMMA KnowledgeOfAdd == FinalizerInv /\ AddFinalizer => Knowledge'
<1>. SUFFICES ASSUME FinalizerInv, AddFinalizer PROVE Knowledge'
  OBVIOUS
<1>. USE DEF FinalizerInv
<1>. DEFINE c == Default([local EXCEPT !.fin = TRUE])
<1>1. Exists(local) /\ Exists(cluster) /\ local.rv = cluster.rv /\ ~local.fin
        /\ ~local.del
  BY DEF AddFinalizer, Current, StepKnows
<1>2. cluster = local
  BY <1>1 DEF VersionsIdentify, Copies
<1>3. c \in Clusters /\ c.uid = cluster.uid /\ c.fin /\ ~c.del
  <2>. DEFINE d == [local EXCEPT !.fin = TRUE]
  <2>1. d \in Clusters /\ d.uid = local.uid /\ d.fin = TRUE /\ d.del = local.del
    BY WithFinalizer DEF TypeOK
  <2>2. c = Default(d)
    OBVIOUS
  <2>. HIDE DEF d
  <2>. QED
    BY <1>1, <1>2, <2>1, <2>2, DefaultEffect
<1>4. /\ cluster' \in Clusters
      /\ watch' = watch \cup {cluster'}
      /\ cluster'.rv = cluster.rv + 1
      /\ cluster'.uid = cluster.uid /\ cluster'.fin /\ ~cluster'.del
  BY <1>3, StoreEffect DEF AddFinalizer
<1>5. cached' = cached /\ local' = cluster' /\ pc' \in ApplySteps
  BY StepOrder DEF AddFinalizer
<1>6. cluster.rv \in Nat /\ cached.rv \in Nat /\ \A e \in watch : e.rv \in Nat
  BY DEF TypeOK, Clusters
<1>7. \A e \in Copies : e.rv < cluster'.rv
  BY <1>1, <1>4, <1>6 DEF VersionsInOrder, Copies
<1>8. \A e \in Copies' : e \in Copies \/ e = cluster'
  BY <1>4, <1>5 DEF Copies
<1>9. VersionsInOrder'
  BY <1>4, <1>5, <1>6, <1>7 DEF VersionsInOrder, Copies
<1>10. VersionsIdentify'
  <2>1. \A e \in Copies' : e.rv = cluster'.rv => e = cluster'
    BY <1>4, <1>6, <1>7, <1>8 DEF TypeOK, Copies
  <2>. QED
    BY <2>1, <1>1, <1>4 DEF VersionsIdentify, Exists
<1>11. CopiesGuarded'
  BY <1>1, <1>2, <1>4, <1>8 DEF CopiesGuarded, Exists
<1>12. StepKnows'
  BY <1>1, <1>4, <1>5 DEF StepKnows, ApplySteps, Kinds, Exists
<1>. QED
  BY <1>9, <1>10, <1>11, <1>12 DEF Knowledge

\* The binding is deleted by the name that Reconcile's copy gives it.
LEMMA KnowledgeOfUnbind == FinalizerInv /\ DeleteCRB => Knowledge'
<1>. SUFFICES ASSUME FinalizerInv, DeleteCRB PROVE Knowledge'
  OBVIOUS
<1>. USE DEF FinalizerInv
<1>1. UNCHANGED <<cluster, watch, cached>> /\ pc = "deleteCRB"
  BY DEF DeleteCRB, apiVars
<1>2. pc' = "removeFinalizer" /\ local' = local
  BY DEF DeleteCRB, Goto
<1>3. crb'[NameOf(local)] # "present"
  BY NamesOf DEF DeleteCRB, TypeOK
<1>4. Copies' = Copies
  BY <1>1, <1>2 DEF Copies
<1>5. VersionsInOrder' /\ VersionsIdentify' /\ CopiesGuarded'
  BY <1>1, <1>2, <1>4 DEF VersionsInOrder, VersionsIdentify, CopiesGuarded, Exists
<1>6. StepKnows'
  BY <1>1, <1>2, <1>3 DEF StepKnows, ApplySteps, Kinds, Exists, NameOf
<1>. QED
  BY <1>5, <1>6 DEF Knowledge

\* When the finalizer is removed, no copy shows a live cluster any more: the
\* update was made from the current version, so the informer is up to date.
LEMMA KnowledgeOfRemove == FinalizerInv /\ RemoveFinalizer => Knowledge'
<1>. SUFFICES ASSUME FinalizerInv, RemoveFinalizer PROVE Knowledge'
  OBVIOUS
<1>. USE DEF FinalizerInv
<1>. DEFINE c == Default([local EXCEPT !.fin = FALSE])
<1>1. Exists(local) /\ Exists(cluster) /\ local.rv = cluster.rv /\ local.del
        /\ local.rv <= cached.rv
  BY DEF RemoveFinalizer, Current, StepKnows
<1>2. cluster = local
  BY <1>1 DEF VersionsIdentify, Copies
<1>3. cluster.rv \in Nat /\ cached.rv \in Nat /\ \A e \in watch : e.rv \in Nat
  BY DEF TypeOK, Clusters
<1>4. watch = {} /\ cached.rv = cluster.rv
  BY <1>1, <1>3 DEF VersionsInOrder
<1>5. ~Exists(cached) \/ cached = cluster
  BY <1>4 DEF VersionsIdentify, Copies
<1>6. c \in Clusters /\ c.uid = cluster.uid /\ ~c.fin
  <2>. DEFINE d == [local EXCEPT !.fin = FALSE]
  <2>1. d \in Clusters /\ d.uid = local.uid /\ d.fin = FALSE /\ d.del = local.del
    BY WithFinalizer DEF TypeOK
  <2>2. c = Default(d)
    OBVIOUS
  <2>. HIDE DEF d
  <2>. QED
    BY <1>1, <1>2, <2>1, <2>2, DefaultEffect
<1>7. /\ watch' = {cluster'}
      /\ cluster'.rv = cluster.rv + 1
      /\ ~cluster'.fin
  BY <1>4, <1>6, StoreEffect DEF RemoveFinalizer
<1>8. cached' = cached /\ pc' = "idle" /\ local' = NoCluster
  BY DEF RemoveFinalizer, Goto
<1>9. VersionsInOrder'
  BY <1>3, <1>4, <1>7, <1>8, NoClusterType DEF VersionsInOrder
<1>10. VersionsIdentify'
  BY <1>3, <1>4, <1>7, <1>8, NoClusterType DEF VersionsIdentify, Copies, Exists
<1>11. CopiesGuarded'
  BY <1>1, <1>2, <1>5, <1>7, <1>8, NoClusterType DEF CopiesGuarded, Copies, Exists
<1>12. StepKnows'
  BY <1>8 DEF StepKnows, ApplySteps, Kinds
<1>. QED
  BY <1>9, <1>10, <1>11, <1>12 DEF Knowledge

\* The inductive invariant holds at the start, over an old cluster too.
LEMMA KnowledgeInit == Init => FinalizerInv
<1>. SUFFICES ASSUME Init PROVE FinalizerInv
  OBVIOUS
<1>1. TypeOK
  BY TypeInit
<1>2. watch = {} /\ cached = cluster /\ local = NoCluster /\ pc = "idle"
  BY DEF Init
<1>3. Copies = {cluster, NoCluster}
  BY <1>2 DEF Copies
<1>4. LegacyState.uid = 1
  BY NoClusterType DEF LegacyState, Clusters
<1>5. ~Exists(cluster) => ~cluster.fin
  BY <1>4, NoClusterType DEF Init, Exists
<1>6. VersionsInOrder
  BY <1>1, <1>2, NoClusterType DEF VersionsInOrder, TypeOK, Clusters
<1>7. VersionsIdentify /\ CopiesGuarded
  BY <1>3, <1>5, NoClusterType DEF VersionsIdentify, CopiesGuarded, Exists
<1>8. StepKnows
  BY <1>2 DEF StepKnows, ApplySteps, Kinds
<1>. QED
  BY <1>1, <1>6, <1>7, <1>8 DEF FinalizerInv

\* Every step preserves what the informer and Reconcile know.
LEMMA KnowledgeStep == FinalizerInv /\ [Next]_vars => Knowledge'
<1>. SUFFICES ASSUME FinalizerInv, [Next]_vars PROVE Knowledge'
  OBVIOUS
<1>. USE DEF apiVars, ctrlVars, objVars
<1>0. TypeOK
  BY DEF FinalizerInv
<1>1. CASE UNCHANGED vars
  BY <1>1, KnowledgeStays DEF vars
<1>2. CASE Users
  <2>1. CASE Create
    <3>1. PICK pull \in PullSecrets :
            Store(Default([NoCluster EXCEPT !.uid = uids + 1, !.pull = pull]))
      BY <2>1 DEF Create
    <3>. DEFINE d == [NoCluster EXCEPT !.uid = uids + 1, !.pull = pull]
    <3>2. uids + 1 \in Nat /\ uids + 1 # 0 /\ pull \in BOOLEAN
      BY <1>0, SettingsAssumption DEF TypeOK
    <3>3. d \in Clusters /\ d.uid = uids + 1 /\ ~d.fin
      BY <3>2, NewCluster
    <3>. HIDE DEF d
    <3>4. Default(d) \in Clusters /\ Default(d).uid # 0 /\ ~Default(d).fin
      BY <3>2, <3>3, DefaultEffect
    <3>5. Store(Default(d)) /\ ~Exists(cluster) /\ UNCHANGED <<cached, local, pc, crb>>
      BY <2>1, <3>1 DEF Create, d
    <3>. QED
      BY <3>4, <3>5, KnowledgeOfWrite
  <2>2. CASE Edit
    <3>0. PICK susp \in BOOLEAN : Store(Default([cluster EXCEPT !.susp = susp]))
      BY <2>2 DEF Edit
    <3>. DEFINE d == [cluster EXCEPT !.susp = susp]
    <3>1. d \in Clusters /\ d.uid = cluster.uid /\ d.fin = cluster.fin
      BY <1>0, WithEdit DEF TypeOK
    <3>2. Store(Default(d)) /\ Exists(cluster) /\ UNCHANGED <<cached, local, pc, crb>>
      BY <2>2, <3>0 DEF Edit
    <3>. HIDE DEF d
    <3>. QED
      BY <3>1, <3>2, DefaultEffect, KnowledgeOfWrite DEF Exists
  <2>3. CASE UpdateStatus
    BY <1>0, <2>3, KnowledgeOfWrite DEF UpdateStatus, TypeOK, Exists
  <2>4. CASE Delete
    <3>1. PICK foreground \in Foreground :
            Store([cluster EXCEPT !.del = TRUE, !.other = foreground])
      BY <2>4 DEF Delete
    <3>. DEFINE d == [cluster EXCEPT !.del = TRUE, !.other = foreground]
    <3>2. d \in Clusters /\ d.uid = cluster.uid /\ d.fin = cluster.fin
      BY <1>0, WithDeletion, SettingsAssumption DEF TypeOK
    <3>3. Store(d) /\ Exists(cluster) /\ UNCHANGED <<cached, local, pc, crb>>
      BY <2>4, <3>1 DEF Delete
    <3>. HIDE DEF d
    <3>. QED
      BY <3>2, <3>3, KnowledgeOfWrite DEF Exists
  <2>. QED
    BY <1>2, <2>1, <2>2, <2>3, <2>4 DEF Users
<1>3. CASE Kubernetes
  <2>1. CASE ReleaseForeground
    <3>. DEFINE d == [cluster EXCEPT !.other = FALSE]
    <3>1. d \in Clusters /\ d.uid = cluster.uid /\ d.fin = cluster.fin
      BY <1>0, WithoutForeground DEF TypeOK
    <3>2. Store(Default(d)) /\ Exists(cluster) /\ UNCHANGED <<cached, local, pc, crb>>
      BY <2>1 DEF ReleaseForeground
    <3>. HIDE DEF d
    <3>. QED
      BY <3>1, <3>2, DefaultEffect, KnowledgeOfWrite DEF Exists
  <2>2. CASE Collect
    BY <2>2, KnowledgeStays DEF Collect, Erase
  <2>3. CASE BindingGone
    BY <1>0, <2>3, KnowledgeStays DEF BindingGone, TypeOK
  <2>4. CASE AddPullSecret \/ CreateHeadPod \/ DeleteHeadPod \/ HeadPodGone
               \/ MoveKubeRay \/ EditDSCI
    BY <2>4, KnowledgeStays
       DEF AddPullSecret, CreateHeadPod, DeleteHeadPod, HeadPodGone, MoveKubeRay, EditDSCI
  <2>. QED
    BY <1>3, <2>1, <2>2, <2>3, <2>4 DEF Kubernetes
<1>4. CASE Manager
  BY <1>4, KnowledgeOfDelivery, KnowledgeStays
     DEF Manager, DeliverObject, Resync
<1>5. CASE Faults
  <2>1. CASE DeleteObject
    BY <2>1, KnowledgeStays DEF DeleteObject, Erase
  <2>2. CASE DeleteBinding
    BY <1>0, <2>2, KnowledgeStays DEF DeleteBinding, TypeOK
  <2>3. CASE Restart
    BY <2>3, KnowledgeOfRestart
  <2>4. CASE Fail
    BY <2>4, RequeueType, KnowledgeGoesOn DEF Fail
  <2>5. CASE FailPolicy
    <3>1. pc \in Kinds /\ pc \in ApplySteps
      BY <2>5 DEF FailPolicy, Kinds, ApplySteps
    <3>2. After(pc, local) \in ApplySteps \cup {"idle"}
      BY <3>1, StepOrder
    <3>3. After(pc, local) \in Steps
      BY <3>2 DEF Steps
    <3>4. UNCHANGED <<cluster, watch, cached>> /\ Goto(After(pc, local))
      BY <2>5 DEF FailPolicy
    <3>. QED
      BY <1>0, <3>1, <3>2, <3>3, <3>4, GotoType, KnowledgeGoesOn
  <2>. QED
    BY <1>5, <2>1, <2>2, <2>3, <2>4, <2>5 DEF Faults
<1>6. CASE Request
  <2>1. CASE Start \/ AddFinalizer \/ DeleteCRB \/ RemoveFinalizer
    BY <2>1, KnowledgeOfStart, KnowledgeOfAdd, KnowledgeOfUnbind,
       KnowledgeOfRemove
  <2>2. CASE Conflict
    BY <2>2, RequeueType, KnowledgeGoesOn DEF Conflict
  <2>3. CASE GetCA
    BY <2>3, KnowledgeGoesOn DEF GetCA, ApplySteps, Kinds
  <2>4. ASSUME NEW k \in Kinds, Apply(k) PROVE Knowledge'
    <3>1. pc \in ApplySteps
      BY <2>4 DEF Apply, ApplySteps
    <3>2. After(k, local) \in ApplySteps \cup {"idle"}
      BY StepOrder
    <3>3. After(k, local) \in Steps
      BY <3>2 DEF Steps
    <3>4. UNCHANGED <<cluster, watch, cached>> /\ Goto(After(k, local))
      BY <2>4 DEF Apply
    <3>. QED
      BY <1>0, <3>1, <3>2, <3>3, <3>4, GotoType, KnowledgeGoesOn
  <2>5. CASE ApplyCRB
    BY <2>5, KnowledgeGoesOn DEF ApplyCRB, Goto, ApplySteps, Kinds
  <2>6. CASE GetServiceAccount
    BY <2>6, RequeueType, KnowledgeGoesOn DEF GetServiceAccount, ApplySteps
  <2>7. CASE ListHeadPods
    BY <2>7, KnowledgeGoesOn DEF ListHeadPods, Goto, ApplySteps
  <2>8. CASE DeletePod
    BY <2>8, RequeueType, KnowledgeGoesOn DEF DeletePod, Goto, ApplySteps
  <2>9. CASE ListKubeRayPods
    BY <2>9, KnowledgeGoesOn DEF ListKubeRayPods, Goto, ApplySteps, Kinds
  <2>10. CASE GetDSCI
    BY <2>10, RequeueType, KnowledgeGoesOn DEF GetDSCI, Goto, ApplySteps, Kinds
  <2>. QED
    BY <1>6, <2>1, <2>2, <2>3, <2>4, <2>5, <2>6, <2>7, <2>8, <2>9, <2>10
       DEF Request
<1>. QED
  BY <1>1, <1>2, <1>3, <1>4, <1>5, <1>6 DEF Next

\* What the informer and Reconcile know of the cluster stays true however the
\* steps of the controller, users, KubeRay and faults interleave.
THEOREM FinalizerInvariant == Spec => []FinalizerInv
<1>1. FinalizerInv /\ [Next]_vars => FinalizerInv'
  BY TypeStep, KnowledgeStep DEF FinalizerInv, Knowledge
<1>. QED
  BY <1>1, KnowledgeInit, PTL DEF Spec

\* Whatever the platform, the configuration and the history, Reconcile applies
\* objects for a live cluster only while that cluster exists and carries the
\* finalizer (raycluster_controller.go, lines 135-144).
THEOREM FinalizerGuards == Spec => []FinalizerGuardsApply
<1>1. FinalizerInv => FinalizerGuardsApply
  <2>. SUFFICES ASSUME FinalizerInv, pc \in ApplySteps, ~local.del
                PROVE  cluster.uid = local.uid /\ cluster.fin
    BY DEF FinalizerGuardsApply
  <2>1. pc # "idle"
    BY DEF ApplySteps, Kinds
  <2>2. Exists(local) /\ local.fin
    BY <2>1 DEF FinalizerInv, StepKnows
  <2>. QED
    BY <2>2 DEF FinalizerInv, CopiesGuarded, Copies
<1>. QED
  BY <1>1, FinalizerInvariant, PTL

\* Whatever the platform, the configuration and the history, the finalizer is
\* removed only after the ClusterRoleBinding, by the name that the cluster has
\* now (raycluster_controller.go, lines 146-165).
THEOREM ReleaseUnbound == Spec => ReleaseOnlyUnbound
<1>. DEFINE Safe == cluster.fin /\ ~cluster'.fin => crb[NameOf(cluster)] # "present"
<1>1. FinalizerInv /\ [Next]_vars => [Safe]_vars
  <2>. SUFFICES ASSUME FinalizerInv, Next, cluster.fin, ~cluster'.fin
                PROVE  crb[NameOf(cluster)] # "present"
    OBVIOUS
  <2>. USE DEF FinalizerInv, apiVars
  <2>0. cluster \in Clusters /\ local \in Clusters /\ Exists(cluster)
    BY DEF TypeOK, VersionsIdentify
  <2>1. CASE RemoveFinalizer
    <3>1. Exists(local) /\ local.rv = cluster.rv
      BY <2>1 DEF RemoveFinalizer, Current, StepKnows
    <3>2. cluster = local
      BY <3>1 DEF VersionsIdentify, Copies
    <3>. QED
      BY <2>1, <3>2 DEF RemoveFinalizer, StepKnows
  <2>2. ASSUME NEW c \in Clusters, Store(c), c.fin PROVE FALSE
    BY <2>2, StoreEffect
  <2>3. CASE Users
    <3>1. CASE Edit
      <4>0. PICK susp \in BOOLEAN : Store(Default([cluster EXCEPT !.susp = susp]))
        BY <3>1 DEF Edit
      <4>. DEFINE d == [cluster EXCEPT !.susp = susp]
      <4>1. d \in Clusters /\ d.fin = cluster.fin /\ Store(Default(d))
        BY <2>0, <4>0, WithEdit
      <4>. HIDE DEF d
      <4>. QED
        BY <2>2, <4>1, DefaultEffect
    <3>2. CASE UpdateStatus
      BY <2>0, <2>2, <3>2 DEF UpdateStatus
    <3>3. CASE Delete
      <4>1. PICK foreground \in Foreground :
              Store([cluster EXCEPT !.del = TRUE, !.other = foreground])
        BY <3>3 DEF Delete
      <4>. QED
        BY <2>0, <2>2, <4>1, WithDeletion, SettingsAssumption
    <3>. QED
      BY <2>0, <2>3, <3>1, <3>2, <3>3 DEF Users, Create
  <2>4. CASE ReleaseForeground
    <3>. DEFINE d == [cluster EXCEPT !.other = FALSE]
    <3>1. d \in Clusters /\ d.fin = cluster.fin /\ Store(Default(d))
      BY <2>0, <2>4, WithoutForeground DEF ReleaseForeground
    <3>. HIDE DEF d
    <3>. QED
      BY <2>2, <3>1, DefaultEffect
  <2>5. CASE AddFinalizer
    <3>. DEFINE d == [local EXCEPT !.fin = TRUE]
    <3>1. d \in Clusters /\ d.fin /\ Store(Default(d))
      BY <2>0, <2>5, WithFinalizer DEF AddFinalizer
    <3>. HIDE DEF d
    <3>. QED
      BY <2>2, <3>1, DefaultEffect
  <2>6. CASE cluster' = cluster
    BY <2>6
  <2>7. \/ Users \/ ReleaseForeground \/ AddFinalizer \/ RemoveFinalizer
        \/ cluster' = cluster
    <3>1. Kubernetes => ReleaseForeground \/ cluster' = cluster
      BY DEF Kubernetes, Collect, Erase, BindingGone, AddPullSecret,
             CreateHeadPod, DeleteHeadPod, HeadPodGone, MoveKubeRay, EditDSCI
    <3>2. Manager \/ Faults => cluster' = cluster
      BY DEF Manager, Deliver, DeliverObject, Resync, Faults, DeleteObject,
             Erase, DeleteBinding, Restart, Fail, FailPolicy
    <3>3. Request => AddFinalizer \/ RemoveFinalizer \/ cluster' = cluster
      BY DEF Request, Start, DeleteCRB, Conflict, GetCA, Apply, ApplyCRB,
             GetServiceAccount, ListHeadPods, DeletePod, ListKubeRayPods, GetDSCI
    <3>. QED
      BY <3>1, <3>2, <3>3 DEF Next
  <2>. QED
    BY <2>1, <2>3, <2>4, <2>5, <2>6, <2>7
<1>. QED
  BY <1>1, FinalizerInvariant, PTL DEF Spec, ReleaseOnlyUnbound

-----------------------------------------------------------------------------
(* No orphaned ClusterRoleBinding.                                         *)

\* How a step changes the life of the cluster, and which bindings it leaves.
Unchanged == cluster' = cluster
                /\ \A n \in Names : crb'[n] = "present" => crb[n] = "present"
Created == ~Exists(cluster) /\ cluster'.uid # 0 /\ ~cluster'.fin /\ ~cluster'.del
Rewritten == Exists(cluster) /\ cluster'.uid = cluster.uid
                /\ cluster'.fin = cluster.fin /\ cluster'.del = cluster.del
Closed == Exists(cluster) /\ cluster.fin /\ ~cluster.del
                /\ cluster'.uid = cluster.uid /\ cluster'.fin /\ cluster'.del
Dropped == Exists(cluster) /\ ~cluster.fin /\ cluster'.uid = 0
Guarded == Exists(cluster) /\ ~cluster.fin /\ ~cluster.del
                /\ cluster'.uid = cluster.uid /\ cluster'.fin /\ ~cluster'.del
Released == /\ Exists(cluster) /\ cluster.fin /\ cluster.del /\ cluster'.uid = 0
            /\ \A n \in Names : crb[n] # "present"
BindingApplied == cluster' = cluster /\ Exists(cluster) /\ cluster.fin
                /\ crb'["old"] # "present"

Written == Created \/ Rewritten \/ Closed \/ Dropped \/ Guarded \/ Released

\* Every step is one of six kinds of write to the cluster, applies the binding,
\* or leaves the cluster alone and binds nothing.
LEMMA StepKinds ==
    ASSUME ~LegacyCluster, Foreground \subseteq {FALSE}, BindingInv, [Next]_vars
    PROVE  /\ Unchanged \/ BindingApplied \/ (Written /\ crb' = crb)
           /\ Ordinary(cluster')
<1>. USE DEF apiVars, ctrlVars, objVars
<1>. DEFINE Goal == /\ Unchanged \/ BindingApplied \/ (Written /\ crb' = crb)
                    /\ Ordinary(cluster')
<1>0. /\ FinalizerInv /\ TypeOK
      /\ cluster \in Clusters /\ local \in Clusters
      /\ Ordinary(cluster) /\ Ordinary(local)
  BY DEF BindingInv, FinalizerInv, TypeOK, Copies
<1>1. ASSUME UNCHANGED <<cluster, crb>> PROVE Goal
  BY <1>0, <1>1 DEF Unchanged, Ordinary
<1>2. CASE UNCHANGED vars
  BY <1>1, <1>2 DEF vars
<1>3. CASE Users
  <2>1. CASE Create
    <3>1. PICK pull \in PullSecrets :
            Store(Default([NoCluster EXCEPT !.uid = uids + 1, !.pull = pull]))
      BY <2>1 DEF Create
    <3>. DEFINE d == [NoCluster EXCEPT !.uid = uids + 1, !.pull = pull]
    <3>2. uids + 1 \in Nat /\ uids + 1 # 0 /\ pull \in BOOLEAN
      BY <1>0, SettingsAssumption DEF TypeOK
    <3>3. d \in Clusters /\ d.uid = uids + 1 /\ ~d.fin /\ ~d.del /\ ~d.other
      BY <3>2, NewCluster
    <3>4. Store(Default(d)) /\ ~Exists(cluster) /\ crb' = crb
      BY <2>1, <3>1 DEF Create
    <3>. HIDE DEF d
    <3>. DEFINE c == Default(d)
    <3>5. c \in Clusters /\ c.uid # 0 /\ ~c.fin /\ ~c.del /\ ~c.other /\ c.ann
      BY <3>2, <3>3, DefaultEffect
    <3>6. Store(c)
      BY <3>4
    <3>. HIDE DEF c
    <3>7. cluster'.uid = c.uid /\ ~cluster'.fin /\ ~cluster'.del
            /\ ~cluster'.other /\ cluster'.ann
      BY <1>0, <3>5, <3>6, StoreEffect
    <3>. QED
      BY <3>4, <3>5, <3>7 DEF Written, Created, Ordinary, Exists
  <2>2. ASSUME NEW c \in Clusters, Store(c), Exists(cluster), crb' = crb,
               c.uid = cluster.uid, c.fin = cluster.fin, c.del = cluster.del,
               c.other = cluster.other, c.ann
        PROVE  Goal
    <3>1. cluster'.uid = cluster.uid /\ cluster'.fin = cluster.fin
            /\ cluster'.del = cluster.del /\ cluster'.other = cluster.other
            /\ cluster'.ann
      BY <1>0, <2>2, StoreEffect DEF Ordinary
    <3>. QED
      BY <1>0, <2>2, <3>1 DEF Written, Rewritten, Ordinary, Exists
  <2>3. CASE Edit
    <3>0. PICK susp \in BOOLEAN : Store(Default([cluster EXCEPT !.susp = susp]))
      BY <2>3 DEF Edit
    <3>. DEFINE d == [cluster EXCEPT !.susp = susp]
    <3>1. /\ d \in Clusters /\ d.uid = cluster.uid /\ d.fin = cluster.fin
          /\ d.del = cluster.del /\ d.other = cluster.other
      BY <1>0, WithEdit
    <3>2. Store(Default(d)) /\ Exists(cluster) /\ crb' = crb
      BY <2>3, <3>0 DEF Edit
    <3>. HIDE DEF d
    <3>. DEFINE c == Default(d)
    <3>3. /\ c \in Clusters /\ c.uid = cluster.uid /\ c.fin = cluster.fin
          /\ c.del = cluster.del /\ c.other = cluster.other /\ c.ann /\ Store(c)
      BY <3>1, <3>2, DefaultEffect
    <3>. HIDE DEF c
    <3>. QED
      BY <2>2, <3>2, <3>3
  <2>4. CASE UpdateStatus
    BY <1>0, <2>2, <2>4 DEF UpdateStatus, Ordinary
  <2>5. CASE Delete
    <3>1. PICK foreground \in Foreground :
            Store([cluster EXCEPT !.del = TRUE, !.other = foreground])
      BY <2>5 DEF Delete
    <3>. DEFINE d == [cluster EXCEPT !.del = TRUE, !.other = foreground]
    <3>2. foreground = FALSE
      OBVIOUS
    <3>3. /\ d \in Clusters /\ d.uid = cluster.uid /\ d.fin = cluster.fin
          /\ d.del /\ ~d.other /\ d.ann = cluster.ann
      BY <1>0, <3>2, WithDeletion
    <3>4. Store(d) /\ Exists(cluster) /\ ~cluster.del /\ crb' = crb
      BY <2>5, <3>1 DEF Delete
    <3>. HIDE DEF d
    <3>5. CASE cluster.fin
      <4>1. cluster'.uid = cluster.uid /\ cluster'.fin /\ cluster'.del
              /\ ~cluster'.other /\ cluster'.ann
        BY <1>0, <3>3, <3>4, <3>5, StoreEffect DEF Ordinary
      <4>. QED
        BY <3>4, <3>5, <4>1 DEF Written, Closed, Ordinary, Exists
    <3>6. CASE ~cluster.fin
      <4>1. cluster'.uid = 0
        BY <3>3, <3>4, <3>6 DEF Store, Settle, NoCluster, Clusters
      <4>. QED
        BY <3>4, <3>6, <4>1 DEF Written, Dropped, Ordinary, Exists
    <3>. QED
      BY <3>5, <3>6
  <2>. QED
    BY <1>3, <2>1, <2>3, <2>4, <2>5 DEF Users
<1>4. CASE Kubernetes
  <2>1. ~ReleaseForeground
    BY <1>0 DEF ReleaseForeground, Ordinary
  <2>2. CASE BindingGone
    BY <1>0, <2>2 DEF BindingGone, Unchanged, TypeOK
  <2>. QED
    BY <1>1, <1>4, <2>1, <2>2 DEF Kubernetes, Collect, Erase, AddPullSecret,
       CreateHeadPod, DeleteHeadPod, HeadPodGone, MoveKubeRay, EditDSCI
<1>5. CASE Manager
  BY <1>1, <1>5 DEF Manager, Deliver, DeliverObject, Resync
<1>6. CASE Faults
  <2>1. CASE DeleteBinding
    BY <1>0, <2>1 DEF DeleteBinding, Unchanged, TypeOK
  <2>. QED
    BY <1>1, <1>6, <2>1 DEF Faults, DeleteObject, Erase, Restart, Fail, FailPolicy
<1>7. CASE Request
  <2>1. CASE AddFinalizer
    <3>1. Exists(local) /\ Exists(cluster) /\ local.rv = cluster.rv
            /\ ~local.fin /\ ~local.del
      BY <1>0, <2>1 DEF AddFinalizer, Current, FinalizerInv, StepKnows
    <3>2. cluster = local
      BY <1>0, <3>1 DEF FinalizerInv, VersionsIdentify, Copies
    <3>. DEFINE d == [local EXCEPT !.fin = TRUE]
    <3>3. /\ d \in Clusters /\ d.uid = local.uid /\ d.fin = TRUE
          /\ d.del = local.del /\ d.other = local.other
      BY <1>0, WithFinalizer
    <3>4. Store(Default(d)) /\ crb' = crb
      BY <2>1 DEF AddFinalizer
    <3>. HIDE DEF d
    <3>. DEFINE c == Default(d)
    <3>5. /\ c \in Clusters /\ c.uid = cluster.uid /\ c.fin = TRUE /\ ~c.del
          /\ ~c.other /\ c.ann /\ Store(c)
      BY <1>0, <3>1, <3>2, <3>3, <3>4, DefaultEffect DEF Ordinary
    <3>. HIDE DEF c
    <3>6. cluster'.uid = cluster.uid /\ cluster'.fin /\ ~cluster'.del
            /\ ~cluster'.other /\ cluster'.ann
      BY <1>0, <3>5, StoreEffect
    <3>. QED
      BY <3>1, <3>2, <3>4, <3>6 DEF Written, Guarded, Ordinary, Exists
  <2>2. CASE DeleteCRB
    BY <1>0, <2>2 DEF DeleteCRB, Unchanged, TypeOK
  <2>3. CASE RemoveFinalizer
    <3>1. Exists(local) /\ Exists(cluster) /\ local.rv = cluster.rv
            /\ local.fin /\ local.del /\ crb[NameOf(local)] # "present"
      BY <1>0, <2>3 DEF RemoveFinalizer, Current, FinalizerInv, StepKnows
    <3>2. cluster = local
      BY <1>0, <3>1 DEF FinalizerInv, VersionsIdentify, Copies
    <3>3. \A n \in Names : crb[n] # "present"
      BY <1>0, <3>1 DEF BindingInv, Ordinary, NameOf, Names
    <3>. DEFINE d == [local EXCEPT !.fin = FALSE]
    <3>4. /\ d \in Clusters /\ d.uid = local.uid /\ d.fin = FALSE
          /\ d.del = local.del /\ d.other = local.other
      BY <1>0, WithFinalizer
    <3>5. Store(Default(d)) /\ crb' = crb
      BY <2>3 DEF RemoveFinalizer
    <3>. HIDE DEF d
    <3>. DEFINE c == Default(d)
    <3>6. c \in Clusters /\ ~c.fin /\ c.del /\ ~c.other /\ Store(c)
      BY <1>0, <3>1, <3>4, <3>5, DefaultEffect DEF Ordinary
    <3>. HIDE DEF c
    <3>7. cluster'.uid = 0
      BY <3>6 DEF Store, Settle, NoCluster, Clusters
    <3>. QED
      BY <3>1, <3>2, <3>3, <3>5, <3>7 DEF Written, Released, Ordinary, Exists
  <2>4. CASE ApplyCRB
    <3>1. pc \in ApplySteps /\ pc # "idle"
      BY <2>4 DEF ApplyCRB, ApplySteps
    <3>2. Exists(local) /\ local.fin /\ ~local.del /\ local.ann
      BY <1>0, <3>1 DEF FinalizerInv, StepKnows, Ordinary
    <3>3. Exists(cluster) /\ cluster.fin
      BY <1>0, <3>2 DEF FinalizerInv, CopiesGuarded, Copies, Exists
    <3>4. cluster' = cluster /\ crb'["old"] # "present"
      BY <1>0, <2>4, <3>2 DEF ApplyCRB, BindingInv, NameOf, TypeOK, Names
    <3>. QED
      BY <1>0, <3>3, <3>4 DEF BindingApplied, Ordinary
  <2>. QED
    BY <1>1, <1>7, <2>1, <2>2, <2>3, <2>4 DEF Request, Start, Conflict, GetCA,
       Apply, GetServiceAccount, ListHeadPods, DeletePod, ListKubeRayPods, GetDSCI
<1>. QED
  BY <1>2, <1>3, <1>4, <1>5, <1>6, <1>7 DEF Next

\* Copies are made of the cluster and of other copies.
LEMMA NewCopies ==
    [Next]_vars => Copies' \subseteq Copies \cup {cluster, cluster', NoCluster}
<1>. SUFFICES ASSUME [Next]_vars
              PROVE  Copies' \subseteq Copies \cup {cluster, cluster', NoCluster}
  OBVIOUS
<1>. USE DEF apiVars, ctrlVars, Copies
<1>1. \A c : Store(c) => watch' = watch \cup {cluster'}
  BY DEF Store
<1>2. \A step : Goto(step) => local' \in {local, NoCluster}
  BY DEF Goto
<1>3. Requeue => local' = NoCluster
  BY DEF Requeue
<1>4. CASE UNCHANGED vars
  BY <1>4 DEF vars
<1>5. CASE Users
  BY <1>1, <1>5 DEF Users, Create, Edit, UpdateStatus, Delete
<1>6. CASE Kubernetes
  BY <1>1, <1>6 DEF Kubernetes, ReleaseForeground, Collect, Erase, BindingGone,
     AddPullSecret, CreateHeadPod, DeleteHeadPod, HeadPodGone, MoveKubeRay, EditDSCI
<1>7. CASE Manager
  BY <1>7 DEF Manager, Deliver, DeliverObject, Resync
<1>8. CASE Faults
  BY <1>2, <1>3, <1>8 DEF Faults, DeleteObject, Erase, DeleteBinding, Restart,
     Fail, FailPolicy
<1>9. CASE Request
  <2>1. CASE Start
    BY <2>1 DEF Start
  <2>2. CASE AddFinalizer \/ RemoveFinalizer
    BY <1>1, <1>2, <2>2 DEF AddFinalizer, RemoveFinalizer
  <2>3. CASE DeleteCRB \/ Conflict \/ GetCA \/ ApplyCRB \/ \E k \in Kinds : Apply(k)
    BY <1>2, <1>3, <2>3 DEF DeleteCRB, Conflict, GetCA, ApplyCRB, Apply
  <2>4. CASE GetServiceAccount \/ ListHeadPods \/ DeletePod \/ ListKubeRayPods
               \/ GetDSCI
    BY <1>2, <1>3, <2>4 DEF GetServiceAccount, ListHeadPods, DeletePod,
       ListKubeRayPods, GetDSCI
  <2>. QED
    BY <1>9, <2>1, <2>2, <2>3, <2>4 DEF Request
<1>. QED
  BY <1>4, <1>5, <1>6, <1>7, <1>8, <1>9 DEF Next

\* There is no binding at the start.
LEMMA BindingInit ==
    ASSUME ~LegacyCluster, Init
    PROVE  BindingInv
<1>1. cluster = NoCluster /\ Copies = {NoCluster}
  BY DEF Init, Copies
<1>2. crb["old"] = "absent" /\ crb["new"] = "absent"
  BY DEF Init, Names
<1>. QED
  BY <1>1, <1>2, KnowledgeInit, NoClusterType DEF BindingInv, Ordinary, Exists

\* Every step keeps bindings guarded by the finalizer.
LEMMA BindingStep ==
    ASSUME ~LegacyCluster, Foreground \subseteq {FALSE}, BindingInv, [Next]_vars
    PROVE  BindingInv'
<1>1. FinalizerInv'
  BY TypeStep, KnowledgeStep DEF BindingInv, FinalizerInv, Knowledge
<1>2. /\ Unchanged \/ BindingApplied \/ (Written /\ crb' = crb)
      /\ Ordinary(cluster')
  BY StepKinds
<1>3. \A e \in (Copies \cup {cluster})' : Ordinary(e)
  BY <1>2, NewCopies, NoClusterType DEF BindingInv, Ordinary, Exists
<1>4. crb'["old"] # "present"
        /\ (crb'["new"] = "present" => cluster'.uid # 0 /\ cluster'.fin)
  BY <1>2 DEF BindingInv, Unchanged, BindingApplied, Written, Created, Rewritten,
     Closed, Dropped, Guarded, Released, Names, Exists
<1>. QED
  BY <1>1, <1>3, <1>4 DEF BindingInv, Ordinary, Exists

\* The inductive invariant of the ordinary operator: it meets neither clusters
\* of an older release nor foreground deletion, so every copy of the cluster has
\* its new name, and shows a deletion only together with the finalizer
\* (raycluster_controller.go, lines 128-165 and 229).
THEOREM BindingInvariant ==
    ASSUME ~LegacyCluster, Foreground \subseteq {FALSE}
    PROVE  Spec => []BindingInv
<1>1. Init => BindingInv
  BY BindingInit
<1>2. BindingInv /\ [Next]_vars => BindingInv'
  BY BindingStep
<1>. QED
  BY <1>1, <1>2, PTL DEF Spec

\* On every platform and in every configuration, as long as users delete in the
\* background and no cluster comes from a release without the version
\* annotation, no ClusterRoleBinding outlives its cluster, whatever staleness,
\* conflicts, failures and restarts occur (raycluster_controller.go, lines
\* 128-165 and 229).
THEOREM NoOrphan ==
    ASSUME ~LegacyCluster, Foreground \subseteq {FALSE}
    PROVE  Spec => []NoOrphanCRB
<1>1. BindingInv => NoOrphanCRB
  BY DEF BindingInv, NoOrphanCRB, Names
<1>. QED
  BY <1>1, BindingInvariant, PTL

-----------------------------------------------------------------------------
(* The controller implements the finalizer protocol.                       *)

\* The refinement mapping, case by case ...
LEMMA LifeValue ==
    /\ ~Exists(cluster) => Life = "absent"
    /\ Exists(cluster) /\ ~cluster.fin => Life = "bare"
    /\ Exists(cluster) /\ cluster.fin /\ ~cluster.del => Life = "guarded"
    /\ Exists(cluster) /\ cluster.fin /\ cluster.del => Life = "closing"
  BY DEF Life

\* ... and after a step.
LEMMA LifeValueNext ==
    /\ cluster'.uid = 0 => Life' = "absent"
    /\ cluster'.uid # 0 /\ ~cluster'.fin => Life' = "bare"
    /\ cluster'.uid # 0 /\ cluster'.fin /\ ~cluster'.del => Life' = "guarded"
    /\ cluster'.uid # 0 /\ cluster'.fin /\ cluster'.del => Life' = "closing"
  BY DEF Life, Exists

\* Every step is one of the protocol, or stutters.
LEMMA ProtocolStep ==
    ASSUME ~LegacyCluster, Foreground \subseteq {FALSE}, BindingInv, [Next]_vars
    PROVE  [Protocol!Next]_(Protocol!vars)
<1>. USE DEF Protocol!Next, Protocol!vars, Exists
<1>1. Unchanged \/ BindingApplied \/ (Written /\ crb' = crb)
  BY StepKinds
<1>2. Bound => Exists(cluster) /\ cluster.fin
  BY DEF BindingInv, Bound, Names
<1>3. CASE Unchanged
  <2>1. Life' = Life
    BY <1>3 DEF Unchanged, Life
  <2>2. Bound' => Bound
    BY <1>3 DEF Unchanged, Bound
  <2>3. CASE Bound' = Bound
    BY <2>1, <2>3
  <2>4. CASE Bound /\ ~Bound'
    BY <2>1, <2>4 DEF Protocol!Unbind, Bound
  <2>. QED
    BY <2>2, <2>3, <2>4 DEF Bound
<1>4. CASE BindingApplied
  <2>1. Life' = Life /\ Life \in {"guarded", "closing"}
    BY <1>4, LifeValue DEF BindingApplied, Life
  <2>2. CASE Bound'
    BY <2>1, <2>2 DEF Protocol!Bind, Bound
  <2>3. CASE ~Bound' /\ ~Bound
    BY <2>1, <2>3 DEF Bound
  <2>4. CASE ~Bound' /\ Bound
    BY <2>1, <2>4 DEF Protocol!Unbind, Bound
  <2>. QED
    BY <2>2, <2>3, <2>4
<1>5. CASE Written /\ crb' = crb
  <2>0. Bound' = Bound
    BY <1>5 DEF Bound
  <2>1. CASE Created
    BY <1>2, <2>0, <2>1, LifeValue, LifeValueNext DEF Created, Protocol!Create
  <2>2. CASE Rewritten
    BY <2>0, <2>2, LifeValue, LifeValueNext DEF Rewritten
  <2>3. CASE Closed
    BY <2>0, <2>3, LifeValue, LifeValueNext DEF Closed, Protocol!Close
  <2>4. CASE Dropped
    BY <1>2, <2>0, <2>4, LifeValue, LifeValueNext DEF Dropped, Protocol!Drop
  <2>5. CASE Guarded
    BY <2>0, <2>5, LifeValue, LifeValueNext DEF Guarded, Protocol!Guard
  <2>6. CASE Released
    <3>1. ~Bound
      BY <2>6 DEF Released, Bound
    <3>. QED
      BY <2>0, <2>6, <3>1, LifeValue, LifeValueNext DEF Released, Protocol!Release
  <2>. QED
    BY <1>5, <2>1, <2>2, <2>3, <2>4, <2>5, <2>6 DEF Written
<1>. QED
  BY <1>1, <1>3, <1>4, <1>5

\* Under the same conditions, every step of the controller and of its
\* environment is a step of the finalizer protocol or changes nothing in it.
THEOREM Implements ==
    ASSUME ~LegacyCluster, Foreground \subseteq {FALSE}
    PROVE  Spec => ImplementsProtocol
<1>1. Init => BindingInv
  BY BindingInit
<1>2. BindingInv /\ [Next]_vars => BindingInv'
  BY BindingStep
<1>3. Init => Protocol!Init
  <2>. SUFFICES ASSUME Init PROVE Protocol!Init
    OBVIOUS
  <2>1. cluster = NoCluster /\ \A n \in Names : crb[n] = "absent"
    BY DEF Init
  <2>2. Life = "absent" /\ Bound = FALSE
    BY <2>1, LifeValue, NoClusterType DEF Bound, Exists
  <2>. QED
    BY <2>2 DEF Protocol!Init
<1>4. BindingInv /\ [Next]_vars => [Protocol!Next]_(Protocol!vars)
  BY ProtocolStep
<1>. QED
  BY <1>1, <1>2, <1>3, <1>4, PTL DEF Spec, ImplementsProtocol, Protocol!Spec
=============================================================================
