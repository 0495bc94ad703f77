-------------------------- MODULE ConvergenceProofs --------------------------
(***************************************************************************)
(* Proofs that the RayCluster controller rests only when its work is done, *)
(* for every platform, configuration, history and bound: nothing that      *)
(* happens between two requests of a reconciliation is lost.               *)
(***************************************************************************)
EXTENDS RayClusterControllerProofs

USE DEF OAuthKinds, IngressKinds, Policies

-----------------------------------------------------------------------------
(* What the informer knows of the cluster.                                 *)

\* The steps by what they do to the cluster and to what the informer has of it:
\* nothing, a write, a delivery, or a list of the clusters.
LEMMA InformerSteps ==
    [Next]_vars =>
        \/ UNCHANGED <<cluster, watch, cached>>
        \/ watch' = watch \cup {cluster'} /\ cached' = cached
        \/ Deliver
        \/ Restart
<1>. SUFFICES ASSUME [Next]_vars
              PROVE  \/ UNCHANGED <<cluster, watch, cached>>
                     \/ watch' = watch \cup {cluster'} /\ cached' = cached
                     \/ Deliver
                     \/ Restart
  OBVIOUS
<1>. USE DEF apiVars
<1>0. ASSUME NEW c, Store(c) PROVE watch' = watch \cup {cluster'}
  BY <1>0 DEF Store
<1>1. CASE UNCHANGED vars
  BY <1>1 DEF vars
<1>2. CASE Users
  BY <1>2, <1>0 DEF Users, Create, Edit, UpdateStatus, Delete
<1>3. CASE Kubernetes
  BY <1>3, <1>0 DEF Kubernetes, ReleaseForeground, Collect, Erase, BindingGone,
      AddPullSecret, CreateHeadPod, DeleteHeadPod, HeadPodGone, MoveKubeRay, EditDSCI
<1>4. CASE Manager
  BY <1>4 DEF Manager, DeliverObject, Resync
<1>5. CASE Faults
  BY <1>5 DEF Faults, DeleteObject, Erase, DeleteBinding, Fail, FailPolicy
<1>6. CASE Request
  BY <1>6, <1>0 DEF Request, Start, AddFinalizer, DeleteCRB, RemoveFinalizer,
      Conflict, GetCA, Apply, ApplyCRB, GetServiceAccount, ListHeadPods,
      DeletePod, ListKubeRayPods, GetDSCI
<1>. QED
  BY <1>1, <1>2, <1>3, <1>4, <1>5, <1>6 DEF Next

\* The informer's knowledge stays up to date: the newest version it has yet to
\* receive is the cluster.
LEMMA InformerStep ==
    FinalizerInv /\ InformerCurrent /\ [Next]_vars => InformerCurrent'
<1>. SUFFICES ASSUME FinalizerInv, InformerCurrent, [Next]_vars
              PROVE  InformerCurrent'
  OBVIOUS
<1>1. CASE UNCHANGED <<cluster, watch, cached>>
  BY <1>1 DEF InformerCurrent
<1>2. CASE watch' = watch \cup {cluster'} /\ cached' = cached
  BY <1>2 DEF InformerCurrent
<1>3. CASE Deliver
  <2>1. PICK e \in watch : /\ \A f \in watch : e.rv <= f.rv
                           /\ cached' = e
                           /\ watch' = watch \ {e}
    BY <1>3 DEF Deliver
  <2>2. cluster \in watch /\ cluster' = cluster
    BY <1>3, <2>1 DEF InformerCurrent, Deliver
  <2>3. \A f \in watch : f.rv \in Nat
    BY DEF FinalizerInv, TypeOK, Clusters
  <2>4. CASE e = cluster
    <3>1. ASSUME NEW f \in watch PROVE f = e
      BY <2>1, <2>3, <2>4 DEF FinalizerInv, VersionsInOrder
    <3>. QED
      BY <2>1, <2>2, <2>4, <3>1 DEF InformerCurrent
  <2>5. CASE e # cluster
    BY <2>1, <2>2, <2>5 DEF InformerCurrent
  <2>. QED
    BY <2>4, <2>5
<1>4. CASE Restart
  BY <1>4 DEF Restart, InformerCurrent
<1>. QED
  BY <1>1, <1>2, <1>3, <1>4, InformerSteps

-----------------------------------------------------------------------------
(* Which branch of Reconcile is under way.                                 *)

\* The requests that follow the CA's are those of the cluster's branch, or of
\* neither (raycluster_controller.go, lines 196-267).
LEMMA BranchOfStep ==
    ASSUME NEW c
    PROVE  /\ AfterCA(c) \in OAuthSteps => OAuthBranch(c)
           /\ AfterCA(c) \in IngressKinds => IngressBranch(c)
           /\ AfterFinalizer(c) \in OAuthSteps => OAuthBranch(c)
           /\ AfterFinalizer(c) \in IngressKinds => IngressBranch(c)
<1>1. /\ AfterCA(c) \in OAuthSteps => OAuthBranch(c)
      /\ AfterCA(c) \in IngressKinds => IngressBranch(c)
  BY DEF AfterCA, OAuthSteps
<1>2. AfterFinalizer(c) = "caGet" \/ AfterFinalizer(c) = AfterCA(c)
  BY DEF AfterFinalizer
<1>. QED
  BY <1>1, <1>2 DEF OAuthSteps

\* A branch is left only for its own requests or for those that follow both.
LEMMA BranchAfter ==
    ASSUME NEW c, NEW k \in Kinds,
           k \in OAuthKinds => OAuthBranch(c),
           k \in IngressKinds => IngressBranch(c)
    PROVE  /\ After(k, c) \in OAuthSteps => OAuthBranch(c)
           /\ After(k, c) \in IngressKinds => IngressBranch(c)
<1>1. CASE k = "caSecret"
  <2>1. After(k, c) = AfterCA(c)
    BY <1>1 DEF After
  <2>. QED
    BY <2>1, BranchOfStep
<1>2. CASE k \in OAuthKinds
  <2>1. After(k, c) \in {"oauthSecret", "service", "serviceAccount", "crb", "saGet",
                         "kubeRayPods"}
    BY <1>2 DEF After, AfterServiceAccount
  <2>. QED
    BY <1>2, <2>1 DEF OAuthSteps
<1>3. CASE k \in IngressKinds
  <2>1. After(k, c) \in {"clientIngress", "kubeRayPods"}
    BY <1>3 DEF After
  <2>. QED
    BY <1>3, <2>1 DEF OAuthSteps
<1>4. CASE k \in Policies
  <2>1. After(k, c) \in {"workersPolicy", "idle"}
    BY <1>4 DEF After
  <2>. QED
    BY <2>1 DEF OAuthSteps
<1>. QED
  BY <1>1, <1>2, <1>3, <1>4 DEF Kinds

\* Steps outside the branches, those that end the reconciliation among them.
LEMMA BranchLeft ==
    ASSUME pc' \notin OAuthSteps \cup IngressKinds
    PROVE  BranchKnown'
  BY DEF BranchKnown

\* A step within a branch.
LEMMA BranchGoesOn ==
    ASSUME BranchKnown, pc \in OAuthSteps, pc' \in OAuthSteps, local' = local
    PROVE  BranchKnown'
<1>1. OAuthBranch(local)
  BY DEF BranchKnown
<1>2. pc' \notin IngressKinds
  BY DEF OAuthSteps
<1>. QED
  BY <1>1, <1>2 DEF BranchKnown, OAuthBranch

\* Going on with a step that the branch allows.
LEMMA BranchGoto ==
    ASSUME NEW step, Goto(step),
           step \in OAuthSteps => OAuthBranch(local),
           step \in IngressKinds => IngressBranch(local)
    PROVE  BranchKnown'
<1>1. pc' = step /\ (step # "idle" => local' = local)
  BY DEF Goto
<1>. QED
  BY <1>1 DEF BranchKnown, OAuthSteps, OAuthBranch, IngressBranch

\* Reconcile stays in the branch of its copy.
LEMMA BranchStep == FinalizerInv /\ BranchKnown /\ [Next]_vars => BranchKnown'
<1>. SUFFICES ASSUME FinalizerInv, BranchKnown, [Next]_vars PROVE BranchKnown'
  OBVIOUS
<1>. USE DEF ctrlVars
<1>0. ASSUME UNCHANGED <<pc, local>> PROVE BranchKnown'
  BY <1>0 DEF BranchKnown, OAuthBranch, IngressBranch
<1>1. CASE UNCHANGED vars
  BY <1>0, <1>1 DEF vars
<1>2. CASE Users
  BY <1>0, <1>2 DEF Users, Create, Edit, UpdateStatus, Delete
<1>3. CASE Kubernetes
  BY <1>0, <1>3 DEF Kubernetes, ReleaseForeground, Collect, Erase, BindingGone,
      AddPullSecret, CreateHeadPod, DeleteHeadPod, HeadPodGone, MoveKubeRay, EditDSCI
<1>4. CASE Manager
  BY <1>0, <1>4 DEF Manager, Deliver, DeliverObject, Resync
<1>5. CASE Faults
  <2>1. CASE DeleteObject \/ DeleteBinding
    BY <1>0, <2>1 DEF DeleteObject, Erase, DeleteBinding
  <2>2. CASE Restart \/ Fail
    <3>1. pc' = "idle"
      BY <2>2 DEF Restart, Fail, Requeue
    <3>. QED
      BY <3>1, BranchLeft DEF OAuthSteps
  <2>3. CASE FailPolicy
    <3>1. pc \in Policies /\ Goto(After(pc, local))
      BY <2>3 DEF FailPolicy
    <3>2. pc \in Kinds /\ pc \notin OAuthKinds \cup IngressKinds
      BY <3>1 DEF Kinds
    <3>. QED
      BY <3>1, <3>2, BranchAfter, BranchGoto
  <2>. QED
    BY <1>5, <2>1, <2>2, <2>3 DEF Faults
<1>6. CASE Request
  <2>1. CASE Start
    <3>1. CASE Exists(cached)
      <4>1. local' = cached /\ pc' = FirstStep(cached)
        BY <2>1, <3>1 DEF Start
      <4>2. FirstStep(cached) \in {"addFinalizer", "deleteCRB", AfterFinalizer(cached)}
        BY DEF FirstStep
      <4>. QED
        BY <4>1, <4>2, BranchOfStep
        DEF BranchKnown, OAuthSteps, OAuthBranch, IngressBranch
    <3>2. CASE ~Exists(cached)
      BY <1>0, <2>1, <3>2 DEF Start
    <3>. QED
      BY <3>1, <3>2
  <2>2. CASE AddFinalizer
    <3>1. pc' = AfterFinalizer(local')
      BY <2>2 DEF AddFinalizer
    <3>. QED
      BY <3>1, BranchOfStep DEF BranchKnown, OAuthBranch, IngressBranch
  <2>3. CASE DeleteCRB \/ RemoveFinalizer \/ Conflict
    <3>1. pc' \in {"removeFinalizer", "idle"}
      BY <2>3 DEF DeleteCRB, RemoveFinalizer, Conflict, Goto, Requeue
    <3>. QED
      BY <3>1, BranchLeft DEF OAuthSteps
  <2>4. CASE GetCA \/ ListKubeRayPods \/ GetDSCI
    <3>1. pc' \in {"caSecret", "dsci", "headPolicy", "idle"}
      BY <2>4 DEF GetCA, ListKubeRayPods, GetDSCI, Requeue
    <3>. QED
      BY <3>1, BranchLeft DEF OAuthSteps
  <2>5. ASSUME NEW k \in Kinds, Apply(k) PROVE BranchKnown'
    <3>1. pc = k /\ Goto(After(k, local))
      BY <2>5 DEF Apply
    <3>2. /\ k \in OAuthKinds => OAuthBranch(local)
          /\ k \in IngressKinds => IngressBranch(local)
      BY <3>1 DEF BranchKnown, OAuthSteps
    <3>. QED
      BY <3>1, <3>2, BranchAfter, BranchGoto
  <2>6. CASE ApplyCRB \/ GetServiceAccount \/ ListHeadPods \/ DeletePod
    <3>1. pc \in OAuthSteps
      BY <2>6 DEF ApplyCRB, GetServiceAccount, ListHeadPods, DeletePod, OAuthSteps
    <3>2. \/ pc' = "idle"
          \/ pc' \in {"podList", "podDelete", "crb", "clientRoute"} /\ local' = local
      BY <2>6 DEF ApplyCRB, GetServiceAccount, ListHeadPods, DeletePod, Goto, Requeue
    <3>. QED
      BY <3>1, <3>2, BranchLeft, BranchGoesOn DEF OAuthSteps
  <2>. QED
    BY <1>6, <2>1, <2>2, <2>3, <2>4, <2>5, <2>6 DEF Request
<1>. QED
  BY <1>1, <1>2, <1>3, <1>4, <1>5, <1>6 DEF Next

-----------------------------------------------------------------------------
(* What has been applied by the time of a step.                            *)

\* The values of Earlier, one by one.
LEMMA EarlierValues ==
    /\ Earlier("caGet") = {}
    /\ Earlier("caSecret") = {}
    /\ Earlier("route") = {"caSecret"}
    /\ Earlier("ingress") = {"caSecret"}
    /\ Earlier("oauthSecret") = {"caSecret", "route"}
    /\ Earlier("service") = {"caSecret", "route", "oauthSecret"}
    /\ Earlier("serviceAccount") = {"caSecret", "route", "oauthSecret", "service"}
    /\ \A s \in {"saGet", "podList", "podDelete", "crb", "clientRoute"} :
          Earlier(s) = {"caSecret", "route", "oauthSecret", "service", "serviceAccount"}
    /\ Earlier("clientIngress") = {"caSecret", "ingress"}
    /\ \A s \in {"kubeRayPods", "dsci", "headPolicy"} : Earlier(s) = Kinds \ Policies
    /\ Earlier("workersPolicy") = Kinds \ {"workersPolicy"}
    /\ Earlier("idle") = Kinds
  BY DEF Earlier

\* Only kinds of objects are due.
LEMMA DueKinds ==
    ASSUME NEW c
    PROVE  Due(c) \subseteq Desired(c) /\ Desired(c) \subseteq Kinds
  BY DEF Due, Desired, Kinds

\* What is due before the requests that follow the CA's is the CA's alone.
LEMMA DueAfterCA ==
    ASSUME NEW c, NEW j \in Desired(c), j \in Earlier(AfterCA(c))
    PROVE  j = "caSecret" /\ MTLSEnabled
<1>1. CASE OAuthBranch(c) \/ IngressBranch(c)
  <2>1. AfterCA(c) \in {"route", "ingress"}
    BY <1>1 DEF AfterCA
  <2>. QED
    BY <2>1, EarlierValues DEF Desired
<1>2. CASE ~OAuthBranch(c) /\ ~IngressBranch(c)
  <2>1. AfterCA(c) = "kubeRayPods"
    BY <1>2 DEF AfterCA
  <2>2. j \in {"caSecret"} \cup Policies /\ (j = "caSecret" => MTLSEnabled)
    BY <1>2 DEF Desired
  <2>. QED
    BY <2>1, <2>2, EarlierValues
<1>. QED
  BY <1>1, <1>2

\* When a reconciliation begins nothing is due yet.
LEMMA NothingDueAtFirst ==
    ASSUME NEW c
    PROVE  /\ \A j \in Desired(c) : j \notin Earlier(AfterFinalizer(c))
           /\ AfterFinalizer(c) \in PastBinding \cup {"crb"} => ~OAuthBranch(c)
           /\ AfterFinalizer(c) # "podList"
<1>1. \A j \in Desired(c) : j \notin Earlier(AfterFinalizer(c))
  <2>1. CASE MTLSEnabled
    BY <2>1, EarlierValues DEF AfterFinalizer
  <2>2. CASE ~MTLSEnabled
    BY <2>2, DueAfterCA DEF AfterFinalizer
  <2>. QED
    BY <2>1, <2>2
<1>2. AfterFinalizer(c) \in {"caGet", "route", "ingress", "kubeRayPods"}
        /\ (AfterFinalizer(c) = "kubeRayPods" => ~OAuthBranch(c))
  BY DEF AfterFinalizer, AfterCA
<1>. QED
  BY <1>1, <1>2 DEF PastBinding

\* Each apply adds its own kind to what has been applied, and no kind that is
\* due is skipped on the way to the next request (lines 168-306).
LEMMA NothingSkipped ==
    ASSUME NEW c, NEW k \in Kinds,
           k \in OAuthKinds => OAuthBranch(c),
           k \in IngressKinds => IngressBranch(c)
    PROVE  \A j \in Desired(c) : j \in Earlier(After(k, c)) => j \in Earlier(k) \/ j = k
<1>. SUFFICES ASSUME NEW j \in Desired(c), j \in Earlier(After(k, c))
              PROVE  j \in Earlier(k) \/ j = k
  OBVIOUS
<1>1. CASE k = "caSecret"
  <2>1. After(k, c) = AfterCA(c)
    BY <1>1 DEF After
  <2>. QED
    BY <1>1, <2>1, DueAfterCA
<1>2. CASE k \in {"route", "oauthSecret", "service"}
  <2>1. /\ k = "route" => After(k, c) = "oauthSecret"
        /\ k = "oauthSecret" => After(k, c) = "service"
        /\ k = "service" => After(k, c) = "serviceAccount"
    BY DEF After
  <2>. QED
    BY <1>2, <2>1, EarlierValues
<1>3. CASE k = "serviceAccount"
  <2>1. After(k, c) \in {"crb", "saGet"}
    BY <1>3 DEF After, AfterServiceAccount
  <2>. QED
    BY <1>3, <2>1, EarlierValues
<1>4. CASE k = "ingress"
  <2>1. After(k, c) = "clientIngress"
    BY <1>4 DEF After
  <2>. QED
    BY <1>4, <2>1, EarlierValues
<1>5. CASE k \in {"clientRoute", "clientIngress"}
  <2>1. After(k, c) = "kubeRayPods"
    BY <1>5 DEF After
  <2>2. k = "clientRoute" => j \in {"caSecret"} \cup OAuthKinds \cup Policies
    BY DEF Desired, OAuthBranch, IngressBranch
  <2>3. k = "clientIngress" => j \in {"caSecret"} \cup IngressKinds \cup Policies
    BY DEF Desired, OAuthBranch, IngressBranch
  <2>. QED
    BY <1>5, <2>1, <2>2, <2>3, EarlierValues
<1>6. CASE k \in Policies
  <2>1. /\ k = "headPolicy" => After(k, c) = "workersPolicy"
        /\ k = "workersPolicy" => After(k, c) = "idle"
    BY DEF After
  <2>. QED
    BY <1>6, <2>1, EarlierValues
<1>. QED
  BY <1>1, <1>2, <1>3, <1>4, <1>5, <1>6 DEF Kinds

-----------------------------------------------------------------------------
(* The work stands, step by step.                                          *)

\* DoneBy in the next state, of a step and a cluster given in this one.
DoneNext(step, c) ==
    /\ \A k \in Due(c) \cap Earlier(step) : obj'[k][NameFor(k, c)] = c.uid
    /\ step \in PastBinding /\ OAuthBranch(c) => crb'[NameOf(c)] # "absent"
    /\ step \in PastBinding \cup {"crb"} =>
          (OAuthBranch(c) /\ ~c.pull /\ saPull'[NameOf(c)] =>
              pod'.is \in {"none", "leaving", NameOf(c)})
    /\ step = "podList" => mem'.pull = saPull'[NameOf(c)]

\* DoneNext is DoneBy of the next state.
LEMMA DoneNextIsDone ==
    ASSUME cluster' = cluster
    PROVE  /\ DoneNext(pc', cluster) => DoneBy(pc, cluster)'
           /\ DoneNext("idle", cluster) => DoneBy("idle", cluster)'
<1>. USE DEF DoneNext, DoneBy, Due, Desired, Earlier, PodCanPull, OAuthBranch,
         IngressBranch, NameFor, NameOf
<1>1. DoneNext(pc', cluster) => DoneBy(pc, cluster)'
  OBVIOUS
<1>2. DoneNext("idle", cluster) => DoneBy("idle", cluster)'
  OBVIOUS
<1>. QED
  BY <1>1, <1>2

\* A reconciliation that nothing has disturbed goes on, or ends.
LEMMA WorkGoesOn ==
    ASSUME ConvergenceInv, ~Owed,
           pc \in ApplySteps \/ (pc = "idle" /\ pc' = "idle"),
           pc' \in ApplySteps \cup {"idle"},
           pc' # "idle" => local' = local,
           cluster' = cluster,
           \/ pc' = "idle" /\ pc = "idle" /\ ~(Exists(cluster) /\ ~cluster.del)
           \/ DoneNext(pc', cluster)
    PROVE  WorkStands'
<1>1. pc # "idle" => local = cluster
  BY DEF ConvergenceInv, WorkStands
<1>2. "idle" \notin ApplySteps
  BY DEF ApplySteps, Kinds
<1>3. Exists(cluster) /\ ~cluster.del => cluster.fin
  BY <1>1, <1>2 DEF ConvergenceInv, WorkStands, FinalizerInv, StepKnows
<1>. QED
  BY <1>1, <1>2, <1>3, DoneNextIsDone DEF WorkStands, Exists

\* What a step leaves alone of what has been done stands.
LEMMA DoneStays ==
    ASSUME NEW c, NEW step, NEW next, DoneBy(step, c),
           UNCHANGED <<obj, crb, saPull>>, pod'.is = pod.is,
           \A j \in Due(c) : j \in Earlier(next) =>
              j \in Earlier(step) \/ obj[j][NameFor(j, c)] = c.uid,
           next \in PastBinding /\ OAuthBranch(c) =>
              step \in PastBinding \/ crb[NameOf(c)] # "absent",
           next \in PastBinding \cup {"crb"} =>
              step \in PastBinding \cup {"crb"} \/ PodCanPull(c),
           next = "podList" => mem'.pull = saPull[NameOf(c)]
    PROVE  DoneNext(next, c)
  BY DEF DoneBy, DoneNext, PodCanPull

\* The steps of users, Kubernetes, the manager and failures: whatever disturbs
\* the work leaves something that makes the controller reconcile again.
LEMMA WorkSurvives ==
    ASSUME ConvergenceInv, UNCHANGED vars \/ Users \/ Kubernetes \/ Manager \/ Faults,
           ~Owed'
    PROVE  WorkStands'
<1>. USE DEF apiVars, ctrlVars, objVars
<1>0. TypeOK /\ ~queued' /\ ~notify' /\ watch' = {}
  BY DEF ConvergenceInv, FinalizerInv, Owed
<1>1. ASSUME UNCHANGED <<cluster, watch, notify, queued, pc, local, mem, obj, crb,
                         saPull, pod>>
      PROVE  WorkStands'
  <2>1. WorkStands
    BY <1>1 DEF ConvergenceInv, Owed
  <2>. QED
    BY <1>1, <2>1 DEF WorkStands, DoneBy, Due, Desired, Earlier, PodCanPull,
        OAuthBranch, IngressBranch, NameFor, NameOf, Exists
<1>2. CASE UNCHANGED vars
  BY <1>1, <1>2 DEF vars
<1>3. CASE Users
  BY <1>0, <1>3 DEF Users, Create, Edit, UpdateStatus, Delete, Store
<1>4. CASE Kubernetes
  <2>1. CASE ReleaseForeground
    BY <1>0, <2>1 DEF ReleaseForeground, Store
  <2>2. CASE Collect \/ BindingGone \/ AddPullSecret
    BY <1>0, <2>2 DEF Collect, Erase, BindingGone, AddPullSecret
  <2>3. CASE MoveKubeRay \/ EditDSCI
    BY <1>1, <2>3 DEF MoveKubeRay, EditDSCI
  <2>4. CASE CreateHeadPod \/ DeleteHeadPod \/ HeadPodGone
    <3>1. UNCHANGED <<cluster, watch, notify, queued, pc, local, mem, obj, crb, saPull>>
      BY <2>4 DEF CreateHeadPod, DeleteHeadPod, HeadPodGone
    <3>2. WorkStands
      BY <3>1 DEF ConvergenceInv, Owed
    <3>3. OAuthBranch(cluster) /\ ~cluster.pull /\ saPull[NameOf(cluster)] =>
            pod'.is \in {"none", "leaving", NameOf(cluster)}
      BY <1>0, <2>4 DEF CreateHeadPod, DeleteHeadPod, HeadPodGone, NoPod, PodType,
                        OAuthBranch, TypeOK
    <3>4. \A step \in ApplySteps \cup {"idle"} :
            DoneBy(step, cluster) => DoneNext(step, cluster)
      BY <3>1, <3>3 DEF DoneBy, DoneNext
    <3>. QED
      BY <3>1, <3>2, <3>4, DoneNextIsDone DEF WorkStands, Exists
  <2>. QED
    BY <1>4, <2>1, <2>2, <2>3, <2>4 DEF Kubernetes
<1>5. CASE Manager
  BY <1>0, <1>5 DEF Manager, Deliver, DeliverObject, Resync
<1>6. CASE Faults
  <2>1. CASE DeleteObject \/ DeleteBinding
    BY <1>0, <2>1 DEF DeleteObject, Erase, DeleteBinding
  <2>2. CASE Restart \/ Fail
    BY <1>0, <2>2 DEF Restart, Fail, Requeue
  <2>3. CASE FailPolicy
    <3>1. /\ pc \in Policies
          /\ Goto(After(pc, local))
          /\ UNCHANGED <<cluster, watch, notify, obj, crb, saPull, pod>>
      BY <2>3 DEF FailPolicy
    <3>2. ~Owed /\ pc' = After(pc, local) /\ (pc' # "idle" => local' = local)
      BY <1>0, <3>1 DEF Goto, Owed
    <3>3. MaxFaults # 0
      BY <2>3, BoundsAssumption DEF FailPolicy, TypeOK, ConvergenceInv, FinalizerInv
    <3>4. After(pc, local) \in {"workersPolicy", "idle"} /\ pc \in ApplySteps
      BY <3>1 DEF After, ApplySteps, Kinds
    <3>5. DoneBy(pc, cluster)
      BY <3>2, <3>4 DEF ConvergenceInv, WorkStands
    <3>6. \A j \in Due(cluster) : j \in Earlier(pc)
      <4>1. \A j \in Due(cluster) : j \in Kinds \ Policies
        BY <3>3, DueKinds DEF Due
      <4>. QED
        BY <3>1, <4>1, EarlierValues
    <3>7. DoneNext(After(pc, local), cluster)
      BY <3>1, <3>4, <3>5, <3>6, DoneStays DEF PastBinding
    <3>. QED
      BY <3>1, <3>2, <3>4, <3>7, WorkGoesOn DEF ApplySteps, Kinds
  <2>. QED
    BY <1>6, <2>1, <2>2, <2>3 DEF Faults
<1>. QED
  BY <1>2, <1>3, <1>4, <1>5, <1>6

\* Reconcile reads a cluster that nothing is about to change: it begins its
\* work on the cluster as it is.
LEMMA WorkBegins ==
    ASSUME ConvergenceInv, Start, ~Owed'
    PROVE  WorkStands'
<1>1. watch = {} /\ cached = cluster /\ cluster' = cluster
  BY DEF Owed, Start, apiVars, ConvergenceInv, InformerCurrent
<1>2. CASE Exists(cached)
  <2>1. local' = cluster /\ pc' = FirstStep(cluster)
    BY <1>1, <1>2 DEF Start
  <2>2. CASE pc' \in {"addFinalizer", "deleteCRB"}
    BY <1>1, <2>1, <2>2 DEF WorkStands, ApplySteps, Kinds
  <2>3. CASE pc' = AfterFinalizer(cluster)
    <3>1. DoneNext(pc', cluster)
      BY <2>3, NothingDueAtFirst, DueKinds DEF DoneNext
    <3>2. pc' \in ApplySteps /\ "idle" \notin ApplySteps
      BY <2>3, StepOrder DEF ApplySteps, Kinds
    <3>. QED
      BY <1>1, <2>1, <3>1, <3>2, DoneNextIsDone DEF WorkStands
  <2>. QED
    BY <2>1, <2>2, <2>3 DEF FirstStep
<1>3. CASE ~Exists(cached)
  BY <1>1, <1>3 DEF Start, WorkStands, Exists, ApplySteps, Kinds
<1>. QED
  BY <1>2, <1>3

\* An apply that changes nothing is the only one that is not followed by another
\* reconciliation.
LEMMA WorkApplied ==
    ASSUME ConvergenceInv, NEW k \in Kinds, Apply(k), ~Owed'
    PROVE  WorkStands'
<1>0. TypeOK
  BY DEF ConvergenceInv, FinalizerInv
<1>1. /\ pc = k
      /\ obj' = [obj EXCEPT ![k][NameFor(k, local)] = local.uid]
      /\ notify' = (notify \/ obj' # obj \/ caKey' # caKey \/ peers' # peers)
      /\ Goto(After(k, local))
      /\ UNCHANGED <<cluster, watch, crb, saPull, pod>>
  BY DEF Apply, apiVars
<1>2. obj' = obj /\ ~Owed
  BY <1>1 DEF Owed, Goto
<1>3. k \in ApplySteps /\ k # "idle"
  BY DEF ApplySteps, Kinds
<1>4. local = cluster /\ DoneBy(k, cluster)
  BY <1>1, <1>2, <1>3 DEF ConvergenceInv, WorkStands
<1>5. obj[k][NameFor(k, cluster)] = cluster.uid
  <2>1. NameFor(k, local) \in Names
    BY NamesOf
  <2>2. obj'[k][NameFor(k, local)] = local.uid
    BY <1>0, <1>1, <2>1 DEF TypeOK
  <2>. QED
    BY <1>2, <1>4, <2>2
<1>6. /\ k \in OAuthKinds => OAuthBranch(cluster)
      /\ k \in IngressKinds => IngressBranch(cluster)
  BY <1>1, <1>4 DEF ConvergenceInv, BranchKnown, OAuthSteps
<1>. DEFINE next == After(k, cluster)
<1>7. \A j \in Due(cluster) : j \in Earlier(next) => j \in Earlier(k) \/ j = k
  BY <1>6, NothingSkipped, DueKinds
<1>8. next \in PastBinding => k \in PastBinding \/ ~OAuthBranch(cluster)
  <2>1. CASE k = "caSecret"
    <3>1. next = AfterCA(cluster)
      BY <2>1 DEF After
    <3>. QED
      BY <3>1 DEF AfterCA, PastBinding
  <2>2. CASE k = "serviceAccount"
    <3>1. next \in {"crb", "saGet"}
      BY <2>2 DEF After, AfterServiceAccount
    <3>. QED
      BY <3>1 DEF PastBinding
  <2>3. CASE k \in IngressKinds
    BY <1>6, <2>3 DEF OAuthBranch, IngressBranch
  <2>4. CASE k \in {"route", "oauthSecret", "service"}
    <3>1. next \in {"oauthSecret", "service", "serviceAccount"}
      BY <2>4 DEF After
    <3>. QED
      BY <3>1 DEF PastBinding
  <2>. QED
    BY <2>1, <2>2, <2>3, <2>4 DEF PastBinding, Kinds
<1>9. next = "crb" => PodCanPull(cluster)
  <2>1. CASE k = "serviceAccount"
    <3>1. next = AfterServiceAccount(cluster)
      BY <2>1 DEF After
    <3>. QED
      BY <3>1 DEF AfterServiceAccount, PodCanPull
  <2>2. CASE k = "caSecret"
    <3>1. next = AfterCA(cluster)
      BY <2>2 DEF After
    <3>. QED
      BY <3>1 DEF AfterCA
  <2>3. CASE k \in Kinds \ {"serviceAccount", "caSecret"}
    BY <2>3 DEF After, Kinds
  <2>. QED
    BY <2>1, <2>2, <2>3
<1>10. next # "podList"
  <2>1. next \in {AfterCA(cluster), AfterServiceAccount(cluster)} \/ next # "podList"
    BY DEF After, Kinds
  <2>. QED
    BY <2>1 DEF AfterCA, AfterServiceAccount
<1>11. DoneNext(next, cluster)
  <2>1. ~OAuthBranch(cluster) => PodCanPull(cluster)
    BY DEF PodCanPull
  <2>. HIDE DEF next
  <2>. QED
    BY <1>1, <1>2, <1>4, <1>5, <1>7, <1>8, <1>9, <1>10, <2>1, DoneStays
<1>12. pc' = next /\ next \in ApplySteps \cup {"idle"} /\ (pc' # "idle" => local' = local)
  BY <1>1, <1>4, StepOrder DEF Goto
<1>. QED
  BY <1>1, <1>2, <1>3, <1>11, <1>12, WorkGoesOn

\* The requests of the OAuth branch other than applies of owned objects: the
\* binding, and the check of the head Pod (lines 222-232 and 624-652).
LEMMA WorkInOAuth ==
    ASSUME ConvergenceInv, ~Owed',
           ApplyCRB \/ GetServiceAccount \/ ListHeadPods \/ DeletePod
    PROVE  WorkStands'
<1>. USE DEF apiVars, objVars
<1>0. TypeOK
  BY DEF ConvergenceInv, FinalizerInv
<1>1. /\ pc \in {"crb", "saGet", "podList", "podDelete"}
      /\ UNCHANGED <<cluster, watch, obj, saPull>>
  BY DEF ApplyCRB, GetServiceAccount, ListHeadPods, DeletePod
<1>2. /\ ~Owed
      /\ pc' \in {"podList", "podDelete", "crb", "clientRoute"}
      /\ local' = local
  <2>1. ~queued' /\ ~notify' /\ watch' = {}
    BY DEF Owed
  <2>2. CASE ApplyCRB
    BY <1>1, <2>1, <2>2 DEF Owed, ApplyCRB, Goto
  <2>3. CASE GetServiceAccount
    BY <1>1, <2>1, <2>3 DEF Owed, GetServiceAccount, Requeue
  <2>4. CASE ListHeadPods
    BY <1>1, <2>1, <2>4 DEF Owed, ListHeadPods, Goto
  <2>5. CASE DeletePod
    BY <1>1, <2>1, <2>5 DEF Owed, DeletePod, Goto, Requeue
  <2>. QED
    BY <2>2, <2>3, <2>4, <2>5
<1>3. pc \in ApplySteps /\ pc' \in ApplySteps
  BY <1>1, <1>2 DEF ApplySteps, Kinds
<1>4. local = cluster /\ DoneBy(pc, cluster)
  BY <1>1, <1>2, <1>3 DEF ConvergenceInv, WorkStands
<1>5. NameFor("serviceAccount", cluster) = NameOf(cluster) /\ NameOf(cluster) \in Names
  BY NamesOf DEF NameFor, FixedNames
<1>6. \A j \in Due(cluster) : j \in Earlier(pc') => j \in Earlier(pc)
  BY <1>1, <1>2, EarlierValues
<1>7. CASE ApplyCRB
  <2>1. crb[NameOf(cluster)] # "absent" /\ crb' = crb
    BY <1>0, <1>4, <1>5, <1>7 DEF ApplyCRB, Owed, TypeOK
  <2>2. pc' = "clientRoute" /\ pc = "crb" /\ pod' = pod
    BY <1>7 DEF ApplyCRB, Goto
  <2>3. DoneNext(pc', cluster)
    BY <1>1, <1>4, <1>6, <2>1, <2>2, DoneStays DEF PastBinding
  <2>. QED
    BY <1>1, <1>2, <1>3, <2>3, WorkGoesOn
<1>8. CASE GetServiceAccount
  <2>1. mem' = [mem EXCEPT !.pull = saPull[NameOf(cluster)]] /\ pc' = "podList"
    BY <1>2, <1>4, <1>5, <1>8 DEF GetServiceAccount, Requeue
  <2>2. mem'.pull = saPull[NameOf(cluster)] /\ UNCHANGED <<crb, pod>>
    BY <1>0, <1>8, <2>1 DEF TypeOK, MemType, GetServiceAccount
  <2>3. DoneNext(pc', cluster)
    BY <1>1, <1>4, <1>6, <2>1, <2>2, DoneStays DEF PastBinding
  <2>. QED
    BY <1>1, <1>2, <1>3, <2>3, WorkGoesOn
<1>9. CASE ListHeadPods
  <2>1. mem.pull = saPull[NameOf(cluster)]
    BY <1>4, <1>9 DEF DoneBy, ListHeadPods
  <2>2. pc' = "podDelete" \/ (pc' = "crb" /\ PodCanPull(cluster))
    BY <1>4, <1>5, <1>9, <2>1 DEF ListHeadPods, Goto, PodCanPull
  <2>3. crb' = crb /\ pod'.is = pod.is
    BY <1>0, <1>9 DEF ListHeadPods, PodType, TypeOK
  <2>4. DoneNext(pc', cluster)
    BY <1>1, <1>4, <1>6, <2>2, <2>3, DoneStays DEF PastBinding
  <2>. QED
    BY <1>1, <1>2, <1>3, <2>4, WorkGoesOn
<1>10. CASE DeletePod
  <2>1. pc' = "crb" /\ pod'.is = "leaving" /\ crb' = crb
    BY <1>2, <1>10 DEF DeletePod, Goto, Requeue
  <2>2. DoneNext(pc', cluster)
    BY <1>1, <1>4, <1>6, <2>1 DEF DoneNext, DoneBy, PastBinding
  <2>. QED
    BY <1>1, <1>2, <1>3, <2>2, WorkGoesOn
<1>. QED
  BY <1>7, <1>8, <1>9, <1>10

\* The requests that only read.
LEMMA WorkOfReads ==
    ASSUME ConvergenceInv, ~Owed', GetCA \/ ListKubeRayPods \/ GetDSCI
    PROVE  WorkStands'
<1>1. /\ UNCHANGED <<cluster, watch, obj, crb, saPull, pod>>
      /\ pc \in {"caGet", "kubeRayPods", "dsci"}
  BY DEF GetCA, ListKubeRayPods, GetDSCI, apiVars, objVars
<1>2. /\ ~Owed
      /\ local' = local
      /\ \/ pc = "caGet" /\ pc' = "caSecret"
         \/ pc \in {"kubeRayPods", "dsci"} /\ pc' \in {"dsci", "headPolicy"}
  BY <1>1 DEF Owed, GetCA, ListKubeRayPods, GetDSCI, Requeue
<1>3. pc \in ApplySteps /\ pc' \in ApplySteps
  BY <1>1, <1>2 DEF ApplySteps, Kinds
<1>4. DoneBy(pc, cluster)
  BY <1>2, <1>3 DEF ConvergenceInv, WorkStands
<1>5. \A j \in Due(cluster) : j \in Earlier(pc') => j \in Earlier(pc)
  BY <1>2, EarlierValues
<1>6. DoneNext(pc', cluster)
  BY <1>1, <1>2, <1>4, <1>5, DoneStays DEF PastBinding
<1>. QED
  BY <1>1, <1>2, <1>3, <1>6, WorkGoesOn

\* Every step keeps the work standing, or leaves a reconciliation owed.
LEMMA WorkStep ==
    ASSUME ConvergenceInv, [Next]_vars, ~Owed'
    PROVE  WorkStands'
<1>1. CASE Start
  BY <1>1, WorkBegins
<1>2. CASE AddFinalizer \/ RemoveFinalizer
  BY <1>2 DEF AddFinalizer, RemoveFinalizer, Store, Owed
<1>3. CASE DeleteCRB
  <2>1. /\ UNCHANGED <<cluster, watch>>
        /\ notify' = (notify \/ crb[NameOf(local)] = "present")
        /\ pc = "deleteCRB" /\ Goto("removeFinalizer")
    BY <1>3 DEF DeleteCRB, apiVars
  <2>2. ~Owed /\ pc' = "removeFinalizer" /\ local' = local
    BY <2>1 DEF Owed, Goto
  <2>3. local = cluster
    BY <2>1, <2>2 DEF ConvergenceInv, WorkStands
  <2>. QED
    BY <2>1, <2>2, <2>3 DEF WorkStands, ApplySteps, Kinds
<1>4. CASE Conflict
  BY <1>4 DEF Conflict, Requeue, Owed
<1>5. CASE GetCA \/ ListKubeRayPods \/ GetDSCI
  BY <1>5, WorkOfReads
<1>6. CASE \E k \in Kinds : Apply(k)
  BY <1>6, WorkApplied
<1>7. CASE ApplyCRB \/ GetServiceAccount \/ ListHeadPods \/ DeletePod
  BY <1>7, WorkInOAuth
<1>8. CASE UNCHANGED vars \/ Users \/ Kubernetes \/ Manager \/ Faults
  BY <1>8, WorkSurvives
<1>. QED
  BY <1>1, <1>2, <1>3, <1>4, <1>5, <1>6, <1>7, <1>8 DEF Next, Request

-----------------------------------------------------------------------------
(* The theorems.                                                           *)

\* At the start either nothing is to be done, or the clusters are enqueued.
LEMMA ConvergenceInit == Init => ConvergenceInv
<1>. SUFFICES ASSUME Init PROVE ConvergenceInv
  OBVIOUS
<1>1. FinalizerInv
  BY KnowledgeInit
<1>2. InformerCurrent /\ BranchKnown
  BY DEF Init, InformerCurrent, BranchKnown, OAuthSteps
<1>3. CASE LegacyCluster
  BY <1>1, <1>2, <1>3 DEF Init, ConvergenceInv, Owed
<1>4. CASE ~LegacyCluster
  <2>1. cluster = NoCluster /\ pc = "idle"
    BY <1>4 DEF Init
  <2>2. WorkStands
    BY <2>1, NoClusterType DEF WorkStands, Exists, ApplySteps, Kinds
  <2>. QED
    BY <1>1, <1>2, <2>2 DEF ConvergenceInv
<1>. QED
  BY <1>3, <1>4

\* Unless another reconciliation is owed, the one under way works on the cluster
\* as it is, and what it has done so far still stands: no change of the cluster
\* or of an object that comes between two requests is missed
\* (raycluster_controller.go, lines 123-309 and 677-706).
THEOREM Convergence == Spec => []ConvergenceInv
<1>1. ConvergenceInv /\ [Next]_vars => ConvergenceInv'
  <2>. SUFFICES ASSUME ConvergenceInv, [Next]_vars PROVE ConvergenceInv'
    OBVIOUS
  <2>1. FinalizerInv'
    BY TypeStep, KnowledgeStep DEF ConvergenceInv, FinalizerInv, Knowledge
  <2>2. InformerCurrent'
    BY InformerStep DEF ConvergenceInv
  <2>3. BranchKnown'
    BY BranchStep DEF ConvergenceInv
  <2>4. ~Owed' => WorkStands'
    BY WorkStep
  <2>. QED
    BY <2>1, <2>2, <2>3, <2>4 DEF ConvergenceInv
<1>. QED
  BY <1>1, ConvergenceInit, PTL DEF Spec

\* The controller at rest owes nothing, so its work stands.
LEMMA RestIsDone ==
    ASSUME ConvergenceInv, Quiescent, Exists(cluster), ~cluster.del
    PROVE  /\ cluster.fin
           /\ \A k \in Due(cluster) : Applied(k)
           /\ OAuthBranch(cluster) => crb[NameOf(cluster)] = "present"
           /\ PodCanPull(cluster)
<1>1. cluster.fin /\ DoneBy("idle", cluster)
  BY DEF Quiescent, ConvergenceInv, Owed, WorkStands
<1>2. \A k \in Due(cluster) : Applied(k)
  BY <1>1, EarlierValues, DueKinds DEF DoneBy, Applied
<1>3. PodCanPull(cluster) /\ (OAuthBranch(cluster) => crb[NameOf(cluster)] # "absent")
  BY <1>1 DEF DoneBy, PastBinding
<1>4. crb[NameOf(cluster)] \in {"absent", "present"}
  BY NamesOf DEF Quiescent, ConvergenceInv, FinalizerInv, TypeOK
<1>. QED
  BY <1>1, <1>2, <1>3, <1>4

\* When the controller rests, a live cluster has the finalizer and every object
\* Reconcile is to create for it, the NetworkPolicies aside, on every platform
\* and whatever users, Kubernetes, failures and restarts did (lines 123-309).
THEOREM RestsConverged == Spec => []QuiescentConverged
<1>1. ConvergenceInv => QuiescentConverged
  <2>1. \A k \in Desired(cluster) \ Policies : k \in Due(cluster)
    BY DEF Due
  <2>. QED
    BY <2>1, RestIsDone DEF QuiescentConverged
<1>. QED
  BY <1>1, Convergence, PTL

\* When the controller rests, no head Pod is left without the pull secret of its
\* ServiceAccount, although OpenShift may add the secret at any time between the
\* requests of the check (lines 222-227 and 624-652).
THEOREM RestsPullable == Spec => []QuiescentPodCanPull
<1>1. ConvergenceInv => QuiescentPodCanPull
  BY RestIsDone DEF QuiescentPodCanPull, PodCanPull
<1>. QED
  BY <1>1, Convergence, PTL

\* When the controller rests, what the webhook wrote into the Pod templates
\* exists, provided OAuth is enabled on OpenShift only: elsewhere the webhook
\* refers to objects that no branch of Reconcile creates.
THEOREM RestsReferenced ==
    ASSUME OAuthEnabled => IsOpenShift
    PROVE  Spec => []QuiescentReferencesExist
<1>1. ConvergenceInv => QuiescentReferencesExist
  <2>1. ~cluster.susp => \A k \in Referenced : k \in Due(cluster)
    BY DEF Referenced, Due, Desired, OAuthBranch
  <2>. QED
    BY <2>1, RestIsDone DEF QuiescentReferencesExist
<1>. QED
  BY <1>1, Convergence, PTL

\* When the controller rests, a live cluster has its NetworkPolicies, provided no
\* request fails: the error of such an apply is dropped (lines 298-306).
THEOREM RestsIsolated ==
    ASSUME MaxFaults = 0
    PROVE  Spec => []QuiescentIsolated
<1>1. ConvergenceInv => QuiescentIsolated
  <2>1. \A k \in Policies : k \in Due(cluster)
    BY DEF Due, Desired
  <2>. QED
    BY <2>1, RestIsDone DEF QuiescentIsolated
<1>. QED
  BY <1>1, Convergence, PTL

\* When the controller rests and the cluster is gone, so are its bindings: the
\* clusters of an older release and foreground deletion, which leave bindings
\* behind, are the only things that do (lines 146-165).
THEOREM RestsUnbound ==
    ASSUME ~LegacyCluster, Foreground \subseteq {FALSE}
    PROVE  Spec => []QuiescentUnbound
<1>1. BindingInv => QuiescentUnbound
  <2>. SUFFICES ASSUME BindingInv, Quiescent, ~Exists(cluster), NEW n \in Names
                PROVE  crb[n] = "absent"
    BY DEF QuiescentUnbound
  <2>1. crb[n] \in {"absent", "present", "terminating"}
    BY DEF BindingInv, FinalizerInv, TypeOK
  <2>2. crb[n] # "present" /\ crb[n] # "terminating"
    BY DEF BindingInv, Quiescent, Names
  <2>. QED
    BY <2>1, <2>2
<1>2. Spec => []BindingInv
  BY BindingInvariant
<1>. QED
  BY <1>1, <1>2, PTL

-----------------------------------------------------------------------------
(* The key of the CA.                                                      *)

\* The steps by what they do to the CA Secrets: nothing, a deletion, an apply.
LEMMA KeySteps ==
    ASSUME TypeOK, [Next]_vars
    PROVE  \/ caKey' = caKey /\ obj'["caSecret"] = obj["caSecret"]
           \/ \E gone : Erase(gone)
           \/ Apply("caSecret")
<1>. USE DEF objVars
<1>1. CASE UNCHANGED vars
  BY <1>1 DEF vars
<1>2. CASE Users
  BY <1>2 DEF Users, Create, Edit, UpdateStatus, Delete
<1>3. CASE Kubernetes
  <2>1. CASE Collect
    BY <2>1 DEF Collect
  <2>. QED
    BY <1>3, <2>1 DEF Kubernetes, ReleaseForeground, BindingGone, AddPullSecret,
        CreateHeadPod, DeleteHeadPod, HeadPodGone, MoveKubeRay, EditDSCI
<1>4. CASE Manager
  BY <1>4 DEF Manager, Deliver, DeliverObject, Resync
<1>5. CASE Faults
  <2>1. CASE DeleteObject
    BY <2>1 DEF DeleteObject
  <2>. QED
    BY <1>5, <2>1 DEF Faults, DeleteBinding, Restart, Fail, FailPolicy
<1>6. CASE Request
  <2>1. ASSUME NEW k \in Kinds \ {"caSecret"}, Apply(k)
        PROVE  caKey' = caKey /\ obj'["caSecret"] = obj["caSecret"]
    BY <2>1 DEF Apply, TypeOK, Kinds
  <2>2. ASSUME NEW k \in Kinds, Apply(k)
        PROVE  \/ caKey' = caKey /\ obj'["caSecret"] = obj["caSecret"]
               \/ Apply("caSecret")
    <3>1. CASE k = "caSecret"
      BY <2>2, <3>1
    <3>2. CASE k # "caSecret"
      BY <2>1, <2>2, <3>2
    <3>. QED
      BY <3>1, <3>2
  <2>. QED
    BY <1>6, <2>2 DEF Request, Start, AddFinalizer, DeleteCRB, RemoveFinalizer,
        Conflict, GetCA, ApplyCRB, GetServiceAccount, ListHeadPods, DeletePod,
        ListKubeRayPods, GetDSCI
<1>. QED
  BY <1>1, <1>2, <1>3, <1>4, <1>5, <1>6 DEF Next

\* The apply of the CA Secret follows the read of it, and nothing else.
LEMMA KeyHeld ==
    ASSUME [Next]_vars, pc' = "caSecret"
    PROVE  GetCA \/ UNCHANGED <<pc, local, mem>>
<1>. USE DEF ctrlVars
<1>0. /\ \A c : AfterCA(c) # "caSecret" /\ AfterFinalizer(c) # "caSecret"
      /\ \A c : \A k \in Kinds : After(k, c) # "caSecret"
  <2>1. ASSUME NEW c PROVE AfterCA(c) # "caSecret" /\ AfterFinalizer(c) # "caSecret"
    BY DEF AfterCA, AfterFinalizer
  <2>2. ASSUME NEW c, NEW k \in Kinds PROVE After(k, c) # "caSecret"
    <3>1. CASE k = "caSecret"
      <4>1. After(k, c) = AfterCA(c)
        BY <3>1 DEF After
      <4>. QED
        BY <4>1, <2>1
    <3>2. CASE k # "caSecret"
      BY <3>2 DEF After, AfterServiceAccount, Kinds
    <3>. QED
      BY <3>1, <3>2
  <2>. QED
    BY <2>1, <2>2
<1>1. CASE UNCHANGED vars
  BY <1>1 DEF vars
<1>2. CASE Users
  BY <1>2 DEF Users, Create, Edit, UpdateStatus, Delete
<1>3. CASE Kubernetes
  BY <1>3 DEF Kubernetes, ReleaseForeground, Collect, Erase, BindingGone,
      AddPullSecret, CreateHeadPod, DeleteHeadPod, HeadPodGone, MoveKubeRay, EditDSCI
<1>4. CASE Manager
  BY <1>4 DEF Manager, Deliver, DeliverObject, Resync
<1>5. CASE Faults
  <2>1. CASE FailPolicy
    BY <1>0, <2>1 DEF FailPolicy, Goto, Kinds
  <2>. QED
    BY <1>5, <2>1 DEF Faults, DeleteObject, Erase, DeleteBinding, Restart, Fail, Requeue
<1>6. CASE Request
  <2>1. ASSUME NEW k \in Kinds, Apply(k) PROVE FALSE
    BY <1>0, <2>1 DEF Apply, Goto
  <2>2. CASE Start
    BY <1>0, <2>2 DEF Start, FirstStep
  <2>3. CASE AddFinalizer
    BY <1>0, <2>3 DEF AddFinalizer
  <2>4. CASE DeleteCRB \/ RemoveFinalizer \/ Conflict
    BY <2>4 DEF DeleteCRB, RemoveFinalizer, Conflict, Goto, Requeue
  <2>5. CASE ApplyCRB \/ GetServiceAccount \/ ListHeadPods \/ DeletePod
    BY <2>5 DEF ApplyCRB, GetServiceAccount, ListHeadPods, DeletePod, Goto, Requeue
  <2>6. CASE ListKubeRayPods \/ GetDSCI
    BY <2>6 DEF ListKubeRayPods, GetDSCI, Requeue
  <2>. QED
    BY <1>6, <2>1, <2>2, <2>3, <2>4, <2>5, <2>6 DEF Request
<1>. QED
  BY <1>1, <1>2, <1>3, <1>4, <1>5, <1>6 DEF Next

\* What an apply of the CA Secret writes.
LEMMA KeyWritten ==
    ASSUME FinalizerInv, CAKeyInv, Apply("caSecret"), NEW n \in Names
    PROVE  /\ caKey'[n] # 0 <=> obj'["caSecret"][n] # 0
           /\ caKey[n] # 0 => caKey'[n] = caKey[n]
           /\ pc' # "caSecret"
<1>. DEFINE m == NameFor("caSecret", local)
<1>1. m \in Names /\ m = NameOf(local)
  BY NamesOf DEF NameFor, FixedNames
<1>2. /\ caKey' = [caKey EXCEPT ![m] = mem.key]
      /\ obj' = [obj EXCEPT !["caSecret"][m] = local.uid]
      /\ pc = "caSecret"
      /\ Goto(After("caSecret", local))
  BY DEF Apply
<1>3. /\ "caSecret" \in Kinds
      /\ obj \in [Kinds -> [Names -> Nat]]
      /\ caKey \in [Names -> Nat]
  BY DEF FinalizerInv, TypeOK, Kinds
<1>4. mem.key # 0 /\ caKey[m] \in {0, mem.key} /\ local.uid # 0
  BY <1>1, <1>2 DEF CAKeyInv, FinalizerInv, StepKnows, Exists
<1>5. caKey[n] # 0 <=> obj["caSecret"][n] # 0
  BY DEF CAKeyInv
<1>6. After("caSecret", local) = AfterCA(local) /\ AfterCA(local) # "caSecret"
  BY DEF After, AfterCA
<1>7. pc' # "caSecret"
  BY <1>2, <1>6 DEF Goto
<1>. HIDE DEF m
<1>8. CASE n = m
  <2>1. caKey'[n] = mem.key /\ obj'["caSecret"][n] = local.uid
    BY <1>1, <1>2, <1>3, <1>8
  <2>. QED
    BY <1>4, <1>7, <1>8, <2>1
<1>9. CASE n # m
  <2>1. caKey'[n] = caKey[n] /\ obj'["caSecret"][n] = obj["caSecret"][n]
    BY <1>1, <1>2, <1>3, <1>9
  <2>. QED
    BY <1>5, <1>7, <2>1
<1>. QED
  BY <1>8, <1>9

\* What the deletion of objects does to the CA Secrets.
LEMMA KeyErased ==
    ASSUME TypeOK, CAKeyInv, NEW gone, Erase(gone), NEW n \in Names
    PROVE  /\ caKey'[n] \in {0, caKey[n]}
           /\ caKey'[n] # 0 <=> obj'["caSecret"][n] # 0
<1>1. /\ caKey'[n] = IF <<"caSecret", n>> \in gone THEN 0 ELSE caKey[n]
      /\ obj'["caSecret"][n] = IF <<"caSecret", n>> \in gone THEN 0 ELSE obj["caSecret"][n]
  BY DEF Erase, Kinds
<1>. QED
  BY <1>1 DEF CAKeyInv

\* The key that Reconcile holds is the Secret's, from the read to the apply.
LEMMA KeyStep == FinalizerInv /\ CAKeyInv /\ [Next]_vars => CAKeyInv'
<1>. SUFFICES ASSUME FinalizerInv, CAKeyInv, [Next]_vars PROVE CAKeyInv'
  OBVIOUS
<1>0. TypeOK
  BY DEF FinalizerInv
<1>1. \A n \in Names : caKey'[n] # 0 <=> obj'["caSecret"][n] # 0
  <2>1. CASE caKey' = caKey /\ obj'["caSecret"] = obj["caSecret"]
    BY <2>1 DEF CAKeyInv
  <2>. QED
    BY <1>0, <2>1, KeySteps, KeyErased, KeyWritten
<1>2. ASSUME pc' = "caSecret"
      PROVE  mem'.key # 0 /\ caKey'[NameOf(local')] \in {0, mem'.key}
  <2>1. CASE GetCA
    <3>. DEFINE n == NameOf(local)
                key == IF obj["caSecret"][n] = 0 THEN NewKey ELSE caKey[n]
    <3>1. n \in Names /\ NameFor("caSecret", local) = n
      BY NamesOf DEF NameFor, FixedNames
    <3>2. NewKey \in 1..3
      <4>1. \E k \in 1..3 : \A l \in Names : k # caKey[l]
        BY DEF Names
      <4>. QED
        BY <4>1 DEF NewKey
    <3>3. mem' = [mem EXCEPT !.key = key] /\ UNCHANGED <<local, caKey>>
      BY <2>1, <3>1 DEF GetCA, objVars
    <3>4. mem'.key = key
      BY <1>0, <3>3 DEF TypeOK, MemType
    <3>5. caKey[n] # 0 <=> obj["caSecret"][n] # 0
      BY <3>1 DEF CAKeyInv
    <3>. QED
      BY <3>2, <3>3, <3>4, <3>5
  <2>2. CASE UNCHANGED <<pc, local, mem>>
    <3>. DEFINE n == NameOf(local)
    <3>1. n \in Names
      BY NamesOf
    <3>2. pc = "caSecret" /\ mem.key # 0 /\ caKey[n] \in {0, mem.key}
      BY <1>2, <2>2 DEF CAKeyInv
    <3>3. caKey'[n] \in {0, caKey[n]}
      BY <1>0, <1>2, <3>1, KeySteps, KeyErased, KeyWritten
    <3>. QED
      BY <2>2, <3>2, <3>3
  <2>. QED
    BY <1>2, <2>1, <2>2, KeyHeld
<1>3. NameOf(local)' = NameOf(local')
  BY DEF NameOf
<1>. QED
  BY <1>1, <1>2, <1>3 DEF CAKeyInv

\* At the start every CA Secret has a key.
LEMMA KeyInit == Init => CAKeyInv
  BY DEF Init, CAKeyInv

\* A CA Secret exists exactly if it has a key, and the key that Reconcile is
\* about to write is that of the Secret, if there still is one (lines 168-194).
THEOREM KeyInvariant == Spec => []CAKeyInv
  BY KeyInit, KeyStep, FinalizerInvariant, PTL DEF Spec

\* The key in a CA Secret never changes as long as the Secret exists, whatever
\* comes between the read of the Secret and the apply (lines 168-194).
THEOREM KeyNeverChanges == Spec => CAKeyStable
<1>. DEFINE Stable ==
       \A n \in Names : caKey[n] # 0 /\ caKey'[n] # 0 => caKey'[n] = caKey[n]
<1>1. FinalizerInv /\ CAKeyInv /\ [Next]_vars => [Stable]_vars
  <2>. SUFFICES ASSUME FinalizerInv, CAKeyInv, [Next]_vars, NEW n \in Names,
                       caKey[n] # 0, caKey'[n] # 0
                PROVE  caKey'[n] = caKey[n]
    OBVIOUS
  <2>1. TypeOK
    BY DEF FinalizerInv
  <2>. QED
    BY <2>1, KeySteps, KeyErased, KeyWritten
<1>2. Spec => [][Stable]_vars
  BY <1>1, FinalizerInvariant, KeyInvariant, PTL DEF Spec
<1>. QED
  BY <1>2 DEF CAKeyStable
=============================================================================
