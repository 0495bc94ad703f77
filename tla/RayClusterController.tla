------------------------- MODULE RayClusterController -------------------------
(***************************************************************************)
(* The RayCluster controller of the CodeFlare operator                     *)
(* (pkg/controllers/raycluster_controller.go) at work on one RayCluster    *)
(* name, with the parts of Kubernetes it relies on: the API server, the    *)
(* informer cache, the work queue, the admission webhook's effect on the   *)
(* naming of objects, the garbage collector, and the head Pod that KubeRay *)
(* creates.                                                                *)
(*                                                                         *)
(* Reconcile is not atomic.  Every request to the API server is one step   *)
(* of the reconciliation, `pc' is the request about to be sent, and users, *)
(* KubeRay, the garbage collector, failures and restarts act between any   *)
(* two of them.  `local' is the copy of the RayCluster that Reconcile read *)
(* from the informer cache, which may be out of date.                      *)
(***************************************************************************)
EXTENDS Integers

CONSTANTS
    IsOpenShift,        \* the platform main.go detects
    OAuthEnabled,       \* kuberay.rayDashboardOAuthEnabled
    MTLSEnabled,        \* kuberay.mTLSEnabled
    DSCIServed,         \* does the API server serve DSCInitialization?
    LegacyCluster,      \* does the operator start over a cluster without the
                        \* version annotation, left by an older release?
    Foreground,         \* the propagation policies users delete with:
                        \* TRUE is foreground, FALSE background
    PullSecrets,        \* values of "the user set spec imagePullSecrets"
    KubeRayHomes,       \* where the KubeRay operator's Pods may be, or none
    DSCIs,              \* the applicationsNamespace of the DSCInitialization,
                        \* or none if there is no such object
    Sweeps,             \* the sets of kinds the garbage collector collects
                        \* in one step
    MaxUid,             \* bound: RayClusters ever created under the name
    MaxEdits,           \* bound: user edits and KubeRay status updates
    MaxFaults           \* bound: failed requests, restarts, deleted objects

ASSUME BoundsAssumption ==
    /\ MaxUid \in Nat \ {0}
    /\ MaxEdits \in Nat
    /\ MaxFaults \in Nat

VARIABLES
    cluster,    \* the RayCluster in the API server
    uids,       \* how many RayClusters were created so far
    watch,      \* versions of the RayCluster the informer has yet to receive
    cached,     \* the RayCluster in the informer cache
    notify,     \* is an event of an owned object on its way to the queue?
    queued,     \* is the RayCluster's key in the work queue?
    pc,         \* the request Reconcile is about to send
    local,      \* the `cluster' variable of Reconcile
    mem,        \* what else Reconcile holds: the CA key, the SA's pull secrets,
                \* the namespaces it takes to be the KubeRay operator's
    obj,        \* owner uid of each owned object, 0 if it does not exist
    crb,        \* the ClusterRoleBindings: they have no owner
    caKey,      \* the key held by each CA Secret, 0 if it does not exist
    saPull,     \* did OpenShift add its pull secret to each ServiceAccount?
    kubeRay,    \* the namespace of the first kuberay-operator Pod, or none
    dsci,       \* the applicationsNamespace in the DSCInitialization, or none
    peers,      \* the namespaces each head NetworkPolicy admits
    pod,        \* the head Pod
    edits, faults

apiVars == <<cluster, uids, watch>>
ctrlVars == <<queued, pc, local, mem>>
objVars == <<obj, caKey, saPull, kubeRay, dsci, peers>>
vars == <<cluster, uids, watch, cached, notify, queued, pc, local, mem, obj,
          crb, caKey, saPull, kubeRay, dsci, peers, pod, edits, faults>>

-----------------------------------------------------------------------------
(* Objects and names.                                                      *)

Names == {"old", "new"}

\* The objects that expose the dashboard on OpenShift and on other platforms,
\* and those that isolate the Pods.
OAuthKinds ==
    {"route", "oauthSecret", "service", "serviceAccount", "clientRoute"}
IngressKinds == {"ingress", "clientIngress"}
Policies == {"headPolicy", "workersPolicy"}

Kinds == {"caSecret"} \cup OAuthKinds \cup IngressKinds \cup Policies

ASSUME SettingsAssumption ==
    /\ {IsOpenShift, OAuthEnabled, MTLSEnabled, DSCIServed, LegacyCluster}
          \subseteq BOOLEAN
    /\ Foreground \subseteq BOOLEAN
    /\ PullSecrets \subseteq BOOLEAN
    /\ UNION Sweeps \subseteq Kinds

\* The kinds whose names do not depend on the version annotation.
FixedNames == {"route", "clientRoute", "ingress", "clientIngress"}

\* The steps of Reconcile that create or update what belongs to the cluster.
ApplySteps == Kinds \cup
    {"caGet", "saGet", "podList", "podDelete", "crb", "kubeRayPods", "dsci"}

Steps == ApplySteps \cup {"idle", "addFinalizer", "deleteCRB", "removeFinalizer"}

Clusters == [uid : Nat, rv : Nat, del : BOOLEAN, fin : BOOLEAN,
             other : BOOLEAN, ann : BOOLEAN, susp : BOOLEAN, pull : BOOLEAN]

\* rv is the resource version; del: deletionTimestamp is set; fin: the OAuth
\* finalizer is present; other: so is the foregroundDeletion finalizer; ann:
\* the version annotation is present; susp: spec.suspend; pull: the user gave
\* the head group imagePullSecrets of its own.
NoCluster == [uid |-> 0, rv |-> 0, del |-> FALSE, fin |-> FALSE,
              other |-> FALSE, ann |-> FALSE, susp |-> FALSE, pull |-> FALSE]

Exists(c) == c.uid # 0

\* The namespaces that the code has built in.
kubeRayDefaultNamespace == "ray-system"
odhNamespace == "opendatahub"
rhdsAppsNamespace == "redhat-ods-applications"

Namespaces ==
    KubeRayHomes \cup DSCIs \cup
        {kubeRayDefaultNamespace, odhNamespace, rhdsAppsNamespace}

\* The head Pod is none, leaving (it is terminating, and still listed), or runs:
\* then `is' names the ServiceAccount whose pull secret it carries, bare if
\* neither's.  listed tells that it is the Pod that Reconcile has found.
PodType == [is : {"none", "leaving", "bare"} \cup Names, listed : BOOLEAN]

NoPod == [is |-> "none", listed |-> FALSE]

\* shouldUseOldName, and the *NameFromCluster functions built on it.
NameOf(c) == IF c.ann THEN "new" ELSE "old"
NameFor(k, c) == IF k \in FixedNames THEN "new" ELSE NameOf(c)

\* The conditions of the two branches of Reconcile that expose the dashboard.
OAuthBranch(c) == ~c.susp /\ OAuthEnabled /\ IsOpenShift
IngressBranch(c) == ~c.susp /\ ~OAuthEnabled /\ ~IsOpenShift

\* What Reconcile applies for a cluster, the ClusterRoleBinding aside.
Desired(c) ==
    (IF MTLSEnabled THEN {"caSecret"} ELSE {}) \cup
    (IF OAuthBranch(c) THEN OAuthKinds ELSE {}) \cup
    (IF IngressBranch(c) THEN IngressKinds ELSE {}) \cup
    Policies

-----------------------------------------------------------------------------
(* The order of the requests of one reconciliation.                        *)

AfterCA(c) == IF OAuthBranch(c) THEN "route"
              ELSE IF IngressBranch(c) THEN "ingress"
              ELSE "kubeRayPods"

AfterFinalizer(c) == IF MTLSEnabled THEN "caGet" ELSE AfterCA(c)

\* Variant: the head Pod is never checked.
AfterServiceAccountNoPodCheck(c) == "crb"

AfterServiceAccount(c) == IF c.pull THEN "crb" ELSE "saGet"

\* Variant: the second object of a pair is forgotten.
AfterFirstOfPair(k, c) ==
    CASE k = "caSecret"       -> AfterCA(c)
      [] k = "route"          -> "oauthSecret"
      [] k = "oauthSecret"    -> "service"
      [] k = "service"        -> "serviceAccount"
      [] k = "serviceAccount" -> AfterServiceAccount(c)
      [] k \in {"ingress", "clientRoute", "clientIngress"} -> "kubeRayPods"
      [] k \in Policies       -> "idle"

\* The request that follows a successful apply of kind k.
After(k, c) ==
    CASE k = "caSecret"       -> AfterCA(c)
      [] k = "route"          -> "oauthSecret"
      [] k = "oauthSecret"    -> "service"
      [] k = "service"        -> "serviceAccount"
      [] k = "serviceAccount" -> AfterServiceAccount(c)
      [] k = "clientRoute"    -> "kubeRayPods"
      [] k = "ingress"        -> "clientIngress"
      [] k = "clientIngress"  -> "kubeRayPods"
      [] k = "headPolicy"     -> "workersPolicy"
      [] k = "workersPolicy"  -> "idle"

MemType == [key : Nat, pull : BOOLEAN, ns : SUBSET Namespaces]

EmptyMem == [key |-> 0, pull |-> FALSE, ns |-> {}]

\* Variant: events that arrive during a reconciliation are forgotten.
GotoForgetful(step) ==
    /\ pc' = step
    /\ queued' = (queued /\ step # "idle")
    /\ IF step = "idle" THEN local' = NoCluster /\ mem' = EmptyMem
                        ELSE UNCHANGED <<local, mem>>

\* Reconcile goes on to its next request ...
Goto(step) ==
    /\ pc' = step
    /\ queued' = queued
    /\ IF step = "idle" THEN local' = NoCluster /\ mem' = EmptyMem
                        ELSE UNCHANGED <<local, mem>>

\* ... or returns an error, and the work queue will hand the key out again.
Requeue ==
    /\ pc' = "idle"
    /\ queued' = TRUE
    /\ local' = NoCluster
    /\ mem' = EmptyMem

-----------------------------------------------------------------------------
(* The API server and the admission webhook.                               *)

\* An object that is being deleted goes away with its last finalizer.
Settle(c) == IF c.del /\ ~c.fin /\ ~c.other
                THEN [NoCluster EXCEPT !.rv = c.rv] ELSE c

\* Every write makes a new version, which the informer will hear of.
Store(c) ==
    LET new == Settle([c EXCEPT !.rv = cluster.rv + 1])
    IN  cluster' = new /\ watch' = watch \cup {new}

\* The webhook's Default, called on every create and update (but not on
\* updates of the status), sets the version annotation.
Default(c) == [c EXCEPT !.ann = TRUE]

\* An update is accepted only if it is made from the current version.
Current == Exists(cluster) /\ cluster.rv = local.rv

-----------------------------------------------------------------------------
(* Users, KubeRay and the rest of Kubernetes.                              *)

Create ==
    /\ ~Exists(cluster)
    /\ uids < MaxUid
    /\ uids' = uids + 1
    /\ \E pull \in PullSecrets :
          Store(Default([NoCluster EXCEPT !.uid = uids + 1, !.pull = pull]))
    /\ UNCHANGED <<cached, notify, ctrlVars, objVars, crb, pod, edits, faults>>

\* A user or a controller such as Kueue suspends or resumes the cluster, or
\* changes something else in its spec or metadata.
Edit ==
    /\ Exists(cluster)
    /\ edits < MaxEdits
    /\ edits' = edits + 1
    /\ \E susp \in BOOLEAN : Store(Default([cluster EXCEPT !.susp = susp]))
    /\ UNCHANGED <<uids, cached, notify, ctrlVars, objVars, crb, pod, faults>>

\* KubeRay updates the status: a new version, and no call of the webhook.
UpdateStatus ==
    /\ Exists(cluster)
    /\ edits < MaxEdits
    /\ edits' = edits + 1
    /\ Store(cluster)
    /\ UNCHANGED <<uids, cached, notify, ctrlVars, objVars, crb, pod, faults>>

Delete ==
    /\ Exists(cluster)
    /\ ~cluster.del
    /\ \E foreground \in Foreground :
          Store([cluster EXCEPT !.del = TRUE, !.other = foreground])
    /\ UNCHANGED <<uids, cached, notify, ctrlVars, objVars, crb, pod, edits,
                    faults>>

\* The garbage collector removes the foregroundDeletion finalizer.  It waits
\* for no object: the owner references do not set blockOwnerDeletion.
ReleaseForeground ==
    /\ Exists(cluster)
    /\ cluster.other
    /\ Store(Default([cluster EXCEPT !.other = FALSE]))
    /\ UNCHANGED <<uids, cached, notify, ctrlVars, objVars, crb, pod, edits,
                    faults>>

\* Objects are deleted, given by kind and name, and the informers are told.
Erase(gone) ==
    /\ gone # {}
    /\ obj' = [k \in Kinds |-> [n \in Names |->
                  IF <<k, n>> \in gone THEN 0 ELSE obj[k][n]]]
    /\ caKey' = [n \in Names |->
                  IF <<"caSecret", n>> \in gone THEN 0 ELSE caKey[n]]
    /\ saPull' = [n \in Names |-> <<"serviceAccount", n>> \notin gone /\ saPull[n]]
    /\ peers' = [n \in Names |->
                  IF <<"headPolicy", n>> \in gone THEN {} ELSE peers[n]]
    /\ notify' = TRUE
    /\ UNCHANGED <<kubeRay, dsci, apiVars, cached, ctrlVars, crb, pod, edits>>

\* The garbage collector deletes what belongs to a cluster that is gone, or
\* that is being deleted in the foreground.
Collect ==
    /\ \E sweep \in Sweeps :
          Erase({o \in sweep \X Names :
                    /\ obj[o[1]][o[2]] # 0
                    /\ \/ obj[o[1]][o[2]] # cluster.uid
                       \/ cluster.del /\ cluster.other})
    /\ UNCHANGED faults

\* Someone deletes an object that the controller had created.
DeleteObject ==
    /\ faults < MaxFaults
    /\ faults' = faults + 1
    /\ \E k \in Kinds, n \in Names : obj[k][n] # 0 /\ Erase({<<k, n>>})

DeleteBinding ==
    /\ faults < MaxFaults
    /\ faults' = faults + 1
    /\ \E n \in Names : /\ crb[n] = "present"
                        /\ crb' = [crb EXCEPT ![n] = "absent"]
    /\ notify' = TRUE
    /\ UNCHANGED <<apiVars, cached, ctrlVars, objVars, pod, edits>>

\* A ClusterRoleBinding deleted in the foreground finally disappears.
BindingGone ==
    /\ \E n \in Names : /\ crb[n] = "terminating"
                        /\ crb' = [crb EXCEPT ![n] = "absent"]
    /\ notify' = TRUE
    /\ UNCHANGED <<apiVars, cached, ctrlVars, objVars, pod, edits, faults>>

\* OpenShift adds a pull secret to a ServiceAccount some time after it sees it.
AddPullSecret ==
    /\ IsOpenShift
    /\ \E n \in Names : /\ obj["serviceAccount"][n] # 0
                        /\ ~saPull[n]
                        /\ saPull' = [saPull EXCEPT ![n] = TRUE]
    /\ notify' = TRUE
    /\ UNCHANGED <<apiVars, cached, ctrlVars, obj, caKey, kubeRay, dsci, peers,
                    crb, pod, edits, faults>>

\* The KubeRay operator moves, goes or comes; the DSCInitialization is edited,
\* created or deleted: nothing tells the controller.
MoveKubeRay ==
    /\ edits < MaxEdits
    /\ edits' = edits + 1
    /\ kubeRay' \in KubeRayHomes \ {kubeRay}
    /\ UNCHANGED <<apiVars, cached, notify, ctrlVars, obj, caKey, saPull, dsci,
                    peers, crb, pod, faults>>

EditDSCI ==
    /\ edits < MaxEdits
    /\ edits' = edits + 1
    /\ dsci' \in DSCIs \ {dsci}
    /\ UNCHANGED <<apiVars, cached, notify, ctrlVars, obj, caKey, saPull, kubeRay,
                    peers, crb, pod, faults>>

\* KubeRay creates the head Pod.  With OAuth its ServiceAccount must exist, and
\* the Pod gets the pull secret that account has at this moment.
CreateHeadPod ==
    /\ Exists(cluster) /\ ~cluster.del /\ ~cluster.susp
    /\ pod.is = "none"
    /\ OAuthEnabled => obj["serviceAccount"][NameOf(cluster)] # 0
    /\ pod' = [NoPod EXCEPT
                 !.is = IF OAuthEnabled /\ ~cluster.pull /\ saPull[NameOf(cluster)]
                           THEN NameOf(cluster) ELSE "bare"]
    /\ UNCHANGED <<apiVars, cached, notify, ctrlVars, objVars, crb, edits, faults>>

\* A Pod that is deleted terminates first, and is gone some time later.
DeleteHeadPod ==
    /\ ~Exists(cluster) \/ cluster.del \/ cluster.susp
    /\ pod.is \notin {"none", "leaving"}
    /\ pod' = [pod EXCEPT !.is = "leaving"]
    /\ UNCHANGED <<apiVars, cached, notify, ctrlVars, objVars, crb, edits, faults>>

HeadPodGone ==
    /\ pod.is = "leaving"
    /\ pod' = NoPod
    /\ UNCHANGED <<apiVars, cached, notify, ctrlVars, objVars, crb, edits, faults>>

-----------------------------------------------------------------------------
(* The manager: informers, work queue, restarts.                           *)

\* The informer receives the next version of the RayCluster.
Deliver ==
    /\ \E e \in watch :
          /\ \A f \in watch : e.rv <= f.rv
          /\ cached' = e
          /\ watch' = watch \ {e}
    /\ queued' = TRUE
    /\ UNCHANGED <<cluster, uids, notify, pc, local, mem, objVars, crb, pod,
                    edits, faults>>

\* An event of an owned object, or of a labelled ClusterRoleBinding, enqueues
\* the cluster it names.
DeliverObject ==
    /\ notify
    /\ notify' = FALSE
    /\ queued' = TRUE
    /\ UNCHANGED <<apiVars, cached, pc, local, mem, objVars, crb, pod, edits,
                    faults>>

\* The informer's periodic resync enqueues every cached RayCluster.
Resync ==
    /\ Exists(cached)
    /\ ~queued
    /\ queued' = TRUE
    /\ UNCHANGED <<apiVars, cached, notify, pc, local, mem, objVars, crb, pod,
                    edits, faults>>

\* The operator stops anywhere and starts again: it lists the RayClusters and
\* enqueues them, and has forgotten everything else.
Restart ==
    /\ faults < MaxFaults
    /\ faults' = faults + 1
    /\ Requeue
    /\ cached' = cluster
    /\ watch' = {}
    /\ notify' = FALSE
    /\ UNCHANGED <<cluster, uids, objVars, crb, pod, edits>>

-----------------------------------------------------------------------------
(* Reconcile.                                                              *)

\* Variants: the finalizer is never added; it is removed before the binding.
FirstStepNoFinalizer(c) ==
    IF c.del /\ c.fin THEN "deleteCRB" ELSE AfterFinalizer(c)

FirstStepNoCleanup(c) ==
    IF c.del /\ c.fin THEN "removeFinalizer"
    ELSE IF c.fin \/ c.del THEN AfterFinalizer(c) ELSE "addFinalizer"

\* Reconcile reads the cluster from the cache and decides what to do first.
\* A cluster being deleted without the OAuth finalizer is reconciled like a
\* live one.
FirstStep(c) ==
    IF ~c.del
       THEN IF c.fin THEN AfterFinalizer(c) ELSE "addFinalizer"
       ELSE IF c.fin THEN "deleteCRB" ELSE AfterFinalizer(c)

Start ==
    /\ pc = "idle"
    /\ queued
    /\ queued' = FALSE
    /\ IF Exists(cached) THEN /\ local' = cached
                              /\ pc' = FirstStep(cached)
                         ELSE UNCHANGED <<local, pc>>
    /\ UNCHANGED <<apiVars, cached, notify, mem, objVars, crb, pod, edits, faults>>

\* On success the client overwrites its copy with the server's answer.
AddFinalizer ==
    /\ pc = "addFinalizer"
    /\ Current
    /\ Store(Default([local EXCEPT !.fin = TRUE]))
    /\ local' = cluster'
    /\ pc' = AfterFinalizer(local')
    /\ UNCHANGED <<uids, cached, notify, queued, mem, objVars, crb, pod, edits,
                    faults>>

\* Variants: the binding is looked for under its old name; the reconciliation
\* ends with the deletion of the binding.
DeleteCRBOldName ==
    /\ pc = "deleteCRB"
    /\ crb' = [crb EXCEPT !["old"] = IF @ = "absent" THEN @ ELSE "terminating"]
    /\ notify' = (notify \/ crb["old"] = "present")
    /\ Goto("removeFinalizer")
    /\ UNCHANGED <<apiVars, cached, objVars, pod, edits, faults>>

DeleteCRBOnly ==
    /\ pc = "deleteCRB"
    /\ LET n == NameOf(local)
       IN  /\ crb' = [crb EXCEPT ![n] = IF @ = "absent" THEN @ ELSE "terminating"]
           /\ notify' = (notify \/ crb[n] = "present")
    /\ Goto("idle")
    /\ UNCHANGED <<apiVars, cached, objVars, pod, edits, faults>>

DeleteCRB ==
    /\ pc = "deleteCRB"
    /\ LET n == NameOf(local)
       IN  /\ crb' = [crb EXCEPT ![n] = IF @ = "absent" THEN @ ELSE "terminating"]
           /\ notify' = (notify \/ crb[n] = "present")
    /\ Goto("removeFinalizer")
    /\ UNCHANGED <<apiVars, cached, objVars, pod, edits, faults>>

RemoveFinalizer ==
    /\ pc = "removeFinalizer"
    /\ Current
    /\ Store(Default([local EXCEPT !.fin = FALSE]))
    /\ Goto("idle")
    /\ UNCHANGED <<uids, cached, notify, objVars, crb, pod, edits, faults>>

\* The update of the finalizers is refused: the cluster has changed or is gone.
Conflict ==
    /\ pc \in {"addFinalizer", "removeFinalizer"}
    /\ ~Current
    /\ Requeue
    /\ UNCHANGED <<apiVars, cached, notify, objVars, crb, pod, edits, faults>>

\* A key that no CA Secret holds: the outcome of generateCACertificate.
NewKey == CHOOSE key \in 1..3 : \A n \in Names : key # caKey[n]

\* Variant: every reconciliation generates a key.
GetCAAlwaysNew ==
    /\ pc = "caGet"
    /\ mem' = [mem EXCEPT !.key = NewKey]
    /\ pc' = "caSecret"
    /\ UNCHANGED <<apiVars, cached, notify, queued, local, objVars, crb, pod,
                    edits, faults>>

\* The CA Secret is read; a new key is generated only if there is no Secret.
GetCA ==
    /\ pc = "caGet"
    /\ LET n == NameFor("caSecret", local)
       IN  mem' = [mem EXCEPT !.key = IF obj["caSecret"][n] = 0
                                         THEN NewKey ELSE caKey[n]]
    /\ pc' = "caSecret"
    /\ UNCHANGED <<apiVars, cached, notify, queued, local, objVars, crb, pod,
                    edits, faults>>

\* Variant: the owner reference is forgotten.
ApplyNoOwner(k) ==
    /\ pc = k
    /\ obj' = [obj EXCEPT ![k][NameFor(k, local)] = -1]
    /\ notify' = TRUE
    /\ Goto(After(k, local))
    /\ UNCHANGED <<apiVars, cached, crb, caKey, saPull, kubeRay, dsci, peers, pod,
                    edits, faults>>

\* A server-side apply: the object is created, or taken over by its new owner.
Apply(k) ==
    /\ pc = k
    /\ LET n == NameFor(k, local)
       IN  /\ obj' = [obj EXCEPT ![k][n] = local.uid]
           /\ caKey' = IF k = "caSecret" THEN [caKey EXCEPT ![n] = mem.key]
                                         ELSE caKey
           /\ peers' = IF k = "headPolicy" THEN [peers EXCEPT ![n] = mem.ns]
                                           ELSE peers
           /\ notify' = (notify \/ obj' # obj \/ caKey' # caKey \/ peers' # peers)
    /\ Goto(After(k, local))
    /\ UNCHANGED <<apiVars, cached, crb, saPull, kubeRay, dsci, pod, edits, faults>>

ApplyCRB ==
    /\ pc = "crb"
    /\ LET n == NameOf(local)
       IN  /\ crb' = [crb EXCEPT ![n] = IF @ = "absent" THEN "present" ELSE @]
           /\ notify' = (notify \/ crb[n] = "absent")
    /\ Goto("clientRoute")
    /\ UNCHANGED <<apiVars, cached, objVars, pod, edits, faults>>

\* deleteHeadPodIfMissingImagePullSecrets, request by request.
GetServiceAccount ==
    /\ pc = "saGet"
    /\ LET n == NameFor("serviceAccount", local)
       IN  IF obj["serviceAccount"][n] = 0
              THEN Requeue
              ELSE /\ mem' = [mem EXCEPT !.pull = saPull[n]]
                   /\ pc' = "podList"
                   /\ UNCHANGED <<queued, local>>
    /\ UNCHANGED <<apiVars, cached, notify, objVars, crb, pod, edits, faults>>

\* Variant: any pull secret will do.
ListHeadPodsAnySecret ==
    /\ pc = "podList"
    /\ IF pod.is = "bare" /\ mem.pull
          THEN Goto("podDelete") /\ pod' = [pod EXCEPT !.listed = TRUE]
          ELSE Goto("crb") /\ UNCHANGED pod
    /\ UNCHANGED <<apiVars, cached, notify, objVars, crb, edits, faults>>

\* A Pod is found that lacks a secret of the account, or none is.  A Pod that is
\* leaving is found too, with whatever secrets it has.
ListHeadPods ==
    /\ pc = "podList"
    /\ \/ /\ mem.pull
          /\ pod.is \notin {"none", NameFor("serviceAccount", local)}
          /\ Goto("podDelete")
          /\ pod' = [pod EXCEPT !.listed = TRUE]
       \/ /\ mem.pull =>
                pod.is \in {"none", "leaving", NameFor("serviceAccount", local)}
          /\ Goto("crb")
          /\ UNCHANGED pod
    /\ UNCHANGED <<apiVars, cached, notify, objVars, crb, edits, faults>>

\* The delete goes by the name of the Pod.  KubeRay may have replaced the Pod
\* since: if it gives Pods names of their own the delete fails, if it uses one
\* name again the new Pod is hit.  A Pod that is leaving already just leaves.
DeletePod ==
    /\ pc = "podDelete"
    /\ \/ /\ pod.is = "none" \/ ~pod.listed
          /\ Requeue
          /\ UNCHANGED pod
       \/ /\ pod.is # "none"
          /\ Goto("crb")
          /\ pod' = [is |-> "leaving", listed |-> FALSE]
    /\ UNCHANGED <<apiVars, cached, notify, objVars, crb, edits, faults>>

\* Variant: the Pods are not looked at.
ListKubeRayPodsDefault ==
    /\ pc = "kubeRayPods"
    /\ pc' = IF IsOpenShift THEN "dsci" ELSE "headPolicy"
    /\ mem' = [mem EXCEPT !.ns = {kubeRayDefaultNamespace}]
    /\ UNCHANGED <<apiVars, cached, notify, queued, local, objVars, crb, pod,
                    edits, faults>>

\* getKubeRayOperatorNamespace: the namespace of the first Pod of the KubeRay
\* operator, or a default if it has none.
ListKubeRayPods ==
    /\ pc = "kubeRayPods"
    /\ pc' = IF IsOpenShift THEN "dsci" ELSE "headPolicy"
    /\ mem' = [mem EXCEPT !.ns = IF kubeRay = "none"
                                   THEN {kubeRayDefaultNamespace} ELSE {kubeRay}]
    /\ UNCHANGED <<apiVars, cached, notify, queued, local, objVars, crb, pod,
                    edits, faults>>

\* Variant: the namespace in the DSCInitialization is not looked at.
GetDSCIDefault ==
    /\ pc = "dsci"
    /\ pc' = "headPolicy"
    /\ mem' = [mem EXCEPT !.ns = {odhNamespace, rhdsAppsNamespace}]
    /\ UNCHANGED <<apiVars, cached, notify, queued, local, objVars, crb, pod,
                    edits, faults>>

\* On OpenShift the DSCInitialization overrides what the Pods say, and so do two
\* defaults if it is missing.  Its kind may not be missing: reading a kind that
\* the API server does not serve is not a NotFound error.
GetDSCI ==
    /\ pc = "dsci"
    /\ IF DSCIServed
          THEN /\ pc' = "headPolicy"
               /\ mem' = [mem EXCEPT !.ns = IF dsci = "none"
                             THEN {odhNamespace, rhdsAppsNamespace} ELSE {dsci}]
               /\ UNCHANGED <<queued, local>>
          ELSE Requeue
    /\ UNCHANGED <<apiVars, cached, notify, objVars, crb, pod, edits, faults>>

\* Variant: every error is logged and dropped.
FailDropped ==
    /\ pc \notin {"idle"} \cup Policies
    /\ faults < MaxFaults
    /\ faults' = faults + 1
    /\ Goto("idle")
    /\ UNCHANGED <<apiVars, cached, notify, objVars, crb, pod, edits>>

\* A request fails.  Reconcile returns the error and the key is retried ...
Fail ==
    /\ pc \notin {"idle"} \cup Policies
    /\ faults < MaxFaults
    /\ faults' = faults + 1
    /\ Requeue
    /\ UNCHANGED <<apiVars, cached, notify, objVars, crb, pod, edits>>

\* ... except for the NetworkPolicies: the error is logged and dropped.
FailPolicy ==
    /\ pc \in Policies
    /\ faults < MaxFaults
    /\ faults' = faults + 1
    /\ Goto(After(pc, local))
    /\ UNCHANGED <<apiVars, cached, notify, objVars, crb, pod, edits>>

-----------------------------------------------------------------------------
(* The specification.                                                      *)

\* The operator starts on an empty cluster, or over a RayCluster whose objects
\* an older release created under the old names.
LegacyState ==
    [NoCluster EXCEPT !.uid = 1, !.rv = 1, !.fin = TRUE]

\* The namespaces that looking for the KubeRay operator yields: on OpenShift by
\* the DSCInitialization, elsewhere by its Pods.
Lookup ==
    CASE IsOpenShift /\ dsci # "none"     -> {dsci}
      [] IsOpenShift /\ dsci = "none"     -> {odhNamespace, rhdsAppsNamespace}
      [] ~IsOpenShift /\ kubeRay # "none" -> {kubeRay}
      [] ~IsOpenShift /\ kubeRay = "none" -> {kubeRayDefaultNamespace}

OldRelease(k) ==
    IF LegacyCluster /\ k \in Desired(LegacyState) THEN 1 ELSE 0

Init ==
    /\ cluster = IF LegacyCluster THEN LegacyState ELSE NoCluster
    /\ uids = cluster.uid
    /\ watch = {}
    /\ cached = cluster
    /\ notify = FALSE
    /\ queued = LegacyCluster
    /\ pc = "idle"
    /\ local = NoCluster
    /\ mem = EmptyMem
    /\ obj = [k \in Kinds |-> [n \in Names |->
                 IF n = NameFor(k, LegacyState) THEN OldRelease(k) ELSE 0]]
    /\ crb = [n \in Names |-> IF LegacyCluster /\ OAuthBranch(LegacyState) /\ n = "old"
                                 THEN "present" ELSE "absent"]
    /\ caKey = obj["caSecret"]
    /\ saPull = [n \in Names |-> FALSE]
    /\ kubeRay \in KubeRayHomes
    /\ dsci \in DSCIs
    /\ peers = [n \in Names |-> IF obj["headPolicy"][n] = 0 THEN {} ELSE Lookup]
    /\ pod = NoPod
    /\ edits = 0
    /\ faults = 0

Request ==
    \/ Start
    \/ AddFinalizer \/ DeleteCRB \/ RemoveFinalizer \/ Conflict
    \/ GetCA
    \/ \E k \in Kinds : Apply(k)
    \/ ApplyCRB
    \/ GetServiceAccount \/ ListHeadPods \/ DeletePod
    \/ ListKubeRayPods \/ GetDSCI

Manager == Deliver \/ DeliverObject \/ Resync

Kubernetes ==
    ReleaseForeground \/ Collect \/ BindingGone \/ AddPullSecret
        \/ CreateHeadPod \/ DeleteHeadPod \/ HeadPodGone
        \/ MoveKubeRay \/ EditDSCI

Users == Create \/ Edit \/ UpdateStatus \/ Delete

Faults == DeleteObject \/ DeleteBinding \/ Restart \/ Fail \/ FailPolicy

Next == Request \/ Manager \/ Kubernetes \/ Users \/ Faults

Spec == Init /\ [][Next]_vars

-----------------------------------------------------------------------------
(* Properties.                                                             *)

\* The type invariant: the values each variable of the model ranges over.
TypeOK ==
    /\ cluster \in Clusters
    /\ uids \in Nat
    /\ watch \subseteq Clusters
    /\ cached \in Clusters
    /\ notify \in BOOLEAN
    /\ queued \in BOOLEAN
    /\ pc \in Steps
    /\ local \in Clusters
    /\ mem \in MemType
    /\ obj \in [Kinds -> [Names -> Nat]]
    /\ crb \in [Names -> {"absent", "present", "terminating"}]
    /\ caKey \in [Names -> Nat]
    /\ saPull \in [Names -> BOOLEAN]
    /\ kubeRay \in KubeRayHomes
    /\ dsci \in DSCIs
    /\ peers \in [Names -> SUBSET Namespaces]
    /\ pod \in PodType
    /\ edits \in Nat
    /\ faults \in Nat

\* While Reconcile applies objects for a cluster that it believes to be live,
\* that cluster exists and carries the finalizer, however old Reconcile's copy
\* is (raycluster_controller.go, lines 135-144 precede every apply).
FinalizerGuardsApply ==
    pc \in ApplySteps /\ ~local.del => cluster.uid = local.uid /\ cluster.fin

\* A ClusterRoleBinding exists only as long as its cluster does and carries
\* the finalizer: none outlives the cluster (lines 146-165 and 229).
NoOrphanCRB ==
    \A n \in Names : crb[n] = "present" => Exists(cluster) /\ cluster.fin

\* The finalizer is removed only from a cluster whose ClusterRoleBinding, by
\* the name the cluster has now, is deleted (lines 146-165).
ReleaseOnlyUnbound ==
    [][cluster.fin /\ ~cluster'.fin => crb[NameOf(cluster)] # "present"]_vars

\* The key in a CA Secret never changes as long as the Secret exists: the
\* certificates signed with it stay valid (lines 168-194).
CAKeyStable ==
    [][\A n \in Names : caKey[n] # 0 /\ caKey'[n] # 0 => caKey'[n] = caKey[n]]_vars

\* Nothing will make the controller reconcile, short of the next resync.
Quiescent ==
    /\ pc = "idle"
    /\ ~queued
    /\ ~notify
    /\ watch = {}
    /\ \A n \in Names : crb[n] # "terminating"

Applied(k) == obj[k][NameFor(k, cluster)] = cluster.uid

\* When the controller rests, a live cluster has the finalizer and every object
\* Reconcile is to create for it, NetworkPolicies aside, by the name the cluster
\* has now and owned by this cluster and no earlier one (lines 123-309).
QuiescentConverged ==
    Quiescent /\ Exists(cluster) /\ ~cluster.del =>
        /\ cluster.fin
        /\ \A k \in Desired(cluster) \ Policies : Applied(k)
        /\ OAuthBranch(cluster) => crb[NameOf(cluster)] = "present"

\* When the controller rests and the cluster is gone, so are its
\* ClusterRoleBindings (raycluster_controller_test.go, line 265).
QuiescentUnbound ==
    Quiescent /\ ~Exists(cluster) => \A n \in Names : crb[n] = "absent"

\* Where no request fails (MaxFaults = 0) the controller rests only when a live
\* cluster has its NetworkPolicies by the name the cluster has now: what keeps
\* them from being applied is an error and nothing else (lines 273-306).
QuiescentIsolated ==
    Quiescent /\ Exists(cluster) /\ ~cluster.del => \A k \in Policies : Applied(k)

\* When the controller rests, no head Pod is left, other than one that is
\* leaving, without the pull secret of its ServiceAccount, whether KubeRay gives
\* Pods names of their own or not (lines 222-227 and 624-652).
QuiescentPodCanPull ==
    LET n == NameOf(cluster)
    IN  Quiescent /\ Exists(cluster) /\ ~cluster.del /\ OAuthBranch(cluster)
          /\ ~cluster.pull /\ saPull[n] => pod.is \in {"none", "leaving", n}

\* When the controller rests, the ServiceAccount, the Secrets and the Service
\* that the webhook's Default wrote into the Pod templates of a running cluster
\* exist (raycluster_webhook.go, lines 83-136).
Referenced ==
    (IF OAuthEnabled THEN {"serviceAccount", "oauthSecret", "service"} ELSE {}) \cup
    (IF MTLSEnabled THEN {"caSecret"} ELSE {})

QuiescentReferencesExist ==
    Quiescent /\ Exists(cluster) /\ ~cluster.del /\ ~cluster.susp =>
        \A k \in Referenced : Applied(k)

-----------------------------------------------------------------------------
(* Why the finalizer works although Reconcile acts on stale copies.        *)

\* The copies of the cluster that Reconcile has or will come to have.
Copies == watch \cup {cached, local}

\* The informer receives the versions in order, and each of them once.
VersionsInOrder ==
    /\ cached.rv <= cluster.rv
    /\ local.rv <= cluster.rv
    /\ \A e \in watch : cached.rv < e.rv /\ e.rv <= cluster.rv
    /\ \A e, f \in watch : e.rv = f.rv => e = f

\* A copy with the current version number is the current cluster.
VersionsIdentify ==
    /\ \A e \in Copies : Exists(e) /\ e.rv = cluster.rv => e = cluster
    /\ ~Exists(cluster) => ~cluster.fin

\* A copy that shows a live cluster with the finalizer is true to this day:
\* the finalizer is removed only after Reconcile saw the deletion, hence after
\* every older version left the informer.
CopiesGuarded ==
    \A e \in Copies :
        Exists(e) /\ e.fin /\ ~e.del => cluster.uid = e.uid /\ cluster.fin

\* What Reconcile knows of its copy at each step.
StepKnows ==
    /\ pc # "idle" => Exists(local)
    /\ pc = "addFinalizer" => ~local.fin /\ ~local.del
    /\ pc \in {"deleteCRB", "removeFinalizer"} =>
          local.fin /\ local.del /\ local.rv <= cached.rv
    /\ pc = "removeFinalizer" => crb[NameOf(local)] # "present"
    /\ pc \in ApplySteps => (local.fin /\ ~local.del) \/ (local.del /\ ~local.fin)

\* The inductive invariant behind FinalizerGuardsApply and ReleaseOnlyUnbound:
\* what the informer and Reconcile know of the cluster (lines 128-165).
FinalizerInv ==
    /\ TypeOK
    /\ VersionsInOrder
    /\ VersionsIdentify
    /\ CopiesGuarded
    /\ StepKnows

\* Without foreground deletion and without clusters of an older release, no
\* cluster is ever seen deleted but without the finalizer, or by an old name.
Ordinary(c) == Exists(c) => c.ann /\ ~c.other /\ (c.del => c.fin)

\* The inductive invariant behind NoOrphanCRB, for operators that meet neither
\* foreground deletion nor clusters of an older release (lines 128-165, 229).
BindingInv ==
    /\ FinalizerInv
    /\ \A e \in Copies \cup {cluster} : Ordinary(e)
    /\ crb["old"] # "present"
    /\ crb["new"] = "present" => Exists(cluster) /\ cluster.fin

-----------------------------------------------------------------------------
(* Why the controller rests only when its work is done.                    *)

\* Something will make it reconcile once more.
Owed == queued \/ notify \/ watch # {}

\* The informer knows the cluster, or is going to.
InformerCurrent == IF watch = {} THEN cached = cluster ELSE cluster \in watch

\* Reconcile is in the branch that its copy of the cluster calls for.
OAuthSteps == OAuthKinds \cup {"saGet", "podList", "podDelete", "crb"}

BranchKnown ==
    /\ pc \in OAuthSteps => OAuthBranch(local)
    /\ pc \in IngressKinds => IngressBranch(local)

\* What a reconciliation has to create: an error of a NetworkPolicy is dropped,
\* so these can be counted on only if no request fails.
Due(c) == IF MaxFaults = 0 THEN Desired(c) ELSE Desired(c) \ Policies

\* The kinds that are applied before a step, if they are applied at all.
Earlier(step) ==
    CASE step \in {"caGet", "caSecret"} -> {}
      [] step \in {"route", "ingress"}  -> {"caSecret"}
      [] step = "oauthSecret"          -> {"caSecret", "route"}
      [] step = "service"              -> {"caSecret", "route", "oauthSecret"}
      [] step = "serviceAccount"       -> {"caSecret", "route", "oauthSecret", "service"}
      [] step \in {"saGet", "podList", "podDelete", "crb", "clientRoute"} ->
             {"caSecret", "route", "oauthSecret", "service", "serviceAccount"}
      [] step = "clientIngress"        -> {"caSecret", "ingress"}
      [] step \in {"kubeRayPods", "dsci", "headPolicy"} -> Kinds \ Policies
      [] step = "workersPolicy"        -> Kinds \ {"workersPolicy"}
      [] step = "idle"                 -> Kinds

\* The steps past the ClusterRoleBinding.
PastBinding == {"clientRoute", "kubeRayPods", "dsci", "idle"} \cup Policies

\* The head Pod, if there is one, has the pull secret it needs.
PodCanPull(c) ==
    OAuthBranch(c) /\ ~c.pull /\ saPull[NameOf(c)] =>
        pod.is \in {"none", "leaving", NameOf(c)}

\* What a reconciliation of c that comes to a step has achieved.
DoneBy(step, c) ==
    /\ \A k \in Due(c) \cap Earlier(step) : obj[k][NameFor(k, c)] = c.uid
    /\ step \in PastBinding /\ OAuthBranch(c) => crb[NameOf(c)] # "absent"
    /\ step \in PastBinding \cup {"crb"} => PodCanPull(c)
    /\ step = "podList" => mem.pull = saPull[NameOf(c)]

\* The reconciliation under way, or the last one, has dealt with the cluster as
\* it is, and what it has done so far still stands.
WorkStands ==
    /\ pc # "idle" => local = cluster
    /\ pc \in ApplySteps => DoneBy(pc, cluster)
    /\ pc = "idle" /\ Exists(cluster) /\ ~cluster.del =>
          cluster.fin /\ DoneBy("idle", cluster)

\* The inductive invariant behind the Quiescent properties: the work stands
\* unless another reconciliation is owed (lines 123-309 and 677-706).
ConvergenceInv ==
    /\ FinalizerInv
    /\ InformerCurrent
    /\ BranchKnown
    /\ ~Owed => WorkStands

\* The inductive invariant behind CAKeyStable: a Secret exists exactly if it has
\* a key, and the key Reconcile is about to write is that of the Secret, if
\* there is one (lines 168-194).
CAKeyInv ==
    /\ \A n \in Names : caKey[n] # 0 <=> obj["caSecret"][n] # 0
    /\ pc = "caSecret" => mem.key # 0 /\ caKey[NameOf(local)] \in {0, mem.key}

-----------------------------------------------------------------------------
(* The finalizer protocol that the controller implements.                  *)

Life == CASE ~Exists(cluster) -> "absent"
          [] Exists(cluster) /\ ~cluster.fin -> "bare"
          [] Exists(cluster) /\ cluster.fin /\ ~cluster.del -> "guarded"
          [] Exists(cluster) /\ cluster.fin /\ cluster.del -> "closing"

Bound == \E n \in Names : crb[n] = "present"

Protocol == INSTANCE FinalizerProtocol WITH life <- Life, bound <- Bound

\* The controller, users, KubeRay and failures together do nothing that the
\* finalizer protocol does not allow.
ImplementsProtocol == Protocol!Spec

-----------------------------------------------------------------------------
(* Liveness.                                                               *)

\* The controller's goroutines keep running, the informers deliver, and the
\* garbage collector does its work.  Users, OpenShift, KubeRay and faults owe
\* nothing, and neither does the resync, whose period is ten hours.
Fairness ==
    /\ WF_vars(Request)
    /\ WF_vars(Deliver)
    /\ WF_vars(DeliverObject)
    /\ WF_vars(ReleaseForeground)
    /\ WF_vars(BindingGone)
    /\ WF_vars(Collect)

FairSpec == Spec /\ Fairness

\* A cluster that is deleted goes away: the controller always comes to remove
\* its finalizer, whatever conflicts, failures and restarts intervene
\* (lines 146-165).
DeletionCompletes ==
    \A u \in 1..MaxUid : cluster.uid = u /\ cluster.del ~> cluster.uid # u

\* In the end a live cluster has everything Reconcile is to create for it, the
\* NetworkPolicies aside, and keeps it (lines 123-267).
Converges ==
    <>[](Exists(cluster) /\ ~cluster.del =>
            /\ \A k \in Desired(cluster) \ Policies : Applied(k)
            /\ OAuthBranch(cluster) => crb[NameOf(cluster)] = "present")

\* In the end a live cluster has its NetworkPolicies too, provided the informer
\* resyncs: a dropped error is made good then (lines 273-306).
ResyncIsolates ==
    WF_vars(Resync) =>
        <>[](Exists(cluster) /\ ~cluster.del => \A k \in Policies : Applied(k))

\* In the end the head NetworkPolicy of a live cluster admits the namespaces that
\* looking for the KubeRay operator yields now, and no former ones, provided the
\* informer resyncs: nothing else makes the controller look again.  On OpenShift
\* that is what the DSCInitialization says, not where Pods run (lines 273-302 and
\* 330-354).
ResyncFollowsLookup ==
    WF_vars(Resync) =>
        <>[](Exists(cluster) /\ ~cluster.del =>
                peers[NameFor("headPolicy", cluster)] = Lookup)
=============================================================================
