# CodeFlare operator: TLA+ models and proofs

The CodeFlare operator manages RayClusters on Kubernetes: it protects their
dashboards, gives them a certificate authority, isolates their Pods and rewrites
their Pod templates on admission. This directory models that code in TLA+,
checks it with TLC on small instances and proves every safety property that the
passing runs check, for all instances, with TLAPS. Line numbers refer to `src/pkg/controllers/` unless a file is named.

## 1. Inventory

| Component | State | Operations | Interacts with |
|---|---|---|---|
| RayCluster controller (`raycluster_controller.go`) | none between reconciliations, except a random cookie salt; within one, its copy of the RayCluster and what it read since | `Reconcile`: finalizer, CA Secret, OAuth objects or Ingresses, head Pod check, ClusterRoleBinding, NetworkPolicies; `SetupWithManager` | API server (direct and cached clients), informers, work queue, garbage collector, KubeRay |
| Finalizer protocol (lines 135-166, 229) | finalizer on the RayCluster, the ClusterRoleBinding | add, bind, unbind, release | garbage collector, users |
| RayCluster webhook (`raycluster_webhook.go`, `upsert`/`contains` of `support.go`) | none | `Default`, `ValidateCreate`, `ValidateUpdate`, `ValidateDelete` | API server, on every create and update of the RayCluster (not of its status), the controller's own updates included |
| Naming (`*NameFromCluster`, `RCCUniqueName`, `seededHash`) | the version annotation | old names without the annotation, hashed names with it | controller and webhook must agree |
| Start-up (`src/main.go`) | configuration, ingress domain, `certsReady`, detected platform | load or create the ConfigMap, find the ingress domain, detect OpenShift, rotate certificates, wait for the RayCluster CRD, set up, probes, leader election | manager, cert-controller, discovery, kubelet, other instances of the operator |
| Several operators and clusters at once | CA Secret, OAuth Secret and ClusterRoleBinding that they share; a cookie salt per process | the same `Reconcile`, by operators that overlap in a rolling update | each other, through events of what they overwrite |
| Configuration types (`src/pkg/config`) | what start-up and the controller decide by | | start-up |
| Log sink (`support.go`), AppWrapper (an imported library), manifests, tests | | | |

What is hard here is not an algorithm. `Reconcile` is a sequence of up to fifteen
requests made from a cached copy that may be old, and between any two of them
users edit, suspend, delete and re-create the cluster, KubeRay updates its status,
OpenShift adds pull secrets, the garbage collector collects, requests fail and the
operator restarts. The ClusterRoleBinding is not in the cluster's namespace, so it
can have no owner: only the finalizer protocol removes it. The names of objects
change in the middle of a cluster's life when the webhook annotates a cluster
left by an older release. `PROJECT.json` lists these hazards line by line.

What makes the components correct:

* controller - applies objects only under its finalizer; releases the finalizer
  only when the binding is deleted; never replaces the CA key of a Secret that
  exists; rests only when the work is done; completes deletions;
* webhook - refuses nothing but what it has a reason to refuse, above all not the
  removal of finalizers; what it accepts is complete; running again changes
  nothing; what users wrote under their own names stays;
* names - objects of different clusters have different names, also if hashes collide;
* start-up - every instance works with the stored configuration and ingress domain, serves only with
  certificates, and comes up once the RayCluster API and a usable configuration are there;
* operators that overlap - keys and cookies settle, no cluster loses its binding,
  and the work comes to an end.

## 2. Modules

| Module | Models |
|---|---|
| `RayClusterController` | one RayCluster name, the controller, and the Kubernetes around it |
| `FinalizerProtocol` | abstract specification: what the finalizer promises |
| `MCRayClusterController` | instances for TLC |
| `RayClusterControllerProofs` | types, the finalizer argument, the refinement |
| `ConvergenceProofs` | why the controller rests only when its work is done; the CA key |
| `RayClusterWebhook`, `MCRayClusterWebhook`, `RayClusterWebhookProofs` | admission; instances for TLC; theorems |
| `OperatorStartup`, `MCOperatorStartup`, `OperatorStartupProofs` | `main.go`, in several instances; an instance for TLC; theorems |
| `Names`, `NamesProofs` | the names of the objects of a cluster; theorems |
| `Contention`, `MCContention`, `ContentionProofs` | several operators and several clusters; uses `Names` |

### RayClusterController

Every request of `Reconcile` to the API server is one action; `pc` names the
request about to be sent, `local` is the Go variable `cluster`, `mem` what else
is held across requests (the CA key, the ServiceAccount's pull secrets, the namespaces
of the KubeRay operator). `Start`
is the cached read and the decision of lines 128-166; `AddFinalizer`, `DeleteCRB`
and `RemoveFinalizer` are the finalizer branches; `GetCA` and `Apply("caSecret")`
lines 168-194; `Apply(k)` every server-side apply, in the order `After` gives;
`GetServiceAccount`, `ListHeadPods` and `DeletePod` are
`deleteHeadPodIfMissingImagePullSecrets`; `ListKubeRayPods` and `GetDSCI` lines
273-296. An error that is returned is `Fail` (or `Conflict` for an update from an
old version) and puts the key back into the queue; an error of a NetworkPolicy is
`FailPolicy`, which goes on, as lines 298-306 do. `getIngressHost` fails only without an
ingress domain, and `main.go` (lines 220-225) exits in that case, so that error
is not reachable (`DomainHonoured` of `OperatorStartup`).

The API server keeps the RayCluster with a resource version, a deletion mark, the
OAuth finalizer, the foreground finalizer, the annotation, `suspend` and whether
the user gave pull secrets. Every write produces a version in `watch`; `Deliver`
hands versions to the informer cache in order and enqueues the key.
`DeliverObject` is an event of an owned object or a labelled binding (lines 677-706):
events are coalesced, as the work queue does. A key enqueued during its own
reconciliation is handed out again afterwards. `Settle` removes a deleted object
with its last finalizer. `Default` here is only the webhook's effect on names.

Owned objects are reduced to their owner's uid, by kind and by name (`old` or
`new`); the CA Secret also has its key, the ServiceAccount whether OpenShift has
added a pull secret, the head Pod whose pull secret it carries, the head
NetworkPolicy the namespaces it admits (`peers`). These are found anew by every
reconciliation, in two steps as in the code: `ListKubeRayPods` takes the namespace of the first
`kuberay-operator` Pod, or the built-in one if there is none (`kubeRay`); on OpenShift
`GetDSCI` then replaces it by the `applicationsNamespace` of the DSCInitialization or, if that is
not found, by two built-in ones (`dsci`). `MoveKubeRay` and `EditDSCI` change them at any time, and
nothing watches them. So on OpenShift a KubeRay operator that moves while the DSCInitialization
stays is not followed, by design of the code; `ResyncFollowsLookup` speaks of what the lookup yields
(`Lookup`), not of where Pods run. A head Pod that is deleted is `leaving` before it is gone, and is still listed. The
ClusterRoleBinding is absent, present or terminating, because the controller
deletes it in the foreground (line 89).

Assumptions about the parts that are not in this repository: versions are
delivered in order and none is skipped; a restarted informer lists a state that is
current; a finalizer update is subject to optimistic locking and to the webhook;
the DSCInitialization, read through the manager's cache, is taken as current, which
differs from a late cache only in when the edit counts as made; owner
references without `blockOwnerDeletion` delay no foreground deletion. The model
follows one name and one running operator; `Contention` takes several of both.
Whether KubeRay gives every head Pod a name of its own or uses one name again is left open: if the Pod was
replaced between list and delete, `DeletePod` either fails and is retried, or hits the new Pod.

### FinalizerProtocol

Life of the cluster (absent, bare, guarded, closing) and whether a binding exists.
A binding may appear only for a guarded or closing cluster and the cluster leaves
`closing` only without it. The refinement mapping is `Life` and `Bound`.

### RayClusterWebhook

Pod templates are sequences of named items, which is what `upsert` and `contains`
work on; a container has an image and arguments (`body`), `env` and `mounts`.
`Admit` is the API server: `Default`, then the validation of its result. `release`
stands for what changes between versions of the operator (images, ingress domain).
`DeepDerivative` compares a list with a prefix, which matters when the mTLS
variables are added to the sidecar because a user listed it first. `Predating`
clusters have never been admitted. A panic on a group without containers is a
failed request. An item is found by its name and compared by its value, which stands for the fields that the expected item
sets: `DeepDerivative` looks at no others. Names are the managed ones, which users may use too, and any
others (`UserNames`). `UserItemsKept` goes by positions: an item under a user's own name is
where it was, and every other position holds a managed name. The head's `serviceAccountName` is no item: with OAuth
`Default` replaces what a user set (line 89), by design.

### OperatorStartup

Every instance is a process with the step of `main` (`pc`) and of its two goroutines
(`ray`, `aw`). `loadIntoOrCreate` and `createConfigMap` are two requests, so that
two instances, or an instance and a user, race between them. `Exit` is
`exitOnError`: the whole process ends, its goroutines with it, and `Boot` is the
kubelet that starts it again. `isAPIAvailable`, `waitForAPI` and `ResultChan` are the three
ways to learn of the CRD: the lists go by its name, the watch by its condition. The
watch is opened without a resource version (line 470 ignores the options), so that it
starts with what exists and loses no event after the list. `Rotate` is the certificate
rotator, which closes `certsReady` once the manager runs and needs no election
(line 316); `readyz` is the probe, which itself asks for the webhook server and so may be
the first to start it. `CacheSync` and `CacheSyncTimeout` are controller-runtime: a controller whose
informers do not synchronize within two minutes ends the manager, which is what becomes
of a set-up for a CRD that is not established.

Of a configuration the model keeps what `main` decides by. `complete` is false if a
section is null (`main` dereferences `clientConnection`, `leaderElection` and `kuberay` in
lines 166-220) or if election is on without the name of a lock; `noTimes` is an
election without durations, which are then zero and refused when the manager starts. `domain` is the
ingress domain in the configuration; without one, `getClusterDomain` takes that of OpenShift's Ingress object (`ingress`), and
`main` exits if there is no such object or its domain is empty. `EditIngress` changes the object at any time; `moved` records, for the property only, that
this happened after the process had read it.

### Names

A name is the sequence of its parts between dashes, so that joining with a dash is
concatenation and the ambiguity of joining is there: `a-b` in `c` and `a` in `b-c`. The hash is a
constant operator about which nothing is assumed, so collisions are included.
Truncation does not occur in this code: only the hash is cut, to eight digits.

### Contention

A cluster is the history of its life (`log`), each operator has seen a prefix of it
(`seen`), has a queue of its own and works on one cluster at a time (`at`). Kept are the
requests whose effect depends on the sender or on the moment: the
finalizer, the CA Secret (read, then written), the OAuth Secret, whose content
depends on the salt of the process, and the ClusterRoleBinding, named by
`crbNameFromCluster` of `Names`. A binding carries the labels of the cluster it was last
applied for, and an event of it goes to the clusters in its labels before and after
(`mapFunc`), to every operator. Failed requests and edits are left to `RayClusterController`; a
stop at any point (`Stop`) is kept.

A cluster may be deleted in the background or in the foreground. A deletion in the foreground leaves it with both finalizers (`draining`) or,
once the operator has released it or if it had no OAuth finalizer yet, with the foreground finalizer alone (`lingering`). Lines 135-166 let
such a cluster fall through to the applies, so its binding may come back after the clean-up: that is the leak that `foreground_leak` shows.
`NoOrphanElected` says that there is no other way to leave a binding behind here: whoever is in a binding at rest
is alive or has lingered.

Three assumptions. A cluster keeps the version annotation, and so its names, for life; renaming, and the leak that comes with
it, are the subject of `RayClusterController`. The Deployment has one replica (`src/config/manager/manager.yaml`, line
16), so operators replace one another, and two run only during a rolling update. With
leader election, an operator that takes over has a current cache: it has been following the
clusters while it waited for the lease, and a lease lasts longer than informers lag.

## 3. Runs

| Run | Instance | Shows |
|---|---|---|
| `openshift` | OpenShift, OAuth, mTLS; 2 creations, 1 edit, 1 fault | `TypeOK`, `FinalizerGuardsApply`, `NoOrphanCRB`, `ReleaseOnlyUnbound`, `CAKeyStable`, `QuiescentConverged`, `QuiescentPodCanPull`, the inductive `BindingInv`, refinement `ImplementsProtocol` |
| `upgrade` | starts over a cluster of an older release; both propagation policies; no faults | `QuiescentConverged`, `QuiescentPodCanPull`, `QuiescentIsolated`, `ReleaseOnlyUnbound`, `CAKeyStable`, the inductive `FinalizerInv`, `ConvergenceInv` and `CAKeyInv` |
| `vanilla` | no OpenShift, no OAuth, mTLS; 2 creations, 2 edits, 1 fault | `QuiescentConverged` |
| `liveness` | OpenShift, OAuth, a DSCInitialization or none; fairness | `DeletionCompletes`, `Converges`, `ResyncIsolates`, `ResyncFollowsLookup` |
| `relocation` | no OpenShift, KubeRay in one of two namespaces or nowhere; fairness | `ResyncFollowsLookup` |
| `webhook` | templates of `MCRayClusterWebhook`, 2 releases | `RejectionsJustified`, `AdmittedComplete`, `ReadmissionChangesNothing`, `UserItemsKept` |
| `startup` | 2 instances, OpenShift and elsewhere, 5 configurations and none; 1 edit, 1 fault; fairness | `TypeOK`, `ConfigHonoured`, `ServesCertified`, `DomainHonoured`, `Serves` |
| `contention` | 2 operators, 2 clusters with one binding name, one deleted in either way, 3 scenarios; fairness | `TypeOK`, `QuiescentBound`, `NoOrphanElected`, `KeyStableElected`, `ComesToRest`, `SecretsSettle`, the inductive `ContentionInv` |
| `upgrade_leak`, `foreground_leak`, `no_dsci`, `vanilla_oauth` | the smallest instance of each | disagreements between code and documentation, section 5 |

`Quiescent` says that nothing is queued, on its way or running, so that only the
next resync would make the controller act. `Quiescent...` properties therefore say
what the controller has achieved when it stops, for every order of events; they
fail if an event or an error is lost.

`Serves` is the liveness of start-up: if the RayCluster API stays and the
configuration is usable from some time on, every instance becomes ready, with its
webhooks and its controller set up, and one controller serves. It covers the
certificates that `main` must not wait for, a CRD that comes at any moment of the
three checks, an instance that exits because the other created the ConfigMap, and a leader that is
gone. `ComesToRest` says that the work ends: operators that overwrite each other's
OAuth Secret are told so by its events and do it again, for as long as both run, but
no longer. Its premise excludes two live clusters with one binding name, which do overwrite the
binding in turn for ever (a cluster that lingers does so too, until it is gone); `QuiescentBound` says that when one of the two is deleted the other
has the binding, and `SecretsSettle` that keys and cookies settle in either case. What leader election is for is in the names of
`KeyStableElected` and `NoOrphanElected`: without it, which is the default, two operators may overwrite
a CA key and may apply a binding after the other has released the cluster.

Bounds. `MaxUid` = 2 gives every interleaving of an old cluster's leftovers with a new
cluster of the same name. `MaxEdits` = 1 or 2 gives a suspension, a resumption, an
edit that makes the webhook annotate (and so rename) a cluster of an older release, or a
status update that makes a finalizer update conflict. `MaxFaults` = 1 gives one failed request, restart
or deleted object at any point; in `upgrade` it is 0, because `QuiescentIsolated` is about controllers whose requests do not
fail: an error of a NetworkPolicy is dropped (lines 298-306), and only `ResyncIsolates` promises anything then. `Sweeps` is the
granularity of the garbage collector: in `vanilla` one by one for objects whose content
`Reconcile` reads and together for the others, elsewhere all together at any moment, which keeps `openshift` with its
re-creation, edit and fault small enough; the theorems hold for every granularity. Three CA keys suffice
for a fresh one to exist in the controller's model (two Secrets); in `Contention` two more than there are operators do, since each
holds at most one. `startup` has a
correct configuration, the defaults, none, and three ways to get it wrong; one edit and one fault (a
crash, or a failed discovery) at any point; the one edit is of the configuration or of the Ingress object, which starts with a domain and may
get another or none. `contention` has three scenarios: with election both clusters created once, or one of them twice, so
that a Secret of the first is there when the second comes, and without election one of them once; one of the two may be deleted in the
foreground. Two namespaces and none are enough for KubeRay to move and to disappear, and one and none for the DSCInitialization. Deadlock is not checked for the
controller, start-up and contention: they may rest. It is checked for the webhook.

Fairness (`FairSpec`): weak fairness of the reconciler as a whole, of the informers'
deliveries and of the garbage collector, that is of goroutines that retry until
they succeed. Users, OpenShift, KubeRay and faults owe nothing. The resync is fair only
as the premise of `ResyncIsolates` and of `ResyncFollowsLookup`, which hold for no other reason; its
period is ten hours by default in controller-runtime.
`Converges` holds without it. In `OperatorStartup` goroutines, rotator, kubelet and election are weakly fair, and the API
server establishes a CRD that is installed; users owe nothing. In `Contention` the operators, their
informers and the garbage collector, which also ends foreground deletions, are weakly fair, and so is `Stop` of every operator but the last: a rolling update ends.

Every property of a passing run has a mutant in `PROJECT.json`: a variant of one
definition, kept beside it in the module, with which TLC finds the property
violated.

## 4. Proofs

`RayClusterControllerProofs` proves, for all values of the constants:

* `TypeCorrect`: `Spec => []TypeOK`;
* `FinalizerInvariant`: `Spec => []FinalizerInv`;
* `FinalizerGuards`: `Spec => []FinalizerGuardsApply`;
* `ReleaseUnbound`: `Spec => ReleaseOnlyUnbound`;
* `BindingInvariant`, `NoOrphan` and `Implements`: `BindingInv`, `NoOrphanCRB` and the
  refinement of `FinalizerProtocol`, if there is neither a cluster of an older release
  nor foreground deletion. The runs `upgrade_leak` and `foreground_leak` show that both
  hypotheses are needed.

The argument. `FinalizerGuardsApply` speaks of a stale copy, so it is not inductive.
`FinalizerInv` adds what makes staleness harmless: versions reach the informer in
order (`VersionsInOrder`); a copy with the current version number is the current
cluster (`VersionsIdentify`); and *every* copy, in the watch, in the cache or in
Reconcile's hands, that shows a live cluster with the finalizer is still right
about both identity and finalizer (`CopiesGuarded`). The crucial step is `RemoveFinalizer`:
the update succeeds only from the current version, which Reconcile had from
the cache, so every older version has left the informer by then and no copy shows
the cluster live any more. `StepKnows` records what `pc` implies about `local`.
For `NoOrphan`, `BindingInv` adds that no version is ever deleted without the finalizer, and that all versions
have the annotation: then the binding that is applied and the one that is deleted have one name.

The proof has one step per action; writes by others share the lemma
`KnowledgeOfWrite`. The assumptions are `SettingsAssumption` and
`BoundsAssumption`, which TLC evaluates on every run.

`OperatorStartupProofs` proves `StartupInvariant` and from it `ConfigurationHonoured`, `ServersCertified` and
`DomainsHonoured`, for any number of instances, any configurations, any domains and any bounds. None of the three is
inductive: that a controller has the right domain rests on what `main` knew when it spawned it, and that no goroutine
outlives `main`. `MainKnows` says what each step of `main` implies about the configuration, the domain and the
goroutines; `StartupInv` is its conjunction with the types (`StartupTypes`) and the three.

`NamesProofs` proves, for any hash: `NamespacedNamesDiffer`, that two clusters of one release in
one namespace never share a name of an object in it, and `BindingNamesClash`, that two
clusters share a ClusterRoleBinding exactly if name and namespace, joined, agree. The
argument is cancellation: a common suffix or prefix of a concatenation can be
dropped (`CancelRight`, `CancelLeft`), and so can the hash, because it is one part and is computed from the rest
(`CancelHash`). Names of different purposes, and of different releases, are not compared: an older cluster named `x-oauth-config` has the CA
Secret `ca-secret-x-oauth-config`, which is also the OAuth Secret of an older `ca-secret-x`.

`ConvergenceProofs` proves that the controller comes to rest only when its work is done:

* `RestsConverged`, `RestsPullable`: `QuiescentConverged` and `QuiescentPodCanPull`, without any hypothesis;
* `RestsReferenced`: `QuiescentReferencesExist`, if OAuth is enabled on OpenShift only;
* `RestsIsolated`: `QuiescentIsolated`, if there are no faults (as in the run `upgrade`);
* `RestsUnbound`: `QuiescentUnbound`, under the hypotheses of `NoOrphan`;
* `KeyInvariant` and `KeyNeverChanges`: `CAKeyInv` and `CAKeyStable`.

The hypotheses of `RestsReferenced` and `RestsUnbound` are what the violation runs `vanilla_oauth`, and `upgrade_leak` with
`foreground_leak`, violate: the theorems say that nothing else does. The argument is one
of debts. `Owed` says that a reconciliation is still to come: the key is queued, an event of an
object is on its way, or a version of the cluster is. `ConvergenceInv` says that whenever nothing is owed, the
reconciliation under way works on the cluster as it is, and everything that comes before its step (`DoneBy`)
is done and still stands; once it is idle, that is everything. Each action either keeps
what is done, or leaves a debt: a write of the cluster adds a version, the deletion of an object or a binding an
event, a failure requeues. The delicate steps are the last ones of the head Pod check, where `saPull` may change after
it was read (which enqueues) and the Pod may be replaced by one that has the secret, under the same name or another. `InformerCurrent` and `BranchKnown` connect
the copy with the cluster. `Due` leaves the NetworkPolicies out as soon as there may be a fault, because an error of
theirs is dropped.

For the key, `CAKeyInv` says that the key Reconcile holds from the read to the apply is that of the Secret of that name, if
there still is one. Between the two requests a Secret may disappear, but only the controller itself
creates one, and what it does next is the apply; the name is that of its own copy, so an annotation that arrives in
between does not matter.

`RayClusterWebhookProofs` proves `OnlyJustifiedRejections`, `AdmissionComplete`, `ReadmissionIdempotent` and
`UsersKeepTheirItems`, for templates of any length, any names, any set of requests and any number of releases. An induction over
lists is beyond the prover and is not needed: `Upsert` is described by positions (it changes one position, the first of that
name, or adds one), and the loops in `Default` have two and five rounds, which are unrolled. A loop over items with different
names leaves each of them in place because an upsert of one name neither moves nor changes the first item of
another. Idempotence follows: `Upsert` of an item that is the first of its name is the identity. The one case that is not
local is a sidecar that users listed first, which gets the mTLS variables: its own variable
and mount stay first in its lists (the `Begins` of `DeepDerivative`), and running again upserts the sidecar afresh, without the mTLS
variables, and adds them again. The inductive invariant, `WebhookInv` (theorem `WebhookInvariant`), is the four properties together with the types; it
is proved and not checked once more by TLC, which checks its parts. `WebhookAssumption` says that requests and predating clusters are
RayClusters and that no request sets the deletion mark, which the API server sees to.

`ContentionProofs` proves, for any number of operators and clusters and any names:

* `KeysStable`: `KeyStableElected`;
* `ContentionInvariant`, `ContentionTypes`: `ContentionInv`, `TypeOK`;
* `RestsBound` and `NoOrphans`: `QuiescentBound` and `NoOrphanElected`.

`KeyInv` says that an operator that is not active holds nothing, that with election at most one is active, and
that the key it is about to write is the key of the Secret, if there is one: the Secret can only
disappear between read and write, never appear. `ContentionInv` adds, for every active operator and every cluster, that
the operator will look at the cluster again (`Owes`) or is doing what the cluster needs where it is not done
(`Handles`); the last operator never goes, so at rest somebody has looked at everything. That the work of an
operator is undone by another, or by the cluster that has the same binding name, is an event of the object, which `Tell`
puts into every queue; `mapFunc` has to name the former cluster of a binding as well as the new one. `Cleaned` is the
finalizer argument once more, for operators that take over from each other: with election nobody applies anything for a cluster
without the finalizer, and nobody who can succeed with the release is there before the binding is going (`Protected`). It is claimed of every
cluster that has not lingered (`Lingered`), one by one: what a namesake does, lingering included, cannot undo it, because only a cluster's own reconciliation
puts its labels on a binding. That a fresh key exists
(`NewKey`) is a pigeonhole argument over finite sets. `ContentionAssumption` makes the operators a finite set of numbers, in
the order of the rolling update, so that there is a last one.

Only model-checked: liveness, which is beyond the prover (as is `ENABLED`), that is `DeletionCompletes`, `Converges`,
`ResyncIsolates`, `ResyncFollowsLookup`, `Serves`, `ComesToRest` and `SecretsSettle`. Every invariant and
every action property of a passing run is a theorem.

## 5. Disagreements found

1. `upgrade_leak`: an un-annotated cluster is renamed by any update; its old
   ClusterRoleBinding is never deleted (line 150).
2. `foreground_leak`: a cluster being deleted that no longer has our finalizer is
   reconciled like a live one and its ClusterRoleBinding comes back (line 145).
3. `no_dsci`: the fallback for a missing DSCInitialization does not cover a missing
   kind; no NetworkPolicy is ever applied (line 290).
4. `vanilla_oauth`: with OAuth enabled and no OpenShift the webhook refers to objects that
   nobody creates (`raycluster_webhook.go`, line 83).

## 6. Not modelled, and the plan

Not modelled:

* contents of objects beyond what is said above (ports, selectors, routes' targets):
  values that depend on the cluster alone;
* expiry of the CA certificate after a year, which nothing renews: the models have no clock;
* the effect of a wrong answer of `isOpenShift` on the cache filter (`main.go`, line 193),
  which only widens the cache; the answer that the controller gets is modelled;
* AppWrapper beyond its set-up: an imported library, of which this repository
  has only markers; log sink: no state; manifests and tests: data, and test code.

Done: controller, finalizer protocol, webhook, start-up, names, contention of operators
and clusters; proofs of every safety property of the passing runs.

Left, in this order:

1. what liveness rests on and the prover can reach: that `Quiescent` states are exactly those from which
   only users, faults or a resync lead on, as a theorem about the guards of the actions;
2. names across purposes and releases: a theorem that says which pairs can coincide, as the example in
   section 4 does.
