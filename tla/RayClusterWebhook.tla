-------------------------- MODULE RayClusterWebhook --------------------------
(***************************************************************************)
(* The admission webhook for RayClusters                                   *)
(* (pkg/controllers/raycluster_webhook.go, and upsert and contains of      *)
(* pkg/controllers/support.go): Default writes the OAuth sidecar and the   *)
(* mTLS configuration into the Pod templates, ValidateCreate and           *)
(* ValidateUpdate check the outcome.  Requests come from users, from the   *)
(* controller that updates the finalizers, and are made to clusters that   *)
(* may predate the operator or come from another release of it.            *)
(***************************************************************************)
EXTENDS Integers, Sequences

CONSTANTS
    OAuthEnabled,   \* kuberay.rayDashboardOAuthEnabled
    MTLSEnabled,    \* kuberay.mTLSEnabled
    UserNames,      \* names users give to containers, volumes, accounts ...
    Requests,       \* the RayClusters users ask for
    Predating,      \* those that may exist before the operator is installed
    MaxRelease      \* bound: releases of the operator

\* The names that the webhook gives; users may use them too.
Managed == {"oauth-proxy", "COOKIE_SECRET", "proxy-tls-secret", "MY_POD_IP",
            "RAY_USE_TLS", "RAY_TLS_SERVER_CERT", "RAY_TLS_SERVER_KEY",
            "RAY_TLS_CA_CERT", "ca-vol", "server-cert", "create-cert"}

Names == UserNames \cup Managed

\* What the webhook sees of a RayCluster.  An item is an environment variable,
\* a volume, a volume mount or an init container; its value says who chose it
\* and, where the code takes it from an image, the release that did.
Items == [name : Names, val : {"user", "set", "head", "worker"} \X Nat]

Containers == [name : Names, body : Nat, env : Seq(Items), mounts : Seq(Items)]

PodSpecs == [containers : Seq(Containers), init : Seq(Items), volumes : Seq(Items),
             sa : UserNames \cup {"oauth"}]

Clusters == [exists : {TRUE}, del : BOOLEAN, ann : BOOLEAN, ingress : BOOLEAN,
             head : PodSpecs, workers : Seq(PodSpecs)]

\* A cluster is marked as being deleted by the API server, never by a request.
ASSUME WebhookAssumption ==
    /\ {OAuthEnabled, MTLSEnabled} \subseteq BOOLEAN
    /\ MaxRelease \in Nat
    /\ \A c \in Requests : c \in Clusters /\ ~c.del
    /\ \A c \in Predating : c \in Clusters

VARIABLES
    stored,     \* the RayCluster in the API server, or NoCluster
    release,    \* the release, images and ingress domain of the operator
    request,    \* the last RayCluster submitted ...
    verdict,    \* ... and what became of it: none yet, accepted, rejected
    admitted    \* the release that admitted the stored cluster, 0 if none did

vars == <<stored, release, request, verdict, admitted>>

NoCluster == [exists |-> FALSE]

-----------------------------------------------------------------------------
(* upsert and contains.                                                    *)

Has(items, name) == \E i \in DOMAIN items : items[i].name = name

First(items, name) ==
    CHOOSE i \in DOMAIN items :
        /\ items[i].name = name
        /\ \A j \in 1..(i - 1) : items[j].name # name

\* Variants: the item is always added; it takes the place of all others.
UpsertAppend(items, item) == Append(items, item)
UpsertReplace(items, item) == <<item>>

\* The first item of the same name is replaced; if there is none, one is added.
Upsert(items, item) ==
    IF Has(items, item.name)
       THEN [items EXCEPT ![First(items, item.name)] = item]
       ELSE Append(items, item)

UpsertAll(items, new) ==
    LET up[i \in 0..Len(new)] ==
            IF i = 0 THEN items ELSE Upsert(up[i - 1], new[i])
    IN  up[Len(new)]

\* DeepDerivative: a list has to begin as the expected one does.
Begins(list, expected) ==
    Len(expected) <= Len(list) /\ SubSeq(list, 1, Len(expected)) = expected

\* DeepDerivative looks only at the fields that the expected item sets; the value
\* of an item stands for these.  That it accepts longer lists in an init container
\* makes no difference: Default has put the expected one there before.
Contains(items, item) ==
    Has(items, item.name) /\ items[First(items, item.name)] = item

ContainsAll(items, expected) ==
    \A i \in DOMAIN expected : Contains(items, expected[i])

ContainsContainer(items, item) ==
    /\ Has(items, item.name)
    /\ LET c == items[First(items, item.name)]
       IN  /\ c.body = item.body
           /\ Begins(c.env, item.env)
           /\ Begins(c.mounts, item.mounts)

-----------------------------------------------------------------------------
(* What Default injects.  The values carry the release where the code       *)
(* takes them from images or configuration; names are the ones that the     *)
(* version annotation, which Default sets first, gives.                     *)

Item(name, by, from) == [name |-> name, val |-> <<by, from>>]

Set(name) == Item(name, "set", 0)

oauthProxyContainer ==
    [name |-> "oauth-proxy", body |-> release,
     env |-> <<Set("COOKIE_SECRET")>>,
     mounts |-> <<Set("proxy-tls-secret")>>]

oauthProxyTLSSecretVolume == Set("proxy-tls-secret")

envVarList == <<Set("MY_POD_IP"), Set("RAY_USE_TLS"), Set("RAY_TLS_SERVER_CERT"),
                Set("RAY_TLS_SERVER_KEY"), Set("RAY_TLS_CA_CERT")>>

caVolumes == <<Set("ca-vol"), Set("server-cert")>>

certVolumeMounts == <<Set("ca-vol"), Set("server-cert")>>

rayHeadInitContainer == Item("create-cert", "head", release)

rayWorkerInitContainer == Item("create-cert", "worker", release)

\* The OAuth sidecar, in the head group.
WithOAuth(spec) ==
    [spec EXCEPT !.containers = Upsert(@, oauthProxyContainer),
                 !.volumes = Upsert(@, oauthProxyTLSSecretVolume),
                 !.sa = "oauth"]

\* The mTLS configuration of a container ...
WithCertificates(c) ==
    [c EXCEPT !.env = UpsertAll(@, envVarList),
              !.mounts = UpsertAll(@, certVolumeMounts)]

\* ... which the first one of any group is given.
FirstCertified(list) == [list EXCEPT ![1] = WithCertificates(@)]

WithMTLS(spec, init) ==
    [spec EXCEPT !.containers = FirstCertified(@),
                 !.init = Upsert(@, init),
                 !.volumes = UpsertAll(@, caVolumes)]

DefaultHead(spec) ==
    LET s == IF OAuthEnabled THEN WithOAuth(spec) ELSE spec
    IN  IF MTLSEnabled THEN WithMTLS(s, rayHeadInitContainer) ELSE s

DefaultWorker(spec) ==
    IF MTLSEnabled THEN WithMTLS(spec, rayWorkerInitContainer) ELSE spec

\* Containers[0] of a group without containers does not exist: the handler
\* panics and the request fails.
Panics(c) ==
    /\ MTLSEnabled
    /\ \/ c.head.containers = <<>> /\ ~OAuthEnabled
       \/ \E i \in DOMAIN c.workers : c.workers[i].containers = <<>>

\* Variant: the sidecar is added last.
DefaultSidecarLast(c) ==
    LET spec == IF MTLSEnabled THEN WithMTLS(c.head, rayHeadInitContainer)
                               ELSE c.head
    IN  [c EXCEPT !.ann = TRUE,
                  !.head = IF OAuthEnabled THEN WithOAuth(spec) ELSE spec,
                  !.workers = [i \in DOMAIN @ |-> DefaultWorker(@[i])]]

Default(c) ==
    [c EXCEPT !.ann = TRUE,
              !.head = DefaultHead(@),
              !.workers = [i \in DOMAIN @ |-> DefaultWorker(@[i])]]

-----------------------------------------------------------------------------
(* Validation.                                                             *)

validateIngress(c) == ~c.ingress

ValidOAuth(c) ==
    OAuthEnabled => /\ ContainsContainer(c.head.containers, oauthProxyContainer)
                    /\ Contains(c.head.volumes, oauthProxyTLSSecretVolume)
                    /\ c.head.sa = "oauth"

ValidMTLS(c) ==
    MTLSEnabled =>
        /\ Contains(c.head.init, rayHeadInitContainer)
        /\ ContainsAll(c.head.containers[1].env, envVarList)
        /\ ContainsAll(c.head.volumes, caVolumes)
        /\ \A i \in DOMAIN c.workers :
              /\ Contains(c.workers[i].init, rayWorkerInitContainer)
              /\ ContainsAll(c.workers[i].containers[1].env, envVarList)
              /\ ContainsAll(c.workers[i].volumes, caVolumes)

ValidateCreate(c) == validateIngress(c) /\ ValidOAuth(c)

\* Variant: clusters that are being deleted are validated like the others.
ValidateUpdateAlways(c) == validateIngress(c) /\ ValidOAuth(c) /\ ValidMTLS(c)

ValidateUpdate(c) == c.del \/ (validateIngress(c) /\ ValidOAuth(c) /\ ValidMTLS(c))

-----------------------------------------------------------------------------
(* Requests.                                                               *)

\* The API server calls Default, then the validation on what it returned.
Admit(c, valid) ==
    /\ request' = c
    /\ IF ~Panics(c) /\ valid
          THEN stored' = Default(c) /\ verdict' = "accepted" /\ admitted' = release
          ELSE UNCHANGED <<stored, admitted>> /\ verdict' = "rejected"
    /\ UNCHANGED release

Create ==
    /\ ~stored.exists
    /\ \E c \in Requests : Admit(c, ValidateCreate(Default(c)))

\* A user changes the spec.
Update ==
    /\ stored.exists
    /\ \E r \in Requests :
          LET c == [r EXCEPT !.del = stored.del]
          IN  Admit(c, ValidateUpdate(Default(c)))

\* The controller adds or removes its finalizer, or anyone else edits the
\* metadata: the spec is submitted as it is stored.
UpdateMetadata ==
    /\ stored.exists
    /\ Admit(stored, ValidateUpdate(Default(stored)))

\* Deletion is not subject to the webhook.  The cluster stays until its
\* finalizers are gone.
Delete ==
    /\ stored.exists
    /\ ~stored.del
    /\ stored' = [stored EXCEPT !.del = TRUE]
    /\ UNCHANGED <<release, request, verdict, admitted>>

Remove ==
    /\ stored.exists
    /\ stored.del
    /\ stored' = NoCluster
    /\ admitted' = 0
    /\ UNCHANGED <<release, request, verdict>>

\* The operator is upgraded, or reconfigured.
Upgrade ==
    /\ release < MaxRelease
    /\ release' = release + 1
    /\ UNCHANGED <<stored, request, verdict, admitted>>

Init ==
    /\ stored \in Predating \cup {NoCluster}
    /\ release = 1
    /\ request = NoCluster
    /\ verdict = "none"
    /\ admitted = 0

Next == Create \/ Update \/ UpdateMetadata \/ Delete \/ Remove \/ Upgrade

Spec == Init /\ [][Next]_vars

-----------------------------------------------------------------------------
(* Properties.                                                             *)

\* A request fails only if it asks for enableIngress, or for a group without
\* containers; and once the cluster is being deleted only the latter matters,
\* so that the finalizers of any other cluster can be removed
\* (raycluster_webhook.go, lines 158-186).
RejectionsJustified ==
    verdict = "rejected" => Panics(request) \/ (request.ingress /\ ~request.del)

\* Whatever was accepted, on create or on update, meets everything that
\* ValidateUpdate demands of the release that accepted it, so the injected
\* configuration is complete, wherever users put containers of the managed
\* names (lines 71-139 and 193-241, 389-467).
AdmittedComplete ==
    stored.exists /\ admitted = release => ValidOAuth(stored) /\ ValidMTLS(stored)

\* Submitting an admitted cluster again changes nothing: the controller's own
\* updates of the finalizers never alter the Pod templates (lines 71-139 and
\* support.go, lines 108-116).
ReadmissionChangesNothing ==
    stored.exists /\ admitted = release => Default(stored) = stored

\* The items a user named are where they were; all others have managed names.
KeepsItems(now, was) ==
    /\ Len(was) <= Len(now)
    /\ \A i \in DOMAIN now :
          IF i <= Len(was) /\ was[i].name \notin Managed
             THEN now[i] = was[i] ELSE now[i].name \in Managed

\* The same of containers: those a user named keep what the user gave them.
KeepsContainers(now, was) ==
    /\ Len(was) <= Len(now)
    /\ \A i \in DOMAIN now :
          IF i <= Len(was) /\ was[i].name \notin Managed
             THEN /\ now[i].name = was[i].name
                  /\ now[i].body = was[i].body
                  /\ KeepsItems(now[i].env, was[i].env)
                  /\ KeepsItems(now[i].mounts, was[i].mounts)
             ELSE now[i].name \in Managed

KeepsOwn(spec, was) ==
    /\ KeepsContainers(spec.containers, was.containers)
    /\ KeepsItems(spec.init, was.init)
    /\ KeepsItems(spec.volumes, was.volumes)

\* Whatever a user puts into the Pod templates under names of their own is
\* stored as it is and where it was (support.go, lines 108-116).  The head's
\* serviceAccountName has no name of its own: with OAuth, Default replaces it.
UserItemsKept ==
    verdict = "accepted" /\ stored.exists =>
        /\ KeepsOwn(stored.head, request.head)
        /\ DOMAIN stored.workers = DOMAIN request.workers
        /\ \A i \in DOMAIN stored.workers :
              KeepsOwn(stored.workers[i], request.workers[i])

\* The type invariant: the values each variable of the model ranges over.
TypeOK ==
    /\ stored \in Clusters \cup {NoCluster}
    /\ release \in Nat
    /\ request \in Clusters \cup {NoCluster}
    /\ verdict \in {"none", "accepted", "rejected"}
    /\ admitted \in 0..release

\* The inductive invariant behind the properties above.
WebhookInv ==
    /\ TypeOK
    /\ verdict # "none" => request \in Clusters
    /\ RejectionsJustified
    /\ AdmittedComplete
    /\ ReadmissionChangesNothing
    /\ UserItemsKept
=============================================================================
