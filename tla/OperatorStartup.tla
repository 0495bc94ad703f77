--------------------------- MODULE OperatorStartup ---------------------------
(***************************************************************************)
(* The start of the operator (main.go), in all the instances of its        *)
(* Deployment that run at a time: two of them during a rolling update.     *)
(* main loads the configuration, detects the platform, creates the         *)
(* manager and starts it; beside it one goroutine waits for the RayCluster *)
(* API and then, like the one for AppWrappers, for the certificates of the *)
(* webhook server, which the certificate rotator provides once the manager *)
(* runs.  The kubelet probes every instance and starts it again when it    *)
(* exits.                                                                  *)
(***************************************************************************)
EXTENDS Integers

CONSTANTS
    Instances,      \* the Pods of the Deployment
    Platforms,      \* values of "this is OpenShift"
    Domains,        \* the names of ingress domains
    Ingresses,      \* what OpenShift's Ingress object may say at first
    Configs,        \* what users write into the ConfigMap
    MaxEdits,       \* bound: changes of the ConfigMap and of the cluster's
                    \* Ingress, removals of the API
    MaxFaults       \* bound: crashes and failed requests

\* parses: the ConfigMap has one entry, and it is YAML; complete: no section
\* that main dereferences is null and a lock is named; domain: ingressDomain, or
\* unset; appWrapper: appwrapper.enabled; election: leader election is off, on,
\* or on without its durations, which are then zero.
DefaultConfig == [parses |-> TRUE, complete |-> TRUE, domain |-> "unset",
                  appWrapper |-> FALSE, election |-> "off"]

ConfigType == [parses : BOOLEAN, complete : BOOLEAN, domain : Domains \cup {"unset"},
               appWrapper : BOOLEAN, election : {"off", "on", "noTimes"}]

NoConfig == [DefaultConfig EXCEPT !.election = "none"]

ASSUME StartupAssumption ==
    /\ Platforms \subseteq BOOLEAN
    /\ Domains \cap {"unset", "none"} = {}
    /\ Ingresses \subseteq Domains \cup {"unset"}
    /\ Configs \subseteq ConfigType
    /\ MaxEdits \in Nat
    /\ MaxFaults \in Nat

VARIABLES
    openshift,  \* is this OpenShift?
    ingress,    \* the domain in OpenShift's Ingress object "cluster", unset if
                \* it has none, none if there is no such object
    configMap,  \* the configuration in the API server
    crd,        \* the RayCluster API: absent, present, established
    lease,      \* of the leader election: free or held
    inst,       \* the instances
    edits, faults

vars == <<openshift, ingress, configMap, crd, lease, inst, edits, faults>>

\* A process that does not run.  pc is the step of main and ray and aw those of
\* its goroutines; config is what it loaded, and stale tells that the ConfigMap
\* was edited since; domain is the IngressDomain its controller goes by, and
\* moved tells that the Ingress object was edited since; platform is the
\* IsOpenShift of its controller; certs tells that certsReady is closed, server
\* that the webhook server listens; ready is the kubelet's opinion; leads that
\* the instance was elected.
Down == [pc |-> "down", ray |-> "none", aw |-> "none", config |-> NoConfig,
         stale |-> FALSE, domain |-> "unset", moved |-> FALSE,
         platform |-> FALSE, certs |-> FALSE, server |-> FALSE, ready |-> FALSE,
         leads |-> FALSE]

Set(i, process) == inst' = [inst EXCEPT ![i] = process]

\* Variant: the error is logged, and that is all.
ExitNot(i) == Set(i, [inst[i] EXCEPT !.pc = "failed"])

Exit(i) == Set(i, Down)

\* What serves a request to the webhook: GetWebhookServer starts it when it is
\* first called.
WithServer(process) == [process EXCEPT !.server = TRUE]

-----------------------------------------------------------------------------
(* main.                                                                   *)

\* The kubelet starts the process.
Boot(i) ==
    /\ inst[i].pc = "down"
    /\ Set(i, [Down EXCEPT !.pc = "get"])
    /\ UNCHANGED <<openshift, ingress, configMap, crd, lease, edits, faults>>

loadIntoOrCreate(i) ==
    /\ inst[i].pc = "get"
    /\ IF configMap = NoConfig
          THEN Set(i, [inst[i] EXCEPT !.pc = "create"])
       ELSE IF ~configMap.parses
          THEN Exit(i)
          ELSE Set(i, [inst[i] EXCEPT !.pc = "manager", !.config = configMap])
    /\ UNCHANGED <<openshift, ingress, configMap, crd, lease, edits, faults>>

\* Variant: it is no error that the ConfigMap exists.
createConfigMapOrNot(i) ==
    /\ inst[i].pc = "create"
    /\ configMap' = IF configMap = NoConfig THEN DefaultConfig ELSE configMap
    /\ Set(i, [inst[i] EXCEPT !.pc = "manager", !.config = DefaultConfig])
    /\ UNCHANGED <<openshift, ingress, crd, lease, edits, faults>>

\* If someone has created the ConfigMap in the meantime the process exits.
createConfigMap(i) ==
    /\ inst[i].pc = "create"
    /\ IF configMap = NoConfig
          THEN /\ configMap' = DefaultConfig
               /\ Set(i, [inst[i] EXCEPT !.pc = "manager", !.config = DefaultConfig])
          ELSE Exit(i) /\ UNCHANGED configMap
    /\ UNCHANGED <<openshift, ingress, crd, lease, edits, faults>>

\* A null section makes main panic, a lock without a name makes NewManager fail.
NewManager(i) ==
    /\ inst[i].pc = "manager"
    /\ IF inst[i].config.complete
          THEN Set(i, [inst[i] EXCEPT !.pc = "domain"]) ELSE Exit(i)
    /\ UNCHANGED <<openshift, ingress, configMap, crd, lease, edits, faults>>

\* Variant: nobody looks whether the domain is empty.
getClusterDomainUnchecked(i) ==
    /\ inst[i].pc = "domain"
    /\ IF inst[i].config.domain = "unset" /\ ingress = "none"
          THEN Exit(i)
          ELSE Set(i, [inst[i] EXCEPT !.pc = "spawn",
                  !.domain = IF inst[i].config.domain = "unset"
                                THEN ingress ELSE inst[i].config.domain])
    /\ UNCHANGED <<openshift, ingress, configMap, crd, lease, edits, faults>>

\* Without a configured domain main asks for that of the cluster: it is an error
\* if there is no Ingress object, as on any other platform, or it has no domain.
getClusterDomain(i) ==
    /\ inst[i].pc = "domain"
    /\ IF inst[i].config.domain = "unset" /\ ingress \in {"none", "unset"}
          THEN Exit(i)
          ELSE Set(i, [inst[i] EXCEPT !.pc = "spawn",
                  !.domain = IF inst[i].config.domain = "unset"
                                THEN ingress ELSE inst[i].config.domain])
    /\ UNCHANGED <<openshift, ingress, configMap, crd, lease, edits, faults>>

\* The answer to isOpenShift: a failed request counts as no.
isOpenShift(answer) ==
    \/ answer = openshift /\ UNCHANGED faults
    \/ ~answer /\ faults < MaxFaults /\ faults' = faults + 1

\* Variant: main itself waits for the certificates.
SpawnRayClusterWaiting(i) ==
    /\ inst[i].pc = "spawn"
    /\ inst[i].certs
    /\ \E answer \in BOOLEAN :
          /\ isOpenShift(answer)
          /\ Set(i, [inst[i] EXCEPT !.pc = "appWrapper", !.ray = "list",
                                    !.platform = answer])
    /\ UNCHANGED <<openshift, ingress, configMap, crd, lease, edits>>

SpawnRayCluster(i) ==
    /\ inst[i].pc = "spawn"
    /\ \E answer \in BOOLEAN :
          /\ isOpenShift(answer)
          /\ Set(i, [inst[i] EXCEPT !.pc = "appWrapper", !.ray = "list",
                                    !.platform = answer])
    /\ UNCHANGED <<openshift, ingress, configMap, crd, lease, edits>>

setupAppWrapperComponents(i) ==
    /\ inst[i].pc = "appWrapper"
    /\ Set(i, [inst[i] EXCEPT !.pc = "start",
                              !.aw = IF inst[i].config.appWrapper THEN "certs" ELSE @])
    /\ UNCHANGED <<openshift, ingress, configMap, crd, lease, edits, faults>>

StartManager(i) ==
    /\ inst[i].pc = "start"
    /\ IF inst[i].config.election = "noTimes"
          THEN Exit(i) ELSE Set(i, [inst[i] EXCEPT !.pc = "running"])
    /\ UNCHANGED <<openshift, ingress, configMap, crd, lease, edits, faults>>

Main(i) ==
    \/ loadIntoOrCreate(i) \/ createConfigMap(i) \/ NewManager(i)
    \/ getClusterDomain(i) \/ SpawnRayCluster(i)
    \/ setupAppWrapperComponents(i) \/ StartManager(i)

-----------------------------------------------------------------------------
(* The goroutines.                                                         *)

\* The two lists go by the name of the CRD: it may not be established.
isAPIAvailable(i) ==
    /\ inst[i].ray = "list"
    /\ Set(i, [inst[i] EXCEPT !.ray = IF crd = "absent" THEN "relist" ELSE "certs"])
    /\ UNCHANGED <<openshift, ingress, configMap, crd, lease, edits, faults>>

waitForAPI(i) ==
    /\ inst[i].ray = "relist"
    /\ Set(i, [inst[i] EXCEPT !.ray = IF crd = "absent" THEN "watch" ELSE "certs"])
    /\ UNCHANGED <<openshift, ingress, configMap, crd, lease, edits, faults>>

\* The watch starts without a version, so that it begins with what exists: no
\* event between the list and the watch is lost.
ResultChan(i) ==
    /\ inst[i].ray = "watch"
    /\ crd = "established"
    /\ Set(i, [inst[i] EXCEPT !.ray = "certs"])
    /\ UNCHANGED <<openshift, ingress, configMap, crd, lease, edits, faults>>

\* <-certsReady, then the webhooks and the controller.
setupRayClusterController(i) ==
    /\ inst[i].ray = "certs"
    /\ inst[i].certs
    /\ Set(i, WithServer([inst[i] EXCEPT !.ray = "syncing"]))
    /\ UNCHANGED <<openshift, ingress, configMap, crd, lease, edits, faults>>

RayCluster(i) ==
    \/ isAPIAvailable(i) \/ waitForAPI(i) \/ ResultChan(i)
    \/ setupRayClusterController(i)

setupAppWrapperControllerAndWebhooks(i) ==
    /\ inst[i].aw = "certs"
    /\ inst[i].certs
    /\ Set(i, WithServer([inst[i] EXCEPT !.aw = "done"]))
    /\ UNCHANGED <<openshift, ingress, configMap, crd, lease, edits, faults>>

-----------------------------------------------------------------------------
(* The manager, the rotator and the kubelet.                               *)

Runs(i) == inst[i].pc = "running"

Elected(i) == inst[i].config.election = "on" => inst[i].leads

\* The rotator needs the manager, and no election.
Rotate(i) ==
    /\ Runs(i)
    /\ ~inst[i].certs
    /\ Set(i, [inst[i] EXCEPT !.certs = TRUE])
    /\ UNCHANGED <<openshift, ingress, configMap, crd, lease, edits, faults>>

\* Variant: the probe does not look at the certificates.
readyzAnyway(i) ==
    /\ Runs(i)
    /\ ~inst[i].ready
    /\ Set(i, WithServer([inst[i] EXCEPT !.ready = inst[i].server]))
    /\ UNCHANGED <<openshift, ingress, configMap, crd, lease, edits, faults>>

\* The readiness probe: once there are certificates it also starts the server.
readyz(i) ==
    /\ Runs(i)
    /\ ~inst[i].ready
    /\ inst[i].certs
    /\ Set(i, WithServer([inst[i] EXCEPT !.ready = inst[i].server]))
    /\ UNCHANGED <<openshift, ingress, configMap, crd, lease, edits, faults>>

Elect(i) ==
    /\ Runs(i)
    /\ inst[i].config.election = "on"
    /\ lease = "free"
    /\ lease' = "held"
    /\ Set(i, [inst[i] EXCEPT !.leads = TRUE])
    /\ UNCHANGED <<openshift, ingress, configMap, crd, edits, faults>>

\* The lease of an instance that is gone runs out.
LeaseExpires ==
    /\ lease = "held"
    /\ \A i \in Instances : ~inst[i].leads
    /\ lease' = "free"
    /\ UNCHANGED <<openshift, ingress, configMap, crd, inst, edits, faults>>

\* The controller starts, after an election if there is one, and waits for its
\* informers ...
CacheSync(i) ==
    /\ inst[i].ray = "syncing"
    /\ Elected(i)
    /\ crd = "established"
    /\ Set(i, [inst[i] EXCEPT !.ray = "serving"])
    /\ UNCHANGED <<openshift, ingress, configMap, crd, lease, edits, faults>>

\* ... but not longer than two minutes: then the manager fails.
CacheSyncTimeout(i) ==
    /\ inst[i].ray = "syncing"
    /\ Elected(i)
    /\ crd # "established"
    /\ Exit(i)
    /\ UNCHANGED <<openshift, ingress, configMap, crd, lease, edits, faults>>

\* A request fails where main exits on errors, or the process is killed.
Crash(i) ==
    /\ inst[i].pc # "down"
    /\ faults < MaxFaults
    /\ faults' = faults + 1
    /\ Exit(i)
    /\ UNCHANGED <<openshift, ingress, configMap, crd, lease, edits>>

-----------------------------------------------------------------------------
(* Users.                                                                  *)

\* Someone writes or deletes the ConfigMap: nothing watches it.
EditConfig ==
    /\ edits < MaxEdits
    /\ edits' = edits + 1
    /\ configMap' \in (Configs \cup {NoConfig}) \ {configMap}
    /\ inst' = [i \in Instances |->
                   [inst[i] EXCEPT !.stale = inst[i].config # NoConfig]]
    /\ UNCHANGED <<openshift, ingress, crd, lease, faults>>

\* Someone gives the cluster another ingress domain, or none.
EditIngress ==
    /\ openshift
    /\ edits < MaxEdits
    /\ edits' = edits + 1
    /\ ingress' \in (Domains \cup {"unset"}) \ {ingress}
    /\ inst' = [i \in Instances |->
                   [inst[i] EXCEPT !.moved = /\ inst[i].domain # "unset"
                                             /\ inst[i].config.domain = "unset"]]
    /\ UNCHANGED <<openshift, configMap, crd, lease, faults>>

InstallCRD ==
    /\ crd = "absent"
    /\ crd' = "present"
    /\ UNCHANGED <<openshift, ingress, configMap, lease, inst, edits, faults>>

EstablishCRD ==
    /\ crd = "present"
    /\ crd' = "established"
    /\ UNCHANGED <<openshift, ingress, configMap, lease, inst, edits, faults>>

RemoveCRD ==
    /\ crd # "absent"
    /\ edits < MaxEdits
    /\ edits' = edits + 1
    /\ crd' = "absent"
    /\ UNCHANGED <<openshift, ingress, configMap, lease, inst, faults>>

-----------------------------------------------------------------------------
Init ==
    /\ openshift \in Platforms
    /\ ingress \in IF openshift THEN Ingresses ELSE {"none"}
    /\ configMap \in Configs \cup {NoConfig}
    /\ crd \in {"absent", "established"}
    /\ lease = "free"
    /\ inst = [i \in Instances |-> Down]
    /\ edits = 0
    /\ faults = 0

Instance(i) ==
    \/ Boot(i) \/ Main(i) \/ RayCluster(i)
    \/ setupAppWrapperControllerAndWebhooks(i)
    \/ Rotate(i) \/ readyz(i) \/ Elect(i)
    \/ CacheSync(i) \/ CacheSyncTimeout(i) \/ Crash(i)

Next ==
    \/ \E i \in Instances : Instance(i)
    \/ LeaseExpires
    \/ EditConfig \/ EditIngress \/ InstallCRD \/ EstablishCRD \/ RemoveCRD

Spec == Init /\ [][Next]_vars

\* Goroutines run, the rotator and the kubelet keep trying, an instance that is
\* up takes part in the election, and the API server establishes an API.
Fairness ==
    /\ \A i \in Instances :
          /\ WF_vars(Boot(i))
          /\ WF_vars(Main(i))
          /\ WF_vars(RayCluster(i))
          /\ WF_vars(setupAppWrapperControllerAndWebhooks(i))
          /\ WF_vars(Rotate(i))
          /\ WF_vars(readyz(i))
          /\ WF_vars(Elect(i))
          /\ WF_vars(CacheSync(i))
    /\ WF_vars(LeaseExpires)
    /\ WF_vars(EstablishCRD)

FairSpec == Spec /\ Fairness

-----------------------------------------------------------------------------
(* Properties.                                                             *)

ProcessType ==
    [pc : {"down", "get", "create", "manager", "domain", "spawn", "appWrapper",
           "start", "running"},
     ray : {"none", "list", "relist", "watch", "certs", "syncing", "serving"},
     aw : {"none", "certs", "done"},
     config : ConfigType \cup {NoConfig},
     stale : BOOLEAN, domain : Domains \cup {"unset"}, moved : BOOLEAN,
     platform : BOOLEAN, certs : BOOLEAN, server : BOOLEAN,
     ready : BOOLEAN, leads : BOOLEAN]

\* The type invariant: the values each variable of the model ranges over.
TypeOK ==
    /\ openshift \in BOOLEAN
    /\ ingress \in Domains \cup {"unset", "none"}
    /\ configMap \in ConfigType \cup {NoConfig}
    /\ crd \in {"absent", "present", "established"}
    /\ lease \in {"free", "held"}
    /\ inst \in [Instances -> ProcessType]
    /\ edits \in Nat
    /\ faults \in Nat

\* An instance works with what the ConfigMap says, unless someone has edited it
\* since: instances that start together, and one that starts while a user
\* creates the ConfigMap, never go by defaults of their own (main.go, lines
\* 336-377).
ConfigHonoured ==
    \A i \in Instances :
        inst[i].config # NoConfig /\ ~inst[i].stale => inst[i].config = configMap

\* No webhook server starts without certificates, although the readiness probe
\* and two goroutines race to start it, and an instance is ready only if its
\* server listens (main.go, lines 240-287 and 326-333).
ServesCertified ==
    \A i \in Instances :
        /\ inst[i].server => inst[i].certs
        /\ inst[i].ready => inst[i].server
        /\ inst[i].ray \in {"syncing", "serving"} => inst[i].server

\* A controller that is set up goes by an ingress domain, never by an empty one,
\* which makes getIngressHost fail for ever, and by the right one: that of the
\* configuration, or else that of the cluster, unless it was edited since.  So
\* an instance that takes over moves no Route and no Ingress to another host
\* (main.go, lines 220-225 and 420-431; raycluster_controller.go, lines 312-320).
DomainHonoured ==
    \A i \in Instances :
        LET p == inst[i]
        IN  p.ray # "none" =>
                /\ p.domain # "unset"
                /\ p.domain = IF p.config.domain # "unset" THEN p.config.domain
                               ELSE IF p.moved THEN p.domain ELSE ingress

\* What main knows at each step: from the manager on it has a configuration, its
\* goroutines start late, and then the domain is known; before that there is
\* none to be out of date.
MainKnows ==
    \A i \in Instances :
        LET p == inst[i]
        IN  /\ p.pc \notin {"down", "get", "create"} => p.config # NoConfig
            /\ p.pc \in {"down", "get", "create", "manager", "domain"} =>
                  p.domain = "unset" /\ ~p.moved
            /\ p.pc \in {"down", "get", "create", "manager", "domain", "spawn"} =>
                  p.ray = "none"
            /\ p.pc \in {"spawn", "appWrapper", "start", "running"} =>
                  /\ p.domain # "unset"
                  /\ p.config.domain # "unset" => p.domain = p.config.domain
                  /\ p.config.domain = "unset" /\ ~p.moved => p.domain = ingress

\* The inductive invariant behind the three (main.go, lines 163-287).
StartupInv ==
    TypeOK /\ ConfigHonoured /\ ServesCertified /\ DomainHonoured /\ MainKnows

\* The configuration an instance would get if it started now, and whether it
\* can run with it.
Effective == IF configMap = NoConfig THEN DefaultConfig ELSE configMap

Usable(c) ==
    /\ c.parses
    /\ c.complete
    /\ c.election # "noTimes"
    /\ c.domain = "unset" => ingress \notin {"none", "unset"}

\* Once the RayCluster API stays and the configuration is usable, every instance
\* becomes ready and stays so, with its webhooks and its controller set up, and
\* one controller at least serves: no instance waits for ever for certificates,
\* for an API that has come, for the other instance, or exits again and again
\* (main.go, lines 217-287 and 436-497).
Serves ==
    <>[](crd = "established" /\ Usable(Effective)) =>
        /\ \A i \in Instances :
              <>[](inst[i].ready /\ inst[i].ray \in {"syncing", "serving"})
        /\ <>[](\E i \in Instances : inst[i].ray = "serving")
=============================================================================
