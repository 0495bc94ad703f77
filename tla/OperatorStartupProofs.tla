------------------------ MODULE OperatorStartupProofs ------------------------
(***************************************************************************)
(* Proofs about the start of the operator: any number of instances, any    *)
(* configurations, any number of faults and edits.                         *)
(***************************************************************************)
EXTENDS OperatorStartup, TLAPS

\* What a process by itself must satisfy for the invariant to hold, given the
\* domain g of the cluster.
Sound(q, g) ==
    /\ q.server => q.certs
    /\ q.ready => q.server
    /\ q.ray \in {"syncing", "serving"} => q.server
    /\ q.pc \notin {"down", "get", "create"} => q.config # NoConfig
    /\ q.pc \in {"down", "get", "create", "manager", "domain"} =>
          q.domain = "unset" /\ ~q.moved
    /\ q.pc \in {"down", "get", "create", "manager", "domain", "spawn"}
          => q.ray = "none"
    /\ q.pc \in {"spawn", "appWrapper", "start", "running"} =>
          /\ q.domain # "unset"
          /\ q.config.domain # "unset" => q.domain = q.config.domain
          /\ q.config.domain = "unset" /\ ~q.moved => q.domain = g

\* ... and given the ConfigMap c.
Honours(q, c) == q.config # NoConfig /\ ~q.stale => q.config = c

\* The invariant, process by process.
LEMMA InvByProcess ==
    ASSUME TypeOK
    PROVE  StartupInv <=> \A i \in Instances :
              Sound(inst[i], ingress) /\ Honours(inst[i], configMap)
<1>1. ASSUME NEW i \in Instances
      PROVE  inst[i].pc \in {"down", "get", "create", "manager", "domain", "spawn",
                               "appWrapper", "start", "running"}
  BY DEF TypeOK, ProcessType
<1>. QED
  BY <1>1 DEF StartupInv, ConfigHonoured, ServesCertified, DomainHonoured, MainKnows,
              Sound, Honours

\* The same after a step.
LEMMA InvByProcessNext ==
    ASSUME TypeOK'
    PROVE  StartupInv' <=> \A i \in Instances :
              Sound(inst'[i], ingress') /\ Honours(inst'[i], configMap')
<1>1. ASSUME NEW i \in Instances
      PROVE  inst'[i].pc \in {"down", "get", "create", "manager", "domain", "spawn",
                               "appWrapper", "start", "running"}
  BY DEF TypeOK, ProcessType
<1>. QED
  BY <1>1 DEF StartupInv, ConfigHonoured, ServesCertified, DomainHonoured, MainKnows,
              Sound, Honours

\* The configurations, and the process that does not run.
LEMMA Configurations ==
    /\ DefaultConfig \in ConfigType
    /\ NoConfig \notin ConfigType
    /\ DefaultConfig # NoConfig
  BY DEF DefaultConfig, NoConfig, ConfigType

\* A process that is down is sound.
LEMMA DownSound ==
    /\ Down \in ProcessType
    /\ \A p, c : Sound(Down, p) /\ Honours(Down, c)
  BY Configurations DEF Down, ProcessType, Sound, Honours

\* A step of one process that leaves the ConfigMap alone.
LEMMA ProcessStep ==
    ASSUME StartupInv, NEW i \in Instances, NEW q \in ProcessType, Set(i, q),
           Sound(q, ingress), Honours(q, configMap),
           UNCHANGED <<openshift, ingress, configMap>>,
           crd' \in {"absent", "present", "established"},
           lease' \in {"free", "held"}, edits' \in Nat, faults' \in Nat
    PROVE  StartupInv'
<1>1. TypeOK /\ inst \in [Instances -> ProcessType]
  BY DEF StartupInv, TypeOK
<1>2. inst' \in [Instances -> ProcessType] /\ inst'[i] = q
        /\ \A j \in Instances \ {i} : inst'[j] = inst[j]
  BY <1>1 DEF Set
<1>3. TypeOK'
  BY <1>1, <1>2 DEF TypeOK
<1>4. \A j \in Instances :
        Sound(inst'[j], ingress') /\ Honours(inst'[j], configMap')
  BY <1>1, <1>2, InvByProcess
<1>. QED
  BY <1>3, <1>4, InvByProcessNext

\* The initial states satisfy the invariant.
LEMMA StartupInit == Init => StartupInv
<1>. SUFFICES ASSUME Init PROVE StartupInv
  OBVIOUS
<1>1. TypeOK
  BY StartupAssumption, DownSound DEF Init, TypeOK
<1>. QED
  BY <1>1, DownSound, InvByProcess DEF Init

\* Exiting is such a step.
LEMMA ExitStep ==
    ASSUME StartupInv, NEW i \in Instances, Exit(i),
           UNCHANGED <<openshift, ingress, configMap, crd, lease>>,
           edits' \in Nat, faults' \in Nat
    PROVE  StartupInv'
  BY DownSound, ProcessStep DEF Exit, StartupInv, TypeOK

\* And so is a step that changes the process in one of its fields.
LEMMA InstanceStep ==
    ASSUME StartupInv, NEW i \in Instances, Instance(i)
    PROVE  StartupInv'
<1>. DEFINE p == inst[i]
<1>0. /\ p \in ProcessType /\ Sound(p, ingress) /\ Honours(p, configMap)
      /\ TypeOK /\ openshift \in BOOLEAN
      /\ ingress \in Domains \cup {"unset", "none"}
      /\ configMap \in ConfigType \cup {NoConfig}
      /\ crd \in {"absent", "present", "established"}
      /\ lease \in {"free", "held"} /\ edits \in Nat /\ faults \in Nat
  BY InvByProcess DEF StartupInv, TypeOK
<1>. HIDE DEF p
<1>. DEFINE Good(q) == q \in ProcessType /\ Sound(q, ingress) /\ Honours(q, configMap)
<1>1. ASSUME NEW q, Good(q), Set(i, q), UNCHANGED <<openshift, ingress, configMap, crd>>,
             lease' \in {"free", "held"}, edits' \in Nat, faults' \in Nat
      PROVE  StartupInv'
  BY <1>0, <1>1, ProcessStep
<1>2. CASE Boot(i)
  <2>1. Good([Down EXCEPT !.pc = "get"])
    BY DownSound DEF ProcessType, Sound, Honours, Down
  <2>. QED
    BY <1>0, <1>1, <2>1, <1>2 DEF Boot
<1>3. CASE loadIntoOrCreate(i)
  <2>1. CASE configMap = NoConfig
    <3>1. Good([p EXCEPT !.pc = "create"])
      BY <1>0, <1>3 DEF loadIntoOrCreate, p, ProcessType, Sound, Honours
    <3>. QED
      BY <1>0, <1>1, <2>1, <3>1, <1>3 DEF loadIntoOrCreate, p
  <2>2. CASE configMap # NoConfig /\ ~configMap.parses
    BY <1>0, <2>2, <1>3, ExitStep DEF loadIntoOrCreate
  <2>3. CASE configMap # NoConfig /\ configMap.parses
    <3>1. Good([p EXCEPT !.pc = "manager", !.config = configMap])
      BY <1>0, <2>3, <1>3 DEF loadIntoOrCreate, p, ProcessType, Sound, Honours
    <3>. QED
      BY <1>0, <1>1, <2>3, <3>1, <1>3 DEF loadIntoOrCreate, p
  <2>. QED
    BY <2>1, <2>2, <2>3
<1>4. CASE createConfigMap(i)
  <2>1. CASE configMap = NoConfig
    <3>. DEFINE q == [p EXCEPT !.pc = "manager", !.config = DefaultConfig]
    <3>1. q \in ProcessType /\ Sound(q, ingress) /\ Honours(q, DefaultConfig)
      BY <1>0, <1>4, Configurations DEF createConfigMap, p, ProcessType, Sound, Honours
    <3>2. Set(i, q) /\ configMap' = DefaultConfig
            /\ UNCHANGED <<openshift, ingress, crd, lease, edits, faults>>
      BY <2>1, <1>4 DEF createConfigMap, p
    <3>. HIDE DEF q
    <3>3. inst' \in [Instances -> ProcessType] /\ inst'[i] = q
            /\ \A j \in Instances \ {i} : inst'[j] = inst[j]
      BY <1>0, <3>1, <3>2 DEF Set, TypeOK
    <3>4. TypeOK'
      BY <1>0, <3>2, <3>3, Configurations DEF TypeOK
    <3>5. ASSUME NEW j \in Instances \ {i}
          PROVE  Sound(inst[j], ingress) /\ Honours(inst[j], DefaultConfig)
      BY <1>0, <2>1, InvByProcess DEF Honours
    <3>. QED
      BY <3>1, <3>2, <3>3, <3>4, <3>5, InvByProcessNext
  <2>2. CASE configMap # NoConfig
    BY <1>0, <2>2, <1>4, ExitStep DEF createConfigMap
  <2>. QED
    BY <2>1, <2>2
<1>5. CASE NewManager(i)
  <2>1. CASE inst[i].config.complete
    <3>1. Good([p EXCEPT !.pc = "domain"])
      BY <1>0, <2>1, <1>5 DEF NewManager, p, ProcessType, Sound, Honours
    <3>. QED
      BY <1>0, <1>1, <2>1, <3>1, <1>5 DEF NewManager, p
  <2>2. CASE ~(inst[i].config.complete)
    BY <1>0, <2>2, <1>5, ExitStep DEF NewManager
  <2>. QED
    BY <2>1, <2>2
<1>6. CASE getClusterDomain(i)
  <2>. DEFINE d == IF inst[i].config.domain = "unset" THEN ingress
                   ELSE inst[i].config.domain
  <2>1. CASE ~(inst[i].config.domain = "unset" /\ ingress \in {"none", "unset"})
    <3>0. p.config \in ConfigType /\ p.config.domain \in Domains \cup {"unset"}
      BY <1>0, <1>6 DEF getClusterDomain, p, ProcessType, Sound, ConfigType
    <3>1. Good([p EXCEPT !.pc = "spawn", !.domain = d])
      BY <1>0, <2>1, <3>0, <1>6 DEF getClusterDomain, p, ProcessType, Sound, Honours
    <3>. QED
      BY <1>0, <1>1, <2>1, <3>1, <1>6 DEF getClusterDomain, p
  <2>2. CASE inst[i].config.domain = "unset" /\ ingress \in {"none", "unset"}
    BY <1>0, <2>2, <1>6, ExitStep DEF getClusterDomain
  <2>. QED
    BY <2>1, <2>2
<1>7. CASE SpawnRayCluster(i)
  <2>1. PICK answer \in BOOLEAN :
          /\ isOpenShift(answer)
          /\ Set(i, [p EXCEPT !.pc = "appWrapper", !.ray = "list",
                              !.platform = answer])
    BY <1>7 DEF SpawnRayCluster, p
  <2>2. Good([p EXCEPT !.pc = "appWrapper", !.ray = "list", !.platform = answer])
    BY <1>0, <1>7 DEF SpawnRayCluster, p, ProcessType, Sound, Honours
  <2>3. faults' \in Nat
    BY <1>0, <2>1 DEF isOpenShift
  <2>. QED
    BY <1>0, <1>1, <2>1, <2>2, <2>3, <1>7 DEF SpawnRayCluster
<1>8. CASE setupAppWrapperComponents(i)
  <2>. DEFINE aw == IF inst[i].config.appWrapper THEN "certs" ELSE p.aw
  <2>1. Good([p EXCEPT !.pc = "start", !.aw = aw])
    BY <1>0, <1>8 DEF setupAppWrapperComponents, p, ProcessType, Sound, Honours
  <2>. QED
    BY <1>0, <1>1, <2>1, <1>8 DEF setupAppWrapperComponents, p
<1>9. CASE StartManager(i)
  <2>1. CASE inst[i].config.election = "noTimes"
    BY <1>0, <2>1, <1>9, ExitStep DEF StartManager
  <2>2. CASE inst[i].config.election # "noTimes"
    <3>1. Good([p EXCEPT !.pc = "running"])
      BY <1>0, <1>9 DEF StartManager, p, ProcessType, Sound, Honours
    <3>. QED
      BY <1>0, <1>1, <2>2, <3>1, <1>9 DEF StartManager, p
  <2>. QED
    BY <2>1, <2>2
<1>10. CASE isAPIAvailable(i)
  <2>. DEFINE ray == IF crd = "absent" THEN "relist" ELSE "certs"
  <2>1. Good([p EXCEPT !.ray = ray])
    BY <1>0, <1>10 DEF isAPIAvailable, p, ProcessType, Sound, Honours
  <2>. QED
    BY <1>0, <1>1, <2>1, <1>10 DEF isAPIAvailable, p
<1>11. CASE waitForAPI(i)
  <2>. DEFINE ray == IF crd = "absent" THEN "watch" ELSE "certs"
  <2>1. Good([p EXCEPT !.ray = ray])
    BY <1>0, <1>11 DEF waitForAPI, p, ProcessType, Sound, Honours
  <2>. QED
    BY <1>0, <1>1, <2>1, <1>11 DEF waitForAPI, p
<1>12. CASE ResultChan(i)
  <2>1. Good([p EXCEPT !.ray = "certs"])
    BY <1>0, <1>12 DEF ResultChan, p, ProcessType, Sound, Honours
  <2>. QED
    BY <1>0, <1>1, <2>1, <1>12 DEF ResultChan, p
<1>13. CASE setupRayClusterController(i)
  <2>1. Good(WithServer([p EXCEPT !.ray = "syncing"]))
    BY <1>0, <1>13 DEF setupRayClusterController, p, WithServer, ProcessType, Sound, Honours
  <2>. QED
    BY <1>0, <1>1, <2>1, <1>13 DEF setupRayClusterController, p
<1>14. CASE setupAppWrapperControllerAndWebhooks(i)
  <2>1. Good(WithServer([p EXCEPT !.aw = "done"]))
    BY <1>0, <1>14 DEF setupAppWrapperControllerAndWebhooks, p, WithServer, ProcessType, Sound, Honours
  <2>. QED
    BY <1>0, <1>1, <2>1, <1>14 DEF setupAppWrapperControllerAndWebhooks, p
<1>15. CASE Rotate(i)
  <2>1. Good([p EXCEPT !.certs = TRUE])
    <3>. DEFINE q == [p EXCEPT !.certs = TRUE]
    <3>1. q \in ProcessType
      BY <1>0 DEF ProcessType
    <3>2. Sound(q, ingress) /\ Honours(q, configMap)
      BY <1>0 DEF ProcessType, Sound, Honours
    <3>. QED
      BY <3>1, <3>2
  <2>. QED
    BY <1>0, <1>1, <2>1, <1>15 DEF Rotate, p
<1>16. CASE readyz(i)
  <2>1. Good(WithServer([p EXCEPT !.ready = inst[i].server]))
    BY <1>0, <1>16 DEF readyz, p, WithServer, ProcessType, Sound, Honours
  <2>. QED
    BY <1>0, <1>1, <2>1, <1>16 DEF readyz, p
<1>17. CASE Elect(i)
  <2>1. Good([p EXCEPT !.leads = TRUE])
    <3>. DEFINE q == [p EXCEPT !.leads = TRUE]
    <3>1. q \in ProcessType
      BY <1>0 DEF ProcessType
    <3>2. Sound(q, ingress) /\ Honours(q, configMap)
      BY <1>0 DEF ProcessType, Sound, Honours
    <3>. QED
      BY <3>1, <3>2
  <2>. QED
    BY <1>0, <1>1, <2>1, <1>17 DEF Elect, p
<1>18. CASE CacheSync(i)
  <2>1. Good([p EXCEPT !.ray = "serving"])
    BY <1>0, <1>18 DEF CacheSync, p, ProcessType, Sound, Honours
  <2>. QED
    BY <1>0, <1>1, <2>1, <1>18 DEF CacheSync, p
<1>19. CASE CacheSyncTimeout(i)
  BY <1>0, <1>19, ExitStep DEF CacheSyncTimeout
<1>20. CASE Crash(i)
  BY <1>0, <1>20, ExitStep DEF Crash
<1>. QED
  BY <1>2, <1>3, <1>4, <1>5, <1>6, <1>7, <1>8, <1>9, <1>10, <1>11, <1>12, <1>13, <1>14, <1>15, <1>16, <1>17, <1>18, <1>19, <1>20
     DEF Instance, Main, RayCluster

\* Every step preserves the invariant.
LEMMA StartupStep == StartupInv /\ [Next]_vars => StartupInv'
<1>. SUFFICES ASSUME StartupInv, [Next]_vars PROVE StartupInv'
  OBVIOUS
<1>0. TypeOK /\ \A i \in Instances : inst[i] \in ProcessType
        /\ Sound(inst[i], ingress) /\ Honours(inst[i], configMap)
  BY InvByProcess DEF StartupInv, TypeOK
<1>1. ASSUME UNCHANGED <<openshift, ingress, configMap, inst>>, TypeOK' PROVE StartupInv'
  BY <1>0, <1>1, InvByProcessNext
<1>2. CASE UNCHANGED vars
  BY <1>0, <1>1, <1>2 DEF vars, TypeOK
<1>3. ASSUME NEW i \in Instances, Instance(i) PROVE StartupInv'
  BY <1>3, InstanceStep
<1>4. CASE LeaseExpires
  BY <1>0, <1>1, <1>4 DEF LeaseExpires, TypeOK
<1>5. CASE InstallCRD \/ EstablishCRD \/ RemoveCRD
  BY <1>0, <1>1, <1>5 DEF InstallCRD, EstablishCRD, RemoveCRD, TypeOK
<1>6. CASE EditConfig
  <2>1. ASSUME NEW i \in Instances
        PROVE  /\ inst'[i] = [inst[i] EXCEPT !.stale = inst[i].config # NoConfig]
               /\ inst'[i] \in ProcessType
               /\ Sound(inst'[i], ingress) /\ Honours(inst'[i], configMap')
    <3>1. inst'[i] = [inst[i] EXCEPT !.stale = inst[i].config # NoConfig]
      BY <1>6 DEF EditConfig
    <3>2. inst'[i] \in ProcessType
      BY <1>0, <3>1 DEF ProcessType
    <3>3. Sound(inst'[i], ingress)
      BY <1>0, <3>1 DEF ProcessType, Sound
    <3>4. Honours(inst'[i], configMap')
      BY <1>0, <3>1 DEF ProcessType, Honours
    <3>. QED
      BY <3>1, <3>2, <3>3, <3>4
  <2>2. inst' \in [Instances -> ProcessType]
    BY <1>6, <2>1 DEF EditConfig
  <2>3. TypeOK'
    BY <1>0, <1>6, <2>2, StartupAssumption DEF EditConfig, TypeOK
  <2>. QED
    BY <1>6, <2>1, <2>3, InvByProcessNext DEF EditConfig
<1>7. CASE EditIngress
  <2>. DEFINE moves(i) == inst[i].domain # "unset" /\ inst[i].config.domain = "unset"
  <2>1. ASSUME NEW i \in Instances
        PROVE  /\ inst'[i] \in ProcessType
               /\ Sound(inst'[i], ingress') /\ Honours(inst'[i], configMap)
    <3>1. inst'[i] = [inst[i] EXCEPT !.moved = moves(i)]
      BY <1>7 DEF EditIngress
    <3>2. moves(i) \in BOOLEAN
      OBVIOUS
    <3>3. inst[i].pc \in {"down", "get", "create", "manager", "domain", "spawn",
                         "appWrapper", "start", "running"}
      BY <1>0 DEF ProcessType
    <3>4. inst'[i] \in ProcessType
      BY <1>0, <3>1, <3>2 DEF ProcessType
    <3>5. Sound(inst'[i], ingress')
      <4>. DEFINE q == inst[i]
                  r == inst'[i]
      <4>1. /\ r.server = q.server /\ r.certs = q.certs /\ r.ready = q.ready
            /\ r.ray = q.ray /\ r.pc = q.pc /\ r.config = q.config
            /\ r.domain = q.domain
        BY <1>0, <3>1 DEF ProcessType
      <4>2. r.moved = moves(i)
        BY <1>0, <3>1 DEF ProcessType
      <4>3. Sound(q, ingress)
        BY <1>0
      <4>. QED
        BY <4>1, <4>2, <4>3 DEF Sound
    <3>6. Honours(inst'[i], configMap)
      BY <1>0, <3>1 DEF ProcessType, Honours
    <3>. QED
      BY <3>4, <3>5, <3>6
  <2>2. inst' \in [Instances -> ProcessType]
    BY <1>7, <2>1 DEF EditIngress
  <2>3. TypeOK'
    BY <1>0, <1>7, <2>2 DEF EditIngress, TypeOK
  <2>. QED
    BY <1>7, <2>1, <2>3, InvByProcessNext DEF EditIngress
<1>. QED
  BY <1>2, <1>3, <1>4, <1>5, <1>6, <1>7 DEF Next

\* Whatever the order in which instances start, crash and are edited under, the
\* invariant of the start holds (main.go, lines 101-238).
THEOREM StartupInvariant == Spec => []StartupInv
<1>1. Init => StartupInv
  BY StartupInit
<1>2. StartupInv /\ [Next]_vars => StartupInv'
  BY StartupStep
<1>. QED
  BY <1>1, <1>2, PTL DEF Spec

\* The variables range over the values the model gives them, in particular every
\* configuration an instance works with is one that was read or made (main.go,
\* lines 336-377).
THEOREM StartupTypes == Spec => []TypeOK
<1>1. StartupInv => TypeOK
  BY DEF StartupInv
<1>. QED
  BY <1>1, StartupInvariant, PTL

\* No instance, of any number that start together, works with anything but the
\* ConfigMap, unless it was edited since (main.go, lines 336-377).
THEOREM ConfigurationHonoured == Spec => []ConfigHonoured
<1>1. StartupInv => ConfigHonoured
  BY DEF StartupInv
<1>. QED
  BY <1>1, StartupInvariant, PTL

\* No webhook server ever starts without certificates, and no instance is ready
\* before its server listens (main.go, lines 240-287 and 320-334).
THEOREM ServersCertified == Spec => []ServesCertified
<1>1. StartupInv => ServesCertified
  BY DEF StartupInv
<1>. QED
  BY <1>1, StartupInvariant, PTL

\* No controller is set up with an empty ingress domain, or with one that neither
\* the configuration nor the cluster had (main.go, lines 220-231 and 420-431).
THEOREM DomainsHonoured == Spec => []DomainHonoured
<1>1. StartupInv => DomainHonoured
  BY DEF StartupInv
<1>. QED
  BY <1>1, StartupInvariant, PTL
=============================================================================
