------------------------------ MODULE Contention ------------------------------
(***************************************************************************)
(* Several operators and several RayClusters at once: what RayCluster-     *)
(* Controller, with one of each, leaves out.  The operators are the Pods   *)
(* that the Deployment, of one replica, runs one after the other; during a *)
(* rolling update, and without leader election, two of them reconcile the  *)
(* same clusters.  They meet in the CA Secret and the OAuth Secret of a    *)
(* cluster, and the clusters meet in ClusterRoleBindings, whose names do   *)
(* not always tell them apart.                                             *)
(*                                                                         *)
(* The platform is OpenShift, with OAuth and mTLS.  Of Reconcile the model *)
(* keeps the requests whose effect depends on who sends them, or when; the *)
(* others apply what depends on the cluster alone.  A cluster keeps the    *)
(* annotation, and so the names, it is created with: the renaming during   *)
(* an upgrade is in RayClusterController.                                  *)
(***************************************************************************)
EXTENDS Integers, FiniteSets, Names

CONSTANTS
    Operators,      \* the Pods, numbered in the order the Deployment makes them
    Clusters,       \* the RayClusters
    Meta,           \* the name, namespace and version annotation of each
    Scenarios       \* is leader election configured, which clusters may users
                    \* delete in the foreground, and how often create?

ASSUME ContentionAssumption ==
    /\ Operators \subseteq Nat \ {0}
    /\ \E last \in Operators : \A o \in Operators : o <= last
    /\ Scenarios \subseteq [election : BOOLEAN, foreground : SUBSET Clusters,
                              creates : [Clusters -> Nat]]

VARIABLES
    scenario,   \* the one of the scenarios that takes place
    log,        \* what became of each cluster, version after version
    op,         \* the operators: new, active, gone
    seen,       \* the version of each cluster in each operator's cache
    queue,      \* the work queue of each operator
    at,         \* where each operator's Reconcile is
    ca,         \* the CA Secrets: the key, and the uid of the owner
    cookie,     \* the OAuth Secrets: whose salt, and the uid of the owner
    crb         \* the ClusterRoleBindings

ctrlVars == <<op, seen, at>>
vars == <<scenario, log, op, seen, queue, at, ca, cookie, crb>>

-----------------------------------------------------------------------------
(* A cluster is absent, bare (without the OAuth finalizer), guarded (with  *)
(* it), or deleted, but kept by the OAuth finalizer (closing), by the      *)
(* foregroundDeletion finalizer (lingering) or by both (draining).         *)

Lives == {"absent", "bare", "guarded", "closing", "draining", "lingering"}

\* Deleted in the foreground, and not gone.
InForeground == {"draining", "lingering"}

Version(c) == Len(log[c])

Life(c) == log[c][Version(c)]

\* The uid of a cluster at a version: how often it was created until then.
Uid(c, v) == Cardinality({i \in 1..v : log[c][i] = "bare"})

Store(c, life) == log' = [log EXCEPT ![c] = Append(@, life)]

Alive(c) == Life(c) \in {"bare", "guarded"}

\* A Reconcile that is not running, and one of cluster c from version v.
Idle == [pc |-> "idle", job |-> {}, version |-> 0, key |-> 0]

Job(step, c, v) == [pc |-> step, job |-> {c}, version |-> v, key |-> 0]

\* The value is a key, or the operator whose salt it is.
NoSecret == [value |-> 0, uid |-> 0]

\* A binding has the labels, and the subject, of the cluster it was last
\* applied for; dying: it was deleted in the foreground and is not gone yet.
NoBinding == [of |-> {}, dying |-> FALSE]

crbName == [c \in Clusters |-> crbNameFromCluster(Meta[c])]

BindingNames == {crbName[c] : c \in Clusters}

Active(o) == op[o] = "active"

\* The events of an object reach the queues of all operators.
Tell(tellees) ==
    queue' = [o \in Operators |->
                 IF Active(o) THEN queue[o] \cup tellees ELSE queue[o]]

-----------------------------------------------------------------------------
(* The manager.                                                            *)

\* Variant: the lease is not looked at.
ElectedAnyway(o) == TRUE

\* With leader election, controllers start once the lease of the last leader
\* has run out; without it, at once.
Elected(o) == scenario.election => \A p \in Operators : ~Active(p)

\* A controller starts: its informers list the clusters and enqueue them.  One
\* that had to wait for the lease has been following them, and a lease lasts
\* longer than its informers lag.
Begin(o) ==
    /\ op[o] = "new"
    /\ Elected(o)
    /\ op' = [op EXCEPT ![o] = "active"]
    /\ seen' = [seen EXCEPT ![o] = [c \in Clusters |-> Version(c)]]
    /\ queue' = [queue EXCEPT ![o] = {c \in Clusters : Life(c) # "absent"}]
    /\ UNCHANGED <<scenario, log, at, ca, cookie, crb>>

\* An operator is stopped or crashes, anywhere, and a later one takes over.
Stop(o) ==
    /\ op[o] # "gone"
    /\ \E p \in Operators : p > o
    /\ op' = [op EXCEPT ![o] = "gone"]
    /\ seen' = [seen EXCEPT ![o] = [c \in Clusters |-> 1]]
    /\ queue' = [queue EXCEPT ![o] = {}]
    /\ at' = [at EXCEPT ![o] = Idle]
    /\ UNCHANGED <<scenario, log, ca, cookie, crb>>

\* The informer receives the next version of a cluster.
Deliver(o, c) ==
    /\ Active(o)
    /\ seen[o][c] < Version(c)
    /\ seen' = [seen EXCEPT ![o][c] = @ + 1]
    /\ queue' = [queue EXCEPT ![o] = @ \cup {c}]
    /\ UNCHANGED <<scenario, log, op, at, ca, cookie, crb>>

-----------------------------------------------------------------------------
(* Users and the rest of Kubernetes.                                       *)

Create(c) ==
    /\ Life(c) = "absent"
    /\ Uid(c, Version(c)) < scenario.creates[c]
    /\ Store(c, "bare")
    /\ UNCHANGED <<scenario, ctrlVars, queue, ca, cookie, crb>>

\* A user deletes a cluster, in the background or in the foreground.
Delete(c) ==
    /\ Alive(c)
    /\ \/ Store(c, IF Life(c) = "guarded" THEN "closing" ELSE "absent")
       \/ /\ c \in scenario.foreground
          /\ Store(c, IF Life(c) = "guarded" THEN "draining" ELSE "lingering")
    /\ UNCHANGED <<scenario, ctrlVars, queue, ca, cookie, crb>>

\* The garbage collector removes the foregroundDeletion finalizer.
ReleaseForeground(c) ==
    /\ Life(c) \in InForeground
    /\ Store(c, IF Life(c) = "draining" THEN "closing" ELSE "absent")
    /\ UNCHANGED <<scenario, ctrlVars, queue, ca, cookie, crb>>

\* The garbage collector deletes the Secrets whose owner is gone, or is being
\* deleted in the foreground.
Garbage(c, secret) ==
    /\ secret # NoSecret
    /\ \/ Life(c) \in InForeground \cup {"absent"}
       \/ secret.uid # Uid(c, Version(c))

Collect(c) ==
    /\ Garbage(c, ca[c]) \/ Garbage(c, cookie[c])
    /\ ca' = [ca EXCEPT ![c] = IF Garbage(c, @) THEN NoSecret ELSE @]
    /\ cookie' = [cookie EXCEPT ![c] = IF Garbage(c, @) THEN NoSecret ELSE @]
    /\ Tell({c})
    /\ UNCHANGED <<scenario, log, ctrlVars, crb>>

BindingGone(n) ==
    /\ crb[n].dying
    /\ crb' = [crb EXCEPT ![n] = NoBinding]
    /\ Tell(crb[n].of)
    /\ UNCHANGED <<scenario, log, ctrlVars, ca, cookie>>

-----------------------------------------------------------------------------
(* Reconcile: one request of operator o for cluster c.                     *)

Goto(o, step) == at' = [at EXCEPT ![o] = IF step = "idle" THEN Idle
                                         ELSE [@ EXCEPT !.pc = step]]

\* Variant: a cluster that is deleted is released at once.
FirstStepNoCleanup(life) ==
    CASE life = "bare"                       -> "addFinalizer"
      [] life \in {"guarded", "lingering"}   -> "caGet"
      [] OTHER                               -> "release"

\* The cluster exists.  One that is deleted and has no OAuth finalizer gets its
\* resources like one that is not deleted.
FirstStep(life) ==
    CASE life = "bare"                       -> "addFinalizer"
      [] life \in {"guarded", "lingering"}   -> "caGet"
      [] OTHER                               -> "deleteCRB"

\* Reconcile reads the cluster from the cache.
Start(o, c) ==
    /\ Active(o)
    /\ at[o] = Idle
    /\ c \in queue[o]
    /\ queue' = [queue EXCEPT ![o] = @ \ {c}]
    /\ LET v == seen[o][c]
       IN  at' = [at EXCEPT ![o] = IF log[c][v] = "absent" THEN Idle
                                   ELSE Job(FirstStep(log[c][v]), c, v)]
    /\ UNCHANGED <<scenario, log, op, seen, ca, cookie, crb>>

\* The finalizer is written, unless the cluster has changed: then the key is
\* retried.
UpdateFinalizer(o, c, life, step) ==
    /\ IF at[o].version = Version(c)
          THEN Store(c, life) /\ Goto(o, step) /\ UNCHANGED queue
          ELSE /\ Goto(o, "idle")
               /\ queue' = [queue EXCEPT ![o] = @ \cup {c}]
               /\ UNCHANGED log
    /\ UNCHANGED <<scenario, op, seen, ca, cookie, crb>>

AddFinalizer(o, c) ==
    /\ at[o].pc = "addFinalizer"
    /\ UpdateFinalizer(o, c, "guarded", "caGet")

DeleteCRB(o, c) ==
    /\ at[o].pc = "deleteCRB"
    /\ LET n == crbName[c]
       IN  IF crb[n] # NoBinding /\ ~crb[n].dying
              THEN /\ crb' = [crb EXCEPT ![n].dying = TRUE]
                   /\ Tell(crb[n].of)
              ELSE UNCHANGED <<crb, queue>>
    /\ Goto(o, "release")
    /\ UNCHANGED <<scenario, log, op, seen, ca, cookie>>

RemoveFinalizer(o, c) ==
    /\ at[o].pc = "release"
    /\ UpdateFinalizer(o, c, IF Life(c) = "draining" THEN "lingering" ELSE "absent",
                       "idle")

\* generateCACertificate: a key that is nowhere in use for the cluster.
NewKey(c) ==
    CHOOSE key \in 1..(Cardinality(Operators) + 2) :
        key # ca[c].value /\ \A o \in Operators : key # at[o].key

\* Variant: every reconciliation generates a key.
GetCAAlwaysNew(o, c) ==
    /\ at[o].pc = "caGet"
    /\ at' = [at EXCEPT ![o].pc = "caApply", ![o].key = NewKey(c)]
    /\ UNCHANGED <<scenario, log, op, seen, queue, ca, cookie, crb>>

GetCA(o, c) ==
    /\ at[o].pc = "caGet"
    /\ at' = [at EXCEPT ![o].pc = "caApply",
                        ![o].key = IF ca[c] = NoSecret THEN NewKey(c)
                                                         ELSE ca[c].value]
    /\ UNCHANGED <<scenario, log, op, seen, queue, ca, cookie, crb>>

ApplyCA(o, c) ==
    /\ at[o].pc = "caApply"
    /\ ca' = [ca EXCEPT ![c] = [value |-> at[o].key,
                                uid |-> Uid(c, at[o].version)]]
    /\ IF ca' # ca THEN Tell({c}) ELSE UNCHANGED queue
    /\ at' = [at EXCEPT ![o].pc = "cookie", ![o].key = 0]
    /\ UNCHANGED <<scenario, log, op, seen, cookie, crb>>

\* Variants: the owner is forgotten; every reconciliation makes a salt.
desiredOAuthSecretNoOwner(o, c) == [value |-> o]

desiredOAuthSecretFresh(o, c) ==
    [value |-> 3 - cookie[c].value, uid |-> Uid(c, at[o].version)]

\* The cookie secret is made of the cluster's name and the salt that the
\* operator made when it started.
desiredOAuthSecret(o, c) == [value |-> o, uid |-> Uid(c, at[o].version)]

ApplyOAuthSecret(o, c) ==
    /\ at[o].pc = "cookie"
    /\ cookie' = [cookie EXCEPT ![c] = desiredOAuthSecret(o, c)]
    /\ IF cookie' # cookie THEN Tell({c}) ELSE UNCHANGED queue
    /\ Goto(o, "crb")
    /\ UNCHANGED <<scenario, log, op, seen, ca, crb>>

\* Variant: the event of an update enqueues the cluster in the new labels only.
mapFuncNew(old, new) == new.of

\* EnqueueRequestsFromMapFunc: the clusters in the labels of the object before
\* and after an event.
mapFunc(old, new) == old.of \cup new.of

ApplyCRB(o, c) ==
    /\ at[o].pc = "crb"
    /\ LET n == crbName[c]
       IN  /\ crb' = [crb EXCEPT ![n].of = {c}]
           /\ IF crb' # crb THEN Tell(mapFunc(crb[n], crb'[n])) ELSE UNCHANGED queue
    /\ Goto(o, "idle")
    /\ UNCHANGED <<scenario, log, op, seen, ca, cookie>>

Request(o, c) ==
    /\ at[o].job = {c}
    /\ \/ AddFinalizer(o, c) \/ DeleteCRB(o, c) \/ RemoveFinalizer(o, c)
       \/ GetCA(o, c) \/ ApplyCA(o, c) \/ ApplyOAuthSecret(o, c) \/ ApplyCRB(o, c)

-----------------------------------------------------------------------------
Init ==
    /\ scenario \in Scenarios
    /\ log = [c \in Clusters |-> <<"absent">>]
    /\ op = [o \in Operators |-> "new"]
    /\ seen = [o \in Operators |-> [c \in Clusters |-> 1]]
    /\ queue = [o \in Operators |-> {}]
    /\ at = [o \in Operators |-> Idle]
    /\ ca = [c \in Clusters |-> NoSecret]
    /\ cookie = [c \in Clusters |-> NoSecret]
    /\ crb = [n \in BindingNames |-> NoBinding]

Reconcile(o) == \E c \in Clusters : Start(o, c) \/ Request(o, c)

Next ==
    \/ \E o \in Operators : Begin(o) \/ Stop(o) \/ Reconcile(o)
    \/ \E o \in Operators, c \in Clusters : Deliver(o, c)
    \/ \E c \in Clusters : Create(c) \/ Delete(c) \/ ReleaseForeground(c) \/ Collect(c)
    \/ \E n \in BindingNames : BindingGone(n)

Spec == Init /\ [][Next]_vars

\* Goroutines run, informers deliver, the garbage collector does its work, and
\* a rolling update comes to its end.
Fairness ==
    /\ \A o \in Operators :
          /\ WF_vars(Begin(o)) /\ WF_vars(Stop(o)) /\ WF_vars(Reconcile(o))
          /\ WF_vars(\E c \in Clusters : Deliver(o, c))
    /\ WF_vars(\E c \in Clusters : Collect(c))
    /\ WF_vars(\E c \in Clusters : ReleaseForeground(c))
    /\ WF_vars(\E n \in BindingNames : BindingGone(n))

FairSpec == Spec /\ Fairness

-----------------------------------------------------------------------------
(* Properties.                                                             *)

Steps == {"idle", "addFinalizer", "deleteCRB", "release", "caGet", "caApply",
          "cookie", "crb"}

\* The type invariant: the values each variable of the model ranges over.
TypeOK ==
    /\ scenario \in Scenarios
    /\ log \in [Clusters -> Seq(Lives)]
    /\ op \in [Operators -> {"new", "active", "gone"}]
    /\ seen \in [Operators -> [Clusters -> Nat]]
    /\ queue \in [Operators -> SUBSET Clusters]
    /\ at \in [Operators -> [pc : Steps, job : SUBSET Clusters, version : Nat,
                             key : Nat]]
    /\ ca \in [Clusters -> [value : Nat, uid : Nat]]
    /\ cookie \in [Clusters -> [value : Nat, uid : Nat]]
    /\ crb \in [BindingNames -> [of : SUBSET Clusters, dying : BOOLEAN]]

\* Nothing is left to do for anyone.
Quiescent ==
    /\ \A o \in Operators :
          /\ op[o] # "new"
          /\ at[o] = Idle
          /\ queue[o] = {}
          /\ Active(o) => \A c \in Clusters : seen[o][c] = Version(c)
    /\ \A n \in BindingNames : ~crb[n].dying
    /\ \A c \in Clusters : /\ ~Garbage(c, ca[c]) /\ ~Garbage(c, cookie[c])
                          /\ Life(c) \notin InForeground

\* When all is at rest, every cluster has its Secrets and a ClusterRoleBinding
\* that grants to its own ServiceAccount, even if it shared the binding with a
\* cluster that was deleted, and whichever operators worked on it
\* (raycluster_controller.go, lines 146-165, 229 and 686-703).
QuiescentBound ==
    Quiescent => \A c \in Clusters : Alive(c) =>
        /\ ca[c] # NoSecret
        /\ cookie[c] # NoSecret
        /\ crb[crbName[c]].of = {c}

\* Cluster c was once deleted, without the OAuth finalizer, and still there.
Lingered(c) == \E v \in 1..Version(c) : log[c][v] = "lingering"

\* With leader election a ClusterRoleBinding that is left behind when its cluster
\* is gone is one of a cluster that lingered, for which the controller may have
\* applied it anew after the clean-up.  No other is, also if a namesake lingers,
\* and if operators take over from one another in the middle of a reconciliation
\* (main.go, line 206; raycluster_controller.go, lines 135-166 and 229).
NoOrphanElected ==
    scenario.election /\ Quiescent =>
        \A n \in BindingNames, c \in Clusters :
            c \in crb[n].of => Alive(c) \/ Lingered(c)

\* With leader election a CA key never changes while its Secret exists: no
\* operator writes a key that it generated before another wrote one
\* (main.go, line 206; raycluster_controller.go, lines 168-194).
KeyStableElected ==
    [][scenario.election => \A c \in Clusters :
          NoSecret \notin {ca[c], ca'[c]} => ca'[c].value = ca[c].value]_vars

\* The inductive invariant behind it: with leader election one operator at most
\* works, and the key it is about to write is that of the Secret, if there is
\* one.
KeyInv ==
    /\ op \in [Operators -> {"new", "active", "gone"}]
    /\ DOMAIN at = Operators /\ DOMAIN ca = Clusters
    /\ \A o \in Operators : ~Active(o) => at[o] = Idle
    /\ scenario.election =>
          /\ \A o, p \in Operators : Active(o) /\ Active(p) => o = p
          /\ \A o \in Operators, c \in Clusters :
                at[o].pc = "caApply" /\ at[o].job = {c} /\ ca[c] # NoSecret
                    => at[o].key = ca[c].value

\* Operator o is at one of these steps for cluster c.
At(o, c, steps) == at[o].job = {c} /\ at[o].pc \in steps

ApplySteps == {"caGet", "caApply", "cookie", "crb"}

\* Operator o will look at cluster c again ...
Owes(o, c) == seen[o][c] < Version(c) \/ c \in queue[o]

\* ... or is about to do what the cluster needs, where it is not done.
Handles(o, c) ==
    /\ Life(c) = "bare" => At(o, c, {"addFinalizer"})
    /\ Life(c) \in {"closing", "draining"} => At(o, c, {"deleteCRB", "release"})
    /\ Life(c) = "guarded" =>
          /\ At(o, c, {"caGet", "caApply"}) \/ ca[c] # NoSecret
          /\ At(o, c, {"caGet", "caApply", "cookie"}) \/ cookie[c] # NoSecret
          /\ At(o, c, ApplySteps) \/ crb[crbName[c]].of = {c}

\* The last operator stays, caches hold what was stored before, and a Reconcile
\* what the cache held.
Caches ==
    \A o \in Operators :
        /\ op[o] = "gone" => \E p \in Operators : p > o
        /\ \A c \in Clusters :
              /\ seen[o][c] \in 1..Version(c)
              /\ at[o].job = {c} => at[o].version \in 1..seen[o][c]

\* A key is never that of no Secret.
Keyed ==
    /\ \A c \in Clusters : ca[c] # NoSecret => ca[c].value # 0
    /\ \A o \in Operators : at[o].pc = "caApply" => at[o].key # 0

\* No operator at work has forgotten a cluster.
Handled ==
    \A o \in Operators, c \in Clusters : Active(o) => Owes(o, c) \/ Handles(o, c)

\* The binding of cluster c, if any, is being deleted.
Unbinding(c) == \A n \in BindingNames : c \in crb[n].of => crb[n].dying

\* Cluster c has no binding without the finalizer, nobody applies one for it then,
\* and nobody takes the finalizer away before the binding is deleted.
Protected(c) ==
    /\ Life(c) \in {"absent", "bare"} => Unbinding(c)
    /\ \A o \in Operators : Active(o) =>
          /\ (\E v \in seen[o][c]..Version(c) : log[c][v] = "guarded")
                \/ At(o, c, ApplySteps)
             => Life(c) \in {"guarded", "closing", "draining"}
          /\ At(o, c, {"release"}) /\ at[o].version = Version(c) => Unbinding(c)

\* Bindings have the names of their clusters, nobody cleans up for a copy that is
\* not deleted, and with leader election every cluster is protected, unless it
\* lingered.
Cleaned ==
    /\ \A n \in BindingNames, c \in Clusters : c \in crb[n].of => n = crbName[c]
    /\ \A o \in Operators, c \in Clusters :
          At(o, c, {"deleteCRB", "release"}) => log[c][at[o].version] # "guarded"
    /\ scenario.election => \A c \in Clusters : Lingered(c) \/ Protected(c)

\* The inductive invariant behind QuiescentBound and NoOrphanElected
\* (raycluster_controller.go, lines 115-165, 229 and 686-703).
ContentionInv == TypeOK /\ KeyInv /\ Caches /\ Keyed /\ Handled /\ Cleaned

\* Two live clusters that the name of their binding does not tell apart.
Clash ==
    \E c, d \in Clusters : /\ c # d
                           /\ Alive(c) /\ Alive(d)
                           /\ crbName[c] = crbName[d]

\* When the rolling update is over, all comes to rest, with or without leader
\* election: operators that overwrite each other's Secrets, and are told so, do
\* not go on for ever.  Only two clusters with one binding do
\* (raycluster_controller.go, lines 203, 229, 671-676 and 686-703).
ComesToRest == <>[]~Clash => <>[]Quiescent

\* And even then the keys and the cookies settle, so that certificates and
\* sessions stay valid (lines 168-194, 203 and 465-475).
SecretsSettle == <>[][UNCHANGED <<ca, cookie>>]_vars
=============================================================================
