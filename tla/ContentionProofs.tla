--------------------------- MODULE ContentionProofs ---------------------------
(***************************************************************************)
(* Leader election protects the CA keys and the ClusterRoleBindings, and   *)
(* with or without it no cluster is left without its resources, whatever   *)
(* the number of operators and of clusters.                                *)
(***************************************************************************)
EXTENDS Contention, FiniteSetTheorems, TLAPS

\* What a step may do to the keys: it leaves the Secrets alone, deletes some, or
\* writes one with the key that the operator at work for its cluster holds.
Kept == ca' = ca
Collected == \A c \in Clusters : ca'[c] \in {ca[c], NoSecret}
Wrote(o, c) ==
    /\ at[o].pc = "caApply" /\ at[o].job = {c}
    /\ at'[o].pc # "caApply"
    /\ ca'[c].value = at[o].key
    /\ \A d \in Clusters \ {c} : ca'[d] = ca[d]

\* An operator at work is active.
LEMMA WorkerActive ==
    ASSUME KeyInv, NEW o \in Operators, NEW c, at[o].job = {c}
    PROVE  Active(o) /\ at[o] # Idle
  BY DEF KeyInv, Idle

\* There is no Secret, and nobody at work, at the start.
LEMMA KeyInit == Init => KeyInv
  BY DEF Init, KeyInv, Active, Idle

\* A step of Reconcile of operator o, seen from the keys.
LEMMA KeyRequest ==
    ASSUME KeyInv, NEW o \in Operators, NEW c \in Clusters,
           Start(o, c) \/ Request(o, c)
    PROVE  /\ UNCHANGED <<scenario, op>>
           /\ Active(o) \/ at'[o] = Idle
           /\ DOMAIN at' = Operators /\ DOMAIN ca' = Clusters
           /\ \A p \in Operators \ {o} : at'[p] = at[p]
           /\ Kept \/ Wrote(o, c)
           /\ at'[o].pc = "caApply" =>
                 /\ ca' = ca
                 /\ at'[o].job = {c}
                 /\ ca[c] # NoSecret => at'[o].key = ca[c].value
<1>0. DOMAIN at = Operators /\ DOMAIN ca = Clusters
  BY DEF KeyInv
<1>1. CASE Start(o, c)
  <2>. DEFINE v == seen[o][c]
              q == IF log[c][v] = "absent" THEN Idle
                   ELSE Job(FirstStep(log[c][v]), c, v)
  <2>1. q.pc # "caApply"
    BY DEF FirstStep, Job, Idle
  <2>2. UNCHANGED <<scenario, op, ca>> /\ at' = [at EXCEPT ![o] = q]
    BY <1>1 DEF Start
  <2>3. Active(o) \/ q = Idle
    BY <1>1 DEF Start
  <2>. QED
    BY <1>0, <2>1, <2>2, <2>3 DEF Kept
<1>2. CASE Request(o, c)
  <2>0. at[o].job = {c} /\ Active(o)
    BY <1>2, WorkerActive DEF Request
  <2>1. ASSUME NEW step, step # "caApply", Goto(o, step),
               UNCHANGED <<scenario, op, ca>>
        PROVE  /\ \A p \in Operators \ {o} : at'[p] = at[p]
               /\ DOMAIN at' = Operators
               /\ at'[o].pc # "caApply"
    <3>1. CASE step = "idle"
      BY <1>0, <2>1, <3>1 DEF Goto, Idle
    <3>2. CASE step # "idle"
      <4>1. at' = [at EXCEPT ![o] = [at[o] EXCEPT !.pc = step]]
        BY <1>0, <2>1, <3>2 DEF Goto
      <4>. QED
        BY <1>0, <2>1, <4>1
    <3>. QED
      BY <3>1, <3>2
  <2>2. CASE AddFinalizer(o, c) \/ RemoveFinalizer(o, c)
    <3>1. \E step \in {"caGet", "idle"} : Goto(o, step)
      BY <2>2 DEF AddFinalizer, RemoveFinalizer, UpdateFinalizer
    <3>2. UNCHANGED <<scenario, op, ca>>
      BY <2>2 DEF AddFinalizer, RemoveFinalizer, UpdateFinalizer
    <3>. QED
      BY <1>0, <2>0, <2>1, <3>1, <3>2 DEF Kept
  <2>3. CASE DeleteCRB(o, c) \/ ApplyCRB(o, c) \/ ApplyOAuthSecret(o, c)
    <3>1. \E step \in {"release", "idle", "crb"} : Goto(o, step)
      BY <2>3 DEF DeleteCRB, ApplyCRB, ApplyOAuthSecret
    <3>2. UNCHANGED <<scenario, op, ca>>
      BY <2>3 DEF DeleteCRB, ApplyCRB, ApplyOAuthSecret
    <3>. QED
      BY <1>0, <2>0, <2>1, <3>1, <3>2 DEF Kept
  <2>4. CASE GetCA(o, c)
    <3>. DEFINE key == IF ca[c] = NoSecret THEN NewKey(c) ELSE ca[c].value
    <3>1. at' = [at EXCEPT ![o] = [at[o] EXCEPT !.pc = "caApply", !.key = key]]
            /\ UNCHANGED <<scenario, op, ca>>
      BY <1>0, <2>4 DEF GetCA
    <3>2. ca[c] # NoSecret => key = ca[c].value
      OBVIOUS
    <3>. HIDE DEF key
    <3>3. at'[o] = [at[o] EXCEPT !.pc = "caApply", !.key = key]
            /\ \A p \in Operators \ {o} : at'[p] = at[p]
      BY <1>0, <3>1
    <3>4. at'[o].key = key /\ at'[o].job = {c}
      BY <2>0, <3>3 DEF KeyInv
    <3>. QED
      BY <1>0, <2>0, <3>1, <3>2, <3>3, <3>4 DEF Kept
  <2>5. CASE ApplyCA(o, c)
    <3>1. /\ at[o].pc = "caApply"
          /\ ca' = [ca EXCEPT ![c] = [value |-> at[o].key,
                                      uid |-> Uid(c, at[o].version)]]
          /\ at' = [at EXCEPT ![o] = [at[o] EXCEPT !.pc = "cookie", !.key = 0]]
          /\ UNCHANGED <<scenario, op>>
      BY <1>0, <2>5 DEF ApplyCA
    <3>2. at'[o].pc # "caApply" /\ \A p \in Operators \ {o} : at'[p] = at[p]
      BY <1>0, <3>1
    <3>3. ca'[c].value = at[o].key /\ \A d \in Clusters \ {c} : ca'[d] = ca[d]
      BY <1>0, <3>1
    <3>4. Wrote(o, c)
      BY <2>0, <3>1, <3>2, <3>3 DEF Wrote
    <3>. QED
      BY <1>0, <2>0, <3>1, <3>2, <3>4
  <2>. QED
    BY <1>2, <2>2, <2>3, <2>4, <2>5 DEF Request
<1>. QED
  BY <1>1, <1>2
\* Every step preserves the invariant, and with leader election no key.
LEMMA KeyStep ==
    ASSUME KeyInv, [Next]_vars
    PROVE  /\ KeyInv'
           /\ scenario.election => \A c \in Clusters :
                 NoSecret \notin {ca[c], ca'[c]} => ca'[c].value = ca[c].value
<1>. DEFINE Goal == /\ KeyInv'
                    /\ scenario.election => \A c \in Clusters :
                          NoSecret \notin {ca[c], ca'[c]} => ca'[c].value = ca[c].value
<1>1. ASSUME UNCHANGED <<scenario, op, at>>, DOMAIN ca' = Clusters, Collected
      PROVE  Goal
  BY <1>1 DEF KeyInv, Collected, Active
<1>2. CASE UNCHANGED vars
  BY <1>1, <1>2 DEF vars, Collected, KeyInv
<1>3. ASSUME NEW o \in Operators, NEW c \in Clusters, Start(o, c) \/ Request(o, c)
      PROVE  Goal
  <2>1. /\ UNCHANGED <<scenario, op>>
        /\ Active(o) \/ at'[o] = Idle
        /\ DOMAIN at' = Operators /\ DOMAIN ca' = Clusters
        /\ \A p \in Operators \ {o} : at'[p] = at[p]
        /\ Kept \/ Wrote(o, c)
        /\ at'[o].pc = "caApply" =>
              /\ ca' = ca
              /\ at'[o].job = {c}
              /\ ca[c] # NoSecret => at'[o].key = ca[c].value
    BY <1>3, KeyRequest
  <2>2. Active(o)
    BY <1>3, WorkerActive DEF Start, Request
  <2>3. ASSUME scenario.election
        PROVE  /\ \A p \in Operators \ {o} : at'[p] = Idle
               /\ \A d \in Clusters : NoSecret \notin {ca[d], ca'[d]} =>
                     ca'[d].value = ca[d].value
    <3>1. \A p \in Operators \ {o} : at'[p] = Idle
      BY <2>1, <2>2, <2>3 DEF KeyInv
    <3>2. CASE Kept
      BY <3>1, <3>2 DEF Kept
    <3>3. CASE Wrote(o, c)
      BY <2>3, <3>1, <3>3 DEF Wrote, KeyInv
    <3>. QED
      BY <2>1, <3>2, <3>3
  <2>4. \A p \in Operators : ~Active(p)' => at'[p] = Idle
    BY <2>1, <2>2 DEF KeyInv, Active
  <2>5. ASSUME scenario.election, NEW p \in Operators, NEW d \in Clusters,
               at'[p].pc = "caApply", at'[p].job = {d}, ca'[d] # NoSecret
        PROVE  at'[p].key = ca'[d].value
    BY <2>1, <2>3, <2>5 DEF Idle
  <2>6. (op \in [Operators -> {"new", "active", "gone"}])'
          /\ (scenario.election => \A q, p \in Operators : Active(q) /\ Active(p) => q = p)'
    BY <2>1 DEF KeyInv, Active
  <2>. QED
    BY <2>1, <2>3, <2>4, <2>5, <2>6 DEF KeyInv
<1>4. ASSUME NEW o \in Operators, Begin(o) PROVE Goal
  <2>1. UNCHANGED <<scenario, at, ca>> /\ op[o] = "new" /\ Elected(o)
          /\ op' = [op EXCEPT ![o] = "active"]
    BY <1>4 DEF Begin
  <2>2. op' \in [Operators -> {"new", "active", "gone"}]
    BY <2>1 DEF KeyInv
  <2>3. \A p \in Operators : Active(p)' <=> Active(p) \/ p = o
    BY <2>1 DEF KeyInv, Active
  <2>. QED
    BY <2>1, <2>2, <2>3 DEF KeyInv, Elected
<1>5. ASSUME NEW o \in Operators, Stop(o) PROVE Goal
  <2>1. UNCHANGED <<scenario, ca>> /\ op' = [op EXCEPT ![o] = "gone"]
          /\ at' = [at EXCEPT ![o] = Idle]
    BY <1>5 DEF Stop
  <2>2. op' \in [Operators -> {"new", "active", "gone"}] /\ DOMAIN at' = Operators
    BY <2>1 DEF KeyInv
  <2>3. \A p \in Operators : Active(p)' <=> Active(p) /\ p # o
    BY <2>1 DEF KeyInv, Active
  <2>4. at'[o] = Idle /\ \A p \in Operators \ {o} : at'[p] = at[p]
    BY <2>1 DEF KeyInv
  <2>. QED
    BY <2>1, <2>2, <2>3, <2>4 DEF KeyInv, Idle
<1>6. ASSUME NEW c \in Clusters, Collect(c) PROVE Goal
  <2>1. UNCHANGED <<scenario, op, at>> /\ DOMAIN ca' = Clusters /\ Collected
    BY <1>6 DEF Collect, ctrlVars, Collected, KeyInv
  <2>. QED
    BY <1>1, <2>1
<1>7. ASSUME UNCHANGED <<scenario, ctrlVars, ca>> PROVE Goal
  BY <1>1, <1>7 DEF ctrlVars, Collected, KeyInv
<1>8. ASSUME NEW o \in Operators, NEW c \in Clusters, Deliver(o, c) PROVE Goal
  BY <1>1, <1>8 DEF Deliver, Collected, KeyInv
<1>9. ASSUME NEW c \in Clusters, Create(c) \/ Delete(c) \/ ReleaseForeground(c)
      PROVE  Goal
  BY <1>7, <1>9 DEF Create, Delete, ReleaseForeground
<1>10. ASSUME NEW n \in BindingNames, BindingGone(n) PROVE Goal
  BY <1>7, <1>10 DEF BindingGone
<1>. QED
  BY <1>2, <1>3, <1>4, <1>5, <1>6, <1>8, <1>9, <1>10 DEF Next, Reconcile

\* With leader election no operator, of any number that take over from one
\* another at any moment, changes the CA key of a cluster (main.go, line 206;
\* raycluster_controller.go, lines 168-194).
THEOREM KeysStable == Spec => KeyStableElected
<1>1. Init => KeyInv
  BY KeyInit
<1>2. KeyInv /\ [Next]_vars => KeyInv'
  BY KeyStep
<1>3. KeyInv /\ [Next]_vars =>
        [scenario.election => \A c \in Clusters :
            NoSecret \notin {ca[c], ca'[c]} => ca'[c].value = ca[c].value]_vars
  BY KeyStep
<1>. QED
  BY <1>1, <1>2, <1>3, PTL DEF Spec, KeyStableElected

-----------------------------------------------------------------------------
(* What the actions are made of.                                           *)

\* There are finitely many operators, and among the keys a new one.
LEMMA NewKeyExists ==
    ASSUME TypeOK, NEW c \in Clusters
    PROVE  NewKey(c) \in Nat /\ NewKey(c) # 0
<1>1. PICK last \in Operators : \A o \in Operators : o <= last
  BY ContentionAssumption
<1>2. Operators \in SUBSET Nat /\ last \in Nat
  BY <1>1, ContentionAssumption
<1>3. IsFiniteSet(Operators)
  BY <1>1, <1>2, FS_BoundedSetOfNaturals
<1>. DEFINE n == Cardinality(Operators)
            key == [o \in Operators |-> at[o].key]
            T == {key[o] : o \in Operators}
            x == ca[c].value
            Used == T \cup {x}
<1>4. n \in Nat
  BY <1>3, FS_CardinalityType
<1>5. key \in Surjection(Operators, T)
  BY DEF Surjection
<1>6. IsFiniteSet(T) /\ Cardinality(T) <= n /\ Cardinality(T) \in Nat
  <2>. HIDE DEF key, T, n
  <2>. QED
    BY <1>3, <1>5, FS_Surjection, FS_CardinalityType DEF n
<1>7. IsFiniteSet(Used) /\ Cardinality(Used) <= n + 1 /\ Cardinality(Used) \in Nat
  <2>. HIDE DEF T, n, x
  <2>1. /\ IsFiniteSet(Used)
        /\ Cardinality(Used) = IF x \in T THEN Cardinality(T) ELSE Cardinality(T) + 1
    BY <1>6, FS_AddElement
  <2>. HIDE DEF Used
  <2>. QED
    BY <1>4, <1>6, <2>1
<1>8. ~(1..(n + 2) \subseteq Used)
  <2>. HIDE DEF Used, n
  <2>1. Cardinality(1..(n + 2)) = n + 2
    BY <1>4, FS_Interval
  <2>. QED
    BY <1>4, <1>7, <2>1, FS_Subset
<1>9. \E k \in 1..(n + 2) : k # ca[c].value /\ \A o \in Operators : k # at[o].key
  <2>1. PICK k \in 1..(n + 2) : k \notin Used
    <3>. HIDE DEF Used, n
    <3>. QED
      BY <1>8
  <2>2. ASSUME NEW o \in Operators PROVE k # at[o].key
    BY <2>1
  <2>. QED
    BY <2>1, <2>2
<1>10. NewKey(c) \in 1..(n + 2)
  BY <1>9 DEF NewKey
<1>. QED
  BY <1>4, <1>10

\* A uid is a number.
LEMMA UidNat ==
    ASSUME NEW c, NEW v \in Nat
    PROVE  Uid(c, v) \in Nat
<1>1. {i \in 1..v : log[c][i] = "bare"} \in SUBSET (1..v) /\ IsFiniteSet(1..v)
  BY FS_Interval
<1>. QED
  BY <1>1, FS_Subset, FS_CardinalityType DEF Uid

\* A cluster is stored: a version is added.
LEMMA StoreEffect ==
    ASSUME TypeOK, NEW c \in Clusters, NEW life \in Lives, Store(c, life)
    PROVE  /\ log' \in [Clusters -> Seq(Lives)]
           /\ Version(c) \in Nat
           /\ Version(c)' = Version(c) + 1
           /\ Life(c)' = life
           /\ \A v \in 1..Version(c) : log'[c][v] = log[c][v]
           /\ \A d \in Clusters \ {c} : log'[d] = log[d]
           /\ Lingered(c)' <=> Lingered(c) \/ life = "lingering"
           /\ \A d \in Clusters \ {c} : Lingered(d)' <=> Lingered(d)
<1>. DEFINE s == Append(log[c], life)
<1>1. log[c] \in Seq(Lives)
  BY DEF TypeOK
<1>2. s \in Seq(Lives) /\ Len(s) = Len(log[c]) + 1 /\ s[Len(log[c]) + 1] = life
        /\ Len(log[c]) \in Nat
        /\ \A v \in 1..Len(log[c]) : s[v] = log[c][v]
  BY <1>1
<1>3. log' = [log EXCEPT ![c] = s]
  BY DEF Store
<1>. HIDE DEF s
<1>4. log'[c] = s /\ log' \in [Clusters -> Seq(Lives)]
        /\ \A d \in Clusters \ {c} : log'[d] = log[d]
  BY <1>2, <1>3 DEF TypeOK
<1>5. /\ Version(c) \in Nat /\ Version(c)' = Version(c) + 1
      /\ log'[c][Version(c) + 1] = life
      /\ \A v \in 1..Version(c) : log'[c][v] = log[c][v]
  BY <1>2, <1>4 DEF Version
<1>6. Lingered(c)' <=> Lingered(c) \/ life = "lingering"
  BY <1>5 DEF Lingered
<1>7. \A d \in Clusters \ {c} : Lingered(d)' <=> Lingered(d)
  BY <1>4 DEF Lingered, Version
<1>. QED
  BY <1>2, <1>4, <1>6, <1>7 DEF Version, Life

\* A Reconcile goes on, or comes to its end.
LEMMA GotoEffect ==
    ASSUME TypeOK, NEW o \in Operators, NEW step \in Steps, Goto(o, step)
    PROVE  /\ at' \in [Operators -> [pc : Steps, job : SUBSET Clusters,
                                     version : Nat, key : Nat]]
           /\ \A p \in Operators \ {o} : at'[p] = at[p]
           /\ step = "idle" => at'[o] = Idle
           /\ step # "idle" => /\ at'[o].pc = step
                               /\ at'[o].job = at[o].job
                               /\ at'[o].version = at[o].version
                               /\ at'[o].key = at[o].key
<1>. DEFINE Run == [pc : Steps, job : SUBSET Clusters, version : Nat, key : Nat]
            q == IF step = "idle" THEN Idle ELSE [at[o] EXCEPT !.pc = step]
<1>1. at \in [Operators -> Run] /\ at[o] \in Run
  BY DEF TypeOK
<1>2. q \in Run
  BY <1>1 DEF Idle, Steps
<1>3. step # "idle" => /\ q.pc = step /\ q.job = at[o].job
                       /\ q.version = at[o].version /\ q.key = at[o].key
  BY <1>1
<1>4. step = "idle" => q = Idle
  OBVIOUS
<1>5. at' = [at EXCEPT ![o] = q]
  BY DEF Goto
<1>. HIDE DEF q, Run
<1>6. at' \in [Operators -> Run] /\ at'[o] = q /\ \A p \in Operators \ {o} : at'[p] = at[p]
  BY <1>1, <1>2, <1>5
<1>. QED
  BY <1>3, <1>4, <1>6 DEF Run

\* An event reaches the operators at work.
LEMMA TellEffect ==
    ASSUME TypeOK, NEW S \in SUBSET Clusters, Tell(S)
    PROVE  /\ queue' \in [Operators -> SUBSET Clusters]
           /\ \A o \in Operators : queue[o] \subseteq queue'[o]
           /\ \A o \in Operators : Active(o) => S \subseteq queue'[o]
  BY DEF TypeOK, Tell

\* Clusters have the names of their bindings.
LEMMA BindingNamed ==
    ASSUME NEW c \in Clusters
    PROVE  crbName[c] \in BindingNames
  BY DEF BindingNames, crbName

\* Where no cluster is stored, versions are the same.
LEMMA SameVersions ==
    ASSUME TypeOK, log' = log
    PROVE  \A c \in Clusters : Version(c) \in Nat /\ Version(c)' = Version(c)
                               /\ Life(c)' = Life(c)
  BY DEF TypeOK, Version, Life

-----------------------------------------------------------------------------
(* How a step can leave the parts of the invariant alone.                  *)

Works == TypeOK /\ Caches /\ Keyed /\ Handled /\ Cleaned

\* An operator keeps what it handles or owes, if the cluster is the same and what
\* is taken away from it is made known.
LEMMA HandledStill ==
    ASSUME NEW o \in Operators, NEW c \in Clusters,
           Owes(o, c) \/ Handles(o, c),
           log'[c] = log[c], seen'[o][c] = seen[o][c],
           c \in queue[o] => c \in queue'[o],
           at'[o] = at[o] \/ at[o].job # {c},
           \/ c \in queue'[o]
           \/ /\ ca[c] # NoSecret => ca'[c] # NoSecret
              /\ cookie[c] # NoSecret => cookie'[c] # NoSecret
              /\ crb[crbName[c]].of = {c} => crb'[crbName[c]].of = {c}
    PROVE  (Owes(o, c) \/ Handles(o, c))'
<1>1. Version(c)' = Version(c) /\ Life(c)' = Life(c)
  BY DEF Version, Life
<1>2. CASE Owes(o, c)
  BY <1>1, <1>2 DEF Owes
<1>3. CASE c \in queue'[o]
  BY <1>3 DEF Owes
<1>4. CASE Handles(o, c) /\ c \notin queue'[o]
  <2>1. \A steps : At(o, c, steps) => At(o, c, steps)'
    BY DEF At
  <2>. QED
    BY <1>1, <1>4, <2>1 DEF Handles
<1>. QED
  BY <1>2, <1>3, <1>4

\* A cluster that has changed is owed.
LEMMA HandledAnew ==
    ASSUME Works, NEW c \in Clusters, NEW life \in Lives, Store(c, life),
           UNCHANGED seen, NEW o \in Operators
    PROVE  (Owes(o, c) \/ Handles(o, c))'
<1>1. Version(c)' = Version(c) + 1 /\ Version(c) \in Nat
  BY StoreEffect DEF Works
<1>2. seen[o][c] \in 1..Version(c)
  BY DEF Works, Caches
<1>. QED
  BY <1>1, <1>2 DEF Owes

\* The bindings stay those of clusters that have the finalizer, if none is
\* applied and nobody comes to take a finalizer away.
LEMMA CleanedStill ==
    ASSUME TypeOK, Cleaned, UNCHANGED <<scenario, log>>,
           \A o \in Operators : Active(o)' => Active(o) /\ \A c \in Clusters :
              seen[o][c] \in Nat /\ seen'[o][c] \in Nat /\ seen'[o][c] >= seen[o][c],
           \A o \in Operators, c \in Clusters :
              at'[o].job = {c} /\ at'[o].pc \in ApplySteps \cup {"deleteCRB", "release"} =>
                 /\ at[o].job = {c} /\ at'[o].version = at[o].version
                 /\ at'[o].pc \in ApplySteps => at[o].pc \in ApplySteps
                 /\ at'[o].pc = "deleteCRB" => at[o].pc = "deleteCRB"
                 /\ at'[o].pc = "release" => at[o].pc = "release",
           \A n \in BindingNames, c \in Clusters : c \in crb'[n].of =>
              c \in crb[n].of /\ (crb[n].dying => crb'[n].dying)
    PROVE  Cleaned'
<1>1. \A c \in Clusters : Version(c)' = Version(c) /\ Life(c)' = Life(c)
        /\ Version(c) \in Nat
  BY DEF Version, Life, TypeOK
<1>2. \A c \in Clusters : Unbinding(c) => Unbinding(c)'
  BY DEF Unbinding
<1>3. \A n \in BindingNames, c \in Clusters : c \in crb'[n].of => n = crbName[c]
  BY DEF Cleaned
<1>4. ASSUME NEW o \in Operators, NEW c \in Clusters
      PROVE  /\ At(o, c, ApplySteps)' => At(o, c, ApplySteps)
             /\ At(o, c, {"deleteCRB", "release"})' =>
                   At(o, c, {"deleteCRB", "release"}) /\ at'[o].version = at[o].version
             /\ At(o, c, {"release"})' =>
                   At(o, c, {"release"}) /\ at'[o].version = at[o].version
  BY DEF At
<1>5. ASSUME NEW o \in Operators, NEW c \in Clusters, At(o, c, {"deleteCRB", "release"})'
      PROVE  log'[c][at'[o].version] # "guarded"
  BY <1>4, <1>5 DEF Cleaned
<1>6. ASSUME scenario.election, NEW c \in Clusters, ~Lingered(c)'
      PROVE  Protected(c)'
  <2>0. Protected(c)
    BY <1>1, <1>6 DEF Cleaned, Lingered
  <2>1. Life(c)' \in {"absent", "bare"} => Unbinding(c)'
    BY <1>1, <1>2, <2>0 DEF Protected
  <2>2. ASSUME NEW o \in Operators, Active(o)'
        PROVE  /\ (\E v \in seen'[o][c]..Version(c)' : log'[c][v] = "guarded")
                         \/ At(o, c, ApplySteps)'
                      => Life(c)' \in {"guarded", "closing", "draining"}
               /\ At(o, c, {"release"})' /\ at'[o].version = Version(c)'
                      => Unbinding(c)'
    <3>1. \A v \in seen'[o][c]..Version(c) : v \in seen[o][c]..Version(c)
      BY <1>1, <2>2
    <3>. QED
      BY <1>1, <1>2, <1>4, <2>0, <2>2, <3>1 DEF Protected
  <2>. QED
    BY <2>1, <2>2 DEF Protected
<1>. QED
  BY <1>3, <1>5, <1>6 DEF Cleaned

\* The same when a cluster is stored, if one that is stored without the finalizer
\* has no binding that stays, and nobody is about to apply one.
LEMMA CleanedAnew ==
    ASSUME Works, NEW c \in Clusters, NEW life \in Lives, Store(c, life),
           UNCHANGED <<scenario, op, seen, crb>>,
           \A p \in Operators, d \in Clusters :
              at'[p].job = {d} /\ at'[p].pc \in ApplySteps \cup {"deleteCRB", "release"} =>
                 /\ at[p].job = {d} /\ at'[p].version = at[p].version
                 /\ \/ at'[p].pc = at[p].pc
                    \/ at'[p].pc \in ApplySteps /\ d = c /\ life = "guarded",
           scenario.election /\ ~Lingered(c) /\ life \in {"absent", "bare"} =>
              /\ Unbinding(c)
              /\ \A p \in Operators : Active(p) =>
                    /\ ~At(p, c, ApplySteps)
                    /\ \A v \in seen[p][c]..Version(c) : log[c][v] # "guarded"
    PROVE  Cleaned'
<1>0. TypeOK /\ Caches /\ Cleaned
  BY DEF Works
<1>1. /\ Version(c) \in Nat
      /\ Version(c)' = Version(c) + 1
      /\ Life(c)' = life
      /\ \A v \in 1..Version(c) : log'[c][v] = log[c][v]
      /\ \A d \in Clusters \ {c} : log'[d] = log[d]
      /\ Lingered(c)' <=> Lingered(c) \/ life = "lingering"
      /\ \A d \in Clusters \ {c} : Lingered(d)' <=> Lingered(d)
  BY <1>0, StoreEffect
<1>2. \A d \in Clusters \ {c} : Version(d)' = Version(d) /\ Life(d)' = Life(d)
  BY <1>1 DEF Version, Life
<1>3. ASSUME NEW p \in Operators, NEW d \in Clusters
      PROVE  /\ At(p, d, {"deleteCRB", "release"})' =>
                   At(p, d, {"deleteCRB", "release"}) /\ at'[p].version = at[p].version
             /\ At(p, d, {"release"})' =>
                   At(p, d, {"release"}) /\ at'[p].version = at[p].version
             /\ At(p, d, ApplySteps)' =>
                   At(p, d, ApplySteps) \/ (d = c /\ life = "guarded")
  BY DEF At, ApplySteps
<1>4. \A d \in Clusters : Unbinding(d)' = Unbinding(d)
  BY DEF Unbinding
<1>5. ASSUME NEW p \in Operators, at[p].job = {c}
      PROVE  at[p].version \in 1..Version(c)
  <2>1. at[p].version \in 1..seen[p][c] /\ seen[p][c] \in 1..Version(c)
    BY <1>0, <1>5 DEF Caches
  <2>. QED
    BY <1>1, <2>1
<1>6. ASSUME NEW p \in Operators, NEW d \in Clusters, At(p, d, {"deleteCRB", "release"})'
      PROVE  log'[d][at'[p].version] # "guarded"
  <2>1. At(p, d, {"deleteCRB", "release"}) /\ at'[p].version = at[p].version
    BY <1>3, <1>6
  <2>2. log[d][at[p].version] # "guarded"
    BY <1>0, <2>1 DEF Cleaned
  <2>3. d = c => at[p].version \in 1..Version(c)
    BY <1>5, <2>1 DEF At
  <2>. QED
    BY <1>1, <2>1, <2>2, <2>3
<1>7. ASSUME scenario.election, ~Lingered(c)'
      PROVE  Protected(c)'
  <2>1. Life(c)' \in {"absent", "bare"} => Unbinding(c)'
    BY <1>1, <1>4, <1>7
  <2>2. ASSUME NEW p \in Operators, Active(p),
               life \notin {"guarded", "closing", "draining"}
        PROVE  /\ ~At(p, c, ApplySteps)'
               /\ \A v \in seen'[p][c]..Version(c)' : log'[c][v] # "guarded"
    <3>1. life \in {"absent", "bare"}
      BY <1>1, <1>7, <2>2 DEF Lives
    <3>2. ~At(p, c, ApplySteps)'
      BY <1>1, <1>3, <1>7, <2>2, <3>1
    <3>3. ASSUME NEW v \in seen'[p][c]..Version(c)', log'[c][v] = "guarded"
          PROVE  FALSE
      <4>1. log'[c][Version(c)'] = life /\ seen[p][c] \in 1..Version(c)
        BY <1>0, <1>1 DEF Life, Caches
      <4>2. v # Version(c) + 1
        BY <1>1, <3>1, <3>3, <4>1
      <4>3. v \in seen[p][c]..Version(c) /\ v \in 1..Version(c)
        BY <1>1, <3>3, <4>1, <4>2
      <4>. QED
        BY <1>1, <1>7, <2>2, <3>1, <3>3, <4>3
    <3>. QED
      BY <3>2, <3>3
  <2>3. ASSUME NEW p \in Operators, At(p, c, {"release"})'
        PROVE  at'[p].version # Version(c)'
    <3>1. at'[p].version \in 1..Version(c)
      BY <1>3, <1>5, <2>3 DEF At
    <3>. QED
      BY <1>1, <3>1
  <2>. QED
    BY <1>1, <2>1, <2>2, <2>3 DEF Active, Protected
<1>8. ASSUME scenario.election, NEW d \in Clusters, d # c, ~Lingered(d)'
      PROVE  Protected(d)'
  <2>1. Protected(d)
    BY <1>0, <1>1, <1>8 DEF Cleaned
  <2>. QED
    BY <1>1, <1>2, <1>3, <1>4, <1>8, <2>1 DEF Protected, Active
<1>9. \A n \in BindingNames, d \in Clusters : d \in crb'[n].of => n = crbName[d]
  BY <1>0 DEF Cleaned
<1>. QED
  BY <1>6, <1>7, <1>8, <1>9 DEF Cleaned

-----------------------------------------------------------------------------
(* The start, and the steps of the manager and of users.                   *)

\* At the start nobody works and nothing is there.
LEMMA WorksInit == Init => Works
<1>. SUFFICES ASSUME Init PROVE Works
  OBVIOUS
<1>1. \A c \in Clusters : log[c] = <<"absent">> /\ Version(c) = 1 /\ Life(c) = "absent"
  BY DEF Init, Version, Life
<1>2. \A o \in Operators : ~Active(o) /\ op[o] = "new" /\ at[o] = Idle
  BY DEF Init, Active
<1>3. TypeOK
  <2>1. <<"absent">> \in Seq(Lives)
    BY DEF Lives
  <2>2. Idle \in [pc : Steps, job : SUBSET Clusters, version : Nat, key : Nat]
          /\ NoSecret \in [value : Nat, uid : Nat]
          /\ NoBinding \in [of : SUBSET Clusters, dying : BOOLEAN]
    BY DEF Idle, Steps, NoSecret, NoBinding
  <2>. QED
    BY <2>1, <2>2 DEF Init, TypeOK
<1>4. Caches
  <2>1. \A o \in Operators, c \in Clusters : seen[o][c] = 1 /\ at[o].job # {c}
    BY <1>2 DEF Init, Idle
  <2>. QED
    BY <1>1, <1>2, <2>1 DEF Caches
<1>5. Keyed
  BY <1>2 DEF Init, Keyed, Idle
<1>6. Handled
  BY <1>2 DEF Handled
<1>7. Cleaned
  <2>1. \A n \in BindingNames : crb[n].of = {}
    BY DEF Init, NoBinding
  <2>2. \A o \in Operators, c \in Clusters : \A S : ~At(o, c, S)
    BY <1>2 DEF At, Idle
  <2>. QED
    BY <1>2, <2>1, <2>2 DEF Cleaned, Protected, Unbinding
<1>. QED
  BY <1>3, <1>4, <1>5, <1>6, <1>7 DEF Works

\* A controller starts: all that exists is in its queue.
LEMMA BeginStep ==
    ASSUME Works, KeyInv, NEW o \in Operators, Begin(o)
    PROVE  Works'
<1>0. TypeOK /\ Caches /\ Keyed /\ Handled /\ Cleaned
  BY DEF Works
<1>1. /\ op[o] = "new" /\ Elected(o)
      /\ op' = [op EXCEPT ![o] = "active"]
      /\ seen' = [seen EXCEPT ![o] = [c \in Clusters |-> Version(c)]]
      /\ queue' = [queue EXCEPT ![o] = {c \in Clusters : Life(c) # "absent"}]
      /\ UNCHANGED <<scenario, log, at, ca, cookie, crb>>
  BY DEF Begin
<1>2. \A c \in Clusters : Version(c) \in Nat /\ Version(c)' = Version(c)
        /\ Life(c)' = Life(c)
  BY <1>0, <1>1, SameVersions
<1>3. /\ \A c \in Clusters : seen'[o][c] = Version(c)
      /\ \A p \in Operators \ {o} : seen'[p] = seen[p] /\ queue'[p] = queue[p]
                                     /\ op'[p] = op[p]
      /\ queue'[o] = {c \in Clusters : Life(c) # "absent"}
      /\ op'[o] = "active" /\ at[o] = Idle
  BY <1>0, <1>1 DEF TypeOK, KeyInv, Active
<1>4. TypeOK'
  BY <1>0, <1>1, <1>2 DEF TypeOK
<1>5. Caches'
  <2>1. \A p \in Operators : op'[p] = "gone" => op[p] = "gone"
    BY <1>3
  <2>2. \A p \in Operators, c \in Clusters : seen[p][c] \in 1..Version(c)
    BY <1>0 DEF Caches
  <2>3. ASSUME NEW p \in Operators, NEW c \in Clusters
        PROVE  /\ seen'[p][c] \in 1..Version(c)'
               /\ at'[p].job = {c} => at'[p].version \in 1..seen'[p][c]
    <3>1. CASE p = o
      BY <1>1, <1>2, <1>3, <2>2, <3>1 DEF Idle
    <3>2. CASE p # o
      BY <1>0, <1>1, <1>2, <1>3, <2>2, <3>2 DEF Caches
    <3>. QED
      BY <3>1, <3>2
  <2>. QED
    BY <1>0, <2>1, <2>3 DEF Caches
<1>6. Keyed'
  BY <1>0, <1>1 DEF Keyed
<1>7. Handled'
  <2>. SUFFICES ASSUME NEW p \in Operators, NEW c \in Clusters, Active(p)'
                PROVE  (Owes(p, c) \/ Handles(p, c))'
    BY DEF Handled
  <2>1. CASE p = o
    BY <1>2, <1>3, <2>1 DEF Owes, Handles
  <2>2. CASE p # o
    <3>1. Owes(p, c) \/ Handles(p, c)
      BY <1>0, <1>3, <2>2 DEF Handled, Active
    <3>. QED
      BY <1>1, <1>3, <2>2, <3>1, HandledStill
  <2>. QED
    BY <2>1, <2>2
<1>8. Cleaned'
  <2>1. \A p \in Operators, c \in Clusters : \A S : At(p, c, S)' = At(p, c, S)
    BY <1>1 DEF At
  <2>2. \A c \in Clusters : Unbinding(c)' = Unbinding(c)
    BY <1>1 DEF Unbinding
  <2>3. ASSUME scenario.election, NEW p \in Operators, Active(p)', NEW c \in Clusters
        PROVE  /\ (\E v \in seen'[p][c]..Version(c)' : log'[c][v] = "guarded")
                         \/ At(p, c, ApplySteps)'
                      => Life(c)' \in {"guarded", "closing", "draining"}
               /\ At(p, c, {"release"})' /\ at'[p].version = Version(c)'
                      => Unbinding(c)'
    <3>1. p = o
      BY <1>1, <1>3, <2>3 DEF Elected, Active
    <3>2. \A S : ~At(p, c, S)
      BY <1>3, <3>1 DEF At, Idle
    <3>3. (\E v \in seen'[p][c]..Version(c)' : log'[c][v] = "guarded")
             => Life(c) = "guarded"
      BY <1>1, <1>2, <1>3, <3>1 DEF Life, Version
    <3>. QED
      BY <1>2, <2>1, <3>2, <3>3
  <2>4. ASSUME scenario.election, NEW c \in Clusters, ~Lingered(c)'
        PROVE  Protected(c)'
    <3>1. Life(c) \in {"absent", "bare"} => Unbinding(c)
      BY <1>0, <1>1, <1>2, <2>4 DEF Cleaned, Lingered, Protected
    <3>. QED
      BY <1>2, <2>2, <2>3, <2>4, <3>1 DEF Protected
  <2>. QED
    BY <1>0, <1>1, <2>1, <2>4 DEF Cleaned
<1>. QED
  BY <1>4, <1>5, <1>6, <1>7, <1>8 DEF Works

\* An operator is stopped: a later one is there.
LEMMA StopStep ==
    ASSUME Works, NEW o \in Operators, Stop(o)
    PROVE  Works'
<1>0. TypeOK /\ Caches /\ Keyed /\ Handled /\ Cleaned
  BY DEF Works
<1>1. /\ \E p \in Operators : p > o
      /\ op' = [op EXCEPT ![o] = "gone"]
      /\ seen' = [seen EXCEPT ![o] = [c \in Clusters |-> 1]]
      /\ queue' = [queue EXCEPT ![o] = {}]
      /\ at' = [at EXCEPT ![o] = Idle]
      /\ UNCHANGED <<scenario, log, ca, cookie, crb>>
  BY DEF Stop
<1>2. /\ \A c \in Clusters : seen'[o][c] = 1
      /\ \A p \in Operators \ {o} : seen'[p] = seen[p] /\ queue'[p] = queue[p]
                                     /\ op'[p] = op[p] /\ at'[p] = at[p]
      /\ op'[o] = "gone" /\ at'[o] = Idle
  BY <1>0, <1>1 DEF TypeOK
<1>3. TypeOK'
  <2>1. Idle \in [pc : Steps, job : SUBSET Clusters, version : Nat, key : Nat]
    BY DEF Idle, Steps
  <2>. QED
    BY <1>0, <1>1, <2>1 DEF TypeOK
<1>4. Caches'
  <2>1. \A p \in Operators, c \in Clusters : seen[p][c] \in 1..Version(c)
          /\ Version(c)' = Version(c) /\ Version(c) \in Nat
    BY <1>0, <1>1 DEF Caches, Version, TypeOK
  <2>2. ASSUME NEW p \in Operators, NEW c \in Clusters
        PROVE  /\ seen'[p][c] \in 1..Version(c)'
               /\ at'[p].job = {c} => at'[p].version \in 1..seen'[p][c]
    <3>1. CASE p = o
      BY <1>2, <2>1, <3>1 DEF Idle
    <3>2. CASE p # o
      BY <1>0, <1>2, <2>1, <3>2 DEF Caches
    <3>. QED
      BY <3>1, <3>2
  <2>. QED
    BY <1>0, <1>1, <1>2, <2>2 DEF Caches
<1>5. Keyed'
  BY <1>0, <1>1, <1>2 DEF Keyed, Idle
<1>6. Handled'
  <2>. SUFFICES ASSUME NEW p \in Operators, NEW c \in Clusters, Active(p)'
                PROVE  (Owes(p, c) \/ Handles(p, c))'
    BY DEF Handled
  <2>1. p # o
    BY <1>2 DEF Active
  <2>2. Owes(p, c) \/ Handles(p, c)
    BY <1>0, <1>2, <2>1 DEF Handled, Active
  <2>. QED
    BY <1>1, <1>2, <2>1, <2>2, HandledStill
<1>7. Cleaned'
  <2>1. \A p \in Operators : Active(p)' => Active(p) /\ \A c \in Clusters :
           seen[p][c] \in Nat /\ seen'[p][c] \in Nat /\ seen'[p][c] >= seen[p][c]
    BY <1>0, <1>2 DEF Active, TypeOK
  <2>2. \A p \in Operators, c \in Clusters : at'[p].job = {c} => at'[p] = at[p]
    BY <1>2 DEF Idle
  <2>. QED
    BY <1>0, <1>1, <2>1, <2>2, CleanedStill
<1>. QED
  BY <1>3, <1>4, <1>5, <1>6, <1>7 DEF Works

\* The informer delivers a version: the cluster is in the queue.
LEMMA DeliverStep ==
    ASSUME Works, NEW o \in Operators, NEW c \in Clusters, Deliver(o, c)
    PROVE  Works'
<1>0. TypeOK /\ Caches /\ Keyed /\ Handled /\ Cleaned
  BY DEF Works
<1>1. /\ seen[o][c] < Version(c)
      /\ seen' = [seen EXCEPT ![o][c] = @ + 1]
      /\ queue' = [queue EXCEPT ![o] = @ \cup {c}]
      /\ UNCHANGED <<scenario, log, op, at, ca, cookie, crb>>
  BY DEF Deliver
<1>2. /\ seen' \in [Operators -> [Clusters -> Nat]]
      /\ seen'[o][c] = seen[o][c] + 1
      /\ \A p \in Operators, d \in Clusters :
            p # o \/ d # c => seen'[p][d] = seen[p][d]
  BY <1>0, <1>1 DEF TypeOK
<1>3. c \in queue'[o] /\ \A p \in Operators : queue[p] \subseteq queue'[p]
  BY <1>0, <1>1 DEF TypeOK
<1>4. TypeOK'
  BY <1>0, <1>1, <1>2 DEF TypeOK
<1>5. Caches'
  <2>1. ASSUME NEW p \in Operators, NEW d \in Clusters
        PROVE  /\ seen'[p][d] \in 1..Version(d)'
               /\ at'[p].job = {d} => at'[p].version \in 1..seen'[p][d]
    <3>1. seen[p][d] \in 1..Version(d) /\ Version(d)' = Version(d) /\ Version(d) \in Nat
            /\ (at[p].job = {d} => at[p].version \in 1..seen[p][d]) /\ at'[p] = at[p]
      BY <1>0, <1>1, SameVersions DEF Caches
    <3>2. seen'[p][d] \in seen[p][d]..Version(d)
      <4>1. CASE p = o /\ d = c
        BY <1>1, <1>2, <3>1, <4>1
      <4>2. CASE p # o \/ d # c
        BY <1>2, <3>1, <4>2
      <4>. QED
        BY <4>1, <4>2
    <3>. QED
      BY <3>1, <3>2
  <2>. QED
    BY <1>0, <1>1, <2>1 DEF Caches
<1>6. Keyed'
  BY <1>0, <1>1 DEF Keyed
<1>7. Handled'
  <2>. SUFFICES ASSUME NEW p \in Operators, NEW d \in Clusters, Active(p)'
                PROVE  (Owes(p, d) \/ Handles(p, d))'
    BY DEF Handled
  <2>1. CASE p = o /\ d = c
    BY <1>3, <2>1 DEF Owes
  <2>2. CASE p # o \/ d # c
    <3>1. Owes(p, d) \/ Handles(p, d)
      BY <1>0, <1>1 DEF Handled, Active
    <3>. QED
      BY <1>1, <1>2, <1>3, <2>2, <3>1, HandledStill
  <2>. QED
    BY <2>1, <2>2
<1>8. Cleaned'
  <2>1. \A p \in Operators : Active(p)' => Active(p) /\ \A d \in Clusters :
           seen[p][d] \in Nat /\ seen'[p][d] \in Nat /\ seen'[p][d] >= seen[p][d]
    <3>1. \A p \in Operators, d \in Clusters : seen[p][d] \in Nat /\ seen'[p][d] \in Nat
      BY <1>0, <1>2 DEF TypeOK
    <3>. QED
      BY <1>1, <1>2, <3>1 DEF Active
  <2>2. \A p \in Operators : at'[p] = at[p]
    BY <1>1
  <2>. QED
    BY <1>0, <1>1, <2>1, <2>2, CleanedStill
<1>. QED
  BY <1>4, <1>5, <1>6, <1>7, <1>8 DEF Works

\* A user creates or deletes a cluster, or it loses its other finalizer: whoever
\* works will be told.
LEMMA UserStep ==
    ASSUME Works, NEW c \in Clusters, Create(c) \/ Delete(c) \/ ReleaseForeground(c)
    PROVE  Works'
<1>0. TypeOK /\ Caches /\ Keyed /\ Handled /\ Cleaned
  BY DEF Works
<1>1. UNCHANGED <<scenario, op, seen, at, queue, ca, cookie, crb>>
  BY DEF Create, Delete, ReleaseForeground, ctrlVars
<1>2. PICK life \in Lives :
         /\ Store(c, life)
         /\ life # "guarded"
         /\ life \in {"absent", "bare"} => Life(c) \in {"absent", "bare", "lingering"}
  BY DEF Create, Delete, ReleaseForeground, Alive, InForeground, Lives
<1>3. /\ log' \in [Clusters -> Seq(Lives)]
      /\ Version(c) \in Nat
      /\ Version(c)' = Version(c) + 1
      /\ Life(c)' = life
      /\ \A v \in 1..Version(c) : log'[c][v] = log[c][v]
      /\ \A d \in Clusters \ {c} : log'[d] = log[d]
  BY <1>0, <1>2, StoreEffect
<1>4. \A d \in Clusters \ {c} : Version(d)' = Version(d) /\ Life(d)' = Life(d)
  BY <1>3 DEF Version, Life
<1>5. TypeOK'
  BY <1>0, <1>1, <1>3 DEF TypeOK
<1>6. Caches'
  <2>1. ASSUME NEW p \in Operators, NEW d \in Clusters
        PROVE  seen'[p][d] \in 1..Version(d)'
    <3>1. seen[p][d] \in 1..Version(d)
      BY <1>0 DEF Caches
    <3>2. CASE d = c
      BY <1>1, <1>3, <3>1, <3>2
    <3>3. CASE d # c
      BY <1>1, <1>4, <3>1, <3>3
    <3>. QED
      BY <3>2, <3>3
  <2>. QED
    BY <1>0, <1>1, <2>1 DEF Caches
<1>7. Keyed'
  BY <1>0, <1>1 DEF Keyed
<1>8. Handled'
  <2>. SUFFICES ASSUME NEW p \in Operators, NEW d \in Clusters, Active(p)'
                PROVE  (Owes(p, d) \/ Handles(p, d))'
    BY DEF Handled
  <2>1. CASE d = c
    BY <1>1, <1>2, <2>1, HandledAnew
  <2>2. CASE d # c
    <3>1. Owes(p, d) \/ Handles(p, d)
      BY <1>0, <1>1 DEF Handled, Active
    <3>. QED
      BY <1>1, <1>3, <2>2, <3>1, HandledStill
  <2>. QED
    BY <2>1, <2>2
<1>9. Cleaned'
  <2>1. \A p \in Operators : at'[p] = at[p]
    BY <1>1
  <2>2. ASSUME scenario.election, ~Lingered(c), life \in {"absent", "bare"}
        PROVE  /\ Unbinding(c)
               /\ \A p \in Operators : Active(p) =>
                     /\ ~At(p, c, ApplySteps)
                     /\ \A v \in seen[p][c]..Version(c) : log[c][v] # "guarded"
    <3>1. Protected(c)
      BY <1>0, <2>2 DEF Cleaned
    <3>2. Life(c) # "lingering"
      <4>1. PICK last \in Operators : TRUE
        BY ContentionAssumption
      <4>2. Version(c) \in 1..Version(c)
        BY <1>0, <1>3, <4>1 DEF Caches
      <4>. QED
        BY <2>2, <4>2 DEF Lingered, Life
    <3>. QED
      BY <1>2, <2>2, <3>1, <3>2 DEF Protected
  <2>. QED
    BY <1>1, <1>2, <2>1, <2>2, CleanedAnew
<1>. QED
  BY <1>5, <1>6, <1>7, <1>8, <1>9 DEF Works

\* The garbage collector tells whose Secrets it deletes, and the API server whose
\* binding is gone.
LEMMA CollectStep ==
    ASSUME Works, NEW c \in Clusters, Collect(c)
    PROVE  Works'
<1>0. TypeOK /\ Caches /\ Keyed /\ Handled /\ Cleaned
  BY DEF Works
<1>1. /\ ca' = [ca EXCEPT ![c] = IF Garbage(c, @) THEN NoSecret ELSE @]
      /\ cookie' = [cookie EXCEPT ![c] = IF Garbage(c, @) THEN NoSecret ELSE @]
      /\ Tell({c})
      /\ UNCHANGED <<scenario, log, op, seen, at, crb>>
  BY DEF Collect, ctrlVars
<1>2. /\ queue' \in [Operators -> SUBSET Clusters]
      /\ \A p \in Operators : queue[p] \subseteq queue'[p]
      /\ \A p \in Operators : Active(p) => {c} \subseteq queue'[p]
  BY <1>0, <1>1, TellEffect
<1>3. /\ ca'[c] \in {ca[c], NoSecret} /\ cookie'[c] \in {cookie[c], NoSecret}
      /\ \A d \in Clusters \ {c} : ca'[d] = ca[d] /\ cookie'[d] = cookie[d]
  BY <1>0, <1>1 DEF TypeOK
<1>4. TypeOK'
  <2>1. NoSecret \in [value : Nat, uid : Nat]
    BY DEF NoSecret
  <2>. QED
    BY <1>0, <1>1, <1>2, <2>1 DEF TypeOK
<1>5. Caches'
  BY <1>0, <1>1, SameVersions DEF Caches
<1>6. Keyed'
  BY <1>0, <1>1, <1>3 DEF Keyed
<1>7. Handled'
  <2>. SUFFICES ASSUME NEW p \in Operators, NEW d \in Clusters, Active(p)'
                PROVE  (Owes(p, d) \/ Handles(p, d))'
    BY DEF Handled
  <2>1. Active(p) /\ (Owes(p, d) \/ Handles(p, d))
    BY <1>0, <1>1 DEF Handled, Active
  <2>2. d = c => d \in queue'[p]
    BY <1>2, <2>1
  <2>. QED
    BY <1>1, <1>2, <1>3, <2>1, <2>2, HandledStill
<1>8. Cleaned'
  <2>1. \A p \in Operators : Active(p)' => Active(p) /\ \A d \in Clusters :
           seen[p][d] \in Nat /\ seen'[p][d] \in Nat /\ seen'[p][d] >= seen[p][d]
    BY <1>0, <1>1 DEF Active, TypeOK
  <2>2. \A p \in Operators : at'[p] = at[p]
    BY <1>1
  <2>. QED
    BY <1>0, <1>1, <2>1, <2>2, CleanedStill
<1>. QED
  BY <1>4, <1>5, <1>6, <1>7, <1>8 DEF Works

\* A binding that was being deleted is gone, and its clusters are told.
LEMMA BindingGoneStep ==
    ASSUME Works, NEW n \in BindingNames, BindingGone(n)
    PROVE  Works'
<1>0. TypeOK /\ Caches /\ Keyed /\ Handled /\ Cleaned
  BY DEF Works
<1>1. /\ crb' = [crb EXCEPT ![n] = NoBinding]
      /\ Tell(crb[n].of)
      /\ UNCHANGED <<scenario, log, op, seen, at, ca, cookie>>
  BY DEF BindingGone, ctrlVars
<1>2. /\ queue' \in [Operators -> SUBSET Clusters]
      /\ \A p \in Operators : queue[p] \subseteq queue'[p]
      /\ \A p \in Operators : Active(p) => crb[n].of \subseteq queue'[p]
  <2>1. crb[n].of \in SUBSET Clusters
    BY <1>0 DEF TypeOK
  <2>. QED
    BY <1>0, <1>1, <2>1, TellEffect
<1>3. crb'[n] = NoBinding /\ \A m \in BindingNames \ {n} : crb'[m] = crb[m]
  BY <1>0, <1>1 DEF TypeOK
<1>4. TypeOK'
  <2>1. NoBinding \in [of : SUBSET Clusters, dying : BOOLEAN]
    BY DEF NoBinding
  <2>. QED
    BY <1>0, <1>1, <1>2, <2>1 DEF TypeOK
<1>5. Caches'
  BY <1>0, <1>1, SameVersions DEF Caches
<1>6. Keyed'
  BY <1>0, <1>1 DEF Keyed
<1>7. Handled'
  <2>. SUFFICES ASSUME NEW p \in Operators, NEW d \in Clusters, Active(p)'
                PROVE  (Owes(p, d) \/ Handles(p, d))'
    BY DEF Handled
  <2>1. Active(p) /\ (Owes(p, d) \/ Handles(p, d))
    BY <1>0, <1>1 DEF Handled, Active
  <2>2. crb[crbName[d]].of = {d} => crb'[crbName[d]].of = {d} \/ d \in queue'[p]
    BY <1>2, <1>3, <2>1, BindingNamed
  <2>. QED
    BY <1>1, <1>2, <2>1, <2>2, HandledStill
<1>8. Cleaned'
  <2>1. \A p \in Operators : Active(p)' => Active(p) /\ \A d \in Clusters :
           seen[p][d] \in Nat /\ seen'[p][d] \in Nat /\ seen'[p][d] >= seen[p][d]
    BY <1>0, <1>1 DEF Active, TypeOK
  <2>2. \A p \in Operators : at'[p] = at[p]
    BY <1>1
  <2>3. \A m \in BindingNames, d \in Clusters : d \in crb'[m].of =>
           d \in crb[m].of /\ (crb[m].dying => crb'[m].dying)
    BY <1>3 DEF NoBinding
  <2>. QED
    BY <1>0, <1>1, <2>1, <2>2, <2>3, CleanedStill
<1>. QED
  BY <1>4, <1>5, <1>6, <1>7, <1>8 DEF Works

-----------------------------------------------------------------------------
(* The steps of Reconcile.                                                 *)

\* A Reconcile reads the version that the cache holds, and knows what to do.
LEMMA StartStep ==
    ASSUME Works, NEW o \in Operators, NEW c \in Clusters, Start(o, c)
    PROVE  Works'
<1>0. TypeOK /\ Caches /\ Keyed /\ Handled /\ Cleaned
  BY DEF Works
<1>. DEFINE v == seen[o][c]
            q == IF log[c][v] = "absent" THEN Idle ELSE Job(FirstStep(log[c][v]), c, v)
            Run == [pc : Steps, job : SUBSET Clusters, version : Nat, key : Nat]
<1>1. /\ Active(o) /\ at[o] = Idle
      /\ queue' = [queue EXCEPT ![o] = @ \ {c}]
      /\ at' = [at EXCEPT ![o] = q]
      /\ UNCHANGED <<scenario, log, op, seen, ca, cookie, crb>>
  BY DEF Start
<1>2. v \in 1..Version(c) /\ Version(c) \in Nat
  BY <1>0, <1>1, SameVersions DEF Caches
<1>3. /\ q \in Run
      /\ q = Idle \/ (q.job = {c} /\ q.version = v)
      /\ q.pc # "caApply"
      /\ log[c][v] = "bare" => q.pc = "addFinalizer" /\ q.job = {c}
      /\ log[c][v] \in {"closing", "draining"} => q.pc = "deleteCRB" /\ q.job = {c}
      /\ log[c][v] = "guarded" => q.pc = "caGet" /\ q.job = {c}
      /\ q.pc \in ApplySteps => log[c][v] \in {"guarded", "lingering"}
      /\ q.pc \in {"deleteCRB", "release"} => q.pc = "deleteCRB" /\ log[c][v] # "guarded"
  <2>1. log[c][v] \in Lives
    BY <1>0, <1>2 DEF TypeOK, Version
  <2>2. CASE log[c][v] = "absent"
    BY <2>2 DEF Idle, Steps, ApplySteps
  <2>3. CASE log[c][v] = "bare"
    BY <1>2, <2>3 DEF Job, FirstStep, Idle, Steps, ApplySteps
  <2>4. CASE log[c][v] \in {"guarded", "lingering"}
    BY <1>2, <2>4 DEF Job, FirstStep, Idle, Steps, ApplySteps
  <2>5. CASE log[c][v] \in {"closing", "draining"}
    BY <1>2, <2>5 DEF Job, FirstStep, Idle, Steps, ApplySteps
  <2>. QED
    BY <2>1, <2>2, <2>3, <2>4, <2>5 DEF Lives
<1>. HIDE DEF q
<1>4. /\ at' \in [Operators -> Run] /\ at'[o] = q
      /\ \A p \in Operators \ {o} : at'[p] = at[p]
      /\ queue'[o] = queue[o] \ {c}
      /\ \A p \in Operators \ {o} : queue'[p] = queue[p]
      /\ queue' \in [Operators -> SUBSET Clusters]
  BY <1>0, <1>1, <1>3 DEF TypeOK
<1>5. \A d \in Clusters : Version(d) \in Nat /\ Version(d)' = Version(d) /\ Life(d)' = Life(d)
  BY <1>0, <1>1, SameVersions
<1>6. TypeOK'
  BY <1>0, <1>1, <1>4 DEF TypeOK
<1>7. Caches'
  <2>1. ASSUME NEW p \in Operators, NEW d \in Clusters, at'[p].job = {d}
        PROVE  at'[p].version \in 1..seen'[p][d]
    <3>1. CASE p = o
      BY <1>1, <1>2, <1>3, <1>4, <2>1, <3>1 DEF Idle
    <3>2. CASE p # o
      BY <1>0, <1>1, <1>4, <2>1, <3>2 DEF Caches
    <3>. QED
      BY <3>1, <3>2
  <2>. QED
    BY <1>0, <1>1, <1>5, <2>1 DEF Caches
<1>8. Keyed'
  BY <1>0, <1>1, <1>3, <1>4 DEF Keyed
<1>9. Handled'
  <2>. SUFFICES ASSUME NEW p \in Operators, NEW d \in Clusters, Active(p)'
                PROVE  (Owes(p, d) \/ Handles(p, d))'
    BY DEF Handled
  <2>1. CASE p = o /\ d = c
    <3>1. CASE v = Version(c)
      <4>1. Life(c)' = log[c][v]
        BY <1>5, <3>1 DEF Life
      <4>2. \A S : q.pc \in S /\ q.job = {c} => At(o, c, S)'
        BY <1>4 DEF At
      <4>. QED
        BY <1>3, <2>1, <4>1, <4>2 DEF Handles, ApplySteps
    <3>2. CASE v # Version(c)
      <4>1. seen'[o][c] < Version(c)'
        BY <1>1, <1>2, <1>5, <3>2
      <4>. QED
        BY <2>1, <4>1 DEF Owes
    <3>. QED
      BY <3>1, <3>2
  <2>2. CASE p # o \/ d # c
    <3>1. Owes(p, d) \/ Handles(p, d)
      BY <1>0, <1>1 DEF Handled, Active
    <3>2. d \in queue[p] => d \in queue'[p]
      BY <1>4, <2>2
    <3>3. at'[p] = at[p] \/ at[p].job # {d}
      BY <1>1, <1>4 DEF Idle
    <3>. QED
      BY <1>1, <3>1, <3>2, <3>3, HandledStill
  <2>. QED
    BY <2>1, <2>2
<1>10. Cleaned'
  <2>1. \A p \in Operators, d \in Clusters : \A S : p # o => At(p, d, S)' = At(p, d, S)
    BY <1>4 DEF At
  <2>2. \A d \in Clusters : Unbinding(d)' = Unbinding(d)
    BY <1>1 DEF Unbinding
  <2>3. ASSUME NEW d \in Clusters
        PROVE  /\ At(o, d, ApplySteps)' => d = c /\ log[c][v] \in {"guarded", "lingering"}
               /\ At(o, d, {"deleteCRB", "release"})' =>
                     d = c /\ at'[o].version = v /\ log[c][v] # "guarded"
               /\ ~At(o, d, {"release"})'
    BY <1>3, <1>4 DEF At, ApplySteps, Idle
  <2>4. ASSUME NEW p \in Operators, NEW d \in Clusters, At(p, d, {"deleteCRB", "release"})'
        PROVE  log'[d][at'[p].version] # "guarded"
    <3>1. CASE p = o
      BY <1>1, <2>3, <2>4, <3>1
    <3>2. CASE p # o
      BY <1>0, <1>1, <1>4, <2>1, <2>4, <3>2 DEF Cleaned
    <3>. QED
      BY <3>1, <3>2
  <2>5. ASSUME scenario.election, NEW d \in Clusters, ~Lingered(d)'
        PROVE  Protected(d)'
    <3>0. Protected(d) /\ ~Lingered(d)
      BY <1>0, <1>1, <1>5, <2>5 DEF Cleaned, Lingered
    <3>1. ASSUME NEW p \in Operators, Active(p)
          PROVE  /\ (\E w \in seen'[p][d]..Version(d)' : log'[d][w] = "guarded")
                           \/ At(p, d, ApplySteps)'
                        => Life(d)' \in {"guarded", "closing", "draining"}
                 /\ At(p, d, {"release"})' /\ at'[p].version = Version(d)'
                        => Unbinding(d)'
      <4>1. (\E w \in seen'[p][d]..Version(d)' : log'[d][w] = "guarded")
               => Life(d)' \in {"guarded", "closing", "draining"}
        BY <1>1, <1>5, <3>0, <3>1 DEF Protected
      <4>2. CASE p = o
        <5>1. v \in seen[o][c]..Version(c) /\ v \in 1..Version(c)
          BY <1>2
        <5>2. At(p, d, ApplySteps)' => d = c /\ log[c][v] = "guarded"
          BY <2>3, <3>0, <4>2, <5>1 DEF Lingered
        <5>3. At(p, d, ApplySteps)' => Life(d)' \in {"guarded", "closing", "draining"}
          BY <1>1, <1>5, <4>1, <4>2, <5>1, <5>2
        <5>. QED
          BY <2>3, <4>1, <4>2, <5>3
      <4>3. CASE p # o
        BY <1>1, <1>4, <1>5, <2>1, <2>2, <3>0, <3>1, <4>1, <4>3 DEF Protected
      <4>. QED
        BY <4>2, <4>3
    <3>2. Life(d)' \in {"absent", "bare"} => Unbinding(d)'
      BY <1>5, <2>2, <3>0 DEF Protected
    <3>3. \A p \in Operators : Active(p)' = Active(p)
      BY <1>1 DEF Active
    <3>. QED
      BY <3>1, <3>2, <3>3 DEF Protected
  <2>. QED
    BY <1>0, <1>1, <2>4, <2>5 DEF Cleaned
<1>. QED
  BY <1>6, <1>7, <1>8, <1>9, <1>10 DEF Works

\* The requests for the Secrets, and others that store no cluster and no binding:
\* the operator goes on, with nothing taken away.
LEMMA SecretStep ==
    ASSUME Works, NEW o \in Operators, NEW c \in Clusters, at[o].job = {c},
           GetCA(o, c) \/ ApplyCA(o, c) \/ ApplyOAuthSecret(o, c)
    PROVE  Works'
<1>0. TypeOK /\ Caches /\ Keyed /\ Handled /\ Cleaned
  BY DEF Works
<1>. DEFINE Run == [pc : Steps, job : SUBSET Clusters, version : Nat, key : Nat]
<1>1. /\ UNCHANGED <<scenario, log, op, seen, crb>>
      /\ \A d \in Clusters : ca[d] # NoSecret => ca'[d] # NoSecret
      /\ \A d \in Clusters : cookie[d] # NoSecret => cookie'[d] # NoSecret
      /\ ca' \in [Clusters -> [value : Nat, uid : Nat]]
      /\ cookie' \in [Clusters -> [value : Nat, uid : Nat]]
      /\ queue' \in [Operators -> SUBSET Clusters]
      /\ \A p \in Operators : queue[p] \subseteq queue'[p]
      /\ \A d \in Clusters : ca'[d] # NoSecret => ca'[d].value # 0
      /\ at' \in [Operators -> Run]
      /\ \A p \in Operators \ {o} : at'[p] = at[p]
      /\ at'[o].job = {c} /\ at'[o].version = at[o].version
      /\ at'[o].pc = "caApply" => at'[o].key # 0
      /\ \/ at[o].pc = "caGet" /\ at'[o].pc = "caApply"
         \/ at[o].pc = "caApply" /\ at'[o].pc = "cookie" /\ ca'[c] # NoSecret
         \/ at[o].pc = "cookie" /\ at'[o].pc = "crb" /\ cookie'[c] # NoSecret
  <2>0. at \in [Operators -> Run] /\ at[o] \in Run
    BY <1>0 DEF TypeOK
  <2>1. CASE GetCA(o, c)
    <3>. DEFINE key == IF ca[c] = NoSecret THEN NewKey(c) ELSE ca[c].value
    <3>1. key \in Nat /\ key # 0
      BY <1>0, NewKeyExists DEF TypeOK, Keyed
    <3>2. /\ at[o].pc = "caGet"
          /\ at' = [at EXCEPT ![o] = [at[o] EXCEPT !.pc = "caApply", !.key = key]]
          /\ UNCHANGED <<scenario, log, op, seen, queue, ca, cookie, crb>>
      BY <2>0, <2>1 DEF GetCA
    <3>. HIDE DEF key
    <3>3. /\ [at[o] EXCEPT !.pc = "caApply", !.key = key] \in Run
          /\ [at[o] EXCEPT !.pc = "caApply", !.key = key].pc = "caApply"
          /\ [at[o] EXCEPT !.pc = "caApply", !.key = key].job = at[o].job
          /\ [at[o] EXCEPT !.pc = "caApply", !.key = key].version = at[o].version
          /\ [at[o] EXCEPT !.pc = "caApply", !.key = key].key = key
      BY <2>0, <3>1 DEF Steps
    <3>4. /\ at' \in [Operators -> Run]
          /\ at'[o] = [at[o] EXCEPT !.pc = "caApply", !.key = key]
          /\ \A p \in Operators \ {o} : at'[p] = at[p]
      BY <2>0, <3>2, <3>3
    <3>. QED
      BY <1>0, <3>1, <3>2, <3>3, <3>4 DEF TypeOK, Keyed
  <2>2. CASE ApplyCA(o, c)
    <3>. DEFINE new == [value |-> at[o].key, uid |-> Uid(c, at[o].version)]
    <3>1. /\ at[o].pc = "caApply"
          /\ ca' = [ca EXCEPT ![c] = new]
          /\ IF ca' # ca THEN Tell({c}) ELSE UNCHANGED queue
          /\ at' = [at EXCEPT ![o] = [at[o] EXCEPT !.pc = "cookie", !.key = 0]]
          /\ UNCHANGED <<scenario, log, op, seen, cookie, crb>>
      BY <2>0, <2>2 DEF ApplyCA
    <3>2. new \in [value : Nat, uid : Nat] /\ new.value # 0 /\ new # NoSecret
      <4>1. at[o].key \in Nat /\ at[o].key # 0 /\ Uid(c, at[o].version) \in Nat
        BY <1>0, <2>0, <3>1, UidNat DEF Keyed
      <4>. QED
        BY <4>1 DEF NoSecret
    <3>. HIDE DEF new
    <3>3. ca' \in [Clusters -> [value : Nat, uid : Nat]] /\ ca'[c] = new
            /\ \A d \in Clusters \ {c} : ca'[d] = ca[d]
      BY <1>0, <3>1, <3>2 DEF TypeOK
    <3>4. /\ [at[o] EXCEPT !.pc = "cookie", !.key = 0] \in Run
          /\ [at[o] EXCEPT !.pc = "cookie", !.key = 0].pc = "cookie"
          /\ [at[o] EXCEPT !.pc = "cookie", !.key = 0].job = at[o].job
          /\ [at[o] EXCEPT !.pc = "cookie", !.key = 0].version = at[o].version
      BY <2>0 DEF Steps
    <3>5. /\ at' \in [Operators -> Run]
          /\ at'[o] = [at[o] EXCEPT !.pc = "cookie", !.key = 0]
          /\ \A p \in Operators \ {o} : at'[p] = at[p]
      BY <2>0, <3>1, <3>4
    <3>6. queue' \in [Operators -> SUBSET Clusters]
            /\ \A p \in Operators : queue[p] \subseteq queue'[p]
      BY <1>0, <3>1, TellEffect DEF TypeOK
    <3>. QED
      BY <1>0, <3>1, <3>2, <3>3, <3>4, <3>5, <3>6 DEF TypeOK, Keyed
  <2>3. CASE ApplyOAuthSecret(o, c)
    <3>. DEFINE new == desiredOAuthSecret(o, c)
    <3>1. /\ at[o].pc = "cookie"
          /\ cookie' = [cookie EXCEPT ![c] = new]
          /\ IF cookie' # cookie THEN Tell({c}) ELSE UNCHANGED queue
          /\ Goto(o, "crb")
          /\ UNCHANGED <<scenario, log, op, seen, ca, crb>>
      BY <2>3 DEF ApplyOAuthSecret
    <3>2. new \in [value : Nat, uid : Nat] /\ new # NoSecret
      <4>1. o \in Nat /\ o # 0 /\ Uid(c, at[o].version) \in Nat
        BY <2>0, UidNat, ContentionAssumption
      <4>. QED
        BY <4>1 DEF desiredOAuthSecret, NoSecret
    <3>. HIDE DEF new
    <3>3. cookie' \in [Clusters -> [value : Nat, uid : Nat]] /\ cookie'[c] = new
            /\ \A d \in Clusters \ {c} : cookie'[d] = cookie[d]
      BY <1>0, <3>1, <3>2 DEF TypeOK
    <3>4. /\ at' \in [Operators -> Run]
          /\ \A p \in Operators \ {o} : at'[p] = at[p]
          /\ at'[o].pc = "crb" /\ at'[o].job = at[o].job /\ at'[o].version = at[o].version
      BY <1>0, <3>1, GotoEffect DEF Steps
    <3>5. queue' \in [Operators -> SUBSET Clusters]
            /\ \A p \in Operators : queue[p] \subseteq queue'[p]
      BY <1>0, <3>1, TellEffect DEF TypeOK
    <3>. QED
      BY <1>0, <3>1, <3>2, <3>3, <3>4, <3>5 DEF TypeOK, Keyed
  <2>. QED
    BY <2>1, <2>2, <2>3
<1>2. TypeOK'
  BY <1>0, <1>1 DEF TypeOK
<1>3. Caches'
  <2>1. \A p \in Operators : at'[p].job = at[p].job /\ at'[p].version = at[p].version
    BY <1>1
  <2>. QED
    BY <1>0, <1>1, <2>1, SameVersions DEF Caches
<1>4. Keyed'
  BY <1>0, <1>1 DEF Keyed
<1>5. Handled'
  <2>. SUFFICES ASSUME NEW p \in Operators, NEW d \in Clusters, Active(p)'
                PROVE  (Owes(p, d) \/ Handles(p, d))'
    BY DEF Handled
  <2>1. Owes(p, d) \/ Handles(p, d)
    BY <1>0, <1>1 DEF Handled, Active
  <2>2. CASE p = o /\ d = c
    <3>1. Version(c)' = Version(c) /\ Life(c)' = Life(c)
      BY <1>0, <1>1, SameVersions
    <3>2. CASE Owes(o, c)
      BY <1>1, <2>2, <3>1, <3>2 DEF Owes
    <3>3. CASE Handles(o, c)
      <4>1. \A S : At(o, c, S) = (at[o].pc \in S)
        BY DEF At
      <4>2. \A S : At(o, c, S)' = (at'[o].pc \in S)
        BY <1>1 DEF At
      <4>3. /\ Life(c) \notin {"bare", "closing", "draining"}
        BY <1>1, <3>3, <4>1 DEF Handles
      <4>4. Life(c) = "guarded" =>
               /\ At(o, c, {"caGet", "caApply"})' \/ ca'[c] # NoSecret
               /\ At(o, c, {"caGet", "caApply", "cookie"})' \/ cookie'[c] # NoSecret
               /\ At(o, c, ApplySteps)'
        <5>1. ca[c] # NoSecret => ca'[c] # NoSecret
          BY <1>1
        <5>2. Life(c) = "guarded" => at[o].pc \in {"caGet", "caApply"} \/ ca[c] # NoSecret
          BY <3>3, <4>1 DEF Handles
        <5>3. CASE at[o].pc = "caGet" /\ at'[o].pc = "caApply"
          BY <4>2, <5>3 DEF ApplySteps
        <5>4. CASE at[o].pc = "caApply" /\ at'[o].pc = "cookie" /\ ca'[c] # NoSecret
          BY <4>2, <5>4 DEF ApplySteps
        <5>5. CASE at[o].pc = "cookie" /\ at'[o].pc = "crb" /\ cookie'[c] # NoSecret
          BY <4>2, <5>1, <5>2, <5>5 DEF ApplySteps
        <5>. QED
          BY <1>1, <5>3, <5>4, <5>5
      <4>. QED
        BY <2>2, <3>1, <4>3, <4>4 DEF Handles
    <3>. QED
      BY <2>1, <2>2, <3>2, <3>3
  <2>3. CASE p # o \/ d # c
    <3>1. at'[p] = at[p] \/ at[p].job # {d}
      BY <1>1, <2>3
    <3>. QED
      BY <1>1, <2>1, <3>1, HandledStill
  <2>. QED
    BY <2>2, <2>3
<1>6. Cleaned'
  <2>1. \A p \in Operators : Active(p)' => Active(p) /\ \A d \in Clusters :
           seen[p][d] \in Nat /\ seen'[p][d] \in Nat /\ seen'[p][d] >= seen[p][d]
    <3>1. \A p \in Operators, d \in Clusters : seen[p][d] \in Nat
      BY <1>0 DEF TypeOK
    <3>2. seen' = seen /\ op' = op
      BY <1>1
    <3>. QED
      BY <3>1, <3>2 DEF Active
  <2>2. /\ \A p \in Operators : at'[p] = at[p] \/ p = o
        /\ at'[o].pc \in ApplySteps /\ at[o].pc \in ApplySteps
        /\ at'[o].pc \notin {"deleteCRB", "release"}
    BY <1>1 DEF ApplySteps
  <2>. QED
    BY <1>0, <1>1, <2>1, <2>2, CleanedStill
<1>. QED
  BY <1>2, <1>3, <1>4, <1>5, <1>6 DEF Works

\* The binding of a cluster that is deleted is deleted, before the finalizer.
LEMMA DeleteCRBStep ==
    ASSUME Works, NEW o \in Operators, NEW c \in Clusters, at[o].job = {c},
           DeleteCRB(o, c)
    PROVE  Works'
<1>0. TypeOK /\ Caches /\ Keyed /\ Handled /\ Cleaned
  BY DEF Works
<1>. DEFINE Run == [pc : Steps, job : SUBSET Clusters, version : Nat, key : Nat]
            n == crbName[c]
<1>1. /\ at[o].pc = "deleteCRB" /\ Goto(o, "release")
      /\ IF crb[n] # NoBinding /\ ~crb[n].dying
            THEN crb' = [crb EXCEPT ![n].dying = TRUE] /\ Tell(crb[n].of)
            ELSE UNCHANGED <<crb, queue>>
      /\ UNCHANGED <<scenario, log, op, seen, ca, cookie>>
  BY DEF DeleteCRB
<1>2. n \in BindingNames
  BY BindingNamed
<1>3. /\ at' \in [Operators -> Run]
      /\ \A p \in Operators \ {o} : at'[p] = at[p]
      /\ at'[o].pc = "release" /\ at'[o].job = {c} /\ at'[o].version = at[o].version
  BY <1>0, <1>1, GotoEffect DEF Steps
<1>. HIDE DEF n
<1>4. /\ crb' \in [BindingNames -> [of : SUBSET Clusters, dying : BOOLEAN]]
      /\ \A m \in BindingNames : crb'[m].of = crb[m].of
      /\ \A m \in BindingNames : crb[m].dying => crb'[m].dying
      /\ crb[n] = NoBinding \/ crb'[n].dying
  <2>1. CASE crb[n] # NoBinding /\ ~crb[n].dying
    <3>1. crb' = [crb EXCEPT ![n] = [crb[n] EXCEPT !.dying = TRUE]]
      BY <1>0, <1>1, <2>1 DEF TypeOK
    <3>2. /\ [crb[n] EXCEPT !.dying = TRUE] \in [of : SUBSET Clusters, dying : BOOLEAN]
          /\ [crb[n] EXCEPT !.dying = TRUE].of = crb[n].of
          /\ [crb[n] EXCEPT !.dying = TRUE].dying
      BY <1>0, <1>2 DEF TypeOK
    <3>. QED
      BY <1>0, <1>2, <3>1, <3>2 DEF TypeOK
  <2>2. CASE ~(crb[n] # NoBinding /\ ~crb[n].dying)
    BY <1>0, <1>1, <2>2 DEF TypeOK
  <2>. QED
    BY <2>1, <2>2
<1>5. queue' \in [Operators -> SUBSET Clusters]
        /\ \A p \in Operators : queue[p] \subseteq queue'[p]
  <2>1. crb[n].of \in SUBSET Clusters
    BY <1>0, <1>2 DEF TypeOK
  <2>. QED
    BY <1>0, <1>1, <2>1, TellEffect DEF TypeOK
<1>6. TypeOK'
  BY <1>0, <1>1, <1>3, <1>4, <1>5 DEF TypeOK
<1>7. Caches'
  <2>1. \A p \in Operators : at'[p].job = at[p].job /\ at'[p].version = at[p].version
    BY <1>3
  <2>. QED
    BY <1>0, <1>1, <2>1, SameVersions DEF Caches
<1>8. Keyed'
  BY <1>0, <1>1, <1>3 DEF Keyed
<1>9. Handled'
  <2>. SUFFICES ASSUME NEW p \in Operators, NEW d \in Clusters, Active(p)'
                PROVE  (Owes(p, d) \/ Handles(p, d))'
    BY DEF Handled
  <2>1. Owes(p, d) \/ Handles(p, d)
    BY <1>0, <1>1 DEF Handled, Active
  <2>2. crb'[crbName[d]].of = crb[crbName[d]].of
    BY <1>4, BindingNamed
  <2>3. CASE p = o /\ d = c
    <3>1. Version(c)' = Version(c) /\ Life(c)' = Life(c)
      BY <1>0, <1>1, SameVersions
    <3>2. CASE Owes(o, c)
      BY <1>1, <1>5, <2>3, <3>1, <3>2 DEF Owes
    <3>3. CASE Handles(o, c)
      <4>1. \A S : At(o, c, S) = (at[o].pc \in S)
        BY DEF At
      <4>2. Life(c) # "bare" /\ At(o, c, {"deleteCRB", "release"})'
        <5>0. ~At(o, c, {"addFinalizer"})
          BY <1>1 DEF At
        <5>1. Life(c) # "bare"
          BY <3>3, <5>0 DEF Handles
        <5>2. At(o, c, {"deleteCRB", "release"})'
          BY <1>3 DEF At
        <5>. QED
          BY <5>1, <5>2
      <4>3. Life(c) = "guarded" =>
               ca[c] # NoSecret /\ cookie[c] # NoSecret /\ crb[crbName[c]].of = {c}
        BY <1>1, <3>3, <4>1 DEF Handles, ApplySteps
      <4>. QED
        BY <1>1, <2>2, <2>3, <3>1, <4>2, <4>3 DEF Handles
    <3>. QED
      BY <2>1, <2>3, <3>2, <3>3
  <2>4. CASE p # o \/ d # c
    <3>1. at'[p] = at[p] \/ at[p].job # {d}
      BY <1>3, <2>4
    <3>. QED
      BY <1>1, <1>5, <2>1, <2>2, <3>1, HandledStill
  <2>. QED
    BY <2>3, <2>4
<1>10. Cleaned'
  <2>1. \A d \in Clusters : Version(d)' = Version(d) /\ Life(d)' = Life(d)
    BY <1>0, <1>1, SameVersions
  <2>2. \A d \in Clusters : Unbinding(d) => Unbinding(d)'
    BY <1>4 DEF Unbinding
  <2>3. Unbinding(c)'
    <3>1. ASSUME NEW m \in BindingNames, c \in crb'[m].of PROVE crb'[m].dying
      <4>1. c \in crb[m].of /\ m = n
        BY <1>0, <1>4, <3>1 DEF Cleaned, n
      <4>. QED
        BY <1>4, <4>1 DEF NoBinding
    <3>. QED
      BY <3>1 DEF Unbinding
  <2>4. ASSUME NEW p \in Operators, NEW d \in Clusters
        PROVE  /\ At(p, d, ApplySteps)' => At(p, d, ApplySteps)
               /\ At(p, d, {"deleteCRB", "release"})' =>
                     /\ At(p, d, {"deleteCRB", "release"})
                     /\ at'[p].version = at[p].version
               /\ At(p, d, {"release"})' =>
                     \/ d = c
                     \/ At(p, d, {"release"}) /\ at'[p].version = at[p].version
    <3>1. CASE p = o
      BY <1>1, <1>3, <3>1 DEF At, ApplySteps
    <3>2. CASE p # o
      BY <1>3, <3>2 DEF At
    <3>. QED
      BY <3>1, <3>2
  <2>5. \A m \in BindingNames, d \in Clusters : d \in crb'[m].of => m = crbName[d]
    BY <1>0, <1>4 DEF Cleaned
  <2>6. \A p \in Operators, d \in Clusters : At(p, d, {"deleteCRB", "release"})' =>
           log'[d][at'[p].version] # "guarded"
    BY <1>0, <1>1, <2>4 DEF Cleaned
  <2>7. ASSUME scenario.election, NEW d \in Clusters, ~Lingered(d)'
        PROVE  Protected(d)'
    <3>0. Protected(d)
      BY <1>0, <1>1, <2>1, <2>7 DEF Cleaned, Lingered
    <3>1. Life(d)' \in {"absent", "bare"} => Unbinding(d)'
      BY <2>1, <2>2, <3>0 DEF Protected
    <3>2. ASSUME NEW p \in Operators, Active(p)'
          PROVE  /\ (\E v \in seen'[p][d]..Version(d)' : log'[d][v] = "guarded")
                           \/ At(p, d, ApplySteps)'
                        => Life(d)' \in {"guarded", "closing", "draining"}
                 /\ At(p, d, {"release"})' /\ at'[p].version = Version(d)'
                        => Unbinding(d)'
      BY <1>1, <2>1, <2>2, <2>3, <2>4, <3>0, <3>2 DEF Protected, Active
    <3>. QED
      BY <3>1, <3>2 DEF Protected
  <2>. QED
    BY <1>1, <2>5, <2>6, <2>7 DEF Cleaned
<1>. QED
  BY <1>6, <1>7, <1>8, <1>9, <1>10 DEF Works

\* A binding is applied, and the clusters that lose it are told.
LEMMA ApplyCRBStep ==
    ASSUME Works, KeyInv, NEW o \in Operators, NEW c \in Clusters, at[o].job = {c},
           ApplyCRB(o, c)
    PROVE  Works'
<1>0. TypeOK /\ Caches /\ Keyed /\ Handled /\ Cleaned
  BY DEF Works
<1>. DEFINE Run == [pc : Steps, job : SUBSET Clusters, version : Nat, key : Nat]
            n == crbName[c]
<1>1. /\ at[o].pc = "crb" /\ Goto(o, "idle")
      /\ crb' = [crb EXCEPT ![n].of = {c}]
      /\ IF crb' # crb THEN Tell(mapFunc(crb[n], crb'[n])) ELSE UNCHANGED queue
      /\ UNCHANGED <<scenario, log, op, seen, ca, cookie>>
  BY DEF ApplyCRB
<1>2. n \in BindingNames /\ Active(o)
  BY BindingNamed, WorkerActive
<1>3. /\ at' \in [Operators -> Run]
      /\ \A p \in Operators \ {o} : at'[p] = at[p]
      /\ at'[o] = Idle
  BY <1>0, <1>1, GotoEffect DEF Steps
<1>4. /\ crb' \in [BindingNames -> [of : SUBSET Clusters, dying : BOOLEAN]]
      /\ crb'[n].of = {c} /\ crb'[n].dying = crb[n].dying
      /\ \A m \in BindingNames \ {n} : crb'[m] = crb[m]
  <2>. HIDE DEF n
  <2>1. crb' = [crb EXCEPT ![n] = [crb[n] EXCEPT !.of = {c}]]
    BY <1>0, <1>1 DEF TypeOK
  <2>2. /\ [crb[n] EXCEPT !.of = {c}] \in [of : SUBSET Clusters, dying : BOOLEAN]
        /\ [crb[n] EXCEPT !.of = {c}].of = {c}
        /\ [crb[n] EXCEPT !.of = {c}].dying = crb[n].dying
    BY <1>0, <1>2 DEF TypeOK
  <2>. QED
    BY <1>0, <1>2, <2>1, <2>2 DEF TypeOK
<1>5. /\ queue' \in [Operators -> SUBSET Clusters]
      /\ \A p \in Operators : queue[p] \subseteq queue'[p]
      /\ \A p \in Operators : Active(p) => crb'[n].of = crb[n].of \/ crb[n].of \subseteq queue'[p]
  <2>. HIDE DEF n
  <2>1. mapFunc(crb[n], crb'[n]) \in SUBSET Clusters
          /\ crb[n].of \subseteq mapFunc(crb[n], crb'[n])
    BY <1>0, <1>2, <1>4 DEF TypeOK, mapFunc
  <2>2. CASE crb' # crb
    BY <1>0, <1>1, <2>1, <2>2, TellEffect
  <2>3. CASE crb' = crb
    BY <1>0, <1>1, <2>3 DEF TypeOK
  <2>. QED
    BY <2>2, <2>3
<1>6. TypeOK'
  BY <1>0, <1>1, <1>3, <1>4, <1>5 DEF TypeOK
<1>7. Caches'
  <2>1. \A p \in Operators, d \in Clusters : at'[p].job = {d} => at'[p] = at[p]
    BY <1>3 DEF Idle
  <2>. QED
    BY <1>0, <1>1, <2>1, SameVersions DEF Caches
<1>8. Keyed'
  BY <1>0, <1>1, <1>3 DEF Keyed, Idle
<1>9. Handled'
  <2>. SUFFICES ASSUME NEW p \in Operators, NEW d \in Clusters, Active(p)'
                PROVE  (Owes(p, d) \/ Handles(p, d))'
    BY DEF Handled
  <2>1. Active(p) /\ (Owes(p, d) \/ Handles(p, d))
    BY <1>0, <1>1 DEF Handled, Active
  <2>2. crb[crbName[d]].of = {d} => crb'[crbName[d]].of = {d} \/ d \in queue'[p]
    <3>1. CASE crbName[d] = n
      BY <1>5, <2>1, <3>1
    <3>2. CASE crbName[d] # n
      BY <1>4, <3>2, BindingNamed
    <3>. QED
      BY <3>1, <3>2
  <2>3. CASE p = o /\ d = c
    <3>1. Version(c)' = Version(c) /\ Life(c)' = Life(c)
      BY <1>0, <1>1, SameVersions
    <3>2. CASE Owes(o, c)
      BY <1>1, <1>5, <2>3, <3>1, <3>2 DEF Owes
    <3>3. CASE Handles(o, c)
      <4>1. \A S : At(o, c, S) = (at[o].pc \in S)
        BY DEF At
      <4>2. Life(c) \notin {"bare", "closing", "draining"}
        BY <1>1, <3>3, <4>1 DEF Handles
      <4>3. Life(c) = "guarded" => ca[c] # NoSecret /\ cookie[c] # NoSecret
        BY <1>1, <3>3, <4>1 DEF Handles
      <4>. QED
        BY <1>1, <1>4, <2>3, <3>1, <4>2, <4>3 DEF Handles
    <3>. QED
      BY <2>1, <2>3, <3>2, <3>3
  <2>4. CASE p # o \/ d # c
    <3>1. at'[p] = at[p] \/ at[p].job # {d}
      BY <1>3, <2>4
    <3>. QED
      BY <1>1, <1>5, <2>1, <2>2, <3>1, HandledStill
  <2>. QED
    BY <2>3, <2>4
<1>10. Cleaned'
  <2>1. \A d \in Clusters : Version(d)' = Version(d) /\ Life(d)' = Life(d)
    BY <1>0, <1>1, SameVersions
  <2>2. \A d \in Clusters \ {c} : Unbinding(d) => Unbinding(d)'
    BY <1>2, <1>4 DEF Unbinding
  <2>3. ASSUME NEW p \in Operators, NEW d \in Clusters, NEW S, At(p, d, S)'
        PROVE  p # o /\ At(p, d, S) /\ at'[p] = at[p]
    BY <1>3, <2>3 DEF At, Idle
  <2>4. \A m \in BindingNames, d \in Clusters : d \in crb'[m].of => m = crbName[d]
    BY <1>0, <1>4 DEF Cleaned
  <2>5. \A p \in Operators, d \in Clusters : At(p, d, {"deleteCRB", "release"})' =>
           log'[d][at'[p].version] # "guarded"
    BY <1>0, <1>1, <2>3 DEF Cleaned
  <2>6. ASSUME scenario.election, NEW d \in Clusters, ~Lingered(d)'
        PROVE  Protected(d)'
    <3>0. Protected(d)
      BY <1>0, <1>1, <2>1, <2>6 DEF Cleaned, Lingered
    <3>1. d = c => Life(d) \in {"guarded", "closing", "draining"}
      <4>1. At(o, c, ApplySteps)
        BY <1>1 DEF At, ApplySteps
      <4>. QED
        BY <1>2, <3>0, <4>1 DEF Protected
    <3>2. Life(d)' \in {"absent", "bare"} => Unbinding(d)'
      BY <2>1, <2>2, <3>0, <3>1 DEF Protected
    <3>3. ASSUME NEW p \in Operators, Active(p)'
          PROVE  /\ (\E v \in seen'[p][d]..Version(d)' : log'[d][v] = "guarded")
                           \/ At(p, d, ApplySteps)'
                        => Life(d)' \in {"guarded", "closing", "draining"}
                 /\ ~At(p, d, {"release"})'
      <4>1. Active(p) /\ p = o
        BY <1>1, <1>2, <2>6, <3>3 DEF Active, KeyInv
      <4>2. \A S : ~At(p, d, S)'
        BY <2>3, <4>1
      <4>. QED
        BY <1>1, <2>1, <3>0, <4>1, <4>2 DEF Protected
    <3>. QED
      BY <3>2, <3>3 DEF Protected
  <2>. QED
    BY <1>1, <2>4, <2>5, <2>6 DEF Cleaned
<1>. QED
  BY <1>6, <1>7, <1>8, <1>9, <1>10 DEF Works

\* The finalizer is written, or the key is retried.
LEMMA FinalizerStep ==
    ASSUME Works, KeyInv, NEW o \in Operators, NEW c \in Clusters, at[o].job = {c},
           AddFinalizer(o, c) \/ RemoveFinalizer(o, c)
    PROVE  Works'
<1>0. TypeOK /\ Caches /\ Keyed /\ Handled /\ Cleaned
  BY DEF Works
<1>. DEFINE Run == [pc : Steps, job : SUBSET Clusters, version : Nat, key : Nat]
<1>1. Active(o) /\ UNCHANGED <<scenario, op, seen, ca, cookie, crb>>
  BY WorkerActive DEF AddFinalizer, RemoveFinalizer, UpdateFinalizer
<1>2. CASE at[o].version = Version(c)
  <2>1. PICK life \in {"guarded", "absent", "lingering"} :
           /\ Store(c, life) /\ UNCHANGED queue
           /\ life = "guarded" => at[o].pc = "addFinalizer" /\ Goto(o, "caGet")
           /\ life # "guarded" => at[o].pc = "release" /\ Goto(o, "idle")
    BY <1>2 DEF AddFinalizer, RemoveFinalizer, UpdateFinalizer
  <2>2. /\ life \in Lives
        /\ log' \in [Clusters -> Seq(Lives)]
        /\ Version(c) \in Nat
        /\ Version(c)' = Version(c) + 1
        /\ \A d \in Clusters \ {c} : log'[d] = log[d]
    BY <1>0, <2>1, StoreEffect DEF Lives
  <2>3. /\ at' \in [Operators -> Run]
        /\ \A p \in Operators \ {o} : at'[p] = at[p]
        /\ life = "guarded" => /\ at'[o].pc = "caGet"
                               /\ at'[o].job = {c}
                               /\ at'[o].version = at[o].version
        /\ life # "guarded" => at'[o] = Idle
    BY <1>0, <2>1, GotoEffect DEF Steps
  <2>4. TypeOK'
    BY <1>0, <1>1, <2>1, <2>2, <2>3 DEF TypeOK
  <2>5. Caches'
    <3>1. ASSUME NEW p \in Operators, NEW d \in Clusters
          PROVE  /\ seen'[p][d] \in 1..Version(d)'
                 /\ at'[p].job = {d} => at'[p].version \in 1..seen'[p][d]
      <4>1. seen[p][d] \in 1..Version(d)
              /\ (at[p].job = {d} => at[p].version \in 1..seen[p][d])
        BY <1>0 DEF Caches
      <4>2. Version(d)' = Version(d) \/ d = c
        BY <2>2 DEF Version
      <4>3. seen'[p][d] \in 1..Version(d)'
        BY <1>1, <2>2, <4>1, <4>2
      <4>4. at'[p].job = {d} => at[p].job = {d} /\ at'[p].version = at[p].version
        BY <2>1, <2>3 DEF Idle
      <4>. QED
        BY <1>1, <4>1, <4>3, <4>4
    <3>. QED
      BY <1>0, <1>1, <3>1 DEF Caches
  <2>6. Keyed'
    BY <1>0, <1>1, <2>1, <2>3 DEF Keyed, Idle
  <2>7. Handled'
    <3>. SUFFICES ASSUME NEW p \in Operators, NEW d \in Clusters, Active(p)'
                  PROVE  (Owes(p, d) \/ Handles(p, d))'
      BY DEF Handled
    <3>1. CASE d = c
      BY <1>1, <2>1, <2>2, <3>1, HandledAnew
    <3>2. CASE d # c
      <4>1. Owes(p, d) \/ Handles(p, d)
        BY <1>0, <1>1 DEF Handled, Active
      <4>2. at'[p] = at[p] \/ at[p].job # {d}
        BY <2>3, <3>2
      <4>. QED
        BY <1>1, <2>1, <2>2, <3>2, <4>1, <4>2, HandledStill
    <3>. QED
      BY <3>1, <3>2
  <2>8. Cleaned'
    <3>1. ASSUME NEW p \in Operators, NEW d \in Clusters, at'[p].job = {d}
          PROVE  /\ at[p].job = {d} /\ at'[p].version = at[p].version
                 /\ \/ at'[p].pc = at[p].pc
                    \/ at'[p].pc \in ApplySteps /\ d = c /\ life = "guarded"
      <4>1. CASE p = o
        BY <2>1, <2>3, <3>1, <4>1 DEF Idle, ApplySteps
      <4>2. CASE p # o
        BY <2>3, <4>2, <3>1
      <4>. QED
        BY <4>1, <4>2
    <3>2. ASSUME scenario.election, ~Lingered(c), life \in {"absent", "bare"}
          PROVE  /\ Unbinding(c)
                 /\ \A p \in Operators : Active(p) =>
                       /\ ~At(p, c, ApplySteps)
                       /\ \A v \in seen[p][c]..Version(c) : log[c][v] # "guarded"
      <4>1. at[o].pc = "release" /\ At(o, c, {"release"})
              /\ At(o, c, {"deleteCRB", "release"}) /\ ~At(o, c, ApplySteps)
        BY <2>1, <3>2 DEF At, ApplySteps
      <4>2. Unbinding(c)
        BY <1>0, <1>1, <1>2, <3>2, <4>1 DEF Cleaned, Protected
      <4>3. log[c][Version(c)] # "guarded"
        BY <1>0, <1>2, <4>1 DEF Cleaned
      <4>4. seen[o][c] = Version(c)
        <5>1. at[o].version \in 1..seen[o][c] /\ seen[o][c] \in 1..Version(c)
          BY <1>0 DEF Caches
        <5>. QED
          BY <1>2, <2>2, <5>1
      <4>5. \A p \in Operators : Active(p) => p = o
        BY <1>1, <3>2 DEF KeyInv
      <4>6. \A v \in seen[o][c]..Version(c) : log[c][v] # "guarded"
        BY <2>2, <4>3, <4>4
      <4>. QED
        BY <4>1, <4>2, <4>5, <4>6
    <3>3. \A p \in Operators, d \in Clusters :
             at'[p].job = {d} /\ at'[p].pc \in ApplySteps \cup {"deleteCRB", "release"} =>
                /\ at[p].job = {d} /\ at'[p].version = at[p].version
                /\ \/ at'[p].pc = at[p].pc
                   \/ at'[p].pc \in ApplySteps /\ d = c /\ life = "guarded"
      BY <3>1
    <3>4. UNCHANGED <<scenario, op, seen, crb>> /\ Store(c, life) /\ life \in Lives
      BY <1>1, <2>1, <2>2
    <3>. QED
      BY <3>2, <3>3, <3>4, CleanedAnew
  <2>. QED
    BY <2>4, <2>5, <2>6, <2>7, <2>8 DEF Works
<1>3. CASE at[o].version # Version(c)
  <2>1. Goto(o, "idle") /\ queue' = [queue EXCEPT ![o] = @ \cup {c}] /\ UNCHANGED log
    BY <1>3 DEF AddFinalizer, RemoveFinalizer, UpdateFinalizer
  <2>2. /\ at' \in [Operators -> Run]
        /\ \A p \in Operators \ {o} : at'[p] = at[p]
        /\ at'[o] = Idle
    BY <1>0, <2>1, GotoEffect DEF Steps
  <2>3. /\ queue' \in [Operators -> SUBSET Clusters]
        /\ c \in queue'[o] /\ \A p \in Operators : queue[p] \subseteq queue'[p]
    BY <1>0, <2>1 DEF TypeOK
  <2>4. TypeOK'
    BY <1>0, <1>1, <2>1, <2>2, <2>3 DEF TypeOK
  <2>5. \A p \in Operators, d \in Clusters : at'[p].job = {d} => at'[p] = at[p]
    BY <2>2 DEF Idle
  <2>6. Caches'
    BY <1>0, <1>1, <2>1, <2>5, SameVersions DEF Caches
  <2>7. Keyed'
    BY <1>0, <1>1, <2>2 DEF Keyed, Idle
  <2>8. Handled'
    <3>. SUFFICES ASSUME NEW p \in Operators, NEW d \in Clusters, Active(p)'
                  PROVE  (Owes(p, d) \/ Handles(p, d))'
      BY DEF Handled
    <3>1. CASE p = o /\ d = c
      BY <2>3, <3>1 DEF Owes
    <3>2. CASE p # o \/ d # c
      <4>1. Owes(p, d) \/ Handles(p, d)
        BY <1>0, <1>1 DEF Handled, Active
      <4>2. at'[p] = at[p] \/ at[p].job # {d}
        BY <2>2, <3>2
      <4>. QED
        BY <1>1, <2>1, <2>3, <4>1, <4>2, HandledStill
    <3>. QED
      BY <3>1, <3>2
  <2>9. Cleaned'
    <3>1. \A p \in Operators : Active(p)' => Active(p) /\ \A d \in Clusters :
             seen[p][d] \in Nat /\ seen'[p][d] \in Nat /\ seen'[p][d] >= seen[p][d]
      <4>1. \A p \in Operators, d \in Clusters : seen[p][d] \in Nat
        BY <1>0 DEF TypeOK
      <4>2. seen' = seen /\ op' = op
        BY <1>1
      <4>. QED
        BY <4>1, <4>2 DEF Active
    <3>. QED
      BY <1>0, <1>1, <2>1, <2>5, <3>1, CleanedStill
  <2>. QED
    BY <2>4, <2>6, <2>7, <2>8, <2>9 DEF Works
<1>. QED
  BY <1>2, <1>3

-----------------------------------------------------------------------------
(* The theorems.                                                           *)

\* Every step preserves the invariant.
LEMMA WorksStep ==
    ASSUME Works, KeyInv, [Next]_vars
    PROVE  Works'
<1>1. CASE UNCHANGED vars
  <2>1. UNCHANGED <<scenario, log, op, seen, queue, at, ca, cookie, crb>>
    BY <1>1 DEF vars
  <2>2. TypeOK' /\ Keyed'
    BY <2>1 DEF Works, TypeOK, Keyed
  <2>3. Caches'
    BY <2>1 DEF Works, Caches, Version
  <2>4. Handled'
    BY <2>1 DEF Works, Handled, Owes, Handles, At, Version, Life, Active
  <2>5. Cleaned'
    BY <2>1 DEF Works, Cleaned, Protected, Lingered, At, Unbinding, Version, Life,
                Active
  <2>. QED
    BY <2>2, <2>3, <2>4, <2>5 DEF Works
<1>2. ASSUME NEW o \in Operators, NEW c \in Clusters, Request(o, c)
      PROVE  Works'
  BY <1>2, SecretStep, DeleteCRBStep, ApplyCRBStep, FinalizerStep DEF Request
<1>. QED
  BY <1>1, <1>2, BeginStep, StopStep, DeliverStep, UserStep, CollectStep,
     BindingGoneStep, StartStep DEF Next, Reconcile

\* The invariant of several operators and clusters (raycluster_controller.go,
\* lines 115-165, 229 and 686-703).
THEOREM ContentionInvariant == Spec => []ContentionInv
<1>1. Init => Works /\ KeyInv
  BY WorksInit, KeyInit
<1>2. Works /\ KeyInv /\ [Next]_vars => (Works /\ KeyInv)'
  BY WorksStep, KeyStep
<1>3. Works /\ KeyInv => ContentionInv
  BY DEF Works, ContentionInv
<1>. QED
  BY <1>1, <1>2, <1>3, PTL DEF Spec

\* The variables range over the values the model gives them; in particular there
\* is always a new key to generate.
THEOREM ContentionTypes == Spec => []TypeOK
<1>1. ContentionInv => TypeOK
  BY DEF ContentionInv
<1>. QED
  BY <1>1, ContentionInvariant, PTL

\* When all is at rest, somebody is at work, and has looked at every cluster.
LEMMA RestLooked ==
    ASSUME ContentionInv, Quiescent, NEW c \in Clusters
    PROVE  \E o \in Operators : at[o] = Idle /\ Handles(o, c)
<1>1. PICK last \in Operators : \A o \in Operators : o <= last
  BY ContentionAssumption
<1>2. op[last] # "gone"
  <2>1. \A p \in Operators : ~(p > last)
    BY <1>1, ContentionAssumption
  <2>. QED
    BY <2>1 DEF ContentionInv, Caches
<1>3. Active(last)
  BY <1>2 DEF ContentionInv, TypeOK, Quiescent, Active
<1>4. at[last] = Idle /\ queue[last] = {} /\ seen[last][c] = Version(c)
  BY <1>3 DEF Quiescent
<1>5. ~Owes(last, c)
  <2>1. Version(c) \in Nat
    BY DEF ContentionInv, TypeOK, Version
  <2>. QED
    BY <1>4, <2>1 DEF Owes
<1>. QED
  BY <1>3, <1>4, <1>5 DEF ContentionInv, Handled

\* Whatever operators did, one after the other or at once, and whatever clusters
\* share a name: when all is at rest, every live cluster has its Secrets and a
\* binding of its own (raycluster_controller.go, lines 146-165, 229, 686-703).
THEOREM RestsBound == Spec => []QuiescentBound
<1>1. ContentionInv => QuiescentBound
  <2>. SUFFICES ASSUME ContentionInv, Quiescent, NEW c \in Clusters, Alive(c)
                PROVE  /\ ca[c] # NoSecret
                       /\ cookie[c] # NoSecret
                       /\ crb[crbName[c]].of = {c}
    BY DEF QuiescentBound
  <2>1. PICK o \in Operators : at[o] = Idle /\ Handles(o, c)
    BY RestLooked
  <2>2. \A S : ~At(o, c, S)
    BY <2>1 DEF At, Idle
  <2>. QED
    BY <2>1, <2>2 DEF Handles, Alive
<1>. QED
  BY <1>1, ContentionInvariant, PTL

\* With leader election the binding of a cluster that is gone is gone too, unless
\* the cluster lingered, also if operators take over in the middle of a clean-up,
\* and whatever becomes of other clusters with the same binding (main.go, line
\* 206; raycluster_controller.go, lines 135-166 and 229).
THEOREM NoOrphans == Spec => []NoOrphanElected
<1>1. ContentionInv => NoOrphanElected
  <2>. SUFFICES ASSUME ContentionInv, scenario.election, Quiescent,
                       NEW n \in BindingNames, NEW c \in Clusters, c \in crb[n].of,
                       ~Lingered(c)
                PROVE  Alive(c)
    BY DEF NoOrphanElected
  <2>1. PICK o \in Operators : at[o] = Idle /\ Handles(o, c)
    BY RestLooked
  <2>2. \A S : ~At(o, c, S)
    BY <2>1 DEF At, Idle
  <2>3. Life(c) \notin {"bare", "closing", "draining", "lingering"}
    BY <2>1, <2>2 DEF Handles, Quiescent, InForeground
  <2>4. Life(c) # "absent"
    BY DEF ContentionInv, Cleaned, Protected, Unbinding, Quiescent
  <2>5. Life(c) \in Lives
    <3>1. seen[o][c] \in 1..Version(c)
      BY DEF ContentionInv, Caches
    <3>2. log[c] \in Seq(Lives) /\ Len(log[c]) \in Nat
      BY DEF ContentionInv, TypeOK
    <3>. QED
      BY <3>1, <3>2 DEF Life, Version
  <2>. QED
    BY <2>3, <2>4, <2>5 DEF Alive, Lives
<1>. QED
  BY <1>1, ContentionInvariant, PTL
=============================================================================
