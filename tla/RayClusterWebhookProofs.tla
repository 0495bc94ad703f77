----------------------- MODULE RayClusterWebhookProofs -----------------------
(***************************************************************************)
(* Proofs about the admission webhook, for every configuration, every Pod  *)
(* template a user may submit and every number of releases.                *)
(***************************************************************************)
EXTENDS RayClusterWebhook, WellFoundedInduction, SequenceTheorems, TLAPS

-----------------------------------------------------------------------------
(* contains and upsert.                                                    *)

\* Among the items of a name there is a first one.
LEMMA FirstExists ==
    ASSUME NEW S, NEW items \in Seq(S), NEW name, Has(items, name)
    PROVE  /\ First(items, name) \in DOMAIN items
           /\ items[First(items, name)].name = name
           /\ \A j \in 1..(First(items, name) - 1) : items[j].name # name
<1>. DEFINE T == {i \in DOMAIN items : items[i].name = name}
<1>1. T \subseteq Nat /\ T # {} /\ DOMAIN items = 1..Len(items) /\ Len(items) \in Nat
  BY DEF Has
<1>2. PICK i \in T : \A j \in T : <<j, i>> \notin OpToRel(<, Nat)
  <2>. HIDE DEF T
  <2>. QED
    BY <1>1, NatLessThanWellFounded, WFMin
<1>3. \A j \in T : ~(j < i)
  BY <1>1, <1>2 DEF OpToRel
<1>4. \A j \in 1..(i - 1) : items[j].name # name
  BY <1>1, <1>3
<1>5. \E k \in DOMAIN items : /\ items[k].name = name
                              /\ \A j \in 1..(k - 1) : items[j].name # name
  BY <1>4
<1>. QED
  BY <1>5 DEF First

\* The position of an item that no other of its name precedes is the first.
LEMMA FirstIs ==
    ASSUME NEW S, NEW items \in Seq(S), NEW name, NEW i \in DOMAIN items,
           items[i].name = name,
           \A j \in 1..(i - 1) : items[j].name # name
    PROVE  Has(items, name) /\ First(items, name) = i
<1>1. Has(items, name)
  BY DEF Has
<1>. DEFINE f == First(items, name)
<1>2. /\ f \in DOMAIN items
      /\ items[f].name = name
      /\ \A j \in 1..(f - 1) : items[j].name # name
  BY <1>1, FirstExists
<1>3. DOMAIN items = 1..Len(items) /\ Len(items) \in Nat
  OBVIOUS
<1>. HIDE DEF f
<1>4. ~(f < i) /\ ~(i < f)
  BY <1>2, <1>3
<1>5. f = i
  BY <1>2, <1>3, <1>4
<1>. QED
  BY <1>1, <1>5 DEF f

\* Where a list has an item in the sense of contains.
LEMMA ContainsAt ==
    ASSUME NEW S, NEW items \in Seq(S), NEW item
    PROVE  Contains(items, item) <=>
               \E i \in 1..Len(items) :
                  /\ items[i] = item
                  /\ \A j \in 1..(i - 1) : items[j].name # item.name
<1>1. ASSUME Contains(items, item)
      PROVE  \E i \in 1..Len(items) :
                /\ items[i] = item
                /\ \A j \in 1..(i - 1) : items[j].name # item.name
  BY <1>1, FirstExists DEF Contains
<1>2. ASSUME NEW i \in 1..Len(items), items[i] = item,
             \A j \in 1..(i - 1) : items[j].name # item.name
      PROVE  Contains(items, item)
  BY <1>2, FirstIs DEF Contains
<1>. QED
  BY <1>1, <1>2

\* A list has been given the item at position i, and is otherwise the same.
Put(now, items, item, i) ==
    /\ now[i] = item
    /\ \A j \in 1..Len(items) : j # i => now[j] = items[j]
    /\ \A j \in 1..(i - 1) : j \in 1..Len(items) /\ items[j].name # item.name
    /\ \/ Len(now) = Len(items) /\ items[i].name = item.name
       \/ Len(now) = Len(items) + 1 /\ i = Len(items) + 1

\* What upsert does: one position is given the item, the first of its name or a
\* new one at the end (support.go, lines 108-116).
LEMMA UpsertEffect ==
    ASSUME NEW S, NEW items \in Seq(S), NEW item \in S
    PROVE  /\ Upsert(items, item) \in Seq(S)
           /\ \E i \in 1..Len(Upsert(items, item)) : Put(Upsert(items, item), items, item, i)
<1>. DEFINE U == Upsert(items, item)
<1>1. CASE Has(items, item.name)
  <2>. DEFINE f == First(items, item.name)
  <2>1. /\ f \in 1..Len(items)
        /\ items[f].name = item.name
        /\ \A j \in 1..(f - 1) : items[j].name # item.name
    BY <1>1, FirstExists
  <2>2. U = [items EXCEPT ![f] = item]
    BY <1>1 DEF Upsert
  <2>. HIDE DEF f, U
  <2>3. U \in Seq(S) /\ Len(U) = Len(items)
    BY <2>1, <2>2
  <2>4. U[f] = item /\ \A j \in 1..Len(items) : j # f => U[j] = items[j]
    BY <2>1, <2>2
  <2>. QED
    BY <2>1, <2>3, <2>4 DEF U, Put
<1>2. CASE ~Has(items, item.name)
  <2>1. U = Append(items, item)
    BY <1>2 DEF Upsert
  <2>2. \A j \in 1..Len(items) : items[j].name # item.name
    BY <1>2 DEF Has
  <2>. HIDE DEF U
  <2>3. U \in Seq(S) /\ Len(U) = Len(items) + 1 /\ U[Len(items) + 1] = item
          /\ \A j \in 1..Len(items) : U[j] = items[j]
    BY <2>1
  <2>. QED
    BY <2>2, <2>3 DEF U, Put
<1>. QED
  BY <1>1, <1>2

\* What was put is there, in the sense of contains ...
LEMMA UpsertContains ==
    ASSUME NEW S, NEW items \in Seq(S), NEW item \in S
    PROVE  Contains(Upsert(items, item), item)
<1>. DEFINE U == Upsert(items, item)
<1>1. U \in Seq(S)
  BY UpsertEffect
<1>2. PICK i \in 1..Len(U) : Put(U, items, item, i)
  BY UpsertEffect
<1>. HIDE DEF U
<1>3. \A j \in 1..(i - 1) : U[j].name # item.name
  BY <1>1, <1>2 DEF Put
<1>4. Contains(U, item)
  BY <1>1, <1>2, <1>3, ContainsAt DEF Put
<1>. QED
  BY <1>4 DEF U

\* ... putting it again changes nothing ...
LEMMA UpsertAgain ==
    ASSUME NEW S, NEW items \in Seq(S), NEW item \in S, Contains(items, item)
    PROVE  Upsert(items, item) = items
<1>1. /\ First(items, item.name) \in DOMAIN items
      /\ items[First(items, item.name)] = item
  BY FirstExists DEF Contains
<1>2. Upsert(items, item) = [items EXCEPT ![First(items, item.name)] = item]
  BY DEF Upsert, Contains
<1>3. [items EXCEPT ![First(items, item.name)] = item] = items
  BY <1>1
<1>. QED
  BY <1>2, <1>3

\* ... and items of other names stay.
LEMMA UpsertOther ==
    ASSUME NEW S, NEW items \in Seq(S), NEW item \in S, NEW other \in S,
           Contains(items, other), other.name # item.name
    PROVE  Contains(Upsert(items, item), other)
<1>. DEFINE U == Upsert(items, item)
<1>1. U \in Seq(S)
  BY UpsertEffect
<1>2. PICK i \in 1..Len(U) : Put(U, items, item, i)
  BY UpsertEffect
<1>3. PICK k \in 1..Len(items) :
        /\ items[k] = other
        /\ \A j \in 1..(k - 1) : items[j].name # other.name
  BY ContainsAt
<1>. HIDE DEF U
<1>4. k \in 1..Len(U) /\ U[k] = other
  BY <1>1, <1>2, <1>3 DEF Put
<1>5. \A j \in 1..(k - 1) : U[j].name # other.name
  BY <1>1, <1>2, <1>3 DEF Put
<1>6. Contains(U, other)
  BY <1>1, <1>4, <1>5, ContainsAt
<1>. QED
  BY <1>6 DEF U

-----------------------------------------------------------------------------
(* What a user named stays.                                                *)

\* A list keeps its own items ...
LEMMA KeepsSame ==
    ASSUME NEW items
    PROVE  KeepsItems(items, items)
  BY DEF KeepsItems

\* ... one that keeps those of another keeps what that one kept ...
LEMMA KeepsTransitive ==
    ASSUME NEW S, NEW a \in Seq(S), NEW b \in Seq(S), NEW c \in Seq(S),
           KeepsItems(a, b), KeepsItems(b, c)
    PROVE  KeepsItems(a, c)
<1>1. Len(c) <= Len(a)
  BY DEF KeepsItems
<1>2. ASSUME NEW i \in DOMAIN a
      PROVE  IF i <= Len(c) /\ c[i].name \notin Managed
                THEN a[i] = c[i] ELSE a[i].name \in Managed
  BY <1>2 DEF KeepsItems
<1>. QED
  BY <1>1, <1>2 DEF KeepsItems

\* ... and upsert of an item with a managed name keeps all that users named.
LEMMA UpsertKeeps ==
    ASSUME NEW S, NEW items \in Seq(S), NEW item \in S, item.name \in Managed
    PROVE  KeepsItems(Upsert(items, item), items)
<1>. DEFINE U == Upsert(items, item)
<1>1. U \in Seq(S)
  BY UpsertEffect
<1>2. PICK i \in 1..Len(U) : Put(U, items, item, i)
  BY UpsertEffect
<1>. HIDE DEF U
<1>3. Len(items) <= Len(U)
  BY <1>1, <1>2 DEF Put
<1>4. ASSUME NEW j \in DOMAIN U
      PROVE  IF j <= Len(items) /\ items[j].name \notin Managed
                THEN U[j] = items[j] ELSE U[j].name \in Managed
  BY <1>1, <1>2, <1>4 DEF Put
<1>5. KeepsItems(U, items)
  BY <1>3, <1>4 DEF KeepsItems
<1>. QED
  BY <1>5 DEF U

-----------------------------------------------------------------------------
(* The loops of Default, over lists of two and of five items.              *)

\* Two turns of a loop (caVolumes, certVolumeMounts).
LEMMA UpsertTwo ==
    ASSUME NEW items, NEW new, Len(new) = 2
    PROVE  UpsertAll(items, new) = Upsert(Upsert(items, new[1]), new[2])
<1>. DEFINE U1 == Upsert(items, new[1])
            U2 == Upsert(U1, new[2])
            F(f) == [i \in 0..2 |-> IF i = 0 THEN items ELSE Upsert(f[i - 1], new[i])]
            up == CHOOSE f : f = F(f)
<1>1. UpsertAll(items, new) = up[2]
  BY DEF UpsertAll
<1>2. \E f : f = F(f)
  <2>. DEFINE g == [i \in 0..2 |-> IF i = 0 THEN items ELSE IF i = 1 THEN U1 ELSE U2]
  <2>1. g[0] = items /\ g[1] = U1 /\ g[2] = U2
    OBVIOUS
  <2>2. g = F(g)
    BY <2>1
  <2>. QED
    BY <2>2
<1>3. up = F(up)
  BY <1>2
<1>. HIDE DEF up
<1>4. up[0] = items
  BY <1>3
<1>5. up[1] = U1
  BY <1>3, <1>4
<1>6. up[2] = U2
  BY <1>3, <1>5
<1>. QED
  BY <1>1, <1>6

\* Five turns (envVarList).
LEMMA UpsertFive ==
    ASSUME NEW items, NEW new, Len(new) = 5
    PROVE  UpsertAll(items, new) =
             Upsert(Upsert(Upsert(Upsert(Upsert(items, new[1]), new[2]), new[3]),
                    new[4]), new[5])
<1>. DEFINE U1 == Upsert(items, new[1])
            U2 == Upsert(U1, new[2])
            U3 == Upsert(U2, new[3])
            U4 == Upsert(U3, new[4])
            U5 == Upsert(U4, new[5])
            F(f) == [i \in 0..5 |-> IF i = 0 THEN items ELSE Upsert(f[i - 1], new[i])]
            up == CHOOSE f : f = F(f)
<1>1. UpsertAll(items, new) = up[5]
  BY DEF UpsertAll
<1>2. \E f : f = F(f)
  <2>. DEFINE g == [i \in 0..5 |-> IF i = 0 THEN items ELSE IF i = 1 THEN U1
                      ELSE IF i = 2 THEN U2 ELSE IF i = 3 THEN U3
                      ELSE IF i = 4 THEN U4 ELSE U5]
  <2>1. g[0] = items /\ g[1] = U1 /\ g[2] = U2 /\ g[3] = U3 /\ g[4] = U4 /\ g[5] = U5
    OBVIOUS
  <2>2. \A i \in 0..5 : g[i] = IF i = 0 THEN items ELSE Upsert(g[i - 1], new[i])
    <3>. HIDE DEF g
    <3>. SUFFICES ASSUME NEW i \in 0..5
                  PROVE  g[i] = IF i = 0 THEN items ELSE Upsert(g[i - 1], new[i])
      OBVIOUS
    <3>1. i = 0 \/ i = 1 \/ i = 2 \/ i = 3 \/ i = 4 \/ i = 5
      OBVIOUS
    <3>. QED
      BY <2>1, <3>1
  <2>3. g = F(g)
    BY <2>2
  <2>. QED
    BY <2>3
<1>3. up = F(up)
  BY <1>2
<1>. HIDE DEF up
<1>4. up[0] = items
  BY <1>3
<1>5. up[1] = U1
  BY <1>3, <1>4
<1>6. up[2] = U2
  BY <1>3, <1>5
<1>7. up[3] = U3
  BY <1>3, <1>6
<1>8. up[4] = U4
  BY <1>3, <1>7
<1>9. up[5] = U5
  BY <1>3, <1>8
<1>. QED
  BY <1>1, <1>9

\* The list after the first n turns of a loop that upserts the items of `new'.
Loop(list, items, new, n, S) ==
    /\ list \in Seq(S)
    /\ \A i \in 1..n : Contains(list, new[i])
    /\ (\A i \in 1..n : Contains(items, new[i])) => list = items
    /\ (\A i \in 1..n : new[i].name \in Managed) => KeepsItems(list, items)
    /\ \A other \in S :
          Contains(items, other) /\ (\A i \in 1..n : new[i].name # other.name) =>
              Contains(list, other)
    /\ Len(items) >= 1 /\ (\A i \in 1..n : new[i].name # items[1].name) =>
          Len(list) >= 1 /\ list[1] = items[1]

\* Names that differ from one another.
Distinct(new) == \A i, j \in DOMAIN new : i # j => new[i].name # new[j].name

\* Before the first turn.
LEMMA LoopBegins ==
    ASSUME NEW S, NEW items \in Seq(S), NEW new
    PROVE  Loop(items, items, new, 0, S)
  BY KeepsSame DEF Loop

\* One more turn.
LEMMA LoopGoesOn ==
    ASSUME NEW S, NEW items \in Seq(S), NEW new \in Seq(S), Distinct(new),
           NEW n \in Nat, n + 1 \in DOMAIN new,
           NEW list, Loop(list, items, new, n, S)
    PROVE  Loop(Upsert(list, new[n + 1]), items, new, n + 1, S)
<1>. DEFINE item == new[n + 1]
            U == Upsert(list, item)
<1>0. list \in Seq(S) /\ item \in S /\ \A i \in 1..n : i \in 1..(n + 1)
  BY DEF Loop
<1>1. U \in Seq(S)
  BY <1>0, UpsertEffect
<1>2. ASSUME NEW i \in 1..(n + 1) PROVE Contains(U, new[i])
  <2>1. CASE i = n + 1
    BY <1>0, <2>1, UpsertContains
  <2>2. CASE i # n + 1
    <3>1. i \in 1..n /\ i \in DOMAIN new
      BY <2>2
    <3>2. Contains(list, new[i]) /\ new[i] \in S
      BY <3>1 DEF Loop
    <3>3. new[i].name # item.name
      BY <2>2, <3>1 DEF Distinct
    <3>. QED
      BY <1>0, <3>2, <3>3, UpsertOther
  <2>. QED
    BY <2>1, <2>2
<1>3. ASSUME \A i \in 1..(n + 1) : Contains(items, new[i]) PROVE U = items
  <2>1. list = items
    BY <1>0, <1>3 DEF Loop
  <2>2. Contains(list, item)
    BY <1>3, <2>1
  <2>. QED
    BY <1>0, <2>1, <2>2, UpsertAgain
<1>4. ASSUME \A i \in 1..(n + 1) : new[i].name \in Managed PROVE KeepsItems(U, items)
  <2>1. KeepsItems(list, items)
    BY <1>0, <1>4 DEF Loop
  <2>2. item.name \in Managed
    BY <1>4
  <2>3. KeepsItems(U, list)
    BY <1>0, <2>2, UpsertKeeps
  <2>. QED
    BY <1>0, <1>1, <2>1, <2>3, KeepsTransitive
<1>5. ASSUME NEW other \in S, Contains(items, other),
             \A i \in 1..(n + 1) : new[i].name # other.name
      PROVE  Contains(U, other)
  <2>1. Contains(list, other)
    BY <1>0, <1>5 DEF Loop
  <2>2. item.name # other.name
    BY <1>5
  <2>. QED
    BY <1>0, <2>1, <2>2, UpsertOther
<1>6. ASSUME Len(items) >= 1, \A i \in 1..(n + 1) : new[i].name # items[1].name
      PROVE  Len(U) >= 1 /\ U[1] = items[1]
  <2>1. Len(list) >= 1 /\ list[1] = items[1]
    BY <1>0, <1>6 DEF Loop
  <2>2. item.name # list[1].name
    BY <1>6, <2>1
  <2>3. PICK k \in 1..Len(U) : Put(U, list, item, k)
    BY <1>0, UpsertEffect
  <2>. HIDE DEF U, item
  <2>. QED
    BY <1>0, <1>1, <2>1, <2>2, <2>3 DEF Put
<1>. HIDE DEF U
<1>7. Loop(U, items, new, n + 1, S)
  BY <1>1, <1>2, <1>3, <1>4, <1>5, <1>6 DEF Loop
<1>. QED
  BY <1>7 DEF U

\* The whole loop.
LEMMA LoopEnds ==
    ASSUME NEW S, NEW items \in Seq(S), NEW new \in Seq(S), Distinct(new),
           Len(new) \in {2, 5}
    PROVE  Loop(UpsertAll(items, new), items, new, Len(new), S)
<1>. DEFINE U1 == Upsert(items, new[1])
            U2 == Upsert(U1, new[2])
            U3 == Upsert(U2, new[3])
            U4 == Upsert(U3, new[4])
            U5 == Upsert(U4, new[5])
<1>. HIDE DEF U1, U2, U3, U4, U5
<1>1. Loop(items, items, new, 0, S)
  BY LoopBegins
<1>2. Loop(U1, items, new, 1, S)
  <2>1. 0 \in Nat /\ 0 + 1 \in DOMAIN new /\ 0 + 1 = 1
    OBVIOUS
  <2>. QED
    BY <1>1, <2>1, LoopGoesOn DEF U1
<1>3. Loop(U2, items, new, 2, S)
  <2>1. 1 \in Nat /\ 1 + 1 \in DOMAIN new /\ 1 + 1 = 2
    OBVIOUS
  <2>. QED
    BY <1>2, <2>1, LoopGoesOn DEF U2
<1>4. CASE Len(new) = 2
  BY <1>3, <1>4, UpsertTwo DEF U1, U2
<1>5. CASE Len(new) = 5
  <2>1. Loop(U3, items, new, 3, S)
    <3>1. 2 \in Nat /\ 2 + 1 \in DOMAIN new /\ 2 + 1 = 3
      BY <1>5
    <3>. QED
      BY <1>3, <3>1, LoopGoesOn DEF U3
  <2>2. Loop(U4, items, new, 4, S)
    <3>1. 3 \in Nat /\ 3 + 1 \in DOMAIN new /\ 3 + 1 = 4
      BY <1>5
    <3>. QED
      BY <2>1, <3>1, LoopGoesOn DEF U4
  <2>3. Loop(U5, items, new, 5, S)
    <3>1. 4 \in Nat /\ 4 + 1 \in DOMAIN new /\ 4 + 1 = 5
      BY <1>5
    <3>. QED
      BY <2>2, <3>1, LoopGoesOn DEF U5
  <2>. QED
    BY <1>5, <2>3, UpsertFive DEF U1, U2, U3, U4, U5
<1>. QED
  BY <1>4, <1>5

-----------------------------------------------------------------------------
(* What Default injects (raycluster_webhook.go, lines 243-387).            *)

\* An item of a managed name is one.
LEMMA MadeItem ==
    ASSUME NEW n \in Managed, NEW by \in {"user", "set", "head", "worker"}, NEW r \in Nat
    PROVE  Item(n, by, r) \in Items /\ Item(n, by, r).name = n
  BY DEF Item, Items, Names

\* So is one with a fixed value.
LEMMA SetItem ==
    ASSUME NEW n \in Managed
    PROVE  Set(n) \in Items /\ Set(n).name = n
  BY MadeItem DEF Set

\* The items of the loops have managed names, all different.
LEMMA InjectedItems ==
    /\ envVarList \in Seq(Items) /\ Len(envVarList) = 5 /\ Distinct(envVarList)
    /\ \A i \in 1..5 : envVarList[i].name \in Managed \ {"COOKIE_SECRET"}
    /\ caVolumes \in Seq(Items) /\ Len(caVolumes) = 2 /\ Distinct(caVolumes)
    /\ \A i \in 1..2 : caVolumes[i].name \in Managed \ {"proxy-tls-secret"}
    /\ certVolumeMounts = caVolumes
    /\ oauthProxyTLSSecretVolume \in Items
    /\ oauthProxyTLSSecretVolume.name = "proxy-tls-secret"
    /\ "proxy-tls-secret" \in Managed
<1>1. {"MY_POD_IP", "RAY_USE_TLS", "RAY_TLS_SERVER_CERT", "RAY_TLS_SERVER_KEY",
       "RAY_TLS_CA_CERT", "ca-vol", "server-cert", "proxy-tls-secret"} \subseteq Managed
  BY DEF Managed
<1>2. /\ envVarList \in Seq(Items) /\ Len(envVarList) = 5
      /\ envVarList[1].name = "MY_POD_IP"
      /\ envVarList[2].name = "RAY_USE_TLS"
      /\ envVarList[3].name = "RAY_TLS_SERVER_CERT"
      /\ envVarList[4].name = "RAY_TLS_SERVER_KEY"
      /\ envVarList[5].name = "RAY_TLS_CA_CERT"
  BY <1>1, SetItem DEF envVarList
<1>3. /\ caVolumes \in Seq(Items) /\ Len(caVolumes) = 2
      /\ caVolumes[1].name = "ca-vol"
      /\ caVolumes[2].name = "server-cert"
  BY <1>1, SetItem DEF caVolumes
<1>4. \A i \in 1..5 : i = 1 \/ i = 2 \/ i = 3 \/ i = 4 \/ i = 5
  OBVIOUS
<1>5. \A i \in 1..5 : envVarList[i].name \in Managed \ {"COOKIE_SECRET"}
  BY <1>1, <1>2, <1>4
<1>6. Distinct(envVarList)
  <2>1. DOMAIN envVarList = 1..5
    BY <1>2
  <2>. SUFFICES ASSUME NEW i \in 1..5, NEW j \in 1..5, i # j
                PROVE  envVarList[i].name # envVarList[j].name
    BY <2>1 DEF Distinct
  <2>. QED
    BY <1>2, <1>4
<1>7. \A i \in 1..2 : i = 1 \/ i = 2
  OBVIOUS
<1>8. Distinct(caVolumes)
      /\ \A i \in 1..2 : caVolumes[i].name \in Managed \ {"proxy-tls-secret"}
  <2>1. DOMAIN caVolumes = 1..2
    BY <1>3
  <2>. QED
    BY <1>1, <1>3, <1>7, <2>1 DEF Distinct
<1>9. certVolumeMounts = caVolumes
  BY DEF certVolumeMounts, caVolumes
<1>. QED
  BY <1>1, <1>2, <1>3, <1>5, <1>6, <1>8, <1>9, SetItem DEF oauthProxyTLSSecretVolume

\* So do the sidecar, what is in it, and the init containers.
LEMMA InjectedContainers ==
    ASSUME release \in Nat
    PROVE  /\ oauthProxyContainer \in Containers
           /\ oauthProxyContainer.name = "oauth-proxy"
           /\ oauthProxyContainer.env = <<Set("COOKIE_SECRET")>>
           /\ oauthProxyContainer.mounts = <<oauthProxyTLSSecretVolume>>
           /\ Set("COOKIE_SECRET") \in Items
           /\ Set("COOKIE_SECRET").name = "COOKIE_SECRET"
           /\ rayHeadInitContainer \in Items
           /\ rayHeadInitContainer.name = "create-cert"
           /\ rayWorkerInitContainer \in Items
           /\ rayWorkerInitContainer.name = "create-cert"
           /\ {"oauth-proxy", "create-cert"} \subseteq Managed
<1>1. {"oauth-proxy", "COOKIE_SECRET", "proxy-tls-secret", "create-cert"} \subseteq Managed
  BY DEF Managed
<1>2. /\ rayHeadInitContainer \in Items /\ rayHeadInitContainer.name = "create-cert"
      /\ rayWorkerInitContainer \in Items /\ rayWorkerInitContainer.name = "create-cert"
  BY <1>1, MadeItem DEF rayHeadInitContainer, rayWorkerInitContainer
<1>3. Set("COOKIE_SECRET") \in Items /\ Set("COOKIE_SECRET").name = "COOKIE_SECRET"
  BY <1>1, SetItem
<1>4. Set("proxy-tls-secret") \in Items
  BY <1>1, SetItem
<1>5. <<Set("COOKIE_SECRET")>> \in Seq(Items) /\ <<Set("proxy-tls-secret")>> \in Seq(Items)
  BY <1>3, <1>4
<1>6. /\ oauthProxyContainer \in Containers
      /\ oauthProxyContainer.name = "oauth-proxy"
      /\ oauthProxyContainer.env = <<Set("COOKIE_SECRET")>>
      /\ oauthProxyContainer.mounts = <<oauthProxyTLSSecretVolume>>
  BY <1>1, <1>5 DEF oauthProxyContainer, oauthProxyTLSSecretVolume, Containers, Names
<1>. QED
  BY <1>1, <1>2, <1>3, <1>6

\* What WithCertificates does to a container.
LEMMA Certified ==
    ASSUME NEW c \in Containers
    PROVE  /\ WithCertificates(c) \in Containers
           /\ WithCertificates(c).name = c.name
           /\ WithCertificates(c).body = c.body
           /\ WithCertificates(c).env = UpsertAll(c.env, envVarList)
           /\ WithCertificates(c).mounts = UpsertAll(c.mounts, certVolumeMounts)
           /\ Loop(WithCertificates(c).env, c.env, envVarList, 5, Items)
           /\ Loop(WithCertificates(c).mounts, c.mounts, certVolumeMounts, 2, Items)
<1>1. c.env \in Seq(Items) /\ c.mounts \in Seq(Items)
  BY DEF Containers
<1>2. /\ Loop(UpsertAll(c.env, envVarList), c.env, envVarList, 5, Items)
      /\ Loop(UpsertAll(c.mounts, certVolumeMounts), c.mounts, certVolumeMounts, 2, Items)
  BY <1>1, InjectedItems, LoopEnds
<1>3. UpsertAll(c.env, envVarList) \in Seq(Items)
        /\ UpsertAll(c.mounts, certVolumeMounts) \in Seq(Items)
  BY <1>2 DEF Loop
<1>4. /\ WithCertificates(c) \in Containers
      /\ WithCertificates(c).name = c.name
      /\ WithCertificates(c).body = c.body
      /\ WithCertificates(c).env = UpsertAll(c.env, envVarList)
      /\ WithCertificates(c).mounts = UpsertAll(c.mounts, certVolumeMounts)
  BY <1>3 DEF WithCertificates, Containers
<1>. QED
  BY <1>2, <1>4

\* Containers are determined by their parts, and so are Pod templates.
LEMMA ContainerParts ==
    ASSUME NEW c \in Containers, NEW d \in Containers,
           c.name = d.name, c.body = d.body, c.env = d.env, c.mounts = d.mounts
    PROVE  c = d
<1>1. ASSUME NEW x \in Containers
      PROVE  x = [name |-> x.name, body |-> x.body, env |-> x.env, mounts |-> x.mounts]
  BY <1>1 DEF Containers
<1>. QED
  BY <1>1

\* A Pod template is what its fields are.
LEMMA PodParts ==
    ASSUME NEW p \in PodSpecs, NEW q \in PodSpecs, p.containers = q.containers,
           p.init = q.init, p.volumes = q.volumes, p.sa = q.sa
    PROVE  p = q
<1>1. ASSUME NEW x \in PodSpecs
      PROVE  x = [containers |-> x.containers, init |-> x.init, volumes |-> x.volumes,
                  sa |-> x.sa]
  BY <1>1 DEF PodSpecs
<1>. QED
  BY <1>1

\* A container that has the mTLS configuration is given nothing more.
LEMMA CertifiedAgain ==
    ASSUME NEW c \in Containers
    PROVE  WithCertificates(WithCertificates(c)) = WithCertificates(c)
<1>. DEFINE d == WithCertificates(c)
<1>1. d \in Containers
        /\ Loop(d.env, c.env, envVarList, 5, Items)
        /\ Loop(d.mounts, c.mounts, certVolumeMounts, 2, Items)
  BY Certified
<1>. HIDE DEF d
<1>2. /\ WithCertificates(d) \in Containers
      /\ WithCertificates(d).name = d.name
      /\ WithCertificates(d).body = d.body
      /\ Loop(WithCertificates(d).env, d.env, envVarList, 5, Items)
      /\ Loop(WithCertificates(d).mounts, d.mounts, certVolumeMounts, 2, Items)
  BY <1>1, Certified
<1>3. WithCertificates(d).env = d.env /\ WithCertificates(d).mounts = d.mounts
  BY <1>1, <1>2 DEF Loop
<1>4. WithCertificates(d) = d
  BY <1>1, <1>2, <1>3, ContainerParts
<1>. QED
  BY <1>4 DEF d

-----------------------------------------------------------------------------
(* The containers of a Pod template.                                       *)

\* Of containers: a list keeps its own ...
LEMMA KeepsContainersSame ==
    ASSUME NEW list
    PROVE  KeepsContainers(list, list)
  BY KeepsSame DEF KeepsContainers

\* ... what is kept twice is kept ...
LEMMA KeepsContainersTransitive ==
    ASSUME NEW a \in Seq(Containers), NEW b \in Seq(Containers), NEW c \in Seq(Containers),
           KeepsContainers(a, b), KeepsContainers(b, c)
    PROVE  KeepsContainers(a, c)
<1>1. Len(c) <= Len(a)
  BY DEF KeepsContainers
<1>2. ASSUME NEW i \in DOMAIN a, i <= Len(c), c[i].name \notin Managed
      PROVE  /\ a[i].name = c[i].name
             /\ a[i].body = c[i].body
             /\ KeepsItems(a[i].env, c[i].env)
             /\ KeepsItems(a[i].mounts, c[i].mounts)
  <2>1. i \in DOMAIN b /\ i \in DOMAIN c
    BY <1>2 DEF KeepsContainers
  <2>2. /\ b[i].name = c[i].name
        /\ b[i].body = c[i].body
        /\ KeepsItems(b[i].env, c[i].env)
        /\ KeepsItems(b[i].mounts, c[i].mounts)
    BY <1>2, <2>1 DEF KeepsContainers
  <2>3. /\ a[i].name = b[i].name
        /\ a[i].body = b[i].body
        /\ KeepsItems(a[i].env, b[i].env)
        /\ KeepsItems(a[i].mounts, b[i].mounts)
    BY <1>2, <2>1, <2>2 DEF KeepsContainers
  <2>4. a[i] \in Containers /\ b[i] \in Containers /\ c[i] \in Containers
    BY <1>2, <2>1
  <2>5. /\ a[i].env \in Seq(Items) /\ b[i].env \in Seq(Items) /\ c[i].env \in Seq(Items)
        /\ a[i].mounts \in Seq(Items) /\ b[i].mounts \in Seq(Items)
        /\ c[i].mounts \in Seq(Items)
    BY <2>4 DEF Containers
  <2>6. KeepsItems(a[i].env, c[i].env) /\ KeepsItems(a[i].mounts, c[i].mounts)
    BY <2>2, <2>3, <2>5, KeepsTransitive
  <2>. QED
    BY <2>2, <2>3, <2>6
<1>3. ASSUME NEW i \in DOMAIN a, ~(i <= Len(c) /\ c[i].name \notin Managed)
      PROVE  a[i].name \in Managed
  <2>1. CASE i <= Len(b)
    <3>1. i \in DOMAIN b
      BY <1>3, <2>1
    <3>2. b[i].name \in Managed
      BY <1>3, <3>1 DEF KeepsContainers
    <3>. QED
      BY <1>3, <3>2 DEF KeepsContainers
  <2>2. CASE ~(i <= Len(b))
    BY <1>3, <2>2 DEF KeepsContainers
  <2>. QED
    BY <2>1, <2>2
<1>. QED
  BY <1>1, <1>2, <1>3 DEF KeepsContainers

\* ... the sidecar takes the place of none that a user named ...
LEMMA UpsertKeepsContainers ==
    ASSUME NEW list \in Seq(Containers), NEW c \in Containers, c.name \in Managed
    PROVE  KeepsContainers(Upsert(list, c), list)
<1>1. KeepsItems(Upsert(list, c), list)
  BY UpsertKeeps
<1>. QED
  BY <1>1, KeepsSame DEF KeepsItems, KeepsContainers

\* The containers of a group after WithMTLS.
LEMMA FirstCertifiedParts ==
    ASSUME NEW list \in Seq(Containers), list # << >>
    PROVE  /\ list[1] \in Containers
           /\ 1 \in 1..Len(list)
           /\ FirstCertified(list) \in Seq(Containers)
           /\ Len(FirstCertified(list)) = Len(list)
           /\ FirstCertified(list)[1] = WithCertificates(list[1])
           /\ \A i \in 1..Len(list) : i # 1 => FirstCertified(list)[i] = list[i]
           /\ \A i \in 1..Len(list) : FirstCertified(list)[i].name = list[i].name
<1>1. Len(list) \in Nat /\ 1 \in 1..Len(list) /\ list[1] \in Containers
  OBVIOUS
<1>2. WithCertificates(list[1]) \in Containers
        /\ WithCertificates(list[1]).name = list[1].name
  BY <1>1, Certified
<1>. QED
  BY <1>1, <1>2 DEF FirstCertified

\* ... and the certificates leave what a user gave the first container.
LEMMA FirstCertifiedKeeps ==
    ASSUME NEW list \in Seq(Containers), list # << >>
    PROVE  KeepsContainers(FirstCertified(list), list)
<1>. DEFINE new == FirstCertified(list)
<1>1. /\ list[1] \in Containers
      /\ Len(new) = Len(list) /\ new \in Seq(Containers)
      /\ new[1] = WithCertificates(list[1])
      /\ \A i \in 1..Len(list) : i # 1 => new[i] = list[i]
  BY FirstCertifiedParts
<1>. HIDE DEF new
<1>2. /\ new[1].name = list[1].name
      /\ new[1].body = list[1].body
      /\ Loop(new[1].env, list[1].env, envVarList, 5, Items)
      /\ Loop(new[1].mounts, list[1].mounts, certVolumeMounts, 2, Items)
  BY <1>1, Certified
<1>3. KeepsItems(new[1].env, list[1].env) /\ KeepsItems(new[1].mounts, list[1].mounts)
  BY <1>2, InjectedItems DEF Loop
<1>4. ASSUME NEW i \in DOMAIN new
      PROVE  /\ new[i].name = list[i].name
             /\ new[i].body = list[i].body
             /\ KeepsItems(new[i].env, list[i].env)
             /\ KeepsItems(new[i].mounts, list[i].mounts)
  BY <1>1, <1>2, <1>3, <1>4, KeepsSame
<1>5. KeepsContainers(new, list)
  BY <1>1, <1>4 DEF KeepsContainers
<1>. QED
  BY <1>5 DEF new

\* A container with the certificates is left alone.
LEMMA FirstCertifiedAgain ==
    ASSUME NEW list \in Seq(Containers), list # << >>
    PROVE  FirstCertified(FirstCertified(list)) = FirstCertified(list)
<1>. DEFINE new == FirstCertified(list)
<1>1. /\ list[1] \in Containers
      /\ Len(new) = Len(list) /\ 1 \in 1..Len(list) /\ new \in Seq(Containers)
      /\ new[1] = WithCertificates(list[1])
  BY FirstCertifiedParts
<1>2. WithCertificates(new[1]) = new[1]
  BY <1>1, CertifiedAgain
<1>. HIDE DEF new
<1>3. [new EXCEPT ![1] = WithCertificates(new[1])] = new
  BY <1>1, <1>2
<1>. QED
  BY <1>3 DEF new, FirstCertified

\* A list of one item begins every list that has the item in front.
LEMMA BeginsOne ==
    ASSUME NEW S, NEW list \in Seq(S), NEW x \in S, Len(list) >= 1, list[1] = x
    PROVE  Begins(list, <<x>>)
<1>1. SubSeq(list, 1, 1) = <<x>>
  <2>. DEFINE sub == SubSeq(list, 1, 1)
  <2>1. sub \in Seq(S) /\ Len(sub) = 1 /\ \A i \in 1..1 : sub[i] = list[1 + i - 1]
    BY SubSeqProperties
  <2>. HIDE DEF sub
  <2>2. sub[1] = x
    BY <2>1
  <2>3. sub = <<x>>
    BY <2>1, <2>2
  <2>. QED
    BY <2>3 DEF sub
<1>2. Len(<<x>>) = 1
  OBVIOUS
<1>. QED
  BY <1>1, <1>2 DEF Begins

\* The sidecar keeps its place and what was injected into it, even where it is
\* the first container and is given the mTLS configuration; and putting it again
\* leads back to the same containers (raycluster_webhook.go, lines 83-112).
LEMMA SidecarStays ==
    ASSUME release \in Nat, NEW list \in Seq(Containers), list # << >>,
           Contains(list, oauthProxyContainer)
    PROVE  /\ ContainsContainer(FirstCertified(list), oauthProxyContainer)
           /\ FirstCertified(Upsert(FirstCertified(list), oauthProxyContainer)) =
                FirstCertified(list)
           /\ Upsert(FirstCertified(list), oauthProxyContainer) # << >>
<1>. DEFINE proxy == oauthProxyContainer
            new == FirstCertified(list)
<1>0. /\ proxy \in Containers
      /\ proxy.env = <<Set("COOKIE_SECRET")>> /\ proxy.mounts = <<oauthProxyTLSSecretVolume>>
      /\ proxy.env \in Seq(Items) /\ proxy.mounts \in Seq(Items)
      /\ Set("COOKIE_SECRET") \in Items /\ Set("COOKIE_SECRET").name = "COOKIE_SECRET"
      /\ oauthProxyTLSSecretVolume \in Items
      /\ oauthProxyTLSSecretVolume.name = "proxy-tls-secret"
  BY InjectedContainers, InjectedItems DEF Containers
<1>1. /\ list[1] \in Containers /\ 1 \in 1..Len(list)
      /\ new \in Seq(Containers) /\ Len(new) = Len(list)
      /\ new[1] = WithCertificates(list[1])
      /\ \A i \in 1..Len(list) : i # 1 => new[i] = list[i]
      /\ \A i \in 1..Len(list) : new[i].name = list[i].name
  BY FirstCertifiedParts
<1>2. PICK f \in 1..Len(list) :
        /\ list[f] = proxy
        /\ \A j \in 1..(f - 1) : list[j].name # proxy.name
  BY ContainsAt
<1>. HIDE DEF proxy, new
<1>3. Has(new, proxy.name) /\ First(new, proxy.name) = f
  <2>1. f \in DOMAIN new /\ new[f].name = proxy.name
          /\ \A j \in 1..(f - 1) : new[j].name # proxy.name
    BY <1>1, <1>2
  <2>. QED
    BY <1>1, <2>1, FirstIs
<1>4. Upsert(new, proxy) = [new EXCEPT ![f] = proxy]
  BY <1>3 DEF Upsert
<1>5. Upsert(new, proxy) # << >>
  BY <1>1, <1>2, <1>4
<1>6. CASE f = 1
  <2>1. new[f] = WithCertificates(proxy)
    BY <1>1, <1>2, <1>6
  <2>2. /\ new[f].body = proxy.body
        /\ Loop(new[f].env, proxy.env, envVarList, 5, Items)
        /\ Loop(new[f].mounts, proxy.mounts, certVolumeMounts, 2, Items)
    BY <1>0, <2>1, Certified
  <2>3. Len(proxy.env) >= 1 /\ proxy.env[1] = Set("COOKIE_SECRET")
          /\ Len(proxy.mounts) >= 1 /\ proxy.mounts[1] = oauthProxyTLSSecretVolume
    BY <1>0
  <2>4. /\ \A i \in 1..5 : envVarList[i].name # proxy.env[1].name
        /\ \A i \in 1..2 : certVolumeMounts[i].name # proxy.mounts[1].name
    BY <1>0, <2>3, InjectedItems
  <2>5. /\ new[f].env \in Seq(Items) /\ Len(new[f].env) >= 1
        /\ new[f].env[1] = Set("COOKIE_SECRET")
        /\ new[f].mounts \in Seq(Items) /\ Len(new[f].mounts) >= 1
        /\ new[f].mounts[1] = oauthProxyTLSSecretVolume
    BY <2>2, <2>3, <2>4 DEF Loop
  <2>6. Begins(new[f].env, proxy.env) /\ Begins(new[f].mounts, proxy.mounts)
    BY <1>0, <2>5, BeginsOne
  <2>7. ContainsContainer(new, proxy)
    BY <1>3, <2>2, <2>6 DEF ContainsContainer
  <2>8. [new EXCEPT ![f] = proxy] = list
    BY <1>1, <1>2, <1>6
  <2>. QED
    BY <1>4, <1>5, <2>7, <2>8 DEF new, proxy
<1>7. CASE f # 1
  <2>1. new[f] = proxy
    BY <1>1, <1>2, <1>7
  <2>2. Begins(proxy.env, proxy.env) /\ Begins(proxy.mounts, proxy.mounts)
    <3>1. Len(proxy.env) >= 1 /\ proxy.env[1] = Set("COOKIE_SECRET")
            /\ Len(proxy.mounts) >= 1 /\ proxy.mounts[1] = oauthProxyTLSSecretVolume
      BY <1>0
    <3>. QED
      BY <1>0, <3>1, BeginsOne
  <2>3. ContainsContainer(new, proxy)
    BY <1>3, <2>1, <2>2 DEF ContainsContainer
  <2>4. [new EXCEPT ![f] = proxy] = new
    BY <1>1, <2>1
  <2>5. FirstCertified(new) = new
    BY FirstCertifiedAgain DEF new
  <2>. QED
    BY <1>4, <1>5, <2>3, <2>4, <2>5 DEF new, proxy
<1>. QED
  BY <1>6, <1>7

-----------------------------------------------------------------------------
(* Pod templates.                                                          *)

\* Field by field, a Pod template with the sidecar (lines 83-92).
LEMMA OAuthParts ==
    ASSUME release \in Nat, NEW spec \in PodSpecs
    PROVE  /\ WithOAuth(spec) \in PodSpecs
           /\ WithOAuth(spec).containers = Upsert(spec.containers, oauthProxyContainer)
           /\ WithOAuth(spec).volumes = Upsert(spec.volumes, oauthProxyTLSSecretVolume)
           /\ WithOAuth(spec).init = spec.init
           /\ WithOAuth(spec).sa = "oauth"
           /\ WithOAuth(spec).containers # << >>
<1>1. spec.containers \in Seq(Containers) /\ spec.volumes \in Seq(Items)
  BY DEF PodSpecs
<1>. DEFINE cs == Upsert(spec.containers, oauthProxyContainer)
            vs == Upsert(spec.volumes, oauthProxyTLSSecretVolume)
<1>2. /\ cs \in Seq(Containers)
      /\ \E i \in 1..Len(cs) : Put(cs, spec.containers, oauthProxyContainer, i)
      /\ vs \in Seq(Items)
  BY <1>1, InjectedContainers, InjectedItems, UpsertEffect
<1>. HIDE DEF cs, vs
<1>3. cs # << >>
  BY <1>2
<1>4. WithOAuth(spec) = [spec EXCEPT !.containers = cs, !.volumes = vs, !.sa = "oauth"]
  BY DEF WithOAuth, cs, vs
<1>. QED
  BY <1>2, <1>3, <1>4 DEF PodSpecs, cs, vs

\* Field by field, one with the mTLS configuration (lines 94-136).
LEMMA MTLSParts ==
    ASSUME NEW spec \in PodSpecs, spec.containers # << >>, NEW init \in Items
    PROVE  /\ WithMTLS(spec, init) \in PodSpecs
           /\ WithMTLS(spec, init).containers = FirstCertified(spec.containers)
           /\ WithMTLS(spec, init).volumes = UpsertAll(spec.volumes, caVolumes)
           /\ Loop(WithMTLS(spec, init).volumes, spec.volumes, caVolumes, 2, Items)
           /\ WithMTLS(spec, init).init = Upsert(spec.init, init)
           /\ WithMTLS(spec, init).sa = spec.sa
<1>1. spec.containers \in Seq(Containers) /\ spec.volumes \in Seq(Items)
        /\ spec.init \in Seq(Items)
  BY DEF PodSpecs
<1>. DEFINE cs == FirstCertified(spec.containers)
            vs == UpsertAll(spec.volumes, caVolumes)
            is == Upsert(spec.init, init)
<1>2. cs \in Seq(Containers)
  BY <1>1, FirstCertifiedParts
<1>3. Loop(vs, spec.volumes, caVolumes, 2, Items)
  BY <1>1, InjectedItems, LoopEnds
<1>4. vs \in Seq(Items) /\ is \in Seq(Items)
  BY <1>1, <1>3, UpsertEffect DEF Loop
<1>5. WithMTLS(spec, init) =
        [spec EXCEPT !.containers = cs, !.init = is, !.volumes = vs]
  BY DEF WithMTLS
<1>. HIDE DEF cs, vs, is
<1>. QED
  BY <1>2, <1>3, <1>4, <1>5 DEF PodSpecs, cs, vs, is

\* A Pod template keeps its own items ...
LEMMA KeepsOwnSame ==
    ASSUME NEW spec
    PROVE  KeepsOwn(spec, spec)
  BY KeepsSame, KeepsContainersSame DEF KeepsOwn

\* ... and what is kept twice is kept.
LEMMA KeepsOwnTransitive ==
    ASSUME NEW a \in PodSpecs, NEW b \in PodSpecs, NEW c \in PodSpecs,
           KeepsOwn(a, b), KeepsOwn(b, c)
    PROVE  KeepsOwn(a, c)
<1>1. ASSUME NEW x \in PodSpecs
      PROVE  /\ x.containers \in Seq(Containers)
             /\ x.init \in Seq(Items)
             /\ x.volumes \in Seq(Items)
  BY <1>1 DEF PodSpecs
<1>2. KeepsContainers(a.containers, c.containers)
  BY <1>1, KeepsContainersTransitive DEF KeepsOwn
<1>3. KeepsItems(a.init, c.init)
  BY <1>1, KeepsTransitive DEF KeepsOwn
<1>4. KeepsItems(a.volumes, c.volumes)
  BY <1>1, KeepsTransitive DEF KeepsOwn
<1>. QED
  BY <1>2, <1>3, <1>4 DEF KeepsOwn

\* The sidecar alone.
LEMMA OAuthPod ==
    ASSUME release \in Nat, NEW spec \in PodSpecs
    PROVE  /\ KeepsOwn(WithOAuth(spec), spec)
           /\ Contains(WithOAuth(spec).containers, oauthProxyContainer)
           /\ ContainsContainer(WithOAuth(spec).containers, oauthProxyContainer)
           /\ Contains(WithOAuth(spec).volumes, oauthProxyTLSSecretVolume)
           /\ WithOAuth(WithOAuth(spec)) = WithOAuth(spec)
<1>. DEFINE p == WithOAuth(spec)
<1>0. spec.containers \in Seq(Containers) /\ spec.volumes \in Seq(Items)
  BY DEF PodSpecs
<1>1. /\ oauthProxyContainer \in Containers /\ oauthProxyContainer.name \in Managed
      /\ oauthProxyTLSSecretVolume \in Items /\ oauthProxyTLSSecretVolume.name \in Managed
  BY InjectedContainers, InjectedItems
<1>2. /\ p \in PodSpecs
      /\ p.containers = Upsert(spec.containers, oauthProxyContainer)
      /\ p.volumes = Upsert(spec.volumes, oauthProxyTLSSecretVolume)
      /\ p.init = spec.init
      /\ p.sa = "oauth"
  BY OAuthParts
<1>. HIDE DEF p
<1>3. p.containers \in Seq(Containers) /\ p.volumes \in Seq(Items)
  BY <1>2 DEF PodSpecs
<1>4. Contains(p.containers, oauthProxyContainer)
        /\ Contains(p.volumes, oauthProxyTLSSecretVolume)
  BY <1>0, <1>1, <1>2, UpsertContains
<1>5. ContainsContainer(p.containers, oauthProxyContainer)
  <2>1. /\ Begins(oauthProxyContainer.env, oauthProxyContainer.env)
        /\ Begins(oauthProxyContainer.mounts, oauthProxyContainer.mounts)
    <3>. DEFINE e == oauthProxyContainer.env
                m == oauthProxyContainer.mounts
    <3>1. e = <<Set("COOKIE_SECRET")>> /\ Set("COOKIE_SECRET") \in Items
            /\ m = <<oauthProxyTLSSecretVolume>> /\ oauthProxyTLSSecretVolume \in Items
      BY <1>1, InjectedContainers
    <3>. HIDE DEF e, m
    <3>2. e \in Seq(Items) /\ Len(e) >= 1 /\ e[1] = Set("COOKIE_SECRET")
            /\ m \in Seq(Items) /\ Len(m) >= 1 /\ m[1] = oauthProxyTLSSecretVolume
      BY <3>1
    <3>3. Begins(e, e) /\ Begins(m, m)
      BY <3>1, <3>2, BeginsOne
    <3>. QED
      BY <3>3 DEF e, m
  <2>. QED
    BY <1>4, <2>1 DEF Contains, ContainsContainer
<1>6. KeepsOwn(p, spec)
  <2>1. KeepsContainers(p.containers, spec.containers)
    BY <1>0, <1>1, <1>2, UpsertKeepsContainers
  <2>2. KeepsItems(p.volumes, spec.volumes)
    BY <1>0, <1>1, <1>2, UpsertKeeps
  <2>. QED
    BY <1>2, <2>1, <2>2, KeepsSame DEF KeepsOwn
<1>7. WithOAuth(p) = p
  <2>1. /\ WithOAuth(p) \in PodSpecs
        /\ WithOAuth(p).containers = Upsert(p.containers, oauthProxyContainer)
        /\ WithOAuth(p).volumes = Upsert(p.volumes, oauthProxyTLSSecretVolume)
        /\ WithOAuth(p).init = p.init
        /\ WithOAuth(p).sa = "oauth"
    BY <1>2, OAuthParts
  <2>2. WithOAuth(p).containers = p.containers /\ WithOAuth(p).volumes = p.volumes
    BY <1>1, <1>3, <1>4, <2>1, UpsertAgain
  <2>. QED
    BY <1>2, <2>1, <2>2, PodParts
<1>. QED
  BY <1>4, <1>5, <1>6, <1>7 DEF p

\* The mTLS configuration alone, in the head group or in a worker group.
LEMMA MTLSPod ==
    ASSUME NEW spec \in PodSpecs, spec.containers # << >>,
           NEW init \in Items, init.name \in Managed
    PROVE  /\ KeepsOwn(WithMTLS(spec, init), spec)
           /\ Contains(WithMTLS(spec, init).init, init)
           /\ ContainsAll(WithMTLS(spec, init).containers[1].env, envVarList)
           /\ ContainsAll(WithMTLS(spec, init).volumes, caVolumes)
           /\ WithMTLS(spec, init).containers # << >>
           /\ WithMTLS(WithMTLS(spec, init), init) = WithMTLS(spec, init)
<1>. DEFINE q == WithMTLS(spec, init)
<1>0. spec.containers \in Seq(Containers) /\ spec.init \in Seq(Items)
  BY DEF PodSpecs
<1>1. /\ q \in PodSpecs
      /\ q.containers = FirstCertified(spec.containers)
      /\ Loop(q.volumes, spec.volumes, caVolumes, 2, Items)
      /\ q.init = Upsert(spec.init, init)
      /\ q.sa = spec.sa
  BY MTLSParts
<1>. HIDE DEF q
<1>2. /\ spec.containers[1] \in Containers
      /\ 1 \in 1..Len(spec.containers)
      /\ q.containers \in Seq(Containers)
      /\ Len(q.containers) = Len(spec.containers)
      /\ q.containers[1] = WithCertificates(spec.containers[1])
  BY <1>0, <1>1, FirstCertifiedParts
<1>3. q.containers # << >>
  BY <1>2
<1>4. ContainsAll(q.containers[1].env, envVarList)
  <2>1. Loop(q.containers[1].env, spec.containers[1].env, envVarList, 5, Items)
    BY <1>2, Certified
  <2>2. DOMAIN envVarList = 1..5
    BY InjectedItems
  <2>. QED
    BY <2>1, <2>2 DEF Loop, ContainsAll
<1>5. ContainsAll(q.volumes, caVolumes)
  <2>1. DOMAIN caVolumes = 1..2
    BY InjectedItems
  <2>. QED
    BY <1>1, <2>1 DEF Loop, ContainsAll
<1>6. Contains(q.init, init) /\ q.init \in Seq(Items)
  BY <1>0, <1>1, UpsertContains, UpsertEffect
<1>7. KeepsOwn(q, spec)
  <2>1. KeepsContainers(q.containers, spec.containers)
    BY <1>0, <1>1, FirstCertifiedKeeps
  <2>2. KeepsItems(q.volumes, spec.volumes)
    BY <1>1, InjectedItems DEF Loop
  <2>3. KeepsItems(q.init, spec.init)
    BY <1>0, <1>1, UpsertKeeps
  <2>. QED
    BY <2>1, <2>2, <2>3 DEF KeepsOwn
<1>8. WithMTLS(q, init) = q
  <2>1. /\ WithMTLS(q, init) \in PodSpecs
        /\ WithMTLS(q, init).containers = FirstCertified(q.containers)
        /\ Loop(WithMTLS(q, init).volumes, q.volumes, caVolumes, 2, Items)
        /\ WithMTLS(q, init).init = Upsert(q.init, init)
        /\ WithMTLS(q, init).sa = q.sa
    BY <1>1, <1>3, MTLSParts
  <2>2. WithMTLS(q, init).containers = q.containers
    BY <1>0, <1>1, <2>1, FirstCertifiedAgain
  <2>3. WithMTLS(q, init).volumes = q.volumes
    BY <1>1, <2>1 DEF Loop
  <2>4. WithMTLS(q, init).init = q.init
    BY <1>6, <2>1, UpsertAgain
  <2>. QED
    BY <1>1, <2>1, <2>2, <2>3, <2>4, PodParts
<1>. QED
  BY <1>3, <1>4, <1>5, <1>6, <1>7, <1>8 DEF q

\* The sidecar and then the mTLS configuration.
LEMMA BothPod ==
    ASSUME release \in Nat, NEW spec \in PodSpecs, NEW init \in Items, init.name \in Managed
    PROVE  LET q == WithMTLS(WithOAuth(spec), init)
           IN  /\ ContainsContainer(q.containers, oauthProxyContainer)
               /\ Contains(q.volumes, oauthProxyTLSSecretVolume)
               /\ q.sa = "oauth"
               /\ WithMTLS(WithOAuth(q), init) = q
<1>. DEFINE p == WithOAuth(spec)
            q == WithMTLS(p, init)
            r == WithOAuth(q)
<1>1. p \in PodSpecs /\ p.containers # << >> /\ p.sa = "oauth"
        /\ Contains(p.containers, oauthProxyContainer)
        /\ Contains(p.volumes, oauthProxyTLSSecretVolume)
  BY OAuthParts, OAuthPod
<1>. HIDE DEF p
<1>2. p.containers \in Seq(Containers) /\ p.init \in Seq(Items)
  BY <1>1 DEF PodSpecs
<1>3. /\ q \in PodSpecs
      /\ q.containers = FirstCertified(p.containers)
      /\ Loop(q.volumes, p.volumes, caVolumes, 2, Items)
      /\ q.init = Upsert(p.init, init)
      /\ q.sa = "oauth"
  BY <1>1, MTLSParts
<1>4. ContainsAll(q.volumes, caVolumes) /\ Contains(q.init, init)
  BY <1>1, MTLSPod
<1>. HIDE DEF q
<1>5. Contains(q.volumes, oauthProxyTLSSecretVolume) /\ oauthProxyTLSSecretVolume \in Items
  BY <1>1, <1>3, InjectedItems DEF Loop
<1>6. /\ ContainsContainer(q.containers, oauthProxyContainer)
      /\ FirstCertified(Upsert(q.containers, oauthProxyContainer)) = q.containers
      /\ Upsert(q.containers, oauthProxyContainer) # << >>
  BY <1>1, <1>2, <1>3, SidecarStays
<1>7. /\ r \in PodSpecs
      /\ r.containers = Upsert(q.containers, oauthProxyContainer)
      /\ r.volumes = Upsert(q.volumes, oauthProxyTLSSecretVolume)
      /\ r.init = q.init
      /\ r.sa = "oauth"
  BY <1>3, OAuthParts
<1>. HIDE DEF r
<1>8. q.volumes \in Seq(Items) /\ q.init \in Seq(Items)
  BY <1>3 DEF PodSpecs
<1>9. r.volumes = q.volumes
  BY <1>5, <1>7, <1>8, UpsertAgain
<1>10. WithMTLS(r, init) = q
  <2>1. /\ WithMTLS(r, init) \in PodSpecs
        /\ WithMTLS(r, init).containers = FirstCertified(r.containers)
        /\ Loop(WithMTLS(r, init).volumes, r.volumes, caVolumes, 2, Items)
        /\ WithMTLS(r, init).init = Upsert(r.init, init)
        /\ WithMTLS(r, init).sa = r.sa
    BY <1>6, <1>7, MTLSParts
  <2>2. WithMTLS(r, init).volumes = q.volumes
    <3>1. \A i \in 1..2 : Contains(r.volumes, caVolumes[i])
      BY <1>4, <1>9, InjectedItems DEF ContainsAll
    <3>. QED
      BY <1>9, <2>1, <3>1 DEF Loop
  <2>3. WithMTLS(r, init).init = q.init
    BY <1>4, <1>7, <1>8, <2>1, UpsertAgain
  <2>. QED
    BY <1>3, <1>6, <1>7, <2>1, <2>2, <2>3, PodParts
<1>. QED
  BY <1>3, <1>5, <1>6, <1>10 DEF p, q, r

\* What Default makes of the head group (lines 83-112).
LEMMA HeadDefaulted ==
    ASSUME release \in Nat, NEW spec \in PodSpecs,
           MTLSEnabled => spec.containers # << >> \/ OAuthEnabled
    PROVE  /\ DefaultHead(spec) \in PodSpecs
           /\ KeepsOwn(DefaultHead(spec), spec)
           /\ OAuthEnabled =>
                 /\ ContainsContainer(DefaultHead(spec).containers, oauthProxyContainer)
                 /\ Contains(DefaultHead(spec).volumes, oauthProxyTLSSecretVolume)
                 /\ DefaultHead(spec).sa = "oauth"
           /\ MTLSEnabled =>
                 /\ Contains(DefaultHead(spec).init, rayHeadInitContainer)
                 /\ ContainsAll(DefaultHead(spec).containers[1].env, envVarList)
                 /\ ContainsAll(DefaultHead(spec).volumes, caVolumes)
           /\ DefaultHead(DefaultHead(spec)) = DefaultHead(spec)
<1>. DEFINE init == rayHeadInitContainer
            p == WithOAuth(spec)
<1>0. init \in Items /\ init.name \in Managed
  BY InjectedContainers
<1>. HIDE DEF init
<1>1. p \in PodSpecs /\ p.containers # << >> /\ p.sa = "oauth"
  BY OAuthParts
<1>2. CASE OAuthEnabled /\ MTLSEnabled
  <2>. DEFINE q == WithMTLS(p, init)
  <2>1. DefaultHead(spec) = q /\ DefaultHead(q) = WithMTLS(WithOAuth(q), init)
    BY <1>2 DEF DefaultHead, init
  <2>2. /\ ContainsContainer(q.containers, oauthProxyContainer)
        /\ Contains(q.volumes, oauthProxyTLSSecretVolume)
        /\ q.sa = "oauth"
        /\ WithMTLS(WithOAuth(q), init) = q
    BY <1>0, BothPod
  <2>3. q \in PodSpecs
    BY <1>0, <1>1, MTLSParts
  <2>4. /\ KeepsOwn(q, p)
        /\ Contains(q.init, init)
        /\ ContainsAll(q.containers[1].env, envVarList)
        /\ ContainsAll(q.volumes, caVolumes)
    BY <1>0, <1>1, MTLSPod
  <2>5. KeepsOwn(q, spec)
    <3>. HIDE DEF q
    <3>. QED
      BY <1>1, <2>3, <2>4, OAuthPod, KeepsOwnTransitive
  <2>. HIDE DEF q
  <2>. QED
    BY <1>2, <2>1, <2>2, <2>3, <2>4, <2>5 DEF init
<1>3. CASE OAuthEnabled /\ ~MTLSEnabled
  <2>1. DefaultHead(spec) = p /\ DefaultHead(p) = WithOAuth(p)
    BY <1>3 DEF DefaultHead
  <2>2. /\ KeepsOwn(p, spec)
        /\ ContainsContainer(p.containers, oauthProxyContainer)
        /\ Contains(p.volumes, oauthProxyTLSSecretVolume)
        /\ WithOAuth(p) = p
    BY OAuthPod
  <2>. HIDE DEF p
  <2>. QED
    BY <1>1, <1>3, <2>1, <2>2
<1>4. CASE ~OAuthEnabled /\ MTLSEnabled
  <2>. DEFINE q == WithMTLS(spec, init)
  <2>1. DefaultHead(spec) = q /\ DefaultHead(q) = WithMTLS(q, init)
    BY <1>4 DEF DefaultHead, init
  <2>2. q \in PodSpecs
    BY <1>0, <1>4, MTLSParts
  <2>3. /\ KeepsOwn(q, spec)
        /\ Contains(q.init, init)
        /\ ContainsAll(q.containers[1].env, envVarList)
        /\ ContainsAll(q.volumes, caVolumes)
        /\ WithMTLS(q, init) = q
    BY <1>0, <1>4, MTLSPod
  <2>. HIDE DEF q
  <2>. QED
    BY <1>4, <2>1, <2>2, <2>3 DEF init
<1>5. CASE ~OAuthEnabled /\ ~MTLSEnabled
  <2>1. DefaultHead(spec) = spec
    BY <1>5 DEF DefaultHead
  <2>. QED
    BY <1>5, <2>1, KeepsOwnSame
<1>. QED
  BY <1>2, <1>3, <1>4, <1>5

\* What Default makes of a worker group (lines 114-136).
LEMMA WorkerDefaulted ==
    ASSUME release \in Nat, NEW spec \in PodSpecs, MTLSEnabled => spec.containers # << >>
    PROVE  /\ DefaultWorker(spec) \in PodSpecs
           /\ KeepsOwn(DefaultWorker(spec), spec)
           /\ MTLSEnabled =>
                 /\ Contains(DefaultWorker(spec).init, rayWorkerInitContainer)
                 /\ ContainsAll(DefaultWorker(spec).containers[1].env, envVarList)
                 /\ ContainsAll(DefaultWorker(spec).volumes, caVolumes)
           /\ DefaultWorker(DefaultWorker(spec)) = DefaultWorker(spec)
<1>. DEFINE init == rayWorkerInitContainer
<1>0. init \in Items /\ init.name \in Managed
  BY InjectedContainers
<1>. HIDE DEF init
<1>1. CASE MTLSEnabled
  <2>. DEFINE q == WithMTLS(spec, init)
  <2>1. DefaultWorker(spec) = q /\ DefaultWorker(q) = WithMTLS(q, init)
    BY <1>1 DEF DefaultWorker, init
  <2>2. q \in PodSpecs
    BY <1>0, <1>1, MTLSParts
  <2>3. /\ KeepsOwn(q, spec)
        /\ Contains(q.init, init)
        /\ ContainsAll(q.containers[1].env, envVarList)
        /\ ContainsAll(q.volumes, caVolumes)
        /\ WithMTLS(q, init) = q
    BY <1>0, <1>1, MTLSPod
  <2>. HIDE DEF q
  <2>. QED
    BY <1>1, <2>1, <2>2, <2>3 DEF init
<1>2. CASE ~MTLSEnabled
  <2>1. DefaultWorker(spec) = spec
    BY <1>2 DEF DefaultWorker
  <2>. QED
    BY <1>2, <2>1, KeepsOwnSame
<1>. QED
  BY <1>1, <1>2

-----------------------------------------------------------------------------
(* Default, on a RayCluster.                                               *)

\* A RayCluster is what its fields are.
LEMMA ClusterParts ==
    ASSUME NEW c \in Clusters, NEW d \in Clusters,
           c.del = d.del, c.ann = d.ann, c.ingress = d.ingress,
           c.head = d.head, c.workers = d.workers
    PROVE  c = d
<1>1. c.exists = TRUE /\ d.exists = TRUE
  BY DEF Clusters
<1>2. ASSUME NEW x \in Clusters
      PROVE  x = [exists |-> x.exists, del |-> x.del, ann |-> x.ann,
                  ingress |-> x.ingress, head |-> x.head, workers |-> x.workers]
  BY <1>2 DEF Clusters
<1>. QED
  BY <1>1, <1>2

\* Field by field, what Default returns (lines 71-139).
LEMMA DefaultParts ==
    ASSUME release \in Nat, NEW c \in Clusters, ~Panics(c)
    PROVE  /\ Default(c) \in Clusters
           /\ Default(c).exists
           /\ Default(c).del = c.del
           /\ Default(c).ingress = c.ingress
           /\ Default(c).ann = TRUE
           /\ Default(c).head = DefaultHead(c.head)
           /\ DOMAIN Default(c).workers = DOMAIN c.workers
           /\ \A i \in DOMAIN c.workers :
                 Default(c).workers[i] = DefaultWorker(c.workers[i])
<1>. DEFINE ws == [i \in DOMAIN c.workers |-> DefaultWorker(c.workers[i])]
            h == DefaultHead(c.head)
<1>1. c.head \in PodSpecs /\ c.workers \in Seq(PodSpecs)
  BY DEF Clusters
<1>2. h \in PodSpecs
  BY <1>1, HeadDefaulted DEF Panics
<1>3. \A i \in DOMAIN c.workers : DefaultWorker(c.workers[i]) \in PodSpecs
  <2>. SUFFICES ASSUME NEW i \in DOMAIN c.workers
                PROVE  DefaultWorker(c.workers[i]) \in PodSpecs
    OBVIOUS
  <2>1. c.workers[i] \in PodSpecs /\ (MTLSEnabled => c.workers[i].containers # << >>)
    BY <1>1 DEF Panics
  <2>. QED
    BY <2>1, WorkerDefaulted
<1>4. ws \in Seq(PodSpecs) /\ DOMAIN ws = DOMAIN c.workers
  BY <1>1, <1>3
<1>5. \A i \in DOMAIN c.workers : ws[i] = DefaultWorker(c.workers[i])
  OBVIOUS
<1>6. Default(c) = [c EXCEPT !.ann = TRUE, !.head = h, !.workers = ws]
  BY DEF Default
<1>. HIDE DEF h, ws
<1>7. /\ Default(c) \in Clusters
      /\ Default(c).exists
      /\ Default(c).del = c.del
      /\ Default(c).ingress = c.ingress
      /\ Default(c).ann = TRUE
      /\ Default(c).head = h
      /\ Default(c).workers = ws
  BY <1>2, <1>4, <1>6 DEF Clusters
<1>. QED
  BY <1>4, <1>5, <1>7 DEF h

\* What a user named in the Pod templates is where it was.
KeepsTemplates(now, was) ==
    /\ KeepsOwn(now.head, was.head)
    /\ DOMAIN now.workers = DOMAIN was.workers
    /\ \A i \in DOMAIN now.workers : KeepsOwn(now.workers[i], was.workers[i])

\* Default keeps what users gave, and its outcome meets all that the
\* validation demands of the injected configuration.
LEMMA DefaultComplete ==
    ASSUME release \in Nat, NEW c \in Clusters, ~Panics(c)
    PROVE  /\ ValidOAuth(Default(c))
           /\ ValidMTLS(Default(c))
           /\ KeepsTemplates(Default(c), c)
<1>. DEFINE d == Default(c)
<1>1. c.head \in PodSpecs /\ c.workers \in Seq(PodSpecs)
  BY DEF Clusters
<1>2. /\ d.head = DefaultHead(c.head)
      /\ DOMAIN d.workers = DOMAIN c.workers
      /\ \A i \in DOMAIN c.workers : d.workers[i] = DefaultWorker(c.workers[i])
  BY DefaultParts
<1>. HIDE DEF d
<1>3. /\ KeepsOwn(d.head, c.head)
      /\ OAuthEnabled => /\ ContainsContainer(d.head.containers, oauthProxyContainer)
                         /\ Contains(d.head.volumes, oauthProxyTLSSecretVolume)
                         /\ d.head.sa = "oauth"
      /\ MTLSEnabled => /\ Contains(d.head.init, rayHeadInitContainer)
                        /\ ContainsAll(d.head.containers[1].env, envVarList)
                        /\ ContainsAll(d.head.volumes, caVolumes)
  BY <1>1, <1>2, HeadDefaulted DEF Panics
<1>4. ASSUME NEW i \in DOMAIN d.workers
      PROVE  /\ KeepsOwn(d.workers[i], c.workers[i])
             /\ MTLSEnabled =>
                   /\ Contains(d.workers[i].init, rayWorkerInitContainer)
                   /\ ContainsAll(d.workers[i].containers[1].env, envVarList)
                   /\ ContainsAll(d.workers[i].volumes, caVolumes)
  <2>1. c.workers[i] \in PodSpecs /\ (MTLSEnabled => c.workers[i].containers # << >>)
    BY <1>1, <1>2, <1>4 DEF Panics
  <2>. QED
    BY <1>2, <1>4, <2>1, WorkerDefaulted
<1>5. ValidOAuth(d)
  BY <1>3 DEF ValidOAuth
<1>6. ValidMTLS(d)
  BY <1>3, <1>4 DEF ValidMTLS
<1>7. KeepsTemplates(d, c)
  BY <1>2, <1>3, <1>4 DEF KeepsTemplates
<1>. QED
  BY <1>5, <1>6, <1>7 DEF d

\* The outcome of Default is not a cluster that Default panics on ...
LEMMA DefaultNeverPanics ==
    ASSUME release \in Nat, NEW c \in Clusters, ~Panics(c)
    PROVE  ~Panics(Default(c))
<1>. DEFINE d == Default(c)
<1>1. c.head \in PodSpecs /\ c.workers \in Seq(PodSpecs)
  BY DEF Clusters
<1>2. /\ d \in Clusters
      /\ d.head = DefaultHead(c.head)
      /\ DOMAIN d.workers = DOMAIN c.workers
      /\ \A i \in DOMAIN c.workers : d.workers[i] = DefaultWorker(c.workers[i])
  BY DefaultParts
<1>3. KeepsTemplates(d, c)
  BY DefaultComplete
<1>. HIDE DEF d
<1>4. ASSUME NEW a \in PodSpecs, NEW b \in PodSpecs, KeepsOwn(a, b),
             b.containers # << >>
      PROVE  a.containers # << >>
  <2>1. a.containers \in Seq(Containers) /\ b.containers \in Seq(Containers)
    BY DEF PodSpecs
  <2>2. Len(b.containers) <= Len(a.containers)
    BY <1>4 DEF KeepsOwn, KeepsContainers
  <2>. QED
    BY <1>4, <2>1, <2>2
<1>5. d.head \in PodSpecs /\ d.workers \in Seq(PodSpecs)
  BY <1>2 DEF Clusters
<1>6. ~(MTLSEnabled /\ d.head.containers = << >> /\ ~OAuthEnabled)
  BY <1>1, <1>3, <1>4, <1>5 DEF Panics, KeepsTemplates
<1>7. ASSUME MTLSEnabled, NEW i \in DOMAIN d.workers
      PROVE  d.workers[i].containers # << >>
  BY <1>1, <1>2, <1>3, <1>4, <1>5, <1>7 DEF Panics, KeepsTemplates
<1>8. ~Panics(d)
  BY <1>6, <1>7 DEF Panics
<1>. QED
  BY <1>8 DEF d

\* ... and Default leaves it alone.
LEMMA DefaultAgain ==
    ASSUME release \in Nat, NEW c \in Clusters, ~Panics(c)
    PROVE  Default(Default(c)) = Default(c)
<1>. DEFINE d == Default(c)
            e == Default(d)
<1>1. c.head \in PodSpecs /\ c.workers \in Seq(PodSpecs)
  BY DEF Clusters
<1>2. /\ d \in Clusters /\ d.ann = TRUE
      /\ d.head = DefaultHead(c.head)
      /\ DOMAIN d.workers = DOMAIN c.workers
      /\ \A i \in DOMAIN c.workers : d.workers[i] = DefaultWorker(c.workers[i])
  BY DefaultParts
<1>3. ~Panics(d)
  BY DefaultNeverPanics
<1>. HIDE DEF d
<1>4. /\ e \in Clusters /\ e.ann = TRUE /\ e.del = d.del /\ e.ingress = d.ingress
      /\ e.head = DefaultHead(d.head)
      /\ DOMAIN e.workers = DOMAIN d.workers
      /\ \A i \in DOMAIN d.workers : e.workers[i] = DefaultWorker(d.workers[i])
  BY <1>2, <1>3, DefaultParts
<1>. HIDE DEF e
<1>5. e.head = d.head
  BY <1>1, <1>2, <1>4, HeadDefaulted DEF Panics
<1>6. ASSUME NEW i \in DOMAIN c.workers
      PROVE  e.workers[i] = d.workers[i]
  <2>1. c.workers[i] \in PodSpecs /\ (MTLSEnabled => c.workers[i].containers # << >>)
    BY <1>1, <1>6 DEF Panics
  <2>. QED
    BY <1>2, <1>4, <1>6, <2>1, WorkerDefaulted
<1>7. e.workers = d.workers
  <2>1. e.workers \in Seq(PodSpecs) /\ d.workers \in Seq(PodSpecs)
    BY <1>2, <1>4 DEF Clusters
  <2>2. Len(e.workers) = Len(d.workers)
    BY <1>4, <2>1
  <2>. QED
    BY <1>2, <1>4, <1>6, <2>1, <2>2
<1>8. e = d
  BY <1>2, <1>4, <1>5, <1>7, ClusterParts
<1>. QED
  BY <1>8 DEF d, e

-----------------------------------------------------------------------------
(* The requests.                                                           *)

\* While the operator is the same, so is what it injects and demands.
LEMMA SameRelease ==
    ASSUME NEW d, stored' = d, release' = release
    PROVE  /\ ValidOAuth(stored)' = ValidOAuth(d)
           /\ ValidMTLS(stored)' = ValidMTLS(d)
           /\ Default(stored)' = Default(d)
<1>1. /\ oauthProxyContainer' = oauthProxyContainer
      /\ rayHeadInitContainer' = rayHeadInitContainer
      /\ rayWorkerInitContainer' = rayWorkerInitContainer
  BY DEF oauthProxyContainer, rayHeadInitContainer, rayWorkerInitContainer
<1>2. ValidOAuth(stored)' = ValidOAuth(d)
  BY <1>1 DEF ValidOAuth
<1>3. ValidMTLS(stored)' = ValidMTLS(d)
  BY <1>1 DEF ValidMTLS
<1>4. Default(stored)' = Default(d)
  BY <1>1 DEF Default, DefaultHead, DefaultWorker, WithOAuth, WithMTLS
<1>. QED
  BY <1>2, <1>3, <1>4

\* A RayCluster exists; the absence of one is none.
LEMMA Existing ==
    ASSUME TypeOK
    PROVE  stored.exists => stored \in Clusters
<1>1. NoCluster.exists = FALSE
  BY DEF NoCluster
<1>2. stored \in Clusters \/ stored = NoCluster
  BY DEF TypeOK
<1>. QED
  BY <1>1, <1>2

\* The outcome of a request that is granted.
LEMMA Granted ==
    ASSUME WebhookInv, NEW c \in Clusters, ~Panics(c),
           request' = c, stored' = Default(c), verdict' = "accepted",
           admitted' = release, release' = release
    PROVE  WebhookInv'
<1>0. release \in Nat
  BY DEF WebhookInv, TypeOK
<1>. PICK d : d = Default(c)
  OBVIOUS
<1>1. d \in Clusters /\ stored' = d
  BY <1>0, DefaultParts
<1>2. ValidOAuth(d) /\ ValidMTLS(d) /\ KeepsTemplates(d, c)
  BY <1>0, DefaultComplete
<1>3. Default(d) = d
  BY <1>0, DefaultAgain
<1>4. TypeOK'
  BY <1>0, <1>1 DEF TypeOK
<1>5. AdmittedComplete' /\ ReadmissionChangesNothing'
  BY <1>1, <1>2, <1>3, SameRelease DEF AdmittedComplete, ReadmissionChangesNothing
<1>6. UserItemsKept'
  BY <1>1, <1>2 DEF UserItemsKept, KeepsTemplates
<1>7. RejectionsJustified'
  BY DEF RejectionsJustified
<1>. QED
  BY <1>4, <1>5, <1>6, <1>7 DEF WebhookInv

\* The outcome of a request that fails.
LEMMA Refused ==
    ASSUME WebhookInv, NEW c \in Clusters, Panics(c) \/ (c.ingress /\ ~c.del),
           request' = c, stored' = stored, verdict' = "rejected",
           admitted' = admitted, release' = release
    PROVE  WebhookInv'
<1>1. TypeOK'
  BY DEF WebhookInv, TypeOK
<1>. PICK d : d = stored
  OBVIOUS
<1>2. AdmittedComplete' /\ ReadmissionChangesNothing'
  BY SameRelease DEF WebhookInv, AdmittedComplete, ReadmissionChangesNothing
<1>3. UserItemsKept'
  BY DEF UserItemsKept
<1>4. RejectionsJustified'
  BY DEF RejectionsJustified, Panics
<1>. QED
  BY <1>1, <1>2, <1>3, <1>4 DEF WebhookInv

\* Validation never fails on what Default made of a cluster, but for enableIngress.
LEMMA ValidationFails ==
    ASSUME release \in Nat, NEW c \in Clusters, ~Panics(c)
    PROVE  /\ ~ValidateCreate(Default(c)) => c.ingress
           /\ ~ValidateUpdate(Default(c)) => c.ingress /\ ~c.del
<1>1. Default(c).ingress = c.ingress /\ Default(c).del = c.del
  BY DefaultParts
<1>2. ValidOAuth(Default(c)) /\ ValidMTLS(Default(c))
  BY DefaultComplete
<1>. QED
  BY <1>1, <1>2 DEF ValidateCreate, ValidateUpdate, validateIngress

\* At the start.
LEMMA WebhookInit ==
    ASSUME Init
    PROVE  WebhookInv
<1>1. TypeOK
  BY WebhookAssumption DEF Init, TypeOK
<1>2. AdmittedComplete /\ ReadmissionChangesNothing
  BY DEF Init, AdmittedComplete, ReadmissionChangesNothing
<1>3. RejectionsJustified /\ UserItemsKept
  BY DEF Init, RejectionsJustified, UserItemsKept
<1>. QED
  BY <1>1, <1>2, <1>3 DEF WebhookInv, Init

\* One step per request, and the operator's upgrade.
LEMMA WebhookStep ==
    ASSUME WebhookInv, [Next]_vars
    PROVE  WebhookInv'
<1>0. release \in Nat /\ TypeOK
  BY DEF WebhookInv, TypeOK
<1>1. CASE Create
  <2>1. PICK c \in Requests : Admit(c, ValidateCreate(Default(c)))
    BY <1>1 DEF Create
  <2>2. c \in Clusters /\ ~c.del
    BY WebhookAssumption
  <2>3. CASE ~Panics(c) /\ ValidateCreate(Default(c))
    BY <2>1, <2>2, <2>3, Granted DEF Admit
  <2>4. CASE ~(~Panics(c) /\ ValidateCreate(Default(c)))
    <3>1. Panics(c) \/ (c.ingress /\ ~c.del)
      BY <1>0, <2>2, <2>4, ValidationFails
    <3>. QED
      BY <2>1, <2>2, <2>4, <3>1, Refused DEF Admit
  <2>. QED
    BY <2>3, <2>4
<1>2. ASSUME NEW c \in Clusters, Admit(c, ValidateUpdate(Default(c)))
      PROVE  WebhookInv'
  <2>1. CASE ~Panics(c) /\ ValidateUpdate(Default(c))
    BY <1>2, <2>1, Granted DEF Admit
  <2>2. CASE ~(~Panics(c) /\ ValidateUpdate(Default(c)))
    <3>1. Panics(c) \/ (c.ingress /\ ~c.del)
      BY <1>0, <2>2, ValidationFails
    <3>. QED
      BY <1>2, <2>2, <3>1, Refused DEF Admit
  <2>. QED
    BY <2>1, <2>2
<1>3. CASE Update
  <2>1. PICK r \in Requests : LET c == [r EXCEPT !.del = stored.del]
                              IN  Admit(c, ValidateUpdate(Default(c)))
    BY <1>3 DEF Update
  <2>2. r \in Clusters /\ stored \in Clusters
    BY <1>0, <1>3, WebhookAssumption, Existing DEF Update
  <2>. PICK c : c = [r EXCEPT !.del = stored.del]
    OBVIOUS
  <2>3. c \in Clusters
    BY <2>2 DEF Clusters
  <2>4. Admit(c, ValidateUpdate(Default(c)))
    BY <2>1
  <2>. QED
    BY <1>2, <2>3, <2>4
<1>4. CASE UpdateMetadata
  <2>. PICK c : c = stored
    OBVIOUS
  <2>1. c \in Clusters /\ Admit(c, ValidateUpdate(Default(c)))
    BY <1>0, <1>4, Existing DEF UpdateMetadata
  <2>. QED
    BY <1>2, <2>1
<1>5. CASE Delete
  <2>1. stored \in Clusters
    BY <1>0, <1>5, Existing DEF Delete
  <2>. PICK s, d : s = stored /\ d = [stored EXCEPT !.del = TRUE]
    OBVIOUS
  <2>2. /\ stored' = d /\ s \in Clusters /\ d \in Clusters
        /\ d.head = s.head /\ d.workers = s.workers /\ d.ann = s.ann
        /\ d.ingress = s.ingress /\ d.exists
    BY <1>5, <2>1 DEF Delete, Clusters
  <2>3. release' = release /\ request' = request /\ verdict' = verdict
          /\ admitted' = admitted
    BY <1>5 DEF Delete
  <2>4. TypeOK'
    BY <1>0, <2>2, <2>3 DEF TypeOK
  <2>5. AdmittedComplete'
    <3>1. ValidOAuth(d) = ValidOAuth(s) /\ ValidMTLS(d) = ValidMTLS(s)
      BY <2>2 DEF ValidOAuth, ValidMTLS
    <3>. QED
      BY <1>5, <2>2, <2>3, <3>1, SameRelease DEF WebhookInv, AdmittedComplete, Delete
  <2>6. ReadmissionChangesNothing'
    <3>. SUFFICES ASSUME Default(s) = s
                  PROVE  Default(d) = d
      BY <1>5, <2>2, <2>3, SameRelease DEF WebhookInv, ReadmissionChangesNothing, Delete
    <3>1. /\ s.ann = TRUE
          /\ s.head = DefaultHead(s.head)
          /\ s.workers = [i \in DOMAIN s.workers |-> DefaultWorker(s.workers[i])]
      <4>. DEFINE h == DefaultHead(s.head)
                  ws == [i \in DOMAIN s.workers |-> DefaultWorker(s.workers[i])]
      <4>1. Default(s) = [s EXCEPT !.ann = TRUE, !.head = h, !.workers = ws]
        BY DEF Default
      <4>. HIDE DEF h, ws
      <4>2. s.ann = TRUE /\ s.head = h /\ s.workers = ws
        BY <2>2, <4>1 DEF Clusters
      <4>. QED
        BY <4>2 DEF h, ws
    <3>. DEFINE h == DefaultHead(d.head)
                ws == [i \in DOMAIN d.workers |-> DefaultWorker(d.workers[i])]
    <3>2. Default(d) = [d EXCEPT !.ann = TRUE, !.head = h, !.workers = ws]
      BY DEF Default
    <3>3. h = d.head /\ ws = d.workers /\ d.ann = TRUE
      BY <2>2, <3>1
    <3>. HIDE DEF h, ws
    <3>4. /\ Default(d) \in Clusters
          /\ Default(d).del = d.del /\ Default(d).ingress = d.ingress
          /\ Default(d).ann = d.ann /\ Default(d).head = d.head
          /\ Default(d).workers = d.workers
      BY <2>2, <3>2, <3>3 DEF Clusters
    <3>. QED
      BY <2>2, <3>4, ClusterParts
  <2>7. UserItemsKept'
    BY <1>5, <2>2, <2>3 DEF WebhookInv, UserItemsKept, Delete
  <2>8. RejectionsJustified'
    BY <2>3 DEF WebhookInv, RejectionsJustified, Panics
  <2>. QED
    BY <2>3, <2>4, <2>5, <2>6, <2>7, <2>8 DEF WebhookInv
<1>6. CASE Remove
  <2>1. ~stored'.exists
    BY <1>6 DEF Remove, NoCluster
  <2>2. AdmittedComplete' /\ ReadmissionChangesNothing' /\ UserItemsKept'
    BY <2>1 DEF AdmittedComplete, ReadmissionChangesNothing, UserItemsKept
  <2>3. TypeOK'
    BY <1>0, <1>6 DEF Remove, TypeOK
  <2>4. RejectionsJustified'
    BY <1>6 DEF Remove, WebhookInv, RejectionsJustified, Panics
  <2>. QED
    BY <1>6, <2>2, <2>3, <2>4 DEF WebhookInv, Remove
<1>7. CASE Upgrade
  <2>1. admitted' # release'
    BY <1>0, <1>7 DEF Upgrade, TypeOK
  <2>2. AdmittedComplete' /\ ReadmissionChangesNothing'
    BY <2>1 DEF AdmittedComplete, ReadmissionChangesNothing
  <2>3. TypeOK'
    BY <1>0, <1>7 DEF Upgrade, TypeOK
  <2>4. UserItemsKept'
    BY <1>7 DEF Upgrade, WebhookInv, UserItemsKept
  <2>5. RejectionsJustified'
    BY <1>7 DEF Upgrade, WebhookInv, RejectionsJustified, Panics
  <2>. QED
    BY <1>7, <2>2, <2>3, <2>4, <2>5 DEF WebhookInv, Upgrade
<1>8. CASE UNCHANGED vars
  <2>. PICK d : d = stored
    OBVIOUS
  <2>1. TypeOK'
    BY <1>0, <1>8 DEF vars, TypeOK
  <2>2. AdmittedComplete' /\ ReadmissionChangesNothing'
    BY <1>8, SameRelease DEF vars, WebhookInv, AdmittedComplete, ReadmissionChangesNothing
  <2>3. UserItemsKept'
    BY <1>8 DEF vars, WebhookInv, UserItemsKept
  <2>4. RejectionsJustified'
    BY <1>8 DEF vars, WebhookInv, RejectionsJustified, Panics
  <2>. QED
    BY <1>8, <2>1, <2>2, <2>3, <2>4 DEF WebhookInv, vars
<1>. QED
  BY <1>1, <1>3, <1>4, <1>5, <1>6, <1>7, <1>8 DEF Next

\* The invariant that carries the theorems below, for every configuration, every
\* Pod template and every number of releases.
THEOREM WebhookInvariant == Spec => []WebhookInv
  BY WebhookInit, WebhookStep, PTL DEF Spec

\* The variables of the model range over the values it gives them: what Default
\* makes of a RayCluster is one (raycluster_webhook.go, lines 71-139).
THEOREM WebhookTypes == Spec => []TypeOK
<1>1. WebhookInv => TypeOK
  BY DEF WebhookInv
<1>. QED
  BY <1>1, WebhookInvariant, PTL

\* No request is refused for what Default itself wrote: only enableIngress, on a
\* cluster that is not being deleted, and a group without containers make one
\* fail (lines 158-186).
THEOREM OnlyJustifiedRejections == Spec => []RejectionsJustified
<1>1. WebhookInv => RejectionsJustified
  BY DEF WebhookInv
<1>. QED
  BY <1>1, WebhookInvariant, PTL

\* What a release admits, by create or by update, carries its whole OAuth and
\* mTLS configuration, whatever names users gave (lines 71-139, 193-241, 389-467).
THEOREM AdmissionComplete == Spec => []AdmittedComplete
<1>1. WebhookInv => AdmittedComplete
  BY DEF WebhookInv
<1>. QED
  BY <1>1, WebhookInvariant, PTL

\* Default is idempotent on what it admitted: the controller's updates of the
\* finalizers leave the Pod templates as they are (lines 71-139; support.go,
\* lines 108-116).
THEOREM ReadmissionIdempotent == Spec => []ReadmissionChangesNothing
<1>1. WebhookInv => ReadmissionChangesNothing
  BY DEF WebhookInv
<1>. QED
  BY <1>1, WebhookInvariant, PTL

\* What users put under names of their own stays as it was, in its place
\* (support.go, lines 108-116).
THEOREM UsersKeepTheirItems == Spec => []UserItemsKept
<1>1. WebhookInv => UserItemsKept
  BY DEF WebhookInv
<1>. QED
  BY <1>1, WebhookInvariant, PTL
=============================================================================
