----------------------------- MODULE NamesProofs -----------------------------
(***************************************************************************)
(* Which names tell clusters apart, whatever the hash function.            *)
(***************************************************************************)
EXTENDS Names, Integers, TLAPS

\* The parts that the controller puts into names, and clusters whose names have
\* parts in a set.
Words == {"oauth", "proxy", "tls", "secret", "config", "ca", "workers", "head",
          "ray", "dashboard", "rayclient", "auth"}

Cluster(Part) == [name : Seq(Part), namespace : Seq(Part), annotated : BOOLEAN]

\* What names are joined to, or with, can be taken away again.
LEMMA CancelRight ==
    ASSUME NEW Part,
           NEW s \in Seq(Part), NEW t \in Seq(Part), NEW u \in Seq(Part),
           s \o u = t \o u
    PROVE  s = t
<1>1. Len(s) = Len(t)
  <2>1. Len(s \o u) = Len(s) + Len(u) /\ Len(t \o u) = Len(t) + Len(u)
    OBVIOUS
  <2>2. Len(s) \in Nat /\ Len(t) \in Nat /\ Len(u) \in Nat
    OBVIOUS
  <2>. QED
    BY <2>1, <2>2
<1>2. ASSUME NEW i \in 1..Len(s) PROVE s[i] = t[i]
  <2>1. (s \o u)[i] = s[i]
    OBVIOUS
  <2>2. (t \o u)[i] = t[i]
    BY <1>1
  <2>. QED
    BY <2>1, <2>2
<1>. QED
  BY <1>1, <1>2

\* And one with the same beginning.
LEMMA CancelLeft ==
    ASSUME NEW Part,
           NEW s \in Seq(Part), NEW t \in Seq(Part), NEW u \in Seq(Part),
           u \o s = u \o t
    PROVE  s = t
<1>1. Len(s) = Len(t)
  <2>1. Len(u \o s) = Len(u) + Len(s) /\ Len(u \o t) = Len(u) + Len(t)
    OBVIOUS
  <2>2. Len(s) \in Nat /\ Len(t) \in Nat /\ Len(u) \in Nat
    OBVIOUS
  <2>. QED
    BY <2>1, <2>2
<1>2. ASSUME NEW i \in 1..Len(s) PROVE s[i] = t[i]
  <2>1. (u \o s)[Len(u) + i] = s[i]
    OBVIOUS
  <2>2. (u \o t)[Len(u) + i] = t[i]
    BY <1>1
  <2>. QED
    BY <2>1, <2>2
<1>. QED
  BY <1>1, <1>2

\* Nor does a hash make different names equal, even if the hashes are.
LEMMA CancelHash ==
    ASSUME NEW Part, NEW s \in Seq(Part), NEW t \in Seq(Part),
           RCCUniqueName(s) = RCCUniqueName(t)
    PROVE  s = t
<1>. DEFINE a == Append(s, seededHash(s))
            b == Append(t, seededHash(t))
<1>1. a = b
  BY DEF RCCUniqueName
<1>2. Len(a) = Len(s) + 1 /\ Len(b) = Len(t) + 1
  OBVIOUS
<1>3. Len(s) = Len(t)
  BY <1>1, <1>2
<1>4. \A i \in 1..Len(s) : a[i] = s[i]
  OBVIOUS
<1>5. \A i \in 1..Len(t) : b[i] = t[i]
  OBVIOUS
<1>. HIDE DEF a, b
<1>. QED
  BY <1>1, <1>3, <1>4, <1>5

\* So a common suffix, with or without a hash, keeps names apart.
LEMMA SuffixTellsApart ==
    ASSUME NEW Part, NEW c, NEW d, c.annotated = d.annotated,
           NEW s \in Seq(Part), NEW t \in Seq(Part), NEW u \in Seq(Part),
           UniqueUnlessOld(c, s \o u) = UniqueUnlessOld(d, t \o u)
    PROVE  s = t
<1>1. s \o u \in Seq(Part) /\ t \o u \in Seq(Part)
  OBVIOUS
<1>2. s \o u = t \o u
  BY <1>1, CancelHash DEF UniqueUnlessOld
<1>. QED
  BY <1>2, CancelRight

\* Objects that live in the namespace of their cluster: two clusters of one
\* release in one namespace never share the name of any of them, even if their
\* hashes collide (raycluster_controller.go, lines 385-482 and 537-566).
THEOREM NamespacedNamesDiffer ==
    ASSUME NEW Part, Words \subseteq Part,
           NEW c \in Cluster(Part), NEW d \in Cluster(Part),
           c.annotated = d.annotated,
           c.name # d.name
    PROVE  /\ oauthServiceAccountNameFromCluster(c) # oauthServiceAccountNameFromCluster(d)
           /\ oauthServiceNameFromCluster(c) # oauthServiceNameFromCluster(d)
           /\ oauthServiceTLSSecretName(c) # oauthServiceTLSSecretName(d)
           /\ oauthSecretNameFromCluster(c) # oauthSecretNameFromCluster(d)
           /\ workerNWPNameFromCluster(c) # workerNWPNameFromCluster(d)
           /\ headNWPNameFromCluster(c) # headNWPNameFromCluster(d)
           /\ caSecretNameFromCluster(c) # caSecretNameFromCluster(d)
           /\ dashboardNameFromCluster(c) # dashboardNameFromCluster(d)
           /\ rayClientNameFromCluster(c) # rayClientNameFromCluster(d)
<1>0. c.name \in Seq(Part) /\ d.name \in Seq(Part)
  BY DEF Cluster
<1>10. ASSUME NEW u \in Seq(Part)
       PROVE  /\ UniqueUnlessOld(c, c.name \o u) # UniqueUnlessOld(d, d.name \o u)
              /\ c.name \o u # d.name \o u
              /\ c.name \o u \in Seq(Part) /\ d.name \o u \in Seq(Part)
              /\ u \o c.name # u \o d.name
  <2>. DEFINE s == c.name
              t == d.name
  <2>1. s \in Seq(Part) /\ t \in Seq(Part) /\ s # t
    BY <1>0
  <2>. HIDE DEF s, t
  <2>2. UniqueUnlessOld(c, s \o u) # UniqueUnlessOld(d, t \o u)
    BY <1>10, <2>1, SuffixTellsApart, Zenon
  <2>3. s \o u # t \o u
    BY <1>10, <2>1, CancelRight
  <2>4. u \o s # u \o t
    BY <1>10, <2>1, CancelLeft
  <2>5. s \o u \in Seq(Part) /\ t \o u \in Seq(Part)
    BY <1>10, <2>1
  <2>. QED
    BY <2>1, <2>2, <2>3, <2>4, <2>5 DEF s, t
<1>1. oauthServiceAccountNameFromCluster(c) # oauthServiceAccountNameFromCluster(d)
  <2>1. <<"oauth", "proxy">> \in Seq(Part)
    BY DEF Words
  <2>. QED
    BY <1>10, <2>1, Zenon DEF oauthServiceAccountNameFromCluster
<1>2. oauthServiceNameFromCluster(c) # oauthServiceNameFromCluster(d)
  <2>1. <<"oauth">> \in Seq(Part)
    BY DEF Words
  <2>. QED
    BY <1>10, <2>1, Zenon DEF oauthServiceNameFromCluster
<1>3. oauthServiceTLSSecretName(c) # oauthServiceTLSSecretName(d)
  <2>1. <<"proxy", "tls", "secret">> \in Seq(Part)
    BY DEF Words
  <2>. QED
    BY <1>10, <2>1, Zenon DEF oauthServiceTLSSecretName
<1>4. oauthSecretNameFromCluster(c) # oauthSecretNameFromCluster(d)
  <2>1. <<"oauth", "config">> \in Seq(Part)
    BY DEF Words
  <2>. QED
    BY <1>10, <2>1, Zenon DEF oauthSecretNameFromCluster
<1>5. workerNWPNameFromCluster(c) # workerNWPNameFromCluster(d)
  <2>1. <<"workers">> \in Seq(Part)
    BY DEF Words
  <2>. QED
    BY <1>10, <2>1, Zenon DEF workerNWPNameFromCluster
<1>6. headNWPNameFromCluster(c) # headNWPNameFromCluster(d)
  <2>1. <<"head">> \in Seq(Part)
    BY DEF Words
  <2>. QED
    BY <1>10, <2>1, Zenon DEF headNWPNameFromCluster
<1>7. caSecretNameFromCluster(c) # caSecretNameFromCluster(d)
  <2>1. <<"ca", "secret">> \in Seq(Part)
    BY DEF Words
  <2>2. /\ c.name \o <<"ca", "secret">> \in Seq(Part)
        /\ d.name \o <<"ca", "secret">> \in Seq(Part)
    BY <1>10, <2>1, Zenon
  <2>3. /\ c.name \o <<"ca", "secret">> # d.name \o <<"ca", "secret">>
        /\ <<"ca", "secret">> \o c.name # <<"ca", "secret">> \o d.name
    BY <1>10, <2>1, Zenon
  <2>. QED
    BY <2>2, <2>3, CancelHash, Zenon DEF caSecretNameFromCluster
<1>8. dashboardNameFromCluster(c) # dashboardNameFromCluster(d)
  <2>1. <<"ray", "dashboard">> \in Seq(Part)
    BY DEF Words
  <2>. QED
    BY <1>10, <2>1, Zenon DEF dashboardNameFromCluster
<1>9. rayClientNameFromCluster(c) # rayClientNameFromCluster(d)
  <2>1. <<"rayclient">> \in Seq(Part)
    BY DEF Words
  <2>. QED
    BY <1>10, <2>1, Zenon DEF rayClientNameFromCluster
<1>. QED
  BY <1>1, <1>2, <1>3, <1>4, <1>5, <1>6, <1>7, <1>8, <1>9

\* The ClusterRoleBinding: two clusters of one release share its name exactly if
\* their names and namespaces, joined by a dash, agree; the hash tells nothing
\* more apart, and no two clusters of one namespace do (lines 360-365).
THEOREM BindingNamesClash ==
    ASSUME NEW Part, Words \subseteq Part,
           NEW c \in Cluster(Part), NEW d \in Cluster(Part),
           c.annotated = d.annotated
    PROVE  /\ crbNameFromCluster(c) = crbNameFromCluster(d) <=>
                 c.name \o c.namespace = d.name \o d.namespace
           /\ c.namespace = d.namespace /\ c.name # d.name =>
                 crbNameFromCluster(c) # crbNameFromCluster(d)
<1>0. /\ c.name \in Seq(Part) /\ c.namespace \in Seq(Part)
      /\ d.name \in Seq(Part) /\ d.namespace \in Seq(Part)
      /\ <<"auth">> \in Seq(Part)
  BY DEF Cluster, Words
<1>1. c.name \o c.namespace \in Seq(Part) /\ d.name \o d.namespace \in Seq(Part)
  BY <1>0
<1>2. crbNameFromCluster(c) = crbNameFromCluster(d) <=>
        c.name \o c.namespace = d.name \o d.namespace
  <2>. DEFINE s == c.name \o c.namespace
              t == d.name \o d.namespace
              u == <<"auth">>
  <2>1. s \in Seq(Part) /\ t \in Seq(Part) /\ u \in Seq(Part)
    BY <1>0, <1>1
  <2>2. /\ crbNameFromCluster(c) = UniqueUnlessOld(c, s \o u)
        /\ crbNameFromCluster(d) = UniqueUnlessOld(d, t \o u)
    BY DEF crbNameFromCluster
  <2>. HIDE DEF s, t, u
  <2>3. UniqueUnlessOld(c, s \o u) = UniqueUnlessOld(d, t \o u) => s = t
    BY <2>1, SuffixTellsApart, Zenon
  <2>4. s = t => UniqueUnlessOld(c, s \o u) = UniqueUnlessOld(d, t \o u)
    BY DEF UniqueUnlessOld
  <2>. QED
    BY <2>2, <2>3, <2>4 DEF s, t
<1>3. c.namespace = d.namespace /\ c.name # d.name =>
        c.name \o c.namespace # d.name \o d.namespace
  BY <1>0, CancelRight
<1>. QED
  BY <1>2, <1>3
=============================================================================
