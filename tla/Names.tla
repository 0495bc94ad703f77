-------------------------------- MODULE Names --------------------------------
(***************************************************************************)
(* The names of the objects the controller creates for a RayCluster.  A    *)
(* name is the sequence of its parts between dashes: the cluster a-b is    *)
(* <<"a", "b">>, and joining two names with a dash is concatenation.  The  *)
(* eight digits of the hash are one part.                                  *)
(***************************************************************************)
EXTENDS Sequences

CONSTANT seededHash(_)      \* the seed is the same for all names

RCCUniqueName(s) == Append(s, seededHash(s))

\* Clusters without the version annotation keep the names of older releases.
UniqueUnlessOld(cluster, s) == IF cluster.annotated THEN RCCUniqueName(s) ELSE s

\* The ClusterRoleBinding is not namespaced, so its name has the namespace in it.
crbNameFromCluster(cluster) ==
    UniqueUnlessOld(cluster, cluster.name \o cluster.namespace \o <<"auth">>)

\* The other objects live in the cluster's namespace.
oauthServiceAccountNameFromCluster(cluster) ==
    UniqueUnlessOld(cluster, cluster.name \o <<"oauth", "proxy">>)

oauthServiceNameFromCluster(cluster) ==
    UniqueUnlessOld(cluster, cluster.name \o <<"oauth">>)

oauthServiceTLSSecretName(cluster) ==
    UniqueUnlessOld(cluster, cluster.name \o <<"proxy", "tls", "secret">>)

oauthSecretNameFromCluster(cluster) ==
    UniqueUnlessOld(cluster, cluster.name \o <<"oauth", "config">>)

caSecretNameFromCluster(cluster) ==
    IF cluster.annotated THEN RCCUniqueName(cluster.name \o <<"ca", "secret">>)
                         ELSE <<"ca", "secret">> \o cluster.name

workerNWPNameFromCluster(cluster) ==
    UniqueUnlessOld(cluster, cluster.name \o <<"workers">>)

headNWPNameFromCluster(cluster) ==
    UniqueUnlessOld(cluster, cluster.name \o <<"head">>)

dashboardNameFromCluster(cluster) == <<"ray", "dashboard">> \o cluster.name

rayClientNameFromCluster(cluster) == <<"rayclient">> \o cluster.name

\* The first label of the host; the ingress domain follows.
getIngressHost(cluster, ingressName) == ingressName \o cluster.namespace
=============================================================================
