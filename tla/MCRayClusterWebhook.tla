------------------------ MODULE MCRayClusterWebhook ------------------------
(***************************************************************************)
(* The webhook on RayClusters with up to two containers in the head group  *)
(* and one worker group, in which users have used managed names as well as *)
(* their own.                                                              *)
(***************************************************************************)
EXTENDS RayClusterWebhook

Users == {"mine", "ray", "user"}

mine == Item("mine", "user", 0)
Taken(name) == Item(name, "user", 0)

Container(name, env, mounts) ==
    [name |-> name, body |-> 0, env |-> env, mounts |-> mounts]

ray == Container("ray", <<mine>>, <<mine>>)
proxy == Container("oauth-proxy", <<mine>>, <<>>)

HeadContainers ==
    {<<>>, <<ray>>, <<ray, proxy>>, <<proxy, ray>>,
     <<Container("ray", <<Taken("RAY_USE_TLS"), mine>>, <<Taken("ca-vol")>>), ray>>,
     <<Container("ray", <<mine, Taken("RAY_USE_TLS"), Taken("RAY_USE_TLS")>>,
                 <<mine, Taken("server-cert")>>)>>}

Volumes == {<<>>, <<Taken("proxy-tls-secret"), mine>>, <<mine, Taken("ca-vol")>>}

Inits == {<<mine>>, <<Taken("create-cert"), mine>>}

Pods(containers) ==
    {[containers |-> c, init |-> i, volumes |-> v, sa |-> "user"] :
        c \in containers, i \in Inits, v \in Volumes}

OnePod == [containers |-> <<ray>>, init |-> <<>>, volumes |-> <<>>, sa |-> "user"]

WorkerGroups ==
    {<<>>, <<OnePod>>, <<[OnePod EXCEPT !.containers = <<>>]>>,
     <<[OnePod EXCEPT !.containers[1].env = <<Taken("MY_POD_IP")>>,
                      !.init = <<mine, Taken("create-cert")>>]>>}

Cluster(head, workers, ingress) ==
    [exists |-> TRUE, del |-> FALSE, ann |-> FALSE, ingress |-> ingress,
     head |-> head, workers |-> workers]

\* Every head group with a plain worker group, and every worker group with a
\* plain head group.
Choices ==
    {Cluster(h, <<OnePod>>, FALSE) : h \in Pods(HeadContainers)} \cup
    {Cluster(OnePod, w, b) : w \in WorkerGroups, b \in BOOLEAN}

\* Before the operator, clusters had no empty groups: KubeRay needs a container.
Before == {Cluster(OnePod, <<>>, TRUE),
           Cluster([OnePod EXCEPT !.containers = <<ray, proxy>>], <<OnePod>>, FALSE)}
=============================================================================
