------------------------------ MODULE MCCluster ------------------------------
(* TLC instances of Cluster: two workers and a master on a site of two pools,    *)
(* with a rolling deployment, a daemonset, a database and a pod of nobody.       *)
EXTENDS Cluster

Uid(v) == <<v, "vm">>
Prod == <<None, "prod">>
N(name, uuid, vcpu, ram, taints) ==
    [name |-> name, pid |-> None, uuid |-> uuid, vcpu |-> vcpu, ram |-> ram,
     allocVcpu |-> vcpu - 2, allocRam |-> ram - 4, cordoned |-> FALSE, taints |-> taints, ready |-> "yes"]
P(ns, name, node, ask, owner, hash) ==
    [ns |-> ns, name |-> name, node |-> node, phase |-> "Running", containers |-> <<ask>>, inits |-> <<>>,
     overhead |-> <<0, 0>>, owner |-> owner, hash |-> hash, volumes |-> {}]
Owner(kind, base, hash) == [kind |-> kind, name |-> <<base, hash>>]
W1 == <<"w1", "lan">>  W2 == <<"w2", "lan">>  M1 == <<"m1", None>>

MCNodes ==
    {N(W1, <<"u1", 0>>, 40, 64, {}),
     [N(W2, <<"u2", 1>>, 20, 64, {<<"hint", "PreferNoSchedule">>, <<None, "NoExecute">>}) EXCEPT !.pid = <<"uuid", <<"u2", 0>>>>],
     N(M1, <<"u3", 1>>, 20, 32, {<<"master", "NoSchedule">>})}
MCPods ==
    {P("web", "web-1", W1, <<8, 16>>, Owner("ReplicaSet", "web", "old"), "old"),
     P("web", "web-2", W2, <<8, 16>>, Owner("ReplicaSet", "web", "old"), "old"),
     [P("db", "db-0", W1, <<4, 8>>, Owner("StatefulSet", "db", None), None) EXCEPT
         !.inits = <<[always |-> TRUE, ask |-> <<1, 1>>], [always |-> FALSE, ask |-> <<6, 2>>]>>],
     P("sys", "log-1", W1, <<2, 0>>, Owner("DaemonSet", "log", None), None),
     P("sys", "log-2", W2, <<2, 0>>, Owner("DaemonSet", "log", None), None),
     P("sys", "etcd", M1, <<12, 32>>, Owner("Node", "m1", None), None),
     [P("lab", "shell", M1, <<9, 4>>, None, None) EXCEPT !.overhead = <<1, 1>>]}
MCVms ==
    {[uid |-> Uid("v1"), name |-> <<"w1", None>>, pool |-> Prod, uuids |-> {<<"u1", 0>>, <<"i1", 0>>}],
     [uid |-> Uid("v2"), name |-> <<"w2", None>>, pool |-> Prod, uuids |-> {<<"u2", 0>>}],
     [uid |-> Uid("v3"), name |-> <<"m1", None>>, pool |-> Prod, uuids |-> {<<"u3", 0>>}],
     [uid |-> Uid("v4"), name |-> <<"other", None>>, pool |-> None, uuids |-> {<<"u4", 0>>}]}
Rec(uid, name, amount) == [keys |-> {uid, name}, amount |-> amount, from |-> 1, to |-> 1]
MCSpend ==
    [records |-> {Rec(Uid("v1"), <<"w1", None>>, 900), Rec(Uid("v2"), <<"w2", None>>, 500), Rec(Uid("v3"), <<"m1", None>>, 301),
                  Rec(Uid("v4"), <<"other", None>>, 70)},
     pools |-> <<[pool |-> Prod, weights |-> [cpu |-> 50, ram |-> 30, storage |-> 20],
                  storageRate |-> 10, overcommit |-> 150]>>]
MCUsage ==
    [k \in {<<"web", "web-1">>, <<"web", "web-2">>, <<"db", "db-0">>, <<"sys", "log-1">>} |->
        [ask |-> CASE k[1] = "db" -> <<1, 7>> [] k[1] = "sys" -> <<0, 1>> [] OTHER -> <<2, 3>>, samples |-> 2]]

MCFirst ==
    {[nodes |-> MCNodes, pods |-> MCPods, vms |-> MCVms, spend |-> MCSpend, usage |-> MCUsage, settings |-> s] :
        s \in {[source |-> "metrics-server", byName |-> FALSE], [source |-> "prometheus", byName |-> TRUE]}}
MCRunsOn == [n \in {W1, W2, M1, Short(W1), Short(W2)} |-> CASE n \in {W1, Short(W1)} -> Uid("v1") [] n \in {W2, Short(W2)} -> Uid("v2") [] OTHER -> Uid("v3")]
MCNameRank == M1 :> 1 @@ Short(W1) :> 2 @@ W1 :> 3 @@ Short(W2) :> 4 @@ W2 :> 5
=============================================================================
