----------------------------- MODULE MCK8sCache -----------------------------
(***************************************************************************)
(* A small cluster for K8sCache: p1 and p2 may have the same address one   *)
(* after the other, p3 runs with host networking on the agent's node; web  *)
(* selects p1 and p2, other is a service of another namespace with the     *)
(* same selector, and manual has no selector; node w may be replaced by    *)
(* another of its name.                                                    *)
(***************************************************************************)
EXTENDS K8sCache

Pods3 ==
    [p1 |-> [ns |-> "shop", labels |-> {"app", "v1"}, node |-> "w", ips |-> {"10.0.0.1"}],
     p2 |-> [ns |-> "shop", labels |-> {"app", "v2"}, node |-> "w", ips |-> {"10.0.0.1", "10.0.0.2"}],
     p3 |-> [ns |-> "kube", labels |-> {"proxy"}, node |-> "w", ips |-> {"192.168.0.1"}]]

Services3 ==
    [web    |-> [ns |-> "shop", ip |-> "10.1.0.1", selector |-> {"app"}],
     other  |-> [ns |-> "test", ip |-> "10.1.0.2", selector |-> {"app"}],
     manual |-> [ns |-> "shop", ip |-> "10.1.0.3", selector |-> NoSelector]]

Nodes2 == [w1 |-> "w", w2 |-> "w"]

Cluster1 ==
    [pods |-> [p1 |-> "10.0.0.1", p2 |-> "", p3 |-> "192.168.0.1"],
     running |-> {"p1", "p3"}, services |-> {"web", "manual"}, nodes |-> {"w1"}]

SeenAddresses == {"10.0.0.1", "10.0.0.2", "10.1.0.1", "192.168.0.1"}
Objects == {"p1", "p2", "web", "other", "w1", "w2"}
=============================================================================
