--------------------------- MODULE K8sCacheProofs ---------------------------
(***************************************************************************)
(* What the lookups of the Kubernetes client are worth, for every cluster, *)
(* every history of changes and every pace of the three informers.         *)
(*                                                                         *)
(* The invariant remembers for each attribute that there is a version      *)
(* among the ones that were read at which the index answered so (PodRead,  *)
(* NodeRead, ...).  The history is only appended to, so what was true at a *)
(* version stays true of it whatever the cluster and the informers do      *)
(* between the steps of a lookup.                                          *)
(***************************************************************************)
EXTENDS K8sCache, FiniteSetTheorems, SequenceTheorems, TLAPS

\* A node's name is unique in a version of the cluster.
NamedOnce(c) == \A m, n \in c.nodes : Node[m] = Node[n] => m = n
NodesNamed == \A n \in 1 .. Present : NamedOnce(history[n])

\* Nothing is read, and no packet captured, before the stores are filled.
Synced ==
    /\ started => \A k \in Kinds : at[k] > 0
    /\ reading # "idle" => started /\ captured > 0
    /\ read \subseteq 1 .. Present

\* What the indexes answered, each at one of the versions that were read.
PodRead ==
    /\ attrs.type = "pod" /\ attrs.pod \in DOMAIN Pod
    /\ \E n \in read : history[n].pods[attrs.pod] = ip
NoPodRead == attrs.pod = None /\ \E n \in read : PodsAt(history[n], ip) = {}
NodeRead ==
    \E n \in read : attrs.node \in AnyOf({m \in history[n].nodes : Node[m] = Pod[attrs.pod].node})
ServiceRead ==
    \E n \in read : attrs.service \in AnyOf({s \in history[n].services : Selects(s, attrs.pod)})
ClusterIPRead ==
    /\ attrs = [NoAttrs EXCEPT !.type = IF attrs.service = None THEN None ELSE "service",
                               !.service = attrs.service]
    /\ \E n \in read : attrs.service \in AnyOf({s \in history[n].services : Service[s].ip = ip})

\* What is known at each place of a lookup.
LookupInv ==
    /\ reading \in {"idle", "guard", "pod"} => attrs = NoAttrs
    /\ reading # "idle" => ip \in Addresses
    /\ reading \notin {"idle", "guard", "done"} => ip # AgentIP
    /\ reading = "node" => PodRead /\ attrs.node = None /\ attrs.service = None
    /\ reading = "service" => PodRead /\ NodeRead /\ attrs.service = None
    /\ reading = "clusterIP" => NoPodRead /\ attrs = NoAttrs
    /\ reading = "done" =>
          \/ ip = AgentIP /\ attrs = NoAttrs
          \/ ip # AgentIP /\ PodRead /\ NodeRead /\ ServiceRead
          \/ ip # AgentIP /\ NoPodRead /\ ClusterIPRead

IInv == TypeOK /\ NodesNamed /\ Synced /\ LookupInv

-----------------------------------------------------------------------------
(* Changes of the cluster.                                                 *)

LEMMA MaxChangesType == MaxChanges \in Nat
BY K8sConstants, Zenon

LEMMA FirstClusterType == FirstCluster \in Clusters /\ NamedOnce(FirstCluster)
BY K8sConstants, Zenon DEF NamedOnce

LEMMA AddressFacts == AgentIP \in Addresses /\ NoIP \notin Addresses /\ None \notin Addresses
BY K8sConstants, Zenon

LEMMA NoneIsNoObject ==
    None \notin DOMAIN Pod /\ None \notin DOMAIN Service /\ None \notin DOMAIN Node
BY K8sConstants, Zenon

LEMMA PodIPsFacts ==
    NoIP \in PodIPs /\ None \in PodIPs /\ \A p \in DOMAIN Pod : Pod[p].ips \subseteq PodIPs
BY DEF PodIPs

(* A change leads to a version of the cluster, and replaces a node by one  *)
(* of its name.                                                            *)
LEMMA ChangedPodType ==
    ASSUME NEW c \in Clusters, NEW p \in DOMAIN Pod, NEW d \in ChangedPod(c, p)
    PROVE  d \in Clusters /\ d.nodes = c.nodes
<1> DEFINE Put(a)  == [c EXCEPT !.pods[p] = a]
           Run(a)  == [c EXCEPT !.pods[p] = a, !.running = c.running \cup {p}]
           Finish  == [c EXCEPT !.running = c.running \ {p}]
           Good(e) == e \in Clusters /\ e.nodes = c.nodes
<1>1. None # NoIP
  BY Zenon DEF None, NoIP
<1>2. Good(Put(NoIP))
  BY PodIPsFacts DEF Clusters
<1>3. ASSUME NEW a \in PodIPs PROVE Good(Run(a))
  BY DEF Clusters
<1>4. Good(Finish)
  BY DEF Clusters
<1>5. Good(Deleted(c, p))
  BY PodIPsFacts DEF Clusters, Deleted
<1>6. CASE c.pods[p] = None
  <2>1. d = Put(NoIP)
    BY <1>1, <1>6 DEF ChangedPod
  <2> HIDE DEF Put
  <2> QED
    BY <1>2, <2>1
<1>7. CASE c.pods[p] = NoIP
  <2>1. d = Deleted(c, p) \/ \E a \in Pod[p].ips : d = Run(a)
    BY <1>1, <1>7 DEF ChangedPod
  <2> HIDE DEF Run
  <2> QED
    BY <1>3, <1>5, <2>1, PodIPsFacts
<1>8. CASE c.pods[p] # None /\ c.pods[p] # NoIP
  <2>1. d = Deleted(c, p) \/ d = Finish
    BY <1>8 DEF ChangedPod
  <2> HIDE DEF Finish
  <2> QED
    BY <1>4, <1>5, <2>1
<1> QED
  BY <1>6, <1>7, <1>8

LEMMA ChangedType ==
    ASSUME NEW c \in Clusters, NamedOnce(c), NEW d \in Changed(c)
    PROVE  d \in Clusters /\ NamedOnce(d)
<1>1. CASE \E p \in DOMAIN Pod : d \in ChangedPod(c, p)
  BY <1>1, ChangedPodType DEF NamedOnce
<1>2. CASE \E s \in DOMAIN Service : \/ d = [c EXCEPT !.services = @ \cup {s}]
                                     \/ d = [c EXCEPT !.services = @ \ {s}]
  BY <1>2 DEF Clusters, NamedOnce
<1>3. CASE \E n \in DOMAIN Node : d = [c EXCEPT !.nodes = {m \in @ : Node[m] # Node[n]} \cup {n}]
  <2>1. PICK n \in DOMAIN Node : d = [c EXCEPT !.nodes = {m \in @ : Node[m] # Node[n]} \cup {n}]
    BY <1>3
  <2>2. d \in Clusters /\ d.nodes = {m \in c.nodes : Node[m] # Node[n]} \cup {n}
    BY <2>1 DEF Clusters
  <2> QED
    BY <2>2 DEF NamedOnce
<1> QED
  BY <1>1, <1>2, <1>3 DEF Changed

-----------------------------------------------------------------------------
(* The induction.                                                          *)

LEMMA InitIInv == Init => IInv
<1> SUFFICES ASSUME Init PROVE IInv
  OBVIOUS
<1>0. /\ history = <<FirstCluster>> /\ at = [k \in Kinds |-> 0] /\ started = FALSE
      /\ captured = 0 /\ ip = NoIP /\ reading = "idle" /\ attrs = NoAttrs /\ read = {}
  BY DEF Init
<1>1. history \in Seq(Clusters) /\ Len(history) = 1 /\ history[1] = FirstCluster
  BY <1>0, FirstClusterType
<1>2. NoAttrs \in Attrs
  BY DEF NoAttrs, Attrs
<1>3. TypeOK
  <2>1. /\ Present = 1 /\ Present \in 1 .. MaxChanges + 1
        /\ at \in [Kinds -> 0 .. Present] /\ captured \in 0 .. Present /\ read \subseteq 0 .. Present
    BY <1>0, <1>1, MaxChangesType DEF Present
  <2> QED
    BY <1>0, <1>1, <1>2, <2>1 DEF TypeOK
<1>4. NodesNamed
  BY <1>1, FirstClusterType DEF NodesNamed, Present
<1>5. Synced
  BY <1>0 DEF Synced
<1>6. LookupInv
  BY <1>0 DEF LookupInv
<1> QED
  BY <1>3, <1>4, <1>5, <1>6 DEF IInv

LEMMA NoAttrsFields ==
    /\ NoAttrs.type = None /\ NoAttrs.pod = None /\ NoAttrs.node = None /\ NoAttrs.service = None
    /\ NoAttrs \in Attrs
BY DEF NoAttrs, Attrs

(* The history is appended to, and what was read of it stays true.         *)
LEMMA ChangeStep == IInv /\ Change => IInv'
<1> SUFFICES ASSUME IInv, Change PROVE IInv'
  OBVIOUS
<1>0. TypeOK /\ NodesNamed /\ Synced /\ LookupInv
  BY DEF IInv
<1>1. PICK c \in Changed(history[Present]) : history' = Append(history, c)
  BY DEF Change
<1>2. Present <= MaxChanges /\ UNCHANGED <<at, started, captured, ip, reading, attrs, read>>
  BY DEF Change, lookup
<1>3. /\ history \in Seq(Clusters) /\ Present \in Nat /\ Present >= 1
      /\ Present = Len(history) /\ MaxChanges \in Nat
  BY <1>0, MaxChangesType DEF TypeOK, Present
<1>4. c \in Clusters /\ NamedOnce(c)
  <2>1. history[Present] \in Clusters /\ NamedOnce(history[Present])
    BY <1>0, <1>3 DEF NodesNamed
  <2> QED
    BY <1>1, <2>1, ChangedType
<1>5. /\ history' \in Seq(Clusters) /\ Present' = Present + 1
      /\ \A n \in 1 .. Present : history'[n] = history[n]
      /\ history'[Present + 1] = c
  BY <1>1, <1>3, <1>4, AppendProperties DEF Present
<1>6. TypeOK'
  <2>1. Present' \in 1 .. MaxChanges + 1
    BY <1>2, <1>3, <1>5
  <2>2. at' \in [Kinds -> 0 .. Present'] /\ captured' \in 0 .. Present' /\ read' \subseteq 0 .. Present'
    BY <1>0, <1>2, <1>3, <1>5 DEF TypeOK
  <2> QED
    BY <1>0, <1>2, <1>5, <2>1, <2>2 DEF TypeOK
<1>7. NodesNamed'
  <2> SUFFICES ASSUME NEW n \in 1 .. Present' PROVE NamedOnce(history'[n])
    BY DEF NodesNamed, NamedOnce
  <2>1. CASE n \in 1 .. Present
    BY <1>0, <1>5, <2>1 DEF NodesNamed
  <2>2. CASE n = Present + 1
    BY <1>4, <1>5, <2>2
  <2> QED
    BY <1>3, <1>5, <2>1, <2>2
<1>8. Synced'
  BY <1>0, <1>2, <1>3, <1>5 DEF Synced
<1>9. LookupInv'
  <2>1. \A n \in read : history'[n] = history[n]
    BY <1>0, <1>5 DEF Synced
  <2>2. /\ PodRead => PodRead'
        /\ NoPodRead => NoPodRead'
        /\ NodeRead => NodeRead'
        /\ ServiceRead => ServiceRead'
        /\ ClusterIPRead => ClusterIPRead'
    <3>1. PodRead => PodRead'
      BY <1>2, <2>1 DEF PodRead
    <3>2. NoPodRead => NoPodRead'
      BY <1>2, <2>1 DEF NoPodRead, PodsAt
    <3>3. NodeRead => NodeRead'
      BY <1>2, <2>1 DEF NodeRead
    <3>4. ServiceRead => ServiceRead'
      BY <1>2, <2>1 DEF ServiceRead
    <3>5. ClusterIPRead => ClusterIPRead'
      BY <1>2, <2>1 DEF ClusterIPRead
    <3> QED
      BY <3>1, <3>2, <3>3, <3>4, <3>5
  <2>3. reading' = reading /\ ip' = ip /\ attrs' = attrs
    BY <1>2
  <2> QED
    BY <1>0, <2>2, <2>3 DEF LookupInv
<1> QED
  BY <1>6, <1>7, <1>8, <1>9 DEF IInv

(* What a lookup knows does not depend on the informers.                   *)
LEMMA LookupKept ==
    ASSUME LookupInv, UNCHANGED <<history, ip, reading, attrs, read>>
    PROVE  LookupInv'
BY DEF LookupInv, PodRead, NoPodRead, NodeRead, ServiceRead, ClusterIPRead

LEMMA InformerStep == IInv /\ (Start \/ \E k \in Kinds : Follow(k)) => IInv'
<1> SUFFICES ASSUME IInv, Start \/ \E k \in Kinds : Follow(k) PROVE IInv'
  OBVIOUS
<1>0. TypeOK /\ NodesNamed /\ Synced /\ LookupInv
  BY DEF IInv
<1>1. UNCHANGED <<history, captured, ip, reading, attrs, read>>
  BY DEF Start, Follow, lookup
<1>2. LookupInv' /\ NodesNamed' /\ Present' = Present
  BY <1>0, <1>1, LookupKept DEF NodesNamed, NamedOnce, Present
<1>3. CASE Start
  <2>1. started' = TRUE /\ UNCHANGED at /\ \A k \in Kinds : at[k] > 0
    BY <1>3 DEF Start
  <2> QED
    BY <1>0, <1>1, <1>2, <2>1 DEF IInv, TypeOK, Synced
<1>4. ASSUME NEW k \in Kinds, Follow(k) PROVE IInv'
  <2>1. PICK n \in at[k] + 1 .. Present : at' = [at EXCEPT ![k] = n]
    BY <1>4 DEF Follow
  <2>2. at \in [Kinds -> 0 .. Present] /\ Present \in Nat /\ UNCHANGED started
    BY <1>0, <1>4 DEF TypeOK, Follow
  <2>3. at' \in [Kinds -> 0 .. Present] /\ \A j \in Kinds : at[j] > 0 => at'[j] > 0
    BY <2>1, <2>2
  <2> QED
    BY <1>0, <1>1, <1>2, <2>2, <2>3 DEF IInv, TypeOK, Synced
<1> QED
  BY <1>3, <1>4

LEMMA CaptureStep == IInv /\ Capture => IInv'
<1> SUFFICES ASSUME IInv, Capture PROVE IInv'
  OBVIOUS
<1>0. TypeOK /\ NodesNamed /\ Synced /\ LookupInv
  BY DEF IInv
<1>1. /\ started /\ reading = "idle" /\ captured' = Present /\ ip' \in Addresses
      /\ reading' = "guard" /\ UNCHANGED <<history, at, started, attrs, read>>
  BY DEF Capture, cluster
<1>2. Present \in Nat /\ Present >= 1 /\ Present' = Present /\ attrs = NoAttrs
  BY <1>0, <1>1, MaxChangesType DEF TypeOK, Present, LookupInv
<1>3. TypeOK' /\ Synced'
  BY <1>0, <1>1, <1>2 DEF TypeOK, Synced
<1>4. NodesNamed'
  BY <1>0, <1>1, <1>2 DEF NodesNamed, NamedOnce
<1>5. LookupInv'
  BY <1>1, <1>2 DEF LookupInv
<1> QED
  BY <1>3, <1>4, <1>5 DEF IInv

LEMMA GuardStep == IInv /\ Guard => IInv'
<1> SUFFICES ASSUME IInv, Guard PROVE IInv'
  OBVIOUS
<1>0. TypeOK /\ NodesNamed /\ Synced /\ LookupInv
  BY DEF IInv
<1>1. /\ reading = "guard" /\ reading' = IF ip \in {NoIP, AgentIP} THEN "done" ELSE "pod"
      /\ UNCHANGED <<history, at, started, captured, ip, attrs, read>>
  BY DEF Guard, cluster
<1>2. Present' = Present /\ attrs = NoAttrs /\ ip \in Addresses /\ ip # NoIP
  BY <1>0, <1>1, AddressFacts DEF Present, LookupInv
<1>3. TypeOK' /\ Synced'
  BY <1>0, <1>1, <1>2 DEF TypeOK, Synced
<1>4. NodesNamed'
  BY <1>0, <1>1, <1>2 DEF NodesNamed, NamedOnce
<1>5. LookupInv'
  BY <1>1, <1>2 DEF LookupInv
<1> QED
  BY <1>3, <1>4, <1>5 DEF IInv

(* A store that is read is filled.                                         *)
LEMMA Filled ==
    ASSUME IInv, reading # "idle", NEW k \in Kinds
    PROVE  /\ at[k] \in 1 .. Present /\ Version(at[k]) = history[at[k]]
           /\ history[at[k]] \in Clusters
<1>1. at[k] \in 0 .. Present /\ at[k] > 0 /\ Present \in Nat
  BY MaxChangesType DEF IInv, TypeOK, Synced
<1>2. history \in Seq(Clusters) /\ Present = Len(history)
  BY DEF IInv, TypeOK, Present
<1> QED
  BY <1>1, <1>2 DEF Version

(* What every step of a lookup that reads a store keeps.                   *)
LEMMA StepKeeps ==
    ASSUME IInv, NEW from, from # "idle", NEW k \in Kinds,
           NEW to \in {"node", "clusterIP", "service", "done"},
           Step(from, k, to), attrs' \in Attrs
    PROVE  /\ TypeOK' /\ NodesNamed' /\ Synced'
           /\ reading = from /\ reading' = to /\ read' = read \cup {at[k]}
           /\ UNCHANGED <<history, ip>>
           /\ Version(at[k]) = history[at[k]] /\ history[at[k]] \in Clusters
<1>1. /\ reading = from /\ reading' = to /\ read' = read \cup {at[k]}
      /\ UNCHANGED <<history, at, started, captured, ip>>
  BY DEF Step, cluster
<1>2. TypeOK /\ NodesNamed /\ Synced /\ Present' = Present /\ Present \in Nat
  BY <1>1, MaxChangesType DEF IInv, TypeOK, Present
<1>3. /\ at[k] \in 1 .. Present /\ Version(at[k]) = history[at[k]]
      /\ history[at[k]] \in Clusters
  BY <1>1, Filled
<1>4. read' \subseteq 1 .. Present /\ read' \subseteq 0 .. Present
  <2>1. read \subseteq 1 .. Present
    BY <1>2 DEF Synced
  <2>2. read' \subseteq 1 .. Present
    BY <1>1, <1>3, <2>1
  <2>3. 1 .. Present \subseteq 0 .. Present
    BY <1>2
  <2> QED
    BY <2>2, <2>3
<1>5. TypeOK'
  BY <1>1, <1>2, <1>4 DEF TypeOK
<1>6. Synced'
  BY <1>1, <1>2, <1>4 DEF Synced
<1>7. NodesNamed'
  BY <1>1, <1>2 DEF NodesNamed, NamedOnce
<1> QED
  BY <1>1, <1>3, <1>5, <1>6, <1>7

LEMMA PodFoundStep == IInv /\ PodFound => IInv'
<1> SUFFICES ASSUME IInv, PodFound PROVE IInv'
  OBVIOUS
<1>1. PICK p \in GetPodByIPAddr(ip) \ {None} :
          attrs' = [attrs EXCEPT !.type = "pod", !.pod = p] /\ Step("pod", "pods", "node")
  BY DEF PodFound
<1>2. p \in DOMAIN Pod /\ Version(at["pods"]).pods[p] = ip
  BY <1>1 DEF GetPodByIPAddr, AnyOf, PodsAt, Pods
<1>3. reading = "pod"
  BY <1>1 DEF Step
<1>4. attrs = NoAttrs /\ ip \in Addresses /\ ip # AgentIP
  BY <1>3 DEF IInv, LookupInv
<1>5. /\ attrs'.type = "pod" /\ attrs'.pod = p /\ attrs'.node = None /\ attrs'.service = None
      /\ attrs' \in Attrs
  BY <1>1, <1>2, <1>4 DEF NoAttrs, Attrs
<1>6. /\ TypeOK' /\ NodesNamed' /\ Synced' /\ reading' = "node"
      /\ read' = read \cup {at["pods"]} /\ UNCHANGED <<history, ip>>
      /\ Version(at["pods"]) = history[at["pods"]]
  BY <1>1, <1>5, StepKeeps DEF Kinds
<1>7. PodRead'
  BY <1>2, <1>5, <1>6 DEF PodRead
<1>8. LookupInv'
  BY <1>4, <1>5, <1>6, <1>7 DEF LookupInv
<1> QED
  BY <1>6, <1>8 DEF IInv

LEMMA PodNotFoundStep == IInv /\ PodNotFound => IInv'
<1> SUFFICES ASSUME IInv, PodNotFound PROVE IInv'
  OBVIOUS
<1>1. None \in GetPodByIPAddr(ip) /\ Step("pod", "pods", "clusterIP") /\ UNCHANGED attrs
  BY DEF PodNotFound
<1>2. PodsAt(Version(at["pods"]), ip) = {}
  <2>1. PodsAt(Version(at["pods"]), ip) \subseteq DOMAIN Pod
    BY DEF PodsAt
  <2> QED
    BY <1>1, <2>1, NoneIsNoObject DEF GetPodByIPAddr, AnyOf, Pods
<1>3. reading = "pod"
  BY <1>1 DEF Step
<1>4. attrs = NoAttrs /\ ip \in Addresses /\ ip # AgentIP
  BY <1>3 DEF IInv, LookupInv
<1>5. attrs' \in Attrs /\ attrs' = NoAttrs
  BY <1>1, <1>4, NoAttrsFields
<1>6. /\ TypeOK' /\ NodesNamed' /\ Synced' /\ reading' = "clusterIP"
      /\ read' = read \cup {at["pods"]} /\ UNCHANGED <<history, ip>>
      /\ Version(at["pods"]) = history[at["pods"]]
  BY <1>1, <1>5, StepKeeps DEF Kinds
<1>7. NoPodRead'
  BY <1>2, <1>5, <1>6, NoAttrsFields DEF NoPodRead, PodsAt
<1>8. LookupInv'
  BY <1>4, <1>5, <1>6, <1>7 DEF LookupInv
<1> QED
  BY <1>6, <1>8 DEF IInv

LEMMA ReadNodeStep == IInv /\ ReadNode => IInv'
<1> SUFFICES ASSUME IInv, ReadNode PROVE IInv'
  OBVIOUS
<1>1. PICK n \in GetNodeForPod(attrs.pod) : attrs' = [attrs EXCEPT !.node = n]
  BY DEF ReadNode
<1>2. Step("node", "nodes", "service") /\ reading = "node"
  BY DEF ReadNode, Step
<1>3. /\ PodRead /\ attrs.service = None /\ ip \in Addresses /\ ip # AgentIP /\ attrs \in Attrs
      /\ history[at["nodes"]] \in Clusters /\ Version(at["nodes"]) = history[at["nodes"]]
  BY <1>2, Filled DEF IInv, LookupInv, TypeOK, Kinds
<1>4. n \in AnyOf({m \in history[at["nodes"]].nodes : Node[m] = Pod[attrs.pod].node})
  BY <1>1, <1>3 DEF GetNodeForPod, Nodes
<1>5. n \in DOMAIN Node \cup {None}
  BY <1>3, <1>4 DEF AnyOf, Clusters
<1>6. /\ attrs'.type = attrs.type /\ attrs'.pod = attrs.pod /\ attrs'.node = n
      /\ attrs'.service = attrs.service /\ attrs' \in Attrs
  BY <1>1, <1>3, <1>5 DEF Attrs
<1>7. /\ TypeOK' /\ NodesNamed' /\ Synced' /\ reading' = "service"
      /\ read' = read \cup {at["nodes"]} /\ UNCHANGED <<history, ip>>
  BY <1>2, <1>6, StepKeeps DEF Kinds
<1>8. PodRead'
  BY <1>3, <1>6, <1>7 DEF PodRead
<1>9. NodeRead'
  BY <1>4, <1>6, <1>7 DEF NodeRead
<1>10. LookupInv'
  BY <1>3, <1>6, <1>7, <1>8, <1>9 DEF LookupInv
<1> QED
  BY <1>7, <1>10 DEF IInv

LEMMA ReadServiceForPodStep == IInv /\ ReadServiceForPod => IInv'
<1> SUFFICES ASSUME IInv, ReadServiceForPod PROVE IInv'
  OBVIOUS
<1>1. PICK s \in GetServiceForPod(attrs.pod) : attrs' = [attrs EXCEPT !.service = s]
  BY DEF ReadServiceForPod
<1>2. Step("service", "services", "done") /\ reading = "service"
  BY DEF ReadServiceForPod, Step
<1>3. /\ PodRead /\ NodeRead /\ ip \in Addresses /\ ip # AgentIP /\ attrs \in Attrs
      /\ history[at["services"]] \in Clusters
      /\ Version(at["services"]) = history[at["services"]]
  BY <1>2, Filled DEF IInv, LookupInv, TypeOK, Kinds
<1>4. s \in AnyOf({t \in history[at["services"]].services : Selects(t, attrs.pod)})
  BY <1>1, <1>3 DEF GetServiceForPod, Services
<1>5. s \in DOMAIN Service \cup {None}
  BY <1>3, <1>4 DEF AnyOf, Clusters
<1>6. /\ attrs'.type = attrs.type /\ attrs'.pod = attrs.pod /\ attrs'.node = attrs.node
      /\ attrs'.service = s /\ attrs' \in Attrs
  BY <1>1, <1>3, <1>5 DEF Attrs
<1>7. /\ TypeOK' /\ NodesNamed' /\ Synced' /\ reading' = "done"
      /\ read' = read \cup {at["services"]} /\ UNCHANGED <<history, ip>>
  BY <1>2, <1>6, StepKeeps DEF Kinds
<1>8. PodRead'
  BY <1>3, <1>6, <1>7 DEF PodRead
<1>9. NodeRead'
  BY <1>3, <1>6, <1>7 DEF NodeRead
<1>10. ServiceRead'
  BY <1>4, <1>6, <1>7 DEF ServiceRead
<1>11. LookupInv'
  BY <1>3, <1>7, <1>8, <1>9, <1>10 DEF LookupInv
<1> QED
  BY <1>7, <1>11 DEF IInv

LEMMA ReadServiceByIPStep == IInv /\ ReadServiceByIP => IInv'
<1> SUFFICES ASSUME IInv, ReadServiceByIP PROVE IInv'
  OBVIOUS
<1>1. PICK s \in GetServiceByIPAddr(ip) :
          attrs' = [attrs EXCEPT !.type = IF s = None THEN None ELSE "service", !.service = s]
  BY DEF ReadServiceByIP
<1>2. Step("clusterIP", "services", "done") /\ reading = "clusterIP"
  BY DEF ReadServiceByIP, Step
<1>3. /\ NoPodRead /\ attrs = NoAttrs /\ ip \in Addresses /\ ip # AgentIP
      /\ history[at["services"]] \in Clusters
      /\ Version(at["services"]) = history[at["services"]]
  BY <1>2, Filled DEF IInv, LookupInv, Kinds
<1>4. s \in AnyOf({t \in history[at["services"]].services : Service[t].ip = ip})
  BY <1>1, <1>3 DEF GetServiceByIPAddr, Services
<1>5. s \in DOMAIN Service \cup {None}
  BY <1>3, <1>4 DEF AnyOf, Clusters
<1>6. /\ attrs'.service = s /\ attrs'.pod = None /\ attrs' \in Attrs
      /\ attrs' = [NoAttrs EXCEPT !.type = IF s = None THEN None ELSE "service", !.service = s]
  BY <1>1, <1>3, <1>5 DEF Attrs, NoAttrs
<1>7. /\ TypeOK' /\ NodesNamed' /\ Synced' /\ reading' = "done"
      /\ read' = read \cup {at["services"]} /\ UNCHANGED <<history, ip>>
  BY <1>2, <1>6, StepKeeps DEF Kinds
<1>8. NoPodRead'
  BY <1>3, <1>6, <1>7 DEF NoPodRead, PodsAt
<1>9. ClusterIPRead'
  BY <1>4, <1>6, <1>7 DEF ClusterIPRead
<1>10. LookupInv'
  BY <1>3, <1>7, <1>8, <1>9 DEF LookupInv
<1> QED
  BY <1>7, <1>10 DEF IInv

LEMMA Invariance == Spec => []IInv
<1>1. IInv /\ [Next]_vars => IInv'
  <2> SUFFICES ASSUME IInv, [Next]_vars PROVE IInv'
    OBVIOUS
  <2>1. CASE UNCHANGED vars
    <3>1. UNCHANGED <<history, at, started, captured, ip, reading, attrs, read>>
      BY <2>1 DEF vars, cluster, lookup
    <3>2. LookupInv' /\ NodesNamed' /\ Present' = Present
      BY <3>1, LookupKept DEF IInv, NodesNamed, NamedOnce, Present
    <3> QED
      BY <3>1, <3>2 DEF IInv, TypeOK, Synced
  <2> QED
    BY <2>1, ChangeStep, InformerStep, CaptureStep, GuardStep, PodFoundStep, PodNotFoundStep,
       ReadNodeStep, ReadServiceForPodStep, ReadServiceByIPStep
       DEF Next, Lookup
<1> QED
  BY <1>1, InitIInv, PTL DEF Spec

(* The variables keep their types; in particular the informers never get   *)
(* ahead of the cluster, and every change leads to a cluster.              *)
THEOREM TypeCorrect == Spec => []TypeOK
<1>1. IInv => TypeOK
  BY DEF IInv
<1> QED
  BY <1>1, Invariance, PTL

-----------------------------------------------------------------------------
(* What the attributes say.                                                *)

\* The versions that were read are in the span, and so is the capture's.
LEMMA ReadInSpan ==
    ASSUME IInv PROVE /\ read \subseteq Span
                      /\ \A n \in Span : Version(n) = history[n] /\ history[n] \in Clusters
<1>1. read \subseteq 1 .. Present /\ Present \in Nat /\ history \in Seq(Clusters)
      /\ Present = Len(history)
  BY MaxChangesType DEF IInv, Synced, TypeOK, Present
<1>2. ASSUME NEW n \in read PROVE n \in Span
  BY <1>1 DEF Span
<1>3. ASSUME NEW n \in Span PROVE Version(n) = history[n] /\ history[n] \in Clusters
  BY <1>1 DEF Span, Version
<1> QED
  BY <1>2, <1>3

(* Whatever the cluster and the informers do during the lookup, the        *)
(* attributes are about one object.                                        *)
THEOREM AboutOneObject == Spec => []AttrsAreAboutOneObject
<1>1. ASSUME IInv PROVE AttrsAreAboutOneObject
  <2>1. /\ LookupInv /\ reading \in {"idle", "guard", "pod", "node", "service", "clusterIP", "done"}
        /\ None # "pod" /\ None # "service"
    BY <1>1 DEF IInv, TypeOK, None
  <2>2. CASE attrs = NoAttrs
    BY <2>1, <2>2, NoAttrsFields DEF AttrsAreAboutOneObject
  <2>3. CASE PodRead /\ (attrs.node = None \/ NodeRead) /\ (attrs.service = None \/ ServiceRead)
    <3>1. attrs.pod \in DOMAIN Pod /\ attrs.type = "pod"
      BY <2>3 DEF PodRead
    <3>2. \E n \in Span : Version(n).pods[attrs.pod] = ip
      BY <1>1, <2>3, ReadInSpan DEF PodRead
    <3>3. attrs.node # None => Node[attrs.node] = Pod[attrs.pod].node
      BY <2>3 DEF NodeRead, AnyOf
    <3>4. attrs.service # None => Selects(attrs.service, attrs.pod)
      BY <2>3 DEF ServiceRead, AnyOf
    <3> QED
      BY <3>1, <3>2, <3>3, <3>4 DEF AttrsAreAboutOneObject
  <2>4. CASE NoPodRead /\ ClusterIPRead
    <3>1. attrs.pod = None /\ \E n \in Span : PodsAt(Version(n), ip) = {}
      BY <1>1, <2>4, ReadInSpan DEF NoPodRead
    <3>2. attrs.type = "service" => Service[attrs.service].ip = ip
      <4>1. attrs.type = IF attrs.service = None THEN None ELSE "service"
        BY <2>4 DEF ClusterIPRead, NoAttrs
      <4> QED
        BY <2>1, <2>4, <4>1 DEF ClusterIPRead, AnyOf
    <3> QED
      BY <3>1, <3>2 DEF AttrsAreAboutOneObject
  <2> QED
    BY <2>1, <2>2, <2>3, <2>4 DEF LookupInv
<1> QED
  BY <1>1, Invariance, PTL

LEMMA OneElement ==
    ASSUME NEW S, IsFiniteSet(S), Cardinality(S) <= 1, NEW x \in S
    PROVE  S = {x}
<1>1. IsFiniteSet(S \ {x}) /\ Cardinality(S \ {x}) = Cardinality(S) - 1 /\ Cardinality(S) \in Nat
  BY FS_RemoveElement, FS_CardinalityType
<1>2. Cardinality(S \ {x}) = 0
  BY <1>1, FS_CardinalityType
<1>3. S \ {x} = {}
  BY <1>1, <1>2, FS_EmptySet
<1> QED
  BY <1>3

(* An index's answer is the one there is, if there is one at most.         *)
LEMMA AnswerIsThe ==
    ASSUME NEW S, IsFiniteSet(S), Cardinality(S) <= 1, NEW x \in AnyOf(S)
    PROVE  x = The(S)
<1>1. CASE S = {}
  BY <1>1 DEF AnyOf, The
<1>2. CASE S # {}
  <2>1. x \in S
    BY <1>2 DEF AnyOf
  <2>2. S = {x}
    BY <2>1, OneElement
  <2> QED
    BY <2>2 DEF The
<1> QED
  BY <1>1, <1>2

LEMMA TheOnly ==
    ASSUME NEW S, NEW x \in AnyOf(S), \A y, z \in S : y = z
    PROVE  x = The(S)
<1>1. CASE S = {}
  BY <1>1 DEF AnyOf, The
<1>2. CASE S # {}
  <2>1. x \in S /\ S = {x}
    BY <1>2 DEF AnyOf
  <2> QED
    BY <2>1 DEF The
<1> QED
  BY <1>1, <1>2

\* The parts of the truth, one by one.
LEMMA TruthParts ==
    ASSUME NEW n, NEW a
    PROVE  /\ Truth(n, a).pods = PodsAt(Version(n), a)
           /\ Truth(n, a).nodes = {m \in Version(n).nodes :
                                     \E p \in PodsAt(Version(n), a) : Node[m] = Pod[p].node}
           /\ Truth(n, a).selecting = {s \in Version(n).services :
                                         \E p \in PodsAt(Version(n), a) : Selects(s, p)}
           /\ Truth(n, a).services = {s \in Version(n).services : Service[s].ip = a}
BY DEF Truth

LEMMA FiniteTruth ==
    ASSUME NEW n, NEW a, Version(n) \in Clusters
    PROVE  /\ IsFiniteSet(Truth(n, a).pods) /\ IsFiniteSet(Truth(n, a).selecting)
           /\ IsFiniteSet(Truth(n, a).services)
<1>1. IsFiniteSet(DOMAIN Pod) /\ IsFiniteSet(DOMAIN Service)
  BY K8sConstants, Zenon
<1>2. /\ Truth(n, a).pods \subseteq DOMAIN Pod
      /\ Truth(n, a).selecting \subseteq DOMAIN Service
      /\ Truth(n, a).services \subseteq DOMAIN Service
  BY TruthParts DEF PodsAt, Clusters
<1> QED
  BY <1>1, <1>2, FS_Subset

LEMMA PodAnswer ==
    ASSUME NEW p, NEW nodes, NEW services, NEW m \in nodes, NEW s \in services
    PROVE  [type |-> "pod", pod |-> p, node |-> m, service |-> s] \in PodAttrs(p, nodes, services)
BY DEF PodAttrs

(* If what the address stands for was not in motion between the packet's   *)
(* capture and the reads, the attributes fit the cluster as it was when    *)
(* the packet was captured, for every lag of every informer: they are of   *)
(* one of the pods that had the address then, finished or not, or else of  *)
(* a service that had it; and where there was no choice, the right ones.   *)
THEOREM ExactAtRest == Spec => []ExactUnlessInMotion
<1>1. ASSUME IInv PROVE ExactUnlessInMotion
  <2> DEFINE t == Truth(captured, ip)
  <2> SUFFICES ASSUME reading = "done", \A n \in Span : Truth(n, ip) = t
               PROVE  IF ip = AgentIP THEN attrs = NoAttrs
                      ELSE attrs \in AnswersOf(t) /\ (Unambiguous(t) => attrs = AttrsOf(t))
    BY DEF ExactUnlessInMotion
  <2>0. /\ LookupInv /\ NodesNamed /\ attrs \in Attrs
        /\ read \subseteq Span /\ Span \subseteq 1 .. Present
        /\ \A n \in Span : Version(n) = history[n] /\ history[n] \in Clusters
    BY <1>1, ReadInSpan DEF IInv, TypeOK, Span
  <2>1. ASSUME NEW n \in read
        PROVE  /\ Version(n) = history[n] /\ history[n] \in Clusters
               /\ Truth(n, ip) = t /\ NamedOnce(history[n])
               /\ IsFiniteSet(t.pods) /\ IsFiniteSet(t.selecting) /\ IsFiniteSet(t.services)
    <3>1. Version(n) = history[n] /\ history[n] \in Clusters /\ NamedOnce(history[n])
      BY <2>0 DEF NodesNamed
    <3>2. Truth(n, ip) = t
      BY <2>0
    <3> QED
      BY <3>1, <3>2, FiniteTruth
  <2> HIDE DEF t
  <2>2. CASE ip = AgentIP
    <3>1. attrs = NoAttrs
      BY <2>0, <2>2 DEF LookupInv
    <3> QED
      BY <2>2, <3>1
  <2>3. CASE ip # AgentIP /\ PodRead /\ NodeRead /\ ServiceRead
    <3> DEFINE p == attrs.pod
               nodes == {m \in t.nodes : Node[m] = Pod[p].node}
               services == {s \in t.selecting : Selects(s, p)}
    <3>1. p \in t.pods
      <4>1. PICK n \in read : history[n].pods[attrs.pod] = ip
        BY <2>3 DEF PodRead
      <4>2. attrs.pod \in DOMAIN Pod
        BY <2>3 DEF PodRead
      <4>3. Version(n) = history[n] /\ Truth(n, ip) = t
        BY <2>1
      <4> QED
        BY <4>1, <4>2, <4>3, TruthParts DEF PodsAt
    <3> HIDE DEF p
    <3>2. attrs.node \in AnyOf(nodes) /\ \A y, z \in nodes : y = z
      <4>1. PICK n \in read : attrs.node \in AnyOf({m \in history[n].nodes : Node[m] = Pod[p].node})
        BY <2>3 DEF NodeRead, p
      <4>2. Version(n) = history[n] /\ Truth(n, ip) = t /\ NamedOnce(history[n])
        BY <2>1
      <4>3. /\ t.pods = PodsAt(history[n], ip)
            /\ t.nodes = {m \in history[n].nodes :
                              \E q \in PodsAt(history[n], ip) : Node[m] = Pod[q].node}
        BY <4>2, TruthParts
      <4>4. nodes = {m \in history[n].nodes : Node[m] = Pod[p].node}
        BY <3>1, <4>3
      <4> QED
        BY <4>1, <4>2, <4>4 DEF NamedOnce
    <3>3. attrs.service \in AnyOf(services)
      <4>1. PICK n \in read : attrs.service \in AnyOf({s \in history[n].services : Selects(s, p)})
        BY <2>3 DEF ServiceRead, p
      <4>2. Version(n) = history[n] /\ Truth(n, ip) = t
        BY <2>1
      <4>3. /\ t.pods = PodsAt(history[n], ip)
            /\ t.selecting = {s \in history[n].services :
                                  \E q \in PodsAt(history[n], ip) : Selects(s, q)}
        BY <4>2, TruthParts
      <4>4. services = {s \in history[n].services : Selects(s, p)}
        BY <3>1, <4>3
      <4> QED
        BY <4>1, <4>4
    <3>4. attrs = [type |-> "pod", pod |-> p, node |-> attrs.node, service |-> attrs.service]
      BY <2>0, <2>3 DEF Attrs, PodRead, p
    <3>5. attrs \in AnswersOf(t)
      <4>1. attrs \in PodAttrs(p, AnyOf(nodes), AnyOf(services))
        <5> HIDE DEF nodes, services
        <5>1. [type |-> "pod", pod |-> p, node |-> attrs.node, service |-> attrs.service]
                  \in PodAttrs(p, AnyOf(nodes), AnyOf(services))
          BY <3>2, <3>3, PodAnswer
        <5> QED
          BY <3>4, <5>1
      <4> QED
        BY <3>1, <4>1 DEF AnswersOf
    <3>6. ASSUME Unambiguous(t) PROVE attrs = AttrsOf(t)
      <4>1. PICK n \in read : Version(n) = history[n] /\ Truth(n, ip) = t
        BY <2>1, <2>3 DEF PodRead
      <4>2. IsFiniteSet(t.pods) /\ IsFiniteSet(t.selecting)
        BY <2>1, <4>1
      <4>3. Cardinality(t.pods) <= 1 /\ Cardinality(t.selecting) <= 1
        BY <3>6 DEF Unambiguous
      <4>4. t.pods = {p} /\ p = The(t.pods)
        <5>1. t.pods = {p}
          BY <3>1, <4>2, <4>3, OneElement
        <5> QED
          BY <5>1 DEF The
      <4>5. nodes = t.nodes /\ services = t.selecting
        <5>1. /\ t.pods = PodsAt(history[n], ip)
              /\ t.nodes = {m \in history[n].nodes :
                                \E q \in PodsAt(history[n], ip) : Node[m] = Pod[q].node}
              /\ t.selecting = {s \in history[n].services :
                                    \E q \in PodsAt(history[n], ip) : Selects(s, q)}
          BY <4>1, TruthParts
        <5>2. PodsAt(history[n], ip) = {p}
          BY <4>4, <5>1
        <5> QED
          BY <5>1, <5>2
      <4>6. attrs.node = The(t.nodes)
        BY <3>2, <4>5, TheOnly
      <4>7. attrs.service = The(t.selecting)
        BY <3>3, <4>2, <4>3, <4>5, AnswerIsThe
      <4>8. attrs = [type |-> "pod", pod |-> The(t.pods), node |-> The(t.nodes),
                     service |-> The(t.selecting)]
        BY <3>4, <4>4, <4>6, <4>7
      <4> QED
        BY <4>4, <4>8 DEF AttrsOf
    <3> QED
      BY <2>3, <3>5, <3>6
  <2>4. CASE ip # AgentIP /\ NoPodRead /\ ClusterIPRead
    <3>1. t.pods = {}
      BY <2>1, <2>4, TruthParts DEF NoPodRead
    <3>2. PICK n \in read :
              attrs.service \in AnyOf({s \in history[n].services : Service[s].ip = ip})
      BY <2>4 DEF ClusterIPRead
    <3>3. /\ Version(n) = history[n] /\ history[n] \in Clusters /\ Truth(n, ip) = t
          /\ IsFiniteSet(t.services)
      BY <2>1
    <3>4. t.services = {s \in history[n].services : Service[s].ip = ip}
      BY <3>3, TruthParts
    <3>5. attrs.service \in AnyOf(t.services)
      BY <3>2, <3>4
    <3>6. attrs = [NoAttrs EXCEPT !.type = IF attrs.service = None THEN None ELSE "service",
                                  !.service = attrs.service]
      BY <2>4 DEF ClusterIPRead
    <3>7. attrs \in AnswersOf(t)
      <4>1. attrs \in ServiceAttrs(AnyOf(t.services))
        BY <3>5, <3>6 DEF ServiceAttrs
      <4> QED
        BY <3>1, <4>1 DEF AnswersOf
    <3>8. ASSUME Unambiguous(t) PROVE attrs = AttrsOf(t)
      <4>1. Cardinality(t.services) <= 1
        BY <3>8 DEF Unambiguous
      <4>2. attrs.service = The(t.services)
        BY <3>3, <3>5, <4>1, AnswerIsThe
      <4>3. attrs.service = None <=> t.services = {}
        <5>1. t.services \subseteq DOMAIN Service
          BY <3>3, <3>4 DEF Clusters
        <5> QED
          BY <3>5, <5>1, NoneIsNoObject DEF AnyOf
      <4>4. CASE t.services = {}
        <5>1. attrs = NoAttrs
          BY <3>6, <4>3, <4>4 DEF NoAttrs
        <5> QED
          BY <3>1, <4>4, <5>1 DEF AttrsOf
      <4>5. CASE t.services # {}
        <5>1. attrs = [NoAttrs EXCEPT !.type = "service", !.service = The(t.services)]
          BY <3>6, <4>2, <4>3, <4>5
        <5> QED
          BY <3>1, <4>5, <5>1 DEF AttrsOf
      <4> QED
        BY <4>4, <4>5
    <3> QED
      BY <2>4, <3>7, <3>8
  <2> QED
    BY <2>0, <2>2, <2>3, <2>4 DEF LookupInv
<1> QED
  BY <1>1, Invariance, PTL
=============================================================================
