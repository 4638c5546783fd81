------------------------------ MODULE K8sCache ------------------------------
(***************************************************************************)
(* The cached Kubernetes client (utils/cached_k8s_client.go) and a lookup  *)
(* the event handler makes with it.  It makes two for every event, one for *)
(* the source address and one for the destination; they share no state and *)
(* differ in the prefix of the keys only, so one stands for both.          *)
(*                                                                         *)
(* The cluster is a history of versions.  Each of the three informers      *)
(* follows it at its own pace, so that the client's pods, services and     *)
(* nodes may be of three different versions; an event was captured at a    *)
(* version of its own, and the cluster goes on changing while it waits in  *)
(* the channel and while the handler reads one index after the other.      *)
(*                                                                         *)
(* Names and UIDs of an object are one model value; what the client reads  *)
(* of an object and never changes is given by the constant functions.      *)
(***************************************************************************)
EXTENDS Integers, Sequences, FiniteSets

CONSTANTS
    Pod,          \* the pods there may be: uid -> [ns, labels, node, ips]
    Service,      \* the services: uid -> [ns, ip, selector]
    Node,         \* the nodes: uid -> name
    NoSelector,   \* the selector of a service that has none
    FirstCluster, \* the cluster when the agent starts
    Addresses,    \* the addresses packets carry
    AgentIP,      \* config.AgentPodIP, with host networking the node's own
    Changing,     \* bound: the objects that change while the agent runs
    MaxChanges    \* bound on the changes of the cluster

None == "none"
NoIP == ""

\* A version of the cluster.  pods[p] is the pod's address, NoIP while it has
\* none, and None when there is no such pod.
PodIPs == {NoIP, None} \cup (UNION {Pod[p].ips : p \in DOMAIN Pod})
Clusters == [pods: [DOMAIN Pod -> PodIPs], running: SUBSET DOMAIN Pod,
             services: SUBSET DOMAIN Service, nodes: SUBSET DOMAIN Node]

(* A packet has an address, and the cluster has finitely many objects, no  *)
(* two nodes of one name.                                                  *)
ASSUME K8sConstants ==
    /\ MaxChanges \in Nat /\ AgentIP \in Addresses
    /\ Addresses \cap {NoIP, None} = {} /\ None \notin DOMAIN Pod \cup DOMAIN Service \cup DOMAIN Node
    /\ IsFiniteSet(DOMAIN Pod) /\ IsFiniteSet(DOMAIN Service)
    /\ \A s \in DOMAIN Service : Service[s].selector # {}
    /\ FirstCluster \in Clusters
    /\ \A m, n \in FirstCluster.nodes : Node[m] = Node[n] => m = n

VARIABLES
    history,  \* the versions of the cluster, the last one is the present
    at,       \* the version each informer's store is at, 0 before its first list
    started,  \* Start has returned
    captured, \* the version at which the event was captured
    ip,       \* the address that is looked up
    reading,  \* where the lookup is
    attrs,    \* the attributes found so far
    read      \* history: the versions that were read for them

cluster == <<history, at, started>>
lookup  == <<captured, ip, reading, attrs, read>>
vars    == <<cluster, lookup>>

Kinds == {"pods", "services", "nodes"}
NoAttrs == [type |-> None, pod |-> None, node |-> None, service |-> None]

\* What an informer's store holds before its first list.
EmptyCluster == [pods |-> [p \in DOMAIN Pod |-> None], running |-> {},
                 services |-> {}, nodes |-> {}]

Version(n) == IF n = 0 THEN EmptyCluster ELSE history[n]
Present == Len(history)

Init ==
    /\ history = <<FirstCluster>> /\ at = [k \in Kinds |-> 0] /\ started = FALSE
    /\ captured = 0 /\ ip = NoIP /\ reading = "idle"
    /\ attrs = NoAttrs /\ read = {}

-----------------------------------------------------------------------------
(* The cluster and the informers.                                          *)

PodsAt(c, a) == {p \in DOMAIN Pod : c.pods[p] = a}

(* One change.  A pod is created without an address, gets one that no      *)
(* running pod has, unless it is the node's, finishes, which leaves the    *)
(* address in its status, and is deleted; services come and go; a node is  *)
(* replaced by another of its name.                                        *)
Free(c, a) == a = AgentIP \/ PodsAt(c, a) \cap c.running = {}
Deleted(c, p) == [c EXCEPT !.pods[p] = None, !.running = @ \ {p}]
ChangedPod(c, p) ==
    CASE c.pods[p] = None -> {[c EXCEPT !.pods[p] = NoIP]}
      [] c.pods[p] = NoIP -> {Deleted(c, p)} \cup
            {[c EXCEPT !.pods[p] = a, !.running = @ \cup {p}] : a \in {a \in Pod[p].ips : Free(c, a)}}
      [] OTHER -> {Deleted(c, p), [c EXCEPT !.running = @ \ {p}]}

Changed(c) ==
    (UNION {ChangedPod(c, p) : p \in DOMAIN Pod \cap Changing})
    \cup (UNION {{[c EXCEPT !.services = @ \cup {s}], [c EXCEPT !.services = @ \ {s}]} :
                  s \in DOMAIN Service \cap Changing})
    \cup {[c EXCEPT !.nodes = {m \in @ : Node[m] # Node[n]} \cup {n}] :
              n \in DOMAIN Node \cap Changing}

Change ==
    /\ Present <= MaxChanges
    /\ \E c \in Changed(history[Present]) \ {history[Present]} : history' = Append(history, c)
    /\ UNCHANGED <<at, started, lookup>>

\* The first list of an informer, an event of its watch, or a new list after
\* the watch was lost: its store comes to a later version.
Follow(k) ==
    /\ \E n \in at[k] + 1 .. Present : at' = [at EXCEPT ![k] = n]
    /\ UNCHANGED <<history, started, lookup>>

\* Mutant of Start: the caches are used before they are filled.
StartUnsynced ==
    /\ ~started
    /\ started' = TRUE
    /\ UNCHANGED <<history, at, lookup>>

\* WaitForCacheSync: Start returns once every informer has its first list.
Start ==
    /\ ~started
    /\ \A k \in Kinds : at[k] > 0
    /\ started' = TRUE
    /\ UNCHANGED <<history, at, lookup>>

-----------------------------------------------------------------------------
(* The lookups.  ByIndex and List return the objects of a map in an order  *)
(* of its own, so which of several comes first is anybody's choice.        *)

Pods == Version(at["pods"])
Services == Version(at["services"]).services
Nodes == Version(at["nodes"]).nodes

\* The result of a lookup: any of the objects, None if there is none.
AnyOf(objects) == IF objects = {} THEN {None} ELSE objects

\* Mutant of GetPodByIPAddr: the index is made from the first list only.
GetPodFirstListed(a) == AnyOf(PodsAt(Version(1), a))

GetPodByIPAddr(a) == AnyOf(PodsAt(Pods, a))

GetServiceByIPAddr(a) == AnyOf({s \in Services : Service[s].ip = a})

\* serviceSelector.Matches(podLabels), for a service that has a selector.
Selects(s, p) == Service[s].selector # NoSelector /\ Service[s].selector \subseteq Pod[p].labels

\* Mutant of GetServiceForPod: the first service of the pod's namespace.
GetServiceOfNamespace(p) == AnyOf({s \in Services : Service[s].ns = Pod[p].ns})

GetServiceForPod(p) == AnyOf({s \in Services : Selects(s, p)})

\* Mutant of GetNodeForPod: the name in the pod's spec, in the cache or not.
GetNodeName(p) == {Pod[p].node}

GetNodeForPod(p) == AnyOf({n \in Nodes : Node[n] = Pod[p].node})

\* A packet is captured; the handler comes to its event at any later time.
Capture ==
    /\ started /\ reading = "idle"
    /\ captured' = Present
    /\ ip' \in Addresses
    /\ reading' = "guard"
    /\ UNCHANGED <<cluster, attrs, read>>

\* A step of the lookup reads the store of a kind and goes on at another place.
Step(from, kind, to) ==
    /\ reading = from /\ reading' = to
    /\ read' = read \cup {at[kind]}
    /\ UNCHANGED <<cluster, captured, ip>>

\* Mutant of Guard: the agent's own address is looked up like any other.
GuardNothing ==
    /\ reading = "guard" /\ reading' = "pod"
    /\ UNCHANGED <<cluster, captured, ip, attrs, read>>

\* The two early returns of getK8sAttrsForIp.
Guard ==
    /\ reading = "guard"
    /\ reading' = IF ip \in {NoIP, AgentIP} THEN "done" ELSE "pod"
    /\ UNCHANGED <<cluster, captured, ip, attrs, read>>

\* pod := client.GetPodByIPAddr(ip); pod != nil, and the attributes of the pod
PodFound ==
    \E p \in GetPodByIPAddr(ip) \ {None} :
        /\ attrs' = [attrs EXCEPT !.type = "pod", !.pod = p]
        /\ Step("pod", "pods", "node")

PodNotFound ==
    /\ None \in GetPodByIPAddr(ip)
    /\ Step("pod", "pods", "clusterIP")
    /\ UNCHANGED attrs

ReadNode ==
    /\ Step("node", "nodes", "service")
    /\ \E n \in GetNodeForPod(attrs.pod) : attrs' = [attrs EXCEPT !.node = n]

ReadServiceForPod ==
    /\ Step("service", "services", "done")
    /\ \E s \in GetServiceForPod(attrs.pod) : attrs' = [attrs EXCEPT !.service = s]

ReadServiceByIP ==
    /\ Step("clusterIP", "services", "done")
    /\ \E s \in GetServiceByIPAddr(ip) :
          attrs' = [attrs EXCEPT !.type = IF s = None THEN None ELSE "service", !.service = s]

Lookup == Guard \/ PodFound \/ PodNotFound \/ ReadNode \/ ReadServiceForPod \/ ReadServiceByIP

-----------------------------------------------------------------------------
Next == Change \/ (\E k \in Kinds : Follow(k)) \/ Start \/ Capture \/ Lookup

Spec == Init /\ [][Next]_vars

(* An informer that has its first list and is behind catches up, and Start *)
(* returns when it can.  Nothing is assumed of the cluster, of the packets *)
(* and of the first lists: a watch that is forbidden never has one.        *)
Listed(k) == at[k] > 0
Fairness == (\A k \in Kinds : WF_vars(Listed(k) /\ Follow(k))) /\ WF_vars(Start)

FairSpec == Spec /\ Fairness

-----------------------------------------------------------------------------
Attrs == [type: {None, "pod", "service"}, pod: DOMAIN Pod \cup {None},
          node: DOMAIN Node \cup {None}, service: DOMAIN Service \cup {None}]

\* The variables hold values of their types.
TypeOK ==
    /\ history \in Seq(Clusters) /\ Present \in 1 .. MaxChanges + 1 /\ at \in [Kinds -> 0 .. Present]
    /\ started \in BOOLEAN /\ captured \in 0 .. Present
    /\ ip \in Addresses \cup {NoIP} /\ attrs \in Attrs /\ read \subseteq 0 .. Present
    /\ reading \in {"idle", "guard", "pod", "node", "service", "clusterIP", "done"}

(* What the cluster says of an address at a version: the pods that have    *)
(* it, finished or not, their nodes, the services of any namespace that    *)
(* select one of them, and the services whose address it is.               *)
Truth(n, a) ==
    LET c == Version(n)
        owners == PodsAt(c, a)
    IN  [pods |-> owners,
         nodes |-> {m \in c.nodes : \E p \in owners : Node[m] = Pod[p].node},
         selecting |-> {s \in c.services : \E p \in owners : Selects(s, p)},
         services |-> {s \in c.services : Service[s].ip = a}]

\* What a lookup may answer for a pod and for the address of a service.
PodAttrs(p, nodes, services) ==
    {[type |-> "pod", pod |-> p, node |-> m, service |-> s] : m \in nodes, s \in services}
ServiceAttrs(services) ==
    {[NoAttrs EXCEPT !.type = IF s = None THEN None ELSE "service", !.service = s] : s \in services}

\* The attributes an event may have that a version's truth is t for: those of any
\* one of the pods, or else of any one of the services.
AnswersOf(t) ==
    IF t.pods = {} THEN ServiceAttrs(AnyOf(t.services))
    ELSE UNION {PodAttrs(p, AnyOf({m \in t.nodes : Node[m] = Pod[p].node}),
                            AnyOf({s \in t.selecting : Selects(s, p)})) : p \in t.pods}

(* The address has one owner at most, and what selects the pod is one      *)
(* service of its own namespace.  Not so of an address that a finished pod *)
(* still has in its status while a new one has it too, of the address of a *)
(* node on which several pods have host networking, and of a pod that the  *)
(* selector of another namespace's service happens to fit.                 *)
Unambiguous(t) ==
    /\ Cardinality(t.pods) <= 1 /\ Cardinality(t.services) <= 1
    /\ Cardinality(t.selecting) <= 1
    /\ \A s \in t.selecting, p \in t.pods : Service[s].ns = Pod[p].ns

\* The one object of a set, None if it is empty.
The(objects) == IF objects = {} THEN None ELSE CHOOSE o \in objects : TRUE

\* The attributes an event should have that a version's truth is t for.
AttrsOf(t) ==
    IF t.pods # {} THEN [type |-> "pod", pod |-> The(t.pods), node |-> The(t.nodes),
                         service |-> The(t.selecting)]
    ELSE IF t.services # {} THEN [NoAttrs EXCEPT !.type = "service", !.service = The(t.services)]
    ELSE NoAttrs

\* The versions between the capture of the event and those the lookup read.
Span == {n \in 1 .. Present : \E i, j \in read \cup {captured} : i <= n /\ n <= j}

(* What a lookup is worth if the objects of the event's address, pods,     *)
(* nodes and services, were the same at all the versions between the       *)
(* packet's capture and the ones the three indexes were read at: although  *)
(* the indexes were read one after the other and each may lag behind the   *)
(* others, the attributes are nothing for the address of the agent, and    *)
(* else fit the cluster as it was when the packet was captured.  They are  *)
(* of one of the pods that had the address, with a node and a service of   *)
(* that pod, never nothing while there was one, and never from a store     *)
(* that is not filled yet.  Which of several it is, is anybody's choice,   *)
(* a finished pod or another namespace's service included; where there     *)
(* was no choice (Unambiguous), the attributes are the right ones (Start,  *)
(* getK8sAttrsForIp and its four lookups).                                 *)
ExactUnlessInMotion ==
    LET t == Truth(captured, ip)
    IN  /\ reading = "done"
        /\ \A n \in Span : Truth(n, ip) = t
        => IF ip = AgentIP THEN attrs = NoAttrs
           ELSE attrs \in AnswersOf(t) /\ (Unambiguous(t) => attrs = AttrsOf(t))

(* Whatever is in motion, the attributes are about one object: a pod that  *)
(* has had the address since the packet was captured or in the versions    *)
(* read, a node of the name it was scheduled to, and a service that        *)
(* selects it; or a service that has the address, and then no pod had it   *)
(* in one of those versions.                                               *)
AttrsAreAboutOneObject ==
    /\ attrs.pod # None =>
          /\ \E n \in Span : Version(n).pods[attrs.pod] = ip
          /\ attrs.node # None => Node[attrs.node] = Pod[attrs.pod].node
          /\ attrs.service # None => Selects(attrs.service, attrs.pod)
    /\ attrs.type = "service" =>
          /\ Service[attrs.service].ip = ip
          /\ \E n \in Span : PodsAt(Version(n), ip) = {}

(* A lookup that starts now and meets no further step of an informer can   *)
(* answer only this.                                                       *)
AnswersNow(a) ==
    UNION {IF p = None THEN ServiceAttrs(GetServiceByIPAddr(a))
           ELSE PodAttrs(p, GetNodeForPod(p), GetServiceForPod(p)) : p \in GetPodByIPAddr(a)}

(* Staleness ends.  If every informer gets its first list, Start returns;  *)
(* and once the cluster has stopped changing, the client comes to give for *)
(* every address the answers that the cluster at present allows, and only  *)
(* those, and goes on doing so (the informers' watches, Start's return).   *)
(* For an address with several owners they are several, and which one it   *)
(* gives is left open as in ExactUnlessInMotion.                           *)
StalenessEnds ==
    (\A k \in Kinds : <>Listed(k)) =>
        <>[](started /\ \A a \in Addresses : AnswersNow(a) = AnswersOf(Truth(Present, a)))

(* What the comment on GetServiceForPod says, "returns the service that    *)
(* the given pod is associated with": Kubernetes associates a service with *)
(* pods of its own namespace only.                                         *)
ServiceIsOfPodsNamespace ==
    attrs.pod # None /\ attrs.service # None
    => Service[attrs.service].ns = Pod[attrs.pod].ns
=============================================================================
