------------------------------- MODULE Routes -------------------------------
(***************************************************************************)
(* The routes of the VPC: the provider's ListRoutes, CreateRoute and       *)
(* DeleteRoute (pkg/cloudprovider/providers/aliyun/routes.go) under the    *)
(* reconcile loop of the route controller that calls them                  *)
(* (k8s.io/kubernetes/pkg/controller/route), one ECS request per step,     *)
(* while nodes and instances come and go.                                  *)
(***************************************************************************)
EXTENDS Instances

CONSTANTS Nodes,           \* names of Kubernetes nodes
          ClusterCIDRs,    \* pod CIDRs within the cluster CIDR
          OtherRoutes,     \* entries of the table that are not of the cluster
          Machines,        \* every instance that may ever exist
          Releases,        \* TRUE if instances may be released
          Changes,         \* how often nodes and instances may change (bound)
          Failures,        \* how many requests may fail, or crashes (bound)
          maxRetries       \* tries of one CreateRoute in one round

ASSUME MachinesAssumption ==
    /\ IsFiniteSet(Machines) /\ Cardinality(Machines) <= PageSize
    /\ Releases \in BOOLEAN

ASSUME IdsAssumption ==
    \A i, j \in Machines : i.InstanceId # "" /\ (i.InstanceId = j.InstanceId => i = j)

ASSUME OthersAssumption ==
    \A e \in OtherRoutes :
        e.NextHopType = "Instance" => e.DestinationCidrBlock \notin ClusterCIDRs

ASSUME BoundsAssumption == Changes \in Nat /\ Failures \in Nat /\ maxRetries \in Nat \ {0}

VARIABLES inventory,       \* the instances of the VPC
          podCIDR,         \* podCIDR[n]: of node n; Absent, or "" if it has none yet
          condition,       \* condition[n]: the node's NetworkUnavailable condition
          table,           \* the entries of the VPC's route table
          round,           \* the reconciliation: where it is and what it has read
          jobs,            \* the goroutines of the round, and its status patches
          changes,         \* changes so far
          failures         \* failures so far

cluster == <<inventory, podCIDR, condition, changes>>
vars == <<inventory, podCIDR, condition, table, round, jobs, changes, failures>>

Absent == "absent"

Entry(cidr, id) ==
    [DestinationCidrBlock |-> cidr, NextHopType |-> "Instance", InstanceId |-> id]

Ids == {i.InstanceId : i \in Machines}
Names == Nodes \cup {mapInstanceToNodeName(i) : i \in Machines}
CIDRs == ClusterCIDRs \cup {e.DestinationCidrBlock : e \in OtherRoutes}
Entries == [DestinationCidrBlock : CIDRs, NextHopType : {"Instance"}, InstanceId : Ids]

NoRound == [pc |-> "idle", instances |-> {}, routes |-> {},
            nodeCIDRs |-> [n \in Nodes |-> Absent]]

TypeOK ==
    /\ inventory \subseteq Machines
    /\ podCIDR \in [Nodes -> ClusterCIDRs \cup {"", Absent}]
    /\ condition \in [Nodes -> {"unset", "RouteCreated", "NoRouteCreated"}]
    /\ table \subseteq Entries \cup OtherRoutes
    /\ round \in [pc : {"idle", "tables", "reconcile", "wait"},
                  instances : SUBSET Machines,
                  routes : SUBSET [TargetNode : Names, DestinationCIDR : CIDRs],
                  nodeCIDRs : [Nodes -> ClusterCIDRs \cup {"", Absent}]]
    /\ jobs \subseteq [op : {"create", "delete", "patch"}, node : Names, cidr : CIDRs,
                       tries : 0..maxRetries, instanceId : Ids \cup {""},
                       report : {"", "RouteCreated", "NoRouteCreated"}]
    /\ changes \in 0..Changes /\ failures \in 0..Failures

Init == /\ inventory = {} /\ podCIDR = [n \in Nodes |-> Absent]
        /\ condition = [n \in Nodes |-> "unset"]
        /\ table = OtherRoutes
        /\ round = NoRound /\ jobs = {}
        /\ changes = 0 /\ failures = 0

-----------------------------------------------------------------------------
(* The cluster and the VPC change on their own.  The nodes' pod CIDRs are  *)
(* disjoint, and a node keeps the one it is given.  A released instance    *)
(* leaves the entries that point to it behind.                             *)
Change == changes < Changes /\ changes' = changes + 1

SetNode(n, cidr) ==
    /\ Change
    /\ cidr \in ClusterCIDRs => \A m \in Nodes : podCIDR[m] # cidr
    /\ podCIDR' = [podCIDR EXCEPT ![n] = cidr]
    /\ UNCHANGED <<inventory, table, round, jobs, failures>>

AddNode(n, cidr) ==
    /\ podCIDR[n] = Absent /\ SetNode(n, cidr)
    /\ condition' = [condition EXCEPT ![n] = "unset"]

AssignCIDR(n, cidr) == podCIDR[n] = "" /\ cidr # "" /\ SetNode(n, cidr) /\ UNCHANGED condition

RemoveNode(n) ==
    /\ podCIDR[n] # Absent /\ SetNode(n, Absent)
    /\ condition' = [condition EXCEPT ![n] = "unset"]

Launch(i) ==
    /\ Change
    /\ \A j \in inventory : j.InstanceId # i.InstanceId /\ ~SharesAddress(i, j)
    /\ inventory' = inventory \cup {i}
    /\ UNCHANGED <<podCIDR, condition, table, round, jobs, failures>>

Release(i) ==
    /\ Releases /\ i \in inventory /\ Change
    /\ inventory' = inventory \ {i}
    /\ UNCHANGED <<podCIDR, condition, table, round, jobs, failures>>

-----------------------------------------------------------------------------
\* The request in question fails, or its answer is lost.
Failure == failures < Failures /\ failures' = failures + 1

RoundFails == Failure /\ round' = NoRound /\ UNCHANGED <<cluster, table, jobs>>

\* ListRoutes reads the instances first and the table after it.
ListInstances ==
    /\ round.pc = "idle"
    /\ \/ /\ \E page \in getInstances(inventory) :
                round' = [NoRound EXCEPT !.pc = "tables", !.instances = page]
          /\ UNCHANGED <<cluster, table, jobs, failures>>
       \/ RoundFails

\* An entry is listed for the instance it leads to, if that is known.
Listed(instances) ==
    {[TargetNode |-> mapInstanceToNodeName(TheOne({i \in instances : i.InstanceId = e.InstanceId})),
      DestinationCIDR |-> e.DestinationCidrBlock] :
        e \in {f \in table : /\ f.NextHopType = "Instance"
                             /\ IsOne({i \in instances : i.InstanceId = f.InstanceId})}}

DescribeRouteTables ==
    /\ round.pc = "tables"
    /\ \/ /\ round' = [round EXCEPT !.pc = "reconcile", !.routes = Listed(round.instances)]
          /\ UNCHANGED <<cluster, table, jobs, failures>>
       \/ RoundFails

-----------------------------------------------------------------------------
(* reconcile: the nodes are listed and compared with the routes.  routeMap *)
(* keeps one route per node, the one that happens to be listed last.       *)
HasCIDR(n) == podCIDR[n] \notin {Absent, ""}

RouteMaps ==
    LET Of(n) == {r.DestinationCIDR : r \in {q \in round.routes : q.TargetNode = n}}
    IN  {m \in [Nodes -> CIDRs \cup {""}] :
            \A n \in Nodes : IF Of(n) = {} THEN m[n] = "" ELSE m[n] \in Of(n)}

\* Mutant: routes outside the cluster CIDR are taken for the cluster's.
isResponsibleForRoute_any(r) == r \in round.routes

isResponsibleForRoute(r) == r.DestinationCIDR \in ClusterCIDRs

\* Mutant: a route is only stale if its node is still there.
Stale_knownNode(r) == \E n \in Nodes : r.TargetNode = n /\ HasCIDR(n) /\ podCIDR[n] # r.DestinationCIDR

Stale(r) == ~\E n \in Nodes : r.TargetNode = n /\ podCIDR[n] = r.DestinationCIDR

Job(op, node, cidr) ==
    [op |-> op, node |-> node, cidr |-> cidr, instanceId |-> "",
     tries |-> IF op = "create" THEN maxRetries ELSE 1,
     report |-> IF op = "patch" THEN "RouteCreated" ELSE ""]

Reconcile ==
    /\ round.pc = "reconcile"
    /\ \E routeMap \in RouteMaps :
          LET routed == {n \in Nodes : HasCIDR(n) /\ routeMap[n] = podCIDR[n]}
              missing == {n \in Nodes : HasCIDR(n)} \ routed
          IN  jobs' = {Job("create", n, podCIDR[n]) : n \in missing}
                 \cup {Job("patch", n, podCIDR[n]) :
                          n \in {m \in routed : condition[m] # "RouteCreated"}}
                 \cup {Job("delete", r.TargetNode, r.DestinationCIDR) :
                          r \in {q \in round.routes : isResponsibleForRoute(q) /\ Stale(q)}}
    /\ round' = [round EXCEPT !.pc = "wait", !.nodeCIDRs = podCIDR]
    /\ UNCHANGED <<cluster, table, failures>>

-----------------------------------------------------------------------------
(* The goroutines of a round run side by side.  Each looks up the instance *)
(* of its node, then asks ECS; a CreateRoute is reported to the node, and  *)
(* tried again if it failed.  The loop over the nodes patches the status   *)
(* of those that have their route before it starts any deletion.           *)
Becomes(j, k) == jobs' = (jobs \ {j}) \cup {k}

\* CreateRoute or DeleteRoute has returned.
Returns(j, report) ==
    \/ j.op = "create" /\ Becomes(j, [j EXCEPT !.report = report])
    \/ j.op # "create" /\ jobs' = jobs \ {j}

Started(j) == j.op = "delete" => \A k \in jobs : k.op # "patch"

LookupNode(j) ==
    /\ j.instanceId = "" /\ j.report = "" /\ Started(j)
    /\ \/ /\ \E page \in getInstances(inventory) :
                LET found == getInstanceByNodeName(page, j.node)
                IN  \/ /\ found.err = "nil"
                       /\ Becomes(j, [j EXCEPT !.instanceId = found.instances[1].InstanceId])
                    \/ found.err # "nil" /\ Returns(j, "NoRouteCreated")
          /\ UNCHANGED failures
       \/ Failure /\ Returns(j, "NoRouteCreated")
    /\ UNCHANGED <<cluster, table, round>>

\* Mutant: one try too many.
NextTry_again(j) ==
    \/ /\ j.report = "NoRouteCreated" /\ j.tries >= 0
       /\ Becomes(j, [j EXCEPT !.tries = @ - 1, !.instanceId = "", !.report = ""])
    \/ (j.report = "RouteCreated" \/ j.tries < 0) /\ jobs' = jobs \ {j}

NextTry(j) ==
    \/ /\ j.report = "NoRouteCreated" /\ j.tries > 1
       /\ Becomes(j, [j EXCEPT !.tries = @ - 1, !.instanceId = "", !.report = ""])
    \/ (j.report = "RouteCreated" \/ j.tries <= 1) /\ jobs' = jobs \ {j}

\* The status of a node that is gone cannot be patched; an error is dropped.
updateNetworkingCondition(j) ==
    /\ j.report # ""
    /\ LET patched == IF podCIDR[j.node] = Absent THEN condition
                      ELSE [condition EXCEPT ![j.node] = j.report]
       IN  \/ condition' = patched /\ UNCHANGED failures
           \/ condition' \in {condition, patched} /\ Failure
    /\ NextTry(j)
    /\ UNCHANGED <<inventory, podCIDR, changes, table, round>>

\* ECS: a table has one entry per CIDR, to an instance that exists.
CreateRouteEntryAccepted(j) ==
    /\ \A e \in table : e.DestinationCidrBlock # j.cidr
    /\ j.instanceId \in {i.InstanceId : i \in inventory}

Request(j, accepted, newTable) ==
    /\ j.instanceId # "" /\ j.report = ""
    /\ \/ accepted /\ table' = newTable /\ Returns(j, "RouteCreated") /\ UNCHANGED failures
       \/ ~accepted /\ UNCHANGED <<table, failures>> /\ Returns(j, "NoRouteCreated")
       \/ /\ Failure /\ table' \in {table, IF accepted THEN newTable ELSE table}
          /\ Returns(j, "NoRouteCreated")
    /\ UNCHANGED <<cluster, round>>

CreateRouteEntry(j) ==
    /\ j.op = "create"
    /\ Request(j, CreateRouteEntryAccepted(j), table \cup {Entry(j.cidr, j.instanceId)})

DeleteRouteEntry(j) ==
    /\ j.op = "delete"
    /\ Request(j, Entry(j.cidr, j.instanceId) \in table,
               table \ {Entry(j.cidr, j.instanceId)})

RoundEnds ==
    /\ round.pc = "wait" /\ jobs = {}
    /\ round' = NoRound
    /\ UNCHANGED <<cluster, table, jobs, failures>>

\* The controller dies and starts over.
Crash ==
    /\ Failure /\ round.pc # "idle"
    /\ round' = NoRound /\ jobs' = {}
    /\ UNCHANGED <<cluster, table>>

JobStep(j) == \/ LookupNode(j) \/ CreateRouteEntry(j) \/ DeleteRouteEntry(j)
              \/ updateNetworkingCondition(j)

RoundStep == ListInstances \/ DescribeRouteTables \/ Reconcile \/ RoundEnds

Environment ==
    \/ \E n \in Nodes, cidr \in ClusterCIDRs \cup {""} : AddNode(n, cidr) \/ AssignCIDR(n, cidr)
    \/ \E n \in Nodes : RemoveNode(n)
    \/ \E i \in Machines : Launch(i) \/ Release(i)

Next == Environment \/ RoundStep \/ (\E j \in jobs : JobStep(j)) \/ Crash

Spec == Init /\ [][Next]_vars

\* The reconcile loop and the goroutines it waits for run.
FairSpec == Spec /\ WF_vars(RoundStep) /\ WF_vars(\E j \in jobs : JobStep(j))

-----------------------------------------------------------------------------
Leads(e, n) == \E i \in inventory : By(n, i) /\ i.InstanceId = e.InstanceId

(* Whatever changes between the listings and the request, the controller   *)
(* removes only entries that are its own (instance routes within the       *)
(* cluster CIDR), and never one that led to a node with that pod CIDR when *)
(* the round listed the nodes ("Check if this route applies to a node we   *)
(* know about & has correct CIDR", routecontroller.go).                    *)
KeepsWantedRoutes ==
    [][\A e \in table \ table' :
          /\ e \notin OtherRoutes /\ e.DestinationCidrBlock \in ClusterCIDRs
          /\ ~\E n \in Nodes : Leads(e, n) /\ round.nodeCIDRs[n] = e.DestinationCidrBlock]_vars

\* Node n can have a route: it has a pod CIDR, one instance bears its name,
\* and the CIDR is not taken by an entry that leads nowhere.
Dead(e) == e.InstanceId \notin {i.InstanceId : i \in inventory}

Routable(n) ==
    /\ HasCIDR(n) /\ IsOne({i \in inventory : By(n, i)})
    /\ ~\E e \in table : Dead(e) /\ e.DestinationCidrBlock = podCIDR[n]

Converged ==
    /\ \A n \in Nodes : Routable(n) =>
          /\ \E e \in table : Leads(e, n) /\ e.DestinationCidrBlock = podCIDR[n]
          /\ condition[n] = "RouteCreated"
    /\ \A e \in table \ OtherRoutes :
          ~Dead(e) => \E n \in Nodes : Leads(e, n) /\ e.DestinationCidrBlock = podCIDR[n]

(* Once nodes, instances and ECS have settled, the table and the nodes'    *)
(* conditions come to match the nodes and stay so, whatever failed, died,  *)
(* was released or raced before (reconcile, routecontroller.go); ListRoutes *)
(* does not list dead entries (routes.go line 57), so those stay.          *)
Converges == <>[]Converged
=============================================================================
