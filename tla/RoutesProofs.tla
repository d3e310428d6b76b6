---------------------------- MODULE RoutesProofs ----------------------------
(***************************************************************************)
(* Proofs about Routes for every set of nodes, CIDRs and instances, and    *)
(* any number of changes and failures.                                     *)
(***************************************************************************)
EXTENDS Routes, TLAPS

Reports == {"", "RouteCreated", "NoRouteCreated"}

JobRecords == [op : {"create", "delete", "patch"}, node : Names, cidr : ClusterCIDRs,
               tries : 0..maxRetries, instanceId : Ids \cup {""}, report : Reports]

RouteRecords == [TargetNode : Names, DestinationCIDR : CIDRs]

(* What a goroutine of the current round may be: a well-formed record, and *)
(* if it deletes, then a route that no node wanted when the round began,   *)
(* at an instance that bears the name of the route's target.               *)
JobOK(j) ==
    /\ j \in JobRecords
    /\ j.op = "delete" =>
          /\ \A n \in Nodes : n = j.node => round.nodeCIDRs[n] # j.cidr
          /\ j.instanceId = "" \/ \E i \in Machines : By(j.node, i) /\ i.InstanceId = j.instanceId

\* The inductive invariant.
Inv == /\ TypeOK
       /\ round.pc # "wait" => jobs = {}
       /\ \A j \in jobs : JobOK(j)

\* A lookup that succeeds returns an instance of the page that bears the name.
LEMMA LookupFinds ==
  ASSUME NEW page, NEW name, getInstanceByNodeName(page, name).err = "nil"
  PROVE  \E i \in page : /\ By(name, i)
                         /\ getInstanceByNodeName(page, name).instances[1] = i
<1> DEFINE S == {i \in page : By(name, i)}
<1>1. IsOne(S)
  BY DEF getInstanceByNodeName, LookupError
<1>2. TheOne(S) \in S
  BY <1>1 DEF IsOne, TheOne
<1>3. getInstanceByNodeName(page, name).instances = <<TheOne(S)>>
  BY <1>1 DEF getInstanceByNodeName, Found
<1>4. <<TheOne(S)>>[1] = TheOne(S)
  OBVIOUS
<1> HIDE DEF getInstanceByNodeName, By
<1> QED
  BY <1>2, <1>3, <1>4

\* The counters stay within their bounds.
LEMMA FailureType ==
  ASSUME TypeOK, Failure \/ UNCHANGED failures
  PROVE  failures' \in 0..Failures
<1>1. failures \in 0..Failures
  BY Zenon DEF TypeOK
<1> QED
  BY <1>1, BoundsAssumption DEF Failure

LEMMA ChangeType ==
  ASSUME TypeOK, Change
  PROVE  changes' \in 0..Changes
<1>1. changes \in 0..Changes
  BY Zenon DEF TypeOK
<1> QED
  BY <1>1, BoundsAssumption DEF Change

LEMMA TriesType ==
  /\ 0 \in 0..maxRetries /\ 1 \in 0..maxRetries /\ maxRetries \in 0..maxRetries
  /\ 0 \in 0..Changes /\ 0 \in 0..Failures
  /\ \A t \in 0..maxRetries : t > 1 => t - 1 \in 0..maxRetries
  BY BoundsAssumption

LEMMA JobsType ==
  ASSUME NEW S, S \subseteq JobRecords
  PROVE  S \subseteq [op : {"create", "delete", "patch"}, node : Names, cidr : CIDRs,
                     tries : 0..maxRetries, instanceId : Ids \cup {""},
                     report : {"", "RouteCreated", "NoRouteCreated"}]
  BY Zenon DEF JobRecords, CIDRs, Reports

LEMMA PageOfInventory == \A page \in getInstances(inventory) : page \subseteq inventory
  BY DEF getInstances

\* The routes that ListRoutes returns name known nodes and CIDRs of the table.
LEMMA ListedType ==
  ASSUME TypeOK, NEW instances \in SUBSET Machines
  PROVE  Listed(instances) \subseteq RouteRecords
<1> SUFFICES ASSUME NEW e \in table, e.NextHopType = "Instance",
                    IsOne({i \in instances : i.InstanceId = e.InstanceId})
             PROVE  [TargetNode |-> mapInstanceToNodeName(TheOne({i \in instances : i.InstanceId = e.InstanceId})),
                     DestinationCIDR |-> e.DestinationCidrBlock] \in RouteRecords
  BY Zenon DEF Listed
<1> DEFINE S == {i \in instances : i.InstanceId = e.InstanceId}
<1>1. TheOne(S) \in Machines
  BY DEF TheOne, IsOne
<1>2. mapInstanceToNodeName(TheOne(S)) \in Names
  BY <1>1 DEF Names
<1>3. e.DestinationCidrBlock \in CIDRs
  <2>1. CASE e \in OtherRoutes
    BY <2>1 DEF CIDRs
  <2>2. CASE e \in Entries
    BY <2>2 DEF Entries
  <2> QED
    BY <2>1, <2>2, Zenon DEF TypeOK
<1> QED
  BY <1>2, <1>3 DEF RouteRecords

LEMMA NoRoundType == NoRound \in [pc : {"idle", "tables", "reconcile", "wait"},
                                  instances : SUBSET Machines,
                                  routes : SUBSET RouteRecords,
                                  nodeCIDRs : [Nodes -> ClusterCIDRs \cup {"", Absent}]]
                     /\ NoRound.pc = "idle"
  BY DEF NoRound, Absent

\* The invariant holds initially.
LEMMA InitInv == Init => Inv
<1> SUFFICES ASSUME Init PROVE Inv
  OBVIOUS
<1>1. TypeOK
  BY TriesType, NoRoundType, Zenon DEF Init, TypeOK, RouteRecords
<1> QED
  BY <1>1 DEF Init, Inv

\* What the cluster does leaves the round and its goroutines alone.
LEMMA EnvironmentInv == ASSUME Inv, Environment PROVE Inv'
<1>0. changes' \in 0..Changes
  BY ChangeType, Zenon DEF Inv, Environment, AddNode, AssignCIDR, RemoveNode, SetNode, Launch, Release
<1>1. /\ UNCHANGED <<table, round, jobs, failures>>
      /\ inventory' \subseteq Machines
  BY Zenon DEF Inv, TypeOK, Environment, AddNode, AssignCIDR, RemoveNode, SetNode, Change, Launch, Release
<1>2. podCIDR' \in [Nodes -> ClusterCIDRs \cup {"", Absent}]
  BY ZenonT(30) DEF Inv, TypeOK, Environment, AddNode, AssignCIDR, RemoveNode, SetNode, Launch, Release
<1>3. condition' \in [Nodes -> {"unset", "RouteCreated", "NoRouteCreated"}]
  BY Zenon DEF Inv, TypeOK, Environment, AddNode, AssignCIDR, RemoveNode, SetNode, Launch, Release
<1>4. TypeOK'
  BY <1>0, <1>1, <1>2, <1>3, Zenon DEF Inv, TypeOK
<1>5. \A j \in jobs : JobOK(j)'
  BY <1>1, Zenon DEF Inv, JobOK
<1> QED
  BY <1>1, <1>4, <1>5 DEF Inv

\* The steps of a round up to the goroutines have none running.
LEMMA RoundFailsInv == ASSUME Inv, RoundFails, jobs = {} PROVE Inv'
<1>1. failures' \in 0..Failures
  BY FailureType DEF Inv, RoundFails
<1> QED
  BY <1>1, NoRoundType, Zenon DEF Inv, TypeOK, RoundFails, cluster, RouteRecords

LEMMA ListInstancesInv == ASSUME Inv, ListInstances PROVE Inv'
<1>0. jobs = {}
  BY Zenon DEF Inv, ListInstances
<1>1. CASE RoundFails
  BY <1>0, <1>1, RoundFailsInv
<1>2. ASSUME NEW page \in getInstances(inventory),
             round' = [NoRound EXCEPT !.pc = "tables", !.instances = page],
             UNCHANGED <<cluster, table, jobs, failures>>
      PROVE  Inv'
  <2>1. page \subseteq Machines
    BY PageOfInventory, Zenon DEF Inv, TypeOK
  <2> QED
    BY <1>0, <1>2, <2>1, NoRoundType, Zenon DEF Inv, TypeOK, cluster, RouteRecords
<1> QED
  BY <1>1, <1>2, Zenon DEF ListInstances

LEMMA DescribeRouteTablesInv == ASSUME Inv, DescribeRouteTables PROVE Inv'
<1>0. jobs = {}
  BY DEF Inv, DescribeRouteTables
<1>1. CASE RoundFails
  BY <1>0, <1>1, RoundFailsInv
<1>2. CASE /\ round' = [round EXCEPT !.pc = "reconcile", !.routes = Listed(round.instances)]
           /\ UNCHANGED <<cluster, table, jobs, failures>>
  <2>1. Listed(round.instances) \subseteq RouteRecords
    BY ListedType, Zenon DEF Inv, TypeOK
  <2> HIDE DEF Listed
  <2> QED
    BY <1>0, <1>2, <2>1, Zenon DEF Inv, TypeOK, cluster, RouteRecords
<1> QED
  BY <1>1, <1>2 DEF DescribeRouteTables

\* What reconcile starts is well-formed.
LEMMA JobType ==
  ASSUME NEW op \in {"create", "delete", "patch"}, NEW node \in Names, NEW cidr \in ClusterCIDRs
  PROVE  Job(op, node, cidr) \in JobRecords /\ Job(op, node, cidr).op = op
<1>1. (IF op = "create" THEN maxRetries ELSE 1) \in 0..maxRetries
  BY TriesType
<1>2. (IF op = "patch" THEN "RouteCreated" ELSE "") \in Reports
  BY DEF Reports
<1> QED
  BY <1>1, <1>2, Zenon DEF Job, JobRecords

\* A round only deletes routes that no listed node wants.
LEMMA ReconcileInv == ASSUME Inv, Reconcile PROVE Inv'
<1>1. PICK routeMap \in RouteMaps :
        LET routed == {n \in Nodes : HasCIDR(n) /\ routeMap[n] = podCIDR[n]}
            missing == {n \in Nodes : HasCIDR(n)} \ routed
        IN  jobs' = {Job("create", n, podCIDR[n]) : n \in missing}
               \cup {Job("patch", n, podCIDR[n]) :
                        n \in {m \in routed : condition[m] # "RouteCreated"}}
               \cup {Job("delete", r.TargetNode, r.DestinationCIDR) :
                        r \in {q \in round.routes : isResponsibleForRoute(q) /\ Stale(q)}}
  BY DEF Reconcile
<1>2. /\ round' = [round EXCEPT !.pc = "wait", !.nodeCIDRs = podCIDR]
      /\ UNCHANGED <<cluster, table, failures>>
  BY DEF Reconcile
<1>3. /\ round' \in [pc : {"idle", "tables", "reconcile", "wait"},
                     instances : SUBSET Machines,
                     routes : SUBSET RouteRecords,
                     nodeCIDRs : [Nodes -> ClusterCIDRs \cup {"", Absent}]]
      /\ round'.pc = "wait" /\ round'.nodeCIDRs = podCIDR
  BY <1>2, Zenon DEF Inv, TypeOK, RouteRecords
<1>4. \A j \in jobs' : JobOK(j)'
  <2> SUFFICES ASSUME NEW j \in jobs' PROVE JobOK(j)'
    OBVIOUS
  <2>1. ASSUME NEW n \in Nodes, HasCIDR(n), NEW op \in {"create", "patch"},
               j = Job(op, n, podCIDR[n])
        PROVE  JobOK(j)'
    <3>1. podCIDR[n] \in ClusterCIDRs /\ n \in Names
      BY <2>1, Zenon DEF HasCIDR, Names, Inv, TypeOK
    <3>2. op \in {"create", "delete", "patch"} /\ op # "delete"
      BY <2>1
    <3>3. j \in JobRecords /\ j.op = op
      BY <2>1, <3>1, <3>2, JobType
    <3> QED
      BY <3>2, <3>3 DEF JobOK
  <2>2. ASSUME NEW r \in round.routes, isResponsibleForRoute(r), Stale(r),
               j = Job("delete", r.TargetNode, r.DestinationCIDR)
        PROVE  JobOK(j)'
    <3>1. r \in RouteRecords
      BY Zenon DEF Inv, TypeOK, RouteRecords
    <3>2. j \in JobRecords
      <4>1. r.TargetNode \in Names /\ r.DestinationCIDR \in ClusterCIDRs
        BY <2>2, <3>1 DEF RouteRecords, isResponsibleForRoute
      <4>2. j = [op |-> "delete", node |-> r.TargetNode, cidr |-> r.DestinationCIDR,
                 instanceId |-> "", tries |-> 1, report |-> ""]
        BY <2>2, Zenon DEF Job
      <4> QED
        BY <4>1, <4>2, TriesType, Zenon DEF JobRecords, Reports
    <3>3. j.node = r.TargetNode /\ j.cidr = r.DestinationCIDR /\ j.instanceId = ""
      BY <2>2, Zenon DEF Job
    <3>4. \A n \in Nodes : n = j.node => podCIDR[n] # j.cidr
      BY <2>2, <3>3, Zenon DEF Stale
    <3> QED
      BY <1>3, <3>2, <3>3, <3>4, Zenon DEF JobOK
  <2> QED
    BY <1>1, <2>1, <2>2
<1>6. jobs' \subseteq JobRecords
  BY <1>4, Zenon DEF JobOK
<1>7. TypeOK'
  BY <1>2, <1>3, <1>6, JobsType, Zenon DEF Inv, TypeOK, RouteRecords, cluster
<1> QED
  BY <1>3, <1>4, <1>7, Zenon DEF Inv

\* A goroutine that stays what JobOK says, or ends, keeps the invariant.
LEMMA JobsInv ==
  ASSUME Inv, NEW j \in jobs, UNCHANGED <<inventory, podCIDR, changes, round>>,
         condition' \in [Nodes -> {"unset", "RouteCreated", "NoRouteCreated"}],
         failures' \in 0..Failures,
         table' \subseteq Entries \cup OtherRoutes,
         NEW k, JobOK(k), jobs' \subseteq jobs \cup {k}
  PROVE  Inv'
<1>1. \A l \in jobs' : JobOK(l)'
  BY Zenon DEF Inv, JobOK
<1>2. jobs' \subseteq JobRecords
  BY <1>1, Zenon DEF JobOK
<1>3. TypeOK'
  BY <1>2, JobsType, Zenon DEF Inv, TypeOK
<1>4. round'.pc # "wait" => jobs' = {}
  BY DEF Inv
<1> QED
  BY <1>1, <1>3, <1>4 DEF Inv

\* A goroutine ends, or goes on with its operation, node and CIDR.
LEMMA GoesOn ==
  ASSUME Inv, NEW j \in jobs, NEW k \in JobRecords,
         k.op = j.op, k.node = j.node, k.cidr = j.cidr, k.instanceId \in {j.instanceId, ""}
  PROVE  JobOK(k)
<1>1. JobOK(j)
  BY Zenon DEF Inv
<1> QED
  BY <1>1, Zenon DEF JobOK

LEMMA ReturnsFacts ==
  ASSUME Inv, NEW j \in jobs, NEW report \in Reports, Returns(j, report)
  PROVE  \E k : JobOK(k) /\ jobs' \subseteq jobs \cup {k}
<1>1. JobOK(j) /\ j \in JobRecords
  BY Zenon DEF Inv, JobOK
<1>2. CASE Becomes(j, [j EXCEPT !.report = report])
  <2> DEFINE k == [j EXCEPT !.report = report]
  <2>1. /\ k \in JobRecords /\ k.op = j.op /\ k.node = j.node /\ k.cidr = j.cidr
        /\ k.instanceId = j.instanceId
    BY <1>1, Zenon DEF JobRecords
  <2>2. jobs' \subseteq jobs \cup {k}
    BY <1>2 DEF Becomes
  <2> HIDE DEF k
  <2>3. JobOK(k)
    BY <2>1, GoesOn
  <2> QED
    BY <2>2, <2>3
<1>3. CASE jobs' = jobs \ {j}
  BY <1>1, <1>3
<1> QED
  BY <1>2, <1>3 DEF Returns

LEMMA NextTryFacts ==
  ASSUME Inv, NEW j \in jobs, NextTry(j)
  PROVE  \E k : JobOK(k) /\ jobs' \subseteq jobs \cup {k}
<1>1. JobOK(j) /\ j \in JobRecords
  BY Zenon DEF Inv, JobOK
<1>2. CASE j.tries > 1 /\ Becomes(j, [j EXCEPT !.tries = @ - 1, !.instanceId = "", !.report = ""])
  <2> DEFINE k == [j EXCEPT !.tries = @ - 1, !.instanceId = "", !.report = ""]
  <2>1. j.tries - 1 \in 0..maxRetries
    BY <1>1, <1>2, TriesType, Zenon DEF JobRecords
  <2>2. /\ k \in JobRecords /\ k.op = j.op /\ k.node = j.node /\ k.cidr = j.cidr
        /\ k.instanceId = ""
    BY <1>1, <2>1, Zenon DEF JobRecords, Reports
  <2>3. jobs' \subseteq jobs \cup {k}
    BY <1>2 DEF Becomes
  <2> HIDE DEF k
  <2>4. JobOK(k)
    BY <2>2, GoesOn
  <2> QED
    BY <2>3, <2>4
<1>3. CASE jobs' = jobs \ {j}
  BY <1>1, <1>3
<1> QED
  BY <1>2, <1>3 DEF NextTry

LEMMA ReportInv == ASSUME Inv, NEW j \in jobs, updateNetworkingCondition(j) PROVE Inv'
<1>1. /\ UNCHANGED <<inventory, podCIDR, changes, table, round>>
      /\ failures' \in 0..Failures
  BY FailureType, Zenon DEF updateNetworkingCondition, Inv
<1>2. table' \subseteq Entries \cup OtherRoutes
  BY <1>1, Zenon DEF Inv, TypeOK
<1>3. condition' \in [Nodes -> {"unset", "RouteCreated", "NoRouteCreated"}]
  <2>1. j.report \in {"RouteCreated", "NoRouteCreated"}
    BY Zenon DEF Inv, JobOK, JobRecords, Reports, updateNetworkingCondition
  <2>2. condition' = condition \/ condition' = [condition EXCEPT ![j.node] = j.report]
    BY Zenon DEF updateNetworkingCondition
  <2> QED
    BY <2>1, <2>2, Zenon DEF Inv, TypeOK
<1> QED
  BY <1>1, <1>2, <1>3, NextTryFacts, JobsInv DEF updateNetworkingCondition

LEMMA LookupNodeInv == ASSUME Inv, NEW j \in jobs, LookupNode(j) PROVE Inv'
<1>1. JobOK(j) /\ j \in JobRecords
  BY Zenon DEF Inv, JobOK
<1>2. /\ UNCHANGED <<inventory, podCIDR, changes, table, round, condition>>
      /\ failures' \in 0..Failures
  BY FailureType, Zenon DEF LookupNode, Inv, cluster
<1>3. /\ table' \subseteq Entries \cup OtherRoutes
      /\ condition' \in [Nodes -> {"unset", "RouteCreated", "NoRouteCreated"}]
  BY <1>2, Zenon DEF Inv, TypeOK
<1>4. CASE Returns(j, "NoRouteCreated")
  <2>1. "NoRouteCreated" \in Reports
    BY DEF Reports
  <2> QED
    BY <1>2, <1>3, <1>4, <2>1, ReturnsFacts, JobsInv
<1>5. ASSUME NEW page \in getInstances(inventory),
             getInstanceByNodeName(page, j.node).err = "nil",
             Becomes(j, [j EXCEPT !.instanceId =
                             getInstanceByNodeName(page, j.node).instances[1].InstanceId])
      PROVE  Inv'
  <2>1. PICK i \in page : /\ By(j.node, i)
                          /\ getInstanceByNodeName(page, j.node).instances[1] = i
    BY <1>5, LookupFinds
  <2>2. i \in Machines /\ i.InstanceId \in Ids
    BY PageOfInventory, Zenon DEF Inv, TypeOK, Ids
  <2> DEFINE k == [j EXCEPT !.instanceId = i.InstanceId]
  <2>3. k \in JobRecords
    BY <1>1, <2>2, Zenon DEF JobRecords
  <2>4. k.op = j.op /\ k.node = j.node /\ k.cidr = j.cidr /\ k.instanceId = i.InstanceId
    BY <1>1, Zenon DEF JobRecords
  <2>5. jobs' \subseteq jobs \cup {k}
    BY <1>5, <2>1 DEF Becomes
  <2> HIDE DEF k
  <2>6. JobOK(k)
    BY <1>1, <2>1, <2>2, <2>3, <2>4, Zenon DEF JobOK
  <2> QED
    BY <1>2, <1>3, <2>5, <2>6, JobsInv
<1> QED
  BY <1>4, <1>5, Zenon DEF LookupNode

LEMMA RequestInv ==
  ASSUME Inv, NEW j \in jobs, NEW accepted \in BOOLEAN, NEW newTable, Request(j, accepted, newTable),
         newTable \subseteq Entries \cup OtherRoutes
  PROVE  Inv'
<1>1. /\ UNCHANGED <<inventory, podCIDR, changes, round, condition>>
      /\ failures' \in 0..Failures
  BY FailureType DEF Request, Inv, cluster
<1>2. table' = table \/ table' = newTable
  BY DEF Request
<1>3. /\ table' \subseteq Entries \cup OtherRoutes
      /\ condition' \in [Nodes -> {"unset", "RouteCreated", "NoRouteCreated"}]
  BY <1>1, <1>2, Zenon DEF Inv, TypeOK
<1>4. PICK report \in Reports : Returns(j, report)
  BY Zenon DEF Request, Reports
<1> QED
  BY <1>1, <1>3, <1>4, ReturnsFacts, JobsInv

LEMMA JobStepInv == ASSUME Inv, NEW j \in jobs, JobStep(j) PROVE Inv'
<1>1. j \in JobRecords
  BY Zenon DEF Inv, JobOK
<1>2. CASE LookupNode(j)
  BY <1>2, LookupNodeInv
<1>3. CASE CreateRouteEntry(j)
  <2>1. j.instanceId \in Ids /\ j.cidr \in CIDRs
    BY <1>1, <1>3, Zenon DEF CreateRouteEntry, Request, JobRecords, CIDRs
  <2>2. table \cup {Entry(j.cidr, j.instanceId)}
          \subseteq Entries \cup OtherRoutes
    <3>1. Entry(j.cidr, j.instanceId) \in Entries
      BY <2>1 DEF Entry, Entries
    <3>2. table \subseteq Entries \cup OtherRoutes
      BY Zenon DEF Inv, TypeOK
    <3> QED
      BY <3>1, <3>2
  <2>3. CreateRouteEntryAccepted(j) \in BOOLEAN
    BY DEF CreateRouteEntryAccepted
  <2> QED
    BY <1>3, <2>2, <2>3, RequestInv, Zenon DEF CreateRouteEntry
<1>4. CASE DeleteRouteEntry(j)
  <2>1. table \ {Entry(j.cidr, j.instanceId)}
          \subseteq Entries \cup OtherRoutes
    BY Zenon DEF Inv, TypeOK
  <2>2. (Entry(j.cidr, j.instanceId) \in table) \in BOOLEAN
    OBVIOUS
  <2> QED
    BY <1>4, <2>1, <2>2, RequestInv, Zenon DEF DeleteRouteEntry
<1>5. CASE updateNetworkingCondition(j)
  BY <1>5, ReportInv
<1> QED
  BY <1>2, <1>3, <1>4, <1>5 DEF JobStep

\* The invariant is inductive: one case per kind of step.
LEMMA NextInv == Inv /\ [Next]_vars => Inv'
<1> SUFFICES ASSUME Inv, [Next]_vars PROVE Inv'
  OBVIOUS
<1>1. CASE Environment
  BY <1>1, EnvironmentInv
<1>2. CASE RoundStep
  <2>1. CASE RoundEnds
    BY <2>1, NoRoundType, Zenon DEF RoundEnds, Inv, TypeOK, cluster, RouteRecords
  <2> QED
    BY <1>2, <2>1, ListInstancesInv, DescribeRouteTablesInv, ReconcileInv DEF RoundStep
<1>3. CASE \E j \in jobs : JobStep(j)
  BY <1>3, JobStepInv
<1>4. CASE Crash
  <2>1. failures' \in 0..Failures
    BY <1>4, FailureType DEF Crash, Inv
  <2> QED
    BY <1>4, <2>1, NoRoundType, Zenon DEF Crash, Inv, TypeOK, cluster, RouteRecords
<1>5. CASE UNCHANGED vars
  BY <1>5, Zenon DEF vars, Inv, TypeOK, JobOK
<1> QED
  BY <1>1, <1>2, <1>3, <1>4, <1>5 DEF Next

LEMMA Invariance == Spec => []Inv
  BY InitInv, NextInv, PTL DEF Spec

(* Every reachable state is well-typed; in particular a goroutine never    *)
(* tries more than maxRetries times, and the table only ever gets entries  *)
(* for CIDRs and instances that exist.                                     *)
THEOREM TypeCorrect == Spec => []TypeOK
<1>1. Inv => TypeOK
  BY DEF Inv
<1> QED
  BY <1>1, Invariance, PTL

-----------------------------------------------------------------------------
\* Nodes go by host name, or no instance has more than one private address.
OneNameEach ==
    nodeNameType = "hostname" \/ \A i \in Machines : DOMAIN i.IpAddress = {1}

LEMMA NamesDiffer ==
  ASSUME OneNameEach, NEW i \in Machines, NEW m, NEW n, By(m, i), By(n, i)
  PROVE  m = n
  BY InstancesAssumption DEF OneNameEach, By, NodeNameTypes, byHostname, byPrivateIP

LEMMA OnlyDeletesRemove ==
  ASSUME Inv, Next
  PROVE  \/ table \subseteq table'
         \/ \E j \in jobs : /\ j.op = "delete" /\ j.instanceId # ""
                            /\ table \ table' \subseteq {Entry(j.cidr, j.instanceId)}
<1>1. CASE Environment
  BY <1>1, EnvironmentInv, Zenon DEF Environment, AddNode, AssignCIDR, RemoveNode, SetNode, Launch, Release
<1>2. CASE RoundStep
  BY <1>2, Zenon DEF RoundStep, ListInstances, DescribeRouteTables, Reconcile, RoundEnds, RoundFails
<1>3. CASE Crash
  BY <1>3 DEF Crash
<1>4. ASSUME NEW j \in jobs, JobStep(j)
      PROVE  \/ table \subseteq table'
             \/ /\ j.op = "delete" /\ j.instanceId # ""
                /\ table \ table' \subseteq {Entry(j.cidr, j.instanceId)}
  BY <1>4, Zenon DEF JobStep, LookupNode, CreateRouteEntry, DeleteRouteEntry, Request,
                     updateNetworkingCondition
<1> QED
  BY <1>1, <1>2, <1>3, <1>4, Zenon DEF Next

(* If each instance has one name, then under any changes of nodes and      *)
(* instances, failures and crashes the route controller removes only       *)
(* entries of its own, and never one that leads to a node with that pod    *)
(* CIDR (reconcile and DeleteRoute).                                       *)
THEOREM KeepsWantedRoutesHolds ==
  ASSUME OneNameEach
  PROVE  Spec => KeepsWantedRoutes
<1> DEFINE Kept(e) ==
      /\ e \notin OtherRoutes /\ e.DestinationCidrBlock \in ClusterCIDRs
      /\ ~\E n \in Nodes : Leads(e, n) /\ round.nodeCIDRs[n] = e.DestinationCidrBlock
<1>1. ASSUME Inv, Next, NEW e \in table \ table' PROVE Kept(e)
  <2>1. PICK j \in jobs : /\ j.op = "delete" /\ j.instanceId # ""
                          /\ table \ table' \subseteq {Entry(j.cidr, j.instanceId)}
    BY <1>1, OnlyDeletesRemove, Zenon
  <2>2. e = Entry(j.cidr, j.instanceId)
    BY <2>1, Zenon
  <2>3. /\ e.NextHopType = "Instance" /\ e.DestinationCidrBlock = j.cidr
        /\ e.InstanceId = j.instanceId
    BY <2>2 DEF Entry
  <2>4. JobOK(j) /\ j.cidr \in ClusterCIDRs
    BY <1>1, Zenon DEF Inv, JobOK, JobRecords
  <2>5. e \notin OtherRoutes
    BY <2>3, <2>4, OthersAssumption
  <2>6. PICK i \in Machines : By(j.node, i) /\ i.InstanceId = j.instanceId
    BY <2>1, <2>4, Zenon DEF JobOK
  <2>7. ASSUME NEW n \in Nodes, Leads(e, n) PROVE round.nodeCIDRs[n] # j.cidr
    <3>1. PICK k \in inventory : By(n, k) /\ k.InstanceId = j.instanceId
      BY <2>3, <2>7 DEF Leads
    <3>2. k = i
      BY <1>1, <2>6, <3>1, IdsAssumption, Zenon DEF Inv, TypeOK
    <3>3. n = j.node
      BY <2>6, <3>1, <3>2, NamesDiffer
    <3> QED
      BY <2>1, <2>4, <3>3, Zenon DEF JobOK
  <2> QED
    BY <2>3, <2>4, <2>5, <2>7
<1>2. Inv /\ [Next]_vars => [\A e \in table \ table' : Kept(e)]_vars
  BY <1>1 DEF vars
<1> QED
  BY <1>2, Invariance, PTL DEF Spec, KeepsWantedRoutes
=============================================================================
