---------------------------- MODULE LoadBalancer ----------------------------
(***************************************************************************)
(* The load balancer calls of the provider for one service                 *)
(* (pkg/cloudprovider/providers/aliyun/loadbalancer.go), one SLB request   *)
(* per step.  GetLoadBalancerName gives each service a name of its own and *)
(* every call touches only load balancers of that name, so one service is  *)
(* modelled: "lbs" are the load balancers that bear its name.              *)
(***************************************************************************)
EXTENDS Instances

CONSTANTS Callers,         \* goroutines that call the provider
          Ops,             \* the calls they make
          Services,        \* versions of the service object passed to a call
          NodeLists,       \* node lists passed to a call
          Inventory,       \* the instances of the VPC
          LBIds,           \* ids SLB may hand out (bounds the number created)
          Serial,          \* TRUE if calls for the service never overlap
          ListLag,         \* TRUE if a new load balancer may be listed late
          Faults           \* the requests that may fail or lose their answer

VARIABLES lbs,             \* lbs[id]: a load balancer, as SLB stores it
          call,            \* call[c]: the provider call that c is in
          panicked         \* the controller process died of a panic

vars == <<lbs, call, panicked>>

Ids == {i.InstanceId : i \in Inventory}
ServicePorts == UNION {s.Ports : s \in Services}
PortNumbers == {p.Port : p \in ServicePorts}
Protocols == {"TCP", "UDP"}
WantedPorts == {p \in ServicePorts : p.NodePort # 0}
NodePorts == {p.NodePort : p \in WantedPorts}

ASSUME LoadBalancerAssumption ==
    /\ Cardinality(Inventory) <= PageSize
    /\ Ops \subseteq {"Ensure", "Update", "Delete"}
    /\ {Serial, ListLag} \subseteq BOOLEAN
    \* Kubernetes admits one service port per port number and protocol.
    /\ \A s \in Services :
          /\ s.Supported \in BOOLEAN
          /\ s.Ports \subseteq [Port : Nat, Protocol : Protocols, NodePort : Nat]
          /\ \A p, q \in s.Ports :
                p.Port = q.Port /\ p.Protocol = q.Protocol => p = q

\* ECS gives every instance an id and addresses of its own.
ASSUME VPCAssumption ==
    /\ \A i, j \in Inventory : i.InstanceId = j.InstanceId \/ SharesAddress(i, j) => i = j
    /\ NodeLists \subseteq Seq(STRING)

Retries == 3

NoListener == [Protocol |-> "", BackendServerPort |-> 0, Status |-> "absent"]

Listeners == [Protocol : Protocols, BackendServerPort : NodePorts,
              Status : {"running", "stopped"}] \cup {NoListener}

\* "late" stays with an id: its load balancer was not listed at once.
NoLB == [exists |-> FALSE, listed |-> FALSE, late |-> FALSE, backends |-> {},
         listeners |-> [p \in PortNumbers |-> NoListener]]

LBTypes == [exists : BOOLEAN, listed : BOOLEAN, late : BOOLEAN, backends : SUBSET Ids,
            listeners : [PortNumbers -> Listeners]]

NoService == [Supported |-> FALSE, Ports |-> {}]

\* A call: its arguments, where it is, what it remembers, what it returned.
NoCall == [op |-> "none", service |-> NoService, nodes |-> <<>>, pc |-> "idle",
           instances |-> {}, retry |-> 0, id |-> "",
           actual |-> {}, servers |-> {}, expected |-> {}, stopped |-> {},
           removals |-> {}, created |-> {}, ret |-> ""]

Rets == {"", "ok", "error", "nothing"}

Pcs == {"idle", "instances", "list", "describe", "create", "listeners",
        "remove", "add", "delete", "done"}

Calls == [op : Ops \cup {"none"}, service : Services \cup {NoService},
          nodes : NodeLists \cup {<<>>}, pc : Pcs, instances : SUBSET Ids,
          retry : 0..Retries, id : LBIds \cup {""},
          actual : SUBSET [Port : PortNumbers, Protocol : Protocols],
          servers : SUBSET Ids, expected : SUBSET WantedPorts,
          stopped : SUBSET PortNumbers, removals : SUBSET PortNumbers,
          created : SUBSET PortNumbers, ret : Rets]

TypeOK == /\ lbs \in [LBIds -> LBTypes]
          /\ call \in [Callers -> Calls]
          /\ panicked \in BOOLEAN

Init == /\ lbs = [id \in LBIds |-> NoLB]
        /\ call = [c \in Callers |-> NoCall]
        /\ panicked = FALSE

-----------------------------------------------------------------------------
At(c, pc) == call[c].pc = pc

Becomes(c, r) == call' = [call EXCEPT ![c] = r]

Goto(c, pc) == Becomes(c, [call[c] EXCEPT !.pc = pc])

Return(c, ret) == Becomes(c, [call[c] EXCEPT !.pc = "done", !.ret = ret])

LB(c) == lbs[call[c].id]

\* The next listener or backend request that changes the load balancer of
\* the call: done, turned down, or failed with or without effect.
Request(c, name, accepted, newLB, next) ==
    LET ok == accepted /\ LB(c).exists
        after == [lbs EXCEPT ![call[c].id] = newLB]
    IN  /\ \/ ok /\ lbs' = after /\ Becomes(c, next)
           \/ ~ok /\ UNCHANGED lbs /\ Return(c, "error")
           \/ /\ name \in Faults
              /\ lbs' \in {lbs, IF ok THEN after ELSE lbs}
              /\ Return(c, "error")
        /\ UNCHANGED panicked

\* A panic in one goroutine ends the process and every call with it.
Panic == /\ panicked' = TRUE
         /\ call' = [c \in Callers |-> NoCall]
         /\ UNCHANGED lbs

Crash == /\ \E c \in Callers : ~At(c, "idle")
         /\ call' = [c \in Callers |-> NoCall]
         /\ UNCHANGED <<lbs, panicked>>

Restart == panicked /\ panicked' = FALSE /\ UNCHANGED <<lbs, call>>

(* EnsureLoadBalancer first checks the service and finds the instances;    *)
(* the other two look for the load balancer first.                         *)
Start(c, op, service, nodes) ==
    /\ At(c, "idle") /\ ~panicked
    /\ Serial => \A d \in Callers : At(d, "idle")
    /\ LET begin == [NoCall EXCEPT !.op = op, !.service = service, !.nodes = nodes]
       IN  \/ op # "Ensure" /\ Becomes(c, [begin EXCEPT !.pc = "list"])
           \/ /\ op = "Ensure" /\ service.Supported
              /\ Becomes(c, [begin EXCEPT !.pc = "instances"])
           \/ /\ op = "Ensure" /\ ~service.Supported
              /\ Becomes(c, [begin EXCEPT !.pc = "done", !.ret = "error"])
    /\ UNCHANGED <<lbs, panicked>>

\* getInstancesByNodes; UpdateLoadBalancer calls it between its two syncs.
GetInstances(c) ==
    /\ At(c, "instances")
    /\ LET found == getInstancesByNodeNames(Inventory, call[c].nodes)
           ids   == {found.instances[k].InstanceId : k \in DOMAIN found.instances}
           next  == IF call[c].op = "Ensure" THEN "list" ELSE "remove"
       IN  \/ /\ found.err = "nil"
              /\ Becomes(c, [call[c] EXCEPT !.pc = next, !.instances = ids])
           \/ (found.err # "nil" \/ "DescribeInstances" \in Faults) /\ Return(c, "error")
    /\ UNCHANGED <<lbs, panicked>>

-----------------------------------------------------------------------------
(* getLoadBalancer: a listing, then the attributes of the first match.     *)
(* While EnsureLoadBalancer polls for the one it created (retry > 0), an   *)
(* error or an empty listing only uses up a try; after the last one it     *)
(* returns the error of that try, and no status: "LB just doesn't exist."  *)
Polling(c) == call[c].retry > 0

\* Mutant: the tries are not counted.
PollAgain_forever(c, err) == Goto(c, "list")

PollAgain(c, err) ==
    IF call[c].retry > 1
    THEN Becomes(c, [call[c] EXCEPT !.pc = "list", !.retry = @ - 1])
    ELSE Return(c, IF err THEN "error" ELSE "nothing")

\* Mutant: EnsureLoadBalancer takes an error for "not found".
GetFails_create(c) ==
    IF Polling(c) THEN PollAgain(c, TRUE)
    ELSE IF call[c].op = "Ensure" THEN Goto(c, "create") ELSE Return(c, "error")

\* Mutant: EnsureLoadBalancerDeleted takes an error for "not found".
GetFails_gone(c) ==
    IF Polling(c) THEN PollAgain(c, TRUE)
    ELSE Return(c, IF call[c].op = "Delete" THEN "ok" ELSE "error")

GetFails(c) == IF Polling(c) THEN PollAgain(c, TRUE) ELSE Return(c, "error")

GetFindsNone(c) ==
    \/ Polling(c) /\ PollAgain(c, FALSE)
    \/ call[c].op = "Ensure" /\ ~Polling(c) /\ Goto(c, "create")
    \/ call[c].op = "Update" /\ Return(c, "error")
    \/ call[c].op = "Delete" /\ Return(c, "ok")

DescribeLoadBalancers(c) ==
    /\ At(c, "list")
    /\ \/ \E id \in LBIds : /\ lbs[id].exists /\ lbs[id].listed
                            /\ Becomes(c, [call[c] EXCEPT !.pc = "describe", !.id = id])
       \/ (\A id \in LBIds : ~(lbs[id].exists /\ lbs[id].listed)) /\ GetFindsNone(c)
       \/ "DescribeLoadBalancers" \in Faults /\ GetFails(c)
    /\ UNCHANGED <<lbs, panicked>>

\* ensureLBListeners starts from this snapshot; ports without a node port
\* are ignored.
DescribeLoadBalancerAttribute(c) ==
    /\ At(c, "describe")
    /\ \/ LB(c).exists /\ call[c].op = "Delete" /\ Goto(c, "delete")
       \/ /\ LB(c).exists /\ call[c].op # "Delete"
          /\ Becomes(c, [call[c] EXCEPT !.pc = "listeners",
                !.actual = {[Port |-> p, Protocol |-> LB(c).listeners[p].Protocol] :
                               p \in {q \in PortNumbers : LB(c).listeners[q] # NoListener}},
                !.servers = LB(c).backends,
                !.expected = {p \in call[c].service.Ports : p.NodePort # 0}])
       \/ ~LB(c).exists /\ GetFails(c)
       \/ "DescribeLoadBalancerAttribute" \in Faults /\ GetFails(c)
    /\ UNCHANGED <<lbs, panicked>>

\* Each CreateLoadBalancer has a client token of its own, so each creates one,
\* until the quota (LBIds) is used up.  SLB never hands out an id twice.
Unused == {id \in LBIds : ~lbs[id].exists /\ \A d \in Callers : call[d].id # id}

NewLB(id, listed) == [NoLB EXCEPT !.exists = TRUE, !.listed = listed,
                                  !.late = lbs[id].late \/ ~listed]

CreateLoadBalancer(c) ==
    /\ At(c, "create")
    /\ \/ /\ \E id \in Unused, listed \in {TRUE, ~ListLag} :
                lbs' = [lbs EXCEPT ![id] = NewLB(id, listed)]
          /\ \/ Becomes(c, [call[c] EXCEPT !.pc = "list", !.retry = Retries])
             \/ "CreateLoadBalancer" \in Faults /\ Return(c, "error")
       \/ /\ "CreateLoadBalancer" \in Faults \/ Unused = {}
          /\ UNCHANGED lbs /\ Return(c, "error")
    /\ UNCHANGED panicked

\* SLB: a new load balancer shows up in the listing.
Appear(id) ==
    /\ lbs[id].exists /\ ~lbs[id].listed
    /\ lbs' = [lbs EXCEPT ![id].listed = TRUE]
    /\ UNCHANGED <<call, panicked>>

-----------------------------------------------------------------------------
(* ensureLBListeners.  The listeners of the snapshot are compared with the *)
(* service one by one; the attributes of one that has the port and the     *)
(* protocol of a service port are read afresh.  Then stopped listeners are *)
(* started, the others removed, and missing ones created and started.      *)
Wanted(c, l) == {sp \in call[c].expected : sp.Port = l.Port /\ sp.Protocol = l.Protocol}

HasListener(c, l) == LB(c).exists /\ LB(c).listeners[l.Port].Protocol = l.Protocol

\* Mutant: a matching listener is not looked at for being stopped.
Compare_ignoresStopped(c, l, now) ==
    IF \E sp \in Wanted(c, l) : now.BackendServerPort = sp.NodePort
    THEN [call[c] EXCEPT !.actual = @ \ {l}, !.expected = @ \ Wanted(c, l)]
    ELSE [call[c] EXCEPT !.actual = @ \ {l}, !.removals = @ \cup {l.Port}]

\* Mutant: a listener is to be removed by its backend port.
Compare_removesBackendPort(c, l, now) ==
    IF \E sp \in Wanted(c, l) : now.BackendServerPort = sp.NodePort
    THEN [call[c] EXCEPT !.actual = @ \ {l}, !.expected = @ \ Wanted(c, l),
             !.stopped = IF now.Status = "stopped" THEN @ \cup {l.Port} ELSE @]
    ELSE [call[c] EXCEPT !.actual = @ \ {l}, !.removals = @ \cup {now.BackendServerPort}]

\* Mutant: the backend port is compared with the service port.
Compare_wrongPort(c, l, now) ==
    IF \E sp \in Wanted(c, l) : now.BackendServerPort = sp.Port
    THEN [call[c] EXCEPT !.actual = @ \ {l}, !.expected = @ \ Wanted(c, l)]
    ELSE [call[c] EXCEPT !.actual = @ \ {l}, !.removals = @ \cup {l.Port}]

Compare(c, l, now) ==
    IF \E sp \in Wanted(c, l) : now.BackendServerPort = sp.NodePort
    THEN [call[c] EXCEPT !.actual = @ \ {l}, !.expected = @ \ Wanted(c, l),
             !.stopped = IF now.Status = "stopped" THEN @ \cup {l.Port} ELSE @]
    ELSE [call[c] EXCEPT !.actual = @ \ {l}, !.removals = @ \cup {l.Port}]

DiffListener(c) ==
    /\ At(c, "listeners")
    /\ \E l \in call[c].actual :
          /\ Wanted(c, l) = {} \/ HasListener(c, l)
          /\ Becomes(c, Compare(c, l, LB(c).listeners[l.Port]))
    /\ UNCHANGED <<lbs, panicked>>

\* getLBListenerAttributes reads the answer it did not get.
AttributesFail(c) ==
    /\ At(c, "listeners")
    /\ \E l \in call[c].actual :
          /\ Wanted(c, l) # {}
          /\ ~HasListener(c, l) \/ "DescribeListenerAttribute" \in Faults
    /\ Panic

SetListener(c, port, listener) == [LB(c) EXCEPT !.listeners[port] = listener]

Started(c, port) ==
    SetListener(c, port, [LB(c).listeners[port] EXCEPT !.Status = "running"])

StartStopped(c) ==
    /\ At(c, "listeners") /\ call[c].actual = {}
    /\ \E port \in call[c].stopped :
          Request(c, "StartListener", LB(c).listeners[port] # NoListener,
                  Started(c, port), [call[c] EXCEPT !.stopped = @ \ {port}])

DeleteListener(c) ==
    /\ At(c, "listeners") /\ call[c].actual = {} /\ call[c].stopped = {}
    /\ \E port \in call[c].removals :
          Request(c, "DeleteListener", LB(c).listeners[port] # NoListener,
                  SetListener(c, port, NoListener),
                  [call[c] EXCEPT !.removals = @ \ {port}])

Diffed(c) == /\ At(c, "listeners")
             /\ call[c].actual = {} /\ call[c].stopped = {} /\ call[c].removals = {}

CreateListener(c) ==
    /\ Diffed(c) /\ call[c].created = {}
    /\ \E sp \in call[c].expected :
          Request(c, "CreateListener", LB(c).listeners[sp.Port] = NoListener,
                  SetListener(c, sp.Port, [Protocol |-> sp.Protocol, Status |-> "stopped",
                                           BackendServerPort |-> sp.NodePort]),
                  [call[c] EXCEPT !.expected = @ \ {sp}, !.created = {sp.Port}])

StartCreated(c) ==
    /\ Diffed(c)
    /\ \E port \in call[c].created :
          Request(c, "StartListener", LB(c).listeners[port] # NoListener,
                  Started(c, port), [call[c] EXCEPT !.created = {}])

ListenersSynced(c) ==
    /\ Diffed(c) /\ call[c].expected = {} /\ call[c].created = {}
    /\ Goto(c, IF call[c].op = "Ensure" THEN "remove" ELSE "instances")
    /\ UNCHANGED <<lbs, panicked>>

-----------------------------------------------------------------------------
(* ensureLBBackends, against the backend servers of the same snapshot.     *)
RemoveBackends(c) ==
    LET removals == call[c].servers \ call[c].instances IN
    /\ At(c, "remove")
    /\ \/ removals = {} /\ Goto(c, "add") /\ UNCHANGED <<lbs, panicked>>
       \/ /\ removals # {}
          /\ Request(c, "RemoveBackendServers", TRUE,
                     [LB(c) EXCEPT !.backends = @ \ removals],
                     [call[c] EXCEPT !.pc = "add"])

AddBackends(c) ==
    LET additions == call[c].instances \ call[c].servers IN
    /\ At(c, "add")
    /\ \/ additions = {} /\ Return(c, "ok") /\ UNCHANGED <<lbs, panicked>>
       \/ /\ additions # {}
          /\ Request(c, "AddBackendServers", TRUE,
                     [LB(c) EXCEPT !.backends = @ \cup additions],
                     [call[c] EXCEPT !.pc = "done", !.ret = "ok"])

DeleteLoadBalancer(c) ==
    /\ At(c, "delete")
    /\ Request(c, "DeleteLoadBalancer", TRUE, [NoLB EXCEPT !.late = LB(c).late],
               [call[c] EXCEPT !.pc = "done", !.ret = "ok"])

Collect(c) ==
    /\ At(c, "done")
    /\ Becomes(c, NoCall)
    /\ UNCHANGED <<lbs, panicked>>

Step(c) == \/ GetInstances(c) \/ DescribeLoadBalancers(c)
           \/ DescribeLoadBalancerAttribute(c) \/ CreateLoadBalancer(c)
           \/ DiffListener(c) \/ AttributesFail(c) \/ StartStopped(c)
           \/ DeleteListener(c) \/ CreateListener(c) \/ StartCreated(c)
           \/ ListenersSynced(c) \/ RemoveBackends(c) \/ AddBackends(c)
           \/ DeleteLoadBalancer(c)

Next == \/ \E c \in Callers, op \in Ops, s \in Services, ns \in NodeLists :
               Start(c, op, s, ns)
        \/ \E c \in Callers : Step(c) \/ Collect(c)
        \/ \E id \in LBIds : Appear(id)
        \/ Crash
        \/ Restart

Spec == Init /\ [][Next]_vars

\* Goroutines run; SLB owes no one a prompt listing, and nobody must crash.
FairSpec == Spec /\ \A c \in Callers : WF_vars(Step(c))

-----------------------------------------------------------------------------
(* However many calls failed or died half way before it, a successful      *)
(* EnsureLoadBalancer or UpdateLoadBalancer leaves its load balancer with  *)
(* one running listener per service port that has a node port, no other    *)
(* listener, and the instances of the nodes as backends (lines 191-202).   *)
SuccessMeansSynced ==
    \A c \in Callers :
        call[c].op \in {"Ensure", "Update"} /\ call[c].ret = "ok" =>
            /\ LB(c).exists
            /\ \A p \in PortNumbers :
                  {LB(c).listeners[p]} =
                    LET want == {sp \in call[c].service.Ports : sp.Port = p /\ sp.NodePort # 0}
                    IN  IF want = {} THEN {NoListener}
                        ELSE {[Protocol |-> sp.Protocol, Status |-> "running",
                               BackendServerPort |-> sp.NodePort] : sp \in want}
            /\ \A i \in Inventory :
                  i.InstanceId \in LB(c).backends <=>
                      \E k \in DOMAIN call[c].nodes : By(call[c].nodes[k], i)

\* So far every new load balancer was listed at once.
Prompt == \A id \in LBIds : ~lbs[id].late

(* As long as SLB lists what it created, there is never a second load      *)
(* balancer for the service, although a creation whose answer is lost is   *)
(* tried again with a fresh client token and the controller may die after  *)
(* it (lines 145-189).                                                     *)
OneLoadBalancer ==
    Prompt => \A id, jd \in LBIds : lbs[id].exists /\ lbs[jd].exists => id = jd

(* A sync does not interrupt what it need not change: a running listener   *)
(* that is as the call's service wants it is neither removed nor altered   *)
(* by a step of that call (lines 240-286).                                 *)
NoNeedlessOutage ==
    [][\A c \in Callers : \A sp \in call[c].service.Ports :
          /\ call[c].op \in {"Ensure", "Update"} /\ call'[c] # call[c]
          /\ call[c].id # "" /\ LB(c).exists
          /\ LB(c).listeners[sp.Port] = [Protocol |-> sp.Protocol, Status |-> "running",
                                         BackendServerPort |-> sp.NodePort]
          => lbs'[call[c].id].listeners[sp.Port] = LB(c).listeners[sp.Port]]_vars

(* "EnsureLoadBalancerDeleted deletes the specified load balancer if it    *)
(* exists, returning nil if the load balancer specified either didn't      *)
(* exist or was successfully deleted": nil means that none is left, again  *)
(* as long as SLB lists what it created.                                   *)
DeletedMeansGone ==
    Prompt => \A c \in Callers :
        call[c].op = "Delete" /\ call[c].ret = "ok" => \A id \in LBIds : ~lbs[id].exists

(* Every provider call returns, or dies with the process: the polling of a *)
(* new load balancer is bounded (lines 169-182).                           *)
CallsEnd == \A c \in Callers : ~At(c, "idle") ~> (At(c, "done") \/ At(c, "idle"))
=============================================================================
