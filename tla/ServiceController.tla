-------------------------- MODULE ServiceController --------------------------
(***************************************************************************)
(* The service controller (k8s.io/kubernetes/pkg/controller/service) over  *)
(* the load balancer calls of the provider, for one service.  Its worker   *)
(* follows the service object; its node sync loop follows the nodes.  They *)
(* share no lock, so their provider calls overlap (LoadBalancer's Callers).*)
(***************************************************************************)
EXTENDS LoadBalancer

CONSTANT Changes           \* how often service or nodes may change (bound)

VARIABLES object,          \* the service as the API server has it; Absent
          nodes,           \* the ready nodes, as the node lister has them
          memory,          \* what the controller process remembers
          changes          \* changes so far

svars == <<lbs, call, panicked, object, nodes, memory, changes>>
cluster == <<object, nodes, changes>>

worker == "worker"
sync == "sync"
Absent == [Supported |-> FALSE, Ports |-> {}, Type |-> "none"]

ASSUME ControllerAssumption ==
    /\ Callers = {worker, sync} /\ ~Serial /\ Ops = {"Ensure", "Update", "Delete"}
    /\ ~ListLag    \* otherwise the worker may get no status, and dies of it
    /\ \A s \in Services : s.Type \in {"LoadBalancer", "ClusterIP"}
    /\ NodeLists # {} /\ Changes \in Nat

wantsLoadBalancer(s) == s.Type = "LoadBalancer"

\* cache: the state cached for the service; retrying: its lastRetryDelay is not
\* 0; queued: its key is in the queue, or will be after a delay;
\* servicesToUpdate: what the node sync must retry.
Fresh == [cache |-> Absent, retrying |-> FALSE, queued |-> FALSE, knownHosts |-> <<>>,
          servicesToUpdate |-> Absent]

STypeOK ==
    /\ TypeOK
    /\ object \in Services \cup {Absent} /\ nodes \in NodeLists
    /\ memory \in [cache : Services \cup {Absent}, retrying : BOOLEAN, queued : BOOLEAN,
                   knownHosts : NodeLists \cup {<<>>},
                   servicesToUpdate : {s \in Services : wantsLoadBalancer(s)} \cup {Absent}]
    /\ changes \in 0..Changes

SInit == /\ Init /\ object \in Services /\ nodes \in NodeLists
         /\ memory = [Fresh EXCEPT !.queued = TRUE]
         /\ changes = 0

-----------------------------------------------------------------------------
(* The service is changed or deleted for good (a new service of that name  *)
(* has another UID, hence another load balancer); nodes come and go.  The  *)
(* informer tells a running controller, which queues what needs an update. *)
Change == changes < Changes /\ changes' = changes + 1

needsUpdate(old, new) ==
    /\ wantsLoadBalancer(old) \/ wantsLoadBalancer(new)
    /\ old # new

SetService(s) ==
    /\ Change /\ object # Absent /\ object # s
    /\ object' = s
    /\ memory' = [memory EXCEPT
          !.queued = @ \/ (~panicked /\ (s = Absent \/ needsUpdate(object, s)))]
    /\ UNCHANGED <<lbs, call, panicked, nodes>>

SetNodes(ns) ==
    /\ Change /\ nodes # ns /\ nodes' = ns
    /\ UNCHANGED <<lbs, call, panicked, object, memory>>

-----------------------------------------------------------------------------
(* The process dies: a panic anywhere, or a kill.  All it remembers is     *)
(* lost; the next one learns of the services that exist by then.           *)
Remember(r) == memory' = r

Dies == Panic /\ Remember(Fresh) /\ UNCHANGED cluster

Killed == ~panicked /\ Dies

Restarts == /\ Restart /\ Remember([Fresh EXCEPT !.queued = object # Absent])
            /\ UNCHANGED cluster

\* A provider call goes on; a panic in it ends the process.
CallStep(c) ==
    /\ Step(c)
    /\ Remember(IF panicked' THEN Fresh ELSE memory)
    /\ UNCHANGED cluster

-----------------------------------------------------------------------------
(* syncService: the worker takes the key and looks at the service as it is *)
(* now.  GetLoadBalancer before a deletion is part of the latter's listing.*)
Forgotten == object = Absent /\ ~wantsLoadBalancer(memory.cache)

WorkerTakes ==
    /\ At(worker, "idle") /\ ~panicked /\ memory.queued
    /\ LET service == IF object = Absent THEN memory.cache ELSE object
           op == IF wantsLoadBalancer(object) THEN "Ensure" ELSE "Delete"
       IN  \/ /\ Forgotten
              /\ UNCHANGED <<lbs, call, panicked>>
              /\ Remember([memory EXCEPT !.queued = FALSE])
           \/ /\ ~Forgotten
              /\ Start(worker, op, service, nodes)
              /\ Remember([memory EXCEPT !.queued = FALSE, !.cache = service])
    /\ UNCHANGED cluster

\* Mutant: the service is forgotten although its deletion failed.
Forgets_always(k) == k.op = "Delete" /\ wantsLoadBalancer(k.service)

\* processServiceDeletion drops the service from the cache when it is done.
Forgets(k) == k.op = "Delete" /\ wantsLoadBalancer(k.service) /\ k.ret = "ok"

\* Mutant: only the creation of a load balancer is tried again.
Requeues_ensure(k, unsaved) == k.op = "Ensure" /\ (k.ret = "error" \/ unsaved)

\* Every failure is tried again, "not retryable" or not.
Requeues(k, unsaved) == k.ret = "error" \/ (unsaved /\ ~Forgets(k))

\* The status is written after a success, which may fail or be refused for a
\* service that has changed.
MayConflict(k) == object \notin {k.service, Absent}

WorkerEnds ==
    /\ At(worker, "done")
    /\ Collect(worker)
    /\ LET k == call[worker] IN
       \E unsaved \in {FALSE, "UpdateStatus" \in Faults \/ MayConflict(k)} :
          Remember([memory EXCEPT !.queued = @ \/ Requeues(k, unsaved),
                                  !.retrying = Requeues(k, unsaved),
                                  !.cache = IF Forgets(k) THEN Absent ELSE @])
    /\ UNCHANGED cluster

-----------------------------------------------------------------------------
(* nodeSyncLoop: if the nodes have changed, it updates the service in the  *)
(* cache, otherwise the ones that failed last time, as they were then.     *)
Todo == IF nodes = memory.knownHosts THEN memory.servicesToUpdate ELSE memory.cache

\* Mutant: services of every type are updated.
Updates_any(s) == s # Absent

Updates(s) == wantsLoadBalancer(s)

\* Mutant: the node sync ensures the load balancer instead of updating it.
UpdateOp_ensure == "Ensure"

UpdateOp == "Update"

NodeSync ==
    /\ At(sync, "idle") /\ ~panicked
    /\ \/ /\ Updates(Todo)
          /\ Start(sync, UpdateOp, Todo, nodes)
          /\ Remember([memory EXCEPT !.servicesToUpdate = Todo])
       \/ /\ ~Updates(Todo)
          /\ Remember([memory EXCEPT !.servicesToUpdate = Absent, !.knownHosts = nodes])
          /\ UNCHANGED <<lbs, call, panicked>>
    /\ UNCHANGED cluster

\* "It's only an actual error if the load balancer still exists."
NodeSyncEnds ==
    /\ At(sync, "done") /\ Collect(sync)
    /\ \E unknown \in {FALSE, "DescribeLoadBalancers" \in Faults} :
          LET retry == /\ call[sync].ret = "error"
                       /\ unknown \/ \E id \in LBIds : lbs[id].exists /\ lbs[id].listed
          IN  Remember([memory EXCEPT !.knownHosts = call[sync].nodes,
                           !.servicesToUpdate = IF retry THEN call[sync].service ELSE Absent])
    /\ UNCHANGED cluster

WorkerStep == WorkerTakes \/ CallStep(worker) \/ WorkerEnds

SyncStep == NodeSync \/ CallStep(sync) \/ NodeSyncEnds

SNext == \/ \E s \in Services \cup {Absent} : SetService(s)
         \/ \E ns \in NodeLists : SetNodes(ns)
         \/ WorkerStep \/ SyncStep
         \/ Killed \/ Restarts

SSpec == SInit /\ [][SNext]_svars

-----------------------------------------------------------------------------
Exists == \E id \in LBIds : lbs[id].exists

(* When the worker has nothing left to do, it has acted on the service as  *)
(* it is now: a load balancer exists if and only if the service wants one  *)
(* (syncService puts the key back after every failure).  That of a deleted *)
(* service is left behind in two cases only.  The process knows nothing of *)
(* the service, which was deleted while no process ran, or before it came  *)
(* to it.  Or the service had first become one without a load balancer,    *)
(* the deletion for that failed, and the service was gone before the next  *)
(* try: processServiceUpdate has overwritten the cached version that had   *)
(* the load balancer, and processServiceDeletion drops a key whose cached  *)
(* version has none.                                                       *)
SettledIsRight ==
    ~panicked /\ At(worker, "idle") /\ ~memory.queued =>
        /\ wantsLoadBalancer(object) => Exists /\ memory.cache = object
        /\ object # Absent /\ ~wantsLoadBalancer(object) => ~Exists
        /\ object = Absent =>
              /\ ~wantsLoadBalancer(memory.cache)
              /\ Exists => memory.cache = Absent \/ memory.retrying

(* The controller drops a service from its cache only when no load         *)
(* balancer is left, although the node sync may be updating it meanwhile.  *)
ForgetsOnlyDeleted ==
    [][memory.cache # Absent /\ memory'.cache = Absent /\ ~panicked' => ~Exists]_svars

\* The listeners of a load balancer are those the service asks for.
AsWanted(lb, s) ==
    \A p \in PortNumbers :
        LET want == {sp \in s.Ports : sp.Port = p /\ sp.NodePort # 0}
        IN  IF want = {} THEN lb.listeners[p] = NoListener
            ELSE \E sp \in want : /\ lb.listeners[p].Protocol = sp.Protocol
                                  /\ lb.listeners[p].BackendServerPort = sp.NodePort

\* The worker has done its work for the service as it is now.
Settled == /\ ~panicked /\ At(worker, "idle") /\ ~memory.queued
           /\ memory.cache = object /\ wantsLoadBalancer(object)

\* The node sync retries what failed: its first call for a list of nodes is
\* over, which is when that list becomes knownHosts.
IsRetry == call[sync].nodes = memory.knownHosts

(* "UpdateLoadBalancer updates hosts under the specified load balancer":   *)
(* once the worker has brought the listeners to what the service wants, a  *)
(* retry of the node sync, which has the version of the service that       *)
(* failed, does not replace them by those of that version.                 *)
HostsOnly ==
    [][\A id \in LBIds :
          /\ Settled /\ IsRetry /\ call'[sync] # call[sync] /\ call[sync].service # object
          /\ lbs[id].exists /\ AsWanted(lbs[id], object)
          => AsWanted(lbs'[id], object)]_svars
=============================================================================
