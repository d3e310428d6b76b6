# Verification of aliyun-controller

TLA+ models of the Aliyun cloud provider for Kubernetes in `src/` and of the
controllers that call it, model-checked with TLC on small instances, and theorems
about them proved with TLAPS.

## The system and its parts

Two programs share one provider, `AliyunProvider`.

* `aliyun-controller` is a daemon. One elected replica runs three controllers:
  the *service controller* calls `EnsureLoadBalancer`, `UpdateLoadBalancer` and
  `EnsureLoadBalancerDeleted`; the *route controller* calls `ListRoutes`,
  `CreateRoute` and `DeleteRoute`; the *provision controller* calls `Provision`
  and `Delete`.
* `aliyun-flexv` is the flexvolume driver. The attach-detach controller and the
  kubelets start one process per operation on a disk.

The provider keeps no state of its own. The state is in the cloud (disks, load
balancers, route table, instances), in the API server and in the controllers'
caches, and is changed by one request at a time. A request may be turned down,
may fail, or may take effect and lose its answer. What is hard is therefore what
lies between two requests: a look at the cloud that is outdated when it is used, a
process that dies, another call that interferes, a retry of something already
done.

| part | source | module | state |
|---|---|---|---|
| instance lookup | `providers/aliyun/utils.go` | `Instances`, `InstanceLookup` | modelled |
| load balancer calls | `providers/aliyun/loadbalancer.go` | `LoadBalancer` | modelled |
| service controller | vendored `controller/service` | `ServiceController` | partly |
| route calls | `providers/aliyun/routes.go` | `Routes` | modelled |
| route controller | vendored `controller/route` | `Routes` | partly |
| volume calls | `providers/aliyun/volume.go` | `Volumes`, `DiskService` | partly |
| flexvolume driver | `cmd/aliyun-flexv/main.go` | `Volumes`, `DiskService` | partly |
| provisioner calls | `volume.go` | `Provisioning` | modelled |
| provision controller | vendored `external-storage` | `Provisioning` | partly |
| option decoding | `pkg/util/map_utils.go` | `Provisioning` | partly |
| start-up, leader election | `pkg/controller/controller.go`, vendored `leaderelection` | `Leader` | modelled |
| attach-detach controller, zones, node helpers, registry, flags | | | not modelled, see below |

## Modules

Every component module has the cloud's state and the calls in progress as
variables. A call is a record with a program counter; each action is one request
with all the code up to the next request. `Faults` names the requests that may
fail; a failing request that changes something fails with or without effect.

**Instances** holds the lookups as operators: `getInstances` (one page, of the
cloud's choice), `getInstanceByNodeName`, `getInstancesByNodeNames` with its
cumulative filter (`Narrowed`), and `mapInstanceToNodeName`. `Volumes`,
`LoadBalancer` and `Routes` extend it. **InstanceLookup** runs the lookups against
an inventory in which instances start and are released.

**Volumes** models one disk (calls on different disks share nothing) and any
number of driver processes. `Start` is `main`'s switch, with `isattached` going
to `Attach` as in the code. `LookupInstance`, `Look`, `Steal`, `WaitAvailable`,
`AttachStep`, `WaitInUse`, `ReadDevice` and `DetachStep` are the requests of
`Attach`, `Detach` and `WaitForAttach`. `Kill` is the flexvolume plugin's timeout.
`FinishAttach` and `FinishDetach` are ECS. A device name is a pair of a prefix
and a letter, so `deviceApi2Local` is modelled by what it does.

**DiskService** is what the driver promises, without its steps: callers ask for
the disk to be attached, detached or waited for; the disk moves only for an open
ask that wants it where it is not; Success is given only to an ask that has been
fulfilled since it was made. **VolumesRefinement** shows that `Volumes`
implements it. The mapping takes status and owner from the disk and an ask from
each call; whether the ask has been fulfilled is a history variable (`met`), for
nothing in the driver records it.

**LoadBalancer** models one service: each service has a load balancer name of
its own, and calls touch nothing else. A load balancer has at most one listener
per port. `DescribeLoadBalancers` and `DescribeLoadBalancerAttribute` are
`getLoadBalancer`; `PollAgain` is the loop of three tries after a creation;
`DiffListener` to `ListenersSynced` are `ensureLBListeners`; `RemoveBackends` and
`AddBackends` are `ensureLBBackends`. `Panic` is the nil dereference in
`getLBListenerAttributes`; `Crash` may happen anywhere. With `ListLag`, a new load
balancer may be listed late or never; `late` records that it happened.

**ServiceController** puts the service controller on top of `LoadBalancer`: its
two goroutines are the `Callers`, and their calls overlap. `WorkerTakes` is
`syncService` up to the provider call, with the service as the informer has it at
that moment; `WorkerEnds` is the rest, with the write of the status. `NodeSync` and
`NodeSyncEnds` are a round of `nodeSyncLoop`, which gives `UpdateLoadBalancer` the
cached service or, on a retry, the copy that failed. `memory` is what the process
remembers and loses when it dies; in it `retrying` says that the last call for the
service failed (`lastRetryDelay` is not 0). `GetLoadBalancer` before a deletion is part of
the listing that the deletion itself makes.

**Routes** composes the three route calls with the route controller's
`reconcile`. A round reads the instances (`ListInstances`), the table
(`DescribeRouteTables`) and the nodes (`Reconcile`); then its goroutines run
concurrently (`LookupNode`, `CreateRouteEntry`, `DeleteRouteEntry`), creations with
retries. `updateNetworkingCondition` is a step of its own that may fail, with or
without effect: after each try to create a route, and for each node that has its
route but does not say so, before the deletions start. Which of several routes of
a node ends up in `routeMap` is left open.
Nodes and instances come and go at any point.

**Provisioning** follows the disk of one claim. `AddClaim` starts the provision
operation for a cached claim; `GetVolume`, `Provision`, `SaveVolume` and
`DeleteUnsaved` are its requests, the last two with their retries.
`UpdateVolume`, `Recheck`, `DeleteDisk` and `DeleteVolume` are the delete operations.
There is one per volume UID (`opName`): a save that takes effect makes a volume of
its own, so disk and number of the save identify it, while its name is always that
of the claim. The operations run side by side, on copies (`claimSeen`, `pvSeen`) that `Watch`
brings up to date. `locked` stands for the election the process has won for the
claim, which is an annotation of the claim, so a claim that is gone cannot be
locked anew. `DiskSize` rounds up as `ScaledValue` does. `MapToStruct` decodes the
class's parameters; all fields of the storage options are strings, so none can
fail to parse (the result `fsType` is then not used by the code). `DeleteDisk` of a
disk that is gone is taken to succeed.

**Leader** models the replicas of the controller. A try to take or renew the lease
is `Begin`, `Serve`, `Decide` and `Apply`, with failures in between; a write may be
applied late, also after its sender gave up, died or was restarted under the same
name, and an answer may come at any time. `Leads` is a success; a leader whose
deadline has passed makes one last try and is then `lost`. It still counts as
leading until the process ends: `run` calls `log.Fatal` when the channel is closed,
so the grace period in `OnStoppedLeading` does not delay it.

`now` is real time. A replica measures `RenewDeadline` and `LeaseDuration` on a clock
of its own that advances by `Slow` to `Fast` per unit of it, so a duration ends
somewhere between `Shortest` and `Longest`. The elector's own comment says "This
implementation does not guarantee that only one client is acting as a leader"
(`leaderelection.go:21`): nothing bounds how long a try or the end of a process
takes. `Tick` therefore waits for nobody; it marks as `late` a leader whose try has
gone on for `MaxTry`, which has not begun its last try at the deadline, or which has
not ended `ExitDelay` after the loss. A renewal in time makes up for it.
`MutualExclusion` is about the leaders that are not late; a late one may act beside
its successor.

`MC*` modules give the constants; one `.cfg` per run. Operators named
`<definition>_<what>` under a comment "Mutant" are deliberately wrong forms of the
definition that follows; they are used by no specification and serve to show
that each property can fail.

## Runs

Runs that pass:

| run | states | shows |
|---|---|---|
| `LookupHostname` | 1,620 | a lookup that succeeds never guesses, although names clash and pass on |
| `VolumesSerial` | 1,787 | one call at a time, with lost answers and kills: Success of attach and detach is true; every call ends |
| `VolumesConcurrent` | 184,392 | three overlapping calls with lost requests, lost answers and kills implement `DiskService`; a disk is released only where it may be |
| `LoadBalancerSerial` | 420,009 | a success leaves exactly the listeners and backends asked for, whatever died half way before; one load balancer and complete deletions while listings are prompt; no needless outage; every call ends |
| `Service` | 1,922,422 | worker and node sync overlap while service and nodes change and the process dies: a worker with nothing left to do has acted on the service as it is now, but for the load balancer of a deleted service in two cases (below); a service is forgotten only when no load balancer is left; there is never a second one |
| `Routes` | 385,276 | no wanted route and no route of others is ever removed; table and node conditions converge after the last disturbance |
| `Provisioning` | 253,877 | a disk is large enough and owned by someone, a volume has its disk, a claim is provisioned or given up and leaves nothing behind |
| `Leader` | 1,996,847 | of the processes that renew, give up and end in time at most one runs the controllers, however late the others are |

Runs that show where the code departs from what its interfaces, comments and
messages say (each checks one property, which TLC finds violated):

| run | what happens |
|---|---|
| `LookupNarrowing` | `getInstancesByNodeNames` filters the filtered list: two nodes, "Unable to get instance" |
| `VolumesSlow` | the result of `WaitForDisk` is ignored: Success with an empty path |
| `VolumesQuery` | `isattached` attaches a disk that was attached nowhere; it takes one from another node in the same way |
| `ServiceStale` | the node sync fails with one version of the service, the worker sets up the next; a retry that begins after that has the older version and removes a listener of the current one |

### What the passing runs assume

Some properties hold only under conditions that the code does not enforce. A
constant, or the left side of the property, states each condition; without it TLC
finds the property violated.

| property | condition | without it |
|---|---|---|
| `AttachReturnsAttached`, `Implements` | no `"WaitForDisk"` in `Faults` | run `VolumesSlow` |
| `AttachReturnsAttached`, `DetachReturnsDetached` | `Serial = TRUE` | another call moves the disk before the answer is read; `Implements` is what remains |
| `OneLoadBalancer`, `DeletedMeansGone` | `Prompt` | a late listing makes the next call create a second load balancer (each creation has a fresh client token), and a deletion removes only the first match |
| `Service` as a whole | `ListLag = FALSE` | `EnsureLoadBalancer` returns neither status nor error (line 187), and the worker dies of dereferencing the status |
| `SettledIsRight` | a deleted service is known to the process (`memory.cache # Absent`) | deleted while no process runs, or before the process has come to it, its load balancer stays |
| `SettledIsRight` | the last deletion for a service that had become `ClusterIP` did not fail (`memory.retrying`) | the cached service is then already the new one (line 239 of `servicecontroller.go`), and when the service is deleted its key is dropped (lines 794 to 797): the load balancer stays |
| `MissingMeansMissing` for one name | `PageSize` at least the number of instances | `getInstances` reads one page |
| `KeepsWantedRoutes` | one name per instance | a node named by the second address of its instance is listed under the first, so each round deletes its route and creates it again |
| `Converges` | no route of others to a node | `routeMap` keeps the last listed route; the right one is not seen, its creation is refused, and the node is marked NetworkUnavailable |
| `Converges` | dead entries are left out | `ListRoutes` skips the entry of a released instance (line 57), so it stays and blocks its CIDR |
| `EveryDiskOwned` | `leaked` | `CreateDisk` lost its answer, the process died before the save, deleting the unsaved disk failed too often, or a volume was deleted by an operation begun for an earlier one of the same name |
| `VolumeHasDisk` | `unsaved` | `CreatePV` took effect but lost its answer once: every later try is told that the volume exists, and the disk is deleted under it |
| `MutualExclusion` | `Longest(RenewDeadline) + 3 * MaxTry + ExitDelay < Shortest(LeaseDuration)` | with the defaults of 10 s and 15 s and clocks of one rate, three tries and the exit must take less than 5 s; with tries that take no time, rates may differ by a factor of 1.5 |
| `MutualExclusion` | `~late` | the client sets no timeout, so a try, and with it the process, may go on after the lease was taken |
| `MutualExclusion` | `--leader-elect` (set in the manifests) | every process runs the controllers |

Two departures are in the models without a property of their own: `WaitForAttach`
answers Success without a device path, and an error in reading a listener's
attributes is a nil dereference (`AttributesFail`, `Panic`).

### Bounds, and why they are enough

* Lookups: five instances cover a clash of host names and addresses that pass
  on; lists of up to two names cover the cumulative filter.
* Volumes: two nodes are the owner and the one who wants the disk, a third name
  has no instance, and `""` is the local instance. Three callers are two that
  interfere and one whose look is outdated by both; that run has two nodes,
  one letter and failures of the two requests that move the disk. In the others
  two letters tell a stale device name from the current one.
* LoadBalancer: two ports, two protocols, two node ports; the three versions
  of the service change each of them and drop a port; one has a port without a
  node port and an unsupported affinity. Two ids suffice for a duplicate; `LBIds`
  is the quota.
* ServiceController: two versions of the service that want a load balancer and
  one that does not; one node that is replaced by another, since the lookup of
  two names fails (`LookupNarrowing`). Three changes let a service change, change
  back or go while the nodes change. Failing requests are the two that create
  and delete and the status update; the others fail in `LoadBalancerSerial`.
* Routes: two nodes and two CIDRs let a CIDR move; five changes (`Changes`) are
  two nodes with their instances and a replacement; one failure, also of a
  status patch, or crash (`Failures`); `maxRetries` is 2 instead of 5, which is one retry.
* Provisioning: one claim whose capacity is above the smallest size and no
  multiple of `Giga`, so rounding down would show; one of the wrong access mode and
  one without a category. The proof covers every capacity. Two disks allow a failed
  round; then `CreateDisk` fails, as at a quota. Three failures are one more than
  `RetryCount`, so a retry loop fails and something fails after it.
* Leader: two replicas, one clock up to twice as fast as the other. The lease of 4
  expires after 2 to 4 units and `RenewDeadline` 1 after 1, so `MaxTime` 3 lets a
  lease expire and be taken over while its holder is late. A try in time takes
  less than a unit (`MaxTry` 0), and one of any length is late; two writes
  (`MaxWrites`) may be on their way. The proof has none of these bounds.

### Symmetry

Callers in `VolumesConcurrent`, load balancer ids in `Service` and replicas in
`Leader` are interchangeable; those runs check no liveness.

### Fairness

`Volumes`: a driver process that runs takes its next step, and ECS ends the
transitions it started. `LoadBalancer`: a goroutine takes its next step; SLB need
not ever list. `Routes`: the loop that `wait.NonSlidingUntil` repeats, and the
goroutines its wait group waits for, take their next step. `Provisioning`: the
informers deliver and resync (every 30 s), the provision operation and one of the
delete operations that run go on, and the persistent volume controller binds and releases. Calls, failures, changes and
crashes are never forced. `Converges`, `Provisioned` and `Reclaimed` need failures
to stop, which their bounds ensure.

## Proofs

The theorems hold for every value of the constants that meets the `ASSUME`s.

| module | theorem | says |
|---|---|---|
| `InstanceLookupProofs` | `DistinctHostNamesFail` | a lookup of two different host names always fails |
| `InstanceLookupProofs` | `NeverGuesses` | `LookupNeverGuesses`, if the instances fit on a page |
| `VolumesProofs` | `TypeCorrect`, `ReleasesRightNodeHolds` | for any number of overlapping calls and any faults |
| `VolumesProofs` | `AttachCorrect`, `DetachCorrect` | if calls do not overlap and waits do not time out |
| `VolumesProofs` | `ImplementsHolds` | for any number of overlapping calls and any faults; if waits may time out, only what is said of the disk, not of Success (`Prompt`) |
| `LoadBalancerProofs` | `TypeCorrect` | for any calls and faults |
| `LoadBalancerProofs` | `OneLoadBalancerHolds`, `DeletedMeansGoneHolds` | if calls do not overlap |
| `LoadBalancerSyncProofs` | `SuccessMeansSyncedHolds`, `NoNeedlessOutageHolds` | if calls do not overlap; listings may be late |
| `ServiceControllerProofs` | `STypeCorrect`, `ServiceOneLoadBalancerHolds`, `SettledIsRightHolds`, `ForgetsOnlyDeletedHolds` | for worker and node sync overlapping, any versions of the service, nodes, faults, kills and number of changes |
| `RoutesProofs` | `TypeCorrect` | for any changes and failures |
| `RoutesProofs` | `KeepsWantedRoutesHolds` | if nodes go by host name, or instances have one address |
| `ProvisioningProofs` | `TypeCorrect`, `CapacityServedHolds`, `EveryDiskOwnedHolds`, `VolumeHasDiskHolds` | for any claims, sizes, thresholds and failures |
| `LeaderProofs` | `TypeCorrect`, `LeaseHeldHolds`, `MutualExclusionHolds` | for any number of replicas, rates of clocks and delays that meet `LeaderAssumption` |

The inductive invariants, and why they are needed:

* `CallsOK` (VolumesProofs) ties what a call remembers to what it was called
  for: past the lookup, `instanceId` is the instance of its node, and `owner` is
  another one. ECS turns down a detach from an instance that does not hold the
  disk, so a stale look does no harm.
* `SerialOK` (VolumesProofs) says, for the one call in progress, what the disk
  must be at each program counter; it carries the Success answers.
* `HInv` (VolumesProofs) adds to `CallsOK` what the history variable
  knows. An attach call that waits has either been fulfilled already or its disk
  is still on its way to the right instance; whoever takes the disk away must
  first see it in use there, which fulfils the ask. So the Success it answers
  later is true of a moment of the call, although it may be false by then.
* `Good` (LoadBalancerProofs) is the type invariant plus that a call that works
  on a load balancer knows its id, without which its requests have no target.
* `SerialOK` (LoadBalancerProofs) says that at most one load balancer exists and
  is listed, that there is none when a call is about to create one, and none
  when a deletion has succeeded. The listing that found none is still true at
  the creation because no other call runs.
* `SyncInv` (LoadBalancerSyncProofs) says how far a call has come with its load
  balancer. `Accounted`: of the ports the service wants, those no longer in
  `expected` have their listener, and it runs unless it is still in `stopped` or
  `created`; every listener there is remains to be compared, or is to be removed,
  or is wanted. The backends equal those of the snapshot, then what the
  snapshot and the instances share, then the instances. No listener of a port is
  to be removed while it is as the service wants it, which is what
  `NoNeedlessOutage` needs of the step that removes it.
* `ControllerInv` (ServiceControllerProofs): there is at most one load balancer and
  it is listed (`CloudOK`); only the worker creates and deletes, so what its call
  knows of the load balancers (`Consistent`) stays true whatever the node sync
  does meanwhile, and what the node sync knows does not depend on it (`Role`);
  and unless its key is queued, the worker is at the service as it is now or has
  dealt with it (`Current`). `Cleaned` says when the cached version may be one
  without a load balancer while one exists: the worker is deleting it, or its last
  deletion failed; it carries the exception of `SettledIsRight`.
* `Inv` (RoutesProofs) says that goroutines only exist while a round waits for
  them, so the round's view of the nodes is theirs; that a deletion is for a
  route no node of that view wants; and that the instance it looked up bears
  the name of the route's target. If each instance has one name, the entry it
  removes leads to no other node.
* `Inv` (ProvisioningProofs) says of the volume object, its cached copy and the
  operations which disk each may name: a disk that is being saved or undone
  is not that of another volume, and a delete operation names a disk only
  after its volume was released.
* `LeaseOK` (LeaderProofs) says of each process (`ProcOK`, `LeadOK`) that a leader
  in time ends within `Longest(RenewDeadline) + 3 * MaxTry + ExitDelay` of the time
  it last wrote into the lease and that its record is still there, and of each
  write on its way (`WriteOK`) that it replaces nothing, an older record of its
  sender, or one that has been there for `Shortest(LeaseDuration)`. So a write can
  only replace the record of a leader that has ended or is late.

The proofs rest on the named `ASSUME`s, which TLC evaluates in the
runs of the modules that state them:
`InstancesAssumption`, `LoadBalancerAssumption` (the inventory fits on a page; a
service has one port per number and protocol), `VPCAssumption` (no two instances
share an id or an address), `ControllerAssumption` (the roles of the two
goroutines; listings are prompt), and those of `Volumes`, `Routes`, `Provisioning`
and `Leader`.

Only model-checked: the liveness properties `CallsEnd`, `Converges`, `Provisioned`
and `Reclaimed`, since fairness and ENABLED are out of the prover's reach. Every
safety property of a passing run is also proved. There is no recursion over data
in the models.

## Not modelled

* The attach-detach controller: `Volumes` allows every call at every time, overlapping
  with every other, which is more than its reconciler does, so what is shown
  holds under it. Whether it ever reaches its desired state is a property of
  that controller and of `isattached` (`VolumesQuery`).
* `MountDevice`, `UnmountDevice` and `Init` of the driver run commands on the node
  and keep no state. `GetVolumeName` and zones return what they are given.
* `IsAttached`, `getDiskByDevice`, `deviceLocal2Api`, `isLocal`, `StructToMap`,
  `MapCopy`, `MapEqual` and the helpers in `pkg/util/node.go` are called by nothing
  that changes state, most of them by nothing at all.
* Disks in creation or re-initialisation, listener options (bandwidth, health
  check: sent with a creation, never compared), the address in the status.
* `NewProvider` reads the environment and the metadata service once; what it
  decides that matters (`nodeNameType`, the local instance) is a constant.
* Flags: the values that matter are constants. Two processes given one
  `--instance-name` would both take themselves for the holder; `Replicas` are
  names, so they differ.
* Several services, claims or disks at once: calls for different ones share
  nothing but quotas. A load balancer's name is the UID cut to 32 characters;
  names are taken to differ.
* The route controller's limit of 200 concurrent creations, the delay of its node
  informer, back-off delays, and the difference between ready and schedulable
  nodes in the service controller.
