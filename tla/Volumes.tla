------------------------------- MODULE Volumes -------------------------------
(***************************************************************************)
(* The flexvolume driver on one ECS disk.  Each call of the aliyun-flexv   *)
(* binary (cmd/aliyun-flexv/main.go) is a process that runs one method of  *)
(* pkg/cloudprovider/providers/aliyun/volume.go, one ECS request per step. *)
(* Calls on different disks share nothing, so one disk is modelled.        *)
(***************************************************************************)
EXTENDS Instances

CONSTANTS Callers,         \* driver processes that may run at a time
          Nodes,           \* node names passed to the driver; may include ""
          Inventory,       \* the instances of the VPC
          LocalInstance,   \* p.instance: ALIYUN_INSTANCE or metadata, or ""
          Ops,             \* the driver operations that are called
          Letters,         \* last letters of the device names ECS hands out
          Serial,          \* TRUE if calls on the disk never overlap
          Faults           \* the requests that may fail or lose their answer

Ids == {i.InstanceId : i \in Inventory} \cup {LocalInstance}

NoInstance == ""

ASSUME VolumesAssumption ==
    /\ Cardinality(Inventory) <= PageSize
    /\ NoInstance \notin {i.InstanceId : i \in Inventory}
    /\ Serial \in BOOLEAN
    /\ Ops \subseteq {"attach", "isattached", "detach", "waitforattach"}

VARIABLES disk,            \* the disk as ECS describes it
          call             \* call[c]: the driver process c

vars == <<disk, call>>

DiskStatus == {"Available", "Attaching", "In_use", "Detaching"}

\* A device name: the API says /dev/xvd?, the node sees /dev/vd?.
APIPrefix == "/dev/xvd"
LocalPrefix == "/dev/vd"
NoDevice == <<"", "">>
Devices == ({APIPrefix, LocalPrefix} \X Letters) \cup {NoDevice}

\* Mutant: the new prefix is one letter short.
deviceApi2Local_short(d) == IF d[1] = APIPrefix THEN <<"/dev/v", d[2]>> ELSE d

deviceApi2Local(d) == IF d[1] = APIPrefix THEN <<LocalPrefix, d[2]>> ELSE d

Disks == [Status : DiskStatus, InstanceId : Ids \cup {NoInstance}, Device : Devices]

Pcs == {"idle", "lookup", "look", "steal", "waitavailable", "attach",
        "waitinuse", "read", "detach", "done"}

Rets == {"", "Success", "Failure", "Not supported"}

Calls == [op : Ops \cup {"none"}, node : Nodes \cup {""}, pc : Pcs,
          instanceId : Ids \cup {NoInstance}, owner : Ids \cup {NoInstance},
          ret : Rets, path : Devices]

NoCall == [op |-> "none", node |-> "", pc |-> "idle", instanceId |-> NoInstance,
           owner |-> NoInstance, ret |-> "", path |-> NoDevice]

Free == [Status |-> "Available", InstanceId |-> NoInstance, Device |-> NoDevice]

TypeOK == disk \in Disks /\ call \in [Callers -> Calls]

Init == disk = Free /\ call = [c \in Callers |-> NoCall]

-----------------------------------------------------------------------------
(* The ECS side: what the requests do to the disk, and what ECS does on    *)
(* its own.  A request that ECS turns down leaves the disk alone.          *)
AttachDiskAccepted == disk.Status = "Available"

AttachDisk(i) == [disk EXCEPT !.Status = "Attaching", !.InstanceId = i]

DetachDiskAccepted(i) == disk.Status = "In_use" /\ disk.InstanceId = i

DetachDisk == [disk EXCEPT !.Status = "Detaching"]

FinishAttach ==
    /\ disk.Status = "Attaching"
    /\ \E l \in Letters :
          disk' = [disk EXCEPT !.Status = "In_use", !.Device = <<APIPrefix, l>>]
    /\ UNCHANGED call

FinishDetach ==
    /\ disk.Status = "Detaching"
    /\ disk' = Free
    /\ UNCHANGED call

-----------------------------------------------------------------------------
Idle(c) == call[c].pc = "idle"

At(c, pc) == call[c].pc = pc

Becomes(c, r) == call' = [call EXCEPT ![c] = r]

Goto(c, pc) == Becomes(c, [call[c] EXCEPT !.pc = pc])

Return(c, status) == Becomes(c, [call[c] EXCEPT !.pc = "done", !.ret = status])

\* getDiskById may fail, or not find the disk; the method returns Failure.
ReadFails(c) ==
    "DescribeDisks" \in Faults /\ Return(c, "Failure") /\ UNCHANGED disk

\* A request that changes the disk: accepted or turned down by ECS, or its
\* answer is lost, whether or not it took effect.
Request(c, name, accepted, newDisk, next) ==
    \/ accepted /\ disk' = newDisk /\ Becomes(c, next)
    \/ ~accepted /\ UNCHANGED disk /\ Return(c, "Failure")
    \/ /\ name \in Faults
       /\ disk' \in {disk, IF accepted THEN newDisk ELSE disk}
       /\ Return(c, "Failure")

(* main's switch on the operation; "isattached" runs Attach.  WaitForAttach *)
(* names no instance, and has nothing to ask ECS without an access key.    *)
Start(c, op, node) ==
    /\ Idle(c)
    /\ Serial => \A d \in Callers : Idle(d)
    /\ LET begin == [NoCall EXCEPT !.op = op, !.node = node] IN
          \/ op # "waitforattach" /\ Becomes(c, [begin EXCEPT !.pc = "lookup"])
          \/ op = "waitforattach" /\ Becomes(c, [begin EXCEPT !.pc = "look"])
          \/ /\ op = "waitforattach"
             /\ Becomes(c, [begin EXCEPT !.pc = "done", !.ret = "Not supported"])
    /\ UNCHANGED disk

\* Which instance is meant: p.instance, or the one of the node if it is named.
InstanceOf(node) ==
    IF node = "" THEN LocalInstance
    ELSE LET found == getInstanceByNodeName(Inventory, node)
         IN  IF found.err = "nil" THEN found.instances[1].InstanceId ELSE NoInstance

LookupInstance(c) ==
    /\ At(c, "lookup")
    /\ LET i == InstanceOf(call[c].node) IN
          \/ /\ i # NoInstance
             /\ Becomes(c, [call[c] EXCEPT !.pc = "look", !.instanceId = i])
          \/ i = NoInstance /\ Return(c, "Failure")
          \/ /\ "DescribeInstances" \in Faults /\ call[c].node # ""
             /\ Return(c, "Failure")
    /\ UNCHANGED disk

\* Attach answers the path under which the node sees the disk.
ReturnPath(c) == Becomes(c, [call[c] EXCEPT !.pc = "done", !.ret = "Success",
                                            !.path = deviceApi2Local(disk.Device)])

\* Mutant: Attach does not ask who uses the disk.
AttachLook_anyOwner(c) ==
    \/ /\ disk.Status = "In_use"
       /\ Becomes(c, [call[c] EXCEPT !.pc = "steal", !.owner = disk.InstanceId])
    \/ disk.Status # "In_use" /\ Goto(c, "attach")

\* What Attach does with its first look at the disk.
AttachLook(c) ==
    \/ /\ disk.Status = "In_use" /\ disk.InstanceId = call[c].instanceId
       /\ ReturnPath(c)
    \/ /\ disk.Status = "In_use" /\ disk.InstanceId # call[c].instanceId
       /\ Becomes(c, [call[c] EXCEPT !.pc = "steal", !.owner = disk.InstanceId])
    \/ disk.Status # "In_use" /\ Goto(c, "attach")

\* Mutant: a disk that is being attached counts as detached.
DetachLook_attaching(c) ==
    IF disk.Status # "In_use" \/ disk.InstanceId # call[c].instanceId
    THEN Return(c, "Success")
    ELSE Goto(c, "detach")

\* What Detach does with its look at the disk.
DetachLook(c) ==
    IF \/ disk.Status \in {"Detaching", "Available"}
       \/ disk.InstanceId # call[c].instanceId
    THEN Return(c, "Success")
    ELSE Goto(c, "detach")

\* getDiskById, the first look of each method.
Look(c) ==
    /\ At(c, "look")
    /\ \/ call[c].op \in {"attach", "isattached"} /\ AttachLook(c)
       \/ call[c].op = "detach" /\ DetachLook(c)
       \/ call[c].op = "waitforattach" /\ Goto(c, "waitinuse")
    /\ UNCHANGED disk

LookFails(c) == At(c, "look") /\ ReadFails(c)

\* Attach: the disk is in use elsewhere, "Have to detach here".
Steal(c) ==
    /\ At(c, "steal")
    /\ Request(c, "DetachDisk", DetachDiskAccepted(call[c].owner),
               DetachDisk, [call[c] EXCEPT !.pc = "waitavailable"])

\* Mutant: WaitForDisk has no timeout.
WaitEnds_never(status) == disk.Status = status

(* WaitForDisk polls until the disk has the status, a describe fails or 60 *)
(* seconds are over.  A disk in no transition keeps its status, so the     *)
(* wait for another status ends by timing out.                             *)
WaitEnds(status) ==
    \/ disk.Status = status
    \/ disk.Status \in {"Available", "In_use"}
    \/ "WaitForDisk" \in Faults

WaitAvailable(c) ==
    /\ At(c, "waitavailable")
    /\ WaitEnds("Available")
    /\ Goto(c, "attach")
    /\ UNCHANGED disk

AttachStep(c) ==
    /\ At(c, "attach")
    /\ Request(c, "AttachDisk", AttachDiskAccepted,
               AttachDisk(call[c].instanceId), [call[c] EXCEPT !.pc = "waitinuse"])

\* Mutant: Attach reads the device without waiting for the disk.
WaitInUse_skipped(c) ==
    /\ At(c, "waitinuse")
    /\ IF call[c].op = "waitforattach" THEN Return(c, "Success") ELSE Goto(c, "read")
    /\ UNCHANGED disk

\* Attach ignores how its wait ended; WaitForAttach returns it.
WaitInUse(c) ==
    /\ At(c, "waitinuse")
    /\ WaitEnds("In_use")
    /\ IF call[c].op = "waitforattach"
       THEN \/ disk.Status = "In_use" /\ Return(c, "Success")
            \/ ("WaitForDisk" \in Faults \/ disk.Status # "In_use") /\ Return(c, "Failure")
       ELSE Goto(c, "read")
    /\ UNCHANGED disk

\* Attach: the disk is read again for its device name.
ReadDevice(c) ==
    /\ At(c, "read")
    /\ ReturnPath(c)
    /\ UNCHANGED disk

ReadDeviceFails(c) == At(c, "read") /\ ReadFails(c)

DetachStep(c) ==
    /\ At(c, "detach")
    /\ Request(c, "DetachDisk", DetachDiskAccepted(call[c].instanceId),
               DetachDisk, [call[c] EXCEPT !.pc = "done", !.ret = "Success"])

\* The caller reads the answer, or kills the process before it has one.
Collect(c) ==
    /\ At(c, "done")
    /\ Becomes(c, NoCall)
    /\ UNCHANGED disk

Running(c) == call[c].pc \notin {"idle", "done"}

Kill(c) ==
    /\ Running(c)
    /\ Becomes(c, NoCall)
    /\ UNCHANGED disk

Step(c) == \/ LookupInstance(c) \/ Look(c) \/ LookFails(c) \/ Steal(c)
           \/ WaitAvailable(c) \/ AttachStep(c) \/ WaitInUse(c)
           \/ ReadDevice(c) \/ ReadDeviceFails(c) \/ DetachStep(c)

Cloud == FinishAttach \/ FinishDetach

Next == \/ \E c \in Callers, op \in Ops, node \in Nodes : Start(c, op, node)
        \/ \E c \in Callers : Step(c) \/ Collect(c) \/ Kill(c)
        \/ Cloud

Spec == Init /\ [][Next]_vars

\* Driver processes run, and ECS ends the transitions it started.
FairSpec == Spec /\ WF_vars(Cloud) /\ \A c \in Callers : WF_vars(Step(c))

-----------------------------------------------------------------------------
(* However stale its look at the disk is and whatever other calls do in    *)
(* between, a detach call makes ECS let go of the disk only where it is in *)
(* use on the instance of the node it was called for; an attach call never *)
(* does so on its own instance (volume.go lines 184 and 245).              *)
ReleasesRightNode ==
    [][\A c \in Callers :
          /\ disk.Status = "In_use" /\ disk'.Status = "Detaching"
          /\ call'[c] # call[c]
          => (call[c].op = "detach") = (disk.InstanceId = InstanceOf(call[c].node))]_vars

(* When Attach answers Success, the disk is in use on the instance of the  *)
(* node it was called for and the path is the node's name of its device    *)
(* (lines 177-181 and 204-211).                                            *)
AttachReturnsAttached ==
    \A c \in Callers :
        call[c].op = "attach" /\ call[c].ret = "Success" =>
            /\ disk.Status = "In_use"
            /\ disk.InstanceId = InstanceOf(call[c].node)
            /\ disk.Device[1] = APIPrefix
            /\ call[c].path = <<LocalPrefix, disk.Device[2]>>

(* When Detach answers Success, the disk is not in use, nor about to be,   *)
(* on the instance of the node it was called for (lines 236-250).          *)
DetachReturnsDetached ==
    \A c \in Callers :
        call[c].op = "detach" /\ call[c].ret = "Success" =>
            \/ disk.Status \in {"Available", "Detaching"}
            \/ disk.InstanceId # InstanceOf(call[c].node)

(* Every call of the driver comes to an end: the waits are bounded.        *)
CallsEnd == \A c \in Callers : Running(c) ~> ~Running(c)

(* "VolumesAreAttached checks whether the list of volumes still attached   *)
(* to the specified node": no step of an isattached call changes the disk. *)
QueryLeavesDisk ==
    [][\A c \in Callers :
          call[c].op = "isattached" /\ call'[c] # call[c] => UNCHANGED disk]_vars
=============================================================================
