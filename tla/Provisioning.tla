---------------------------- MODULE Provisioning ----------------------------
(***************************************************************************)
(* The life of the disk of one persistent volume claim: the provider's     *)
(* Provision and Delete (volume.go) under the provision controller that    *)
(* calls them (external-storage, lib/controller), the persistent volume    *)
(* controller of Kubernetes and the user, one request per step.  The       *)
(* provision controller runs in one process at a time (Leader).            *)
(***************************************************************************)
EXTENDS Integers, FiniteSets

CONSTANTS DiskIds,         \* ids ECS may give to disks
          Claims,          \* what the claim and its storage class may say
          Giga,            \* 10^9 bytes, in the unit of the capacities
          MinSizeTable,    \* smallest size of a disk by category
          RetryCount,      \* createProvisionedPVRetryCount
          Threshold,       \* failedRetryThreshold (--provision-retry)
          Faults,          \* requests that may fail, or lose their answer
          Failures         \* how often they do, or the process dies (bound)

Requests == {"GetPV", "CreateDisk", "CreatePV", "DeleteDisk", "DeletePV"}
Capacities == {c.capacity : c \in Claims}

ASSUME ProvisioningAssumption ==
    /\ Giga \in Nat \ {0} /\ RetryCount \in Nat \ {0} /\ Threshold \in Nat /\ Failures \in Nat
    /\ Capacities \subseteq Nat
    /\ \A k \in DOMAIN MinSizeTable : MinSizeTable[k] \in Nat

NoDisk == "none"

ASSUME IdsAssumption == NoDisk \notin DiskIds

ASSUME FaultsAssumption == Faults \subseteq Requests \cup {"Crash"}

VARIABLES spec,            \* the claim's specification
          claim,           \* "pending", "bound" to the volume, or "gone"
          pv,              \* the PersistentVolume object "pvc-<UID>"
          disks, used,     \* the disks that exist, and those that ever did
          claimSeen, pvSeen,     \* the informers' copies
          locked,          \* the process holds the lock of the claim
          prov,            \* the operation provision-<claim>
          del,             \* the operations delete-<volume>[<UID>]
          failed,          \* failedClaimsStats of the claim
          failures,        \* failures so far
          leaked,          \* disks known to nobody, see EveryDiskOwned
          unsaved          \* the disk of a volume whose save lost its answer

vars == <<spec, claim, pv, disks, used, claimSeen, pvSeen, locked, prov, del, failed,
          failures, leaked, unsaved>>
objects == <<spec, claim, pv>>
caches == <<claimSeen, pvSeen>>
ghosts == <<leaked, unsaved>>

NoPV == [disk |-> NoDisk, save |-> 0, size |-> 0, phase |-> "absent"]
NoOp == [pc |-> "idle", disk |-> NoDisk, tries |-> 0]

Phases == {"absent", "available", "bound", "released"}
PVs == [disk : DiskIds \cup {NoDisk}, save : 0..RetryCount, size : Nat, phase : Phases]
Deletions == [pc : {"get", "delete", "remove"}, disk : DiskIds, save : 0..RetryCount]

TypeOK ==
    /\ spec \in Claims
    /\ claim \in {"pending", "bound", "gone"} /\ claimSeen \in {"pending", "bound", "gone"}
    /\ pv \in PVs /\ pvSeen \in PVs
    /\ disks \subseteq used /\ used \subseteq DiskIds
    /\ locked \in BOOLEAN
    /\ prov \in [pc : {"idle", "get", "create", "save", "undo"},
                 disk : DiskIds \cup {NoDisk}, tries : 0..RetryCount]
    /\ del \subseteq Deletions
    /\ failed \in 0..Threshold /\ failures \in 0..Failures
    /\ leaked \subseteq DiskIds /\ unsaved \subseteq DiskIds

Init ==
    /\ spec \in Claims /\ claim = "pending" /\ pv = NoPV /\ disks = {} /\ used = {}
    /\ claimSeen = "pending" /\ pvSeen = NoPV /\ locked = FALSE /\ prov = NoOp /\ del = {}
    /\ failed = 0 /\ failures = 0 /\ leaked = {} /\ unsaved = {}

\* A request fails: it was not carried out, or its answer is lost.
Fails(name) == /\ name \in Faults /\ failures < Failures
               /\ failures' = failures + 1

Succeeds == UNCHANGED failures

-----------------------------------------------------------------------------
(* The user, the persistent volume controller and the informers.           *)
DeleteClaim ==
    /\ claim # "gone" /\ claim' = "gone"
    /\ UNCHANGED <<spec, pv, disks, used, caches, locked, prov, del, failed, failures, ghosts>>

Bind ==
    /\ claim = "pending" /\ pv.phase = "available"
    /\ claim' = "bound" /\ pv' = [pv EXCEPT !.phase = "bound"]
    /\ UNCHANGED <<spec, disks, used, caches, locked, prov, del, failed, failures, ghosts>>

Release ==
    /\ claim = "gone" /\ pv.phase \in {"available", "bound"}
    /\ pv' = [pv EXCEPT !.phase = "released"]
    /\ UNCHANGED <<spec, claim, disks, used, caches, locked, prov, del, failed, failures, ghosts>>

Watch ==
    /\ \/ claimSeen # claim /\ claimSeen' = claim /\ UNCHANGED pvSeen
       \/ pvSeen # pv /\ pvSeen' = pv /\ UNCHANGED claimSeen
    /\ UNCHANGED <<objects, disks, used, locked, prov, del, failed, failures, ghosts>>

-----------------------------------------------------------------------------
\* Mutant: a claim is tried for ever.
shouldProvision_always == claimSeen = "pending"

\* Mutant: a claim that has failed is not tried again.
shouldProvision_once == claimSeen = "pending" /\ failed = 0

shouldProvision == claimSeen = "pending" /\ failed < Threshold

(* addClaim, also from updateClaim at every resync, and                    *)
(* provisionClaimOperation.  The lock is an annotation of the claim, kept  *)
(* for a while after the operation, so only a claim that exists is locked. *)
AddClaim ==
    /\ shouldProvision
    /\ prov.pc = "idle"               \* scheduleOperation
    /\ (locked \/ claim # "gone") /\ locked' = TRUE
    /\ prov' = [NoOp EXCEPT !.pc = "get"]
    /\ UNCHANGED <<objects, disks, used, caches, del, failed, failures, ghosts>>

Unlock ==
    /\ locked /\ locked' = FALSE
    /\ UNCHANGED <<objects, disks, used, caches, prov, del, failed, failures, ghosts>>

\* updateStats
ProvisionEnds(err) == prov' = NoOp /\ failed' = IF err THEN failed + 1 ELSE 0

\* An error of the Get counts as "no such volume".
GetVolume ==
    /\ prov.pc = "get"
    /\ \/ pv.phase # "absent" /\ Succeeds /\ ProvisionEnds(FALSE)
       \/ /\ (pv.phase = "absent" /\ Succeeds) \/ Fails("GetPV")
          /\ prov' = [prov EXCEPT !.pc = "create"] /\ UNCHANGED failed
    /\ UNCHANGED <<objects, disks, used, caches, locked, del, ghosts>>

\* The tags and the defaults of the fields; all are strings, which always parse.
StorageOptions == [FSType |-> "fsType", Category |-> "diskCategory"]
DefaultOptions == [FSType |-> "ext4", Category |-> ""]

\* A field is set if its tag is a key of the map.
MapToStruct(in, out, tags) ==
    [f \in DOMAIN out |-> IF tags[f] \in DOMAIN in THEN in[tags[f]] ELSE out[f]]

Category == MapToStruct(spec.parameters, DefaultOptions, StorageOptions).Category

Supported == ~spec.selector /\ "ReadWriteOnce" \in spec.accessModes /\ Category # ""

MinSize == IF Category \in DOMAIN MinSizeTable THEN MinSizeTable[Category] ELSE 5

\* Mutant: the capacity is rounded down.
DiskSize_floor ==
    LET size == spec.capacity \div Giga IN IF size < MinSize THEN MinSize ELSE size

\* ScaledValue rounds up.
DiskSize ==
    LET size == (spec.capacity + Giga - 1) \div Giga
    IN  IF size < MinSize THEN MinSize ELSE size

\* ECS makes a disk; which id it gets is all the same.
NewDisk == CHOOSE d \in DiskIds : d \notin used

CreateDisk == /\ used # DiskIds
              /\ disks' = disks \cup {NewDisk} /\ used' = used \cup {NewDisk}

Provision ==
    /\ prov.pc = "create"
    /\ \/ /\ Supported /\ Succeeds
          /\ CreateDisk /\ prov' = [prov EXCEPT !.pc = "save", !.disk = NewDisk]
          /\ UNCHANGED <<failed, leaked>>
       \/ /\ \/ ~Supported /\ Succeeds
             \/ Supported /\ used = DiskIds /\ Succeeds
             \/ Supported /\ Fails("CreateDisk")
          /\ ProvisionEnds(TRUE) /\ UNCHANGED <<disks, used, leaked>>
       \/ /\ Supported /\ Fails("CreateDisk") /\ ProvisionEnds(TRUE)
          /\ CreateDisk /\ leaked' = leaked \cup {NewDisk}
    /\ UNCHANGED <<objects, caches, locked, del, unsaved>>

\* Mutant: an error of the last save is not looked at.
SaveFails_forget == prov' = NoOp /\ failed' = 0

SaveFails ==
    /\ prov' = IF prov.tries + 1 < RetryCount THEN [prov EXCEPT !.tries = @ + 1]
               ELSE [prov EXCEPT !.pc = "undo", !.tries = 0]
    /\ UNCHANGED failed

\* Mutant: the error of an earlier try is still set.
SaveSucceeds_err ==
    IF prov.tries = 0 THEN ProvisionEnds(FALSE)
    ELSE prov' = [prov EXCEPT !.pc = "undo", !.tries = 0] /\ UNCHANGED failed

SaveSucceeds == ProvisionEnds(FALSE)

SaveVolume ==
    LET new == [disk |-> prov.disk, save |-> prov.tries, size |-> DiskSize,
                phase |-> "available"] IN
    /\ prov.pc = "save"
    /\ \/ pv.phase = "absent" /\ pv' = new /\ Succeeds /\ SaveSucceeds
          /\ UNCHANGED unsaved
       \/ /\ (pv.phase # "absent" /\ Succeeds) \/ Fails("CreatePV")
          /\ SaveFails /\ UNCHANGED <<pv, unsaved>>
       \/ /\ pv.phase = "absent" /\ Fails("CreatePV")
          /\ SaveFails /\ pv' = new /\ unsaved' = unsaved \cup {prov.disk}
    /\ UNCHANGED <<spec, claim, disks, used, caches, locked, del, leaked>>

\* The save failed: the disk is deleted, and no error is returned.
DeleteUnsaved ==
    /\ prov.pc = "undo"
    /\ \/ Succeeds /\ disks' = disks \ {prov.disk} /\ ProvisionEnds(FALSE)
          /\ UNCHANGED leaked
       \/ /\ Fails("DeleteDisk")
          /\ disks' \in {disks, disks \ {prov.disk}}
          /\ IF prov.tries + 1 < RetryCount
             THEN prov' = [prov EXCEPT !.tries = @ + 1] /\ UNCHANGED <<failed, leaked>>
             ELSE ProvisionEnds(FALSE) /\ leaked' = leaked \cup {prov.disk}
    /\ UNCHANGED <<objects, used, caches, locked, del, unsaved>>

-----------------------------------------------------------------------------
\* Mutant: the claim of the volume must still be known.
shouldDelete_claimed == pvSeen.phase = "released" /\ claimSeen # "gone"

shouldDelete == pvSeen.phase = "released"

\* The operation has the UID of the volume in its name: each save that takes
\* effect makes another volume.
opName(v) == <<v.disk, v.save>>

(* updateVolume, at every resync, and deleteVolumeOperation.               *)
UpdateVolume ==
    /\ shouldDelete
    /\ opName(pvSeen) \notin {opName(o) : o \in del}
    /\ del' = del \cup {[pc |-> "get", disk |-> pvSeen.disk, save |-> pvSeen.save]}
    /\ UNCHANGED <<objects, disks, used, caches, locked, prov, failed, failures, ghosts>>

GoesOn(o, pc) == del' = (del \ {o}) \cup {[o EXCEPT !.pc = pc]}

DeletionEnds(o) == del' = del \ {o}

\* The volume that has the name now is looked at, whatever its UID.
Recheck(o) ==
    /\ o.pc = "get"
    /\ \/ pv.phase = "released" /\ Succeeds /\ GoesOn(o, "delete")
       \/ ((pv.phase # "released" /\ Succeeds) \/ Fails("GetPV")) /\ DeletionEnds(o)
    /\ UNCHANGED <<objects, disks, used, caches, locked, prov, failed, ghosts>>

DeleteDisk(o) ==
    /\ o.pc = "delete"
    /\ \/ Succeeds /\ disks' = disks \ {o.disk} /\ GoesOn(o, "remove")
       \/ /\ Fails("DeleteDisk") /\ DeletionEnds(o)
          /\ disks' \in {disks, disks \ {o.disk}}
    /\ UNCHANGED <<objects, used, caches, locked, prov, failed, ghosts>>

DeleteVolume(o) ==
    /\ o.pc = "remove"
    /\ \/ Succeeds /\ pv' = NoPV
       \/ Fails("DeletePV") /\ pv' \in {pv, NoPV}
    /\ DeletionEnds(o)
    /\ leaked' = leaked \cup ({pv.disk} \ {pv'.disk, o.disk})
    /\ UNCHANGED <<spec, claim, disks, used, caches, locked, prov, failed, unsaved>>

\* The process dies and another lists everything afresh.
Crash ==
    /\ Fails("Crash")
    /\ prov' = NoOp /\ del' = {} /\ failed' = 0 /\ locked' = FALSE
    /\ claimSeen' = claim /\ pvSeen' = pv
    /\ leaked' = leaked \cup ({prov.disk} \ {NoDisk, pv.disk})
    /\ UNCHANGED <<objects, disks, used, unsaved>>

ProvisionOperation == GetVolume \/ Provision \/ SaveVolume \/ DeleteUnsaved

DeleteOperation(o) == Recheck(o) \/ DeleteDisk(o) \/ DeleteVolume(o)

Next == \/ DeleteClaim \/ Bind \/ Release \/ Watch \/ AddClaim \/ Unlock \/ UpdateVolume
        \/ ProvisionOperation \/ (\E o \in del : DeleteOperation(o)) \/ Crash

Spec == Init /\ [][Next]_vars

\* Resyncs and informers keep coming; of the operations that run one goes on.
FairSpec == /\ Spec /\ WF_vars(Bind) /\ WF_vars(Release) /\ WF_vars(Watch)
            /\ WF_vars(AddClaim) /\ WF_vars(UpdateVolume)
            /\ WF_vars(ProvisionOperation)
            /\ WF_vars(\E o \in del : DeleteOperation(o))

-----------------------------------------------------------------------------
(* Provision asks for at least the capacity of the claim, and for no less  *)
(* than the category allows; the volume says what was asked for.           *)
CapacityServed ==
    pv.phase # "absent" => pv.size * Giga >= spec.capacity /\ pv.size >= MinSize

(* A disk exists for a volume or for a running operation.  The exceptions  *)
(* are those of leaked: CreateDisk lost its answer (no client token is     *)
(* sent), the process died before the volume was saved, deleting an        *)
(* unsaved disk failed RetryCount times, or the volume was deleted by an   *)
(* operation begun for an earlier volume of the same name.                 *)
EveryDiskOwned == disks \subseteq {pv.disk, prov.disk} \cup leaked

(* A volume that has not been released has its disk, unless the answer to  *)
(* its save was lost: the disk is then deleted under it.                   *)
VolumeHasDisk ==
    pv.phase \in {"available", "bound"} /\ pv.disk \notin unsaved => pv.disk \in disks

(* A supported claim gets its volume or is deleted, unless it has failed   *)
(* too often: a save that fails is no such failure, and once ECS has no    *)
(* more disks to give every try is one.                                    *)
Provisioned == Supported ~> (claim # "pending" \/ failed >= Threshold)

(* Of a deleted claim nothing stays, but what has leaked.                  *)
Reclaimed == claim = "gone" ~> pv.phase = "absent" /\ disks \subseteq leaked
=============================================================================
