------------------------- MODULE ProvisioningProofs -------------------------
(***************************************************************************)
(* Proofs about Provisioning for every claim, any number of disks, tries,  *)
(* failures and crashes.                                                   *)
(***************************************************************************)
EXTENDS Provisioning, TLAPS

\* A volume, as the API server has it or as the informer shows it, has a disk
\* that was made for it.
PVOK(p) == /\ p \in PVs
           /\ p.phase = "absent" => p.disk = NoDisk
           /\ p.phase # "absent" => p.disk \in used

\* Only an operation that has made a disk has one, and none begins for a claim
\* that has failed too often.
ProvOK == /\ prov.pc \in {"idle", "get", "create"} => prov.disk = NoDisk
          /\ prov.pc \in {"save", "undo"} => prov.disk \in used
          /\ prov.pc # "idle" => failed < Threshold

\* A disk that no request to save has named yet is known to the operation
\* alone, and exists until that deletes it.
PrivateOK ==
    prov.pc \in {"save", "undo"} /\ prov.disk \notin unsaved =>
        /\ prov.disk \notin {pv.disk, pvSeen.disk} /\ (\A o \in del : prov.disk # o.disk)
        /\ prov.pc = "save" => prov.disk \in disks

\* The disk of a deletion is that of a released volume, and is gone before the
\* volume is.
DelOK ==
    \A o \in del :
       /\ o.disk \in used
       /\ o.pc = "remove" => o.disk \notin disks
       /\ o.pc \in {"delete", "remove"} /\ pv.disk = o.disk /\ pv.disk \notin unsaved =>
             pv.phase = "released"

\* A volume says the size that was asked for.
SizeOK == pv.phase # "absent" => pv.size = DiskSize

\* The inductive invariant.
Inv == /\ TypeOK /\ PVOK(pv) /\ PVOK(pvSeen) /\ ProvOK /\ PrivateOK /\ DelOK /\ SizeOK
       /\ EveryDiskOwned /\ VolumeHasDisk

-----------------------------------------------------------------------------
\* Rounding up to a multiple loses nothing.
LEMMA RoundUp ==
  ASSUME NEW c \in Nat, NEW g \in Nat \ {0}
  PROVE  /\ (c + g - 1) \div g \in Nat
         /\ ((c + g - 1) \div g) * g >= c
<1> DEFINE q == (c + g - 1) \div g
           r == (c + g - 1) % g
<1>1. q \in Int /\ r \in 0..(g - 1) /\ c + g - 1 = g * q + r
  BY SMT
<1> HIDE DEF q, r
<1>2. g * q >= c
  BY <1>1
<1>3. q >= 0
  BY <1>1, <1>2
<1>4. g * q = q * g
  BY <1>1
<1> QED
  BY <1>1, <1>2, <1>3, <1>4 DEF q

LEMMA MinSizeType == MinSize \in Nat
  BY ProvisioningAssumption DEF MinSize

LEMMA SizeServes ==
  ASSUME spec \in Claims
  PROVE  DiskSize \in Nat /\ DiskSize * Giga >= spec.capacity /\ DiskSize >= MinSize
<1> DEFINE size == (spec.capacity + Giga - 1) \div Giga
<1>1. spec.capacity \in Nat /\ Giga \in Nat \ {0}
  BY ProvisioningAssumption DEF Capacities
<1>2. size \in Nat /\ size * Giga >= spec.capacity
  BY <1>1, RoundUp
<1>3. DiskSize = IF size < MinSize THEN MinSize ELSE size
  BY DEF DiskSize
<1> HIDE DEF size
<1>4. CASE size < MinSize
  <2>1. MinSize * Giga >= size * Giga
    BY <1>1, <1>2, <1>4, MinSizeType
  <2> QED
    BY <1>1, <1>2, <1>3, <1>4, <2>1, MinSizeType
<1>5. CASE ~(size < MinSize)
  BY <1>2, <1>3, <1>5, MinSizeType
<1> QED
  BY <1>4, <1>5

LEMMA SizeStays == ASSUME spec' = spec PROVE DiskSize' = DiskSize
  BY DEF DiskSize, MinSize, Category

LEMMA Constants ==
  /\ NoPV.phase = "absent" /\ NoPV.disk = NoDisk /\ NoPV \in PVs
  /\ NoOp.pc = "idle" /\ NoOp.disk = NoDisk /\ NoOp.tries = 0
<1>1. 0 \in 0..RetryCount
  BY ProvisioningAssumption
<1> QED
  BY <1>1 DEF NoPV, NoOp, PVs, Phases

\* ECS gives a new disk an id that no disk has had.
LEMMA NewDiskIsNew ==
  ASSUME TypeOK, used # DiskIds
  PROVE  NewDisk \in DiskIds /\ NewDisk \notin used /\ NewDisk # NoDisk
<1>1. \E d \in DiskIds : d \notin used
  BY DEF TypeOK
<1> QED
  BY <1>1, IdsAssumption DEF NewDisk

\* The counters stay within their bounds.
LEMMA FailuresType ==
  ASSUME TypeOK, NEW name, Succeeds \/ Fails(name)
  PROVE  failures' \in 0..Failures
<1>1. failures \in 0..Failures
  BY DEF TypeOK
<1> QED
  BY <1>1, ProvisioningAssumption DEF Succeeds, Fails

LEMMA TriesType ==
  /\ 0 \in 0..RetryCount /\ 0 \in 0..Threshold /\ 0 \in 0..Failures
  /\ \A t \in 0..RetryCount : t + 1 < RetryCount => t + 1 \in 0..RetryCount
  /\ \A f \in 0..Threshold : f < Threshold => f + 1 \in 0..Threshold
  BY ProvisioningAssumption

ProvRecords == [pc : {"idle", "get", "create", "save", "undo"},
                disk : DiskIds \cup {NoDisk}, tries : 0..RetryCount]

LEMMA NoOpType == NoOp \in ProvRecords
  BY TriesType DEF NoOp, ProvRecords

\* An operation that ends leaves nothing behind.
LEMMA EndsType ==
  ASSUME Inv, prov.pc # "idle", NEW err \in BOOLEAN, ProvisionEnds(err)
  PROVE  prov' = NoOp /\ failed' \in 0..Threshold
<1>1. failed \in 0..Threshold /\ failed < Threshold
  BY DEF Inv, TypeOK, ProvOK
<1> QED
  BY <1>1, TriesType DEF ProvisionEnds

\* A failed save leaves the operation with its disk.
LEMMA SaveFailsType ==
  ASSUME Inv, prov.pc = "save", SaveFails
  PROVE  /\ prov' \in ProvRecords /\ prov'.pc \in {"save", "undo"}
         /\ prov'.disk = prov.disk /\ failed' = failed
<1>1. prov \in ProvRecords
  BY DEF Inv, TypeOK, ProvRecords
<1>2. CASE prov.tries + 1 < RetryCount
  <2>1. prov' = [prov EXCEPT !.tries = @ + 1] /\ failed' = failed
    BY <1>2 DEF SaveFails
  <2>2. prov.tries + 1 \in 0..RetryCount
    BY <1>1, <1>2, TriesType DEF ProvRecords
  <2> QED
    BY <1>1, <2>1, <2>2 DEF ProvRecords
<1>3. CASE ~(prov.tries + 1 < RetryCount)
  <2>1. prov' = [prov EXCEPT !.pc = "undo", !.tries = 0] /\ failed' = failed
    BY <1>3 DEF SaveFails
  <2> QED
    BY <1>1, <2>1, TriesType, Zenon DEF ProvRecords
<1> QED
  BY <1>2, <1>3

-----------------------------------------------------------------------------
\* What the invariant does not speak of may change.
LEMMA OthersInv ==
  ASSUME Inv, TypeOK',
         UNCHANGED <<spec, pv, pvSeen, disks, used, prov, del, failed, leaked, unsaved>>
  PROVE  Inv'
<1>1. PVOK(pv)' /\ PVOK(pvSeen)' /\ ProvOK' /\ PrivateOK' /\ DelOK'
  BY DEF Inv, PVOK, ProvOK, PrivateOK, DelOK
<1>2. SizeOK'
  BY SizeStays DEF Inv, SizeOK
<1>3. EveryDiskOwned' /\ VolumeHasDisk'
  BY DEF Inv, EveryDiskOwned, VolumeHasDisk
<1> QED
  BY <1>1, <1>2, <1>3 DEF Inv

\* A volume that has not been released is bound or released.
LEMMA PhaseInv ==
  ASSUME Inv, pv.phase \in {"available", "bound"}, NEW phase \in {"bound", "released"},
         pv' = [pv EXCEPT !.phase = phase], claim' \in {"pending", "bound", "gone"},
         UNCHANGED <<spec, disks, used, caches, locked, prov, del, failed, failures, ghosts>>
  PROVE  Inv'
<1>1. pv \in [disk : DiskIds \cup {NoDisk}, save : 0..RetryCount, size : Nat, phase : Phases]
  BY DEF Inv, PVOK, PVs
<1>2. /\ pv' \in [disk : DiskIds \cup {NoDisk}, save : 0..RetryCount, size : Nat, phase : Phases]
      /\ pv'.disk = pv.disk /\ pv'.size = pv.size /\ pv'.phase = phase
  BY <1>1 DEF Phases
<1>3. pv' \in PVs /\ pvSeen' = pvSeen
  BY <1>2 DEF PVs, caches
<1>4. TypeOK'
  BY <1>3 DEF Inv, TypeOK, caches, ghosts
<1>5. PVOK(pv)' /\ PVOK(pvSeen)'
  BY <1>2, <1>3 DEF Inv, PVOK
<1>6. ProvOK' /\ PrivateOK' /\ DelOK'
  BY <1>2, <1>3 DEF Inv, ProvOK, PrivateOK, DelOK, ghosts
<1>7. SizeOK'
  BY <1>2, SizeStays DEF Inv, SizeOK
<1>8. EveryDiskOwned' /\ VolumeHasDisk'
  BY <1>2 DEF Inv, EveryDiskOwned, VolumeHasDisk, ghosts
<1> QED
  BY <1>4, <1>5, <1>6, <1>7, <1>8 DEF Inv

LEMMA EnvironmentInv ==
  ASSUME Inv, DeleteClaim \/ Bind \/ Release \/ Watch \/ Unlock
  PROVE  Inv'
<1>1. CASE DeleteClaim \/ Unlock
  <2>1. TypeOK'
    BY <1>1, Zenon DEF Inv, TypeOK, DeleteClaim, Unlock, objects, caches, ghosts
  <2> QED
    BY <1>1, <2>1, OthersInv DEF DeleteClaim, Unlock, objects, caches, ghosts
<1>2. CASE Bind
  BY <1>2, PhaseInv DEF Bind
<1>3. CASE Release
  <2>1. claim' \in {"pending", "bound", "gone"}
    BY <1>3 DEF Release, Inv, TypeOK
  <2> QED
    BY <1>3, <2>1, PhaseInv DEF Release
<1>4. CASE Watch
  <2>1. /\ pvSeen' \in {pv, pvSeen} /\ claimSeen' \in {claim, claimSeen}
        /\ UNCHANGED <<spec, claim, pv, disks, used, locked, prov, del, failed, failures,
                      leaked, unsaved>>
    BY <1>4 DEF Watch, objects, ghosts
  <2>2. TypeOK'
    BY <2>1 DEF Inv, TypeOK
  <2>3. PVOK(pv)' /\ PVOK(pvSeen)' /\ ProvOK' /\ PrivateOK' /\ DelOK'
    BY <2>1 DEF Inv, PVOK, ProvOK, PrivateOK, DelOK
  <2>4. SizeOK' /\ EveryDiskOwned' /\ VolumeHasDisk'
    BY <2>1, SizeStays DEF Inv, SizeOK, EveryDiskOwned, VolumeHasDisk
  <2> QED
    BY <2>2, <2>3, <2>4 DEF Inv
<1> QED
  BY <1>1, <1>2, <1>3, <1>4

-----------------------------------------------------------------------------
\* Steps of the operation provision-<claim> that leave volumes and disks alone.
LEMMA ProvInv ==
  ASSUME Inv, prov.disk = NoDisk, prov' \in ProvRecords, prov'.disk = NoDisk,
         prov'.pc \in {"idle", "get", "create"}, prov'.pc # "idle" => failed' < Threshold,
         failed' \in 0..Threshold, failures' \in 0..Failures, locked' \in BOOLEAN,
         UNCHANGED <<objects, disks, used, caches, del, ghosts>>
  PROVE  Inv'
<1>1. TypeOK'
  BY DEF Inv, TypeOK, ProvRecords, objects, caches, ghosts
<1>2. PVOK(pv)' /\ PVOK(pvSeen)' /\ ProvOK' /\ PrivateOK' /\ DelOK'
  BY DEF Inv, PVOK, ProvOK, PrivateOK, DelOK, objects, caches, ghosts
<1>3. SizeOK'
  BY SizeStays DEF Inv, SizeOK, objects
<1>4. EveryDiskOwned' /\ VolumeHasDisk'
  BY DEF Inv, EveryDiskOwned, VolumeHasDisk, objects, ghosts
<1> QED
  BY <1>1, <1>2, <1>3, <1>4 DEF Inv

LEMMA AddClaimInv == ASSUME Inv, AddClaim PROVE Inv'
<1>1. prov' \in ProvRecords /\ prov'.pc = "get" /\ prov'.disk = NoDisk
  BY NoOpType, Constants DEF AddClaim, ProvRecords
<1>2. failed' \in 0..Threshold /\ failures' \in 0..Failures /\ failed' < Threshold
  BY DEF Inv, TypeOK, AddClaim, shouldProvision
<1>3. prov.disk = NoDisk
  BY DEF Inv, ProvOK, AddClaim
<1> QED
  BY <1>1, <1>2, <1>3, ProvInv DEF AddClaim

LEMMA GetVolumeInv == ASSUME Inv, GetVolume PROVE Inv'
<1>1. prov.disk = NoDisk /\ prov \in ProvRecords /\ locked' \in BOOLEAN
  BY DEF Inv, TypeOK, ProvRecords, ProvOK, GetVolume
<1>2. failures' \in 0..Failures
  BY FailuresType, Zenon DEF Inv, GetVolume
<1>3. CASE ProvisionEnds(FALSE)
  BY <1>1, <1>2, <1>3, EndsType, NoOpType, Constants, ProvInv, Zenon DEF GetVolume
<1>4. CASE prov' = [prov EXCEPT !.pc = "create"] /\ UNCHANGED failed
  <2>1. prov' \in ProvRecords /\ prov'.pc = "create" /\ prov'.disk = NoDisk
    BY <1>1, <1>4 DEF ProvRecords
  <2>2. failed' \in 0..Threshold /\ failed' < Threshold
    BY <1>4 DEF Inv, TypeOK, ProvOK, GetVolume
  <2> QED
    BY <1>1, <1>2, <2>1, <2>2, ProvInv DEF GetVolume
<1> QED
  BY <1>3, <1>4, Zenon DEF GetVolume

\* A new disk is owned by the operation, or has leaked.
LEMMA CreateDiskInv ==
  ASSUME Inv, prov.pc = "create", CreateDisk, prov' \in ProvRecords,
         \/ /\ prov'.pc = "save" /\ prov'.disk = NewDisk
            /\ UNCHANGED <<failed, leaked>>
         \/ /\ prov'.pc = "idle" /\ prov'.disk = NoDisk
            /\ failed' \in 0..Threshold /\ leaked' = leaked \cup {NewDisk},
         failures' \in 0..Failures, UNCHANGED <<objects, caches, locked, del, unsaved>>
  PROVE  Inv'
<1>1. NewDisk \in DiskIds /\ NewDisk \notin used /\ NewDisk # NoDisk
  BY NewDiskIsNew DEF Inv, CreateDisk
<1>2. disks' = disks \cup {NewDisk} /\ used' = used \cup {NewDisk}
  BY DEF CreateDisk
<1>3. prov.disk = NoDisk /\ failed < Threshold
  BY DEF Inv, ProvOK
<1> HIDE DEF NewDisk
<1>4. TypeOK'
  BY <1>1, <1>2 DEF Inv, TypeOK, ProvRecords, objects, caches
<1>5. PVOK(pv)' /\ PVOK(pvSeen)' /\ ProvOK'
  BY <1>2, <1>3 DEF Inv, PVOK, ProvOK, objects, caches
<1>6. NewDisk \notin {pv.disk, pvSeen.disk} /\ \A o \in del : NewDisk # o.disk
  BY <1>1 DEF Inv, PVOK, DelOK
<1>7. PrivateOK' /\ DelOK'
  BY <1>1, <1>2, <1>6 DEF Inv, PrivateOK, DelOK, objects, caches
<1>8. SizeOK' /\ VolumeHasDisk'
  BY <1>2, SizeStays DEF Inv, SizeOK, VolumeHasDisk, objects
<1>9. EveryDiskOwned'
  BY <1>2, <1>3, IdsAssumption DEF Inv, TypeOK, EveryDiskOwned, objects
<1> QED
  BY <1>4, <1>5, <1>7, <1>8, <1>9 DEF Inv

LEMMA ProvisionInv == ASSUME Inv, Provision PROVE Inv'
<1>1. /\ prov.pc = "create" /\ prov.disk = NoDisk /\ prov \in ProvRecords
      /\ locked' \in BOOLEAN
  BY DEF Inv, TypeOK, ProvRecords, ProvOK, Provision
<1>2. failures' \in 0..Failures
  BY FailuresType, Zenon DEF Inv, Provision
<1>3. CASE CreateDisk /\ prov' = [prov EXCEPT !.pc = "save", !.disk = NewDisk]
           /\ UNCHANGED <<failed, leaked>>
  <2>1. NewDisk \in DiskIds
    BY <1>3, NewDiskIsNew DEF Inv, CreateDisk
  <2> HIDE DEF NewDisk
  <2>2. prov' \in ProvRecords /\ prov'.pc = "save" /\ prov'.disk = NewDisk
    BY <1>1, <1>3, <2>1, Zenon DEF ProvRecords
  <2> QED
    BY <1>1, <1>2, <1>3, <2>2, CreateDiskInv DEF Provision
<1>4. CASE CreateDisk /\ ProvisionEnds(TRUE) /\ leaked' = leaked \cup {NewDisk}
  <2>1. prov' = NoOp /\ failed' \in 0..Threshold
    BY <1>1, <1>4, EndsType, Zenon
  <2> QED
    BY <1>1, <1>2, <1>4, <2>1, NoOpType, Constants, CreateDiskInv DEF Provision
<1>5. CASE ProvisionEnds(TRUE) /\ UNCHANGED <<disks, used, leaked>>
  <2>1. prov' = NoOp /\ failed' \in 0..Threshold
    BY <1>1, <1>5, EndsType, Zenon
  <2> QED
    BY <1>1, <1>2, <1>5, <2>1, NoOpType, Constants, ProvInv DEF Provision, ghosts
<1> QED
  BY <1>3, <1>4, <1>5, Zenon DEF Provision

\* The volume appears, or the operation goes on with its disk.
LEMMA SaveVolumeInv == ASSUME Inv, SaveVolume PROVE Inv'
<1> DEFINE new == [disk |-> prov.disk, save |-> prov.tries, size |-> DiskSize,
                   phase |-> "available"]
<1>1. /\ prov.pc = "save" /\ prov.disk \in used /\ prov.disk \in DiskIds
      /\ prov.disk # NoDisk /\ failed < Threshold /\ failed \in 0..Threshold
      /\ prov.tries \in 0..RetryCount
  BY IdsAssumption DEF Inv, TypeOK, ProvOK, SaveVolume
<1>2. failures' \in 0..Failures
  BY FailuresType DEF Inv, SaveVolume
<1>3. DiskSize \in Nat
  BY SizeServes DEF Inv, TypeOK
<1>4. /\ new \in PVs /\ new.disk = prov.disk /\ new.size = DiskSize
      /\ new.phase = "available"
  BY <1>1, <1>3 DEF PVs, Phases
<1> HIDE DEF new
<1>5. UNCHANGED <<spec, claim, disks, used, claimSeen, pvSeen, locked, del, leaked>>
  BY DEF SaveVolume, caches
<1>6. \/ pv' = pv
      \/ pv.phase = "absent" /\ pv' = new
  BY SMTT(30) DEF SaveVolume, new
<1>7. /\ prov' \in ProvRecords
      /\ \/ prov'.pc = "idle" /\ prov'.disk = NoDisk /\ pv' = new /\ unsaved' = unsaved
         \/ /\ prov'.pc \in {"save", "undo"} /\ prov'.disk = prov.disk /\ failed' = failed
            /\ \/ pv' = pv /\ unsaved' = unsaved
               \/ pv' = new /\ unsaved' = unsaved \cup {prov.disk}
      /\ failed' \in 0..Threshold
  <2>1. CASE SaveSucceeds /\ pv' = new /\ unsaved' = unsaved
    BY <1>1, <2>1, EndsType, NoOpType, Constants, Zenon DEF SaveSucceeds
  <2>2. CASE SaveFails /\ pv' = pv /\ unsaved' = unsaved
    BY <1>1, <2>2, SaveFailsType
  <2>3. CASE SaveFails /\ pv' = new /\ unsaved' = unsaved \cup {prov.disk}
    BY <1>1, <2>3, SaveFailsType
  <2> QED
    BY <2>1, <2>2, <2>3 DEF SaveVolume, new
<1>8. TypeOK'
  BY <1>1, <1>2, <1>4, <1>5, <1>6, <1>7 DEF Inv, TypeOK, ProvRecords
<1>9. PVOK(pv)' /\ PVOK(pvSeen)' /\ ProvOK'
  BY <1>1, <1>4, <1>5, <1>6, <1>7 DEF Inv, PVOK, ProvOK
<1>10. PrivateOK'
  BY <1>1, <1>5, <1>7, SMTT(30) DEF Inv, PrivateOK
<1>11. DelOK'
  BY <1>1, <1>4, <1>5, <1>6, <1>7 DEF Inv, PrivateOK, DelOK
<1>12. SizeOK'
  BY <1>4, <1>5, <1>6, SizeStays DEF Inv, SizeOK
<1>13. EveryDiskOwned'
  <2>1. disks \subseteq {pv.disk, prov.disk} \cup leaked /\ NoDisk \notin disks
    BY IdsAssumption DEF Inv, TypeOK, EveryDiskOwned
  <2>2. pv' = pv \/ (pv.disk = NoDisk /\ pv'.disk = prov.disk)
    BY <1>4, <1>6 DEF Inv, PVOK
  <2>3. prov'.disk = prov.disk \/ pv'.disk = prov.disk
    BY <1>4, <1>7
  <2> QED
    BY <1>5, <2>1, <2>2, <2>3 DEF EveryDiskOwned
<1>14. VolumeHasDisk'
  BY <1>1, <1>4, <1>5, <1>6, <1>7 DEF Inv, PrivateOK, VolumeHasDisk
<1> QED
  BY <1>8, <1>9, <1>10, <1>11, <1>12, <1>13, <1>14 DEF Inv

LEMMA DeleteUnsavedInv == ASSUME Inv, DeleteUnsaved PROVE Inv'
<1>1. /\ prov.pc = "undo" /\ prov.disk \in used /\ prov.disk \in DiskIds
      /\ failed < Threshold /\ failed \in 0..Threshold /\ prov \in ProvRecords
  BY IdsAssumption DEF Inv, TypeOK, ProvOK, DeleteUnsaved, ProvRecords
<1>2. failures' \in 0..Failures
  BY FailuresType, Zenon DEF Inv, DeleteUnsaved
<1>3. UNCHANGED <<spec, claim, pv, used, claimSeen, pvSeen, locked, del, unsaved>>
  BY DEF DeleteUnsaved, objects, caches
<1>4. disks' = disks \/ disks' = disks \ {prov.disk}
  BY Zenon DEF DeleteUnsaved
<1>5. /\ prov' \in ProvRecords /\ failed' \in 0..Threshold
      /\ \/ /\ prov'.pc = "undo" /\ prov'.disk = prov.disk
            /\ failed' = failed /\ leaked' = leaked
         \/ /\ prov'.pc = "idle" /\ prov'.disk = NoDisk
            /\ \/ leaked' = leaked /\ disks' = disks \ {prov.disk}
               \/ leaked' = leaked \cup {prov.disk}
  <2>1. CASE ProvisionEnds(FALSE) /\ (\/ leaked' = leaked /\ disks' = disks \ {prov.disk}
                                     \/ leaked' = leaked \cup {prov.disk})
    BY <1>1, <2>1, EndsType, NoOpType, Constants, Zenon
  <2>2. CASE /\ prov.tries + 1 < RetryCount /\ prov' = [prov EXCEPT !.tries = @ + 1]
             /\ UNCHANGED <<failed, leaked>>
    <3>1. prov.tries + 1 \in 0..RetryCount
      BY <1>1, <2>2, TriesType DEF ProvRecords
    <3> QED
      BY <1>1, <2>2, <3>1 DEF ProvRecords
  <2> QED
    BY <2>1, <2>2, Zenon DEF DeleteUnsaved
<1>6. TypeOK'
  BY <1>1, <1>2, <1>3, <1>4, <1>5, SMTT(30) DEF Inv, TypeOK, ProvRecords
<1>7. PVOK(pv)' /\ PVOK(pvSeen)' /\ ProvOK' /\ PrivateOK'
  BY <1>1, <1>3, <1>5 DEF Inv, PVOK, ProvOK, PrivateOK
<1>8. DelOK' /\ SizeOK'
  BY <1>3, <1>4, SizeStays DEF Inv, DelOK, SizeOK
<1>9. EveryDiskOwned'
  BY <1>3, <1>4, <1>5 DEF Inv, EveryDiskOwned
<1>10. VolumeHasDisk'
  BY <1>1, <1>3, <1>4 DEF Inv, PrivateOK, VolumeHasDisk
<1> QED
  BY <1>6, <1>7, <1>8, <1>9, <1>10 DEF Inv

-----------------------------------------------------------------------------
(* The operations delete-<volume>[<UID>].                                  *)
\* An operation that begins, goes on or ends leaves the others alone.
LEMMA DeletionInv ==
  ASSUME Inv, UpdateVolume \/ \E o \in del : Recheck(o) \/ DeleteDisk(o)
  PROVE  Inv'
<1>1. /\ failures' \in 0..Failures
      /\ UNCHANGED <<spec, claim, pv, used, claimSeen, pvSeen, locked, prov, failed, leaked, unsaved>>
  <2>1. CASE UpdateVolume
    BY <2>1 DEF Inv, TypeOK, UpdateVolume, objects, caches, ghosts
  <2>2. ASSUME NEW o \in del, Recheck(o) \/ DeleteDisk(o)
        PROVE  <1>1!2 /\ (Succeeds \/ Fails("GetPV") \/ Fails("DeleteDisk"))
    BY <2>2, Zenon DEF Recheck, DeleteDisk, objects, caches, ghosts
  <2> QED
    BY <2>1, <2>2, FailuresType DEF Inv
\* The record such a step adds, or that of the operation it ends.
<1> DEFINE Moves(o) ==
        /\ o.disk \in used /\ del' \subseteq del \cup {o}
        /\ \/ del' \subseteq del
           \/ o.pc = "get" /\ o.disk = pvSeen.disk
           \/ /\ o.pc = "delete" /\ pv.phase = "released"
              /\ \E p \in del : o.disk = p.disk
           \/ /\ o.pc = "remove" /\ o.disk \notin disks'
              /\ \E p \in del : p.pc = "delete" /\ o.disk = p.disk
        /\ \/ disks' = disks
           \/ disks' = disks \ {o.disk} /\ \E p \in del : p.pc = "delete" /\ o.disk = p.disk
<1>2. \E o \in Deletions : Moves(o)
  <2>1. CASE UpdateVolume
    <3> DEFINE o == [pc |-> "get", disk |-> pvSeen.disk, save |-> pvSeen.save]
    <3>1. pvSeen.phase = "released" /\ pvSeen \in PVs /\ pvSeen.disk \in used
      BY <2>1 DEF UpdateVolume, shouldDelete, Inv, PVOK
    <3>2. pvSeen.disk \in DiskIds /\ pvSeen.save \in 0..RetryCount
      BY <3>1 DEF Inv, TypeOK, PVs
    <3>3. o \in Deletions /\ o.pc = "get" /\ o.disk = pvSeen.disk
      BY <3>2 DEF Deletions
    <3>4. del' = del \cup {o} /\ disks' = disks
      BY <2>1 DEF UpdateVolume
    <3> QED
      BY <3>1, <3>3, <3>4
  <2>2. ASSUME NEW p \in del, Recheck(p) \/ DeleteDisk(p)
        PROVE  \E o \in Deletions : Moves(o)
    <3>1. p \in Deletions /\ p.disk \in used
      BY DEF Inv, TypeOK, DelOK
    <3>2. CASE DeletionEnds(p)
      <4>1. del' \subseteq del
        BY <3>2 DEF DeletionEnds
      <4>2. disks' = disks \/ (disks' = disks \ {p.disk} /\ p.pc = "delete")
        BY <2>2, Zenon DEF Recheck, DeleteDisk
      <4>3. Moves(p)
        BY <3>1, <4>1, <4>2
      <4> HIDE DEF Moves
      <4> QED
        BY <3>1, <4>3
    <3>3. CASE Recheck(p) /\ pv.phase = "released" /\ GoesOn(p, "delete")
      <4> DEFINE o == [p EXCEPT !.pc = "delete"]
      <4>1. o \in Deletions /\ o.pc = "delete" /\ o.disk = p.disk
        BY <3>1 DEF Deletions
      <4>2. del' \subseteq del \cup {o} /\ disks' = disks
        BY <3>3 DEF GoesOn, Recheck
      <4> HIDE DEF o
      <4>3. Moves(o)
        BY <3>1, <3>3, <4>1, <4>2
      <4> HIDE DEF Moves
      <4> QED
        BY <4>1, <4>3
    <3>4. CASE DeleteDisk(p) /\ disks' = disks \ {p.disk} /\ GoesOn(p, "remove")
      <4> DEFINE o == [p EXCEPT !.pc = "remove"]
      <4>1. o \in Deletions /\ o.pc = "remove" /\ o.disk = p.disk /\ p.pc = "delete"
        BY <3>1, <3>4 DEF Deletions, DeleteDisk
      <4>2. del' \subseteq del \cup {o}
        BY <3>4 DEF GoesOn
      <4> HIDE DEF o
      <4>3. Moves(o)
        BY <3>1, <3>4, <4>1, <4>2
      <4> HIDE DEF Moves
      <4> QED
        BY <4>1, <4>3
    <3> HIDE DEF Moves
    <3> QED
      BY <2>2, <3>2, <3>3, <3>4, Zenon DEF Recheck, DeleteDisk
  <2> HIDE DEF Moves
  <2> QED
    BY <2>1, <2>2
<1>3. PICK o \in Deletions : Moves(o)
  BY <1>2
<1>4. disks' \subseteq disks
  BY <1>3
<1>5. TypeOK'
  BY <1>1, <1>3, <1>4 DEF Inv, TypeOK
<1>6. PVOK(pv)' /\ PVOK(pvSeen)' /\ ProvOK'
  BY <1>1 DEF Inv, PVOK, ProvOK
<1>7. PrivateOK'
  <2> SUFFICES ASSUME prov.pc \in {"save", "undo"}, prov.disk \notin unsaved
               PROVE  /\ \A q \in del' : prov.disk # q.disk
                      /\ prov.pc = "save" => prov.disk \in disks'
    BY <1>1 DEF Inv, PrivateOK
  <2>1. prov.disk # pvSeen.disk /\ \A q \in del : prov.disk # q.disk
    BY DEF Inv, PrivateOK
  <2>2. del' \subseteq del \/ prov.disk # o.disk
    BY <1>3, <2>1
  <2>3. prov.pc = "save" => prov.disk \in disks'
    BY <1>3, <2>1 DEF Inv, PrivateOK
  <2> QED
    BY <1>3, <2>1, <2>2, <2>3
<1>8. DelOK'
  <2> SUFFICES ASSUME NEW q \in del'
               PROVE  /\ q.disk \in used
                      /\ q.pc = "remove" => q.disk \notin disks'
                      /\ q.pc \in {"delete", "remove"} /\ pv.disk = q.disk
                            /\ pv.disk \notin unsaved => pv.phase = "released"
    BY <1>1 DEF DelOK
  <2>1. CASE q \in del
    BY <1>4, <2>1 DEF Inv, DelOK
  <2>2. CASE q = o /\ ~(del' \subseteq del)
    BY <1>3, <2>2 DEF Inv, DelOK
  <2> QED
    BY <1>3, <2>1, <2>2
<1>9. SizeOK' /\ EveryDiskOwned'
  BY <1>1, <1>4, SizeStays DEF Inv, SizeOK, EveryDiskOwned
<1>10. VolumeHasDisk'
  BY <1>1, <1>3 DEF Inv, DelOK, VolumeHasDisk
<1> QED
  BY <1>5, <1>6, <1>7, <1>8, <1>9, <1>10 DEF Inv

LEMMA DeleteVolumeInv ==
  ASSUME Inv, NEW o \in del, DeleteVolume(o)
  PROVE  Inv'
<1>1. /\ o.disk \in used /\ o.disk \notin disks
      /\ del' \subseteq del /\ leaked' = leaked \cup ({pv.disk} \ {pv'.disk, o.disk})
  BY DEF Inv, DelOK, DeleteVolume, DeletionEnds
<1>2. /\ failures' \in 0..Failures
      /\ UNCHANGED <<spec, claim, disks, used, claimSeen, pvSeen, locked, prov, failed, unsaved>>
  BY FailuresType, Zenon DEF Inv, DeleteVolume, caches
<1>3. pv' = pv \/ (pv' \in PVs /\ pv'.phase = "absent" /\ pv'.disk = NoDisk)
  BY Constants, SMTT(30) DEF DeleteVolume
<1>4. leaked' \subseteq DiskIds
  <2>1. pv.disk \in DiskIds \cup {NoDisk}
    BY DEF Inv, TypeOK, PVs
  <2>2. pv'.disk \in {pv.disk, NoDisk}
    BY <1>3
  <2>3. pv.disk = NoDisk => pv'.disk = pv.disk
    BY <2>2
  <2> QED
    BY <1>1, <2>1, <2>3 DEF Inv, TypeOK
<1>5. TypeOK'
  BY <1>1, <1>2, <1>3, <1>4, SMTT(30) DEF Inv, TypeOK
<1>6. PVOK(pv)' /\ PVOK(pvSeen)' /\ ProvOK'
  BY <1>2, <1>3, SMTT(30) DEF Inv, PVOK, ProvOK
<1>7. PrivateOK' /\ DelOK'
  <2>1. prov.pc \in {"save", "undo"} => prov.disk # NoDisk
    BY IdsAssumption DEF Inv, TypeOK, ProvOK
  <2>2. \A q \in del : q.disk # NoDisk
    BY IdsAssumption DEF Inv, TypeOK, Deletions
  <2> QED
    BY <1>1, <1>2, <1>3, <2>1, <2>2 DEF Inv, PrivateOK, DelOK
<1>8. SizeOK' /\ VolumeHasDisk'
  BY <1>2, <1>3, SizeStays DEF Inv, SizeOK, VolumeHasDisk
<1>9. EveryDiskOwned'
  BY <1>1, <1>2 DEF Inv, EveryDiskOwned
<1> QED
  BY <1>5, <1>6, <1>7, <1>8, <1>9 DEF Inv

LEMMA CrashInv == ASSUME Inv, Crash PROVE Inv'
<1>1. /\ prov' = NoOp /\ del' = {} /\ failed' = 0 /\ locked' = FALSE
      /\ claimSeen' = claim /\ pvSeen' = pv
      /\ leaked' = leaked \cup ({prov.disk} \ {NoDisk, pv.disk})
      /\ UNCHANGED <<spec, claim, pv, disks, used, unsaved>>
  BY DEF Crash, objects
<1>2. failures' \in 0..Failures
  BY FailuresType, SMTT(30) DEF Inv, Crash
<1>3. TypeOK'
  <2>1. leaked' \subseteq DiskIds
    BY <1>1 DEF Inv, TypeOK
  <2>2. prov' \in ProvRecords /\ failed' \in 0..Threshold /\ locked' \in BOOLEAN
    BY <1>1, NoOpType, TriesType, Zenon
  <2> QED
    BY <1>1, <1>2, <2>1, <2>2 DEF Inv, TypeOK, ProvRecords
<1>4. PVOK(pv)' /\ PVOK(pvSeen)' /\ ProvOK' /\ PrivateOK' /\ DelOK'
  BY <1>1, Constants, SMTT(30) DEF Inv, PVOK, ProvOK, PrivateOK, DelOK
<1>5. SizeOK' /\ VolumeHasDisk'
  BY <1>1, SizeStays DEF Inv, SizeOK, VolumeHasDisk
<1>6. EveryDiskOwned'
  <2>1. NoDisk \notin disks
    BY IdsAssumption DEF Inv, TypeOK
  <2> QED
    BY <1>1, <2>1 DEF Inv, EveryDiskOwned
<1> QED
  BY <1>3, <1>4, <1>5, <1>6 DEF Inv

-----------------------------------------------------------------------------
LEMMA InitInv == Init => Inv
<1> SUFFICES ASSUME Init PROVE Inv
  OBVIOUS
<1>1. TypeOK
  BY TriesType, NoOpType, Constants, Zenon DEF Init, TypeOK, ProvRecords
<1>2. PVOK(pv) /\ PVOK(pvSeen) /\ ProvOK /\ PrivateOK /\ DelOK /\ SizeOK
  BY Constants, SMTT(30) DEF Init, PVOK, ProvOK, PrivateOK, DelOK, SizeOK
<1>3. EveryDiskOwned /\ VolumeHasDisk
  BY Constants DEF Init, EveryDiskOwned, VolumeHasDisk
<1> QED
  BY <1>1, <1>2, <1>3 DEF Inv

\* The invariant is inductive: one case per kind of step.
LEMMA NextInv == Inv /\ [Next]_vars => Inv'
<1> SUFFICES ASSUME Inv, [Next]_vars PROVE Inv'
  OBVIOUS
<1>1. CASE DeleteClaim \/ Bind \/ Release \/ Watch \/ Unlock
  BY <1>1, EnvironmentInv
<1>2. CASE AddClaim \/ GetVolume \/ Provision \/ SaveVolume \/ DeleteUnsaved
  BY <1>2, AddClaimInv, GetVolumeInv, ProvisionInv, SaveVolumeInv, DeleteUnsavedInv
<1>3. CASE UpdateVolume \/ \E o \in del : DeleteOperation(o)
  BY <1>3, DeletionInv, DeleteVolumeInv DEF DeleteOperation
<1>4. CASE Crash
  BY <1>4, CrashInv
<1>5. CASE UNCHANGED vars
  <2>1. TypeOK'
    BY <1>5 DEF vars, Inv, TypeOK
  <2> QED
    BY <1>5, <2>1, OthersInv DEF vars
<1> QED
  BY <1>1, <1>2, <1>3, <1>4, <1>5 DEF Next, ProvisionOperation

LEMMA Invariance == Spec => []Inv
  BY InitInv, NextInv, PTL DEF Spec

(* Every reachable state is well-typed: in particular provisionClaim-      *)
(* Operation is never begun for a claim beyond the threshold of failures,  *)
(* and no loop of it goes round more than RetryCount times.                *)
THEOREM TypeCorrect == Spec => []TypeOK
<1>1. Inv => TypeOK
  BY DEF Inv
<1> QED
  BY <1>1, Invariance, PTL

(* Provision: whatever the capacity, Giga and the table of smallest sizes, *)
(* the volume is as large as the claim asks and the category needs.        *)
THEOREM CapacityServedHolds == Spec => []CapacityServed
<1>1. Inv => CapacityServed
  BY SizeServes DEF Inv, TypeOK, SizeOK, CapacityServed
<1> QED
  BY <1>1, Invariance, PTL

(* Provision and Delete under the provision controller: in any order of    *)
(* requests, lost answers, crashes and resyncs every disk belongs to a     *)
(* volume or a running operation, but for the four ways to leak one.       *)
THEOREM EveryDiskOwnedHolds == Spec => []EveryDiskOwned
<1>1. Inv => EveryDiskOwned
  BY DEF Inv
<1> QED
  BY <1>1, Invariance, PTL

(* Delete: the disk of a volume that is not released is not deleted, by    *)
(* either operation, unless the answer to the request to save the volume   *)
(* was lost.                                                               *)
THEOREM VolumeHasDiskHolds == Spec => []VolumeHasDisk
<1>1. Inv => VolumeHasDisk
  BY DEF Inv
<1> QED
  BY <1>1, Invariance, PTL
=============================================================================
