---------------------------- MODULE VolumesProofs ----------------------------
(***************************************************************************)
(* Theorems about modules Volumes and VolumesRefinement, for any number of *)
(* driver processes, nodes, instances and device names.                    *)
(***************************************************************************)
EXTENDS VolumesRefinement, TLAPS

\* A node name resolves to an instance of the VPC, to p.instance or to none.
LEMMA InstanceOfType == \A node : InstanceOf(node) \in Ids \cup {NoInstance}
<1> TAKE node
<1> DEFINE S == {i \in Inventory : By(node, i)}
<1>1. CASE node = ""
  BY <1>1, Zenon DEF InstanceOf, Ids
<1>2. CASE node # "" /\ IsOne(S)
  <2>1. PICK x \in S : S = {x}
    BY <1>2, Zenon DEF IsOne
  <2>2. TheOne(S) = x
    BY <2>1 DEF TheOne
  <2>3. getInstanceByNodeName(Inventory, node) = Found(<<x>>)
    BY <1>2, <2>2, Zenon DEF getInstanceByNodeName
  <2>4. InstanceOf(node) = x.InstanceId
    <3>1. /\ Found(<<x>>).err = "nil"
          /\ Found(<<x>>).instances = <<x>>
      BY DEF Found
    <3>2. <<x>>[1] = x
      OBVIOUS
    <3> QED BY <1>2, <2>3, <3>1, <3>2, Zenon DEF InstanceOf
  <2> QED BY <2>1, <2>4 DEF Ids
<1>3. CASE node # "" /\ ~IsOne(S)
  <2>1. getInstanceByNodeName(Inventory, node).err # "nil"
    BY <1>3, Zenon DEF getInstanceByNodeName, LookupError
  <2> QED BY <1>3, <2>1, Zenon DEF InstanceOf
<1> QED BY <1>1, <1>2, <1>3, Zenon

-----------------------------------------------------------------------------
LEMMA InitialTypes == NoDevice \in Devices /\ NoCall \in Calls /\ Free \in Disks
<1>1. NoDevice \in Devices
  BY DEF Devices
<1>2. NoCall \in Calls
  BY <1>1 DEF NoCall, Calls, Pcs, Rets
<1>3. Free \in Disks
  BY <1>1 DEF Free, Disks, DiskStatus
<1> QED BY <1>1, <1>2, <1>3

LEMMA LocalDeviceType == \A d \in Devices : deviceApi2Local(d) \in Devices
<1> TAKE d \in Devices
<1>1. CASE d \in {APIPrefix, LocalPrefix} \X Letters
  <2>1. d[2] \in Letters
    BY <1>1
  <2>2. <<LocalPrefix, d[2]>> \in Devices
    BY <2>1 DEF Devices
  <2> QED BY <2>2 DEF deviceApi2Local
<1>2. CASE d = NoDevice
  <2>1. d[1] = ""
    BY <1>2, Zenon DEF NoDevice
  <2> QED BY <2>1, Zenon DEF deviceApi2Local, APIPrefix
<1> QED BY <1>1, <1>2 DEF Devices

\* The updates that the steps of a driver process make to its record.
LEMMA CallUpdates ==
    ASSUME NEW k \in Calls, NEW pc \in Pcs
    PROVE  /\ [k EXCEPT !.pc = pc] \in Calls
           /\ \A ret \in Rets : [k EXCEPT !.pc = pc, !.ret = ret] \in Calls
           /\ \A i \in Ids \cup {NoInstance} :
                 /\ [k EXCEPT !.pc = pc, !.instanceId = i] \in Calls
                 /\ [k EXCEPT !.pc = pc, !.owner = i] \in Calls
           /\ \A ret \in Rets, d \in Devices :
                 [k EXCEPT !.pc = pc, !.ret = ret, !.path = d] \in Calls
           /\ \A op \in Ops, node \in Nodes :
                 [k EXCEPT !.op = op, !.node = node] \in Calls
<1>1. [k EXCEPT !.pc = pc] \in Calls
  BY Zenon DEF Calls
<1>2. \A ret \in Rets : [k EXCEPT !.pc = pc, !.ret = ret] \in Calls
  BY Zenon DEF Calls
<1>3. \A i \in Ids \cup {NoInstance} : [k EXCEPT !.pc = pc, !.instanceId = i] \in Calls
  BY Zenon DEF Calls
<1>4. \A i \in Ids \cup {NoInstance} : [k EXCEPT !.pc = pc, !.owner = i] \in Calls
  BY Zenon DEF Calls
<1>5. \A ret \in Rets, d \in Devices :
         [k EXCEPT !.pc = pc, !.ret = ret, !.path = d] \in Calls
  BY Zenon DEF Calls
<1>6. \A op \in Ops, node \in Nodes : [k EXCEPT !.op = op, !.node = node] \in Calls
  BY Zenon DEF Calls
<1> QED BY <1>1, <1>2, <1>3, <1>4, <1>5, <1>6, Zenon

LEMMA DiskUpdates ==
    ASSUME disk \in Disks
    PROVE  /\ \A i \in Ids \cup {NoInstance} : AttachDisk(i) \in Disks
           /\ DetachDisk \in Disks
           /\ \A l \in Letters :
                 [disk EXCEPT !.Status = "In_use", !.Device = <<APIPrefix, l>>] \in Disks
<1>1. \A i \in Ids \cup {NoInstance} : AttachDisk(i) \in Disks
  BY Zenon DEF Disks, DiskStatus, AttachDisk
<1>2. DetachDisk \in Disks
  BY DEF Disks, DiskStatus, DetachDisk
<1>3. ASSUME NEW l \in Letters
      PROVE  [disk EXCEPT !.Status = "In_use", !.Device = <<APIPrefix, l>>] \in Disks
  <2>1. <<APIPrefix, l>> \in Devices
    BY DEF Devices
  <2> QED BY <2>1, Zenon DEF Disks, DiskStatus
<1> QED BY <1>1, <1>2, <1>3, Zenon

LEMMA BecomesType ==
    ASSUME TypeOK, NEW c \in Callers, NEW r \in Calls, Becomes(c, r)
    PROVE  call' \in [Callers -> Calls]
BY DEF TypeOK, Becomes

LEMMA RequestType ==
    ASSUME TypeOK, NEW c \in Callers, NEW name, NEW accepted, NEW newDisk \in Disks,
           NEW next \in Calls, Request(c, name, accepted, newDisk, next)
    PROVE  TypeOK'
<1>1. call[c] \in Calls
  BY DEF TypeOK
<1>2. disk' \in Disks
  BY DEF Request, TypeOK
<1>3. [call[c] EXCEPT !.pc = "done", !.ret = "Failure"] \in Calls
  BY <1>1, CallUpdates, Zenon DEF Pcs, Rets
<1>4. CASE Becomes(c, next)
  BY <1>2, <1>4, BecomesType DEF TypeOK
<1>5. CASE Return(c, "Failure")
  BY <1>2, <1>3, <1>5, BecomesType DEF TypeOK, Return
<1> QED BY <1>4, <1>5 DEF Request

\* The disk and the driver processes keep their types.
THEOREM TypeCorrect == Spec => []TypeOK
<1>1. Init => TypeOK
  BY InitialTypes DEF Init, TypeOK
<1>2. TypeOK /\ [Next]_vars => TypeOK'
  <2> SUFFICES ASSUME TypeOK, [Next]_vars PROVE TypeOK'
    OBVIOUS
  <2>0. ASSUME NEW c \in Callers, NEW r \in Calls, Becomes(c, r), UNCHANGED disk
        PROVE  TypeOK'
    BY <2>0, BecomesType DEF TypeOK
  <2>a. ASSUME NEW c \in Callers, NEW pc \in Pcs, Goto(c, pc), UNCHANGED disk
        PROVE  TypeOK'
    <3>1. [call[c] EXCEPT !.pc = pc] \in Calls
      BY CallUpdates, Zenon DEF TypeOK
    <3> QED BY <2>0, <2>a, <3>1 DEF Goto
  <2>b. ASSUME NEW c \in Callers, NEW ret \in Rets, Return(c, ret), UNCHANGED disk
        PROVE  TypeOK'
    <3>1. [call[c] EXCEPT !.pc = "done", !.ret = ret] \in Calls
      BY CallUpdates, Zenon DEF TypeOK, Pcs
    <3> QED BY <2>0, <2>b, <3>1 DEF Return
  <2>c. ASSUME NEW c \in Callers, ReturnPath(c), UNCHANGED disk PROVE TypeOK'
    <3>1. disk.Device \in Devices
      BY DEF TypeOK, Disks
    <3>2. [call[c] EXCEPT !.pc = "done", !.ret = "Success",
                          !.path = deviceApi2Local(disk.Device)] \in Calls
      BY <3>1, LocalDeviceType, CallUpdates, Zenon DEF TypeOK, Pcs, Rets
    <3> QED BY <2>0, <2>c, <3>2 DEF ReturnPath
  <2>1. ASSUME NEW c \in Callers, NEW op \in Ops, NEW node \in Nodes, Start(c, op, node)
        PROVE  TypeOK'
    <3> DEFINE begin == [NoCall EXCEPT !.op = op, !.node = node]
    <3>1. begin \in Calls
      BY InitialTypes, CallUpdates, Zenon DEF Pcs
    <3> HIDE DEF begin
    <3>2. /\ [begin EXCEPT !.pc = "lookup"] \in Calls
          /\ [begin EXCEPT !.pc = "look"] \in Calls
          /\ [begin EXCEPT !.pc = "done", !.ret = "Not supported"] \in Calls
      BY <3>1, CallUpdates, Zenon DEF Pcs, Rets
    <3> QED BY <2>0, <2>1, <3>2 DEF Start, begin
  <2>2. ASSUME NEW c \in Callers, LookupInstance(c) PROVE TypeOK'
    <3> DEFINE i == InstanceOf(call[c].node)
    <3>1. [call[c] EXCEPT !.pc = "look", !.instanceId = i] \in Calls
      BY InstanceOfType, CallUpdates, Zenon DEF TypeOK, Pcs
    <3> QED BY <2>0, <2>2, <2>b, <3>1, Zenon DEF LookupInstance, Rets
  <2>3. ASSUME NEW c \in Callers, Look(c) PROVE TypeOK'
    <3>1. [call[c] EXCEPT !.pc = "steal", !.owner = disk.InstanceId] \in Calls
      BY CallUpdates, Zenon DEF TypeOK, Pcs, Disks
    <3>2. ASSUME AttachLook(c), UNCHANGED disk PROVE TypeOK'
      BY <2>0, <2>a, <2>c, <3>1, <3>2 DEF AttachLook, Pcs
    <3>3. ASSUME DetachLook(c), UNCHANGED disk PROVE TypeOK'
      BY <2>a, <2>b, <3>3, Zenon DEF DetachLook, Pcs, Rets
    <3> QED BY <2>3, <2>a, <3>2, <3>3 DEF Look, Pcs
  <2>4. ASSUME NEW c \in Callers, LookFails(c) \/ ReadDeviceFails(c) PROVE TypeOK'
    BY <2>4, <2>b, Zenon DEF LookFails, ReadDeviceFails, ReadFails, Rets
  <2>5. ASSUME NEW c \in Callers, Steal(c) PROVE TypeOK'
    <3>1. [call[c] EXCEPT !.pc = "waitavailable"] \in Calls
      BY CallUpdates, Zenon DEF TypeOK, Pcs
    <3> QED BY <2>5, <3>1, DiskUpdates, RequestType, Zenon DEF Steal, TypeOK
  <2>6. ASSUME NEW c \in Callers, WaitAvailable(c) PROVE TypeOK'
    BY <2>6, <2>a DEF WaitAvailable, Pcs
  <2>7. ASSUME NEW c \in Callers, AttachStep(c) PROVE TypeOK'
    <3>1. call[c].instanceId \in Ids \cup {NoInstance}
      BY Zenon DEF TypeOK, Calls
    <3>2. [call[c] EXCEPT !.pc = "waitinuse"] \in Calls
      BY CallUpdates, Zenon DEF TypeOK, Pcs
    <3> QED BY <2>7, <3>1, <3>2, DiskUpdates, RequestType, Zenon DEF AttachStep, TypeOK
  <2>8. ASSUME NEW c \in Callers, WaitInUse(c) PROVE TypeOK'
    BY <2>8, <2>a, <2>b, Zenon DEF WaitInUse, Pcs, Rets
  <2>9. ASSUME NEW c \in Callers, ReadDevice(c) PROVE TypeOK'
    BY <2>9, <2>c DEF ReadDevice
  <2>10. ASSUME NEW c \in Callers, DetachStep(c) PROVE TypeOK'
    <3>1. [call[c] EXCEPT !.pc = "done", !.ret = "Success"] \in Calls
      BY CallUpdates, Zenon DEF TypeOK, Pcs, Rets
    <3> QED BY <2>10, <3>1, DiskUpdates, RequestType, Zenon DEF DetachStep, TypeOK
  <2>11. ASSUME NEW c \in Callers, Collect(c) \/ Kill(c) PROVE TypeOK'
    BY <2>11, <2>0, InitialTypes DEF Collect, Kill
  <2>12. ASSUME Cloud PROVE TypeOK'
    BY <2>12, DiskUpdates, InitialTypes, Zenon DEF Cloud, FinishAttach, FinishDetach, TypeOK
  <2>13. ASSUME UNCHANGED vars PROVE TypeOK'
    BY <2>13 DEF vars, TypeOK
  <2> QED BY <2>1, <2>2, <2>3, <2>4, <2>5, <2>6, <2>7, <2>8, <2>9, <2>10, <2>11,
             <2>12, <2>13 DEF Next, Step
<1> QED BY <1>1, <1>2, PTL DEF Spec

-----------------------------------------------------------------------------
AttachOps == {"attach", "isattached"}

\* The instance of the call was found, and is the one of its node.
Resolved(k) == k.instanceId = InstanceOf(k.node)

\* What is known of a driver process by where it is.
CallOK(k) ==
    /\ k.pc = "look" /\ k.op # "waitforattach" => Resolved(k)
    /\ k.pc \in {"steal", "waitavailable", "attach", "read"} =>
          k.op \in AttachOps /\ Resolved(k)
    /\ k.pc = "waitinuse" /\ k.op # "waitforattach" => k.op \in AttachOps /\ Resolved(k)
    /\ k.pc = "steal" => k.owner # k.instanceId
    /\ k.pc = "detach" => k.op = "detach" /\ Resolved(k)

CallsOK == \A c \in Callers : CallOK(call[c])

LEMMA BecomesOK ==
    ASSUME TypeOK, CallsOK, NEW c \in Callers, NEW r, Becomes(c, r), CallOK(r)
    PROVE  CallsOK'
<1> SUFFICES ASSUME NEW d \in Callers PROVE CallOK(call'[d])
  BY SMTT(30) DEF CallsOK, CallOK, Resolved
<1>1. CASE d = c
  <2>1. call'[d] = r
    BY <1>1 DEF Becomes, TypeOK
  <2> QED BY <2>1
<1>2. CASE d # c
  <2>1. call'[d] = call[d]
    BY <1>2 DEF Becomes, TypeOK
  <2> QED BY <2>1 DEF CallsOK
<1> QED BY <1>1, <1>2

LEMMA ReturnOK ==
    ASSUME TypeOK, CallsOK, NEW c \in Callers,
           (\E ret \in Rets : Return(c, ret)) \/ ReturnPath(c)
    PROVE  CallsOK'
<1>1. ASSUME NEW k \in Calls, k.pc = "done" PROVE CallOK(k)
  BY <1>1 DEF CallOK
<1>2. call[c] \in Calls
  BY DEF TypeOK
<1>3. ASSUME NEW ret \in Rets, Return(c, ret) PROVE CallsOK'
  <2>1. [call[c] EXCEPT !.pc = "done", !.ret = ret] \in Calls
    BY <1>2, CallUpdates, Zenon DEF Pcs
  <2>2. [call[c] EXCEPT !.pc = "done", !.ret = ret].pc = "done"
    BY <1>2, Zenon DEF Calls
  <2> QED BY <1>1, <1>3, <2>1, <2>2, BecomesOK, Zenon DEF Return
<1>4. ASSUME ReturnPath(c) PROVE CallsOK'
  <2> DEFINE p == deviceApi2Local(disk.Device)
  <2>1. p \in Devices
    BY LocalDeviceType DEF TypeOK, Disks
  <2> HIDE DEF p
  <2>2. [call[c] EXCEPT !.pc = "done", !.ret = "Success", !.path = p] \in Calls
    BY <1>2, <2>1, CallUpdates, Zenon DEF Pcs, Rets
  <2>3. [call[c] EXCEPT !.pc = "done", !.ret = "Success", !.path = p].pc = "done"
    BY <1>2, Zenon DEF Calls
  <2> QED BY <1>1, <1>4, <2>2, <2>3, BecomesOK, Zenon DEF ReturnPath, p
<1> QED BY <1>3, <1>4

\* A call that moves on keeps what it is about.
LEMMA GotoFields ==
    ASSUME NEW k \in Calls, NEW pc \in Pcs
    PROVE  LET r == [k EXCEPT !.pc = pc] IN
              /\ r.pc = pc /\ r.op = k.op /\ r.node = k.node
              /\ r.instanceId = k.instanceId /\ r.owner = k.owner
              /\ r.ret = k.ret /\ r.path = k.path
BY Zenon DEF Calls

LEMMA CallsOKInitially == Init => CallsOK
<1>1. CallOK(NoCall)
  BY DEF CallOK, NoCall
<1> QED BY <1>1 DEF Init, CallsOK

LEMMA CallsOKStep == TypeOK /\ CallsOK /\ [Next]_vars => CallsOK'
<1> SUFFICES ASSUME TypeOK, CallsOK, [Next]_vars PROVE CallsOK'
  OBVIOUS
<1>0. \A c \in Callers : call[c] \in Calls /\ CallOK(call[c])
  BY DEF TypeOK, CallsOK
<1>1. ASSUME NEW c \in Callers, NEW op \in Ops, NEW node \in Nodes, Start(c, op, node)
      PROVE  CallsOK'
  <2> DEFINE begin == [NoCall EXCEPT !.op = op, !.node = node]
  <2>1. begin \in Calls /\ begin.op = op
    BY InitialTypes, CallUpdates, Zenon DEF Pcs, NoCall
  <2> HIDE DEF begin
  <2>2. CallOK([begin EXCEPT !.pc = "lookup"])
    BY <2>1, Zenon DEF CallOK, Calls
  <2>3. op = "waitforattach" => CallOK([begin EXCEPT !.pc = "look"])
    BY <2>1, Zenon DEF CallOK, Calls
  <2>4. CallOK([begin EXCEPT !.pc = "done", !.ret = "Not supported"])
    BY <2>1, Zenon DEF CallOK, Calls
  <2> QED BY <1>1, <2>2, <2>3, <2>4, BecomesOK DEF Start, begin
<1>2. ASSUME NEW c \in Callers, LookupInstance(c) PROVE CallsOK'
  <2> DEFINE i == InstanceOf(call[c].node)
             r == [call[c] EXCEPT !.pc = "look", !.instanceId = i]
  <2>1. r.pc = "look" /\ r.node = call[c].node /\ r.instanceId = i
    BY <1>0, Zenon DEF Calls
  <2> HIDE DEF r
  <2>2. CallOK(r)
    BY <2>1 DEF CallOK, Resolved
  <2> QED BY <1>2, <2>2, BecomesOK, ReturnOK, Zenon DEF LookupInstance, r, Rets
<1>3. ASSUME NEW c \in Callers, Look(c) PROVE CallsOK'
  <2>1. At(c, "look")
    BY <1>3 DEF Look
  <2>2. CASE call[c].op \in AttachOps /\ AttachLook(c)
    <3> DEFINE r == [call[c] EXCEPT !.pc = "steal", !.owner = disk.InstanceId]
               a == [call[c] EXCEPT !.pc = "attach"]
    <3>1. /\ r.pc = "steal" /\ r.op = call[c].op /\ r.node = call[c].node
          /\ r.instanceId = call[c].instanceId /\ r.owner = disk.InstanceId
      BY <1>0, Zenon DEF Calls
    <3>2. /\ a.pc = "attach" /\ a.op = call[c].op /\ a.node = call[c].node
          /\ a.instanceId = call[c].instanceId
      BY <1>0, GotoFields DEF Pcs
    <3> HIDE DEF r, a
    <3>3. disk.InstanceId # call[c].instanceId => CallOK(r)
      BY <1>0, <2>1, <2>2, <3>1, SMTT(30) DEF CallOK, Resolved, At, AttachOps
    <3>4. CallOK(a)
      BY <1>0, <2>1, <2>2, <3>2 DEF CallOK, Resolved, At, AttachOps
    <3> QED BY <2>2, <3>3, <3>4, BecomesOK, ReturnOK DEF AttachLook, Goto, r, a
  <2>3. CASE call[c].op = "detach" /\ DetachLook(c)
    <3> DEFINE r == [call[c] EXCEPT !.pc = "detach"]
    <3>1. /\ r.pc = "detach" /\ r.op = call[c].op /\ r.node = call[c].node
          /\ r.instanceId = call[c].instanceId
      BY <1>0, GotoFields DEF Pcs
    <3> HIDE DEF r
    <3>2. CallOK(r)
      BY <1>0, <2>1, <2>3, <3>1 DEF CallOK, Resolved, At
    <3> QED BY <2>3, <3>2, BecomesOK, ReturnOK, Zenon DEF DetachLook, Goto, r, Rets
  <2>4. CASE call[c].op = "waitforattach" /\ Goto(c, "waitinuse")
    <3> DEFINE r == [call[c] EXCEPT !.pc = "waitinuse"]
    <3>1. r.pc = "waitinuse" /\ r.op = call[c].op
      BY <1>0, GotoFields DEF Pcs
    <3> HIDE DEF r
    <3>2. CallOK(r)
      BY <2>4, <3>1 DEF CallOK, Resolved
    <3> QED BY <2>4, <3>2, BecomesOK DEF Goto, r
  <2> QED BY <1>3, <2>2, <2>3, <2>4 DEF Look, AttachOps
<1>4. ASSUME NEW c \in Callers, LookFails(c) \/ ReadDeviceFails(c) PROVE CallsOK'
  BY <1>4, ReturnOK, Zenon DEF LookFails, ReadDeviceFails, ReadFails, Rets
<1>5. ASSUME NEW c \in Callers, NEW pc \in {"waitavailable", "attach", "waitinuse", "read"},
             \/ At(c, "steal") \/ At(c, "waitavailable") \/ At(c, "attach")
             \/ At(c, "waitinuse") /\ call[c].op # "waitforattach"
      PROVE  CallOK([call[c] EXCEPT !.pc = pc])
  <2> DEFINE r == [call[c] EXCEPT !.pc = pc]
  <2>1. /\ r.pc = pc /\ r.op = call[c].op /\ r.node = call[c].node
        /\ r.instanceId = call[c].instanceId
    BY <1>0, GotoFields DEF Pcs
  <2> HIDE DEF r
  <2>2. CallOK(r)
    BY <1>0, <1>5, <2>1 DEF CallOK, Resolved, At
  <2> QED BY <2>2 DEF r
<1>6. ASSUME NEW c \in Callers, Steal(c) PROVE CallsOK'
  <2>1. CallOK([call[c] EXCEPT !.pc = "waitavailable"])
    <3>1. At(c, "steal")
      BY <1>6 DEF Steal
    <3> QED BY <1>5, <3>1, Zenon
  <2> QED BY <1>6, <2>1, BecomesOK, ReturnOK, Zenon DEF Steal, Request, Rets
<1>7. ASSUME NEW c \in Callers, WaitAvailable(c) PROVE CallsOK'
  <2>1. CallOK([call[c] EXCEPT !.pc = "attach"])
    <3>1. At(c, "waitavailable")
      BY <1>7 DEF WaitAvailable
    <3> QED BY <1>5, <3>1, Zenon
  <2> QED BY <1>7, <2>1, BecomesOK DEF WaitAvailable, Goto
<1>8. ASSUME NEW c \in Callers, AttachStep(c) PROVE CallsOK'
  <2>1. CallOK([call[c] EXCEPT !.pc = "waitinuse"])
    <3>1. At(c, "attach")
      BY <1>8 DEF AttachStep
    <3> QED BY <1>5, <3>1, Zenon
  <2> QED BY <1>8, <2>1, BecomesOK, ReturnOK, Zenon DEF AttachStep, Request, Rets
<1>9. ASSUME NEW c \in Callers, WaitInUse(c) PROVE CallsOK'
  <2>1. call[c].op # "waitforattach" => CallOK([call[c] EXCEPT !.pc = "read"])
    BY <1>9, <1>5, Zenon DEF WaitInUse
  <2> QED BY <1>9, <2>1, BecomesOK, ReturnOK, Zenon DEF WaitInUse, Goto, Rets
<1>10. ASSUME NEW c \in Callers, ReadDevice(c) PROVE CallsOK'
  BY <1>10, ReturnOK DEF ReadDevice
<1>11. ASSUME NEW c \in Callers, DetachStep(c) PROVE CallsOK'
  BY <1>11, ReturnOK, Zenon DEF DetachStep, Request, Return, Rets
<1>12. ASSUME NEW c \in Callers, Collect(c) \/ Kill(c) PROVE CallsOK'
  <2>1. CallOK(NoCall)
    BY SMTT(30) DEF CallOK, NoCall
  <2> QED BY <1>12, <2>1, BecomesOK DEF Collect, Kill
<1>13. ASSUME UNCHANGED call PROVE CallsOK'
  BY <1>13 DEF CallsOK, CallOK, Resolved
<1> QED BY <1>1, <1>2, <1>3, <1>4, <1>6, <1>7, <1>8, <1>9, <1>10, <1>11, <1>12,
           <1>13, Zenon DEF Next, Step, Cloud, FinishAttach, FinishDetach, vars

(* Detach, and Attach when it frees the disk from another node, release    *)
(* the disk on the right instance, however calls interleave and whatever   *)
(* requests fail.                                                          *)
THEOREM ReleasesRightNodeHolds == Spec => ReleasesRightNode
<1> DEFINE Right(c) == /\ disk.Status = "In_use" /\ disk'.Status = "Detaching"
                       /\ call'[c] # call[c]
                       => (call[c].op = "detach") = (disk.InstanceId = InstanceOf(call[c].node))
<1>1. TypeOK /\ CallsOK /\ [Next]_vars => [\A c \in Callers : Right(c)]_vars
  <2> SUFFICES ASSUME TypeOK, CallsOK, Next, NEW c \in Callers,
                      disk.Status = "In_use", disk'.Status = "Detaching",
                      call'[c] # call[c]
               PROVE  (call[c].op = "detach") = (disk.InstanceId = InstanceOf(call[c].node))
    OBVIOUS
  <2>1. CallOK(call[c])
    BY DEF CallsOK
  <2>2. disk' # disk
    OBVIOUS
  <2>3. PICK d \in Callers : Steal(d) \/ AttachStep(d) \/ DetachStep(d)
    BY <2>2, Zenon DEF Next, Step, Start, LookupInstance, Look, LookFails, ReadFails, WaitAvailable,
                WaitInUse, ReadDevice, ReadDeviceFails, Collect, Kill, Cloud, FinishAttach,
                FinishDetach
  <2>4. d = c
    BY <2>3 DEF Steal, AttachStep, DetachStep, Request, Return, Becomes, TypeOK
  <2>5. CASE Steal(c)
    <3>1. disk.InstanceId = call[c].owner
      BY <2>2, <2>5 DEF Steal, Request, DetachDiskAccepted
    <3> QED BY <2>1, <2>5, <3>1 DEF Steal, At, CallOK, Resolved, AttachOps
  <2>6. CASE DetachStep(c)
    <3>1. disk.InstanceId = call[c].instanceId
      BY <2>2, <2>6 DEF DetachStep, Request, DetachDiskAccepted
    <3> QED BY <2>1, <2>6, <3>1 DEF DetachStep, At, CallOK, Resolved
  <2>7. CASE AttachStep(c)
    BY <2>2, <2>7 DEF AttachStep, Request, AttachDiskAccepted
  <2> QED BY <2>3, <2>4, <2>5, <2>6, <2>7
<1> QED BY <1>1, TypeCorrect, CallsOKInitially, CallsOKStep, PTL DEF Spec, ReleasesRightNode

-----------------------------------------------------------------------------
(* What the answers mean when calls on the disk never overlap and no wait  *)
(* for the disk is cut short.                                              *)
DeviceOK(dk) == dk.Status = "In_use" => \E l \in Letters : dk.Device = <<APIPrefix, l>>

\* What is known of the disk dk by where the only call k is.
AnswerOK(k, dk) ==
    /\ k.pc # "done" => k.ret = ""
    /\ k.pc = "waitinuse" /\ k.op # "waitforattach" =>
          dk.Status \in {"Attaching", "In_use"} /\ dk.InstanceId = k.instanceId
    /\ k.pc = "read" => dk.Status = "In_use" /\ dk.InstanceId = k.instanceId
    /\ k.op \in AttachOps /\ k.ret = "Success" =>
          /\ dk.Status = "In_use" /\ dk.InstanceId = InstanceOf(k.node)
          /\ k.path = deviceApi2Local(dk.Device)
    /\ k.op = "detach" /\ k.ret = "Success" =>
          dk.Status \in {"Available", "Detaching"} \/ dk.InstanceId # InstanceOf(k.node)

SerialOK == /\ \A c, d \in Callers : c # d => Idle(c) \/ Idle(d)
            /\ DeviceOK(disk)
            /\ \A c \in Callers : AnswerOK(call[c], disk)

LEMMA BecomesSerial ==
    ASSUME TypeOK, SerialOK, NEW c \in Callers, NEW r, Becomes(c, r),
           AnswerOK(r, disk'), DeviceOK(disk'),
           Idle(c) => \A d \in Callers : Idle(d)
    PROVE  SerialOK'
<1>1. \A d \in Callers : d # c => Idle(d) /\ call'[d] = call[d]
  BY DEF SerialOK, Becomes, TypeOK
<1>2. call'[c] = r
  BY DEF Becomes, TypeOK
<1>3. ASSUME NEW d \in Callers PROVE AnswerOK(call'[d], disk')
  <2>1. CASE d = c
    BY <1>2, <2>1
  <2>2. CASE d # c
    <3>1. call'[d].pc = "idle" /\ call'[d].ret = ""
      BY <1>1, <2>2, ZenonT(30) DEF SerialOK, AnswerOK, Idle
    <3> QED BY <3>1, Zenon DEF AnswerOK
  <2> QED BY <2>1, <2>2
<1>4. \A d \in Callers : d # c => Idle(d)'
  BY <1>1 DEF Idle
<1> QED BY <1>3, <1>4, Zenon DEF SerialOK, DeviceOK, AnswerOK, Idle

\* Moving on does no harm where nothing is claimed, nor does failing.
LEMMA GotoAnswer ==
    ASSUME NEW k \in Calls, NEW dk, NEW pc \in Pcs \ {"done", "waitinuse", "read"},
           k.pc # "done", NEW D0, AnswerOK(k, D0)
    PROVE  AnswerOK([k EXCEPT !.pc = pc], dk)
<1> DEFINE r == [k EXCEPT !.pc = pc]
<1>1. r.pc = pc /\ r.ret = k.ret
  BY Zenon DEF Calls
<1>2. r.ret = ""
  BY <1>1, Zenon DEF AnswerOK
<1> HIDE DEF r
<1>3. AnswerOK(r, dk)
  BY <1>1, <1>2, Zenon DEF AnswerOK
<1> QED BY <1>3 DEF r

LEMMA FailAnswer ==
    ASSUME NEW k \in Calls, NEW dk, NEW ret \in Rets \ {"Success"}
    PROVE  AnswerOK([k EXCEPT !.pc = "done", !.ret = ret], dk)
<1> DEFINE r == [k EXCEPT !.pc = "done", !.ret = ret]
<1>1. r.pc = "done" /\ r.ret = ret
  BY Zenon DEF Calls
<1> HIDE DEF r
<1>2. AnswerOK(r, dk)
  BY <1>1 DEF AnswerOK
<1> QED BY <1>2 DEF r

LEMMA ReturnFields ==
    ASSUME NEW k \in Calls, NEW ret \in Rets
    PROVE  LET r == [k EXCEPT !.pc = "done", !.ret = ret] IN
              /\ r.pc = "done" /\ r.ret = ret /\ r.op = k.op /\ r.node = k.node
              /\ r.instanceId = k.instanceId
BY Zenon DEF Calls

LEMMA ReturnPathSerial ==
    ASSUME TypeOK, SerialOK, NEW c \in Callers, ~Idle(c), ReturnPath(c), UNCHANGED disk,
           call[c].op \in AttachOps, disk.Status = "In_use",
           disk.InstanceId = InstanceOf(call[c].node)
    PROVE  SerialOK'
<1> DEFINE p == deviceApi2Local(disk.Device)
           r == [call[c] EXCEPT !.pc = "done", !.ret = "Success", !.path = p]
<1>1. /\ r.pc = "done" /\ r.ret = "Success" /\ r.path = p
      /\ r.op = call[c].op /\ r.node = call[c].node
  <2> HIDE DEF p
  <2> QED BY Zenon DEF TypeOK, Calls
<1> HIDE DEF r
<1>2. AnswerOK(r, disk)
  BY <1>1 DEF AnswerOK, AttachOps
<1>3. DeviceOK(disk)
  BY DEF SerialOK
<1> QED BY <1>2, <1>3, BecomesSerial DEF ReturnPath, r

LEMMA SerialInitially == Init => SerialOK
<1>1. AnswerOK(NoCall, Free)
  BY DEF AnswerOK, NoCall
<1>2. DeviceOK(Free)
  BY DEF DeviceOK, Free
<1>3. NoCall.pc = "idle"
  BY DEF NoCall
<1> QED BY <1>1, <1>2, <1>3 DEF Init, SerialOK, Idle

LEMMA SerialStep ==
    ASSUME Serial, "WaitForDisk" \notin Faults
    PROVE  TypeOK /\ CallsOK /\ SerialOK /\ [Next]_vars => SerialOK'
<1> SUFFICES ASSUME TypeOK, CallsOK, SerialOK, [Next]_vars PROVE SerialOK'
  OBVIOUS
<1>0. /\ \A c \in Callers : /\ call[c] \in Calls /\ CallOK(call[c])
                            /\ AnswerOK(call[c], disk)
      /\ DeviceOK(disk)
  BY DEF TypeOK, CallsOK, SerialOK
<1>a. ASSUME NEW c \in Callers, ~Idle(c), NEW ret \in Rets \ {"Success"}, Return(c, ret),
             DeviceOK(disk')
      PROVE  SerialOK'
  BY <1>0, <1>a, FailAnswer, BecomesSerial, Zenon DEF Return
<1>b. ASSUME NEW c \in Callers, ~Idle(c), NEW pc \in Pcs \ {"done", "waitinuse", "read"},
             Goto(c, pc), UNCHANGED disk, call[c].pc # "done"
      PROVE  SerialOK'
  <2>1. AnswerOK([call[c] EXCEPT !.pc = pc], disk')
    BY <1>0, <1>b, GotoAnswer
  <2> QED BY <1>0, <1>b, <2>1, BecomesSerial DEF Goto
<1>c. ASSUME NEW c \in Callers, NEW name, NEW i, NEW next, ~Idle(c),
             Request(c, name, DetachDiskAccepted(i), DetachDisk, next),
             AnswerOK(next, DetachDisk)
      PROVE  SerialOK'
  <2>1. DeviceOK(DetachDisk)
    BY DEF DeviceOK, DetachDisk, TypeOK, Disks
  <2>2. DeviceOK(disk')
    BY <1>0, <1>c, <2>1 DEF Request
  <2>3. CASE Return(c, "Failure")
    BY <1>a, <1>c, <2>2, <2>3, Zenon DEF Rets
  <2>4. CASE disk' = DetachDisk /\ Becomes(c, next)
    BY <1>c, <2>2, <2>4, BecomesSerial
  <2> QED BY <1>c, <2>3, <2>4 DEF Request
<1>1. ASSUME NEW c \in Callers, NEW op \in Ops, NEW node \in Nodes, Start(c, op, node)
      PROVE  SerialOK'
  <2> DEFINE begin == [NoCall EXCEPT !.op = op, !.node = node]
  <2>1. begin \in Calls /\ begin.ret = "" /\ begin.pc = "idle"
    BY InitialTypes, CallUpdates, Zenon DEF Pcs, NoCall
  <2> HIDE DEF begin
  <2>2. AnswerOK(begin, disk)
    BY <2>1, Zenon DEF AnswerOK
  <2>3. /\ AnswerOK([begin EXCEPT !.pc = "lookup"], disk)
        /\ AnswerOK([begin EXCEPT !.pc = "look"], disk)
    BY <2>1, <2>2, GotoAnswer, Zenon DEF Pcs
  <2>4. AnswerOK([begin EXCEPT !.pc = "done", !.ret = "Not supported"], disk)
    BY <2>1, FailAnswer, Zenon DEF Rets
  <2>5. disk' = disk /\ \A d \in Callers : Idle(d)
    BY <1>1 DEF Start
  <2> QED BY <1>0, <1>1, <2>3, <2>4, <2>5, BecomesSerial DEF Start, begin
<1>2. ASSUME NEW c \in Callers, LookupInstance(c) PROVE SerialOK'
  <2> DEFINE i == InstanceOf(call[c].node)
             r == [call[c] EXCEPT !.pc = "look", !.instanceId = i]
  <2>1. ~Idle(c) /\ call[c].pc = "lookup" /\ disk' = disk
    BY <1>2, Zenon DEF LookupInstance, At, Idle
  <2>2. r.pc = "look" /\ r.ret = call[c].ret
    BY <1>0, Zenon DEF Calls
  <2> HIDE DEF r
  <2>3. r.ret = ""
    BY <1>0, <2>1, <2>2, Zenon DEF AnswerOK
  <2>4. AnswerOK(r, disk)
    BY <2>2, <2>3, Zenon DEF AnswerOK
  <2>5. CASE Becomes(c, r)
    BY <1>0, <2>1, <2>4, <2>5, BecomesSerial
  <2>6. CASE Return(c, "Failure")
    BY <1>0, <1>a, <2>1, <2>6, Zenon DEF Rets
  <2> QED BY <1>2, <2>5, <2>6, Zenon DEF LookupInstance, r
<1>3. ASSUME NEW c \in Callers, Look(c) PROVE SerialOK'
  <2>1. ~Idle(c) /\ call[c].pc = "look" /\ disk' = disk
    BY <1>3, SMTT(30) DEF Look, At, Idle
  <2>2. call[c].op # "waitforattach" => call[c].instanceId = InstanceOf(call[c].node)
    BY <1>0, <2>1 DEF CallOK, Resolved
  <2>3. CASE call[c].op \in AttachOps /\ AttachLook(c)
    <3> DEFINE r == [call[c] EXCEPT !.pc = "steal", !.owner = disk.InstanceId]
    <3>1. r.pc = "steal" /\ r.ret = call[c].ret
      BY <1>0, Zenon DEF Calls
    <3> HIDE DEF r
    <3>2. r.ret = ""
      BY <1>0, <2>1, <3>1, Zenon DEF AnswerOK
    <3>3. AnswerOK(r, disk)
      BY <3>1, <3>2, Zenon DEF AnswerOK
    <3>4. CASE Becomes(c, r)
      BY <1>0, <2>1, <3>3, <3>4, BecomesSerial
    <3>5. CASE Goto(c, "attach")
      BY <1>b, <2>1, <3>5 DEF Pcs
    <3>6. CASE disk.Status = "In_use" /\ disk.InstanceId = call[c].instanceId /\ ReturnPath(c)
      BY <2>1, <2>2, <2>3, <3>6, ReturnPathSerial DEF AttachOps
    <3> QED BY <2>3, <3>4, <3>5, <3>6 DEF AttachLook, r
  <2>4. CASE call[c].op = "detach" /\ DetachLook(c)
    <3>1. CASE Goto(c, "detach")
      BY <1>b, <2>1, <3>1 DEF Pcs
    <3>2. CASE /\ disk.Status \in {"Detaching", "Available"}
                  \/ disk.InstanceId # call[c].instanceId
               /\ Return(c, "Success")
      <4> DEFINE r == [call[c] EXCEPT !.pc = "done", !.ret = "Success"]
      <4>1. r.pc = "done" /\ r.op = "detach" /\ r.node = call[c].node
        BY <1>0, <2>4, ReturnFields DEF Rets
      <4> HIDE DEF r
      <4>2. AnswerOK(r, disk)
        BY <2>2, <2>4, <3>2, <4>1 DEF AnswerOK, AttachOps
      <4> QED BY <1>0, <2>1, <3>2, <4>2, BecomesSerial DEF Return, r
    <3> QED BY <2>4, <3>1, <3>2 DEF DetachLook
  <2>5. CASE call[c].op = "waitforattach" /\ Goto(c, "waitinuse")
    <3> DEFINE r == [call[c] EXCEPT !.pc = "waitinuse"]
    <3>1. r.pc = "waitinuse" /\ r.op = "waitforattach" /\ r.ret = call[c].ret
      BY <1>0, <2>5, GotoFields DEF Pcs
    <3> HIDE DEF r
    <3>2. r.ret = ""
      BY <1>0, <2>1, <3>1, Zenon DEF AnswerOK
    <3>3. AnswerOK(r, disk)
      BY <3>1, <3>2, Zenon DEF AnswerOK
    <3> QED BY <1>0, <2>1, <2>5, <3>3, BecomesSerial DEF Goto, r
  <2> QED BY <1>3, <2>3, <2>4, <2>5 DEF Look, AttachOps
<1>4. ASSUME NEW c \in Callers, LookFails(c) \/ ReadDeviceFails(c) PROVE SerialOK'
  BY <1>0, <1>4, <1>a, Zenon DEF LookFails, ReadDeviceFails, ReadFails, At, Idle, Rets
<1>5. ASSUME NEW c \in Callers, Steal(c) PROVE SerialOK'
  <2>1. call[c].pc = "steal" /\ ~Idle(c)
    BY <1>5 DEF Steal, At, Idle
  <2>2. AnswerOK([call[c] EXCEPT !.pc = "waitavailable"], DetachDisk)
    BY <1>0, <2>1, GotoAnswer DEF Pcs
  <2> QED BY <1>5, <1>c, <2>1, <2>2 DEF Steal
<1>6. ASSUME NEW c \in Callers, WaitAvailable(c) PROVE SerialOK'
  <2>1. call[c].pc = "waitavailable" /\ ~Idle(c)
    BY <1>6 DEF WaitAvailable, At, Idle
  <2> QED BY <1>6, <1>b, <2>1 DEF WaitAvailable, Pcs
<1>7. ASSUME NEW c \in Callers, AttachStep(c) PROVE SerialOK'
  <2> DEFINE dk == AttachDisk(call[c].instanceId)
             r == [call[c] EXCEPT !.pc = "waitinuse"]
  <2>1. call[c].pc = "attach" /\ ~Idle(c)
    BY <1>7 DEF AttachStep, At, Idle
  <2>2. dk.Status = "Attaching" /\ dk.InstanceId = call[c].instanceId
    BY DEF AttachDisk, TypeOK, Disks
  <2>3. /\ r.pc = "waitinuse" /\ r.ret = call[c].ret
        /\ r.instanceId = call[c].instanceId
    BY <1>0, GotoFields DEF Pcs
  <2> HIDE DEF r, dk
  <2>4. r.ret = ""
    BY <1>0, <2>1, <2>3, Zenon DEF AnswerOK
  <2>5. AnswerOK(r, dk)
    BY <2>2, <2>3, <2>4, Zenon DEF AnswerOK
  <2>6. DeviceOK(dk)
    BY <2>2 DEF DeviceOK
  <2>7. Request(c, "AttachDisk", AttachDiskAccepted, dk, r)
    BY <1>7 DEF AttachStep, r, dk
  <2>8. DeviceOK(disk')
    BY <1>0, <2>6, <2>7 DEF Request
  <2>9. CASE Return(c, "Failure")
    BY <1>a, <2>1, <2>8, <2>9, Zenon DEF Rets
  <2>10. CASE disk' = dk /\ Becomes(c, r)
    BY <2>1, <2>5, <2>8, <2>10, BecomesSerial
  <2> QED BY <2>7, <2>9, <2>10 DEF Request
<1>8. ASSUME NEW c \in Callers, WaitInUse(c) PROVE SerialOK'
  <2>1. call[c].pc = "waitinuse" /\ ~Idle(c) /\ disk' = disk
    BY <1>8 DEF WaitInUse, At, Idle
  <2>2. CASE call[c].op # "waitforattach"
    <3> DEFINE r == [call[c] EXCEPT !.pc = "read"]
    <3>1. /\ r.pc = "read" /\ r.ret = call[c].ret
          /\ r.instanceId = call[c].instanceId
      BY <1>0, GotoFields DEF Pcs
    <3> HIDE DEF r
    <3>2. r.ret = ""
      BY <1>0, <2>1, <3>1, Zenon DEF AnswerOK
    <3>3. disk.Status = "In_use" /\ disk.InstanceId = call[c].instanceId
      BY <1>0, <1>8, <2>1, <2>2, Zenon DEF AnswerOK, WaitInUse, WaitEnds
    <3>4. AnswerOK(r, disk)
      BY <3>1, <3>2, <3>3, ZenonT(30) DEF AnswerOK
    <3> QED BY <1>0, <1>8, <2>1, <2>2, <3>4, BecomesSerial DEF WaitInUse, Goto, r
  <2>3. CASE call[c].op = "waitforattach"
    <3> DEFINE r == [call[c] EXCEPT !.pc = "done", !.ret = "Success"]
    <3>1. r.pc = "done" /\ r.op = "waitforattach"
      BY <1>0, <2>3, ReturnFields DEF Rets
    <3> HIDE DEF r
    <3>2. AnswerOK(r, disk)
      BY <3>1 DEF AnswerOK, AttachOps
    <3>3. CASE Return(c, "Success")
      BY <1>0, <2>1, <3>2, <3>3, BecomesSerial DEF Return, r
    <3>4. CASE Return(c, "Failure")
      BY <1>0, <1>a, <2>1, <3>4, Zenon DEF Rets
    <3> QED BY <1>8, <2>3, <3>3, <3>4 DEF WaitInUse
  <2> QED BY <2>2, <2>3
<1>9. ASSUME NEW c \in Callers, ReadDevice(c) PROVE SerialOK'
  <2>1. call[c].pc = "read" /\ ~Idle(c) /\ disk' = disk
    BY <1>9 DEF ReadDevice, At, Idle
  <2>2. /\ call[c].op \in AttachOps /\ disk.Status = "In_use"
        /\ disk.InstanceId = InstanceOf(call[c].node)
    BY <1>0, <2>1, Zenon DEF AnswerOK, CallOK, Resolved
  <2> QED BY <1>9, <2>1, <2>2, ReturnPathSerial DEF ReadDevice
<1>10. ASSUME NEW c \in Callers, DetachStep(c) PROVE SerialOK'
  <2> DEFINE r == [call[c] EXCEPT !.pc = "done", !.ret = "Success"]
  <2>1. call[c].pc = "detach" /\ ~Idle(c)
    BY <1>10 DEF DetachStep, At, Idle
  <2>2. r.pc = "done" /\ r.op = "detach"
    BY <1>0, <2>1, ReturnFields DEF CallOK, Rets
  <2>3. DetachDisk.Status = "Detaching"
    BY DEF DetachDisk, TypeOK, Disks
  <2> HIDE DEF r
  <2>4. AnswerOK(r, DetachDisk)
    BY <2>2, <2>3 DEF AnswerOK, AttachOps
  <2>5. Request(c, "DetachDisk", DetachDiskAccepted(call[c].instanceId), DetachDisk, r)
    BY <1>10 DEF DetachStep, r
  <2> QED BY <1>c, <2>1, <2>4, <2>5
<1>11. ASSUME NEW c \in Callers, Collect(c) \/ Kill(c) PROVE SerialOK'
  <2>1. ~Idle(c) /\ disk' = disk /\ Becomes(c, NoCall)
    BY <1>11 DEF Collect, Kill, At, Running, Idle
  <2>2. AnswerOK(NoCall, disk)
    BY DEF AnswerOK, NoCall
  <2> QED BY <1>0, <2>1, <2>2, BecomesSerial
<1>12. ASSUME Cloud PROVE SerialOK'
  <2>1. call' = call
    BY <1>12, Zenon DEF Cloud, FinishAttach, FinishDetach
  <2>2. ASSUME FinishAttach
        PROVE  /\ disk.Status = "Attaching" /\ disk'.Status = "In_use"
               /\ disk'.InstanceId = disk.InstanceId
               /\ \E l \in Letters : disk'.Device = <<APIPrefix, l>>
    BY <2>2 DEF FinishAttach, TypeOK, Disks
  <2>3. ASSUME FinishDetach PROVE disk.Status = "Detaching" /\ disk'.Status = "Available"
    BY <2>3 DEF FinishDetach, Free
  <2>4. \A c \in Callers : AnswerOK(call[c], disk')
    BY <1>0, <1>12, <2>2, <2>3, Zenon DEF Cloud, AnswerOK
  <2>5. DeviceOK(disk')
    BY <1>12, <2>2, <2>3 DEF Cloud, DeviceOK
  <2> QED BY <2>1, <2>4, <2>5, Zenon DEF SerialOK, AnswerOK, DeviceOK, Idle
<1>13. ASSUME UNCHANGED vars PROVE SerialOK'
  BY <1>13, Zenon DEF SerialOK, AnswerOK, DeviceOK, Idle, vars
<1> QED BY <1>1, <1>2, <1>3, <1>4, <1>5, <1>6, <1>7, <1>8, <1>9, <1>10, <1>11, <1>12,
           <1>13 DEF Next, Step

(* When calls on the disk do not overlap and no wait is cut short, Attach  *)
(* answers Success only with the disk in use on its node and its path.     *)
THEOREM AttachCorrect ==
    ASSUME Serial, "WaitForDisk" \notin Faults
    PROVE  Spec => []AttachReturnsAttached
<1>1. SerialOK => AttachReturnsAttached
  <2> SUFFICES ASSUME SerialOK, NEW c \in Callers, call[c].op = "attach",
                      call[c].ret = "Success"
               PROVE  /\ disk.Status = "In_use"
                      /\ disk.InstanceId = InstanceOf(call[c].node)
                      /\ disk.Device[1] = APIPrefix
                      /\ call[c].path = <<LocalPrefix, disk.Device[2]>>
    BY DEF AttachReturnsAttached
  <2>1. /\ disk.Status = "In_use" /\ disk.InstanceId = InstanceOf(call[c].node)
        /\ call[c].path = deviceApi2Local(disk.Device)
    BY Zenon DEF SerialOK, AnswerOK, AttachOps
  <2>2. PICK l \in Letters : disk.Device = <<APIPrefix, l>>
    BY <2>1 DEF SerialOK, DeviceOK
  <2>3. disk.Device[1] = APIPrefix
    BY <2>2
  <2> QED BY <2>1, <2>3 DEF deviceApi2Local
<1> QED BY <1>1, TypeCorrect, CallsOKInitially, CallsOKStep, SerialInitially, SerialStep, PTL
        DEF Spec

(* Under the same conditions, Detach answers Success only when the disk is *)
(* not, and is not about to be, in use on its node.                        *)
THEOREM DetachCorrect ==
    ASSUME Serial, "WaitForDisk" \notin Faults
    PROVE  Spec => []DetachReturnsDetached
<1>1. SerialOK => DetachReturnsDetached
  BY Zenon DEF SerialOK, AnswerOK, DetachReturnsDetached
<1> QED BY <1>1, TypeCorrect, CallsOKInitially, CallsOKStep, SerialInitially, SerialStep, PTL
        DEF Spec

-----------------------------------------------------------------------------
(* The driver implements DiskService.                                      *)
Fulfilled(k, d) == D!Fulfils(AskOf(k.op), Target[k.node], d.Status, d.InstanceId)

\* A process has an operation and no answer while it runs.  Attach reads the
\* device only after its disk has been in use, and until then it is on its way.
HistoryOK(c) ==
    /\ ~Idle(c) => call[c].op \in Ops
    /\ met[c] => ~Idle(c)
    /\ Running(c) => call[c].ret = ""
    /\ "WaitForDisk" \notin Faults /\ call[c].op \in AttachOps =>
          /\ call[c].pc = "read" => met[c]
          /\ call[c].pc = "waitinuse" =>
                \/ met[c]
                \/ disk.Status = "Attaching" /\ disk.InstanceId = InstanceOf(call[c].node)

\* The inductive invariant.
HInv == /\ TypeOK /\ CallsOK
        /\ met \in [Callers -> BOOLEAN]
        /\ \A c \in Callers : HistoryOK(c)

\* What a step does that takes a running process from record k to record r.
StepOK(k, r) ==
    /\ r \in Calls /\ r.op = k.op /\ r.node = k.node /\ r.pc # "idle"
    /\ r.ret \in {"", "Success", "Failure"} /\ (r.pc # "done" => r.ret = "")
    /\ \/ UNCHANGED disk
       \/ /\ k.op \in AttachOps /\ disk.Status = "Available"
          /\ disk'.Status = "Attaching" /\ disk'.InstanceId = InstanceOf(k.node)
       \/ /\ disk.Status = "In_use"
          /\ disk'.Status = "Detaching" /\ disk'.InstanceId = disk.InstanceId
          /\ \/ k.op = "detach" /\ disk.InstanceId = InstanceOf(k.node)
             \/ k.op \in AttachOps /\ disk.InstanceId # InstanceOf(k.node)
    /\ r.ret = "Success" => (k.pc = "read" /\ k.op \in AttachOps) \/ Fulfilled(k, disk')
    /\ r.pc = "read" => k.pc = "waitinuse" /\ UNCHANGED disk /\ WaitEnds("In_use")
    /\ r.pc = "waitinuse" /\ k.op \in AttachOps =>
          disk'.Status = "Attaching" /\ disk'.InstanceId = InstanceOf(k.node)

-----------------------------------------------------------------------------
LEMMA TargetIs == \A k \in Calls : Target[k.node] = InstanceOf(k.node)
  BY Zenon DEF Target, Calls

\* What an operation asks for, in terms of the disk.
LEMMA FulfilledIs ==
  ASSUME NEW k \in Calls, NEW d
  PROVE  /\ k.op \in AttachOps /\ d.Status = "In_use" /\ d.InstanceId = InstanceOf(k.node)
              => Fulfilled(k, d)
         /\ k.op = "detach" /\ (\/ d.Status \in {"Available", "Detaching"}
                               \/ d.InstanceId # InstanceOf(k.node)) => Fulfilled(k, d)
         /\ k.op = "waitforattach" /\ d.Status = "In_use" => Fulfilled(k, d)
  BY TargetIs DEF Fulfilled, AskOf, AttachOps, D!Fulfils

\* Moves and answers that leave the disk alone.
LEMMA GotoStep ==
  ASSUME HInv, NEW c \in Callers, Running(c), UNCHANGED disk,
         NEW pc \in {"look", "steal", "attach", "detach"},
         NEW i \in Ids \cup {NoInstance}, NEW o \in Ids \cup {NoInstance}
  PROVE  /\ StepOK(call[c], [call[c] EXCEPT !.pc = pc])
         /\ StepOK(call[c], [call[c] EXCEPT !.pc = pc, !.instanceId = i])
         /\ StepOK(call[c], [call[c] EXCEPT !.pc = pc, !.owner = o])
<1>1. call[c] \in Calls /\ call[c].ret = "" /\ pc \in Pcs
  BY Zenon DEF HInv, TypeOK, HistoryOK, Pcs
<1> DEFINE r1 == [call[c] EXCEPT !.pc = pc]
           r2 == [call[c] EXCEPT !.pc = pc, !.instanceId = i]
           r3 == [call[c] EXCEPT !.pc = pc, !.owner = o]
<1>2. \A r \in {r1, r2, r3} : /\ r \in Calls /\ r.op = call[c].op /\ r.node = call[c].node
                              /\ r.pc = pc /\ r.ret = ""
  <2>1. r1 \in Calls /\ r2 \in Calls /\ r3 \in Calls
    BY <1>1, CallUpdates, Zenon
  <2>2. /\ r1.op = call[c].op /\ r1.node = call[c].node /\ r1.pc = pc /\ r1.ret = ""
        /\ r2.op = call[c].op /\ r2.node = call[c].node /\ r2.pc = pc /\ r2.ret = ""
        /\ r3.op = call[c].op /\ r3.node = call[c].node /\ r3.pc = pc /\ r3.ret = ""
    BY <1>1, Zenon DEF Calls
  <2> HIDE DEF r1, r2, r3
  <2> QED
    BY <2>1, <2>2, Zenon
<1> HIDE DEF r1, r2, r3
<1>3. \A r \in {r1, r2, r3} : StepOK(call[c], r)
  BY <1>2, Zenon DEF StepOK
<1> QED
  BY <1>3 DEF r1, r2, r3

LEMMA AnswerStep ==
  ASSUME HInv, NEW c \in Callers, Running(c), UNCHANGED disk,
         NEW ret \in {"Success", "Failure"}, NEW path \in Devices,
         ret = "Success" => (call[c].pc = "read" /\ call[c].op \in AttachOps)
                            \/ Fulfilled(call[c], disk)
  PROVE  /\ StepOK(call[c], [call[c] EXCEPT !.pc = "done", !.ret = ret])
         /\ StepOK(call[c], [call[c] EXCEPT !.pc = "done", !.ret = ret, !.path = path])
<1>1. call[c] \in Calls /\ ret \in Rets /\ "done" \in Pcs
  BY Zenon DEF HInv, TypeOK, Pcs, Rets
<1> DEFINE r1 == [call[c] EXCEPT !.pc = "done", !.ret = ret]
           r2 == [call[c] EXCEPT !.pc = "done", !.ret = ret, !.path = path]
<1>2. \A r \in {r1, r2} : /\ r \in Calls /\ r.op = call[c].op /\ r.node = call[c].node
                          /\ r.pc = "done" /\ r.ret = ret
  <2>1. r1 \in Calls /\ r2 \in Calls
    BY <1>1, CallUpdates, Zenon
  <2>2. /\ r1.op = call[c].op /\ r1.node = call[c].node /\ r1.pc = "done" /\ r1.ret = ret
        /\ r2.op = call[c].op /\ r2.node = call[c].node /\ r2.pc = "done" /\ r2.ret = ret
    BY <1>1, Zenon DEF Calls
  <2> HIDE DEF r1, r2
  <2> QED
    BY <2>1, <2>2
<1> HIDE DEF r1, r2
<1>3. Fulfilled(call[c], disk) => Fulfilled(call[c], disk')
  OBVIOUS
<1>4. \A r \in {r1, r2} : StepOK(call[c], r)
  BY <1>2, <1>3, Zenon DEF StepOK
<1> QED
  BY <1>4 DEF r1, r2

\* A request that is accepted, turned down, or loses its answer.
LEMMA RequestStep ==
  ASSUME HInv, NEW c \in Callers, Running(c), NEW name, NEW accepted \in BOOLEAN,
         NEW newDisk, NEW next, Request(c, name, accepted, newDisk, next),
         accepted /\ disk' = newDisk => StepOK(call[c], next),
         accepted /\ disk' = newDisk =>
            StepOK(call[c], [call[c] EXCEPT !.pc = "done", !.ret = "Failure"])
  PROVE  \E r : Becomes(c, r) /\ StepOK(call[c], r)
<1>1. CASE accepted /\ disk' = newDisk /\ Becomes(c, next)
  BY <1>1
<1>2. CASE Return(c, "Failure") /\ UNCHANGED disk
  BY <1>2, AnswerStep, InitialTypes, Zenon DEF Return
<1>3. CASE Return(c, "Failure") /\ accepted /\ disk' = newDisk
  BY <1>3 DEF Return
<1> QED
  BY <1>1, <1>2, <1>3 DEF Request

LEMMA LookStep ==
  ASSUME HInv, NEW c \in Callers, Look(c)
  PROVE  \E r : Becomes(c, r) /\ StepOK(call[c], r)
<1>1. /\ call[c] \in Calls /\ Running(c) /\ UNCHANGED disk /\ disk \in Disks
      /\ call[c].op # "waitforattach" => call[c].instanceId = InstanceOf(call[c].node)
      /\ call[c].ret = ""
  BY Zenon DEF HInv, TypeOK, CallsOK, CallOK, Resolved, Look, At, Running, HistoryOK
<1>2. disk.InstanceId \in Ids \cup {NoInstance} /\ deviceApi2Local(disk.Device) \in Devices
  BY <1>1, LocalDeviceType, Zenon DEF Disks
<1>3. CASE call[c].op \in AttachOps /\ AttachLook(c)
  <2>1. CASE disk.Status = "In_use" /\ disk.InstanceId = call[c].instanceId /\ ReturnPath(c)
    <3>1. Fulfilled(call[c], disk)
      BY <1>1, <1>3, <2>1, FulfilledIs, Zenon DEF AttachOps
    <3> QED
      BY <1>1, <1>2, <2>1, <3>1, AnswerStep, Zenon DEF ReturnPath
  <2>2. CASE Becomes(c, [call[c] EXCEPT !.pc = "steal", !.owner = disk.InstanceId])
    <3> DEFINE r == [call[c] EXCEPT !.pc = "steal", !.owner = disk.InstanceId]
    <3>1. StepOK(call[c], r)
      <4>1. "steal" \in {"look", "steal", "attach", "detach"}
        OBVIOUS
      <4> QED
        BY <1>1, <1>2, <4>1, GotoStep, Zenon
    <3> HIDE DEF r
    <3> QED
      BY <2>2, <3>1, Zenon DEF r
  <2>3. CASE Goto(c, "attach")
    BY <1>1, <1>2, <2>3, GotoStep, Zenon DEF Goto
  <2> QED
    BY <1>3, <2>1, <2>2, <2>3 DEF AttachLook
<1>4. CASE call[c].op = "detach" /\ DetachLook(c)
  <2>1. CASE \/ disk.Status \in {"Detaching", "Available"}
             \/ disk.InstanceId # call[c].instanceId
    <3>1. Fulfilled(call[c], disk)
      BY <1>1, <1>4, <2>1, FulfilledIs, Zenon
    <3> QED
      BY <1>1, <1>2, <1>4, <2>1, <3>1, AnswerStep, Zenon DEF DetachLook, Return
  <2>2. CASE Goto(c, "detach")
    BY <1>1, <1>2, <2>2, GotoStep, Zenon DEF Goto
  <2> QED
    BY <1>4, <2>1, <2>2, SMTT(30) DEF DetachLook
<1>5. CASE call[c].op = "waitforattach" /\ Goto(c, "waitinuse")
  <2> DEFINE r == [call[c] EXCEPT !.pc = "waitinuse"]
  <2>1. /\ r \in Calls /\ r.op = call[c].op /\ r.node = call[c].node
        /\ r.pc = "waitinuse" /\ r.ret = ""
    BY <1>1, CallUpdates, GotoFields, ZenonT(30) DEF Pcs
  <2> HIDE DEF r
  <2>2. StepOK(call[c], r)
    BY <1>1, <1>5, <2>1, Zenon DEF StepOK, AttachOps
  <2> QED
    BY <1>5, <2>2 DEF Goto, r
<1> QED
  BY <1>3, <1>4, <1>5 DEF Look, AttachOps

\* Attach takes the disk from another instance.
LEMMA StealStep ==
  ASSUME HInv, NEW c \in Callers, Steal(c)
  PROVE  \E r : Becomes(c, r) /\ StepOK(call[c], r)
<1>1. /\ call[c] \in Calls /\ Running(c) /\ call[c].ret = "" /\ disk \in Disks
      /\ call[c].op \in AttachOps /\ call[c].owner # InstanceOf(call[c].node)
  BY Zenon DEF HInv, TypeOK, CallsOK, CallOK, Resolved, Steal, At, Running, HistoryOK
<1> DEFINE next == [call[c] EXCEPT !.pc = "waitavailable"]
           failed == [call[c] EXCEPT !.pc = "done", !.ret = "Failure"]
<1>2. /\ next \in Calls /\ next.op = call[c].op /\ next.node = call[c].node
      /\ next.pc = "waitavailable" /\ next.ret = ""
  <2>1. "waitavailable" \in Pcs
    BY DEF Pcs
  <2>2. next \in Calls
    BY <1>1, <2>1, CallUpdates, Zenon
  <2> QED
    BY <1>1, <2>1, <2>2, GotoFields, Zenon
<1>3. /\ failed \in Calls /\ failed.op = call[c].op /\ failed.node = call[c].node
      /\ failed.pc = "done" /\ failed.ret = "Failure"
  BY <1>1, CallUpdates, ReturnFields, ZenonT(30) DEF Pcs, Rets
<1> HIDE DEF next, failed
<1>4. DetachDiskAccepted(call[c].owner) /\ disk' = DetachDisk =>
        /\ disk.Status = "In_use" /\ disk'.Status = "Detaching"
        /\ disk'.InstanceId = disk.InstanceId
        /\ disk.InstanceId # InstanceOf(call[c].node)
  BY <1>1, Zenon DEF DetachDiskAccepted, DetachDisk, Disks
<1>5. DetachDiskAccepted(call[c].owner) /\ disk' = DetachDisk =>
        StepOK(call[c], next) /\ StepOK(call[c], failed)
  BY <1>1, <1>2, <1>3, <1>4, Zenon DEF StepOK
<1>6. DetachDiskAccepted(call[c].owner) \in BOOLEAN
  BY DEF DetachDiskAccepted
<1> QED
  BY <1>1, <1>5, <1>6, RequestStep, Zenon DEF Steal, next, failed

LEMMA AttachStepStep ==
  ASSUME HInv, NEW c \in Callers, AttachStep(c)
  PROVE  \E r : Becomes(c, r) /\ StepOK(call[c], r)
<1>1. /\ call[c] \in Calls /\ Running(c) /\ call[c].ret = "" /\ disk \in Disks
      /\ call[c].op \in AttachOps /\ call[c].instanceId = InstanceOf(call[c].node)
  BY Zenon DEF HInv, TypeOK, CallsOK, CallOK, Resolved, AttachStep, At, Running, HistoryOK
<1> DEFINE next == [call[c] EXCEPT !.pc = "waitinuse"]
           failed == [call[c] EXCEPT !.pc = "done", !.ret = "Failure"]
<1>2. /\ next \in Calls /\ next.op = call[c].op /\ next.node = call[c].node
      /\ next.pc = "waitinuse" /\ next.ret = ""
  BY <1>1, CallUpdates, GotoFields, ZenonT(30) DEF Pcs
<1>3. /\ failed \in Calls /\ failed.op = call[c].op /\ failed.node = call[c].node
      /\ failed.pc = "done" /\ failed.ret = "Failure"
  BY <1>1, CallUpdates, ReturnFields, ZenonT(30) DEF Pcs, Rets
<1> HIDE DEF next, failed
<1>4. AttachDiskAccepted /\ disk' = AttachDisk(call[c].instanceId) =>
        /\ disk.Status = "Available" /\ disk'.Status = "Attaching"
        /\ disk'.InstanceId = InstanceOf(call[c].node)
  BY <1>1, Zenon DEF AttachDiskAccepted, AttachDisk, Disks
<1>5. AttachDiskAccepted /\ disk' = AttachDisk(call[c].instanceId) =>
        StepOK(call[c], next) /\ StepOK(call[c], failed)
  BY <1>1, <1>2, <1>3, <1>4, Zenon DEF StepOK
<1>6. AttachDiskAccepted \in BOOLEAN
  BY DEF AttachDiskAccepted
<1> QED
  BY <1>1, <1>5, <1>6, RequestStep, Zenon DEF AttachStep, next, failed

LEMMA DetachStepStep ==
  ASSUME HInv, NEW c \in Callers, DetachStep(c)
  PROVE  \E r : Becomes(c, r) /\ StepOK(call[c], r)
<1>1. /\ call[c] \in Calls /\ Running(c) /\ disk \in Disks
      /\ call[c].op = "detach" /\ call[c].instanceId = InstanceOf(call[c].node)
  BY DEF HInv, TypeOK, CallsOK, CallOK, Resolved, DetachStep, At, Running
<1> DEFINE next == [call[c] EXCEPT !.pc = "done", !.ret = "Success"]
           failed == [call[c] EXCEPT !.pc = "done", !.ret = "Failure"]
<1>2. /\ next \in Calls /\ next.op = call[c].op /\ next.node = call[c].node
      /\ next.pc = "done" /\ next.ret = "Success"
  BY <1>1, CallUpdates, ReturnFields, ZenonT(30) DEF Pcs, Rets
<1>3. /\ failed \in Calls /\ failed.op = call[c].op /\ failed.node = call[c].node
      /\ failed.pc = "done" /\ failed.ret = "Failure"
  BY <1>1, CallUpdates, ReturnFields, ZenonT(30) DEF Pcs, Rets
<1> HIDE DEF next, failed
<1>4. DetachDiskAccepted(call[c].instanceId) /\ disk' = DetachDisk =>
        /\ disk.Status = "In_use" /\ disk'.Status = "Detaching"
        /\ disk'.InstanceId = disk.InstanceId
        /\ disk.InstanceId = InstanceOf(call[c].node)
  BY <1>1 DEF DetachDiskAccepted, DetachDisk, Disks
<1>5. disk'.Status = "Detaching" => Fulfilled(call[c], disk')
  BY <1>1, FulfilledIs, SMTT(30)
<1>6. DetachDiskAccepted(call[c].instanceId) /\ disk' = DetachDisk =>
        StepOK(call[c], next) /\ StepOK(call[c], failed)
  BY <1>1, <1>2, <1>3, <1>4, <1>5 DEF StepOK
<1>7. DetachDiskAccepted(call[c].instanceId) \in BOOLEAN
  BY SMTT(30) DEF DetachDiskAccepted
<1> QED
  BY <1>1, <1>6, <1>7, RequestStep, Zenon DEF DetachStep, next, failed

\* Attach reads the device once its wait is over; WaitForAttach answers.
LEMMA WaitInUseStep ==
  ASSUME HInv, NEW c \in Callers, WaitInUse(c)
  PROVE  \E r : Becomes(c, r) /\ StepOK(call[c], r)
<1>1. /\ call[c] \in Calls /\ Running(c) /\ call[c].ret = "" /\ UNCHANGED disk
      /\ call[c].pc = "waitinuse" /\ WaitEnds("In_use")
  BY Zenon DEF HInv, TypeOK, WaitInUse, At, Running, HistoryOK
<1>2. CASE call[c].op = "waitforattach"
  <2>1. call[c].op = "waitforattach" /\ disk.Status = "In_use" => Fulfilled(call[c], disk)
    BY <1>1, FulfilledIs, Zenon
  <2> QED
    BY <1>1, <1>2, <2>1, AnswerStep, InitialTypes, Zenon DEF WaitInUse, Return
<1>3. CASE call[c].op # "waitforattach"
  <2> DEFINE r == [call[c] EXCEPT !.pc = "read"]
  <2>1. /\ r \in Calls /\ r.op = call[c].op /\ r.node = call[c].node
        /\ r.pc = "read" /\ r.ret = ""
    BY <1>1, CallUpdates, GotoFields, ZenonT(30) DEF Pcs
  <2> HIDE DEF r
  <2>2. StepOK(call[c], r)
    BY <1>1, <2>1, Zenon DEF StepOK
  <2>3. Becomes(c, r)
    BY <1>3 DEF WaitInUse, Goto, r
  <2> QED
    BY <2>2, <2>3
<1> QED
  BY <1>2, <1>3

LEMMA OtherSteps ==
  ASSUME HInv, NEW c \in Callers,
         \/ LookupInstance(c) \/ LookFails(c) \/ WaitAvailable(c)
         \/ ReadDevice(c) \/ ReadDeviceFails(c)
  PROVE  \E r : Becomes(c, r) /\ StepOK(call[c], r)
<1>1. Running(c) /\ UNCHANGED disk /\ call[c] \in Calls
  BY Zenon DEF LookupInstance, LookFails, WaitAvailable, ReadDevice, ReadDeviceFails, ReadFails,
         At, Running, HInv, TypeOK
<1>2. /\ disk.InstanceId \in Ids \cup {NoInstance}
      /\ deviceApi2Local(disk.Device) \in Devices
  BY LocalDeviceType DEF HInv, TypeOK, Disks
<1>3. CASE Return(c, "Failure")
  BY <1>1, <1>3, AnswerStep, InitialTypes, Zenon DEF Return
<1>4. CASE Goto(c, "attach")
  BY <1>1, <1>2, <1>4, GotoStep, Zenon DEF Goto
<1>5. CASE LookupInstance(c)
  <2>1. InstanceOf(call[c].node) \in Ids \cup {NoInstance}
    BY InstanceOfType
  <2> QED
    BY <1>1, <1>2, <1>3, <1>5, <2>1, GotoStep, ZenonT(30) DEF LookupInstance
<1>6. CASE ReadDevice(c)
  <2>1. call[c].pc = "read" /\ call[c].op \in AttachOps
    BY <1>6 DEF ReadDevice, At, HInv, CallsOK, CallOK
  <2> QED
    BY <1>1, <1>2, <1>6, <2>1, AnswerStep, Zenon DEF ReadDevice, ReturnPath
<1> QED
  BY <1>3, <1>4, <1>5, <1>6 DEF LookFails, WaitAvailable, ReadDeviceFails, ReadFails

LEMMA StepsOK ==
  ASSUME HInv, NEW c \in Callers, Step(c)
  PROVE  Running(c) /\ \E r : Becomes(c, r) /\ StepOK(call[c], r)
<1>1. Running(c)
  BY Zenon DEF Step, LookupInstance, Look, LookFails, Steal, WaitAvailable, AttachStep, WaitInUse,
         ReadDevice, ReadDeviceFails, DetachStep, At, Running
<1> QED
  BY <1>1, LookStep, StealStep, AttachStepStep, DetachStepStep, WaitInUseStep, OtherSteps DEF Step

-----------------------------------------------------------------------------
History == met' = [c \in Callers |-> ~Idle(c)' /\ (met[c] \/ IsMet(c)')]

LEMMA IsMetIs == \A c \in Callers : IsMet(c) = Fulfilled(call[c], disk)
  BY DEF IsMet, Fulfilled

LEMMA FulfilledBoolean == \A k, d : Fulfilled(k, d) \in BOOLEAN
  BY DEF Fulfilled, D!Fulfils

LEMMA HistoryType ==
  ASSUME History
  PROVE  /\ met' \in [Callers -> BOOLEAN]
         /\ \A d \in Callers : met'[d] = (call'[d].pc # "idle" /\ (met[d] \/ Fulfilled(call'[d], disk')))
  BY DEF History, Idle, IsMet, Fulfilled

\* A call that is elsewhere keeps what the invariant says of it: on its way to
\* its instance the disk comes to be in use there.
LEMMA OthersKeep ==
  ASSUME HInv, TypeOK', History, NEW d \in Callers, call'[d] = call[d],
         \/ UNCHANGED disk
         \/ disk.Status # "Attaching"
         \/ disk'.Status = "In_use" /\ disk'.InstanceId = disk.InstanceId
  PROVE  HistoryOK(d)'
<1>1. call[d] \in Calls /\ HistoryOK(d)
  BY DEF HInv, TypeOK
<1>2. call'[d].pc # "idle" /\ met[d] => met'[d]
  BY HistoryType, SMTT(30)
<1>3. call[d].op \in AttachOps /\ disk'.Status = "In_use"
        /\ disk'.InstanceId = InstanceOf(call[d].node) /\ call[d].pc = "waitinuse" => met'[d]
  BY <1>1, HistoryType, FulfilledIs
<1>4. /\ ~Idle(d)' => call'[d].op \in Ops
      /\ met'[d] => ~Idle(d)'
      /\ Running(d)' => call'[d].ret = ""
  BY <1>1, HistoryType, Zenon DEF HistoryOK, Idle, Running
<1>5. ASSUME "WaitForDisk" \notin Faults, call[d].op \in AttachOps, call[d].pc = "read"
      PROVE  met'[d]
  BY <1>1, <1>2, <1>5, Zenon DEF HistoryOK
<1>6. ASSUME "WaitForDisk" \notin Faults, call[d].op \in AttachOps, call[d].pc = "waitinuse"
      PROVE  \/ met'[d]
             \/ disk'.Status = "Attaching" /\ disk'.InstanceId = InstanceOf(call[d].node)
  <2>1. CASE met[d]
    <3>1. met'[d] \in BOOLEAN
      BY HistoryType
    <3>2. call'[d].pc # "idle"
      BY <1>6
    <3> QED
      BY <1>2, <2>1, <3>1, <3>2
  <2>2. CASE ~met[d]
    <3>1. disk.Status = "Attaching" /\ disk.InstanceId = InstanceOf(call[d].node)
      BY <1>1, <1>6, <2>2, Zenon DEF HistoryOK
    <3>2. CASE UNCHANGED disk
      BY <3>1, <3>2
    <3>3. CASE disk'.Status = "In_use" /\ disk'.InstanceId = disk.InstanceId
      BY <1>3, <1>6, <3>1, <3>3
    <3> QED
      BY <3>1, <3>2, <3>3
  <2> QED
    BY <2>1, <2>2
<1> QED
  BY <1>4, <1>5, <1>6, Zenon DEF HistoryOK

\* The call that takes the step: it comes to read only from its wait.
LEMMA StepKeeps ==
  ASSUME HInv, History, NEW c \in Callers, Running(c), NEW r, Becomes(c, r), StepOK(call[c], r)
  PROVE  HistoryOK(c)' /\ (r.ret = "Success" /\ "WaitForDisk" \notin Faults => met'[c])
<1>1. call'[c] = r /\ call[c] \in Calls /\ HistoryOK(c) /\ disk \in Disks
  BY DEF HInv, TypeOK, Becomes
<1>2. call[c].op \in Ops
  BY <1>1, Zenon DEF HistoryOK, Running, Idle
<1>3. met[c] => met'[c]
  BY <1>1, HistoryType, Zenon DEF StepOK
<1>4. Fulfilled(call[c], disk') => met'[c]
  BY <1>1, HistoryType, Zenon DEF StepOK, Fulfilled
<1>5. /\ ~Idle(c)' => call'[c].op \in Ops
      /\ met'[c] => ~Idle(c)'
      /\ Running(c)' => call'[c].ret = ""
  BY <1>1, <1>2, HistoryType, Zenon DEF StepOK, Running, Idle
<1>6. ASSUME "WaitForDisk" \notin Faults, call[c].op \in AttachOps, r.pc = "read"
      PROVE  met'[c]
  <2>1. call[c].pc = "waitinuse" /\ UNCHANGED disk /\ disk.Status \in {"Available", "In_use"}
    BY <1>6, Zenon DEF StepOK, WaitEnds
  <2> QED
    BY <1>1, <1>3, <1>6, <2>1, Zenon DEF HistoryOK
<1>7. ASSUME r.pc = "waitinuse", call[c].op \in AttachOps
      PROVE  disk'.Status = "Attaching" /\ disk'.InstanceId = InstanceOf(call[c].node)
  BY <1>7, Zenon DEF StepOK
<1>8. r.op = call[c].op /\ r.node = call[c].node
  BY Zenon DEF StepOK
<1>9. HistoryOK(c)'
  BY <1>1, <1>5, <1>6, <1>7, <1>8, Zenon DEF HistoryOK
<1>10. ASSUME r.ret = "Success", "WaitForDisk" \notin Faults PROVE met'[c]
  BY <1>1, <1>3, <1>4, <1>10, Zenon DEF StepOK, HistoryOK
<1> QED
  BY <1>9, <1>10

-----------------------------------------------------------------------------
\* A process starts: what it asks for is recorded.
Started(c, op, node, r) ==
    /\ r \in Calls /\ Becomes(c, r) /\ r.op = op /\ r.node = node
    /\ r.pc \in {"lookup", "look", "done"}
    /\ r.ret \in {"", "Not supported"} /\ (r.pc # "done" => r.ret = "")

LEMMA StartFacts ==
  ASSUME TypeOK, NEW c \in Callers, NEW op \in Ops, NEW node \in Nodes, Start(c, op, node)
  PROVE  \E r : Started(c, op, node, r)
<1> DEFINE begin == [NoCall EXCEPT !.op = op, !.node = node]
<1>1. begin \in Calls /\ begin.op = op /\ begin.node = node /\ begin.ret = ""
  BY InitialTypes, CallUpdates, ZenonT(30) DEF Pcs, NoCall
<1> HIDE DEF begin
<1>2. \A pc \in {"lookup", "look"} :
         /\ [begin EXCEPT !.pc = pc] \in Calls /\ [begin EXCEPT !.pc = pc].op = op
         /\ [begin EXCEPT !.pc = pc].node = node /\ [begin EXCEPT !.pc = pc].pc = pc
         /\ [begin EXCEPT !.pc = pc].ret = ""
  <2> TAKE pc \in {"lookup", "look"}
  <2>1. pc \in Pcs
    BY DEF Pcs
  <2>2. [begin EXCEPT !.pc = pc] \in Calls
    BY <1>1, <2>1, CallUpdates, Zenon
  <2> QED
    BY <1>1, <2>1, <2>2, GotoFields, ZenonT(30)
<1>3. LET r == [begin EXCEPT !.pc = "done", !.ret = "Not supported"] IN
         /\ r \in Calls /\ r.op = op /\ r.node = node /\ r.pc = "done" /\ r.ret = "Not supported"
  BY <1>1, CallUpdates, ReturnFields, Zenon DEF Pcs, Rets
<1> QED
  BY <1>2, <1>3, Zenon DEF Start, Started, begin

LEMMA HInvStep ==
  ASSUME HInv, [HNext]_hvars, TypeOK', CallsOK'
  PROVE  HInv'
<1>1. CASE UNCHANGED hvars
  BY <1>1, Zenon DEF HInv, HistoryOK, hvars, Idle, Running
<1>2. CASE HNext
  <2>1. History
    BY <1>2 DEF HNext, History
  <2>2. met' \in [Callers -> BOOLEAN]
    BY <2>1, HistoryType
  <2> SUFFICES ASSUME NEW d \in Callers PROVE HistoryOK(d)'
    BY <2>2 DEF HInv
  <2>3. ASSUME NEW c \in Callers, NEW op \in Ops, NEW node \in Nodes, Start(c, op, node)
        PROVE  HistoryOK(d)'
    <3>0. TypeOK
      BY DEF HInv
    <3>1. PICK r : Started(c, op, node, r)
      BY <2>3, <3>0, StartFacts
    <3>2. CASE d = c
      BY <2>1, <3>1, <3>2, HistoryType, Zenon DEF Started, Becomes, HInv, TypeOK, HistoryOK, Running, Idle
    <3>3. CASE d # c
      BY <2>1, <2>3, <3>1, <3>3, OthersKeep, Zenon DEF Started, Becomes, HInv, TypeOK, Start
    <3> QED
      BY <3>2, <3>3
  <2>4. ASSUME NEW c \in Callers, Step(c) PROVE HistoryOK(d)'
    <3>1. PICK r : Running(c) /\ Becomes(c, r) /\ StepOK(call[c], r)
      BY <2>4, StepsOK
    <3>2. CASE d = c
      BY <2>1, <3>1, <3>2, StepKeeps
    <3>3. CASE d # c
      <4>1. call'[d] = call[d]
        BY <3>1, <3>3 DEF Becomes, HInv, TypeOK
      <4>2. UNCHANGED disk \/ disk.Status # "Attaching"
        BY <3>1, Zenon DEF StepOK
      <4> QED
        BY <2>1, <4>1, <4>2, OthersKeep
    <3> QED
      BY <3>2, <3>3
  <2>5. ASSUME NEW c \in Callers, Collect(c) \/ Kill(c) PROVE HistoryOK(d)'
    <3>1. Becomes(c, NoCall) /\ UNCHANGED disk
      BY <2>5, SMTT(30) DEF Collect, Kill
    <3>2. CASE d = c
      <4>1. call'[d].pc = "idle"
        BY <3>1, <3>2, Zenon DEF Becomes, HInv, TypeOK, NoCall
      <4> QED
        BY <2>1, <4>1, HistoryType DEF HistoryOK, Idle, Running
    <3>3. CASE d # c
      BY <2>1, <3>1, <3>3, OthersKeep DEF Becomes, HInv, TypeOK
    <3> QED
      BY <3>2, <3>3
  <2>6. ASSUME Cloud PROVE HistoryOK(d)'
    <3>1. call'[d] = call[d]
      BY <2>6, Zenon DEF Cloud, FinishAttach, FinishDetach
    <3>2. \/ disk.Status # "Attaching"
          \/ disk'.Status = "In_use" /\ disk'.InstanceId = disk.InstanceId
      BY <2>6, ZenonT(30) DEF Cloud, FinishAttach, FinishDetach, HInv, TypeOK, Disks
    <3> QED
      BY <2>1, <3>1, <3>2, OthersKeep
  <2> QED
    BY <1>2, <2>3, <2>4, <2>5, <2>6 DEF HNext, Next
<1> QED
  BY <1>1, <1>2

-----------------------------------------------------------------------------
(* The refinement mapping, step by step.                                   *)
View(k, m) == IF k.pc = "idle" THEN D!NoAsk
              ELSE [op |-> AskOf(k.op), instance |-> Target[k.node], met |-> m, ret |-> k.ret]

LEMMA AsksIs == /\ asks = [c \in Callers |-> View(call[c], met[c])]
                /\ asks' = [c \in Callers |-> View(call'[c], met'[c])]
<1>1. asks = [c \in Callers |-> View(call[c], met[c])]
  BY SMTT(30) DEF asks, View, Idle, D!NoAsk, D!Nobody, NoInstance
<1>2. asks' = [c \in Callers |-> View(call'[c], met'[c])]
  <2>1. \A c \in Callers : Idle(c)' = (call'[c].pc = "idle")
    BY DEF Idle
  <2> QED
    BY <2>1, Zenon DEF asks, View, D!NoAsk, D!Nobody, NoInstance, Target
<1> QED
  BY <1>1, <1>2

\* An ask that is looked at again after the step.
LEMMA SeenIs ==
  ASSUME NEW k \in Calls, k.pc # "idle", NEW m \in BOOLEAN
  PROVE  D!Seen(View(k, m)) = View(k, m \/ Fulfilled(k, disk'))
<1> DEFINE a == View(k, m)
<1>1. a = [op |-> AskOf(k.op), instance |-> Target[k.node], met |-> m, ret |-> k.ret]
  BY SMTT(30) DEF View
<1>2. a.op = AskOf(k.op) /\ a.instance = Target[k.node] /\ a.met = m
  BY <1>1
<1>3. D!Seen(a) = [a EXCEPT !.met = m \/ Fulfilled(k, disk')]
  BY <1>2 DEF D!Seen, Fulfilled
<1>4. [a EXCEPT !.met = m \/ Fulfilled(k, disk')]
        = [op |-> AskOf(k.op), instance |-> Target[k.node], met |-> m \/ Fulfilled(k, disk'),
           ret |-> k.ret]
  BY <1>1
<1> QED
  BY <1>3, <1>4 DEF View

LEMMA SeenIdle == D!Seen(D!NoAsk) = D!NoAsk
<1>1. D!NoAsk.op = "none" /\ D!NoAsk.met = FALSE
  BY DEF D!NoAsk
<1>2. D!Seen(D!NoAsk) = [D!NoAsk EXCEPT !.met = FALSE]
  BY <1>1, Zenon DEF D!Seen, D!Fulfils
<1> QED
  BY <1>2, Zenon DEF D!NoAsk

\* A call that does not take the step.
LEMMA OthersSeen ==
  ASSUME HInv, History, NEW d \in Callers, call'[d] = call[d]
  PROVE  View(call'[d], met'[d]) = D!Seen(asks[d])
<1>1. call[d] \in Calls /\ met[d] \in BOOLEAN /\ asks[d] = View(call[d], met[d])
  BY AsksIs, SMTT(30) DEF HInv, TypeOK
<1>2. CASE call[d].pc = "idle"
  BY <1>1, <1>2, SeenIdle, SMTT(30) DEF View
<1>3. CASE call[d].pc # "idle"
  <2>1. met'[d] = (met[d] \/ Fulfilled(call[d], disk'))
    BY <1>3, HistoryType
  <2> QED
    BY <1>1, <1>3, <2>1, SeenIs
<1> QED
  BY <1>2, <1>3

\* What the abstract asks become when process c becomes r.
LEMMA BecomesView ==
  ASSUME HInv, History, NEW c \in Callers, NEW r, Becomes(c, r)
  PROVE  D!Becomes(c, View(r, met'[c]))
<1>1. \A d \in Callers : call'[d] = IF d = c THEN r ELSE call[d]
  BY DEF Becomes, HInv, TypeOK
<1>2. \A d \in Callers : View(call'[d], met'[d])
                           = IF d = c THEN View(r, met'[c]) ELSE D!Seen(asks[d])
  BY <1>1, OthersSeen
<1>3. asks' = [d \in Callers |-> IF d = c THEN View(r, met'[c]) ELSE D!Seen(asks[d])]
  BY <1>2, AsksIs
<1> QED
  BY <1>3 DEF D!Becomes

LEMMA StartImplements ==
  ASSUME HInv, History, NEW c \in Callers, NEW op \in Ops, NEW node \in Nodes,
         Start(c, op, node)
  PROVE  D!Next
<1>1. PICK r : Started(c, op, node, r)
  BY StartFacts DEF HInv
<1>2. Idle(c) /\ UNCHANGED disk
  BY SMTT(30) DEF Start
<1>3. asks[c] = D!NoAsk
  BY <1>2, AsksIs DEF View, Idle
<1>4. call'[c] = r /\ r \in Calls /\ r.pc # "idle" /\ r.op = op /\ r.node = node
  BY <1>1, Zenon DEF Started, Becomes, HInv, TypeOK
<1> DEFINE a == [op |-> AskOf(op), instance |-> Target[node], met |-> FALSE, ret |-> r.ret]
<1>5. a = View(r, FALSE)
  BY <1>4, SMTT(30) DEF View
<1>6. View(r, met'[c]) = D!Seen(a)
  <2>1. met[c] => FALSE
    BY <1>2, Zenon DEF HInv, HistoryOK
  <2> QED
    BY <1>4, <1>5, <2>1, HistoryType, SeenIs, Zenon
<1>7. D!Becomes(c, D!Seen(a))
  BY <1>1, <1>6, BecomesView, Zenon DEF Started
<1>8. /\ AskOf(op) \in {"attach", "detach", "wait"} /\ r.ret \in {"", "Not supported"}
      /\ Target[node] \in Ids \cup {NoInstance}
  BY <1>1, VolumesAssumption, InstanceOfType, Zenon DEF AskOf, Started, Target
<1>9. D!Ask(c, AskOf(op), Target[node])
  BY <1>2, <1>3, <1>7, <1>8, Zenon DEF D!Ask
<1> QED
  BY <1>8, <1>9, Zenon DEF D!Next

LEMMA StepImplements == ASSUME HInv, History, NEW c \in Callers, Step(c) PROVE D!Next
<1>1. PICK r : Running(c) /\ Becomes(c, r) /\ StepOK(call[c], r)
  BY StepsOK
<1> DEFINE k == call[c]
<1>2. /\ call'[c] = r /\ k \in Calls /\ k.pc # "idle" /\ k.op \in Ops /\ k.ret = ""
      /\ met[c] \in BOOLEAN /\ asks[c] = View(k, met[c])
  BY <1>1, AsksIs, Zenon DEF HInv, TypeOK, Becomes, HistoryOK, Idle, Running
<1>3. /\ r \in Calls /\ r.pc # "idle" /\ r.op = k.op /\ r.node = k.node
      /\ r.ret \in {"", "Success", "Failure"}
  BY <1>1, Zenon DEF StepOK
<1>4. met'[c] = (met[c] \/ Fulfilled(k, disk'))
  BY <1>2, <1>3, HistoryType, Zenon DEF Fulfilled
<1> HIDE DEF k
<1>5. asks[c].op = AskOf(k.op) /\ asks[c].instance = InstanceOf(k.node) /\ asks[c].ret = ""
  <2>1. asks[c] = [op |-> AskOf(k.op), instance |-> Target[k.node], met |-> met[c], ret |-> k.ret]
    BY <1>2, Zenon DEF View
  <2>2. Target[k.node] = InstanceOf(k.node)
    BY <1>2, TargetIs, ZenonT(30)
  <2>3. /\ asks[c].op = AskOf(k.op) /\ asks[c].instance = Target[k.node]
        /\ asks[c].ret = k.ret
    BY <2>1
  <2> QED
    BY <1>2, <2>2, <2>3, Zenon
<1>6. D!Open(c)
  BY <1>2, <1>5, VolumesAssumption, Zenon DEF D!Open, AskOf
<1>7. D!BeginAttach(c) \/ D!BeginDetach(c) \/ UNCHANGED <<disk.Status, disk.InstanceId>>
  <2>1. CASE UNCHANGED disk
    BY <2>1
  <2>2. CASE /\ k.op \in AttachOps /\ disk.Status = "Available"
             /\ disk'.Status = "Attaching" /\ disk'.InstanceId = InstanceOf(k.node)
    BY <1>5, <2>2, Zenon DEF D!BeginAttach, AskOf, AttachOps
  <2>3. CASE /\ disk.Status = "In_use"
             /\ disk'.Status = "Detaching" /\ disk'.InstanceId = disk.InstanceId
             /\ \/ k.op = "detach" /\ disk.InstanceId = InstanceOf(k.node)
                \/ k.op \in AttachOps /\ disk.InstanceId # InstanceOf(k.node)
    BY <1>5, <2>3, Zenon DEF D!BeginDetach, AskOf, AttachOps
  <2> QED
    BY <1>1, <2>1, <2>2, <2>3, Zenon DEF StepOK, k
<1>8. View(r, met'[c]) = [D!Seen(asks[c]) EXCEPT !.ret = r.ret]
  <2>1. D!Seen(asks[c]) = [op |-> AskOf(k.op), instance |-> Target[k.node],
                           met |-> met'[c], ret |-> k.ret]
    BY <1>2, <1>4, SeenIs, Zenon DEF View
  <2>2. View(r, met'[c]) = [op |-> AskOf(k.op), instance |-> Target[k.node],
                            met |-> met'[c], ret |-> r.ret]
    BY <1>3, Zenon DEF View
  <2> QED
    BY <2>1, <2>2
<1>9. D!Becomes(c, [D!Seen(asks[c]) EXCEPT !.ret = r.ret])
  BY <1>1, <1>8, BecomesView, SMTT(30)
<1>10. r.ret = "Success" /\ "WaitForDisk" \notin Faults => asks'[c].met
  <2>1. asks'[c].met = met'[c]
    BY <1>2, <1>3, AsksIs, Zenon DEF View
  <2> QED
    BY <1>1, <2>1, StepKeeps
<1>11. D!Serve(c)
  BY <1>3, <1>6, <1>7, <1>9, <1>10, Zenon DEF D!Serve
<1> QED
  BY <1>11 DEF D!Next

LEMMA LeaveImplements ==
  ASSUME HInv, History, NEW c \in Callers, Collect(c) \/ Kill(c)
  PROVE  D!Next
<1>1. Becomes(c, NoCall) /\ UNCHANGED disk /\ ~Idle(c)
  BY SMTT(30) DEF Collect, Kill, At, Running, Idle
<1>2. View(NoCall, met'[c]) = D!NoAsk
  BY DEF View, NoCall
<1>3. D!Becomes(c, D!NoAsk)
  BY <1>1, <1>2, BecomesView
<1>4. asks[c] # D!NoAsk
  <2>1. call[c].op \in Ops
    BY <1>1, Zenon DEF HInv, HistoryOK
  <2>2. asks[c].op # "none"
    BY <1>1, <2>1, AsksIs, VolumesAssumption DEF View, Idle, AskOf
  <2>3. D!NoAsk.op = "none"
    BY SMTT(30) DEF D!NoAsk
  <2> QED
    BY <2>2, <2>3
<1> QED
  BY <1>1, <1>3, <1>4 DEF D!Leave, D!Next

LEMMA CloudImplements == ASSUME HInv, History, Cloud PROVE D!Next
<1>1. UNCHANGED call
  BY ZenonT(30) DEF Cloud, FinishAttach, FinishDetach
<1>2. asks' = [d \in Callers |-> D!Seen(asks[d])]
  BY <1>1, OthersSeen, AsksIs, SMTT(30)
<1>3. \/ disk.Status = "Attaching" /\ disk'.Status = "In_use" /\ disk'.InstanceId = disk.InstanceId
      \/ disk.Status = "Detaching" /\ disk'.Status = "Available" /\ disk'.InstanceId = D!Nobody
  <2>1. CASE FinishAttach
    <3>1. PICK l \in Letters : disk' = [disk EXCEPT !.Status = "In_use", !.Device = <<APIPrefix, l>>]
      BY <2>1, Zenon DEF FinishAttach
    <3>2. disk'.Status = "In_use" /\ disk'.InstanceId = disk.InstanceId
      BY <3>1 DEF HInv, TypeOK, Disks
    <3> QED
      BY <2>1, <3>2 DEF FinishAttach
  <2>2. CASE FinishDetach
    BY <2>2, Zenon DEF FinishDetach, Free, NoInstance, D!Nobody
  <2> QED
    BY <2>1, <2>2 DEF Cloud
<1> QED
  BY <1>2, <1>3 DEF D!Finish, D!Next

-----------------------------------------------------------------------------
(* The driver implements DiskService: whatever calls of Attach, Detach and *)
(* WaitForAttach overlap, fail or die, the disk moves only for a call that *)
(* wants it to, and, unless a wait ends early, a call answers Success only *)
(* if what it was asked for has been so since it began.                    *)
THEOREM ImplementsHolds == HSpec => Implements
<1>1. HInit => D!Init
  <2> SUFFICES ASSUME HInit PROVE D!Init
    OBVIOUS
  <2>1. NoCall.pc = "idle" /\ \A c \in Callers : call[c] = NoCall
    BY ZenonT(30) DEF HInit, Init, NoCall
  <2>2. \A c \in Callers : View(call[c], met[c]) = D!NoAsk
    BY <2>1 DEF View
  <2>3. disk.Status = "Available" /\ disk.InstanceId = D!Nobody
    BY Zenon DEF HInit, Init, Free, D!Nobody, NoInstance
  <2> QED
    BY <2>2, <2>3, AsksIs DEF D!Init
<1>2. HInv /\ [HNext]_hvars => [D!Next]_(D!dvars)
  <2> SUFFICES ASSUME HInv, [HNext]_hvars PROVE [D!Next]_(D!dvars)
    OBVIOUS
  <2>1. CASE UNCHANGED hvars
    <3>1. asks' = asks
      BY <2>1, AsksIs DEF hvars
    <3> QED
      BY <2>1, <3>1 DEF hvars, D!dvars
  <2>2. CASE HNext
    <3>1. History
      BY <2>2 DEF HNext, History
    <3> QED
      BY <2>2, <3>1, StartImplements, StepImplements, LeaveImplements, CloudImplements
         DEF HNext, Next
  <2> QED
    BY <2>1, <2>2
<1>3. HSpec => []HInv
  <2>1. HInit => Init
    BY DEF HInit
  <2>2. [HNext]_hvars => [Next]_vars
    BY DEF HNext, hvars, vars
  <2>3. HSpec => Spec
    BY <2>1, <2>2, PTL DEF HSpec, Spec
  <2>4. Spec => [](TypeOK /\ CallsOK)
    BY TypeCorrect, CallsOKInitially, CallsOKStep, PTL DEF Spec
  <2>5. HInit /\ TypeOK /\ CallsOK => HInv
    <3> SUFFICES ASSUME HInit, TypeOK, CallsOK, NEW c \in Callers PROVE HistoryOK(c)
      BY DEF HInit, HInv
    <3>1. call[c].pc = "idle" /\ met[c] = FALSE
      BY Zenon DEF HInit, Init, NoCall
    <3> QED
      BY <3>1 DEF HistoryOK, Idle, Running
  <2>6. HInv /\ [HNext]_hvars /\ TypeOK' /\ CallsOK' => HInv'
    BY HInvStep
  <2> QED
    BY <2>3, <2>4, <2>5, <2>6, PTL DEF HSpec
<1> QED
  BY <1>1, <1>2, <1>3, PTL DEF HSpec, Implements, D!Spec
=============================================================================
