------------------------- MODULE LoadBalancerProofs -------------------------
(***************************************************************************)
(* Theorems about module LoadBalancer, for any number of service versions, *)
(* ports, nodes, instances and load balancer ids.                          *)
(***************************************************************************)
EXTENDS LoadBalancer, TLAPS

(***************************************************************************)
(* Types.  A call that works on a load balancer knows the id of one.       *)
(***************************************************************************)
Located(k) == \/ k.pc \in {"describe", "listeners", "remove", "add", "delete"}
              \/ k.pc = "instances" /\ k.op # "Ensure"
              => k.id \in LBIds

GoodCalls == {k \in Calls : Located(k)}

Good == /\ lbs \in [LBIds -> LBTypes]
        /\ call \in [Callers -> GoodCalls]
        /\ panicked \in BOOLEAN

ListenerKeys == [Port : PortNumbers, Protocol : Protocols]

LEMMA InitialTypes == NoCall \in GoodCalls /\ NoLB \in LBTypes
<1>1. NoCall \in Calls
  BY DEF NoCall, Calls, Pcs, Rets, Retries
<1>2. Located(NoCall)
  BY Zenon DEF NoCall, Located
<1>3. NoLB \in LBTypes
  BY DEF NoLB, LBTypes, Listeners
<1> QED BY <1>1, <1>2, <1>3 DEF GoodCalls

LEMMA GotoType ==
    ASSUME NEW k \in Calls, NEW pc \in Pcs
    PROVE  LET r == [k EXCEPT !.pc = pc]
           IN  r \in Calls /\ r.pc = pc /\ r.id = k.id /\ r.op = k.op /\ r.ret = k.ret
BY ZenonT(30) DEF Calls

LEMMA ReturnType ==
    ASSUME NEW k \in Calls, NEW ret \in Rets
    PROVE  LET r == [k EXCEPT !.pc = "done", !.ret = ret]
           IN  r \in GoodCalls /\ r.pc = "done" /\ r.op = k.op /\ r.ret = ret
<1> DEFINE r == [k EXCEPT !.pc = "done", !.ret = ret]
<1>1. r \in Calls /\ r.pc = "done" /\ r.op = k.op /\ r.ret = ret
  BY ZenonT(30) DEF Calls, Pcs
<1> HIDE DEF r
<1>2. Located(r)
  BY <1>1 DEF Located
<1>3. r \in GoodCalls
  BY <1>1, <1>2 DEF GoodCalls
<1> QED BY <1>1, <1>3 DEF r

LEMMA ListType ==
    ASSUME NEW k \in Calls, NEW n \in 0..Retries
    PROVE  LET r == [k EXCEPT !.pc = "list", !.retry = n]
           IN  r \in Calls /\ r.pc = "list" /\ r.id = k.id /\ r.op = k.op /\ r.ret = k.ret
BY ZenonT(30) DEF Calls, Pcs

LEMMA DescribeType ==
    ASSUME NEW k \in Calls, NEW id \in LBIds
    PROVE  LET r == [k EXCEPT !.pc = "describe", !.id = id]
           IN  r \in Calls /\ r.pc = "describe" /\ r.id = id /\ r.op = k.op /\ r.ret = k.ret
BY ZenonT(30) DEF Calls, Pcs

\* A call within ensureLBListeners: only what is left to do changes.
SameCall(r, k) == /\ r \in Calls
                  /\ r.pc = k.pc /\ r.id = k.id /\ r.op = k.op /\ r.ret = k.ret
                  /\ r.service = k.service /\ r.retry = k.retry

LEMMA SyncTypes ==
    ASSUME NEW k \in Calls, NEW a \in SUBSET ListenerKeys, NEW e \in SUBSET WantedPorts,
           NEW s \in SUBSET PortNumbers
    PROVE  /\ SameCall([k EXCEPT !.actual = a, !.expected = e, !.stopped = s], k)
           /\ SameCall([k EXCEPT !.actual = a, !.removals = s], k)
           /\ SameCall([k EXCEPT !.stopped = s], k)
           /\ SameCall([k EXCEPT !.removals = s], k)
           /\ SameCall([k EXCEPT !.created = s], k)
           /\ SameCall([k EXCEPT !.expected = e, !.created = s], k)
<1>1. SameCall([k EXCEPT !.actual = a, !.expected = e, !.stopped = s], k)
  BY ZenonT(30) DEF Calls, ListenerKeys, SameCall
<1>2. SameCall([k EXCEPT !.actual = a, !.removals = s], k)
  BY Zenon DEF Calls, ListenerKeys, SameCall
<1>3. SameCall([k EXCEPT !.stopped = s], k)
  BY Zenon DEF Calls, SameCall
<1>4. SameCall([k EXCEPT !.removals = s], k)
  BY Zenon DEF Calls, SameCall
<1>5. SameCall([k EXCEPT !.created = s], k)
  BY Zenon DEF Calls, SameCall
<1>6. SameCall([k EXCEPT !.expected = e, !.created = s], k)
  BY ZenonT(30) DEF Calls, SameCall
<1> QED BY <1>1, <1>2, <1>3, <1>4, <1>5, <1>6

LEMMA SameIsGood ==
    ASSUME NEW k \in GoodCalls, NEW r, SameCall(r, k)
    PROVE  r \in GoodCalls
BY DEF GoodCalls, SameCall, Located

\* The updates of a load balancer.
LEMMA LBUpdates ==
    ASSUME NEW b \in LBTypes
    PROVE  /\ \A p \in PortNumbers, l \in Listeners :
                 LET r == [b EXCEPT !.listeners[p] = l]
                 IN  /\ r \in LBTypes /\ r.exists = b.exists
                     /\ r.listed = b.listed /\ r.late = b.late
           /\ \A s \in SUBSET Ids :
                 LET r == [b EXCEPT !.backends = s]
                 IN  /\ r \in LBTypes /\ r.exists = b.exists
                     /\ r.listed = b.listed /\ r.late = b.late
<1>1. ASSUME NEW p \in PortNumbers, NEW l \in Listeners
      PROVE  LET r == [b EXCEPT !.listeners[p] = l]
             IN  /\ r \in LBTypes /\ r.exists = b.exists
                     /\ r.listed = b.listed /\ r.late = b.late
  <2>1. [b.listeners EXCEPT ![p] = l] \in [PortNumbers -> Listeners]
    BY DEF LBTypes
  <2> QED BY <2>1 DEF LBTypes
<1>2. ASSUME NEW s \in SUBSET Ids
      PROVE  LET r == [b EXCEPT !.backends = s]
             IN  /\ r \in LBTypes /\ r.exists = b.exists
                     /\ r.listed = b.listed /\ r.late = b.late
  BY DEF LBTypes
<1> QED BY <1>1, <1>2

\* Each name of a lookup that succeeds is left with one instance.
LEMMA LookupAllSucceeds ==
    ASSUME NEW page, NEW names, getInstancesByNodeNames(page, names).err = "nil",
           NEW k \in DOMAIN names
    PROVE  Narrowed(page, names, k) = {getInstancesByNodeNames(page, names).instances[k]}
<1> DEFINE failing == {m \in DOMAIN names : ~IsOne(Narrowed(page, names, m))}
           found == [m \in DOMAIN names |-> TheOne(Narrowed(page, names, m))]
<1>1. failing = {}
  BY DEF getInstancesByNodeNames, LookupError
<1>2. getInstancesByNodeNames(page, names) = Found(found)
  BY <1>1 DEF getInstancesByNodeNames
<1>3. Found(found).instances = found
  BY DEF Found
<1>4. IsOne(Narrowed(page, names, k))
  BY <1>1
<1>5. Narrowed(page, names, k) = {TheOne(Narrowed(page, names, k))}
  BY <1>4 DEF IsOne, TheOne
<1> QED BY <1>2, <1>3, <1>5

\* The instances a lookup returns are instances of the VPC.
LEMMA FoundIds ==
    ASSUME NEW names
    PROVE  LET found == getInstancesByNodeNames(Inventory, names)
           IN  found.err = "nil" =>
                   {found.instances[k].InstanceId : k \in DOMAIN found.instances} \subseteq Ids
<1> DEFINE found == getInstancesByNodeNames(Inventory, names)
<1> SUFFICES ASSUME found.err = "nil", NEW k \in DOMAIN found.instances
             PROVE  found.instances[k] \in Inventory
  BY DEF Ids
<1>1. DOMAIN found.instances = DOMAIN names
  BY DEF getInstancesByNodeNames, Found, LookupError
<1>2. Narrowed(Inventory, names, k) = {found.instances[k]}
  BY <1>1, LookupAllSucceeds
<1> HIDE DEF found
<1> QED BY <1>2 DEF Narrowed

LEMMA BecomesGood ==
    ASSUME Good, NEW c \in Callers, NEW r \in GoodCalls, Becomes(c, r)
    PROVE  call' \in [Callers -> GoodCalls]
BY DEF Good, Becomes

LEMMA ReturnGood ==
    ASSUME Good, NEW c \in Callers, NEW ret \in Rets, Return(c, ret)
    PROVE  call' \in [Callers -> GoodCalls]
<1>1. call[c] \in Calls
  BY DEF Good, GoodCalls
<1> QED BY <1>1, ReturnType, BecomesGood, Zenon DEF Return

LEMMA RequestGood ==
    ASSUME Good, NEW c \in Callers, NEW name, NEW accepted, NEW newLB,
           NEW next \in GoodCalls, call[c].id \in LBIds, accepted => newLB \in LBTypes,
           Request(c, name, accepted, newLB, next)
    PROVE  Good'
<1> DEFINE ok == accepted /\ LB(c).exists
           after == [lbs EXCEPT ![call[c].id] = newLB]
<1>1. ok => after \in [LBIds -> LBTypes]
  BY DEF Good
<1>2. /\ \/ ok /\ lbs' = after
         \/ lbs' = lbs
      /\ panicked' = panicked
      /\ Becomes(c, next) \/ Return(c, "error")
  BY DEF Request
<1>3. lbs' \in [LBIds -> LBTypes]
  BY <1>1, <1>2 DEF Good
<1>4. call' \in [Callers -> GoodCalls]
  BY <1>2, BecomesGood, ReturnGood, Zenon DEF Rets
<1> QED BY <1>2, <1>3, <1>4 DEF Good

LEMMA PortsOK ==
    ASSUME NEW s \in Services \cup {NoService}
    PROVE  s.Ports \subseteq ServicePorts
BY DEF ServicePorts, NoService

LEMMA GetFailsGood ==
    ASSUME Good, NEW c \in Callers,
           \/ GetFails(c)
           \/ GetFindsNone(c)
    PROVE  call' \in [Callers -> GoodCalls]
<1>0. call[c] \in Calls
  BY DEF Good, GoodCalls
<1>1. ASSUME NEW err \in BOOLEAN, PollAgain(c, err) PROVE call' \in [Callers -> GoodCalls]
  <2>1. CASE call[c].retry > 1
    <3> DEFINE r == [call[c] EXCEPT !.pc = "list", !.retry = call[c].retry - 1]
    <3>0. call[c].retry \in 0..Retries
      BY <1>0, Zenon DEF Calls
    <3>1. call[c].retry - 1 \in 0..Retries
      BY <2>1, <3>0 DEF Retries
    <3>2. r \in Calls /\ r.pc = "list"
      BY <1>0, <3>1, ListType, Zenon
    <3>3. Becomes(c, r)
      BY <1>1, <2>1 DEF PollAgain
    <3> HIDE DEF r
    <3>4. r \in GoodCalls
      BY <3>2 DEF GoodCalls, Located
    <3> QED BY <3>3, <3>4, BecomesGood
  <2>2. CASE ~(call[c].retry > 1)
    BY <1>1, <2>2, ReturnGood, Zenon DEF PollAgain, Rets
  <2> QED BY <2>1, <2>2
<1>2. ASSUME Goto(c, "create") PROVE call' \in [Callers -> GoodCalls]
  <2> DEFINE r == [call[c] EXCEPT !.pc = "create"]
  <2>1. r \in Calls /\ r.pc = "create"
    BY <1>0, GotoType, Zenon DEF Pcs
  <2> HIDE DEF r
  <2>2. r \in GoodCalls
    BY <2>1 DEF GoodCalls, Located
  <2> QED BY <1>2, <2>2, BecomesGood DEF Goto, r
<1>3. CASE GetFails(c)
  BY <1>1, <1>3, ReturnGood, Zenon DEF GetFails, Rets
<1>4. CASE GetFindsNone(c)
  BY <1>1, <1>2, <1>4, ReturnGood, Zenon DEF GetFindsNone, Rets
<1> QED BY <1>3, <1>4

\* A listener that is compared only shortens what is left to do.
LEMMA CompareType ==
    ASSUME NEW c, call[c] \in Calls, NEW l \in call[c].actual
    PROVE  SameCall(Compare(c, l, LB(c).listeners[l.Port]), call[c])
<1> DEFINE a == call[c].actual \ {l}
           e == call[c].expected \ Wanted(c, l)
           t == IF LB(c).listeners[l.Port].Status = "stopped"
                THEN call[c].stopped \cup {l.Port} ELSE call[c].stopped
           m == call[c].removals \cup {l.Port}
<1>1. /\ call[c].actual \subseteq ListenerKeys /\ l.Port \in PortNumbers
      /\ call[c].expected \subseteq WantedPorts
      /\ call[c].stopped \subseteq PortNumbers /\ call[c].removals \subseteq PortNumbers
  BY Zenon DEF Calls, ListenerKeys
<1>2. /\ a \in SUBSET ListenerKeys /\ e \in SUBSET WantedPorts
      /\ t \in SUBSET PortNumbers /\ m \in SUBSET PortNumbers
  BY <1>1
<1>3. Compare(c, l, LB(c).listeners[l.Port]) \in
         {[call[c] EXCEPT !.actual = a, !.expected = e, !.stopped = t],
          [call[c] EXCEPT !.actual = a, !.removals = m]}
  BY DEF Compare
<1> HIDE DEF a, e, t, m
<1>4. SameCall([call[c] EXCEPT !.actual = a, !.expected = e, !.stopped = t], call[c])
  BY <1>2, SyncTypes, Zenon
<1>5. SameCall([call[c] EXCEPT !.actual = a, !.removals = m], call[c])
  BY <1>2, SyncTypes, Zenon
<1> QED BY <1>3, <1>4, <1>5

\* The form that the requests of ensureLBListeners share.
ListenerRequest(c, name, accepted, p, l, next) ==
    /\ p \in PortNumbers
    /\ accepted => l \in Listeners
    /\ SameCall(next, call[c])
    /\ Request(c, name, accepted, SetListener(c, p, l), next)

LEMMA ListenerRequests ==
    ASSUME Good, NEW c \in Callers,
           StartStopped(c) \/ DeleteListener(c) \/ CreateListener(c) \/ StartCreated(c)
    PROVE  \E name, accepted, p, l, next :
               ListenerRequest(c, name, accepted, p, l, next)
<1>1. call[c] \in Calls /\ Located(call[c]) /\ At(c, "listeners")
  BY Zenon DEF Good, GoodCalls, StartStopped, DeleteListener, CreateListener, StartCreated, Diffed
<1>2. ASSUME NEW p \in PortNumbers
      PROVE  LB(c).listeners[p] # NoListener =>
                [LB(c).listeners[p] EXCEPT !.Status = "running"] \in Listeners
  <2>1. LB(c).listeners[p] \in Listeners
    BY <1>1 DEF At, Located, LB, Good, LBTypes
  <2> QED BY <2>1 DEF Listeners
<1>3. /\ call[c].stopped \subseteq PortNumbers /\ call[c].removals \subseteq PortNumbers
      /\ call[c].created \subseteq PortNumbers /\ call[c].expected \subseteq WantedPorts
  BY <1>1, Zenon DEF Calls
<1>4. CASE StartStopped(c)
  <2>1. PICK p \in call[c].stopped :
           Request(c, "StartListener", LB(c).listeners[p] # NoListener, Started(c, p),
                   [call[c] EXCEPT !.stopped = call[c].stopped \ {p}])
    BY <1>4, Zenon DEF StartStopped
  <2>2. SameCall([call[c] EXCEPT !.stopped = call[c].stopped \ {p}], call[c])
    BY <1>1, <1>3, SyncTypes, Zenon
  <2>3. ListenerRequest(c, "StartListener", LB(c).listeners[p] # NoListener, p,
                        [LB(c).listeners[p] EXCEPT !.Status = "running"],
                        [call[c] EXCEPT !.stopped = call[c].stopped \ {p}])
    BY <1>2, <1>3, <2>1, <2>2 DEF ListenerRequest, Started
  <2> QED BY <2>3
<1>5. CASE DeleteListener(c)
  <2>1. PICK p \in call[c].removals :
           Request(c, "DeleteListener", LB(c).listeners[p] # NoListener,
                   SetListener(c, p, NoListener),
                   [call[c] EXCEPT !.removals = call[c].removals \ {p}])
    BY <1>5, Zenon DEF DeleteListener
  <2>2. SameCall([call[c] EXCEPT !.removals = call[c].removals \ {p}], call[c])
    BY <1>1, <1>3, SyncTypes, Zenon
  <2>3. ListenerRequest(c, "DeleteListener", LB(c).listeners[p] # NoListener, p, NoListener,
                        [call[c] EXCEPT !.removals = call[c].removals \ {p}])
    BY <1>3, <2>1, <2>2 DEF ListenerRequest, Listeners
  <2> QED BY <2>3
<1>6. CASE CreateListener(c)
  <2>1. PICK sp \in call[c].expected :
           Request(c, "CreateListener", LB(c).listeners[sp.Port] = NoListener,
                   SetListener(c, sp.Port, [Protocol |-> sp.Protocol, Status |-> "stopped",
                                            BackendServerPort |-> sp.NodePort]),
                   [call[c] EXCEPT !.expected = call[c].expected \ {sp},
                                   !.created = {sp.Port}])
    BY <1>6, Zenon DEF CreateListener
  <2>2. sp.Port \in PortNumbers /\ sp.NodePort \in NodePorts /\ sp.Protocol \in Protocols
    <3>1. sp \in WantedPorts /\ sp \in ServicePorts
      BY <1>3 DEF WantedPorts
    <3>2. sp.Protocol \in Protocols
      BY <3>1, LoadBalancerAssumption DEF ServicePorts
    <3> QED BY <3>1, <3>2 DEF PortNumbers, NodePorts
  <2>3. [Protocol |-> sp.Protocol, Status |-> "stopped",
         BackendServerPort |-> sp.NodePort] \in Listeners
    BY <2>2 DEF Listeners
  <2>4. SameCall([call[c] EXCEPT !.expected = call[c].expected \ {sp},
                                 !.created = {sp.Port}], call[c])
    BY <1>1, <1>3, <2>2, SyncTypes, Zenon
  <2>5. ListenerRequest(c, "CreateListener", LB(c).listeners[sp.Port] = NoListener, sp.Port,
                        [Protocol |-> sp.Protocol, Status |-> "stopped",
                         BackendServerPort |-> sp.NodePort],
                        [call[c] EXCEPT !.expected = call[c].expected \ {sp},
                                        !.created = {sp.Port}])
    BY <2>1, <2>2, <2>3, <2>4 DEF ListenerRequest
  <2> QED BY <2>5
<1>7. CASE StartCreated(c)
  <2>1. PICK p \in call[c].created :
           Request(c, "StartListener", LB(c).listeners[p] # NoListener, Started(c, p),
                   [call[c] EXCEPT !.created = {}])
    BY <1>7 DEF StartCreated
  <2>2. SameCall([call[c] EXCEPT !.created = {}], call[c])
    BY <1>1, SyncTypes, Zenon
  <2>3. ListenerRequest(c, "StartListener", LB(c).listeners[p] # NoListener, p,
                        [LB(c).listeners[p] EXCEPT !.Status = "running"],
                        [call[c] EXCEPT !.created = {}])
    BY <1>2, <1>3, <2>1, <2>2 DEF ListenerRequest, Started
  <2> QED BY <2>3
<1> QED BY <1>4, <1>5, <1>6, <1>7

LEMMA GoodInitially == Init => Good
BY InitialTypes, Zenon DEF Init, Good

LEMMA GoodStep == Good /\ [Next]_vars => Good'
<1> SUFFICES ASSUME Good, [Next]_vars PROVE Good'
  OBVIOUS
<1>0. \A c \in Callers : call[c] \in GoodCalls /\ call[c] \in Calls /\ Located(call[c])
  BY DEF Good, GoodCalls
<1>a. ASSUME NEW c \in Callers, NEW r \in GoodCalls, Becomes(c, r), UNCHANGED <<lbs, panicked>>
      PROVE  Good'
  BY <1>a, BecomesGood DEF Good
<1>b. ASSUME NEW c \in Callers, NEW ret \in Rets, Return(c, ret), UNCHANGED <<lbs, panicked>>
      PROVE  Good'
  BY <1>b, ReturnGood DEF Good
<1>c. ASSUME NEW c \in Callers, call[c].id \in LBIds PROVE LB(c) \in LBTypes
  BY <1>c DEF LB, Good
<1>d. ASSUME NEW c \in Callers, NEW pc \in Pcs, Goto(c, pc), UNCHANGED <<lbs, panicked>>,
             call[c].id \in LBIds
      PROVE  Good'
  <2> DEFINE r == [call[c] EXCEPT !.pc = pc]
  <2>1. r \in Calls /\ r.id = call[c].id
    BY <1>0, GotoType
  <2> HIDE DEF r
  <2>2. r \in GoodCalls
    BY <1>d, <2>1 DEF GoodCalls, Located
  <2> QED BY <1>a, <1>d, <2>2 DEF Goto, r
<1>1. ASSUME NEW c \in Callers, NEW op \in Ops, NEW s \in Services, NEW ns \in NodeLists,
             Start(c, op, s, ns)
      PROVE  Good'
  <2> DEFINE begin == [NoCall EXCEPT !.op = op, !.service = s, !.nodes = ns]
  <2>1. begin \in Calls /\ begin.op = op
    <3>1. NoCall \in Calls
      BY InitialTypes DEF GoodCalls
    <3> QED BY <3>1, Zenon DEF Calls
  <2> HIDE DEF begin
  <2>2. [begin EXCEPT !.pc = "list"] \in GoodCalls
    <3> DEFINE r == [begin EXCEPT !.pc = "list"]
    <3>1. r \in Calls /\ r.pc = "list"
      BY <2>1, GotoType, Zenon DEF Pcs
    <3> HIDE DEF r
    <3>2. r \in GoodCalls
      BY <3>1 DEF GoodCalls, Located
    <3> QED BY <3>2 DEF r
  <2>3. op = "Ensure" => [begin EXCEPT !.pc = "instances"] \in GoodCalls
    <3> DEFINE r == [begin EXCEPT !.pc = "instances"]
    <3>1. r \in Calls /\ r.pc = "instances" /\ r.op = op
      BY <2>1, GotoType, Zenon DEF Pcs
    <3> HIDE DEF r
    <3>2. op = "Ensure" => r \in GoodCalls
      BY <3>1 DEF GoodCalls, Located
    <3> QED BY <3>2 DEF r
  <2>4. [begin EXCEPT !.pc = "done", !.ret = "error"] \in GoodCalls
    BY <2>1, ReturnType, Zenon DEF Rets
  <2> QED BY <1>1, <1>a, <2>2, <2>3, <2>4 DEF Start, begin
<1>2. ASSUME NEW c \in Callers, GetInstances(c) PROVE Good'
  <2> DEFINE found == getInstancesByNodeNames(Inventory, call[c].nodes)
             ids == {found.instances[k].InstanceId : k \in DOMAIN found.instances}
             next == IF call[c].op = "Ensure" THEN "list" ELSE "remove"
             r == [call[c] EXCEPT !.pc = next, !.instances = ids]
  <2>1. /\ \/ found.err = "nil" /\ Becomes(c, r)
           \/ Return(c, "error")
        /\ UNCHANGED <<lbs, panicked>>
    BY <1>2 DEF GetInstances
  <2>2. found.err = "nil" => ids \in SUBSET Ids
    BY FoundIds
  <2>3. next \in Pcs
    BY DEF Pcs
  <2>4. call[c].op # "Ensure" => call[c].id \in LBIds
    BY <1>0, <1>2 DEF Located, GetInstances, At
  <2>5. ASSUME found.err = "nil"
        PROVE  r \in Calls /\ r.pc = next /\ r.id = call[c].id /\ r.op = call[c].op
    <3>1. call[c] \in Calls /\ ids \in SUBSET Ids
      BY <1>0, <2>2, <2>5, SMTT(30)
    <3> HIDE DEF found, ids, next
    <3> QED BY <2>3, <3>1, Zenon DEF Calls
  <2> HIDE DEF r, found
  <2>6. found.err = "nil" => r \in GoodCalls
    BY <2>4, <2>5 DEF GoodCalls, Located
  <2> QED BY <1>a, <1>b, <2>1, <2>6, Zenon DEF Rets
<1>3. ASSUME NEW c \in Callers, DescribeLoadBalancers(c) PROVE Good'
  <2>1. ASSUME NEW id \in LBIds PROVE [call[c] EXCEPT !.pc = "describe", !.id = id] \in GoodCalls
    <3> DEFINE r == [call[c] EXCEPT !.pc = "describe", !.id = id]
    <3>1. r \in Calls /\ r.id \in LBIds
      BY <1>0, DescribeType, Zenon
    <3> HIDE DEF r
    <3>2. r \in GoodCalls
      BY <3>1 DEF GoodCalls, Located
    <3> QED BY <3>2 DEF r
  <2>2. CASE GetFails(c) \/ GetFindsNone(c)
    BY <1>3, <2>2, GetFailsGood, Zenon DEF DescribeLoadBalancers, Good
  <2>3. CASE \E id \in LBIds : Becomes(c, [call[c] EXCEPT !.pc = "describe", !.id = id])
    BY <1>3, <1>a, <2>1, <2>3, Zenon DEF DescribeLoadBalancers
  <2> QED BY <1>3, <2>2, <2>3, Zenon DEF DescribeLoadBalancers
<1>4. ASSUME NEW c \in Callers, DescribeLoadBalancerAttribute(c) PROVE Good'
  <2>1. call[c].id \in LBIds
    BY <1>0, <1>4 DEF DescribeLoadBalancerAttribute, At, Located
  <2>2. CASE GetFails(c)
    BY <1>4, <2>2, GetFailsGood DEF DescribeLoadBalancerAttribute, Good
  <2>3. CASE Goto(c, "delete")
    BY <1>4, <1>d, <2>1, <2>3 DEF DescribeLoadBalancerAttribute, Pcs
  <2>4. CASE ~GetFails(c) /\ ~Goto(c, "delete")
    <3> DEFINE a == {[Port |-> p, Protocol |-> LB(c).listeners[p].Protocol] :
                        p \in {q \in PortNumbers : LB(c).listeners[q] # NoListener}}
               e == {p \in call[c].service.Ports : p.NodePort # 0}
               b == LB(c).backends
               r == [call[c] EXCEPT !.pc = "listeners", !.actual = a, !.servers = b,
                                    !.expected = e]
    <3>1. Becomes(c, r) /\ UNCHANGED <<lbs, panicked>>
      BY <1>4, <2>4 DEF DescribeLoadBalancerAttribute
    <3>2. LB(c) \in LBTypes
      BY <1>c, <2>1
    <3>3. a \in SUBSET ListenerKeys
      <4> SUFFICES ASSUME NEW p \in PortNumbers, LB(c).listeners[p] # NoListener
                   PROVE  LB(c).listeners[p].Protocol \in Protocols
        BY DEF ListenerKeys
      <4>1. LB(c).listeners[p] \in Listeners
        BY <3>2 DEF LBTypes
      <4> QED BY <4>1 DEF Listeners
    <3>4. b \in SUBSET Ids
      BY <3>2 DEF LBTypes
    <3>5. e \in SUBSET WantedPorts
      <4>1. call[c].service \in Services \cup {NoService}
        BY <1>0, Zenon DEF Calls
      <4> QED BY <4>1, PortsOK DEF WantedPorts
    <3> HIDE DEF a, b, e
    <3>6. r \in Calls /\ r.id = call[c].id
      <4>1. call[c] \in Calls
        BY <1>0
      <4> QED BY <3>3, <3>4, <3>5, <4>1, ZenonT(30) DEF Calls, Pcs, ListenerKeys
    <3> HIDE DEF r
    <3>7. r \in GoodCalls
      BY <2>1, <3>6 DEF GoodCalls, Located
    <3> QED BY <1>a, <3>1, <3>7
  <2> QED BY <2>2, <2>3, <2>4
<1>5. ASSUME NEW c \in Callers, CreateLoadBalancer(c) PROVE Good'
  <2> DEFINE r == [call[c] EXCEPT !.pc = "list", !.retry = Retries]
             New(id, l) == [lbs EXCEPT ![id] = NewLB(id, l)]
  <2>1. r \in Calls /\ r.pc = "list"
    <3>1. Retries \in 0..Retries
      BY DEF Retries
    <3> QED BY <1>0, <3>1, ListType, Zenon
  <2>2. ASSUME NEW id \in LBIds, NEW l \in BOOLEAN PROVE New(id, l) \in [LBIds -> LBTypes]
    <3>1. NewLB(id, l) \in LBTypes
      BY InitialTypes, Zenon DEF LBTypes, NewLB, Good
    <3> QED BY <3>1 DEF Good
  <2>3. /\ lbs' = lbs \/ \E id \in LBIds, l \in {TRUE, ~ListLag} : lbs' = New(id, l)
        /\ Becomes(c, r) \/ Return(c, "error")
        /\ panicked' = panicked
    BY <1>5, Zenon DEF CreateLoadBalancer, Unused
  <2> HIDE DEF r, New
  <2>4. r \in GoodCalls
    BY <2>1 DEF GoodCalls, Located
  <2>5. call' \in [Callers -> GoodCalls]
    BY <2>3, <2>4, BecomesGood, ReturnGood, Zenon DEF Rets
  <2>6. {TRUE, ~ListLag} \subseteq BOOLEAN
    OBVIOUS
  <2> QED BY <2>2, <2>3, <2>5, <2>6, Zenon DEF Good
<1>6. ASSUME NEW c \in Callers, DiffListener(c) PROVE Good'
  <2>1. PICK l \in call[c].actual : /\ Becomes(c, Compare(c, l, LB(c).listeners[l.Port]))
                                    /\ UNCHANGED <<lbs, panicked>>
    BY <1>6 DEF DiffListener
  <2>2. SameCall(Compare(c, l, LB(c).listeners[l.Port]), call[c])
    BY <1>0, CompareType, SMTT(30)
  <2> QED BY <1>0, <1>a, <2>1, <2>2, SameIsGood
<1>7. ASSUME NEW c \in Callers, AttributesFail(c) PROVE Good'
  BY <1>7, InitialTypes DEF AttributesFail, Panic, Good
<1>8. ASSUME NEW c \in Callers,
             StartStopped(c) \/ DeleteListener(c) \/ CreateListener(c) \/ StartCreated(c)
      PROVE  Good'
  <2>1. At(c, "listeners") /\ call[c].id \in LBIds
    BY <1>0, <1>8, Zenon DEF StartStopped, DeleteListener, CreateListener, StartCreated, Diffed,
                      At, Located
  <2>2. PICK name, accepted, p, l, next :
           ListenerRequest(c, name, accepted, p, l, next)
    BY <1>8, ListenerRequests
  <2>3. accepted => SetListener(c, p, l) \in LBTypes
    BY <1>c, <2>1, <2>2, LBUpdates DEF ListenerRequest, SetListener
  <2>4. next \in GoodCalls
    BY <1>0, <2>2, SameIsGood DEF ListenerRequest
  <2> QED BY <2>1, <2>2, <2>3, <2>4, RequestGood DEF ListenerRequest
<1>9. ASSUME NEW c \in Callers, ListenersSynced(c) PROVE Good'
  <2>1. call[c].id \in LBIds
    BY <1>0, <1>9 DEF ListenersSynced, Diffed, At, Located
  <2> QED BY <1>9, <1>d, <2>1 DEF ListenersSynced, Pcs
<1>10. ASSUME NEW c \in Callers, At(c, "remove") \/ At(c, "add") \/ At(c, "delete")
       PROVE  call[c].id \in LBIds /\ LB(c) \in LBTypes
  BY <1>0, <1>10, <1>c DEF At, Located
<1>11. ASSUME NEW c \in Callers, RemoveBackends(c) PROVE Good'
  <2> DEFINE removals == call[c].servers \ call[c].instances
             r == [call[c] EXCEPT !.pc = "add"]
  <2>1. call[c].id \in LBIds /\ LB(c) \in LBTypes
    BY <1>10, <1>11 DEF RemoveBackends
  <2>2. r \in Calls /\ r.id = call[c].id
    BY <1>0, GotoType, Zenon DEF Pcs
  <2>3. r \in GoodCalls
    <3> HIDE DEF r
    <3> QED BY <2>1, <2>2 DEF GoodCalls, Located
  <2>4. LB(c).backends \ removals \in SUBSET Ids
    BY <2>1 DEF LBTypes
  <2>5. [LB(c) EXCEPT !.backends = LB(c).backends \ removals] \in LBTypes
    BY <2>1, <2>4, LBUpdates
  <2> QED BY <1>11, <1>d, <2>1, <2>3, <2>5, RequestGood, Zenon DEF RemoveBackends, Pcs
<1>12. ASSUME NEW c \in Callers, AddBackends(c) PROVE Good'
  <2> DEFINE additions == call[c].instances \ call[c].servers
  <2>1. call[c].id \in LBIds /\ LB(c) \in LBTypes
    BY <1>10, <1>12 DEF AddBackends
  <2>2. [call[c] EXCEPT !.pc = "done", !.ret = "ok"] \in GoodCalls
    BY <1>0, ReturnType, Zenon DEF Rets
  <2>3. LB(c).backends \cup additions \in SUBSET Ids
    BY <1>0, <2>1, Zenon DEF LBTypes, Calls
  <2>4. [LB(c) EXCEPT !.backends = LB(c).backends \cup additions] \in LBTypes
    BY <2>1, <2>3, LBUpdates
  <2> QED BY <1>12, <1>b, <2>1, <2>2, <2>4, RequestGood, Zenon DEF AddBackends, Rets
<1>13. ASSUME NEW c \in Callers, DeleteLoadBalancer(c) PROVE Good'
  <2>1. [call[c] EXCEPT !.pc = "done", !.ret = "ok"] \in GoodCalls
    BY <1>0, ReturnType, Zenon DEF Rets
  <2>2. call[c].id \in LBIds
    BY <1>0, <1>13 DEF DeleteLoadBalancer, At, Located
  <2>3. [NoLB EXCEPT !.late = LB(c).late] \in LBTypes
    BY <2>2, InitialTypes, Zenon DEF LB, Good, LBTypes
  <2> QED BY <1>13, <2>1, <2>2, <2>3, RequestGood, Zenon DEF DeleteLoadBalancer
<1>14. ASSUME NEW c \in Callers, Collect(c) PROVE Good'
  BY <1>14, <1>a, InitialTypes DEF Collect
<1>15. ASSUME NEW id \in LBIds, Appear(id) PROVE Good'
  <2>1. [lbs[id] EXCEPT !.listed = TRUE] \in LBTypes
    BY Zenon DEF Good, LBTypes
  <2>2. lbs' = [lbs EXCEPT ![id] = [lbs[id] EXCEPT !.listed = TRUE]]
    BY <1>15 DEF Appear, Good
  <2>3. lbs' \in [LBIds -> LBTypes]
    BY <2>1, <2>2 DEF Good
  <2> QED BY <1>15, <2>3 DEF Appear, Good
<1>16. ASSUME Crash \/ Restart PROVE Good'
  BY <1>16, InitialTypes, Zenon DEF Crash, Restart, Good
<1>17. ASSUME UNCHANGED vars PROVE Good'
  BY <1>17 DEF vars, Good
<1> QED BY <1>1, <1>2, <1>3, <1>4, <1>5, <1>6, <1>7, <1>8, <1>9,
           <1>11, <1>12, <1>13, <1>14, <1>15, <1>16, <1>17 DEF Next, Step

(* The load balancers and the provider calls keep their types.             *)
THEOREM TypeCorrect == Spec => []TypeOK
<1>1. Good => TypeOK
  BY DEF Good, GoodCalls, TypeOK
<1> QED BY <1>1, GoodInitially, GoodStep, PTL DEF Spec

-----------------------------------------------------------------------------
(***************************************************************************)
(* One load balancer per service, when calls for the service never overlap *)
(* and every new load balancer was listed at once (Prompt).  A call        *)
(* creates one only after a listing without any, and nobody else creates   *)
(* one meanwhile.                                                          *)
(***************************************************************************)
NoneIn(b) == \A id \in LBIds : ~b[id].exists

StoreOK(b) == /\ \A id \in LBIds : b[id].exists => b[id].listed
              /\ \A id, jd \in LBIds : b[id].exists /\ b[jd].exists => id = jd

CallOK(k, b) ==
    /\ k.pc # "done" => k.ret = ""
    /\ k.pc = "create" => k.op = "Ensure" /\ NoneIn(b)
    /\ k.pc \in {"instances", "listeners", "remove", "add"} => k.op # "Delete"
    /\ k.op = "Delete" /\ k.ret = "ok" => NoneIn(b)

SerialOK == /\ \A c, d \in Callers : c # d => At(c, "idle") \/ At(d, "idle")
            /\ StoreOK(lbs)
            /\ \A c \in Callers : CallOK(call[c], lbs)

LEMMA BecomesSerial ==
    ASSUME Good, SerialOK, NEW c \in Callers, NEW r, Becomes(c, r), CallOK(r, lbs'),
           StoreOK(lbs'), At(c, "idle") => \A d \in Callers : At(d, "idle")
    PROVE  SerialOK'
<1>1. \A d \in Callers : d # c => At(d, "idle") /\ call'[d] = call[d]
  BY DEF SerialOK, Becomes, Good
<1>2. call'[c] = r
  BY DEF Becomes, Good
<1>3. ASSUME NEW d \in Callers PROVE CallOK(call'[d], lbs')
  <2>1. CASE d = c
    BY <1>2, <2>1
  <2>2. CASE d # c
    <3>1. call'[d].pc = "idle" /\ call'[d].ret = ""
      BY <1>1, <2>2, Zenon DEF SerialOK, CallOK, At
    <3> QED BY <3>1, Zenon DEF CallOK
  <2> QED BY <2>1, <2>2
<1>4. \A d \in Callers : d # c => At(d, "idle")'
  BY <1>1 DEF At
<1> QED BY <1>3, <1>4, Zenon DEF SerialOK, StoreOK, CallOK, NoneIn, At

LEMMA ErrorSerial ==
    ASSUME Good, SerialOK, NEW c \in Callers, ~At(c, "idle"), NEW ret \in Rets, Return(c, ret),
           StoreOK(lbs'), ret # "ok" \/ call[c].op # "Delete" \/ NoneIn(lbs')
    PROVE  SerialOK'
<1> DEFINE r == [call[c] EXCEPT !.pc = "done", !.ret = ret]
<1>1. r.pc = "done" /\ r.op = call[c].op /\ r.ret = ret
  BY ReturnType, Zenon DEF Good, GoodCalls
<1> HIDE DEF r
<1>2. CallOK(r, lbs')
  BY <1>1 DEF CallOK
<1> QED BY <1>2, BecomesSerial DEF Return, r

\* A request that keeps the load balancer keeps what is known of the store.
LEMMA RequestSerial ==
    ASSUME Good, SerialOK, NEW c \in Callers, ~At(c, "idle"), call[c].id \in LBIds,
           NEW name, NEW accepted, NEW newLB, NEW next, CallOK(next, lbs),
           next.op # "Delete", next.pc # "create",
           accepted => newLB.exists = LB(c).exists /\ newLB.listed = LB(c).listed,
           Request(c, name, accepted, newLB, next)
    PROVE  SerialOK'
<1> DEFINE after == [lbs EXCEPT ![call[c].id] = newLB]
<1>1. accepted => \A id \in LBIds : /\ after[id].exists = lbs[id].exists
                                    /\ after[id].listed = lbs[id].listed
  BY DEF Good, LB
<1>2. /\ \/ accepted /\ lbs' = after
         \/ lbs' = lbs
      /\ Becomes(c, next) \/ Return(c, "error")
  BY SMTT(30) DEF Request
<1>3. \A id \in LBIds : lbs'[id].exists = lbs[id].exists /\ lbs'[id].listed = lbs[id].listed
  BY <1>1, <1>2, Zenon
<1>4. StoreOK(lbs')
  BY <1>3, SMTT(30) DEF SerialOK, StoreOK
<1>5. CallOK(next, lbs')
  BY Zenon DEF CallOK
<1> QED BY <1>2, <1>4, <1>5, BecomesSerial, ErrorSerial, Zenon DEF Rets

LEMMA SerialInitially == Init => SerialOK
<1>1. NoCall.pc = "idle" /\ NoCall.ret = "" /\ ~NoLB.exists
  BY DEF NoCall, NoLB
<1>2. \A b : CallOK(NoCall, b)
  BY <1>1, Zenon DEF CallOK
<1>3. StoreOK([id \in LBIds |-> NoLB])
  BY <1>1, Zenon DEF StoreOK
<1> QED BY <1>1, <1>2, <1>3, Zenon DEF Init, SerialOK, At

LEMMA GetFailsSerial ==
    ASSUME Good, SerialOK, NEW c \in Callers, At(c, "list") \/ At(c, "describe"),
           UNCHANGED lbs, GetFails(c) \/ (GetFindsNone(c) /\ NoneIn(lbs))
    PROVE  SerialOK'
<1>0. /\ call[c] \in Calls /\ ~At(c, "idle") /\ call[c].ret = "" /\ StoreOK(lbs')
      /\ StoreOK(lbs)
  BY Zenon DEF Good, GoodCalls, SerialOK, CallOK, At
<1>1. ASSUME NEW err \in BOOLEAN, PollAgain(c, err) PROVE SerialOK'
  <2>1. CASE call[c].retry > 1
    <3> DEFINE r == [call[c] EXCEPT !.pc = "list", !.retry = call[c].retry - 1]
    <3>0. call[c].retry \in 0..Retries
      BY <1>0, Zenon DEF Calls
    <3>1. call[c].retry - 1 \in 0..Retries
      BY <2>1, <3>0 DEF Retries
    <3>2. r.pc = "list" /\ r.ret = ""
      BY <1>0, <3>1, ListType, Zenon
    <3>3. Becomes(c, r)
      BY <1>1, <2>1 DEF PollAgain
    <3> HIDE DEF r
    <3>4. CallOK(r, lbs')
      BY <3>2, Zenon DEF CallOK
    <3> QED BY <1>0, <3>3, <3>4, BecomesSerial, Zenon
  <2>2. CASE ~(call[c].retry > 1)
    BY <1>0, <1>1, <2>2, ErrorSerial, Zenon DEF PollAgain, Rets
  <2> QED BY <2>1, <2>2
<1>2. ASSUME Goto(c, "create"), call[c].op = "Ensure", NoneIn(lbs) PROVE SerialOK'
  <2> DEFINE r == [call[c] EXCEPT !.pc = "create"]
  <2>1. r.pc = "create" /\ r.op = "Ensure" /\ r.ret = ""
    BY <1>0, <1>2, GotoType, Zenon DEF Pcs
  <2> HIDE DEF r
  <2>2. CallOK(r, lbs')
    BY <1>2, <2>1, Zenon DEF CallOK
  <2> QED BY <1>0, <1>2, <2>2, BecomesSerial, Zenon DEF Goto, r
<1>3. CASE GetFails(c)
  BY <1>0, <1>1, <1>3, ErrorSerial, ZenonT(30) DEF GetFails, Rets
<1>4. CASE GetFindsNone(c) /\ NoneIn(lbs)
  <2>1. ASSUME Return(c, "error") \/ Return(c, "ok") PROVE SerialOK'
    BY <1>0, <1>4, <2>1, ErrorSerial, Zenon DEF Rets
  <2> QED BY <1>1, <1>2, <1>4, <2>1, Zenon DEF GetFindsNone
<1> QED BY <1>3, <1>4

\* A load balancer that was listed late is never forgotten.
LEMMA RequestLate ==
    ASSUME Good, NEW c \in Callers, call[c].id \in LBIds, NEW name, NEW accepted,
           NEW newLB, NEW next, accepted => newLB.late = LB(c).late,
           Request(c, name, accepted, newLB, next), Prompt'
    PROVE  Prompt
<1> DEFINE after == [lbs EXCEPT ![call[c].id] = newLB]
<1>1. accepted => \A id \in LBIds : after[id].late = lbs[id].late
  BY DEF Good, LB
<1>2. (accepted /\ lbs' = after) \/ lbs' = lbs
  BY DEF Request
<1> QED BY <1>1, <1>2, Zenon DEF Prompt

LEMMA LateStays ==
    ASSUME Good, [Next]_vars, Prompt'
    PROVE  Prompt
<1>0. \A c \in Callers : /\ call[c] \in Calls /\ Located(call[c])
                         /\ (call[c].id \in LBIds => LB(c) \in LBTypes)
  BY DEF Good, GoodCalls, LB
<1>1. ASSUME NEW c \in Callers, CreateLoadBalancer(c) PROVE Prompt
  <2>1. CASE lbs' = lbs
    BY <2>1 DEF Prompt
  <2>2. ASSUME NEW id \in LBIds, NEW l \in {TRUE, ~ListLag},
               lbs' = [lbs EXCEPT ![id] = NewLB(id, l)]
        PROVE  Prompt
    <3>1. lbs[id].late => NewLB(id, l).late
      BY Zenon DEF NewLB, NoLB
    <3> QED BY <2>2, <3>1 DEF Prompt, Good
  <2> QED BY <1>1, <2>1, <2>2, Zenon DEF CreateLoadBalancer, Unused
<1>2. ASSUME NEW c \in Callers,
             StartStopped(c) \/ DeleteListener(c) \/ CreateListener(c) \/ StartCreated(c)
      PROVE  Prompt
  <2>1. PICK name, accepted, p, l, next :
           ListenerRequest(c, name, accepted, p, l, next)
    BY <1>2, ListenerRequests
  <2>2. call[c].id \in LBIds
    BY <1>0, <1>2, Zenon DEF StartStopped, DeleteListener, CreateListener, StartCreated, Diffed,
                      At, Located
  <2>3. accepted => SetListener(c, p, l).late = LB(c).late
    BY <1>0, <2>1, <2>2, LBUpdates DEF ListenerRequest, SetListener
  <2> QED BY <2>1, <2>2, <2>3, RequestLate DEF ListenerRequest
<1>3. ASSUME NEW c \in Callers, RemoveBackends(c) \/ AddBackends(c) PROVE Prompt
  <2>1. call[c].id \in LBIds /\ LB(c) \in LBTypes /\ call[c] \in Calls
    BY <1>0, <1>3, Zenon DEF RemoveBackends, AddBackends, At, Located
  <2>2. \A b \in SUBSET Ids : [LB(c) EXCEPT !.backends = b].late = LB(c).late
    BY <2>1, LBUpdates
  <2>3. /\ LB(c).backends \ (call[c].servers \ call[c].instances) \in SUBSET Ids
        /\ LB(c).backends \cup (call[c].instances \ call[c].servers) \in SUBSET Ids
    BY <2>1, Zenon DEF LBTypes, Calls
  <2>4. CASE lbs' = lbs
    BY <2>4 DEF Prompt
  <2> QED BY <1>3, <2>1, <2>2, <2>3, <2>4, RequestLate, Zenon DEF RemoveBackends, AddBackends
<1>4. ASSUME NEW c \in Callers, DeleteLoadBalancer(c) PROVE Prompt
  <2>1. call[c].id \in LBIds
    BY <1>0, <1>4 DEF DeleteLoadBalancer, At, Located
  <2>2. [NoLB EXCEPT !.late = LB(c).late].late = LB(c).late
    BY DEF NoLB
  <2> QED BY <1>4, <2>1, <2>2, RequestLate, Zenon DEF DeleteLoadBalancer
<1>5. ASSUME NEW id \in LBIds, Appear(id) PROVE Prompt
  <2>1. \A jd \in LBIds : lbs'[jd].late = lbs[jd].late
    BY <1>5 DEF Appear, Good, LBTypes
  <2> QED BY <2>1 DEF Prompt
<1>6. ASSUME UNCHANGED lbs PROVE Prompt
  BY <1>6 DEF Prompt
<1> QED BY <1>1, <1>2, <1>3, <1>4, <1>5, <1>6, Zenon
        DEF Next, Step, Start, GetInstances, DescribeLoadBalancers,
            DescribeLoadBalancerAttribute, DiffListener, AttributesFail, Panic,
            ListenersSynced, Collect, Crash, Restart, vars

LEMMA PromptStep ==
    ASSUME Serial, Good, SerialOK, [Next]_vars, Prompt'
    PROVE  SerialOK'
<1>0. \A c \in Callers : /\ call[c] \in Calls /\ Located(call[c]) /\ CallOK(call[c], lbs)
                         /\ (call[c].id \in LBIds => LB(c) \in LBTypes)
  BY DEF Good, GoodCalls, SerialOK, LB
<1>a. StoreOK(lbs)
  BY DEF SerialOK
<1>b. ASSUME NEW c \in Callers, NEW pc \in Pcs \ {"create", "done"}, call[c].op # "Delete",
             ~At(c, "done"), ~At(c, "idle"), Goto(c, pc), UNCHANGED lbs
      PROVE  SerialOK'
  <2> DEFINE r == [call[c] EXCEPT !.pc = pc]
  <2>1. r.pc = pc /\ r.op = call[c].op /\ r.ret = call[c].ret
    BY <1>0, GotoType
  <2> HIDE DEF r
  <2>2. r.ret = ""
    BY <1>0, <1>b, <2>1, Zenon DEF CallOK, At
  <2>3. CallOK(r, lbs')
    BY <1>b, <2>1, <2>2, Zenon DEF CallOK
  <2> QED BY <1>a, <1>b, <2>3, BecomesSerial DEF Goto, r
<1>1. ASSUME NEW c \in Callers, NEW op \in Ops, NEW s \in Services, NEW ns \in NodeLists,
             Start(c, op, s, ns)
      PROVE  SerialOK'
  <2> DEFINE begin == [NoCall EXCEPT !.op = op, !.service = s, !.nodes = ns]
  <2>1. begin \in Calls /\ begin.op = op /\ begin.ret = ""
    <3>1. NoCall \in Calls /\ NoCall.ret = ""
      BY InitialTypes, Zenon DEF GoodCalls, NoCall
    <3> QED BY <3>1, ZenonT(30) DEF Calls
  <2>2. lbs' = lbs /\ \A d \in Callers : At(d, "idle")
    BY <1>1 DEF Start
  <2> HIDE DEF begin
  <2>3. CallOK([begin EXCEPT !.pc = "list"], lbs)
    <3> DEFINE r == [begin EXCEPT !.pc = "list"]
    <3>1. r.pc = "list" /\ r.ret = ""
      BY <2>1, GotoType, ZenonT(30) DEF Pcs
    <3> HIDE DEF r
    <3>2. CallOK(r, lbs)
      BY <3>1, Zenon DEF CallOK
    <3> QED BY <3>2 DEF r
  <2>4. op = "Ensure" => CallOK([begin EXCEPT !.pc = "instances"], lbs)
    <3> DEFINE r == [begin EXCEPT !.pc = "instances"]
    <3>1. r.pc = "instances" /\ r.ret = "" /\ r.op = op
      BY <2>1, GotoType, ZenonT(30) DEF Pcs
    <3> HIDE DEF r
    <3>2. op = "Ensure" => CallOK(r, lbs)
      BY <3>1, Zenon DEF CallOK
    <3> QED BY <3>2 DEF r
  <2>5. CallOK([begin EXCEPT !.pc = "done", !.ret = "error"], lbs)
    <3> DEFINE r == [begin EXCEPT !.pc = "done", !.ret = "error"]
    <3>1. r.pc = "done" /\ r.ret = "error"
      BY <2>1, ReturnType, Zenon DEF Rets
    <3> HIDE DEF r
    <3>2. CallOK(r, lbs)
      BY <3>1 DEF CallOK
    <3> QED BY <3>2 DEF r
  <2> QED BY <1>1, <1>a, <2>2, <2>3, <2>4, <2>5, BecomesSerial DEF Start, begin
<1>2. ASSUME NEW c \in Callers, GetInstances(c) PROVE SerialOK'
  <2> DEFINE found == getInstancesByNodeNames(Inventory, call[c].nodes)
             ids == {found.instances[k].InstanceId : k \in DOMAIN found.instances}
             next == IF call[c].op = "Ensure" THEN "list" ELSE "remove"
             r == [call[c] EXCEPT !.pc = next, !.instances = ids]
  <2>1. (Becomes(c, r) \/ Return(c, "error")) /\ lbs' = lbs /\ At(c, "instances")
    BY <1>2 DEF GetInstances
  <2>2. r.pc = next /\ r.op = call[c].op /\ r.ret = call[c].ret
    <3> HIDE DEF found, ids, next
    <3> QED BY <1>0, Zenon DEF Calls
  <2> HIDE DEF r, ids, found
  <2>3. r.op # "Delete" /\ r.ret = ""
    BY <1>0, <2>1, <2>2, Zenon DEF CallOK, At
  <2>4. CallOK(r, lbs')
    BY <2>2, <2>3, Zenon DEF CallOK
  <2>5. ~At(c, "idle")
    BY <2>1 DEF At
  <2> QED BY <1>a, <2>1, <2>4, <2>5, BecomesSerial, ErrorSerial, Zenon DEF Rets
<1>3. ASSUME NEW c \in Callers, DescribeLoadBalancers(c) PROVE SerialOK'
  <2>1. At(c, "list") /\ lbs' = lbs /\ ~At(c, "idle") /\ call[c].ret = ""
    BY <1>0, <1>3, Zenon DEF DescribeLoadBalancers, At, CallOK
  <2>2. ASSUME NEW id \in LBIds, Becomes(c, [call[c] EXCEPT !.pc = "describe", !.id = id])
        PROVE  SerialOK'
    <3> DEFINE r == [call[c] EXCEPT !.pc = "describe", !.id = id]
    <3>1. r.pc = "describe" /\ r.ret = call[c].ret
      BY <1>0, DescribeType, Zenon
    <3> HIDE DEF r
    <3>2. CallOK(r, lbs')
      BY <2>1, <3>1, Zenon DEF CallOK
    <3> QED BY <1>a, <2>1, <2>2, <3>2, BecomesSerial, Zenon DEF r
  <2>3. (\A id \in LBIds : ~(lbs[id].exists /\ lbs[id].listed)) => NoneIn(lbs)
    BY <1>a DEF StoreOK, NoneIn
  <2> QED BY <1>3, <2>1, <2>2, <2>3, GetFailsSerial, Zenon DEF DescribeLoadBalancers
<1>4. ASSUME NEW c \in Callers, DescribeLoadBalancerAttribute(c) PROVE SerialOK'
  <2>1. At(c, "describe") /\ lbs' = lbs /\ ~At(c, "idle") /\ call[c].ret = ""
    BY <1>0, <1>4, Zenon DEF DescribeLoadBalancerAttribute, At, CallOK
  <2>2. CASE GetFails(c)
    BY <2>1, <2>2, GetFailsSerial, Zenon
  <2>3. CASE Goto(c, "delete")
    <3> DEFINE r == [call[c] EXCEPT !.pc = "delete"]
    <3>1. r.pc = "delete" /\ r.ret = ""
      BY <1>0, <2>1, GotoType, Zenon DEF Pcs
    <3> HIDE DEF r
    <3>2. CallOK(r, lbs')
      BY <3>1, Zenon DEF CallOK
    <3> QED BY <1>a, <2>1, <2>3, <3>2, BecomesSerial, Zenon DEF Goto, r
  <2>4. CASE ~GetFails(c) /\ ~Goto(c, "delete")
    <3> DEFINE a == {[Port |-> p, Protocol |-> LB(c).listeners[p].Protocol] :
                        p \in {q \in PortNumbers : LB(c).listeners[q] # NoListener}}
               e == {p \in call[c].service.Ports : p.NodePort # 0}
               b == LB(c).backends
               r == [call[c] EXCEPT !.pc = "listeners", !.actual = a, !.servers = b,
                                    !.expected = e]
    <3>1. Becomes(c, r) /\ call[c].op # "Delete"
      BY <1>4, <2>4 DEF DescribeLoadBalancerAttribute
    <3>2. r.pc = "listeners" /\ r.op = call[c].op /\ r.ret = call[c].ret
      <4> HIDE DEF a, b, e
      <4> QED BY <1>0, Zenon DEF Calls
    <3> HIDE DEF r
    <3>3. CallOK(r, lbs')
      BY <2>1, <3>1, <3>2, Zenon DEF CallOK
    <3> QED BY <1>a, <2>1, <3>1, <3>3, BecomesSerial, Zenon
  <2> QED BY <2>2, <2>3, <2>4
<1>5. ASSUME NEW c \in Callers, CreateLoadBalancer(c) PROVE SerialOK'
  <2> DEFINE r == [call[c] EXCEPT !.pc = "list", !.retry = Retries]
             New(id) == [lbs EXCEPT ![id] = NewLB(id, TRUE)]
  <2>1. At(c, "create") /\ ~At(c, "idle") /\ call[c].ret = "" /\ NoneIn(lbs)
    BY <1>0, <1>5, Zenon DEF CreateLoadBalancer, At, CallOK
  <2>2. r.pc = "list" /\ r.ret = ""
    <3>1. Retries \in 0..Retries
      BY DEF Retries
    <3> QED BY <1>0, <2>1, <3>1, ListType, Zenon
  <2>3. /\ lbs' = lbs \/ \E id \in LBIds : lbs' = New(id)
        /\ Becomes(c, r) \/ Return(c, "error")
    <3>1. /\ lbs' = lbs \/ \E id \in LBIds, l \in {TRUE, ~ListLag} :
                              lbs' = [lbs EXCEPT ![id] = NewLB(id, l)]
          /\ Becomes(c, r) \/ Return(c, "error")
      BY <1>5, Zenon DEF CreateLoadBalancer, Unused
    <3>2. ASSUME NEW id \in LBIds, NEW l \in {TRUE, ~ListLag},
                 lbs' = [lbs EXCEPT ![id] = NewLB(id, l)]
          PROVE  l = TRUE
      <4>1. ~l => lbs'[id].late
        BY <3>2, Zenon DEF NewLB, NoLB, Good
      <4> QED BY <4>1 DEF Prompt
    <3> QED BY <3>1, <3>2, Zenon
  <2>4. ASSUME NEW id \in LBIds PROVE StoreOK(New(id))
    <3>1. NewLB(id, TRUE).exists /\ NewLB(id, TRUE).listed
      BY DEF NewLB, NoLB
    <3>2. New(id)[id].listed /\ \A jd \in LBIds : jd # id => ~New(id)[jd].exists
      BY <2>1, <3>1, Zenon DEF Good, NoneIn
    <3> HIDE DEF New
    <3> QED BY <3>2 DEF StoreOK
  <2> HIDE DEF r, New
  <2>5. StoreOK(lbs')
    BY <1>a, <2>3, <2>4
  <2>6. CallOK(r, lbs')
    BY <2>2, Zenon DEF CallOK
  <2> QED BY <2>1, <2>3, <2>5, <2>6, BecomesSerial, ErrorSerial, Zenon DEF Rets
<1>6. ASSUME NEW c \in Callers, At(c, "listeners"), NEW r, SameCall(r, call[c])
      PROVE  /\ CallOK(r, lbs) /\ r.op # "Delete" /\ r.pc # "create"
             /\ call[c].id \in LBIds /\ ~At(c, "idle")
  BY <1>0, <1>6, ZenonT(30) DEF SameCall, CallOK, At, Located
<1>7. ASSUME NEW c \in Callers, DiffListener(c) PROVE SerialOK'
  <2>1. PICK l \in call[c].actual : /\ Becomes(c, Compare(c, l, LB(c).listeners[l.Port]))
                                    /\ lbs' = lbs /\ At(c, "listeners")
    BY <1>7, SMTT(30) DEF DiffListener
  <2>2. SameCall(Compare(c, l, LB(c).listeners[l.Port]), call[c])
    BY <1>0, <2>1, CompareType
  <2> QED BY <1>6, <1>a, <2>1, <2>2, BecomesSerial, SMTT(30)
<1>8. ASSUME NEW c \in Callers, AttributesFail(c) \/ Crash PROVE SerialOK'
  <2>1. call' = [d \in Callers |-> NoCall] /\ lbs' = lbs
    BY <1>8 DEF AttributesFail, Panic, Crash
  <2>2. NoCall.pc = "idle" /\ NoCall.ret = ""
    BY DEF NoCall
  <2>3. \A d \in Callers : call'[d] = NoCall
    BY <2>1, SMTT(30)
  <2> QED BY <1>a, <2>1, <2>2, <2>3, Zenon DEF SerialOK, StoreOK, CallOK, At
<1>9. ASSUME NEW c \in Callers,
             StartStopped(c) \/ DeleteListener(c) \/ CreateListener(c) \/ StartCreated(c)
      PROVE  SerialOK'
  <2>1. At(c, "listeners")
    BY <1>9, Zenon DEF StartStopped, DeleteListener, CreateListener, StartCreated, Diffed
  <2>2. PICK name, accepted, p, l, next :
           ListenerRequest(c, name, accepted, p, l, next)
    BY <1>9, ListenerRequests
  <2>3. /\ CallOK(next, lbs) /\ next.op # "Delete" /\ next.pc # "create"
        /\ call[c].id \in LBIds /\ ~At(c, "idle")
    BY <1>6, <2>1, <2>2 DEF ListenerRequest
  <2>4. accepted => /\ SetListener(c, p, l).exists = LB(c).exists
                    /\ SetListener(c, p, l).listed = LB(c).listed
    BY <1>0, <2>2, <2>3, LBUpdates DEF ListenerRequest, SetListener
  <2> QED BY <2>2, <2>3, <2>4, RequestSerial DEF ListenerRequest
<1>10. ASSUME NEW c \in Callers, ListenersSynced(c) PROVE SerialOK'
  <2>1. At(c, "listeners") /\ lbs' = lbs
    BY <1>10 DEF ListenersSynced, Diffed
  <2>2. call[c].op # "Delete" /\ ~At(c, "done") /\ ~At(c, "idle")
    BY <1>0, <2>1, Zenon DEF CallOK, At
  <2> QED BY <1>10, <1>b, <2>1, <2>2 DEF ListenersSynced, Pcs
<1>11. ASSUME NEW c \in Callers, At(c, "remove") \/ At(c, "add")
       PROVE  /\ call[c].id \in LBIds /\ LB(c) \in LBTypes /\ call[c].op # "Delete"
              /\ call[c].ret = "" /\ ~At(c, "idle") /\ ~At(c, "done")
  BY <1>0, <1>11, Zenon DEF At, Located, CallOK
<1>12. ASSUME NEW c \in Callers, RemoveBackends(c) PROVE SerialOK'
  <2> DEFINE new == LB(c).backends \ (call[c].servers \ call[c].instances)
             r == [call[c] EXCEPT !.pc = "add"]
             b == [LB(c) EXCEPT !.backends = new]
  <2>1. At(c, "remove")
    BY <1>12, SMTT(30) DEF RemoveBackends
  <2>2. r.pc = "add" /\ r.op = call[c].op /\ r.ret = call[c].ret
    BY <1>0, GotoType, SMTT(30) DEF Pcs
  <2>3. new \in SUBSET Ids
    BY <1>11, <2>1, Zenon DEF LBTypes
  <2>4. b.exists = LB(c).exists /\ b.listed = LB(c).listed
    BY <1>11, <2>1, <2>3, LBUpdates, Zenon
  <2>5. \/ Goto(c, "add") /\ UNCHANGED lbs
        \/ Request(c, "RemoveBackendServers", TRUE, b, r)
    BY <1>12, Zenon DEF RemoveBackends
  <2> HIDE DEF r, b
  <2>6. CallOK(r, lbs)
    BY <1>11, <2>1, <2>2, Zenon DEF CallOK
  <2>7. CASE Goto(c, "add") /\ UNCHANGED lbs
    BY <1>11, <1>b, <2>1, <2>7, Zenon DEF Pcs
  <2>8. CASE Request(c, "RemoveBackendServers", TRUE, b, r)
    BY <1>11, <2>1, <2>2, <2>4, <2>6, <2>8, RequestSerial, Zenon
  <2> QED BY <2>5, <2>7, <2>8, Zenon
<1>13. ASSUME NEW c \in Callers, AddBackends(c) PROVE SerialOK'
  <2> DEFINE new == LB(c).backends \cup (call[c].instances \ call[c].servers)
             r == [call[c] EXCEPT !.pc = "done", !.ret = "ok"]
             b == [LB(c) EXCEPT !.backends = new]
  <2>1. At(c, "add")
    BY <1>13 DEF AddBackends
  <2>2. r.pc = "done" /\ r.op = call[c].op
    BY <1>0, ReturnType, Zenon DEF Rets
  <2>3. new \in SUBSET Ids
    BY <1>0, <1>11, <2>1, Zenon DEF LBTypes, Calls
  <2>4. b.exists = LB(c).exists /\ b.listed = LB(c).listed
    BY <1>11, <2>1, <2>3, LBUpdates, Zenon
  <2>5. \/ Return(c, "ok") /\ UNCHANGED lbs
        \/ Request(c, "AddBackendServers", TRUE, b, r)
    BY <1>13, Zenon DEF AddBackends
  <2> HIDE DEF r, b
  <2>6. CallOK(r, lbs)
    BY <1>11, <2>1, <2>2, Zenon DEF CallOK
  <2>7. CASE Return(c, "ok") /\ UNCHANGED lbs
    BY <1>11, <1>a, <2>1, <2>7, ErrorSerial, Zenon DEF Rets
  <2>8. CASE Request(c, "AddBackendServers", TRUE, b, r)
    BY <1>11, <2>1, <2>2, <2>4, <2>6, <2>8, RequestSerial, Zenon
  <2> QED BY <2>5, <2>7, <2>8, Zenon
<1>14. ASSUME NEW c \in Callers, DeleteLoadBalancer(c) PROVE SerialOK'
  <2> DEFINE r == [call[c] EXCEPT !.pc = "done", !.ret = "ok"]
             after == [lbs EXCEPT ![call[c].id] = [NoLB EXCEPT !.late = LB(c).late]]
  <2>1. At(c, "delete") /\ call[c].id \in LBIds /\ ~At(c, "idle")
    BY <1>0, <1>14 DEF DeleteLoadBalancer, At, Located
  <2>2. r.pc = "done"
    BY <1>0, ReturnType, Zenon DEF Rets
  <2>3. \/ LB(c).exists /\ lbs' = after /\ Becomes(c, r)
        \/ (lbs' = lbs \/ (LB(c).exists /\ lbs' = after)) /\ Return(c, "error")
    BY <1>14 DEF DeleteLoadBalancer, Request
  <2>4. LB(c).exists => NoneIn(after)
    <3>1. ~[NoLB EXCEPT !.late = LB(c).late].exists
      BY DEF NoLB
    <3> QED BY <1>a, <2>1, <3>1 DEF StoreOK, NoneIn, LB, Good
  <2> HIDE DEF r, after
  <2>5. LB(c).exists => StoreOK(after) /\ CallOK(r, after)
    BY <2>2, <2>4 DEF StoreOK, NoneIn, CallOK
  <2> QED BY <1>a, <2>1, <2>3, <2>5, BecomesSerial, ErrorSerial, Zenon DEF Rets
<1>15. ASSUME NEW c \in Callers, Collect(c) PROVE SerialOK'
  <2>1. NoCall.pc = "idle" /\ NoCall.ret = ""
    BY DEF NoCall
  <2>2. CallOK(NoCall, lbs)
    BY <2>1, Zenon DEF CallOK
  <2>3. Becomes(c, NoCall) /\ lbs' = lbs /\ ~At(c, "idle")
    BY <1>15 DEF Collect, At
  <2> QED BY <1>a, <2>2, <2>3, BecomesSerial
<1>16. ASSUME NEW id \in LBIds, Appear(id) PROVE FALSE
  BY <1>16, <1>a DEF Appear, StoreOK
<1>17. ASSUME UNCHANGED <<lbs, call>> PROVE SerialOK'
  BY <1>17, Zenon DEF SerialOK, StoreOK, CallOK, NoneIn, At
<1> QED BY <1>1, <1>2, <1>3, <1>4, <1>5, <1>7, <1>8, <1>9, <1>10, <1>12, <1>13, <1>14, <1>15,
           <1>16, <1>17 DEF Next, Step, Restart, vars, Crash

LEMMA SerialStep ==
    ASSUME Serial
    PROVE  Good /\ (Prompt => SerialOK) /\ [Next]_vars => (Prompt => SerialOK)'
BY PromptStep, LateStays

(* There is never a second load balancer for the service when its calls do *)
(* not overlap and no listing has been late, whatever requests fail or     *)
(* lose their answer and wherever the controller dies.                     *)
THEOREM OneLoadBalancerHolds ==
    ASSUME Serial
    PROVE  Spec => []OneLoadBalancer
<1>1. (Prompt => SerialOK) => OneLoadBalancer
  BY DEF SerialOK, StoreOK, OneLoadBalancer
<1> QED BY <1>1, GoodInitially, GoodStep, SerialInitially, SerialStep, PTL DEF Spec

(* Under the same conditions EnsureLoadBalancerDeleted returns nil only    *)
(* when no load balancer of the service is left.                           *)
THEOREM DeletedMeansGoneHolds ==
    ASSUME Serial
    PROVE  Spec => []DeletedMeansGone
<1>1. (Prompt => SerialOK) => DeletedMeansGone
  BY Zenon DEF SerialOK, CallOK, NoneIn, DeletedMeansGone
<1> QED BY <1>1, GoodInitially, GoodStep, SerialInitially, SerialStep, PTL DEF Spec
=============================================================================
