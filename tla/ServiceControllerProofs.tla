----------------------- MODULE ServiceControllerProofs -----------------------
(***************************************************************************)
(* Theorems about module ServiceController, for any versions of the        *)
(* service, nodes, faults and number of changes.  The calls of the worker  *)
(* and of the node sync overlap, but only the worker creates and deletes   *)
(* load balancers, so what it knows of them stays true.                    *)
(***************************************************************************)
EXTENDS ServiceController, LoadBalancerProofs

Live == {id \in LBIds : lbs[id].exists}

\* Every load balancer is listed, and there is at most one.
CloudOK == /\ \A id \in LBIds : ~lbs[id].late /\ (lbs[id].exists => lbs[id].listed)
           /\ \A i, j \in Live : i = j

\* Who makes which calls.
Role(c, k) ==
    /\ c = worker => k.op # "Update"
    /\ c = sync => k.op \in {"none", "Update"}
    /\ k.op = "Update" => k.service \in Services /\ wantsLoadBalancer(k.service)

\* What a call k knows of the load balancers E that exist.
Consistent(k, E) ==
    /\ k.pc = "idle" <=> k.op = "none"
    /\ k.pc # "done" => k.ret = ""
    /\ k.pc = "done" => k.ret \in {"ok", "error"}
    /\ k.pc \in {"instances", "listeners", "remove", "add"} => k.op # "Delete"
    /\ k.pc = "create" => k.op = "Ensure" /\ E = {}
    /\ k.pc = "delete" => k.op = "Delete"
    /\ k.retry > 0 => k.op = "Ensure" /\ E # {}
    /\ k.pc \in {"describe", "listeners", "remove", "add", "delete"} /\ k.op # "Update" =>
          k.id \in E
    /\ k.ret = "ok" /\ k.op = "Ensure" => E # {}
    /\ k.ret = "ok" /\ k.op = "Delete" => E = {}

CallsOK == \A c \in Callers : Role(c, call[c]) /\ Consistent(call[c], Live)

Memories == [cache : Services \cup {Absent}, retrying : BOOLEAN, queued : BOOLEAN,
             knownHosts : NodeLists \cup {<<>>},
             servicesToUpdate : {s \in Services : wantsLoadBalancer(s)} \cup {Absent}]

\* Unless its key is queued, the worker is at the service as it is now, or
\* has been.
Current ==
    IF At(worker, "idle")
    THEN /\ wantsLoadBalancer(object) => Live # {} /\ memory.cache = object
         /\ object # Absent /\ ~wantsLoadBalancer(object) => Live = {}
         /\ object = Absent => ~wantsLoadBalancer(memory.cache)
    ELSE /\ wantsLoadBalancer(object) => call[worker].op = "Ensure" /\ memory.cache = object
         /\ ~wantsLoadBalancer(object) => call[worker].op = "Delete"
         /\ object = Absent => wantsLoadBalancer(call[worker].service)

\* The inductive invariant.
ControllerInv ==
    /\ Good /\ CloudOK /\ CallsOK
    /\ object \in Services \cup {Absent} /\ nodes \in NodeLists
    /\ memory \in Memories /\ changes \in 0..Changes
    /\ panicked => memory.cache = Absent /\ \A c \in Callers : At(c, "idle")
    /\ ~panicked /\ ~memory.queued => Current

-----------------------------------------------------------------------------
\* The fields that count are the same: what is known stays known.
SameFields(r, k) ==
    r.op = k.op /\ r.service = k.service /\ r.retry = k.retry /\ r.id = k.id

\* A call goes on with its operation.
Carries(r, k) == r.op = k.op /\ r.service = k.service /\ r.pc # "idle"

\* What a step of a provider call does, unless it panics.
Progress(c) ==
    /\ UNCHANGED panicked /\ CloudOK'
    /\ call[c].op # "Update" \/ Live' = Live
    /\ \E r : Becomes(c, r) /\ Carries(r, call[c]) /\ Consistent(r, Live')

Consistency == Good /\ CloudOK /\ CallsOK

\* A step that changes nothing in the cloud.
LEMMA ReadProgress ==
    ASSUME CloudOK, NEW c \in Callers, UNCHANGED <<lbs, panicked>>,
           NEW r, Becomes(c, r), Carries(r, call[c]), Consistent(r, Live)
    PROVE  Progress(c)
<1>1. Live' = Live /\ CloudOK'
  BY DEF Live, CloudOK
<1> QED BY <1>1 DEF Progress

\* A call that runs may always return an error, as long as what it polls for
\* exists.
LEMMA ErrorConsistent ==
    ASSUME NEW k \in Calls, NEW E, Consistent(k, E), k.pc # "idle",
           NEW F, k.retry > 0 => F # {}
    PROVE  LET r == [k EXCEPT !.pc = "done", !.ret = "error"]
           IN  Carries(r, k) /\ Consistent(r, F)
<1> DEFINE r == [k EXCEPT !.pc = "done", !.ret = "error"]
<1>1. SameFields(r, k) /\ r.pc = "done" /\ r.ret = "error"
  BY Zenon DEF Calls, SameFields
<1> HIDE DEF r
<1>2. Carries(r, k) /\ Consistent(r, F)
  BY <1>1, Zenon DEF Carries, Consistent, SameFields
<1> QED BY <1>2 DEF r

LEMMA ErrorProgress ==
    ASSUME Consistency, NEW c \in Callers, ~At(c, "idle"), UNCHANGED <<lbs, panicked>>,
           Return(c, "error")
    PROVE  Progress(c)
<1> DEFINE r == [call[c] EXCEPT !.pc = "done", !.ret = "error"]
<1>1. call[c] \in Calls /\ Consistent(call[c], Live)
  BY DEF Consistency, Good, GoodCalls, CallsOK
<1>2. call[c].retry > 0 => Live # {}
  BY <1>1, Zenon DEF Consistent
<1>3. Carries(r, call[c]) /\ Consistent(r, Live)
  BY <1>1, <1>2, ErrorConsistent, Zenon DEF At
<1> HIDE DEF r
<1> QED BY <1>3, ReadProgress DEF Return, Consistency, r

\* A change of listeners or backends.
LEMMA KeepsLive ==
    ASSUME Good, CloudOK, NEW id \in LBIds, NEW b, lbs' = [lbs EXCEPT ![id] = b],
           b.exists = lbs[id].exists, b.listed = lbs[id].listed, b.late = lbs[id].late
    PROVE  CloudOK' /\ Live' = Live
<1>1. \A jd \in LBIds : /\ lbs'[jd].exists = lbs[jd].exists
                        /\ lbs'[jd].listed = lbs[jd].listed /\ lbs'[jd].late = lbs[jd].late
  BY DEF Good
<1>2. Live' = Live
  BY <1>1, SMTT(30) DEF Live
<1> QED BY <1>1, <1>2 DEF CloudOK

LEMMA RequestProgress ==
    ASSUME Consistency, NEW c \in Callers, ~At(c, "idle"), call[c].id \in LBIds,
           NEW name, NEW accepted \in BOOLEAN, NEW b, NEW next,
           Request(c, name, accepted, b, next),
           b.exists = LB(c).exists, b.listed = LB(c).listed, b.late = LB(c).late,
           Carries(next, call[c]), LB(c).exists => Consistent(next, Live)
    PROVE  Progress(c)
<1>1. CASE UNCHANGED <<lbs, panicked>> /\ Return(c, "error")
  BY <1>1, ErrorProgress
<1>2. ASSUME lbs' = [lbs EXCEPT ![call[c].id] = b], UNCHANGED panicked, LB(c).exists,
             Becomes(c, next) \/ Return(c, "error")
      PROVE  Progress(c)
  <2>1. CloudOK' /\ Live' = Live
    BY <1>2, KeepsLive, Zenon DEF Consistency, LB
  <2>2. CASE Becomes(c, next)
    BY <1>2, <2>1, <2>2 DEF Progress
  <2>3. CASE Return(c, "error")
    <3> DEFINE r == [call[c] EXCEPT !.pc = "done", !.ret = "error"]
    <3>1. call[c] \in Calls /\ Consistent(call[c], Live)
      BY DEF Consistency, Good, GoodCalls, CallsOK
    <3>2. call[c].retry > 0 => Live # {}
      BY <3>1, Zenon DEF Consistent
    <3>3. Carries(r, call[c]) /\ Consistent(r, Live)
      BY <3>1, <3>2, ErrorConsistent, Zenon DEF At
    <3> HIDE DEF r
    <3> QED BY <1>2, <2>1, <2>3, <3>3 DEF Progress, Return, r
  <2> QED BY <1>2, <2>2, <2>3, SMTT(30)
<1> QED BY <1>1, <1>2 DEF Request

-----------------------------------------------------------------------------
\* Within ensureLBListeners a call knows the same before and after a step.
LEMMA SameConsistent ==
    ASSUME NEW r, NEW k, NEW E, SameFields(r, k), r.pc = k.pc, r.ret = k.ret,
           Consistent(k, E), k.pc # "idle"
    PROVE  Carries(r, k) /\ Consistent(r, E)
BY Zenon DEF SameFields, Consistent, Carries

\* From one stage to the next, with the load balancer in hand.
LEMMA GotoConsistent ==
    ASSUME NEW k \in Calls, NEW E, Consistent(k, E),
           NEW pc \in {"describe", "listeners", "remove", "add", "delete", "instances"},
           k.pc \in {"describe", "listeners", "remove", "add"},
           pc = "delete" <=> k.op = "Delete"
    PROVE  LET r == [k EXCEPT !.pc = pc] IN Carries(r, k) /\ Consistent(r, E)
<1> DEFINE r == [k EXCEPT !.pc = pc]
<1>1. SameFields(r, k) /\ r.pc = pc /\ r.ret = k.ret
  BY Zenon DEF Calls, SameFields
<1> HIDE DEF r
<1>2. Carries(r, k) /\ Consistent(r, E)
  BY <1>1, Zenon DEF Carries, Consistent, SameFields
<1> QED BY <1>2 DEF r

LEMMA GetInstancesProgress ==
    ASSUME Consistency, NEW c \in Callers, GetInstances(c)
    PROVE  Progress(c)
<1> DEFINE k == call[c]
<1>1. k \in Calls /\ Consistent(k, Live) /\ k.pc = "instances" /\ UNCHANGED <<lbs, panicked>>
  BY DEF Consistency, Good, GoodCalls, CallsOK, GetInstances, At
<1>2. CASE Return(c, "error")
  BY <1>1, <1>2, ErrorProgress DEF At
<1>3. ASSUME NEW ids, NEW pc, pc = IF k.op = "Ensure" THEN "list" ELSE "remove",
             Becomes(c, [k EXCEPT !.pc = pc, !.instances = ids])
      PROVE  Progress(c)
  <2> DEFINE r == [k EXCEPT !.pc = pc, !.instances = ids]
  <2>1. SameFields(r, k) /\ r.pc = pc /\ r.ret = k.ret
    BY <1>1, Zenon DEF Calls, SameFields
  <2> HIDE DEF r
  <2>2. k.op = "Ensure" \/ k.op = "Update"
    BY <1>1, LoadBalancerAssumption, Zenon DEF Consistent, Calls
  <2>3. Carries(r, k) /\ Consistent(r, Live)
    BY <1>1, <1>3, <2>1, <2>2, Zenon DEF Carries, Consistent, SameFields
  <2> QED BY <1>1, <1>3, <2>3, ReadProgress DEF Consistency, r
<1> QED BY <1>2, <1>3, Zenon DEF GetInstances

\* While EnsureLoadBalancer polls, it only goes on or fails.
LEMMA PollProgress ==
    ASSUME Consistency, NEW c \in Callers, UNCHANGED <<lbs, panicked>>,
           call[c].pc \in {"list", "describe"}, Polling(c), PollAgain(c, TRUE)
    PROVE  Progress(c)
<1> DEFINE k == call[c]
<1>1. k \in Calls /\ Consistent(k, Live) /\ k.retry > 0
  BY DEF Consistency, Good, GoodCalls, CallsOK, Polling
<1>2. CASE Return(c, "error")
  BY <1>2, ErrorProgress DEF At
<1>3. CASE k.retry > 1 /\ Becomes(c, [k EXCEPT !.pc = "list", !.retry = k.retry - 1])
  <2> DEFINE r == [k EXCEPT !.pc = "list", !.retry = k.retry - 1]
  <2>1. /\ r.op = k.op /\ r.service = k.service /\ r.pc = "list" /\ r.ret = k.ret
        /\ r.retry = k.retry - 1
    BY <1>1, Zenon DEF Calls
  <2> HIDE DEF r
  <2>2. k.op = "Ensure" /\ Live # {} /\ k.ret = ""
    BY <1>1, Zenon DEF Consistent
  <2>3. Carries(r, k) /\ Consistent(r, Live)
    BY <2>1, <2>2, Zenon DEF Carries, Consistent
  <2> QED BY <1>3, <2>3, ReadProgress DEF Consistency, r
<1> QED BY <1>2, <1>3 DEF PollAgain

LEMMA GetFailsProgress ==
    ASSUME Consistency, NEW c \in Callers, UNCHANGED <<lbs, panicked>>,
           call[c].pc \in {"list", "describe"}, GetFails(c)
    PROVE  Progress(c)
<1>1. CASE Polling(c)
  BY <1>1, PollProgress, Zenon DEF GetFails
<1>2. CASE ~Polling(c)
  BY <1>2, ErrorProgress DEF GetFails, At
<1> QED BY <1>1, <1>2

LEMMA ListingProgress ==
    ASSUME Consistency, NEW c \in Callers, DescribeLoadBalancers(c)
    PROVE  Progress(c)
<1> DEFINE k == call[c]
<1>1. k \in Calls /\ Consistent(k, Live) /\ k.pc = "list" /\ UNCHANGED <<lbs, panicked>>
  BY Zenon DEF Consistency, Good, GoodCalls, CallsOK, DescribeLoadBalancers, At
<1>2. ASSUME NEW id \in LBIds, lbs[id].exists, Becomes(c, [k EXCEPT !.pc = "describe", !.id = id])
      PROVE  Progress(c)
  <2> DEFINE r == [k EXCEPT !.pc = "describe", !.id = id]
  <2>1. /\ r.op = k.op /\ r.service = k.service /\ r.pc = "describe" /\ r.id = id
        /\ r.retry = k.retry /\ r.ret = k.ret
    BY <1>1, Zenon DEF Calls
  <2> HIDE DEF r
  <2>2. id \in Live
    BY <1>2 DEF Live
  <2>3. Carries(r, k) /\ Consistent(r, Live)
    BY <1>1, <2>1, <2>2, Zenon DEF Carries, Consistent
  <2> QED BY <1>1, <1>2, <2>3, ReadProgress DEF Consistency, r
<1>3. ASSUME \A id \in LBIds : ~(lbs[id].exists /\ lbs[id].listed), GetFindsNone(c)
      PROVE  Progress(c)
  <2>1. Live = {}
    BY <1>3 DEF Consistency, CloudOK, Live
  <2>2. ~Polling(c)
    BY <1>1, <2>1, Zenon DEF Consistent, Polling
  <2>3. CASE k.op = "Ensure" /\ Goto(c, "create")
    <3> DEFINE r == [k EXCEPT !.pc = "create"]
    <3>1. SameFields(r, k) /\ r.pc = "create" /\ r.ret = k.ret
      BY <1>1, Zenon DEF Calls, SameFields
    <3> HIDE DEF r
    <3>2. Carries(r, k) /\ Consistent(r, Live)
      BY <1>1, <2>1, <2>3, <3>1, Zenon DEF Carries, Consistent, SameFields
    <3> QED BY <1>1, <2>3, <3>2, ReadProgress DEF Consistency, Goto, r
  <2>4. CASE k.op = "Update" /\ Return(c, "error")
    BY <1>1, <2>4, ErrorProgress DEF At
  <2>5. CASE k.op = "Delete" /\ Return(c, "ok")
    <3> DEFINE r == [k EXCEPT !.pc = "done", !.ret = "ok"]
    <3>1. SameFields(r, k) /\ r.pc = "done" /\ r.ret = "ok"
      BY <1>1, Zenon DEF Calls, SameFields
    <3> HIDE DEF r
    <3>2. Carries(r, k) /\ Consistent(r, Live)
      BY <1>1, <2>1, <2>5, <3>1, Zenon DEF Carries, Consistent, SameFields
    <3> QED BY <1>1, <2>5, <3>2, ReadProgress DEF Consistency, Return, r
  <2> QED BY <1>3, <2>2, <2>3, <2>4, <2>5, Zenon DEF GetFindsNone
<1>4. CASE GetFails(c)
  BY <1>1, <1>4, GetFailsProgress
<1> QED BY <1>2, <1>3, <1>4, Zenon DEF DescribeLoadBalancers

LEMMA AttributeProgress ==
    ASSUME Consistency, NEW c \in Callers, DescribeLoadBalancerAttribute(c)
    PROVE  Progress(c)
<1> DEFINE k == call[c]
<1>1. k \in Calls /\ Consistent(k, Live) /\ k.pc = "describe" /\ UNCHANGED <<lbs, panicked>>
  BY DEF Consistency, Good, GoodCalls, CallsOK, DescribeLoadBalancerAttribute, At
<1>2. CASE k.op = "Delete" /\ Goto(c, "delete")
  <2> DEFINE r == [k EXCEPT !.pc = "delete"]
  <2>1. Carries(r, k) /\ Consistent(r, Live)
    BY <1>1, <1>2, GotoConsistent, Zenon
  <2> HIDE DEF r
  <2> QED BY <1>1, <1>2, <2>1, ReadProgress DEF Consistency, Goto, r
<1>3. ASSUME NEW a, NEW b, NEW e, k.op # "Delete",
             Becomes(c, [k EXCEPT !.pc = "listeners", !.actual = a, !.servers = b, !.expected = e])
      PROVE  Progress(c)
  <2> DEFINE r == [k EXCEPT !.pc = "listeners", !.actual = a, !.servers = b, !.expected = e]
  <2>1. SameFields(r, k) /\ r.pc = "listeners" /\ r.ret = k.ret
    BY <1>1, Zenon DEF Calls, SameFields
  <2> HIDE DEF r
  <2>2. Carries(r, k) /\ Consistent(r, Live)
    BY <1>1, <1>3, <2>1, Zenon DEF Carries, Consistent, SameFields
  <2> QED BY <1>1, <1>3, <2>2, ReadProgress DEF Consistency, r
<1>4. CASE GetFails(c)
  BY <1>1, <1>4, GetFailsProgress
<1> QED BY <1>2, <1>3, <1>4, Zenon DEF DescribeLoadBalancerAttribute

\* The worker creates a load balancer when there is none, and it is listed.
LEMMA CreateProgress ==
    ASSUME Consistency, NEW c \in Callers, CreateLoadBalancer(c)
    PROVE  Progress(c)
<1> DEFINE k == call[c]
<1>1. /\ k \in Calls /\ Consistent(k, Live) /\ k.pc = "create" /\ UNCHANGED panicked
      /\ k.op = "Ensure" /\ Live = {} /\ k.ret = ""
  <2>1. k \in Calls /\ Consistent(k, Live) /\ k.pc = "create" /\ UNCHANGED panicked
    BY DEF Consistency, Good, GoodCalls, CallsOK, CreateLoadBalancer, At
  <2> QED BY <2>1, Zenon DEF Consistent
<1>2. CASE UNCHANGED lbs /\ Return(c, "error")
  BY <1>1, <1>2, ErrorProgress, Zenon DEF At
<1>3. ASSUME NEW id \in LBIds, lbs' = [lbs EXCEPT ![id] = NewLB(id, TRUE)],
             \/ Becomes(c, [k EXCEPT !.pc = "list", !.retry = Retries])
             \/ Return(c, "error")
      PROVE  Progress(c)
  <2>1. /\ NewLB(id, TRUE).exists /\ NewLB(id, TRUE).listed
        /\ NewLB(id, TRUE).late = (lbs[id].late \/ FALSE)
    BY DEF NewLB, NoLB
  <2>2. ~NewLB(id, TRUE).late
    BY <2>1, Zenon DEF Consistency, CloudOK
  <2>3. \A jd \in LBIds : lbs'[jd] = IF jd = id THEN NewLB(id, TRUE) ELSE lbs[jd]
    BY <1>3 DEF Consistency, Good
  <2>4. Live' = {id}
    BY <1>1, <2>1, <2>3, Zenon DEF Live
  <2>5. CloudOK'
    BY <2>1, <2>2, <2>3, <2>4, Zenon DEF Consistency, CloudOK
  <2>6. CASE Becomes(c, [k EXCEPT !.pc = "list", !.retry = Retries])
    <3> DEFINE r == [k EXCEPT !.pc = "list", !.retry = Retries]
    <3>1. /\ r.op = k.op /\ r.service = k.service /\ r.pc = "list" /\ r.ret = k.ret
          /\ r.retry = Retries
      BY <1>1, Zenon DEF Calls
    <3> HIDE DEF r
    <3>2. Carries(r, k) /\ Consistent(r, Live')
      BY <1>1, <2>4, <3>1, Zenon DEF Carries, Consistent
    <3> QED BY <1>1, <2>5, <2>6, <3>2, Zenon DEF Progress, r
  <2>7. CASE Return(c, "error")
    <3> DEFINE r == [k EXCEPT !.pc = "done", !.ret = "error"]
    <3>1. Carries(r, k) /\ Consistent(r, Live')
      BY <1>1, <2>4, ErrorConsistent, Zenon
    <3> HIDE DEF r
    <3> QED BY <1>1, <2>5, <2>7, <3>1, Zenon DEF Progress, Return, r
  <2> QED BY <1>3, <2>6, <2>7
<1>4. \A listed \in {TRUE, ~ListLag} : listed = TRUE
  BY ControllerAssumption, Zenon
<1>5. Unused \subseteq LBIds
  BY DEF Unused
<1> QED BY <1>2, <1>3, <1>4, <1>5, Zenon DEF CreateLoadBalancer

-----------------------------------------------------------------------------
LEMMA ListenersProgress ==
    ASSUME Consistency, NEW c \in Callers,
           \/ StartStopped(c) \/ DeleteListener(c) \/ CreateListener(c) \/ StartCreated(c)
    PROVE  Progress(c)
<1> DEFINE k == call[c]
<1>1. k.pc = "listeners"
  BY Zenon DEF StartStopped, DeleteListener, CreateListener, StartCreated, Diffed, At
<1>2. k \in Calls /\ Consistent(k, Live) /\ k.id \in LBIds
  BY <1>1 DEF Consistency, Good, GoodCalls, Located, CallsOK
<1>3. PICK name, accepted, p, l, next : ListenerRequest(c, name, accepted, p, l, next)
  BY ListenerRequests DEF Consistency
<1>4. LB(c) \in LBTypes
  BY <1>2 DEF LB, Consistency, Good
<1> DEFINE b == SetListener(c, p, l)
<1>5. b.exists = LB(c).exists /\ b.listed = LB(c).listed /\ b.late = LB(c).late
  BY <1>4, SMTT(30) DEF SetListener, LBTypes
<1>6. Carries(next, k) /\ Consistent(next, Live)
  BY <1>1, <1>2, <1>3, SameConsistent DEF ListenerRequest, SameCall, SameFields
<1> HIDE DEF b
<1>7. Request(c, name, (accepted = TRUE), b, next)
  BY <1>3, SMTT(30) DEF ListenerRequest, b, Request
<1> QED BY <1>1, <1>2, <1>5, <1>6, <1>7, RequestProgress, Zenon DEF At

LEMMA DiffProgress ==
    ASSUME Consistency, NEW c \in Callers, DiffListener(c)
    PROVE  Progress(c)
<1> DEFINE k == call[c]
<1>1. k \in Calls /\ Consistent(k, Live) /\ k.pc = "listeners"
  BY DEF Consistency, Good, GoodCalls, CallsOK, DiffListener, At
<1>2. PICK l \in k.actual : Becomes(c, Compare(c, l, LB(c).listeners[l.Port]))
  BY DEF DiffListener
<1> DEFINE r == Compare(c, l, LB(c).listeners[l.Port])
<1>3. SameCall(r, k)
  BY <1>1, CompareType
<1> HIDE DEF r
<1>4. Carries(r, k) /\ Consistent(r, Live)
  BY <1>1, <1>3, SameConsistent DEF SameCall, SameFields
<1> QED BY <1>2, <1>4, ReadProgress DEF Consistency, DiffListener, r

LEMMA StageProgress ==
    ASSUME Consistency, NEW c \in Callers, UNCHANGED <<lbs, panicked>>,
           call[c].pc \in {"listeners", "remove"}, NEW pc \in {"remove", "add", "instances"},
           Goto(c, pc)
    PROVE  Progress(c)
<1> DEFINE k == call[c]
           r == [k EXCEPT !.pc = pc]
<1>1. k \in Calls /\ Consistent(k, Live) /\ k.op # "Delete"
  BY Zenon DEF Consistency, Good, GoodCalls, CallsOK, Consistent
<1>2. Carries(r, k) /\ Consistent(r, Live)
  BY <1>1, GotoConsistent, Zenon
<1> HIDE DEF r
<1> QED BY <1>2, ReadProgress DEF Consistency, Goto, r

\* Success with a load balancer that exists.
LEMMA OkConsistent ==
    ASSUME NEW k \in Calls, NEW E, Consistent(k, E), k.pc = "add"
    PROVE  LET r == [k EXCEPT !.pc = "done", !.ret = "ok"]
           IN  Carries(r, k) /\ Consistent(r, E)
<1> DEFINE r == [k EXCEPT !.pc = "done", !.ret = "ok"]
<1>1. SameFields(r, k) /\ r.pc = "done" /\ r.ret = "ok"
  BY Zenon DEF Calls, SameFields
<1> HIDE DEF r
<1>2. k.op # "Delete" /\ (k.op = "Ensure" => E # {}) /\ k.op # "none"
  BY Zenon DEF Consistent
<1>3. Carries(r, k) /\ Consistent(r, E)
  BY <1>1, <1>2, Zenon DEF Carries, Consistent, SameFields
<1> QED BY <1>3 DEF r

LEMMA BackendsProgress ==
    ASSUME Consistency, NEW c \in Callers, RemoveBackends(c) \/ AddBackends(c)
    PROVE  Progress(c)
<1> DEFINE k == call[c]
<1>1. k \in Calls /\ Consistent(k, Live) /\ k.pc \in {"remove", "add"} /\ k.id \in LBIds
  BY Zenon DEF Consistency, Good, GoodCalls, Located, CallsOK, RemoveBackends, AddBackends, At
<1>2. LB(c) \in LBTypes
  BY <1>1 DEF LB, Consistency, Good
<1>3. ASSUME NEW s
      PROVE  LET b == [LB(c) EXCEPT !.backends = s]
             IN  b.exists = LB(c).exists /\ b.listed = LB(c).listed /\ b.late = LB(c).late
  BY <1>2 DEF LBTypes
<1>4. ASSUME NEW name, NEW s, NEW next,
             Request(c, name, TRUE, [LB(c) EXCEPT !.backends = s], next),
             Carries(next, k), Consistent(next, Live)
      PROVE  Progress(c)
  <2> DEFINE b == [LB(c) EXCEPT !.backends = s]
  <2>1. b.exists = LB(c).exists /\ b.listed = LB(c).listed /\ b.late = LB(c).late
    BY <1>3
  <2> HIDE DEF b
  <2> QED BY <1>1, <1>4, <2>1, RequestProgress, Zenon DEF At, b
<1>5. CASE RemoveBackends(c)
  <2> DEFINE r == [k EXCEPT !.pc = "add"]
             removals == k.servers \ k.instances
  <2>1. k.pc = "remove" /\ k.op # "Delete"
    BY <1>1, <1>5, Zenon DEF RemoveBackends, At, Consistent
  <2>2. Carries(r, k) /\ Consistent(r, Live)
    BY <1>1, <2>1, GotoConsistent, Zenon
  <2>3. \/ Goto(c, "add") /\ UNCHANGED <<lbs, panicked>>
        \/ Request(c, "RemoveBackendServers", TRUE,
                   [LB(c) EXCEPT !.backends = LB(c).backends \ removals], r)
    BY <1>5, Zenon DEF RemoveBackends
  <2> HIDE DEF r, removals
  <2> QED BY <1>4, <2>1, <2>2, <2>3, StageProgress, Zenon
<1>6. CASE AddBackends(c)
  <2> DEFINE r == [k EXCEPT !.pc = "done", !.ret = "ok"]
             additions == k.instances \ k.servers
  <2>1. k.pc = "add"
    BY <1>6 DEF AddBackends, At
  <2>2. Carries(r, k) /\ Consistent(r, Live)
    BY <1>1, <2>1, OkConsistent, Zenon
  <2>3. \/ Becomes(c, r) /\ UNCHANGED <<lbs, panicked>>
        \/ Request(c, "AddBackendServers", TRUE,
                   [LB(c) EXCEPT !.backends = LB(c).backends \cup additions], r)
    BY <1>6, Zenon DEF AddBackends, Return
  <2> HIDE DEF r, additions
  <2> QED BY <1>4, <2>2, <2>3, ReadProgress, Zenon DEF Consistency
<1> QED BY <1>5, <1>6

\* The worker deletes the only load balancer.
LEMMA DeleteProgress ==
    ASSUME Consistency, NEW c \in Callers, DeleteLoadBalancer(c)
    PROVE  Progress(c)
<1> DEFINE k == call[c]
           r == [k EXCEPT !.pc = "done", !.ret = "ok"]
           b == [NoLB EXCEPT !.late = LB(c).late]
<1>1. /\ k \in Calls /\ Consistent(k, Live) /\ k.pc = "delete" /\ k.id \in LBIds
  BY DEF Consistency, Good, GoodCalls, Located, CallsOK, DeleteLoadBalancer, At
<1>2. k.op = "Delete" /\ k.id \in Live /\ ~(k.retry > 0)
  BY <1>1, Zenon DEF Consistent
<1>3. SameFields(r, k) /\ r.pc = "done" /\ r.ret = "ok"
  BY <1>1, Zenon DEF Calls, SameFields
<1>4. Request(c, "DeleteLoadBalancer", TRUE, b, r)
  BY Zenon DEF DeleteLoadBalancer
<1>5. ~b.exists /\ ~b.listed /\ b.late = LB(c).late
  BY DEF NoLB
<1> HIDE DEF r, b
<1>6. CASE UNCHANGED <<lbs, panicked>> /\ Return(c, "error")
  BY <1>1, <1>6, ErrorProgress DEF At
<1>7. ASSUME lbs' = [lbs EXCEPT ![k.id] = b], UNCHANGED panicked,
             Becomes(c, r) \/ Return(c, "error")
      PROVE  Progress(c)
  <2>1. \A jd \in LBIds : lbs'[jd] = IF jd = k.id THEN b ELSE lbs[jd]
    BY <1>7 DEF Consistency, Good
  <2>2. Live' = {}
    BY <1>2, <1>5, <2>1, SMTT(30) DEF Live, Consistency, CloudOK
  <2>3. CloudOK'
    BY <1>1, <1>5, <2>1, <2>2 DEF CloudOK, Consistency, LB
  <2>4. CASE Becomes(c, r)
    <3>1. Carries(r, k) /\ Consistent(r, Live')
      BY <1>2, <1>3, <2>2 DEF Carries, Consistent, SameFields
    <3> QED BY <1>2, <1>7, <2>3, <2>4, <3>1 DEF Progress
  <2>5. CASE Return(c, "error")
    <3> DEFINE e == [k EXCEPT !.pc = "done", !.ret = "error"]
    <3>1. Carries(e, k) /\ Consistent(e, Live')
      BY <1>1, <1>2, ErrorConsistent, Zenon
    <3> HIDE DEF e
    <3> QED BY <1>2, <1>7, <2>3, <2>5, <3>1 DEF Progress, Return, e
  <2> QED BY <1>7, <2>4, <2>5
<1> QED BY <1>4, <1>6, <1>7 DEF Request

LEMMA StepProgress ==
    ASSUME Consistency, NEW c \in Callers, Step(c)
    PROVE  Panic \/ Progress(c)
<1>1. CASE ListenersSynced(c)
  BY <1>1, StageProgress DEF ListenersSynced, Diffed, At
<1>2. CASE AttributesFail(c)
  BY <1>2 DEF AttributesFail
<1> QED BY <1>1, <1>2, GetInstancesProgress, ListingProgress, AttributeProgress,
           CreateProgress, DiffProgress, ListenersProgress, BackendsProgress,
           DeleteProgress, SMTT(30) DEF Step

-----------------------------------------------------------------------------
\* The roles keep the calls apart: what the node sync knows does not depend
\* on which load balancers exist, and it creates and deletes none.
LEMMA CallsKeep ==
    ASSUME Consistency, NEW c \in Callers, NEW r, Becomes(c, r), Role(c, r),
           Consistent(r, Live'), c = sync => Live' = Live
    PROVE  CallsOK'
<1>1. \A d \in Callers : call'[d] = IF d = c THEN r ELSE call[d]
  BY DEF Becomes, Consistency, Good
<1>2. \A d \in Callers : Role(d, call'[d])
  BY <1>1 DEF Consistency, CallsOK
<1>3. ASSUME NEW d \in Callers, d # c PROVE Consistent(call[d], Live')
  <2>1. Consistent(call[d], Live) /\ Role(d, call[d])
    BY DEF Consistency, CallsOK
  <2>2. CASE d = sync
    BY <2>1, <2>2, Zenon DEF Consistent, Role
  <2>3. CASE d = worker
    BY <1>3, <2>1, <2>3, ControllerAssumption
  <2> QED BY <2>2, <2>3, ControllerAssumption
<1>4. \A d \in Callers : Consistent(call'[d], Live')
  BY <1>1, <1>3
<1> QED BY <1>2, <1>4 DEF CallsOK

LEMMA ProgressKeeps ==
    ASSUME Consistency, NEW c \in Callers, Progress(c)
    PROVE  CallsOK' /\ CloudOK' /\ UNCHANGED panicked
<1>1. PICK r : Becomes(c, r) /\ Carries(r, call[c]) /\ Consistent(r, Live')
  BY DEF Progress
<1>2. Role(c, call[c]) /\ Consistent(call[c], Live)
  BY SMTT(30) DEF Consistency, CallsOK
<1>3. Role(c, r)
  BY <1>1, <1>2, SMTT(30) DEF Role, Carries
<1>4. c = sync => Live' = Live
  <2>1. r.op # "none"
    BY <1>1, Zenon DEF Consistent, Carries
  <2> QED BY <1>1, <1>2, <2>1 DEF Role, Carries, Progress
<1>5. CallsOK'
  BY <1>1, <1>3, <1>4, CallsKeep
<1> QED BY <1>5 DEF Progress

\* A panic, or a kill, leaves the load balancers and no call.
LEMMA PanicKeeps ==
    ASSUME Consistency, Panic
    PROVE  Consistency' /\ (\A c \in Callers : At(c, "idle"))'
<1>1. \A c \in Callers : call'[c] = NoCall
  BY DEF Panic
<1>2. Live' = Live /\ CloudOK'
  BY SMTT(30) DEF Live, CloudOK, Panic, Consistency
<1>3. \A c \in Callers : Role(c, NoCall) /\ Consistent(NoCall, Live)
  BY DEF Role, Consistent, NoCall
<1>4. CallsOK'
  BY <1>1, <1>2, <1>3 DEF CallsOK
<1>5. Good'
  BY InitialTypes DEF Panic, Good, Consistency
<1>6. (\A c \in Callers : At(c, "idle"))'
  <2>1. NoCall.pc = "idle"
    BY DEF NoCall
  <2>2. \A c \in Callers : call'[c].pc = "idle"
    BY <1>1, <2>1
  <2> QED BY <2>2, SMTT(30) DEF At
<1> QED BY <1>2, <1>4, <1>5, <1>6 DEF Consistency

\* The invariant but for what the worker owes to the service.
Kept == /\ Consistency
        /\ object \in Services \cup {Absent} /\ nodes \in NodeLists
        /\ memory \in Memories /\ changes \in 0..Changes
        /\ panicked => memory.cache = Absent /\ \A c \in Callers : At(c, "idle")

LEMMA FreshMemory == /\ Fresh \in Memories /\ Fresh.cache = Absent
                     /\ [Fresh EXCEPT !.queued = TRUE] \in Memories
BY Zenon DEF Fresh, Memories

LEMMA InvIsKept == ControllerInv <=> Kept /\ (~panicked /\ ~memory.queued => Current)
BY DEF ControllerInv, Kept, Consistency

LEMMA ControllerInitially == SInit => ControllerInv
<1> SUFFICES ASSUME SInit PROVE ControllerInv
  OBVIOUS
<1>1. Good
  BY GoodInitially DEF SInit
<1>2. \A id \in LBIds : ~lbs[id].exists /\ ~lbs[id].late
  BY DEF SInit, Init, NoLB
<1>3. CloudOK
  BY <1>2 DEF CloudOK, Live
<1>4. \A c \in Callers : call[c] = NoCall
  BY SMTT(30) DEF SInit, Init
<1>5. \A c \in Callers : Role(c, NoCall) /\ Consistent(NoCall, Live)
  BY DEF Role, Consistent, NoCall
<1>6. CallsOK
  BY <1>4, <1>5 DEF CallsOK
<1>7. memory \in Memories /\ memory.queued
  <2>1. [Fresh EXCEPT !.queued = TRUE].queued
    BY DEF Fresh
  <2> QED BY <2>1, FreshMemory DEF SInit
<1>8. 0 \in 0..Changes
  BY ControllerAssumption
<1>9. ~panicked
  BY DEF SInit, Init
<1> QED BY <1>1, <1>3, <1>6, <1>7, <1>8, <1>9 DEF ControllerInv, SInit

\* While a call goes on, its operation and its service stay.
LEMMA CallStepKeeps ==
    ASSUME ControllerInv, NEW c \in Callers, CallStep(c)
    PROVE  ControllerInv'
<1>0. Consistency /\ Kept
  BY InvIsKept DEF Kept
<1>1. UNCHANGED <<object, nodes, changes>>
  BY DEF CallStep, cluster
<1>2. Good'
  BY <1>0, GoodStep DEF CallStep, Next, Consistency
<1>3. CASE Panic
  <2>1. Consistency' /\ (\A d \in Callers : At(d, "idle"))'
    BY <1>0, <1>3, PanicKeeps
  <2>2. panicked' /\ memory' = Fresh
    BY <1>3 DEF Panic, CallStep, Remember
  <2>3. Kept'
    BY <1>0, <1>1, <2>1, <2>2, FreshMemory DEF Kept
  <2> QED BY <2>2, <2>3, InvIsKept DEF ControllerInv, Kept, Consistency
<1>4. CASE Progress(c)
  <2>1. CallsOK' /\ CloudOK' /\ UNCHANGED panicked
    BY <1>0, <1>4, ProgressKeeps
  <2>2. PICK r : Becomes(c, r) /\ Carries(r, call[c]) /\ Consistent(r, Live')
    BY <1>4 DEF Progress
  <2>3. \A d \in Callers : call'[d] = IF d = c THEN r ELSE call[d]
    BY <1>0, <2>2 DEF Becomes, Consistency, Good
  <2>4. Role(c, call[c]) /\ Consistent(call[c], Live)
    BY <1>0 DEF Consistency, CallsOK
  <2>5. ~At(c, "idle")
    BY <2>2, <2>4, Zenon DEF At, Carries, Consistent
  <2>6. ~panicked /\ ~panicked' /\ memory' = memory
    BY <1>0, <2>1, <2>5 DEF Kept, CallStep, Remember
  <2>7. Consistency'
    BY <1>2, <2>1 DEF Consistency
  <2>8. ASSUME ~memory.queued PROVE Current'
    <3>1. Current
      BY <2>6, <2>8, SMTT(30) DEF ControllerInv
    <3>2. CASE c = worker
      <4>1. call'[worker] = r /\ ~At(worker, "idle") /\ ~At(worker, "idle")'
        BY <2>2, <2>3, <2>5, <3>2, SMTT(30) DEF At, Carries
      <4> QED BY <1>1, <2>2, <2>6, <3>1, <3>2, <4>1, SMTT(30) DEF Current, Carries
    <3>3. CASE c = sync
      <4>1. call'[worker] = call[worker]
        BY <2>3, <3>3, ControllerAssumption, SMTT(30) DEF sync, worker
      <4>2. Live' = Live
        <5>1. call[sync].op # "none"
          BY <2>4, <2>5, <3>3, Zenon DEF Consistent, At
        <5> QED BY <1>4, <2>4, <3>3, <5>1 DEF Role, Progress
      <4> QED BY <1>1, <2>6, <3>1, <4>1, <4>2 DEF Current, At
    <3> QED BY <3>2, <3>3, ControllerAssumption
  <2> QED BY <1>0, <1>1, <2>6, <2>7, <2>8 DEF ControllerInv, Kept, Consistency
<1> QED BY <1>0, <1>3, <1>4, StepProgress DEF CallStep

-----------------------------------------------------------------------------
\* The beginning and the end of a call.
LEMMA StartKeeps ==
    ASSUME Consistency, NEW c \in Callers, NEW op \in Ops, NEW s \in Services,
           NEW ns \in NodeLists, Start(c, op, s, ns),
           c = worker => op # "Update", c = sync => op = "Update",
           op = "Update" => wantsLoadBalancer(s)
    PROVE  /\ Consistency' /\ UNCHANGED <<lbs, panicked>> /\ ~panicked /\ Live' = Live
           /\ \E r : Becomes(c, r) /\ r.op = op /\ r.service = s /\ r.pc # "idle"
<1> DEFINE begin == [NoCall EXCEPT !.op = op, !.service = s, !.nodes = ns]
<1>1. /\ begin.op = op /\ begin.service = s /\ begin.retry = 0 /\ begin.ret = ""
      /\ begin \in Calls
  <2>1. NoCall \in Calls
    BY InitialTypes DEF GoodCalls
  <2> QED BY <2>1, Zenon DEF NoCall, Calls
<1>2. /\ \/ op # "Ensure" /\ Becomes(c, [begin EXCEPT !.pc = "list"])
         \/ op = "Ensure" /\ Becomes(c, [begin EXCEPT !.pc = "instances"])
         \/ op = "Ensure" /\ Becomes(c, [begin EXCEPT !.pc = "done", !.ret = "error"])
      /\ UNCHANGED <<lbs, panicked>> /\ ~panicked
  BY DEF Start
<1> HIDE DEF begin
<1>3. Good'
  BY GoodStep DEF Next, Consistency
<1>4. Live' = Live /\ CloudOK'
  BY <1>2, SMTT(30) DEF Live, CloudOK, Consistency
<1>5. op # "none"
  BY LoadBalancerAssumption
<1>6. PICK r : /\ Becomes(c, r) /\ r.op = op /\ r.service = s /\ r.retry = 0
               /\ \/ op # "Ensure" /\ r.pc = "list" /\ r.ret = ""
                  \/ op = "Ensure" /\ r.pc = "instances" /\ r.ret = ""
                  \/ op = "Ensure" /\ r.pc = "done" /\ r.ret = "error"
  <2>1. CASE op # "Ensure" /\ Becomes(c, [begin EXCEPT !.pc = "list"])
    <3> DEFINE r == [begin EXCEPT !.pc = "list"]
    <3>1. r.op = op /\ r.service = s /\ r.retry = 0 /\ r.pc = "list" /\ r.ret = ""
      BY <1>1, Zenon DEF Calls
    <3> HIDE DEF r
    <3> QED BY <2>1, <3>1, Zenon DEF r
  <2>2. CASE op = "Ensure" /\ Becomes(c, [begin EXCEPT !.pc = "instances"])
    <3> DEFINE r == [begin EXCEPT !.pc = "instances"]
    <3>1. r.op = op /\ r.service = s /\ r.retry = 0 /\ r.pc = "instances" /\ r.ret = ""
      BY <1>1, Zenon DEF Calls
    <3> HIDE DEF r
    <3> QED BY <2>2, <3>1, Zenon DEF r
  <2>3. CASE op = "Ensure" /\ Becomes(c, [begin EXCEPT !.pc = "done", !.ret = "error"])
    <3> DEFINE r == [begin EXCEPT !.pc = "done", !.ret = "error"]
    <3>1. r.op = op /\ r.service = s /\ r.retry = 0 /\ r.pc = "done" /\ r.ret = "error"
      BY <1>1, Zenon DEF Calls
    <3> HIDE DEF r
    <3> QED BY <2>3, <3>1, Zenon DEF r
  <2> QED BY <1>2, <2>1, <2>2, <2>3, Zenon
<1>7. Role(c, r)
  BY <1>6, Zenon DEF Role
<1>8. Consistent(r, Live')
  <2>1. ~(r.retry > 0)
    <3>1. r.retry = 0
      BY <1>6, Zenon
    <3>2. ~(0 > 0)
      OBVIOUS
    <3> QED BY <3>1, <3>2, Zenon
  <2>2. r.pc \in {"list", "instances", "done"} /\ r.op # "none"
    BY <1>5, <1>6, Zenon
  <2>3. r.ret # "ok" /\ (r.pc = "done" => r.ret = "error") /\ (r.pc # "done" => r.ret = "")
    BY <1>6, Zenon
  <2>4. r.pc = "instances" => r.op # "Delete"
    BY <1>6, Zenon
  <2> QED BY <2>1, <2>2, <2>3, <2>4, Zenon DEF Consistent
<1>9. CallsOK'
  BY <1>4, <1>6, <1>7, <1>8, CallsKeep, Zenon
<1> QED BY <1>2, <1>3, <1>4, <1>6, <1>9, Zenon DEF Consistency

LEMMA CollectKeeps ==
    ASSUME Consistency, NEW c \in Callers, Collect(c)
    PROVE  /\ Consistency' /\ UNCHANGED <<lbs, panicked>> /\ Live' = Live
           /\ Becomes(c, NoCall) /\ NoCall.pc = "idle"
<1>1. UNCHANGED <<lbs, panicked>> /\ Becomes(c, NoCall)
  BY DEF Collect
<1>2. Good'
  BY GoodStep DEF Next, Consistency
<1>3. Live' = Live /\ CloudOK'
  BY <1>1, SMTT(30) DEF Live, CloudOK, Consistency
<1>4. Role(c, NoCall) /\ Consistent(NoCall, Live')
  BY DEF Role, Consistent, NoCall
<1>5. CallsOK'
  BY <1>1, <1>3, <1>4, CallsKeep
<1> QED BY <1>1, <1>2, <1>3, <1>5, Zenon DEF Consistency, NoCall

\* Nothing happens in the provider.
LEMMA QuietKeeps ==
    ASSUME Consistency, UNCHANGED <<lbs, call, panicked>>
    PROVE  Consistency' /\ Live' = Live
<1>1. Good'
  BY DEF Good, Consistency
<1>2. Live' = Live /\ CloudOK'
  BY DEF Live, CloudOK, Consistency
<1>3. CallsOK'
  BY <1>2 DEF CallsOK, Consistency
<1> QED BY <1>1, <1>2, <1>3 DEF Consistency

\* The updates of what the controller remembers.
Remembers(m, cache, queued) == m \in Memories /\ m.cache = cache /\ m.queued = queued

LEMMA MemoryTypes ==
    ASSUME NEW m \in Memories, NEW s \in Services \cup {Absent}, NEW q \in BOOLEAN,
           NEW h \in NodeLists \cup {<<>>},
           NEW t \in {x \in Services : wantsLoadBalancer(x)} \cup {Absent}
    PROVE  /\ Remembers([m EXCEPT !.queued = q], m.cache, q)
           /\ Remembers([m EXCEPT !.queued = q, !.cache = s], s, q)
           /\ \A t0 \in BOOLEAN : Remembers([m EXCEPT !.queued = q, !.retrying = t0, !.cache = s], s, q)
           /\ Remembers([m EXCEPT !.servicesToUpdate = t], m.cache, m.queued)
           /\ Remembers([m EXCEPT !.servicesToUpdate = t, !.knownHosts = h], m.cache, m.queued)
           /\ Remembers([m EXCEPT !.knownHosts = h, !.servicesToUpdate = t], m.cache, m.queued)
BY ZenonT(30) DEF Memories, Remembers

\* A step that concerns neither the worker nor the service.
LEMMA OthersKeep ==
    ASSUME ControllerInv, Consistency', UNCHANGED <<object, changes>>, nodes' \in NodeLists,
           ~panicked, ~panicked', Remembers(memory', memory.cache, memory.queued),
           call'[worker] = call[worker], Live' = Live
    PROVE  ControllerInv'
<1>1. ~memory'.queued => Current'
  BY SMTT(30) DEF ControllerInv, Current, At, Remembers
<1> QED BY <1>1, SMTT(30) DEF ControllerInv, Consistency, Remembers

\* syncService begins.
LEMMA WorkerTakesKeeps ==
    ASSUME ControllerInv, WorkerTakes
    PROVE  ControllerInv'
<1> DEFINE service == IF object = Absent THEN memory.cache ELSE object
           op == IF wantsLoadBalancer(object) THEN "Ensure" ELSE "Delete"
<1>0. Consistency /\ memory \in Memories /\ memory.cache \in Services \cup {Absent}
  BY DEF ControllerInv, Consistency, Memories
<1>1. UNCHANGED <<object, nodes, changes>> /\ ~panicked /\ worker \in Callers
  BY ControllerAssumption DEF WorkerTakes, cluster
<1>2. ~wantsLoadBalancer(Absent) /\ Absent \notin Services
  BY ControllerAssumption DEF wantsLoadBalancer, Absent
<1>3. CASE Forgotten
  <2>1. UNCHANGED <<lbs, call, panicked>> /\ memory' = [memory EXCEPT !.queued = FALSE]
    BY <1>3 DEF WorkerTakes, Remember
  <2>2. Remembers(memory', memory.cache, FALSE)
    BY <1>0, <2>1, MemoryTypes, Zenon
  <2>3. Consistency' /\ ~panicked'
    BY <1>0, <1>1, <2>1, QuietKeeps
  <2>4. At(worker, "idle")'
    BY <2>1, SMTT(30) DEF At, WorkerTakes
  <2>5. Current'
    BY <1>1, <1>2, <1>3, <2>2, <2>4 DEF Current, Remembers, Forgotten
  <2> QED BY <1>1, <2>2, <2>3, <2>5 DEF ControllerInv, Consistency, Remembers
<1>4. CASE ~Forgotten
  <2>1. /\ Start(worker, op, service, nodes)
        /\ memory' = [memory EXCEPT !.queued = FALSE, !.cache = service]
    BY <1>4 DEF WorkerTakes, Remember
  <2>2. service \in Services
    BY <1>0, <1>2, <1>4 DEF Forgotten, ControllerInv
  <2>3. op \in Ops /\ op # "Update" /\ nodes \in NodeLists /\ worker # sync
    BY ControllerAssumption DEF ControllerInv, worker, sync
  <2>4. Remembers(memory', service, FALSE)
    BY <1>0, <2>1, <2>2, MemoryTypes, Zenon
  <2>5. wantsLoadBalancer(object) => op = "Ensure" /\ service = object
    BY <1>2
  <2>6. ~wantsLoadBalancer(object) => op = "Delete"
    OBVIOUS
  <2>7. object = Absent => wantsLoadBalancer(service)
    BY <1>4 DEF Forgotten
  <2> HIDE DEF op, service
  <2>8. Consistency' /\ ~panicked'
    BY <1>0, <1>1, <2>1, <2>2, <2>3, StartKeeps
  <2>9. PICK r : Becomes(worker, r) /\ r.op = op /\ r.service = service /\ r.pc # "idle"
    BY <1>0, <1>1, <2>1, <2>2, <2>3, StartKeeps
  <2>10. call'[worker] = r
    BY <1>0, <1>1, <2>9 DEF Becomes, Consistency, Good
  <2>11. Current'
    BY <1>1, <2>4, <2>5, <2>6, <2>7, <2>9, <2>10, SMTT(30) DEF Current, Remembers, At
  <2> QED BY <1>1, <2>4, <2>8, <2>11 DEF ControllerInv, Consistency, Remembers
<1> QED BY <1>3, <1>4

\* syncService ends: after a success the load balancer is as the service, as
\* it was when the worker took it, wants it.
LEMMA WorkerEndsKeeps ==
    ASSUME ControllerInv, WorkerEnds
    PROVE  ControllerInv'
<1> DEFINE k == call[worker]
           cache == IF Forgets(k) THEN Absent ELSE memory.cache
<1>0. Consistency /\ memory \in Memories /\ memory.cache \in Services \cup {Absent}
  BY DEF ControllerInv, Consistency, Memories
<1>1. /\ UNCHANGED <<object, nodes, changes>> /\ worker \in Callers
      /\ Collect(worker) /\ k.pc = "done"
  BY ControllerAssumption DEF WorkerEnds, cluster, At
<1>2. ~wantsLoadBalancer(Absent)
  BY SMTT(30) DEF wantsLoadBalancer, Absent
<1>3. Consistency' /\ UNCHANGED panicked /\ Live' = Live /\ call'[worker].pc = "idle"
  <2>1. /\ Consistency' /\ UNCHANGED panicked /\ Live' = Live
        /\ Becomes(worker, NoCall) /\ NoCall.pc = "idle"
    BY <1>0, <1>1, CollectKeeps
  <2>2. call'[worker] = NoCall
    BY <1>0, <1>1, <2>1, SMTT(30) DEF Becomes, Consistency, Good
  <2> QED BY <2>1, <2>2
<1>4. Consistent(k, Live) /\ ~panicked /\ k.ret \in {"ok", "error"}
  <2>1. Consistent(k, Live)
    BY <1>0, <1>1 DEF Consistency, CallsOK
  <2>2. ~panicked
    BY <1>1 DEF ControllerInv, At
  <2> QED BY <1>1, <2>1, <2>2 DEF Consistent
<1>5. PICK u \in BOOLEAN :
         memory' = [memory EXCEPT !.queued = memory.queued \/ Requeues(k, u),
                                  !.retrying = Requeues(k, u), !.cache = cache]
  <2>1. ("UpdateStatus" \in Faults \/ MayConflict(k)) \in BOOLEAN
    BY DEF MayConflict
  <2> QED BY <2>1, Zenon DEF WorkerEnds, Remember
<1>6. Remembers(memory', cache, (memory.queued \/ Requeues(k, u)))
  <2>1. (memory.queued \/ Requeues(k, u)) \in BOOLEAN /\ Requeues(k, u) \in BOOLEAN
    BY DEF Requeues
  <2>2. cache \in Services \cup {Absent}
    BY <1>0, SMTT(30)
  <2> HIDE DEF cache
  <2> QED BY <1>0, <1>5, <2>1, <2>2, MemoryTypes, Zenon
<1>7. ASSUME ~memory'.queued PROVE Current'
  <2>1. ~memory.queued /\ k.ret = "ok"
    BY <1>4, <1>6, <1>7, ZenonT(30) DEF Remembers, Requeues
  <2>2. Current /\ ~At(worker, "idle")
    BY <1>1, <1>4, <2>1, SMTT(30) DEF ControllerInv, At
  <2>3. ASSUME wantsLoadBalancer(object) PROVE Live # {} /\ cache = object
    BY <1>4, <2>1, <2>2, <2>3, SMTT(30) DEF Current, Consistent, Forgets
  <2>4. ASSUME ~wantsLoadBalancer(object) PROVE Live = {}
    BY <1>4, <2>1, <2>2, <2>4, SMTT(30) DEF Current, Consistent
  <2>5. ASSUME object = Absent PROVE ~wantsLoadBalancer(cache)
    BY <1>2, <2>1, <2>2, <2>5 DEF Current, Forgets
  <2>6. memory'.cache = cache /\ At(worker, "idle")'
    BY <1>3, <1>6 DEF Remembers, At
  <2> HIDE DEF cache
  <2> QED BY <1>1, <1>3, <2>3, <2>4, <2>5, <2>6 DEF Current
<1> HIDE DEF cache
<1> QED BY <1>1, <1>3, <1>4, <1>6, <1>7 DEF ControllerInv, Consistency, Remembers

\* nodeSyncLoop: it only updates what the worker has left it.
LEMMA NodeSyncKeeps ==
    ASSUME ControllerInv, NodeSync \/ NodeSyncEnds
    PROVE  ControllerInv'
<1>0. Consistency /\ memory \in Memories /\ nodes \in NodeLists
  BY DEF ControllerInv, Consistency
<1>1. UNCHANGED <<object, nodes, changes>> /\ sync \in Callers /\ worker \in Callers
  BY ControllerAssumption DEF NodeSync, NodeSyncEnds, cluster
<1>2. ~wantsLoadBalancer(Absent) /\ worker # sync
  BY DEF wantsLoadBalancer, Absent, worker, sync
<1>3. Todo \in Services \cup {Absent}
  BY <1>0 DEF Todo, Memories
<1>4. ASSUME NEW r, Becomes(sync, r) PROVE call'[worker] = call[worker]
  BY <1>0, <1>1, <1>2, <1>4, SMTT(30) DEF Becomes, Consistency, Good
<1>5. CASE NodeSync /\ Updates(Todo)
  <2>1. /\ Start(sync, "Update", Todo, nodes)
        /\ memory' = [memory EXCEPT !.servicesToUpdate = Todo]
    BY <1>5 DEF NodeSync, UpdateOp, Remember
  <2>2. Todo \in Services /\ wantsLoadBalancer(Todo)
    BY <1>2, <1>3, <1>5 DEF Updates
  <2>3. Remembers(memory', memory.cache, memory.queued)
    BY <1>0, <2>1, <2>2, MemoryTypes, Zenon
  <2>4. "Update" \in Ops
    BY ControllerAssumption
  <2>5. /\ Consistency' /\ UNCHANGED panicked /\ ~panicked /\ Live' = Live
        /\ \E r : Becomes(sync, r)
    BY <1>0, <1>1, <1>2, <2>1, <2>2, <2>4, StartKeeps
  <2> QED BY <1>0, <1>1, <1>4, <2>3, <2>5, OthersKeep
<1>6. CASE NodeSync /\ ~Updates(Todo)
  <2>1. /\ UNCHANGED <<lbs, call, panicked>> /\ ~panicked
        /\ memory' = [memory EXCEPT !.servicesToUpdate = Absent, !.knownHosts = nodes]
    BY <1>6 DEF NodeSync, Remember
  <2>2. Remembers(memory', memory.cache, memory.queued)
    BY <1>0, <2>1, MemoryTypes, Zenon
  <2>3. Consistency' /\ Live' = Live
    BY <1>0, <2>1, QuietKeeps, SMTT(30)
  <2> QED BY <1>0, <1>1, <2>1, <2>2, <2>3, OthersKeep
<1>7. CASE NodeSyncEnds
  <2> DEFINE k == call[sync]
  <2>1. /\ k \in Calls /\ k.pc = "done" /\ Consistent(k, Live) /\ Role(sync, k)
        /\ Collect(sync) /\ ~panicked
    BY <1>0, <1>1, <1>7 DEF NodeSyncEnds, At, Consistency, CallsOK, Good, GoodCalls,
                            ControllerInv
  <2>2. k.service \in Services /\ wantsLoadBalancer(k.service) /\ k.nodes \in NodeLists \cup {<<>>}
    BY <2>1, Zenon DEF Consistent, Role, Calls
  <2>3. PICK retry \in BOOLEAN :
           memory' = [memory EXCEPT !.knownHosts = k.nodes,
                          !.servicesToUpdate = IF retry THEN k.service ELSE Absent]
    BY <1>7, Zenon DEF NodeSyncEnds, Remember
  <2>4. Remembers(memory', memory.cache, memory.queued)
    <3> DEFINE t == IF retry THEN k.service ELSE Absent
    <3>1. t \in {x \in Services : wantsLoadBalancer(x)} \cup {Absent}
      BY <2>2, SMTT(30)
    <3> HIDE DEF t
    <3> QED BY <1>0, <2>2, <2>3, <3>1, MemoryTypes, ZenonT(30) DEF t
  <2>5. Consistency' /\ UNCHANGED panicked /\ Live' = Live /\ Becomes(sync, NoCall)
    BY <1>0, <1>1, <2>1, CollectKeeps
  <2> QED BY <1>0, <1>1, <1>4, <2>1, <2>4, <2>5, OthersKeep
<1> QED BY <1>5, <1>6, <1>7

\* A change of the service is queued unless no load balancer is wanted,
\* neither before nor after it.
LEMMA SetServiceKeeps ==
    ASSUME ControllerInv, NEW s \in Services \cup {Absent}, SetService(s)
    PROVE  ControllerInv'
<1> DEFINE q == memory.queued \/ (~panicked /\ (s = Absent \/ needsUpdate(object, s)))
<1>0. Consistency /\ memory \in Memories /\ changes' \in 0..Changes
  BY ControllerAssumption DEF ControllerInv, Consistency, SetService, Change
<1>1. /\ UNCHANGED <<lbs, call, panicked, nodes>> /\ object' = s /\ object # s
      /\ object # Absent /\ memory' = [memory EXCEPT !.queued = q]
  BY DEF SetService
<1>2. Consistency' /\ Live' = Live
  BY <1>0, <1>1, QuietKeeps
<1>3. q \in BOOLEAN
  BY DEF needsUpdate
<1>4. ASSUME ~panicked, ~q PROVE Current'
  <2>1. Current
    BY <1>4 DEF ControllerInv
  <2>2. s # Absent /\ ~wantsLoadBalancer(object) /\ ~wantsLoadBalancer(s)
    BY <1>1, <1>4 DEF needsUpdate
  <2> QED BY <1>1, <1>2, <2>1, <2>2 DEF Current, At
<1> HIDE DEF q
<1>5. Remembers(memory', memory.cache, q)
  BY <1>0, <1>1, <1>3, MemoryTypes, Zenon DEF Memories
<1>6. panicked' => memory'.cache = Absent /\ (\A c \in Callers : At(c, "idle"))'
  BY <1>1, <1>5 DEF ControllerInv, At, Remembers
<1> QED BY <1>0, <1>1, <1>2, <1>4, <1>5, <1>6 DEF ControllerInv, Consistency, Remembers

LEMMA ControllerStep == ControllerInv /\ [SNext]_svars => ControllerInv'
<1> SUFFICES ASSUME ControllerInv, [SNext]_svars PROVE ControllerInv'
  OBVIOUS
<1>0. Consistency /\ Kept
  BY InvIsKept, SMTT(30) DEF Kept
<1>1. ASSUME NEW ns \in NodeLists, SetNodes(ns) PROVE ControllerInv'
  <2>1. UNCHANGED <<lbs, call, panicked, object, memory>> /\ nodes' = ns /\ changes' \in 0..Changes
    BY <1>1, ControllerAssumption DEF SetNodes, Change, ControllerInv
  <2>2. Consistency' /\ Live' = Live
    BY <1>0, <2>1, QuietKeeps, SMTT(30)
  <2>3. Current' <=> Current
    BY <2>1, <2>2 DEF Current, At
  <2> QED BY <2>1, <2>2, <2>3, SMTT(30) DEF ControllerInv, Consistency, At
<1>2. ASSUME Killed PROVE ControllerInv'
  <2>1. UNCHANGED <<object, nodes, changes>> /\ memory' = Fresh /\ Panic
    BY <1>2 DEF Killed, Dies, Remember, cluster
  <2>2. Consistency' /\ (\A c \in Callers : At(c, "idle"))' /\ panicked'
    BY <1>0, <2>1, PanicKeeps DEF Panic
  <2> QED BY <1>0, <2>1, <2>2, FreshMemory DEF ControllerInv, Kept, Consistency
<1>3. ASSUME Restarts PROVE ControllerInv'
  <2> DEFINE q == object # Absent
  <2>1. /\ UNCHANGED <<lbs, call, object, nodes, changes>> /\ panicked /\ ~panicked'
        /\ panicked' \in BOOLEAN /\ memory' = [Fresh EXCEPT !.queued = q]
    BY <1>3, Zenon DEF Restarts, Restart, Remember, cluster
  <2>2. Live' = Live /\ CloudOK' /\ CallsOK' /\ Good'
    BY <1>0, <2>1 DEF Live, CloudOK, CallsOK, Good, Consistency
  <2>3. Remembers(memory', Absent, q)
    <3>1. Fresh.cache = Absent
      BY DEF Fresh
    <3> HIDE DEF q
    <3>2. q \in BOOLEAN
      BY DEF q
    <3> QED BY <2>1, <3>1, <3>2, FreshMemory, MemoryTypes, Zenon
  <2>4. ASSUME ~q PROVE Current'
    <3>1. object = Absent /\ ~wantsLoadBalancer(Absent)
      BY <2>4 DEF wantsLoadBalancer, Absent
    <3>2. At(worker, "idle")'
      BY <1>0, <2>1, ControllerAssumption, SMTT(30) DEF Kept, At
    <3> QED BY <2>1, <2>3, <3>1, <3>2, SMTT(30) DEF Current, Remembers
  <2> HIDE DEF q
  <2> QED BY <1>0, <2>1, <2>2, <2>3, <2>4 DEF ControllerInv, Kept, Remembers
<1>4. ASSUME UNCHANGED svars PROVE ControllerInv'
  <2>1. UNCHANGED <<lbs, call, panicked, object, nodes, memory, changes>>
    BY <1>4 DEF svars
  <2>2. Consistency' /\ Live' = Live
    BY <1>0, <2>1, QuietKeeps, SMTT(30)
  <2>3. Current' <=> Current
    BY <2>1, <2>2 DEF Current, At
  <2> QED BY <2>1, <2>2, <2>3 DEF ControllerInv, Consistency, At
<1>5. ASSUME WorkerStep \/ SyncStep PROVE ControllerInv'
  <2>1. worker \in Callers /\ sync \in Callers
    BY ControllerAssumption
  <2> QED BY <1>5, <2>1, WorkerTakesKeeps, WorkerEndsKeeps, NodeSyncKeeps, CallStepKeeps
          DEF WorkerStep, SyncStep
<1> QED BY <1>1, <1>2, <1>3, <1>4, <1>5, SetServiceKeeps DEF SNext

LEMMA ControllerAlways == SSpec => []ControllerInv
BY ControllerInitially, ControllerStep, PTL DEF SSpec

(* The load balancers, the calls and what the controller remembers keep    *)
(* their types.                                                            *)
THEOREM STypeCorrect == SSpec => []STypeOK
<1>1. ControllerInv => STypeOK
  BY SMTT(30) DEF ControllerInv, STypeOK, TypeOK, Good, GoodCalls, Memories
<1> QED BY <1>1, ControllerAlways, PTL

(* Under the service controller a service never has two load balancers,    *)
(* although the node sync runs at the same time, creations are repeated    *)
(* when their answer is lost, and the process may die anywhere.            *)
THEOREM ServiceOneLoadBalancerHolds == SSpec => []OneLoadBalancer
<1>1. ControllerInv => OneLoadBalancer
  BY DEF ControllerInv, CloudOK, Live, OneLoadBalancer
<1> QED BY <1>1, ControllerAlways, PTL

-----------------------------------------------------------------------------
\* The worker works for the cached version.  Between two calls a version that
\* wants no load balancer has none, unless the last try failed.
Cleaned ==
    IF At(worker, "idle")
    THEN \/ memory.cache = Absent \/ wantsLoadBalancer(memory.cache)
         \/ memory.retrying \/ Live = {}
    ELSE /\ memory.cache = call[worker].service
         /\ call[worker].op = "Delete" \/ wantsLoadBalancer(call[worker].service)

\* Nothing happens to the worker.
LEMMA CleanedStays ==
    ASSUME Cleaned, call'[worker] = call[worker], Live' = Live,
           memory'.cache = memory.cache, memory'.retrying = memory.retrying
    PROVE  Cleaned'
BY DEF Cleaned, At

LEMMA CleanedInitially == SInit => Cleaned
<1> SUFFICES ASSUME SInit PROVE Cleaned
  OBVIOUS
<1>1. memory.cache = Absent
  BY Zenon DEF SInit, Fresh
<1>2. call[worker] = NoCall /\ NoCall.pc = "idle"
  <2>1. \A c \in Callers : call[c] = NoCall
    BY SMTT(30) DEF SInit, Init
  <2>2. NoCall.pc = "idle"
    BY DEF NoCall
  <2> QED BY <2>1, <2>2, ControllerAssumption
<1> QED BY <1>1, <1>2 DEF Cleaned, At

LEMMA CleanedCall ==
    ASSUME ControllerInv, Cleaned, NEW c \in Callers, CallStep(c)
    PROVE  Cleaned'
<1>0. Consistency /\ Kept /\ worker \in Callers
  BY ControllerAssumption, InvIsKept DEF Kept
<1>1. CASE Panic
  <2>1. call'[worker].pc = "idle"
    BY <1>0, <1>1, PanicKeeps DEF At
  <2>2. memory'.cache = Absent
    BY <1>1, FreshMemory DEF Panic, CallStep, Remember
  <2> QED BY <2>1, <2>2 DEF Cleaned, At
<1>2. CASE Progress(c)
  <2>1. PICK r : Becomes(c, r) /\ Carries(r, call[c]) /\ Consistent(r, Live')
    BY <1>2 DEF Progress
  <2>2. \A d \in Callers : call'[d] = IF d = c THEN r ELSE call[d]
    BY <1>0, <2>1 DEF Becomes, Consistency, Good
  <2>3. Role(c, call[c]) /\ Consistent(call[c], Live)
    BY <1>0 DEF Consistency, CallsOK
  <2>4. ~At(c, "idle")
    BY <2>1, <2>3, Zenon DEF At, Carries, Consistent
  <2>5. memory' = memory
    BY <1>0, <1>2, <2>4 DEF Kept, CallStep, Remember, Progress
  <2>6. CASE c = worker
    <3>1. call'[worker] = r /\ ~At(worker, "idle") /\ ~At(worker, "idle")'
      BY <2>1, <2>2, <2>4, <2>6, SMTT(30) DEF At, Carries
    <3> QED BY <2>1, <2>5, <2>6, <3>1, SMTT(30) DEF Cleaned, Carries
  <2>7. CASE c = sync
    <3>1. call'[worker] = call[worker]
      BY <1>0, <2>2, <2>7, SMTT(30) DEF sync, worker
    <3>2. Live' = Live
      <4>1. call[sync].op # "none"
        BY <2>3, <2>4, <2>7, Zenon DEF Consistent, At
      <4> QED BY <1>2, <2>3, <2>7, <4>1 DEF Role, Progress
    <3> QED BY <2>5, <3>1, <3>2, CleanedStays
  <2> QED BY <2>6, <2>7, ControllerAssumption
<1> QED BY <1>0, <1>1, <1>2, StepProgress DEF CallStep

LEMMA CleanedWorker ==
    ASSUME ControllerInv, Cleaned, WorkerTakes \/ WorkerEnds
    PROVE  Cleaned'
<1>0. Consistency /\ memory \in Memories /\ worker \in Callers
  BY ControllerAssumption DEF ControllerInv, Consistency
<1>1. CASE WorkerTakes /\ Forgotten
  <2>1. UNCHANGED <<lbs, call>> /\ memory' = [memory EXCEPT !.queued = FALSE]
    BY <1>1 DEF WorkerTakes, Remember
  <2>2. memory'.cache = memory.cache /\ memory'.retrying = memory.retrying
    BY <1>0, <2>1, Zenon DEF Memories
  <2> QED BY <2>1, <2>2, CleanedStays DEF Live
<1>2. CASE WorkerTakes /\ ~Forgotten
  <2> DEFINE service == IF object = Absent THEN memory.cache ELSE object
             op == IF wantsLoadBalancer(object) THEN "Ensure" ELSE "Delete"
  <2>1. /\ Start(worker, op, service, nodes)
        /\ memory' = [memory EXCEPT !.queued = FALSE, !.cache = service]
    BY <1>2 DEF WorkerTakes, Remember
  <2>2. op = "Delete" \/ wantsLoadBalancer(service)
    BY SMTT(30) DEF wantsLoadBalancer, Absent
  <2>3. service \in Services /\ op \in Ops /\ op # "Update" /\ nodes \in NodeLists
        /\ worker # sync
    BY <1>0, <1>2, ControllerAssumption
       DEF Forgotten, ControllerInv, Memories, wantsLoadBalancer, Absent, worker, sync
  <2> HIDE DEF op, service
  <2>4. memory'.cache = service
    BY <1>0, <2>1, Zenon DEF Memories
  <2>5. PICK r : Becomes(worker, r) /\ r.op = op /\ r.service = service /\ r.pc # "idle"
    BY <1>0, <2>1, <2>3, StartKeeps
  <2>6. call'[worker] = r
    BY <1>0, <2>5 DEF Becomes, Consistency, Good
  <2> QED BY <2>2, <2>4, <2>5, <2>6 DEF Cleaned, At
<1>3. CASE WorkerEnds
  <2> DEFINE k == call[worker]
  <2>1. Collect(worker) /\ k.pc = "done"
    BY <1>3 DEF WorkerEnds, At
  <2>2. Live' = Live /\ call'[worker].pc = "idle"
    <3>1. Live' = Live /\ Becomes(worker, NoCall) /\ NoCall.pc = "idle"
      BY <1>0, <2>1, CollectKeeps
    <3>2. call'[worker] = NoCall
      BY <1>0, <3>1, SMTT(30) DEF Becomes, Consistency, Good
    <3> QED BY <3>1, <3>2
  <2>3. Consistent(k, Live) /\ k.ret \in {"ok", "error"}
    BY <1>0, <2>1 DEF Consistency, CallsOK, Consistent
  <2>4. /\ memory.cache = k.service
        /\ k.op = "Delete" \/ wantsLoadBalancer(k.service)
    BY <2>1 DEF Cleaned, At
  <2>5. PICK u \in BOOLEAN :
           memory' = [memory EXCEPT !.queued = memory.queued \/ Requeues(k, u),
                                    !.retrying = Requeues(k, u),
                                    !.cache = IF Forgets(k) THEN Absent ELSE memory.cache]
    <3>1. ("UpdateStatus" \in Faults \/ MayConflict(k)) \in BOOLEAN
      BY DEF MayConflict
    <3> QED BY <1>3, <3>1, Zenon DEF WorkerEnds, Remember
  <2>6. /\ memory'.retrying = Requeues(k, u)
        /\ memory'.cache = IF Forgets(k) THEN Absent ELSE memory.cache
    BY <1>0, <2>5, Zenon DEF Memories
  <2>7. CASE k.ret = "error"
    BY <2>2, <2>6, <2>7, Zenon DEF Cleaned, At, Requeues
  <2>8. CASE k.ret = "ok"
    <3>1. wantsLoadBalancer(k.service) \/ Live = {}
      BY <2>3, <2>4, <2>8, Zenon DEF Consistent
    <3> QED BY <2>2, <2>4, <2>6, <3>1, SMTT(30) DEF Cleaned, At
  <2> QED BY <2>3, <2>7, <2>8
<1> QED BY <1>1, <1>2, <1>3

LEMMA CleanedSync ==
    ASSUME ControllerInv, Cleaned, NodeSync \/ NodeSyncEnds
    PROVE  Cleaned'
<1>0. Consistency /\ memory \in Memories
  BY DEF ControllerInv, Consistency
<1>1. memory'.cache = memory.cache /\ memory'.retrying = memory.retrying
  BY <1>0, Zenon DEF NodeSync, NodeSyncEnds, Remember, Memories
<1>2. UNCHANGED lbs
  BY DEF NodeSync, NodeSyncEnds, Start, Collect
<1>3. call' = call \/ \E r : Becomes(sync, r)
  BY DEF NodeSync, NodeSyncEnds, Start, Collect
<1>4. call'[worker] = call[worker]
  BY <1>0, <1>3, ControllerAssumption, SMTT(30) DEF Becomes, Consistency, Good, worker, sync
<1> QED BY <1>1, <1>2, <1>4, CleanedStays DEF Live

LEMMA CleanedAlways == SSpec => []Cleaned
<1>1. ControllerInv /\ Cleaned /\ [SNext]_svars => Cleaned'
  <2> SUFFICES ASSUME ControllerInv, Cleaned, [SNext]_svars PROVE Cleaned'
    OBVIOUS
  <2>0. Consistency /\ Kept /\ memory \in Memories /\ worker \in Callers /\ sync \in Callers
    BY ControllerAssumption, InvIsKept DEF Kept
  <2>1. CASE \E s \in Services \cup {Absent} : SetService(s)
    <3>1. memory'.cache = memory.cache /\ memory'.retrying = memory.retrying
      BY <2>0, <2>1, Zenon DEF SetService, Memories
    <3> QED BY <2>1, <3>1, CleanedStays DEF SetService, Live
  <2>2. CASE (\E ns \in NodeLists : SetNodes(ns)) \/ UNCHANGED svars
    BY <2>2, CleanedStays DEF SetNodes, svars, Live
  <2>3. CASE Killed
    <3>1. call'[worker].pc = "idle"
      BY <2>0, <2>3, PanicKeeps DEF Killed, Dies, At
    <3> QED BY <2>3, <3>1, FreshMemory DEF Killed, Dies, Remember, Cleaned, At
  <2>4. CASE Restarts
    <3>1. call'[worker].pc = "idle"
      BY <2>0, <2>4 DEF Restarts, Restart, Kept, At
    <3>2. memory'.cache = Absent
      BY <2>4, Zenon DEF Restarts, Remember, Fresh
    <3> QED BY <3>1, <3>2 DEF Cleaned, At
  <2>5. CASE WorkerStep \/ SyncStep
    BY <2>0, <2>5, CleanedWorker, CleanedSync, CleanedCall DEF WorkerStep, SyncStep
  <2> QED BY <2>1, <2>2, <2>3, <2>4, <2>5 DEF SNext
<1> QED BY <1>1, CleanedInitially, ControllerAlways, PTL DEF SSpec

(* When the worker is idle and its queue empty, a load balancer exists if  *)
(* and only if the service wants one, whatever failed, died or overlapped  *)
(* before; that of a deleted service is left only by a process that knows  *)
(* nothing of the service, or whose last deletion, for a version of it     *)
(* that wants none, failed (syncService, processServiceDeletion).          *)
THEOREM SettledIsRightHolds == SSpec => []SettledIsRight
<1>1. ControllerInv /\ Cleaned => SettledIsRight
  <2> SUFFICES ASSUME ControllerInv, Cleaned, ~panicked, At(worker, "idle"), ~memory.queued
               PROVE  SettledIsRight
    BY DEF SettledIsRight
  <2>1. Current
    BY DEF ControllerInv
  <2>2. Exists <=> Live # {}
    BY DEF Exists, Live
  <2> QED BY <2>1, <2>2 DEF SettledIsRight, Current, Cleaned
<1> QED BY <1>1, ControllerAlways, CleanedAlways, PTL

(* The controller drops a service from its cache only when no load         *)
(* balancer is left (processServiceDeletion).                              *)
THEOREM ForgetsOnlyDeletedHolds == SSpec => ForgetsOnlyDeleted
<1> DEFINE A == memory.cache # Absent /\ memory'.cache = Absent /\ ~panicked' => ~Exists
<1>1. ControllerInv /\ [SNext]_svars => [A]_svars
  <2> SUFFICES ASSUME ControllerInv, SNext, memory.cache # Absent,
                      memory'.cache = Absent, ~panicked'
               PROVE  ~Exists
    BY SMTT(30)
  <2>0. memory \in Memories
    BY DEF ControllerInv
  <2>1. CASE WorkerEnds
    <3>1. Forgets(call[worker])
      BY <2>0, <2>1, SMTT(30) DEF WorkerEnds, Remember, Memories
    <3>2. Consistent(call[worker], Live)
      BY ControllerAssumption, SMTT(30) DEF ControllerInv, CallsOK
    <3>3. Live = {}
      BY <3>1, <3>2, SMTT(30) DEF Forgets, Consistent
    <3> QED BY <3>3 DEF Live, Exists
  <2>2. CASE WorkerTakes
    <3>1. ~Forgotten
      BY <2>0, <2>2 DEF WorkerTakes, Remember, Memories
    <3>2. memory'.cache = IF object = Absent THEN memory.cache ELSE object
      BY <2>0, <2>2, <3>1, Zenon DEF WorkerTakes, Remember, Memories
    <3> QED BY <3>2
  <2>3. CASE Restarts
    BY <2>3 DEF Restarts, Restart, ControllerInv
  <2>4. CASE Killed
    BY <2>4, SMTT(30) DEF Killed, Dies, Panic
  <2>5. CASE \E c \in Callers : CallStep(c)
    BY <2>5 DEF CallStep, Remember
  <2>6. CASE NodeSync \/ NodeSyncEnds
    BY <2>0, <2>6, Zenon DEF NodeSync, NodeSyncEnds, Remember, Memories
  <2>7. CASE \E s \in Services \cup {Absent} : SetService(s)
    BY <2>0, <2>7 DEF SetService, Memories
  <2>8. CASE \E ns \in NodeLists : SetNodes(ns)
    BY <2>8 DEF SetNodes
  <2> QED BY <2>1, <2>2, <2>3, <2>4, <2>5, <2>6, <2>7, <2>8, ControllerAssumption, SMTT(30)
          DEF SNext, WorkerStep, SyncStep
<1> QED BY <1>1, ControllerAlways, PTL DEF SSpec, ForgetsOnlyDeleted
=============================================================================
