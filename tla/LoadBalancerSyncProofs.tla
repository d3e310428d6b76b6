----------------------- MODULE LoadBalancerSyncProofs -----------------------
(***************************************************************************)
(* Theorems about what the listener and backend syncs of module            *)
(* LoadBalancer do, for any services, nodes and instances.                 *)
(***************************************************************************)
EXTENDS LoadBalancerProofs

(***************************************************************************)
(* What a successful call leaves behind, when calls for the service never  *)
(* overlap.  ensureLBListeners works from a snapshot: of the service ports *)
(* W it wants, those not in e any more have their listener, and every      *)
(* listener is still to be compared (a), to be removed (m), or wanted.     *)
(***************************************************************************)
Serves(l, sp) == l.Protocol = sp.Protocol /\ l.BackendServerPort = sp.NodePort

Accounted(W, a, e, s, m, d, L) ==
    /\ e \subseteq W
    /\ \A l \in a : /\ L[l.Port].Protocol = l.Protocol /\ l.Port \notin m
                    /\ \A sp \in W \ e : sp.Port # l.Port
    /\ \A sp \in W \ e :
          /\ Serves(L[sp.Port], sp)
          /\ L[sp.Port].Status = "running" \/ sp.Port \in s \cup d
          /\ sp.Port \notin m
    /\ \A p \in PortNumbers : \/ L[p] = NoListener \/ p \in m
                              \/ \E l \in a : l.Port = p
                              \/ \E sp \in W \ e : sp.Port = p
    /\ \A p \in m : \A sp \in W : sp.Port = p => ~Serves(L[p], sp)
    /\ \A p, q \in d : p = q

Wants(k) == {sp \in k.service.Ports : sp.NodePort # 0}

Synced(k, b) == Accounted(Wants(k), {}, {}, {}, {}, {}, b.listeners)

Succeeded(k) == k.ret = "ok" /\ k.op # "Delete"

BeforeSync(k) == \/ k.pc \in {"list", "describe", "create"}
                 \/ k.pc = "instances" /\ k.op = "Ensure"

Updating(k) == k.pc = "instances" /\ k.op # "Ensure"

AfterSync(k) == k.pc \in {"remove", "add"} \/ Updating(k) \/ Succeeded(k)

Resolved(k) == \/ k.pc \in {"remove", "add"} \/ Succeeded(k)
               \/ k.op = "Ensure" /\ k.pc \in {"list", "describe", "create", "listeners"}

Chosen(k) == \A i \in Inventory :
    i.InstanceId \in k.instances <=> \E n \in DOMAIN k.nodes : By(k.nodes[n], i)

SyncOK(k, b) ==
    /\ k.pc # "done" => k.ret = ""
    /\ k.pc = "delete" => k.op = "Delete"
    /\ BeforeSync(k) => k.removals = {} /\ k.created = {}
    /\ k.pc = "listeners" => Accounted(Wants(k), k.actual, k.expected, k.stopped,
                                       k.removals, k.created, b.listeners)
    /\ AfterSync(k) => Synced(k, b)
    /\ k.pc = "listeners" \/ AfterSync(k) => b.exists
    /\ k.pc \in {"listeners", "remove"} \/ Updating(k) => b.backends = k.servers
    /\ k.pc = "add" => b.backends = k.servers \cap k.instances
    /\ Succeeded(k) => b.backends = k.instances /\ k.id \in LBIds
    /\ Resolved(k) => Chosen(k)

SyncInv == /\ \A c, d \in Callers : c # d => At(c, "idle") \/ At(d, "idle")
           /\ \A c \in Callers : SyncOK(call[c], LB(c))


-----------------------------------------------------------------------------
\* The ports a service wants and the listeners of a load balancer.
Ports(W, L) ==
    /\ \A sp \in W : sp.Port \in PortNumbers /\ sp.Protocol \in Protocols
    /\ \A p, q \in W : p.Port = q.Port /\ p.Protocol = q.Protocol => p = q
    /\ L \in [PortNumbers -> Listeners]

LEMMA ListenerFields ==
    ASSUME NEW l \in Listeners
    PROVE  /\ l # NoListener => l.Protocol \in Protocols /\ l.Status \in {"running", "stopped"}
           /\ NoListener.Protocol \notin Protocols
BY Zenon DEF Listeners, NoListener, Protocols

\* The snapshot: everything is still to be compared.
LEMMA AccountedSnapshot ==
    ASSUME NEW W, NEW L, NEW s
    PROVE  Accounted(W, {[Port |-> p, Protocol |-> L[p].Protocol] :
                             p \in {q \in PortNumbers : L[q] # NoListener}},
                     W, s, {}, {}, L)
<1> DEFINE key(p) == [Port |-> p, Protocol |-> L[p].Protocol]
           a == {key(p) : p \in {q \in PortNumbers : L[q] # NoListener}}
<1>1. \A l \in a : L[l.Port].Protocol = l.Protocol
  OBVIOUS
<1>2. ASSUME NEW p \in PortNumbers, L[p] # NoListener PROVE \E l \in a : l.Port = p
  <2>1. key(p) \in a /\ key(p).Port = p
    BY <1>2
  <2> QED BY <2>1, Zenon
<1> HIDE DEF a
<1>3. Accounted(W, a, W, s, {}, {}, L)
  BY <1>1, <1>2 DEF Accounted
<1> QED BY <1>3 DEF a

LEMMA AccountedCompare ==
    ASSUME NEW W, NEW a, NEW e, NEW s, NEW m, NEW d, NEW L, Ports(W, L),
           Accounted(W, a, e, s, m, d, L), a \subseteq ListenerKeys, NEW l \in a
    PROVE  LET want == {sp \in e : sp.Port = l.Port /\ sp.Protocol = l.Protocol}
               t == IF L[l.Port].Status = "stopped" THEN s \cup {l.Port} ELSE s
           IN  IF \E sp \in want : L[l.Port].BackendServerPort = sp.NodePort
               THEN Accounted(W, a \ {l}, e \ want, t, m, d, L)
               ELSE Accounted(W, a \ {l}, e, s, m \cup {l.Port}, d, L)
<1> DEFINE want == {sp \in e : sp.Port = l.Port /\ sp.Protocol = l.Protocol}
           t == IF L[l.Port].Status = "stopped" THEN s \cup {l.Port} ELSE s
<1>1. /\ l.Port \in PortNumbers /\ L[l.Port].Protocol = l.Protocol /\ l.Port \notin m
      /\ \A sp \in W \ e : sp.Port # l.Port
      /\ e \subseteq W
  BY DEF Accounted, ListenerKeys
<1>2. \A k \in a : k.Port = l.Port => k = l
  <2> SUFFICES ASSUME NEW k \in a, k.Port = l.Port PROVE k = l
    OBVIOUS
  <2>1. k.Protocol = l.Protocol
    BY DEF Accounted
  <2> QED BY <2>1 DEF ListenerKeys
<1>3. L[l.Port].Status \in {"running", "stopped"}
  <2>1. L[l.Port] \in Listeners /\ l.Protocol \in Protocols
    BY <1>1 DEF Ports, ListenerKeys
  <2> QED BY <1>1, <2>1, ListenerFields
<1>4. ASSUME NEW sp \in want, L[l.Port].BackendServerPort = sp.NodePort
      PROVE  Accounted(W, a \ {l}, e \ want, t, m, d, L)
  <2>1. want = {sp}
    BY <1>1, <1>4 DEF Ports
  <2>2. W \ (e \ want) = (W \ e) \cup {sp} /\ sp \in W /\ sp.Port = l.Port /\ sp.Protocol = l.Protocol
    BY <1>1, <1>4, <2>1
  <2>3. Serves(L[sp.Port], sp) /\ (L[sp.Port].Status = "running" \/ sp.Port \in t)
    BY <1>1, <1>3, <1>4, <2>2 DEF Serves
  <2>4. s \subseteq t
    OBVIOUS
  <2> HIDE DEF want, t
  <2>5. \A k \in a \ {l} : /\ L[k.Port].Protocol = k.Protocol /\ k.Port \notin m
                           /\ \A q \in W \ (e \ want) : q.Port # k.Port
    BY <1>2, <2>2 DEF Accounted
  <2>6. \A q \in W \ (e \ want) :
            /\ Serves(L[q.Port], q)
            /\ L[q.Port].Status = "running" \/ q.Port \in t \cup d
            /\ q.Port \notin m
    BY <1>1, <2>2, <2>3, <2>4 DEF Accounted
  <2>7. \A p \in PortNumbers : \/ L[p] = NoListener \/ p \in m
                               \/ \E k \in a \ {l} : k.Port = p
                               \/ \E q \in W \ (e \ want) : q.Port = p
    BY <2>2 DEF Accounted
  <2> QED BY <1>1, <2>5, <2>6, <2>7 DEF Accounted
<1>5. ASSUME ~\E sp \in want : L[l.Port].BackendServerPort = sp.NodePort
      PROVE  Accounted(W, a \ {l}, e, s, m \cup {l.Port}, d, L)
  <2>1. \A sp \in W : sp.Port = l.Port => ~Serves(L[l.Port], sp)
    BY <1>1, <1>5 DEF Serves
  <2> HIDE DEF want, t
  <2>2. \A k \in a \ {l} : k.Port \notin m \cup {l.Port}
    BY <1>2 DEF Accounted
  <2>3. \A p \in PortNumbers : \/ L[p] = NoListener \/ p \in m \cup {l.Port}
                               \/ \E k \in a \ {l} : k.Port = p
                               \/ \E q \in W \ e : q.Port = p
    BY DEF Accounted
  <2> QED BY <1>1, <2>1, <2>2, <2>3 DEF Accounted
<1> QED BY <1>4, <1>5, Zenon

\* A listener is started: nothing else about it changes.
LEMMA AccountedStart ==
    ASSUME NEW W, NEW e, NEW s, NEW m, NEW d, NEW L, Ports(W, L), NEW p \in PortNumbers,
           Accounted(W, {}, e, s, m, d, L), L[p] # NoListener
    PROVE  LET K == [L EXCEPT ![p] = [L[p] EXCEPT !.Status = "running"]]
           IN  /\ Accounted(W, {}, e, s \ {p}, m, d, K)
               /\ p \in d => Accounted(W, {}, e, s, m, {}, K)
<1> DEFINE l == [L[p] EXCEPT !.Status = "running"]
           K == [L EXCEPT ![p] = l]
<1>1. l.Protocol = L[p].Protocol /\ l.BackendServerPort = L[p].BackendServerPort /\ l.Status = "running"
  <2>1. L[p] \in Listeners
    BY DEF Ports
  <2> QED BY <2>1 DEF Listeners
<1> HIDE DEF l
<1>2. K[p] = l /\ \A q \in PortNumbers : q # p => K[q] = L[q]
  BY DEF Ports
<1> HIDE DEF K
<1>3. \A sp \in W : sp.Port \in PortNumbers /\ (Serves(K[sp.Port], sp) <=> Serves(L[sp.Port], sp))
  BY <1>1, <1>2 DEF Ports, Serves
<1>4. \A q \in PortNumbers : K[q] = NoListener => L[q] = NoListener \/ q = p
  BY <1>2
<1>5. \/ p \in m
      \/ \E sp \in W \ e : sp.Port = p
  BY DEF Accounted
<1>6. \A sp \in W \ e : sp.Port = p \/ K[sp.Port] = L[sp.Port]
  BY <1>2, <1>3
<1>7. \A sp \in W \ e : /\ K[sp.Port].Status = "running" \/ sp.Port \in (s \ {p}) \cup d
                        /\ p \in d => K[sp.Port].Status = "running" \/ sp.Port \in s
  BY <1>1, <1>2, <1>6 DEF Accounted
<1>8. \A q \in PortNumbers : K[q] = NoListener \/ q \in m \/ \E sp \in W \ e : sp.Port = q
  BY <1>2, <1>5 DEF Accounted
<1>9. \A q \in m : \A sp \in W : sp.Port = q => ~Serves(K[q], sp)
  BY <1>3 DEF Accounted
<1>10. e \subseteq W /\ (\A q, r \in d : q = r)
       /\ \A sp \in W \ e : Serves(K[sp.Port], sp) /\ sp.Port \notin m
  BY <1>3 DEF Accounted
<1>11. Accounted(W, {}, e, s \ {p}, m, d, K)
  BY <1>7, <1>8, <1>9, <1>10 DEF Accounted
<1>12. p \in d => Accounted(W, {}, e, s, m, {}, K)
  BY <1>7, <1>8, <1>9, <1>10 DEF Accounted
<1> QED BY <1>11, <1>12 DEF K, l

LEMMA AccountedRemove ==
    ASSUME NEW W, NEW e, NEW m, NEW d, NEW L, Ports(W, L), NEW p \in m, p \in PortNumbers,
           Accounted(W, {}, e, {}, m, d, L)
    PROVE  Accounted(W, {}, e, {}, m \ {p}, d, [L EXCEPT ![p] = NoListener])
<1> DEFINE K == [L EXCEPT ![p] = NoListener]
<1>1. K[p] = NoListener /\ \A q \in PortNumbers : q # p => K[q] = L[q]
  BY DEF Ports
<1> HIDE DEF K
<1>2. \A sp \in W \ e : sp.Port # p /\ K[sp.Port] = L[sp.Port]
  BY <1>1 DEF Accounted, Ports
<1>3. \A q \in PortNumbers : K[q] = NoListener \/ q \in m \ {p} \/ \E sp \in W \ e : sp.Port = q
  BY <1>1 DEF Accounted
<1>4. \A q \in m \ {p} : \A sp \in W : sp.Port = q => ~Serves(K[q], sp)
  BY <1>1 DEF Accounted, Ports
<1> QED BY <1>2, <1>3, <1>4 DEF Accounted, K

LEMMA AccountedCreate ==
    ASSUME NEW W, NEW e, NEW L, Ports(W, L), NEW sp \in e,
           Accounted(W, {}, e, {}, {}, {}, L), L[sp.Port] = NoListener
    PROVE  Accounted(W, {}, e \ {sp}, {}, {}, {sp.Port},
                     [L EXCEPT ![sp.Port] = [Protocol |-> sp.Protocol, Status |-> "stopped",
                                             BackendServerPort |-> sp.NodePort]])
<1> DEFINE l == [Protocol |-> sp.Protocol, Status |-> "stopped", BackendServerPort |-> sp.NodePort]
           K == [L EXCEPT ![sp.Port] = l]
<1>1. Serves(l, sp)
  BY DEF Serves
<1> HIDE DEF l
<1>2. sp \in W /\ sp.Port \in PortNumbers
  BY DEF Accounted, Ports
<1>3. K[sp.Port] = l /\ \A q \in PortNumbers : q # sp.Port => K[q] = L[q]
  BY <1>2 DEF Ports
<1> HIDE DEF K
<1>4. \A q \in W \ e : q.Port # sp.Port /\ K[q.Port] = L[q.Port]
  <2> SUFFICES ASSUME NEW q \in W \ e PROVE q.Port # sp.Port /\ K[q.Port] = L[q.Port]
    OBVIOUS
  <2>1. Serves(L[q.Port], q) /\ q.Protocol \in Protocols /\ q.Port \in PortNumbers
    BY DEF Accounted, Ports
  <2>2. NoListener.Protocol \notin Protocols
    BY Zenon DEF NoListener, Protocols
  <2> QED BY <1>3, <2>1, <2>2 DEF Serves
<1>5. W \ (e \ {sp}) = (W \ e) \cup {sp} /\ e \ {sp} \subseteq W
  BY <1>2 DEF Accounted
<1>6. \A q \in W \ (e \ {sp}) : /\ Serves(K[q.Port], q)
                                /\ K[q.Port].Status = "running" \/ q.Port = sp.Port
  BY <1>1, <1>3, <1>4, <1>5 DEF Accounted
<1>7. \A p \in PortNumbers : K[p] = NoListener \/ \E q \in W \ (e \ {sp}) : q.Port = p
  BY <1>3, <1>5 DEF Accounted
<1> QED BY <1>5, <1>6, <1>7 DEF Accounted, K, l

ListenersFor(want) == IF want = {} THEN {NoListener}
                      ELSE {[Protocol |-> sp.Protocol, Status |-> "running",
                             BackendServerPort |-> sp.NodePort] : sp \in want}

\* When all is done, the listeners are exactly the wanted ones.
LEMMA AccountedSynced ==
    ASSUME NEW W, NEW L, Ports(W, L), Accounted(W, {}, {}, {}, {}, {}, L), NEW p \in PortNumbers
    PROVE  {L[p]} = ListenersFor({sp \in W : sp.Port = p})
<1> DEFINE want == {sp \in W : sp.Port = p}
           listener(sp) == [Protocol |-> sp.Protocol, Status |-> "running",
                            BackendServerPort |-> sp.NodePort]
<1>1. CASE want = {}
  <2>1. L[p] = NoListener
    BY <1>1 DEF Accounted
  <2> QED BY <1>1, <2>1 DEF ListenersFor
<1>2. ASSUME NEW sp \in want PROVE L[p] = listener(sp)
  <2>1. Serves(L[p], sp) /\ L[p].Status = "running"
    BY <1>2 DEF Accounted
  <2>2. L[p] \in Listeners
    BY DEF Ports
  <2>3. L[p] = [Protocol |-> L[p].Protocol, Status |-> L[p].Status,
                BackendServerPort |-> L[p].BackendServerPort]
    BY <2>2, Zenon DEF Listeners, NoListener
  <2> QED BY <2>1, <2>3 DEF Serves
<1> HIDE DEF listener
<1>3. CASE want # {}
  <2>1. {listener(sp) : sp \in want} = {L[p]}
    BY <1>2, <1>3
  <2> HIDE DEF want
  <2>2. {L[p]} = ListenersFor(want)
    BY <1>3, <2>1 DEF listener, ListenersFor
  <2> QED BY <2>2 DEF want
<1> QED BY <1>1, <1>3

\* The instances a lookup finds are those that bear one of the names.
LEMMA FoundChosen ==
    ASSUME NEW names \in Seq(STRING), getInstancesByNodeNames(Inventory, names).err = "nil"
    PROVE  LET found == getInstancesByNodeNames(Inventory, names).instances
           IN  \A i \in Inventory : i.InstanceId \in {found[k].InstanceId : k \in DOMAIN found} <=>
                                        \E n \in DOMAIN names : By(names[n], i)
<1> DEFINE found == getInstancesByNodeNames(Inventory, names).instances
<1>1. DOMAIN found = DOMAIN names
  BY DEF getInstancesByNodeNames, Found, LookupError
<1>2. \A n \in DOMAIN names : Narrowed(Inventory, names, n) = {found[n]}
  BY LookupAllSucceeds
<1> HIDE DEF found
<1>3. \A n \in DOMAIN names : n \in Nat /\ 1 <= n /\ 1 \in DOMAIN names
  OBVIOUS
<1>4. ASSUME NEW n \in DOMAIN names
      PROVE  found[n] \in Inventory /\ By(names[n], found[n]) /\ By(names[1], found[n])
  <2>1. found[n] \in Narrowed(Inventory, names, n)
    BY <1>2
  <2>2. n \in 1..n /\ 1 \in 1..n
    BY <1>3
  <2> QED BY <2>1, <2>2 DEF Narrowed
<1>5. ASSUME NEW i \in Inventory, NEW n \in DOMAIN found, i.InstanceId = found[n].InstanceId
      PROVE  \E m \in DOMAIN names : By(names[m], i)
  <2>1. i = found[n]
    BY <1>1, <1>4, <1>5, VPCAssumption
  <2> QED BY <1>1, <1>4, <2>1
<1>6. ASSUME NEW i \in Inventory, NEW n \in DOMAIN names, By(names[n], i)
      PROVE  \E m \in DOMAIN found : i.InstanceId = found[m].InstanceId
  <2>1. CASE nodeNameType = "private-ip"
    <3>1. SharesAddress(i, found[n])
      BY <1>4, <1>6, <2>1 DEF By, byPrivateIP, SharesAddress
    <3>2. i = found[n]
      BY <1>4, <3>1, VPCAssumption
    <3> QED BY <1>1, <3>2
  <2>2. CASE nodeNameType # "private-ip"
    <3>1. i.HostName = names[1]
      BY <1>4, <1>6, <2>2 DEF By, byHostname
    <3>2. i \in Narrowed(Inventory, names, 1)
      BY <2>2, <3>1 DEF Narrowed, By, byHostname
    <3> QED BY <1>1, <1>2, <1>3, <3>2
  <2> QED BY <2>1, <2>2
<1>7. ASSUME NEW i \in Inventory
      PROVE  i.InstanceId \in {found[k].InstanceId : k \in DOMAIN found} <=>
                 \E n \in DOMAIN names : By(names[n], i)
  BY <1>5, <1>6
<1> QED BY <1>7 DEF found

-----------------------------------------------------------------------------
LEMMA BecomesSync ==
    ASSUME Good, SyncInv, NEW c \in Callers, NEW r, Becomes(c, r), SyncOK(r, lbs'[r.id]),
           At(c, "idle") => \A d \in Callers : At(d, "idle")
    PROVE  SyncInv'
<1>1. \A d \in Callers : d # c => At(d, "idle") /\ call'[d] = call[d]
  BY DEF SyncInv, Becomes, Good
<1>2. call'[c] = r
  BY DEF Becomes, Good
<1>3. ASSUME NEW d \in Callers PROVE SyncOK(call'[d], lbs'[call'[d].id])
  <2>1. CASE d = c
    BY <1>2, <2>1
  <2>2. CASE d # c
    <3>1. SyncOK(call[d], LB(d))
      BY DEF SyncInv
    <3>2. call[d].pc = "idle" /\ call[d].ret = ""
      BY <1>1, <2>2, <3>1, Zenon DEF SyncOK, At
    <3>3. call'[d].pc = "idle" /\ call'[d].ret = ""
      BY <1>1, <2>2, <3>2, Zenon
    <3> QED BY <3>3, Zenon DEF SyncOK, BeforeSync, AfterSync, Updating, Succeeded, Resolved
  <2> QED BY <2>1, <2>2
<1>4. \A d \in Callers : SyncOK(call[d], LB(d))'
  BY <1>3, Zenon DEF SyncOK, LB, BeforeSync, AfterSync, Updating, Succeeded, Resolved, Synced,
              Accounted, Serves, Wants, Chosen
<1>5. \A d \in Callers : d # c => At(d, "idle")'
  BY <1>1 DEF At
<1> QED BY <1>4, <1>5 DEF SyncInv

LEMMA ReturnSync ==
    ASSUME Good, SyncInv, NEW c \in Callers, ~At(c, "idle"), NEW ret \in Rets, Return(c, ret),
           ret # "ok" \/ call[c].op = "Delete"
    PROVE  SyncInv'
<1> DEFINE r == [call[c] EXCEPT !.pc = "done", !.ret = ret]
<1>1. r.pc = "done" /\ r.op = call[c].op /\ r.ret = ret
  BY ReturnType, ZenonT(30) DEF Good, GoodCalls
<1> HIDE DEF r
<1>2. \A b : SyncOK(r, b)
  BY <1>1, SMTT(30) DEF SyncOK, BeforeSync, AfterSync, Updating, Succeeded, Resolved
<1> QED BY <1>2, BecomesSync DEF Return, r

\* A request of the call leaves its load balancer and the call in order.
LEMMA RequestSync ==
    ASSUME Good, SyncInv, NEW c \in Callers, ~At(c, "idle"), call[c].id \in LBIds,
           NEW name, NEW accepted, NEW newLB, NEW next, next.id = call[c].id,
           accepted /\ LB(c).exists => SyncOK(next, newLB),
           Request(c, name, accepted, newLB, next)
    PROVE  SyncInv'
<1>1. CASE /\ accepted /\ LB(c).exists /\ Becomes(c, next)
           /\ lbs' = [lbs EXCEPT ![call[c].id] = newLB]
  <2>1. lbs'[next.id] = newLB
    BY <1>1 DEF Good
  <2> QED BY <1>1, <2>1, BecomesSync, SMTT(30)
<1>2. CASE Return(c, "error")
  BY <1>2, ReturnSync, Zenon DEF Rets
<1> QED BY <1>1, <1>2, SMTT(30) DEF Request

LEMMA IdleSync == \A b : SyncOK(NoCall, b)
<1>1. NoCall.pc = "idle" /\ NoCall.ret = ""
  BY DEF NoCall
<1> QED BY <1>1, Zenon DEF SyncOK, BeforeSync, AfterSync, Updating, Succeeded, Resolved

LEMMA SyncInitially == Init => SyncInv
<1>1. NoCall.pc = "idle"
  BY DEF NoCall
<1>2. Init => \A c \in Callers : call[c] = NoCall
  BY DEF Init
<1> QED BY <1>1, <1>2, IdleSync, SMTT(30) DEF SyncInv, At

LEMMA PortsOf ==
    ASSUME NEW k \in Calls, NEW b \in LBTypes
    PROVE  Ports(Wants(k), b.listeners)
<1>1. k.service \in Services \cup {NoService} /\ b.listeners \in [PortNumbers -> Listeners]
  BY Zenon DEF Calls, LBTypes
<1>2. CASE k.service = NoService
  <2>1. Wants(k) = {}
    BY <1>2 DEF Wants, NoService
  <2> QED BY <1>1, <2>1 DEF Ports
<1>3. CASE k.service \in Services
  <2>1. Wants(k) \subseteq k.service.Ports /\ k.service.Ports \subseteq ServicePorts
    BY <1>3, PortsOK DEF Wants
  <2>2. \A sp \in k.service.Ports : sp.Protocol \in Protocols
    BY <1>3, LoadBalancerAssumption
  <2>3. \A p, q \in k.service.Ports : p.Port = q.Port /\ p.Protocol = q.Protocol => p = q
    BY <1>3, LoadBalancerAssumption
  <2>4. \A sp \in ServicePorts : sp.Port \in PortNumbers
    BY DEF PortNumbers
  <2> QED BY <1>1, <2>1, <2>2, <2>3, <2>4 DEF Ports
<1> QED BY <1>1, <1>2, <1>3

\* A call that still looks for its load balancer keeps its arguments.
SameSearch(r, k) == /\ r.op = k.op /\ r.ret = k.ret
                    /\ r.removals = k.removals /\ r.created = k.created
                    /\ r.instances = k.instances /\ r.nodes = k.nodes

Searching == {"list", "describe", "create"}

LEMMA SearchUpdates ==
    ASSUME NEW k \in Calls, NEW pc, NEW n, NEW id
    PROVE  /\ LET r == [k EXCEPT !.pc = pc] IN SameSearch(r, k) /\ r.pc = pc
           /\ LET r == [k EXCEPT !.pc = pc, !.retry = n] IN SameSearch(r, k) /\ r.pc = pc
           /\ LET r == [k EXCEPT !.pc = pc, !.id = id] IN SameSearch(r, k) /\ r.pc = pc
BY Zenon DEF Calls, SameSearch

LEMMA SearchSync ==
    ASSUME NEW k, NEW b, SyncOK(k, b), k.pc \in Searching,
           NEW r, SameSearch(r, k), r.pc \in Searching, NEW b2
    PROVE  SyncOK(r, b2)
<1>1. r.ret = "" /\ r.removals = {} /\ r.created = {} /\ ~Succeeded(r)
  BY Zenon DEF SyncOK, SameSearch, Searching, BeforeSync, Succeeded
<1>2. Resolved(r) => Chosen(r)
  <2>1. Resolved(r) => Resolved(k)
    BY <1>1, Zenon DEF Resolved, SameSearch, Searching
  <2>2. Chosen(k) => Chosen(r)
    BY DEF Chosen, SameSearch
  <2> QED BY <2>1, <2>2, Zenon DEF SyncOK
<1> QED BY <1>1, <1>2, Zenon DEF SyncOK, AfterSync, Updating, Searching

LEMMA GetFailsSync ==
    ASSUME Good, SyncInv, NEW c \in Callers, At(c, "list") \/ At(c, "describe"),
           GetFails(c) \/ GetFindsNone(c)
    PROVE  SyncInv'
<1>0. call[c] \in Calls /\ ~At(c, "idle") /\ SyncOK(call[c], LB(c)) /\ call[c].pc \in Searching
  BY SMTT(30) DEF Good, GoodCalls, SyncInv, At, Searching
<1>1. ASSUME NEW r, SameSearch(r, call[c]), r.pc \in Searching, Becomes(c, r) PROVE SyncInv'
  <2>1. SyncOK(r, lbs'[r.id])
    BY <1>0, <1>1, SearchSync
  <2> QED BY <1>0, <1>1, <2>1, BecomesSync, SMTT(30)
<1>2. ASSUME NEW err \in BOOLEAN, PollAgain(c, err) PROVE SyncInv'
  <2> DEFINE r == [call[c] EXCEPT !.pc = "list", !.retry = call[c].retry - 1]
  <2>1. SameSearch(r, call[c]) /\ r.pc = "list"
    BY <1>0, Zenon DEF Calls, SameSearch
  <2>2. Becomes(c, r) \/ Return(c, "error") \/ Return(c, "nothing")
    BY <1>2 DEF PollAgain
  <2> HIDE DEF r
  <2> QED BY <1>0, <1>1, <2>1, <2>2, ReturnSync, Zenon DEF Searching, Rets
<1>3. ASSUME Goto(c, "create") PROVE SyncInv'
  <2> DEFINE r == [call[c] EXCEPT !.pc = "create"]
  <2>1. SameSearch(r, call[c]) /\ r.pc = "create"
    BY <1>0, SearchUpdates, Zenon
  <2>2. Becomes(c, r)
    BY <1>3 DEF Goto
  <2> HIDE DEF r
  <2> QED BY <1>1, <2>1, <2>2 DEF Searching
<1>4. CASE GetFails(c)
  BY <1>0, <1>2, <1>4, ReturnSync, ZenonT(30) DEF GetFails, Rets
<1>5. CASE GetFindsNone(c)
  <2>1. ASSUME Return(c, "error") \/ (Return(c, "ok") /\ call[c].op = "Delete") PROVE SyncInv'
    BY <1>0, <2>1, ReturnSync, Zenon DEF Rets
  <2> QED BY <1>2, <1>3, <1>5, <2>1, Zenon DEF GetFindsNone
<1> QED BY <1>4, <1>5

\* Within ensureLBListeners only what is left to do changes.
SameSync(r, k) == /\ r.pc = k.pc /\ r.op = k.op /\ r.ret = k.ret /\ r.id = k.id
                  /\ r.service = k.service /\ r.nodes = k.nodes
                  /\ r.instances = k.instances /\ r.servers = k.servers

Left(r, a, e, s, m, d) == /\ r.actual = a /\ r.expected = e /\ r.stopped = s
                          /\ r.removals = m /\ r.created = d

LEMMA SyncUpdates ==
    ASSUME NEW k \in Calls, NEW a, NEW e, NEW s
    PROVE  /\ LET r == [k EXCEPT !.actual = a, !.expected = e, !.stopped = s]
              IN  SameSync(r, k) /\ Left(r, a, e, s, k.removals, k.created)
           /\ LET r == [k EXCEPT !.actual = a, !.removals = s]
              IN  SameSync(r, k) /\ Left(r, a, k.expected, k.stopped, s, k.created)
           /\ LET r == [k EXCEPT !.stopped = s]
              IN  SameSync(r, k) /\ Left(r, k.actual, k.expected, s, k.removals, k.created)
           /\ LET r == [k EXCEPT !.removals = s]
              IN  SameSync(r, k) /\ Left(r, k.actual, k.expected, k.stopped, s, k.created)
           /\ LET r == [k EXCEPT !.created = s]
              IN  SameSync(r, k) /\ Left(r, k.actual, k.expected, k.stopped, k.removals, s)
           /\ LET r == [k EXCEPT !.expected = e, !.created = s]
              IN  SameSync(r, k) /\ Left(r, k.actual, e, k.stopped, k.removals, s)
<1>1. LET r == [k EXCEPT !.actual = a, !.expected = e, !.stopped = s]
      IN  SameSync(r, k) /\ Left(r, a, e, s, k.removals, k.created)
  BY Zenon DEF Calls, SameSync, Left
<1>2. LET r == [k EXCEPT !.actual = a, !.removals = s]
      IN  SameSync(r, k) /\ Left(r, a, k.expected, k.stopped, s, k.created)
  BY Zenon DEF Calls, SameSync, Left
<1>3. LET r == [k EXCEPT !.stopped = s]
      IN  SameSync(r, k) /\ Left(r, k.actual, k.expected, s, k.removals, k.created)
  BY Zenon DEF Calls, SameSync, Left
<1>4. LET r == [k EXCEPT !.removals = s]
      IN  SameSync(r, k) /\ Left(r, k.actual, k.expected, k.stopped, s, k.created)
  BY Zenon DEF Calls, SameSync, Left
<1>5. LET r == [k EXCEPT !.created = s]
      IN  SameSync(r, k) /\ Left(r, k.actual, k.expected, k.stopped, k.removals, s)
  BY Zenon DEF Calls, SameSync, Left
<1>6. LET r == [k EXCEPT !.expected = e, !.created = s]
      IN  SameSync(r, k) /\ Left(r, k.actual, e, k.stopped, k.removals, s)
  BY Zenon DEF Calls, SameSync, Left
<1> QED BY <1>1, <1>2, <1>3, <1>4, <1>5, <1>6

LEMMA ListenersStep ==
    ASSUME NEW k, NEW b, SyncOK(k, b), k.pc = "listeners", NEW r, SameSync(r, k),
           NEW b2, b2.exists = b.exists, b2.backends = b.backends,
           NEW a, NEW e, NEW s, NEW m, NEW d, Left(r, a, e, s, m, d),
           Accounted(Wants(k), a, e, s, m, d, b2.listeners)
    PROVE  SyncOK(r, b2)
<1>1. r.pc = "listeners" /\ r.ret = "" /\ ~Succeeded(r) /\ b2.exists /\ b2.backends = r.servers
  BY Zenon DEF SyncOK, SameSync, Succeeded
<1>2. Wants(r) = Wants(k)
  BY Zenon DEF Wants, SameSync
<1>3. Resolved(r) => Chosen(r)
  <2>1. Resolved(r) => Resolved(k)
    BY <1>1, Zenon DEF Resolved, SameSync
  <2>2. Chosen(k) => Chosen(r)
    BY ZenonT(30) DEF Chosen, SameSync
  <2> QED BY <2>1, <2>2, Zenon DEF SyncOK
<1>4. Accounted(Wants(r), r.actual, r.expected, r.stopped, r.removals, r.created, b2.listeners)
  BY <1>2, SMTT(30) DEF Left
<1> QED BY <1>1, <1>3, <1>4, Zenon DEF SyncOK, BeforeSync, AfterSync, Updating

LEMMA SyncStep ==
    ASSUME Serial
    PROVE  Good /\ SyncInv /\ [Next]_vars => SyncInv'
<1> SUFFICES ASSUME Good, SyncInv, [Next]_vars PROVE SyncInv'
  BY SMTT(30)
<1>0. \A c \in Callers : /\ call[c] \in Calls /\ Located(call[c]) /\ SyncOK(call[c], LB(c))
                         /\ (call[c].id \in LBIds => LB(c) \in LBTypes)
  BY DEF Good, GoodCalls, SyncInv, LB
<1>1. ASSUME NEW c \in Callers, NEW op \in Ops, NEW s \in Services, NEW ns \in NodeLists,
             Start(c, op, s, ns)
      PROVE  SyncInv'
  <2> DEFINE begin == [NoCall EXCEPT !.op = op, !.service = s, !.nodes = ns]
  <2>1. /\ begin \in Calls /\ begin.op = op /\ begin.ret = ""
        /\ begin.removals = {} /\ begin.created = {}
    <3>1. NoCall \in Calls /\ NoCall.ret = "" /\ NoCall.removals = {} /\ NoCall.created = {}
      BY InitialTypes, Zenon DEF GoodCalls, NoCall
    <3> QED BY <3>1, Zenon DEF Calls
  <2>2. \A d \in Callers : At(d, "idle")
    BY <1>1 DEF Start
  <2> HIDE DEF begin
  <2>3. op # "Ensure" => \A b : SyncOK([begin EXCEPT !.pc = "list"], b)
    <3> DEFINE r == [begin EXCEPT !.pc = "list"]
    <3>1. r.pc = "list" /\ SameSearch(r, begin)
      BY <2>1, SearchUpdates, Zenon
    <3> HIDE DEF r
    <3>2. op # "Ensure" => \A b : SyncOK(r, b)
      BY <2>1, <3>1, Zenon DEF SyncOK, SameSearch, AfterSync, Updating, Succeeded, Resolved
    <3> QED BY <3>2 DEF r
  <2>4. op = "Ensure" => \A b : SyncOK([begin EXCEPT !.pc = "instances"], b)
    <3> DEFINE r == [begin EXCEPT !.pc = "instances"]
    <3>1. r.pc = "instances" /\ SameSearch(r, begin)
      BY <2>1, SearchUpdates, Zenon
    <3> HIDE DEF r
    <3>2. op = "Ensure" => \A b : SyncOK(r, b)
      BY <2>1, <3>1, Zenon DEF SyncOK, SameSearch, AfterSync, Updating, Succeeded, Resolved
    <3> QED BY <3>2 DEF r
  <2>5. \A b : SyncOK([begin EXCEPT !.pc = "done", !.ret = "error"], b)
    <3> DEFINE r == [begin EXCEPT !.pc = "done", !.ret = "error"]
    <3>1. r.pc = "done" /\ r.ret = "error"
      BY <2>1, ReturnType, ZenonT(30) DEF Rets
    <3> HIDE DEF r
    <3>2. \A b : SyncOK(r, b)
      BY <3>1 DEF SyncOK, BeforeSync, AfterSync, Updating, Succeeded, Resolved
    <3> QED BY <3>2 DEF r
  <2> QED BY <1>1, <2>2, <2>3, <2>4, <2>5, BecomesSync DEF Start, begin
<1>2. ASSUME NEW c \in Callers, GetInstances(c) PROVE SyncInv'
  <2> DEFINE found == getInstancesByNodeNames(Inventory, call[c].nodes)
             ids == {found.instances[k].InstanceId : k \in DOMAIN found.instances}
             next == IF call[c].op = "Ensure" THEN "list" ELSE "remove"
             r == [call[c] EXCEPT !.pc = next, !.instances = ids]
  <2>1. /\ (found.err = "nil" /\ Becomes(c, r)) \/ Return(c, "error")
        /\ lbs' = lbs /\ At(c, "instances")
    BY <1>2 DEF GetInstances
  <2>2. found.err = "nil" => \A i \in Inventory :
            i.InstanceId \in ids <=> \E n \in DOMAIN call[c].nodes : By(call[c].nodes[n], i)
    <3>1. call[c].nodes \in NodeLists \cup {<<>>}
      BY <1>0, Zenon DEF Calls
    <3>2. <<>> \in Seq(STRING)
      BY SMTT(30)
    <3>3. call[c].nodes \in Seq(STRING)
      BY <3>1, <3>2, VPCAssumption, Zenon
    <3> QED BY <3>3, FoundChosen, Zenon
  <2>3. /\ r.pc = next /\ r.op = call[c].op /\ r.ret = call[c].ret /\ r.id = call[c].id
        /\ r.instances = ids /\ r.nodes = call[c].nodes /\ r.servers = call[c].servers
        /\ r.service = call[c].service
        /\ r.removals = call[c].removals /\ r.created = call[c].created
    <3> HIDE DEF found, ids, next
    <3> QED BY <1>0, ZenonT(30) DEF Calls
  <2> HIDE DEF r, ids, found
  <2>4. ~At(c, "idle") /\ call[c].ret = ""
    BY <1>0, <2>1, Zenon DEF At, SyncOK
  <2>5. ASSUME found.err = "nil" PROVE SyncOK(r, LB(c))
    <3>1. Chosen(r)
      BY <2>2, <2>3, <2>5 DEF Chosen
    <3>2. CASE call[c].op = "Ensure"
      <4>1. r.removals = {} /\ r.created = {}
        BY <1>0, <2>1, <2>3, <3>2, Zenon DEF SyncOK, BeforeSync, At
      <4> QED BY <2>3, <2>4, <3>1, <3>2, <4>1, Zenon DEF SyncOK, AfterSync, Updating, Succeeded
    <3>3. CASE call[c].op # "Ensure"
      <4>1. Updating(call[c])
        BY <2>1, <3>3 DEF Updating, At
      <4>2. Synced(call[c], LB(c)) /\ LB(c).exists /\ LB(c).backends = r.servers
        BY <1>0, <2>3, <4>1, Zenon DEF SyncOK, AfterSync
      <4>3. Synced(r, LB(c))
        BY <2>3, <4>2, Zenon DEF Synced, Wants
      <4> QED BY <2>3, <2>4, <3>1, <3>3, <4>2, <4>3, ZenonT(30)
              DEF SyncOK, BeforeSync, Updating, Succeeded
    <3> QED BY <3>2, <3>3, SMTT(30)
  <2> QED BY <2>1, <2>3, <2>4, <2>5, BecomesSync, ReturnSync, Zenon DEF Rets, LB
<1>3. ASSUME NEW c \in Callers, DescribeLoadBalancers(c) PROVE SyncInv'
  <2>1. At(c, "list") /\ ~At(c, "idle") /\ call[c].pc \in Searching
    BY <1>3, Zenon DEF DescribeLoadBalancers, At, Searching
  <2>2. ASSUME NEW id \in LBIds, Becomes(c, [call[c] EXCEPT !.pc = "describe", !.id = id])
        PROVE  SyncInv'
    <3> DEFINE r == [call[c] EXCEPT !.pc = "describe", !.id = id]
    <3>1. r.pc = "describe" /\ SameSearch(r, call[c])
      BY <1>0, Zenon DEF Calls, SameSearch
    <3> HIDE DEF r
    <3>2. SyncOK(r, lbs'[r.id])
      BY <1>0, <2>1, <3>1, SearchSync, SMTT(30) DEF Searching
    <3> QED BY <2>1, <2>2, <3>2, BecomesSync, Zenon DEF r
  <2> QED BY <1>3, <2>1, <2>2, GetFailsSync, Zenon DEF DescribeLoadBalancers
<1>4. ASSUME NEW c \in Callers, DescribeLoadBalancerAttribute(c) PROVE SyncInv'
  <2> DEFINE a == {[Port |-> p, Protocol |-> LB(c).listeners[p].Protocol] :
                      p \in {q \in PortNumbers : LB(c).listeners[q] # NoListener}}
             e == {p \in call[c].service.Ports : p.NodePort # 0}
             b == LB(c).backends
             r == [call[c] EXCEPT !.pc = "listeners", !.actual = a, !.servers = b,
                                  !.expected = e]
  <2>0. \/ GetFails(c)
        \/ call[c].op = "Delete" /\ Goto(c, "delete")
        \/ LB(c).exists /\ Becomes(c, r)
    BY <1>4 DEF DescribeLoadBalancerAttribute
  <2>1. /\ At(c, "describe") /\ lbs' = lbs /\ ~At(c, "idle") /\ call[c].ret = ""
        /\ call[c].removals = {} /\ call[c].created = {}
    BY <1>0, <1>4, Zenon DEF DescribeLoadBalancerAttribute, At, SyncOK, BeforeSync
  <2>2. CASE GetFails(c)
    BY <2>1, <2>2, GetFailsSync, Zenon
  <2>3. CASE call[c].op = "Delete" /\ Goto(c, "delete")
    <3> DEFINE k == [call[c] EXCEPT !.pc = "delete"]
    <3>1. k.pc = "delete" /\ SameSearch(k, call[c])
      BY <1>0, SearchUpdates, Zenon
    <3> HIDE DEF k
    <3>2. \A x : SyncOK(k, x)
      BY <2>1, <2>3, <3>1, Zenon DEF SyncOK, SameSearch, BeforeSync, AfterSync, Updating, Succeeded,
                              Resolved
    <3> QED BY <2>1, <2>3, <3>2, BecomesSync, Zenon DEF Goto, k
  <2>4. CASE LB(c).exists /\ Becomes(c, r)
    <3>2. e = Wants(call[c])
      BY SMTT(30) DEF Wants
    <3>3. Accounted(e, a, e, call[c].stopped, {}, {}, LB(c).listeners)
      BY AccountedSnapshot
    <3> HIDE DEF a, b, e
    <3>4. /\ r.pc = "listeners" /\ r.actual = a /\ r.servers = b /\ r.expected = e
          /\ r.op = call[c].op /\ r.ret = call[c].ret /\ r.id = call[c].id
          /\ r.service = call[c].service /\ r.nodes = call[c].nodes
          /\ r.instances = call[c].instances /\ r.stopped = call[c].stopped
          /\ r.removals = {} /\ r.created = {}
      BY <1>0, <2>1, ZenonT(30) DEF Calls
    <3> HIDE DEF r
    <3>5. Wants(r) = e
      BY <3>2, <3>4, SMTT(30) DEF Wants
    <3>6. Resolved(r) => Chosen(r)
      <4>1. Resolved(r) => Resolved(call[c])
        BY <2>1, <3>4, Zenon DEF Resolved, Succeeded, At
      <4>2. Chosen(call[c]) => Chosen(r)
        BY <3>4, SMTT(30) DEF Chosen
      <4> QED BY <1>0, <4>1, <4>2, Zenon DEF SyncOK
    <3>7. SyncOK(r, LB(c))
      BY <2>1, <2>4, <3>3, <3>4, <3>5, <3>6, Zenon
         DEF SyncOK, BeforeSync, AfterSync, Updating, Succeeded, b
    <3> QED BY <2>1, <2>4, <3>4, <3>7, BecomesSync, Zenon DEF LB
  <2> QED BY <2>0, <2>2, <2>3, <2>4
<1>5. ASSUME NEW c \in Callers, CreateLoadBalancer(c) PROVE SyncInv'
  <2> DEFINE r == [call[c] EXCEPT !.pc = "list", !.retry = Retries]
  <2>1. At(c, "create") /\ ~At(c, "idle") /\ call[c].pc \in Searching
    BY <1>5 DEF CreateLoadBalancer, At, Searching
  <2>2. r.pc = "list" /\ SameSearch(r, call[c])
    BY <1>0, ZenonT(30) DEF Calls, SameSearch
  <2>3. Becomes(c, r) \/ Return(c, "error")
    BY <1>5, Zenon DEF CreateLoadBalancer
  <2> HIDE DEF r
  <2>4. SyncOK(r, lbs'[r.id])
    BY <1>0, <2>1, <2>2, SearchSync DEF Searching
  <2> QED BY <2>1, <2>3, <2>4, BecomesSync, ReturnSync, Zenon DEF Rets
<1>6. ASSUME NEW c \in Callers, At(c, "listeners")
      PROVE  /\ call[c].id \in LBIds /\ LB(c) \in LBTypes /\ ~At(c, "idle")
             /\ call[c].pc = "listeners" /\ Ports(Wants(call[c]), LB(c).listeners)
             /\ Accounted(Wants(call[c]), call[c].actual, call[c].expected, call[c].stopped,
                          call[c].removals, call[c].created, LB(c).listeners)
  BY <1>0, <1>6, PortsOf, Zenon DEF At, Located, SyncOK
<1>7. ASSUME NEW c \in Callers, DiffListener(c) PROVE SyncInv'
  <2>1. PICK l \in call[c].actual : /\ Becomes(c, Compare(c, l, LB(c).listeners[l.Port]))
                                    /\ lbs' = lbs /\ At(c, "listeners")
    BY <1>7, SMTT(30) DEF DiffListener
  <2> DEFINE k == call[c]
             L == LB(c).listeners
             a == k.actual \ {l}
             want == {sp \in k.expected : sp.Port = l.Port /\ sp.Protocol = l.Protocol}
             e == k.expected \ want
             t == IF L[l.Port].Status = "stopped" THEN k.stopped \cup {l.Port} ELSE k.stopped
             m == k.removals \cup {l.Port}
             r1 == [k EXCEPT !.actual = a, !.expected = e, !.stopped = t]
             r2 == [k EXCEPT !.actual = a, !.removals = m]
             hit == \E sp \in want : L[l.Port].BackendServerPort = sp.NodePort
  <2>2. Becomes(c, IF hit THEN r1 ELSE r2)
    BY <2>1 DEF Compare, Wanted
  <2>3. k.actual \subseteq ListenerKeys
    BY <1>0, Zenon DEF Calls, ListenerKeys
  <2>4. IF hit THEN Accounted(Wants(k), a, e, t, k.removals, k.created, L)
        ELSE Accounted(Wants(k), a, k.expected, k.stopped, m, k.created, L)
    BY <1>6, <2>1, <2>3, AccountedCompare, Zenon
  <2> HIDE DEF a, want, e, t, m, hit
  <2>5. /\ SameSync(r1, k) /\ Left(r1, a, e, t, k.removals, k.created)
        /\ SameSync(r2, k) /\ Left(r2, a, k.expected, k.stopped, m, k.created)
    BY <1>0, SyncUpdates, Zenon
  <2> HIDE DEF r1, r2
  <2>6. IF hit THEN SyncOK(r1, LB(c)) ELSE SyncOK(r2, LB(c))
    BY <1>0, <1>6, <2>1, <2>4, <2>5, ListenersStep, ZenonT(30)
  <2>7. r1.id = k.id /\ r2.id = k.id
    BY <2>5, SMTT(30) DEF SameSync
  <2> QED BY <1>6, <2>1, <2>2, <2>6, <2>7, BecomesSync, ZenonT(30) DEF LB
<1>8. ASSUME NEW c \in Callers, AttributesFail(c) \/ Crash PROVE SyncInv'
  <2>1. call' = [d \in Callers |-> NoCall]
    BY <1>8, SMTT(30) DEF AttributesFail, Panic, Crash
  <2>2. NoCall.pc = "idle"
    BY DEF NoCall
  <2>3. \A d \in Callers : call'[d] = NoCall
    BY <2>1, SMTT(30)
  <2>4. \A d \in Callers : SyncOK(call'[d], lbs'[call'[d].id])
    BY <2>3, IdleSync
  <2>5. \A d \in Callers : SyncOK(call[d], LB(d))'
    BY <2>4, Zenon DEF SyncOK, LB, BeforeSync, AfterSync, Updating, Succeeded, Resolved, Synced,
                Accounted, Serves, Wants, Chosen
  <2> QED BY <2>2, <2>3, <2>5, SMTT(30) DEF SyncInv, At
<1>9. ASSUME NEW c \in Callers, At(c, "listeners"), NEW name, NEW accepted, NEW p \in PortNumbers,
             NEW l, NEW r, NEW a, NEW e, NEW s, NEW m, NEW d,
             SameSync(r, call[c]), Left(r, a, e, s, m, d), accepted => l \in Listeners,
             accepted => Accounted(Wants(call[c]), a, e, s, m, d,
                                   [LB(c).listeners EXCEPT ![p] = l]),
             Request(c, name, accepted, SetListener(c, p, l), r)
      PROVE  SyncInv'
  <2> DEFINE b2 == SetListener(c, p, l)
  <2>1. /\ b2.exists = LB(c).exists /\ b2.backends = LB(c).backends
        /\ b2.listeners = [LB(c).listeners EXCEPT ![p] = l]
    BY <1>6, <1>9 DEF SetListener, LBTypes
  <2>2. r.id = call[c].id
    BY <1>9, Zenon DEF SameSync
  <2> HIDE DEF b2
  <2>3. ASSUME accepted PROVE SyncOK(r, b2)
    <3>1. Accounted(Wants(call[c]), a, e, s, m, d, b2.listeners)
      BY <1>9, <2>1, <2>3
    <3> QED BY <1>0, <1>6, <1>9, <2>1, <3>1, ListenersStep, ZenonT(30)
  <2> QED BY <1>6, <1>9, <2>2, <2>3, RequestSync, Zenon DEF b2
<1>10. ASSUME NEW c \in Callers, At(c, "listeners"), NEW p \in PortNumbers
       PROVE  LB(c).listeners[p] # NoListener =>
                 [LB(c).listeners[p] EXCEPT !.Status = "running"] \in Listeners
  <2>1. LB(c).listeners[p] \in Listeners
    BY <1>6, <1>10, SMTT(30) DEF LBTypes
  <2> QED BY <2>1, SMTT(30) DEF Listeners
<1>11. ASSUME NEW c \in Callers, StartStopped(c) PROVE SyncInv'
  <2>1. At(c, "listeners") /\ call[c].actual = {}
    BY <1>11 DEF StartStopped
  <2>2. PICK p \in call[c].stopped :
           Request(c, "StartListener", LB(c).listeners[p] # NoListener, Started(c, p),
                   [call[c] EXCEPT !.stopped = call[c].stopped \ {p}])
    BY <1>11, Zenon DEF StartStopped
  <2> DEFINE s == call[c].stopped \ {p}
             r == [call[c] EXCEPT !.stopped = s]
             l == [LB(c).listeners[p] EXCEPT !.Status = "running"]
  <2>3. p \in PortNumbers
    BY <1>0, Zenon DEF Calls
  <2>4. LB(c).listeners[p] # NoListener =>
           Accounted(Wants(call[c]), {}, call[c].expected, s, call[c].removals,
                     call[c].created, [LB(c).listeners EXCEPT ![p] = l])
    <3>1. /\ Ports(Wants(call[c]), LB(c).listeners)
          /\ Accounted(Wants(call[c]), {}, call[c].expected, call[c].stopped,
                       call[c].removals, call[c].created, LB(c).listeners)
      BY <1>6, <2>1
    <3> QED BY <2>3, <3>1, AccountedStart, SMTT(30)
  <2>5. Request(c, "StartListener", LB(c).listeners[p] # NoListener, SetListener(c, p, l), r)
    BY <2>2 DEF Started
  <2>6. LB(c).listeners[p] # NoListener => l \in Listeners
    BY <1>10, <2>1, <2>3
  <2> HIDE DEF s, l
  <2>7. /\ SameSync(r, call[c])
        /\ Left(r, {}, call[c].expected, s, call[c].removals, call[c].created)
    BY <1>0, <2>1, SyncUpdates, Zenon
  <2> HIDE DEF r
  <2> QED BY <1>9, <2>1, <2>3, <2>4, <2>5, <2>6, <2>7, Zenon
<1>12. ASSUME NEW c \in Callers, DeleteListener(c) PROVE SyncInv'
  <2>1. At(c, "listeners") /\ call[c].actual = {} /\ call[c].stopped = {}
    BY <1>12 DEF DeleteListener
  <2>2. PICK p \in call[c].removals :
           Request(c, "DeleteListener", LB(c).listeners[p] # NoListener,
                   SetListener(c, p, NoListener),
                   [call[c] EXCEPT !.removals = call[c].removals \ {p}])
    BY <1>12, Zenon DEF DeleteListener
  <2> DEFINE m == call[c].removals \ {p}
             r == [call[c] EXCEPT !.removals = m]
  <2>3. p \in PortNumbers
    BY <1>0, Zenon DEF Calls
  <2>4. Accounted(Wants(call[c]), {}, call[c].expected, {}, m, call[c].created,
                  [LB(c).listeners EXCEPT ![p] = NoListener])
    BY <1>6, <2>1, <2>3, AccountedRemove, Zenon
  <2> HIDE DEF m
  <2>5. SameSync(r, call[c]) /\ Left(r, {}, call[c].expected, {}, m, call[c].created)
    BY <1>0, <2>1, SyncUpdates, Zenon
  <2>6. Request(c, "DeleteListener", LB(c).listeners[p] # NoListener,
                SetListener(c, p, NoListener), r) /\ NoListener \in Listeners
    BY <2>2 DEF m, Listeners
  <2> HIDE DEF r
  <2> QED BY <1>9, <2>1, <2>3, <2>4, <2>5, <2>6, Zenon
<1>13. ASSUME NEW c \in Callers, CreateListener(c) PROVE SyncInv'
  <2>1. /\ At(c, "listeners") /\ call[c].actual = {} /\ call[c].stopped = {}
        /\ call[c].removals = {} /\ call[c].created = {}
    BY <1>13 DEF CreateListener, Diffed
  <2>2. PICK sp \in call[c].expected :
           Request(c, "CreateListener", LB(c).listeners[sp.Port] = NoListener,
                   SetListener(c, sp.Port, [Protocol |-> sp.Protocol, Status |-> "stopped",
                                            BackendServerPort |-> sp.NodePort]),
                   [call[c] EXCEPT !.expected = call[c].expected \ {sp},
                                   !.created = {sp.Port}])
    BY <1>13, Zenon DEF CreateListener
  <2> DEFINE e == call[c].expected \ {sp}
             d == {sp.Port}
             r == [call[c] EXCEPT !.expected = e, !.created = d]
             l == [Protocol |-> sp.Protocol, Status |-> "stopped",
                   BackendServerPort |-> sp.NodePort]
  <2>3. sp \in ServicePorts /\ sp.Port \in PortNumbers /\ sp.NodePort \in NodePorts
    BY <1>0, ZenonT(30) DEF Calls, PortNumbers, WantedPorts, NodePorts
  <2>4. sp.Protocol \in Protocols
    BY <2>3, LoadBalancerAssumption DEF ServicePorts
  <2>5. l \in Listeners
    BY <2>3, <2>4, SMTT(30) DEF Listeners
  <2>6. LB(c).listeners[sp.Port] = NoListener =>
           Accounted(Wants(call[c]), {}, e, {}, {}, d, [LB(c).listeners EXCEPT ![sp.Port] = l])
    BY <1>6, <2>1, AccountedCreate, Zenon
  <2>7. Request(c, "CreateListener", LB(c).listeners[sp.Port] = NoListener,
                SetListener(c, sp.Port, l), r)
    BY <2>2
  <2> HIDE DEF e, d, l
  <2>8. SameSync(r, call[c]) /\ Left(r, {}, e, {}, {}, d)
    BY <1>0, <2>1, SyncUpdates, Zenon
  <2> HIDE DEF r
  <2> QED BY <1>9, <2>1, <2>3, <2>5, <2>6, <2>7, <2>8, Zenon
<1>14. ASSUME NEW c \in Callers, StartCreated(c) PROVE SyncInv'
  <2>1. /\ At(c, "listeners") /\ call[c].actual = {} /\ call[c].stopped = {}
        /\ call[c].removals = {}
    BY <1>14 DEF StartCreated, Diffed
  <2>2. PICK p \in call[c].created :
           Request(c, "StartListener", LB(c).listeners[p] # NoListener, Started(c, p),
                   [call[c] EXCEPT !.created = {}])
    BY <1>14 DEF StartCreated
  <2> DEFINE r == [call[c] EXCEPT !.created = {}]
             l == [LB(c).listeners[p] EXCEPT !.Status = "running"]
  <2>3. p \in PortNumbers
    BY <1>0, Zenon DEF Calls
  <2>4. LB(c).listeners[p] # NoListener =>
           Accounted(Wants(call[c]), {}, call[c].expected, {}, {}, {},
                     [LB(c).listeners EXCEPT ![p] = l])
    BY <1>6, <2>1, <2>3, AccountedStart, ZenonT(30)
  <2>5. Request(c, "StartListener", LB(c).listeners[p] # NoListener, SetListener(c, p, l), r)
    BY <2>2 DEF Started
  <2>6. LB(c).listeners[p] # NoListener => l \in Listeners
    BY <1>10, <2>1, <2>3
  <2> HIDE DEF l
  <2>7. SameSync(r, call[c]) /\ Left(r, {}, call[c].expected, {}, {}, {})
    BY <1>0, <2>1, SyncUpdates, Zenon
  <2> HIDE DEF r
  <2> QED BY <1>9, <2>1, <2>3, <2>4, <2>5, <2>6, <2>7, Zenon
<1>15. ASSUME NEW c \in Callers, ListenersSynced(c) PROVE SyncInv'
  <2> DEFINE pc == IF call[c].op = "Ensure" THEN "remove" ELSE "instances"
             r == [call[c] EXCEPT !.pc = pc]
  <2>1. /\ At(c, "listeners") /\ call[c].actual = {} /\ call[c].stopped = {}
        /\ call[c].removals = {} /\ call[c].created = {} /\ call[c].expected = {}
        /\ Becomes(c, r) /\ lbs' = lbs
    BY <1>15 DEF ListenersSynced, Diffed, Goto
  <2>2. /\ Synced(call[c], LB(c)) /\ LB(c).exists /\ LB(c).backends = call[c].servers
        /\ call[c].ret = ""
    BY <1>0, <1>6, <2>1, Zenon DEF Synced, SyncOK
  <2> HIDE DEF pc
  <2>3. /\ r.pc = pc /\ r.op = call[c].op /\ r.ret = "" /\ r.id = call[c].id
        /\ r.service = call[c].service /\ r.nodes = call[c].nodes
        /\ r.instances = call[c].instances /\ r.servers = call[c].servers
    BY <1>0, <2>2, Zenon DEF Calls
  <2> HIDE DEF r
  <2>4. Synced(r, LB(c))
    BY <2>2, <2>3, Zenon DEF Synced, Wants
  <2>5. Resolved(r) => Chosen(r)
    <3>1. Resolved(r) => Resolved(call[c])
      BY <2>1, <2>3, Zenon DEF Resolved, Succeeded, At, pc
    <3>2. Chosen(call[c]) => Chosen(r)
      BY <2>3, Zenon DEF Chosen
    <3> QED BY <1>0, <3>1, <3>2, Zenon DEF SyncOK
  <2>6. SyncOK(r, LB(c))
    BY <2>2, <2>3, <2>4, <2>5, Zenon DEF SyncOK, BeforeSync, Succeeded, pc
  <2>7. SyncOK(r, lbs'[r.id])
    BY <2>1, <2>3, <2>6, Zenon DEF LB
  <2> QED BY <1>6, <2>1, <2>7, BecomesSync
<1>16. ASSUME NEW c \in Callers, At(c, "remove") \/ At(c, "add")
       PROVE  /\ call[c].id \in LBIds /\ LB(c) \in LBTypes /\ ~At(c, "idle") /\ call[c].ret = ""
              /\ Synced(call[c], LB(c)) /\ LB(c).exists /\ Chosen(call[c])
              /\ At(c, "remove") => LB(c).backends = call[c].servers
              /\ At(c, "add") => LB(c).backends = call[c].servers \cap call[c].instances
  BY <1>0, <1>16, Zenon DEF At, Located, SyncOK, AfterSync, Resolved
<1>17. ASSUME NEW c \in Callers, RemoveBackends(c) PROVE SyncInv'
  <2> DEFINE new == LB(c).backends \ (call[c].servers \ call[c].instances)
             r == [call[c] EXCEPT !.pc = "add"]
             b == [LB(c) EXCEPT !.backends = new]
  <2>1. At(c, "remove")
    BY <1>17 DEF RemoveBackends
  <2>2. /\ r.pc = "add" /\ r.op = call[c].op /\ r.ret = "" /\ r.id = call[c].id
        /\ r.service = call[c].service /\ r.nodes = call[c].nodes
        /\ r.instances = call[c].instances /\ r.servers = call[c].servers
    BY <1>0, <1>16, <2>1, Zenon DEF Calls
  <2>3. new = call[c].servers \cap call[c].instances
    BY <1>16, <2>1, Zenon
  <2>4. \/ Becomes(c, r) /\ lbs' = lbs /\ call[c].servers \ call[c].instances = {}
        \/ Request(c, "RemoveBackendServers", TRUE, b, r)
    BY <1>17, Zenon DEF RemoveBackends, Goto
  <2> HIDE DEF new, r
  <2>5. b.backends = new /\ b.exists = LB(c).exists /\ b.listeners = LB(c).listeners
    BY <1>16, <2>1, Zenon DEF LBTypes
  <2> HIDE DEF b
  <2>6. ASSUME NEW x, x.exists, x.listeners = LB(c).listeners, x.backends = new
        PROVE  SyncOK(r, x)
    <3>1. Synced(r, x) /\ Chosen(r)
      BY <1>16, <2>1, <2>2, <2>6, Zenon DEF Synced, Wants, Chosen
    <3> QED BY <2>2, <2>3, <2>6, <3>1, Zenon DEF SyncOK, BeforeSync, Updating, Succeeded
  <2>7. CASE Becomes(c, r) /\ lbs' = lbs /\ call[c].servers \ call[c].instances = {}
    <3>1. new = LB(c).backends
      BY <2>7 DEF new
    <3>2. SyncOK(r, LB(c))
      BY <1>16, <2>1, <2>6, <3>1, Zenon
    <3>3. SyncOK(r, lbs'[r.id])
      BY <2>2, <2>7, <3>2, Zenon DEF LB
    <3> QED BY <1>16, <2>1, <2>7, <3>3, BecomesSync, ZenonT(30)
  <2>8. CASE Request(c, "RemoveBackendServers", TRUE, b, r)
    <3>1. SyncOK(r, b)
      BY <1>16, <2>1, <2>5, <2>6, ZenonT(30)
    <3> QED BY <1>16, <2>1, <2>2, <2>8, <3>1, RequestSync, Zenon
  <2> QED BY <2>4, <2>7, <2>8, Zenon
<1>18. ASSUME NEW c \in Callers, AddBackends(c) PROVE SyncInv'
  <2> DEFINE new == LB(c).backends \cup (call[c].instances \ call[c].servers)
             r == [call[c] EXCEPT !.pc = "done", !.ret = "ok"]
             b == [LB(c) EXCEPT !.backends = new]
  <2>1. At(c, "add")
    BY <1>18 DEF AddBackends
  <2>2. /\ r.pc = "done" /\ r.op = call[c].op /\ r.ret = "ok" /\ r.id = call[c].id
        /\ r.service = call[c].service /\ r.nodes = call[c].nodes
        /\ r.instances = call[c].instances /\ r.servers = call[c].servers
    BY <1>0, <1>16, <2>1, ZenonT(30) DEF Calls
  <2>3. new = call[c].instances
    BY <1>16, <2>1, Zenon
  <2>4. \/ Becomes(c, r) /\ lbs' = lbs /\ call[c].instances \ call[c].servers = {}
        \/ Request(c, "AddBackendServers", TRUE, b, r)
    BY <1>18, Zenon DEF AddBackends, Return
  <2> HIDE DEF new, r
  <2>5. b.backends = new /\ b.exists = LB(c).exists /\ b.listeners = LB(c).listeners
    BY <1>16, <2>1, Zenon DEF LBTypes
  <2> HIDE DEF b
  <2>6. ASSUME NEW x, x.exists, x.listeners = LB(c).listeners, x.backends = new
        PROVE  SyncOK(r, x)
    <3>1. Synced(r, x) /\ Chosen(r)
      BY <1>16, <2>1, <2>2, <2>6, Zenon DEF Synced, Wants, Chosen
    <3> QED BY <1>16, <2>1, <2>2, <2>3, <2>6, <3>1, Zenon DEF SyncOK, BeforeSync, Updating
  <2>7. CASE Becomes(c, r) /\ lbs' = lbs /\ call[c].instances \ call[c].servers = {}
    <3>1. new = LB(c).backends
      BY <2>7 DEF new
    <3>2. SyncOK(r, LB(c))
      BY <1>16, <2>1, <2>6, <3>1, Zenon
    <3>3. SyncOK(r, lbs'[r.id])
      BY <2>2, <2>7, <3>2, Zenon DEF LB
    <3> QED BY <1>16, <2>1, <2>7, <3>3, BecomesSync, ZenonT(30)
  <2>8. CASE Request(c, "AddBackendServers", TRUE, b, r)
    <3>1. SyncOK(r, b)
      BY <1>16, <2>1, <2>5, <2>6, ZenonT(30)
    <3> QED BY <1>16, <2>1, <2>2, <2>8, <3>1, RequestSync, Zenon
  <2> QED BY <2>4, <2>7, <2>8, Zenon
<1>19. ASSUME NEW c \in Callers, DeleteLoadBalancer(c) PROVE SyncInv'
  <2> DEFINE r == [call[c] EXCEPT !.pc = "done", !.ret = "ok"]
             b == [NoLB EXCEPT !.late = LB(c).late]
  <2>1. At(c, "delete") /\ call[c].id \in LBIds /\ ~At(c, "idle") /\ call[c].op = "Delete"
    BY <1>0, <1>19, Zenon DEF DeleteLoadBalancer, At, Located, SyncOK
  <2>2. r.pc = "done" /\ r.op = "Delete" /\ r.id = call[c].id
    BY <1>0, <2>1, ZenonT(30) DEF Calls
  <2>3. Request(c, "DeleteLoadBalancer", TRUE, b, r)
    BY <1>19, Zenon DEF DeleteLoadBalancer
  <2> HIDE DEF r, b
  <2>4. SyncOK(r, b)
    BY <2>2 DEF SyncOK, BeforeSync, AfterSync, Updating, Succeeded, Resolved
  <2> QED BY <2>1, <2>2, <2>3, <2>4, RequestSync, Zenon
<1>20. ASSUME NEW c \in Callers, Collect(c) PROVE SyncInv'
  BY <1>20, IdleSync, BecomesSync, SMTT(30) DEF Collect, At
<1>21. ASSUME call' = call, \A id \in LBIds : /\ lbs'[id].exists = lbs[id].exists
                                             /\ lbs'[id].backends = lbs[id].backends
                                             /\ lbs'[id].listeners = lbs[id].listeners
       PROVE  SyncInv'
  <2>1. ASSUME NEW c \in Callers PROVE SyncOK(call'[c], lbs'[call'[c].id])
    <3>1. CASE call[c].id \in LBIds
      BY <1>0, <1>21, <3>1, Zenon DEF SyncOK, LB, Synced
    <3>2. CASE call[c].id \notin LBIds
      <4>1. ~Succeeded(call[c]) /\ call[c].pc \notin {"listeners", "remove", "add"}
            /\ ~Updating(call[c])
        BY <1>0, <3>2, Zenon DEF SyncOK, Located, Updating
      <4> QED BY <1>0, <1>21, <4>1, Zenon DEF SyncOK, AfterSync
    <3> QED BY <3>1, <3>2
  <2>2. \A c \in Callers : SyncOK(call[c], LB(c))'
    BY <2>1, Zenon DEF SyncOK, LB, BeforeSync, AfterSync, Updating, Succeeded, Resolved, Synced,
                Accounted, Serves, Wants, Chosen
  <2> QED BY <1>21, <2>2, SMTT(30) DEF SyncInv, At
<1>22. ASSUME NEW id \in LBIds, Appear(id) PROVE SyncInv'
  <2>1. \A jd \in LBIds : /\ lbs'[jd].exists = lbs[jd].exists
                          /\ lbs'[jd].backends = lbs[jd].backends
                          /\ lbs'[jd].listeners = lbs[jd].listeners
    BY <1>22 DEF Appear, Good, LBTypes
  <2> QED BY <1>21, <1>22, <2>1 DEF Appear
<1>23. ASSUME UNCHANGED <<lbs, call>> PROVE SyncInv'
  BY <1>21, <1>23
<1> QED BY <1>1, <1>2, <1>3, <1>4, <1>5, <1>7, <1>8, <1>11, <1>12, <1>13, <1>14, <1>15, <1>17,
           <1>18, <1>19, <1>20, <1>22, <1>23 DEF Next, Step, Restart, vars, Crash

(* A successful EnsureLoadBalancer or UpdateLoadBalancer leaves exactly    *)
(* the listeners and the backends that its service and its nodes ask for,  *)
(* when calls for the service do not overlap: whatever requests failed and *)
(* wherever calls died before it, and even if listings are late.           *)
THEOREM SuccessMeansSyncedHolds ==
    ASSUME Serial
    PROVE  Spec => []SuccessMeansSynced
<1>1. Good /\ SyncInv => SuccessMeansSynced
  <2> SUFFICES ASSUME Good, SyncInv, NEW c \in Callers,
                      call[c].op \in {"Ensure", "Update"}, call[c].ret = "ok"
               PROVE  /\ LB(c).exists
                      /\ \A p \in PortNumbers :
                            {LB(c).listeners[p]} =
                              LET want == {sp \in call[c].service.Ports :
                                              sp.Port = p /\ sp.NodePort # 0}
                              IN  IF want = {} THEN {NoListener}
                                  ELSE {[Protocol |-> sp.Protocol, Status |-> "running",
                                         BackendServerPort |-> sp.NodePort] : sp \in want}
                      /\ \A i \in Inventory :
                            i.InstanceId \in LB(c).backends <=>
                                \E k \in DOMAIN call[c].nodes : By(call[c].nodes[k], i)
    BY SMTT(30) DEF SuccessMeansSynced
  <2>1. SyncOK(call[c], LB(c)) /\ Succeeded(call[c]) /\ call[c] \in Calls
    BY DEF SyncInv, Succeeded, Good, GoodCalls
  <2>2. /\ call[c].id \in LBIds /\ Synced(call[c], LB(c)) /\ LB(c).exists
        /\ LB(c).backends = call[c].instances /\ Chosen(call[c])
    BY <2>1, ZenonT(30) DEF SyncOK, AfterSync, Resolved
  <2>3. Ports(Wants(call[c]), LB(c).listeners)
    BY <2>1, <2>2, PortsOf, SMTT(30) DEF Good, LB
  <2>4. ASSUME NEW p \in PortNumbers
        PROVE  {LB(c).listeners[p]} =
                 LET want == {sp \in call[c].service.Ports : sp.Port = p /\ sp.NodePort # 0}
                 IN  IF want = {} THEN {NoListener}
                     ELSE {[Protocol |-> sp.Protocol, Status |-> "running",
                            BackendServerPort |-> sp.NodePort] : sp \in want}
    <3> DEFINE want == {sp \in call[c].service.Ports : sp.Port = p /\ sp.NodePort # 0}
    <3>1. {sp \in Wants(call[c]) : sp.Port = p} = want
      BY SMTT(30) DEF Wants
    <3>2. {LB(c).listeners[p]} = ListenersFor({sp \in Wants(call[c]) : sp.Port = p})
      BY <2>2, <2>3, AccountedSynced DEF Synced
    <3> HIDE DEF want
    <3>3. {LB(c).listeners[p]} = ListenersFor(want)
      BY <3>1, <3>2, SMTT(30)
    <3> QED BY <3>3, SMTT(30) DEF ListenersFor, want
  <2>5. \A i \in Inventory : i.InstanceId \in LB(c).backends <=>
                                 \E k \in DOMAIN call[c].nodes : By(call[c].nodes[k], i)
    BY <2>2 DEF Chosen
  <2> QED BY <2>2, <2>4, <2>5, ZenonT(30)
<1> QED BY <1>1, GoodInitially, GoodStep, SyncInitially, SyncStep, PTL DEF Spec

-----------------------------------------------------------------------------
\* Whoever's call changes made the request.
LEMMA ActorOf ==
    ASSUME Good, NEW c \in Callers, NEW d \in Callers, call'[c] # call[c], NEW r, Becomes(d, r)
    PROVE  d = c
BY DEF Becomes, Good

\* A request does nothing, or what it was for.
LEMMA RequestOf ==
    ASSUME Good, NEW c \in Callers, NEW d \in Callers, call'[c] # call[c], call[d].id \in LBIds,
           NEW name, NEW accepted, NEW newLB, NEW next, Request(d, name, accepted, newLB, next)
    PROVE  d = c /\ (lbs' = lbs \/ (accepted /\ lbs'[call[c].id] = newLB))
<1>1. d = c
  BY ActorOf, SMTT(30) DEF Request, Return
<1>2. lbs' = lbs \/ (accepted /\ lbs' = [lbs EXCEPT ![call[d].id] = newLB])
  BY DEF Request
<1> QED BY <1>1, <1>2 DEF Good

(* A call never removes or alters a running listener that is as its        *)
(* service wants it, when calls for the service do not overlap.            *)
THEOREM NoNeedlessOutageHolds ==
    ASSUME Serial
    PROVE  Spec => NoNeedlessOutage
<1> DEFINE Kept(c, sp) ==
        /\ call[c].op \in {"Ensure", "Update"} /\ call'[c] # call[c]
        /\ call[c].id # "" /\ LB(c).exists
        /\ LB(c).listeners[sp.Port] = [Protocol |-> sp.Protocol, Status |-> "running",
                                       BackendServerPort |-> sp.NodePort]
        => lbs'[call[c].id].listeners[sp.Port] = LB(c).listeners[sp.Port]
<1>1. ASSUME Good, SyncInv, [Next]_vars, NEW c \in Callers, NEW sp \in call[c].service.Ports,
             call[c].op \in {"Ensure", "Update"}, call'[c] # call[c],
             call[c].id # "", LB(c).exists,
             LB(c).listeners[sp.Port] = [Protocol |-> sp.Protocol, Status |-> "running",
                                         BackendServerPort |-> sp.NodePort]
      PROVE  lbs'[call[c].id].listeners[sp.Port] = LB(c).listeners[sp.Port]
  <2> DEFINE id == call[c].id
             L == LB(c).listeners
             p == sp.Port
             Same == lbs'[id].listeners[p] = L[p]
  <2> SUFFICES Same
    OBVIOUS
  <2>1. id \in LBIds /\ LB(c) \in LBTypes /\ call[c] \in Calls
    BY <1>1, Zenon DEF Good, GoodCalls, Calls, LB
  <2>0. Good /\ SyncInv /\ call'[c] # call[c]
    BY <1>1, Zenon
  <2>2. p \in PortNumbers
    <3>1. call[c].service.Ports \subseteq ServicePorts
      BY <2>1, PortsOK, ZenonT(30) DEF Calls
    <3> QED BY <1>1, <3>1, Zenon DEF PortNumbers
  <2>3. L[p] # NoListener /\ L[p].Status = "running" /\ Serves(L[p], sp)
    <3> DEFINE l == [Protocol |-> sp.Protocol, Status |-> "running",
                     BackendServerPort |-> sp.NodePort]
    <3>1. l # NoListener /\ l.Status = "running" /\ Serves(l, sp)
      BY Zenon DEF NoListener, Serves
    <3>2. L[p] = l
      BY <1>1, Zenon
    <3> HIDE DEF l
    <3> QED BY <3>1, <3>2
  <2>4. sp \in Wants(call[c])
    <3>1. L \in [PortNumbers -> Listeners]
      BY <2>1, SMTT(30) DEF LBTypes
    <3>2. L[p].BackendServerPort \in NodePorts
      BY <2>2, <2>3, <3>1 DEF Listeners
    <3>3. sp.NodePort # 0
      BY <2>3, <3>2 DEF Serves, NodePorts, WantedPorts
    <3> QED BY <1>1, <3>3, Zenon DEF Wants
  <2>5. ASSUME lbs' = lbs PROVE Same
    BY <2>5, SMTT(30) DEF LB
  <2>6. ASSUME NEW d \in Callers, At(d, "listeners"), NEW name, NEW accepted, NEW q \in PortNumbers,
               NEW l, NEW next, Request(d, name, accepted, SetListener(d, q, l), next),
               d = c /\ accepted /\ p = q => l = L[p]
        PROVE  Same
    <3>1. call[d].id \in LBIds
      BY <1>1, <2>6, ZenonT(30) DEF Good, GoodCalls, Located, At
    <3>0. d = c /\ (lbs' = lbs \/ (accepted /\ lbs'[call[c].id] = SetListener(d, q, l)))
      <4>1. Request(d, name, accepted, SetListener(d, q, l), next)
        BY <2>6, SMTT(30)
      <4> HIDE DEF id, L, p
      <4> QED BY <2>0, <3>1, <4>1, RequestOf, SMTT(30)
    <3>2. d = c /\ (lbs' = lbs \/ (accepted /\ lbs'[id] = SetListener(c, q, l)))
      BY <3>0
    <3>3. SetListener(c, q, l).listeners = [L EXCEPT ![q] = l]
      BY <2>1, SMTT(30) DEF SetListener, LBTypes
    <3>4. L \in [PortNumbers -> Listeners]
      BY <2>1, SMTT(30) DEF LBTypes
    <3>5. CASE lbs'[id] = SetListener(c, q, l) /\ accepted
      <4>1. lbs'[id].listeners = [L EXCEPT ![q] = l]
        BY <3>3, <3>5, SMTT(30)
      <4>2. [L EXCEPT ![q] = l][p] = L[p]
        BY <2>2, <2>6, <3>2, <3>4, <3>5, SMTT(30)
      <4> QED BY <4>1, <4>2, SMTT(30)
    <3> QED BY <2>5, <3>2, <3>5
  <2>7. ASSUME NEW d \in Callers, StartStopped(d) \/ StartCreated(d) PROVE Same
    <3>1. PICK q \in PortNumbers : \E next :
             Request(d, "StartListener", LB(d).listeners[q] # NoListener,
                     SetListener(d, q, [LB(d).listeners[q] EXCEPT !.Status = "running"]), next)
      BY <1>1, <2>7, Zenon DEF StartStopped, StartCreated, Started, Good, GoodCalls, Calls
    <3>2. [L[p] EXCEPT !.Status = "running"] = L[p]
      <4> DEFINE l == [Protocol |-> sp.Protocol, Status |-> "running",
                       BackendServerPort |-> sp.NodePort]
      <4>1. [l EXCEPT !.Status = "running"] = l
        OBVIOUS
      <4>2. L[p] = l
        BY <1>1, Zenon
      <4> HIDE DEF l
      <4> QED BY <4>1, <4>2
    <3>3. At(d, "listeners")
      BY <2>7, SMTT(30) DEF StartStopped, StartCreated, Diffed
    <3> QED BY <2>6, <3>1, <3>2, <3>3
  <2>8. ASSUME NEW d \in Callers, DeleteListener(d) PROVE Same
    <3>1. At(d, "listeners") /\ call[d].removals \subseteq PortNumbers
      BY <1>1, <2>8, Zenon DEF DeleteListener, Good, GoodCalls, Calls
    <3>2. PICK q \in call[d].removals :
             Request(d, "DeleteListener", LB(d).listeners[q] # NoListener,
                     SetListener(d, q, NoListener),
                     [call[d] EXCEPT !.removals = call[d].removals \ {q}])
      BY <2>8, Zenon DEF DeleteListener
    <3>3. d = c => p # q
      <4>1. SyncOK(call[d], LB(d))
        BY <1>1, Zenon DEF SyncInv
      <4>2. Accounted(Wants(call[d]), call[d].actual, call[d].expected, call[d].stopped,
                      call[d].removals, call[d].created, LB(d).listeners)
        BY <3>1, <4>1, ZenonT(30) DEF SyncOK, At
      <4> QED BY <2>3, <2>4, <4>2, Zenon DEF Accounted
    <3> QED BY <2>6, <3>1, <3>2, <3>3
  <2>9. ASSUME NEW d \in Callers, CreateListener(d) PROVE Same
    <3>1. At(d, "listeners") /\ call[d].expected \subseteq WantedPorts
      BY <1>1, <2>9, Zenon DEF CreateListener, Diffed, Good, GoodCalls, Calls
    <3>2. PICK q \in call[d].expected :
             Request(d, "CreateListener", LB(d).listeners[q.Port] = NoListener,
                     SetListener(d, q.Port, [Protocol |-> q.Protocol, Status |-> "stopped",
                                             BackendServerPort |-> q.NodePort]),
                     [call[d] EXCEPT !.expected = call[d].expected \ {q}, !.created = {q.Port}])
      BY <2>9, Zenon DEF CreateListener
    <3>3. q.Port \in PortNumbers
      BY <3>1, SMTT(30) DEF WantedPorts, PortNumbers
    <3> DEFINE l == [Protocol |-> q.Protocol, Status |-> "stopped",
                     BackendServerPort |-> q.NodePort]
               next == [call[d] EXCEPT !.expected = call[d].expected \ {q},
                                       !.created = {q.Port}]
               accepted == LB(d).listeners[q.Port] = NoListener
    <3>4. Request(d, "CreateListener", accepted, SetListener(d, q.Port, l), next)
      BY <3>2
    <3>5. ~(d = c /\ accepted /\ p = q.Port)
      BY <2>3
    <3> HIDE DEF l, next, accepted, L, p, Same
    <3> QED BY <2>6, <3>1, <3>3, <3>4, <3>5, Zenon
  <2>10. ASSUME NEW d \in Callers, RemoveBackends(d) \/ AddBackends(d) PROVE Same
    <3>1. call[d].id \in LBIds
      BY <1>1, <2>10, Zenon DEF Good, GoodCalls, Located, RemoveBackends, AddBackends, At
    <3>2. \/ lbs' = lbs
          \/ \E name, b, next : Request(d, name, TRUE, [LB(d) EXCEPT !.backends = b], next)
      BY <2>10, Zenon DEF RemoveBackends, AddBackends
    <3>3. ASSUME NEW name, NEW b, NEW next,
                 Request(d, name, TRUE, [LB(d) EXCEPT !.backends = b], next)
          PROVE  Same
      <4>0. d = c
        BY <2>0, <3>3, ActorOf DEF Request, Return
      <4>1. lbs' = lbs \/ lbs'[id] = [LB(c) EXCEPT !.backends = b]
        <5> DEFINE n == [LB(d) EXCEPT !.backends = b]
        <5> HIDE DEF n
        <5>1. lbs' = lbs \/ lbs' = [lbs EXCEPT ![call[d].id] = n]
          BY <3>3, SMTT(30) DEF Request, n
        <5>2. lbs' = lbs \/ lbs'[call[d].id] = n
          BY <2>0, <3>1, <5>1 DEF Good
        <5> QED BY <4>0, <5>2 DEF n
      <4>2. [LB(c) EXCEPT !.backends = b].listeners = L
        BY <2>1 DEF LBTypes
      <4> QED BY <2>5, <4>1, <4>2, Zenon
    <3> QED BY <2>5, <3>2, <3>3, Zenon
  <2>11. ASSUME NEW d \in Callers, DeleteLoadBalancer(d) PROVE Same
    <3>1. call[d].id \in LBIds /\ call[d].op = "Delete"
      <4>1. SyncOK(call[d], LB(d)) /\ At(d, "delete")
        BY <1>1, <2>11, Zenon DEF SyncInv, DeleteLoadBalancer
      <4> QED BY <1>1, <4>1, Zenon DEF SyncOK, At, Good, GoodCalls, Located
    <3>2. d = c
      BY <2>0, <2>11, ActorOf, SMTT(30) DEF DeleteLoadBalancer, Request, Return
    <3> QED BY <1>1, <3>1, <3>2, Zenon
  <2>12. ASSUME NEW d \in Callers, CreateLoadBalancer(d) PROVE Same
    <3>1. lbs' = lbs \/ \E jd \in Unused, listed \in {TRUE, ~ListLag} :
                           lbs' = [lbs EXCEPT ![jd] = NewLB(jd, listed)]
      BY <2>12, Zenon DEF CreateLoadBalancer
    <3>2. \A jd \in Unused : jd # id
      BY DEF Unused
    <3>3. ASSUME NEW jd \in Unused, NEW b, lbs' = [lbs EXCEPT ![jd] = b] PROVE Same
      <4>1. lbs'[id] = lbs[id]
        BY <2>0, <2>1, <3>2, <3>3 DEF Good
      <4> QED BY <4>1, ZenonT(30) DEF LB
    <3> QED BY <2>5, <3>1, <3>3, Zenon
  <2>13. ASSUME NEW jd \in LBIds, Appear(jd) PROVE FALSE
    BY <1>1, <2>13, Zenon DEF Appear
  <2> QED BY <1>1, <2>5, <2>7, <2>8, <2>9, <2>10, <2>11, <2>12, <2>13, Zenon
          DEF Next, Step, Start, GetInstances, DescribeLoadBalancers,
              DescribeLoadBalancerAttribute, DiffListener, AttributesFail, Panic,
              ListenersSynced, Collect, Crash, Restart, vars
<1>2. Good /\ SyncInv /\ [Next]_vars =>
          [\A c \in Callers : \A sp \in call[c].service.Ports : Kept(c, sp)]_vars
  BY <1>1, Zenon
<1> QED BY <1>2, GoodInitially, GoodStep, SyncInitially, SyncStep, PTL DEF Spec, NoNeedlessOutage
=============================================================================
