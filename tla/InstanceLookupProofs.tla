------------------------ MODULE InstanceLookupProofs ------------------------
(***************************************************************************)
(* What the lookups of module Instances return, for any page of instances  *)
(* and any list of node names, and theorems about module InstanceLookup.   *)
(***************************************************************************)
EXTENDS InstanceLookup, FiniteSetTheorems, TLAPS

\* A page that may hold the whole inventory is the whole inventory.
LEMMA WholePage ==
    ASSUME NEW inv, IsFiniteSet(inv), Cardinality(inv) <= PageSize,
           NEW page \in getInstances(inv)
    PROVE  page = inv
<1>1. CASE page = inv
  BY <1>1
<1>2. CASE page \in SUBSET inv /\ Cardinality(page) = PageSize
  <2>1. /\ Cardinality(page) \in Nat /\ Cardinality(inv) \in Nat
        /\ Cardinality(page) <= Cardinality(inv)
        /\ Cardinality(page) = Cardinality(inv) => page = inv
    BY <1>2, FS_Subset, FS_CardinalityType
  <2> QED BY <1>2, <2>1, InstancesAssumption
<1> QED BY <1>1, <1>2 DEF getInstances

LEMMA OneOf == \A S : IsOne(S) => S = {TheOne(S)} /\ TheOne(S) \in S
BY DEF IsOne, TheOne

LEMMA LookupOneFinds ==
    ASSUME NEW page, NEW name, getInstanceByNodeName(page, name).err = "nil"
    PROVE  {i \in page : By(name, i)} = {getInstanceByNodeName(page, name).instances[1]}
<1> DEFINE S == {i \in page : By(name, i)}
<1>1. IsOne(S)
  BY DEF getInstanceByNodeName, LookupError
<1>2. getInstanceByNodeName(page, name) = Found(<<TheOne(S)>>)
  BY <1>1 DEF getInstanceByNodeName
<1>3. Found(<<TheOne(S)>>).instances[1] = TheOne(S)
  BY DEF Found
<1> QED BY <1>1, <1>2, <1>3, OneOf

LEMMA LookupAllSucceeds ==
    ASSUME NEW page, NEW names, getInstancesByNodeNames(page, names).err = "nil",
           NEW k \in DOMAIN names
    PROVE  Narrowed(page, names, k) = {getInstancesByNodeNames(page, names).instances[k]}
<1> DEFINE failing == {m \in DOMAIN names : ~IsOne(Narrowed(page, names, m))}
           found == [m \in DOMAIN names |-> TheOne(Narrowed(page, names, m))]
<1>1. failing = {}
  BY DEF getInstancesByNodeNames, LookupError
<1>2. getInstancesByNodeNames(page, names) = Found(found)
  BY <1>1 DEF getInstancesByNodeNames
<1>3. Found(found).instances = found
  BY DEF Found
<1>4. IsOne(Narrowed(page, names, k))
  BY <1>1
<1> QED BY <1>2, <1>3, <1>4, OneOf

(* The loop of getInstancesByNodeNames keeps what it filtered before: with *)
(* host names as node names it fails for any list with two distinct names, *)
(* whatever instances there are.                                           *)
THEOREM DistinctHostNamesFail ==
    ASSUME nodeNameType = "hostname", NEW page, NEW names \in Seq(STRING),
           NEW j \in DOMAIN names, NEW k \in DOMAIN names, names[j] # names[k]
    PROVE  getInstancesByNodeNames(page, names).err # "nil"
<1> SUFFICES ASSUME getInstancesByNodeNames(page, names).err = "nil" PROVE FALSE
  OBVIOUS
<1>1. ASSUME NEW m \in DOMAIN names, NEW n \in DOMAIN names, m <= n PROVE names[m] = names[n]
  <2> DEFINE x == getInstancesByNodeNames(page, names).instances[n]
  <2>1. Narrowed(page, names, n) = {x}
    BY LookupAllSucceeds
  <2> HIDE DEF x
  <2>2. m \in 1..n /\ n \in 1..n
    BY <1>1
  <2>3. By(names[m], x) /\ By(names[n], x)
    BY <2>1, <2>2 DEF Narrowed
  <2> QED BY <2>3 DEF By, byHostname
<1>2. j <= k \/ k <= j
  OBVIOUS
<1> QED BY <1>1, <1>2

-----------------------------------------------------------------------------
NoneShared(inv) == \A i, j \in inv : i # j => ~SharesAddress(i, j)

\* An instance that bears two names bears the same ones as any other with one.
LEMMA SameNames ==
    ASSUME NEW inv, NoneShared(inv), NEW x \in inv, NEW y \in inv, NEW m, NEW n,
           By(m, x), By(n, x), By(n, y)
    PROVE  By(m, y)
<1>1. CASE nodeNameType = "private-ip"
  <2>1. SharesAddress(x, y)
    BY <1>1 DEF By, byPrivateIP, SharesAddress
  <2> QED BY <2>1 DEF NoneShared
<1>2. CASE nodeNameType # "private-ip"
  BY <1>2 DEF By, byHostname
<1> QED BY <1>1, <1>2

LEMMA LookupAllFinds ==
    ASSUME NEW page, NoneShared(page), NEW names \in Seq(STRING),
           getInstancesByNodeNames(page, names).err = "nil", NEW k \in DOMAIN names
    PROVE  {i \in page : By(names[k], i)}
               = {getInstancesByNodeNames(page, names).instances[k]}
<1> DEFINE x == getInstancesByNodeNames(page, names).instances[k]
<1>1. Narrowed(page, names, k) = {x}
  BY LookupAllSucceeds
<1> HIDE DEF x
<1>2. k \in 1..k
  OBVIOUS
<1>3. x \in page /\ \A j \in 1..k : By(names[j], x)
  BY <1>1 DEF Narrowed
<1>4. ASSUME NEW y \in page, By(names[k], y) PROVE y = x
  <2>1. \A j \in 1..k : By(names[j], y)
    BY <1>2, <1>3, <1>4, SameNames
  <2> QED BY <1>1, <2>1 DEF Narrowed
<1> QED BY <1>2, <1>3, <1>4 DEF x

-----------------------------------------------------------------------------
LookupInv == /\ inventory \subseteq Machines
             /\ NoneShared(inventory)
             /\ LookupNeverGuesses

(* While all instances fit one page, a lookup that succeeds returns, for   *)
(* each name, the only instance that bears it, for single lookups and for  *)
(* the loop of getInstancesByNodeNames.                                    *)
THEOREM NeverGuesses ==
    ASSUME Cardinality(Machines) <= PageSize
    PROVE  Spec => []LookupNeverGuesses
<1>1. Init => LookupInv
  <2>1. DOMAIN NoAnswer.names = {}
    BY DEF NoAnswer
  <2> QED BY <2>1 DEF Init, LookupInv, NoneShared, LookupNeverGuesses
<1>2. LookupInv /\ [Next]_vars => LookupInv'
  <2> SUFFICES ASSUME LookupInv, [Next]_vars PROVE LookupInv'
    OBVIOUS
  <2> USE DEF LookupInv
  <2>0. \A page \in getInstances(inventory) : page = inventory
    <3>1. IsFiniteSet(inventory) /\ Cardinality(inventory) <= Cardinality(Machines)
      BY LookupAssumption, FS_Subset
    <3>2. /\ Cardinality(inventory) \in Nat /\ Cardinality(Machines) \in Nat
          /\ PageSize \in Nat
      BY <3>1, LookupAssumption, InstancesAssumption, FS_CardinalityType
    <3>3. Cardinality(inventory) <= PageSize
      BY <3>1, <3>2
    <3> QED BY <3>1, <3>3, WholePage
  <2>1. ASSUME NEW i \in Machines, Launch(i) PROVE LookupInv'
    <3>1. \A j \in inventory : ~SharesAddress(i, j) /\ ~SharesAddress(j, i)
      BY <2>1 DEF Launch, SharesAddress
    <3>2. NoneShared(inventory \cup {i})
      BY <3>1 DEF NoneShared
    <3> QED BY <2>1, <3>2 DEF Launch, LookupNeverGuesses
  <2>2. ASSUME NEW i \in Machines, Release(i) PROVE LookupInv'
    BY <2>2 DEF Release, NoneShared, LookupNeverGuesses
  <2>3. ASSUME NEW name, LookupOne(name) PROVE LookupInv'
    <3> DEFINE r == getInstanceByNodeName(inventory, name)
    <3>1. /\ answer'.names = <<name>> /\ answer'.inventory = inventory
          /\ answer'.result = r /\ inventory' = inventory
      BY <2>0, <2>3 DEF LookupOne
    <3>2. r.err = "nil" => {i \in inventory : By(name, i)} = {r.instances[1]}
      BY LookupOneFinds
    <3> HIDE DEF r
    <3>3. DOMAIN <<name>> = {1} /\ <<name>>[1] = name
      OBVIOUS
    <3>4. LookupNeverGuesses'
      BY <3>1, <3>2, <3>3 DEF LookupNeverGuesses
    <3> QED BY <3>1, <3>4
  <2>4. ASSUME NEW names \in NodeLists, LookupAll(names) PROVE LookupInv'
    <3> DEFINE r == getInstancesByNodeNames(inventory, names)
    <3>1. /\ answer'.names = names /\ answer'.inventory = inventory
          /\ answer'.result = r /\ inventory' = inventory
      BY <2>0, <2>4 DEF LookupAll
    <3>2. r.err = "nil" => \A k \in DOMAIN names :
                              {i \in inventory : By(names[k], i)} = {r.instances[k]}
      BY LookupAssumption, LookupAllFinds
    <3> HIDE DEF r
    <3>3. LookupNeverGuesses'
      BY <3>1, <3>2 DEF LookupNeverGuesses
    <3> QED BY <3>1, <3>3
  <2>5. ASSUME UNCHANGED vars PROVE LookupInv'
    BY <2>5 DEF vars, LookupNeverGuesses
  <2> QED BY <2>1, <2>2, <2>3, <2>4, <2>5 DEF Next
<1>3. LookupInv => LookupNeverGuesses
  BY DEF LookupInv
<1> QED BY <1>1, <1>2, <1>3, PTL DEF Spec
=============================================================================
