------------------------------ MODULE Instances ------------------------------
(***************************************************************************)
(* How the provider turns Kubernetes node names into ECS instances         *)
(* (pkg/cloudprovider/providers/aliyun/utils.go).  An inventory is the set *)
(* of instances of the VPC; an instance is a record with the fields        *)
(* InstanceId, HostName and IpAddress (a sequence of private addresses).   *)
(* The order in which DescribeInstances lists them is never looked at.     *)
(***************************************************************************)
EXTENDS Naturals, Sequences, FiniteSets

CONSTANTS nodeNameType,    \* what a node's name is: "private-ip" or "hostname"
          PageSize         \* how many instances one DescribeInstances answers

NodeNameTypes == {"private-ip", "hostname"}

ASSUME InstancesAssumption == /\ nodeNameType \in NodeNameTypes
                              /\ PageSize \in Nat \ {0}

(* getInstances asks for one page and drops the pagination it gets back.   *)
(* Which instances are on that page is up to ECS.                          *)
getInstances(inventory) ==
    {page \in SUBSET inventory :
        \/ page = inventory /\ Cardinality(inventory) <= PageSize
        \/ Cardinality(page) = PageSize}

\* A private address belongs to one instance of a VPC; a host name may not.
SharesAddress(i, j) ==
    \E k \in DOMAIN i.IpAddress, l \in DOMAIN j.IpAddress :
        i.IpAddress[k] = j.IpAddress[l]

byHostname(name, i) == i.HostName = name

byPrivateIP(ip, i) == \E k \in DOMAIN i.IpAddress : i.IpAddress[k] = ip

\* The predicate that the switch on nodeNameType selects.
By(name, i) == IF nodeNameType = "private-ip" THEN byPrivateIP(name, i)
                                              ELSE byHostname(name, i)

mapInstanceToNodeName(i) ==
    IF nodeNameType = "private-ip" THEN i.IpAddress[1] ELSE i.HostName

IsOne(S) == \E x \in S : S = {x}

TheOne(S) == CHOOSE x \in S : S = {x}

\* An answer: the instances found, or the error and the name it is about.
Found(instances) == [err |-> "nil", node |-> "", instances |-> instances]

LookupError(S, name) ==
    [err |-> IF S = {} THEN "Unable to get instance" ELSE "Multiple instance",
     node |-> name, instances |-> <<>>]

\* Mutant: the check for several matches is missing.
getInstanceByNodeName_first(page, name) ==
    LET S == {i \in page : By(name, i)}
    IN  IF S # {} THEN Found(<<CHOOSE i \in S : TRUE>>) ELSE LookupError(S, name)

getInstanceByNodeName(page, name) ==
    LET S == {i \in page : By(name, i)}
    IN  IF IsOne(S) THEN Found(<<TheOne(S)>>) ELSE LookupError(S, name)

(* The loop filters the list it filtered in the iterations before, so what *)
(* is left after the k-th name matches each of the first k names.  It      *)
(* returns at the first name that does not leave exactly one instance.     *)
Narrowed(page, names, k) == {i \in page : \A j \in 1..k : By(names[j], i)}

getInstancesByNodeNames(page, names) ==
    LET Left(k) == Narrowed(page, names, k)
        failing == {k \in DOMAIN names : ~IsOne(Left(k))}
        first   == CHOOSE k \in failing : \A j \in failing : k <= j
    IN  IF failing = {}
        THEN Found([k \in DOMAIN names |-> TheOne(Left(k))])
        ELSE LookupError(Left(first), names[first])
=============================================================================
