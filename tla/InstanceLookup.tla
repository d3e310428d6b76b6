--------------------------- MODULE InstanceLookup ---------------------------
(***************************************************************************)
(* Lookups of node names against an inventory that changes underneath:     *)
(* instances are started and released while the controllers run.           *)
(***************************************************************************)
EXTENDS Instances

CONSTANTS Machines,        \* every instance that may ever exist
          NodeLists        \* the lists of node names that are looked up

ASSUME LookupAssumption == IsFiniteSet(Machines) /\ NodeLists \subseteq Seq(STRING)

VARIABLES inventory,       \* the instances of the VPC
          answer           \* the last lookup: what it saw and what it returned

vars == <<inventory, answer>>

NoAnswer == [names |-> <<>>, inventory |-> {}, result |-> Found(<<>>)]

Init == inventory = {} /\ answer = NoAnswer

\* The cloud starts and releases instances on its own.
Launch(i) ==
    /\ \A j \in inventory : j.InstanceId # i.InstanceId /\ ~SharesAddress(i, j)
    /\ inventory' = inventory \cup {i}
    /\ UNCHANGED answer

Release(i) ==
    /\ i \in inventory
    /\ inventory' = inventory \ {i}
    /\ UNCHANGED answer

\* getInstanceByNodeName, as the volume and route calls use it.
LookupOne(name) ==
    /\ \E page \in getInstances(inventory) :
          answer' = [names |-> <<name>>, inventory |-> inventory,
                     result |-> getInstanceByNodeName(page, name)]
    /\ UNCHANGED inventory

\* getInstancesByNodes, as the load balancer calls use it.
LookupAll(names) ==
    /\ \E page \in getInstances(inventory) :
          answer' = [names |-> names, inventory |-> inventory,
                     result |-> getInstancesByNodeNames(page, names)]
    /\ UNCHANGED inventory

Next == \/ \E i \in Machines : Launch(i) \/ Release(i)
        \/ \E names \in NodeLists : \E k \in DOMAIN names : LookupOne(names[k])
        \/ \E names \in NodeLists : LookupAll(names)

Spec == Init /\ [][Next]_vars

-----------------------------------------------------------------------------
(* A lookup that succeeds never guesses: each instance it returns is the   *)
(* only one of the inventory that bears the node's name, although host     *)
(* names may clash and the inventory changes between lookups (utils.go's   *)
(* "Multiple instance with the same node name").                           *)
LookupNeverGuesses ==
    answer.result.err = "nil" =>
        \A k \in DOMAIN answer.names :
            {i \in answer.inventory : By(answer.names[k], i)}
                = {answer.result.instances[k]}

(* The error "Unable to get instance of node: N" is returned only if the   *)
(* VPC has no instance named N (utils.go lines 70 and 102).                *)
MissingMeansMissing ==
    answer.result.err = "Unable to get instance" =>
        ~\E i \in answer.inventory : By(answer.result.node, i)
=============================================================================
