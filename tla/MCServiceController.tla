------------------------ MODULE MCServiceController ------------------------
(* One node that is replaced by another; a service that changes its node   *)
(* port, and may stop to be of type LoadBalancer.                          *)
EXTENDS ServiceController, TLC

MCInventory ==
    {[InstanceId |-> "i1", HostName |-> "n1", IpAddress |-> <<"10.0.0.1">>],
     [InstanceId |-> "i2", HostName |-> "n2", IpAddress |-> <<"10.0.0.2">>]}

Service(type, nodePort) ==
    [Supported |-> TRUE, Type |-> type,
     Ports |-> {[Port |-> 80, Protocol |-> "TCP", NodePort |-> nodePort]}]

MCServices == {Service("LoadBalancer", 30001), Service("LoadBalancer", 30002),
               Service("ClusterIP", 30001)}

MCNodeLists == {<<"n1">>, <<"n2">>}

MCSymmetry == Permutations(LBIds)

MCFaults == {"CreateLoadBalancer", "DeleteLoadBalancer", "UpdateStatus"}
=============================================================================
