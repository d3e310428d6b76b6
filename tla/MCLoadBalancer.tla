--------------------------- MODULE MCLoadBalancer ---------------------------
(***************************************************************************)
(* One node, or none.  The versions of the service change the protocol,    *)
(* the node port and the number of ports (v2) or only a node port (v3,     *)
(* with a port that has none, and an affinity that EnsureLoadBalancer does *)
(* not support and UpdateLoadBalancer does not look at).                   *)
(***************************************************************************)
EXTENDS LoadBalancer

MCInventory ==
    {[InstanceId |-> "i1", HostName |-> "n1", IpAddress |-> <<"10.0.0.1">>],
     [InstanceId |-> "i2", HostName |-> "n2", IpAddress |-> <<"10.0.0.2">>]}

TCP(port, nodePort) == [Port |-> port, Protocol |-> "TCP", NodePort |-> nodePort]
UDP(port, nodePort) == [Port |-> port, Protocol |-> "UDP", NodePort |-> nodePort]

v1 == [Supported |-> TRUE, Ports |-> {TCP(80, 30001)}]
v2 == [Supported |-> TRUE, Ports |-> {UDP(80, 30002), TCP(81, 30001)}]
v3 == [Supported |-> FALSE, Ports |-> {TCP(80, 30002), TCP(81, 0)}]

MCServices == {v1, v2, v3}

MCNodeLists == {<<>>, <<"n1">>}

MCFaults == {"DescribeInstances", "DescribeLoadBalancers",
             "DescribeLoadBalancerAttribute", "CreateLoadBalancer",
             "DescribeListenerAttribute", "StartListener", "DeleteListener", "CreateListener",
             "RemoveBackendServers", "AddBackendServers", "DeleteLoadBalancer"}
=============================================================================
