-------------------------- MODULE MCInstanceLookup --------------------------
(* Five instances: two of them share a host name, one has two addresses. *)
EXTENDS InstanceLookup

MCMachines ==
    {[InstanceId |-> "i1", HostName |-> "h1", IpAddress |-> <<"ip1">>],
     [InstanceId |-> "i2", HostName |-> "h2", IpAddress |-> <<"ip2">>],
     [InstanceId |-> "i3", HostName |-> "h2", IpAddress |-> <<"ip3">>],
     [InstanceId |-> "i4", HostName |-> "h3", IpAddress |-> <<"ip1", "ip4">>],
     [InstanceId |-> "i5", HostName |-> "h4", IpAddress |-> <<"ip5", "ip2">>]}

MCHostLists == {<<>>, <<"h1">>, <<"h2">>, <<"h1", "h2">>, <<"h2", "h2">>}
=============================================================================
