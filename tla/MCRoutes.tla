------------------------------ MODULE MCRoutes ------------------------------
(* Two nodes, two pod CIDRs, and two routes that others have put into the  *)
(* table, one of them to an instance that is no node.  i3 replaces i1      *)
(* under its name.                                                         *)
EXTENDS Routes

Named(id, host, addresses) == [InstanceId |-> id, HostName |-> host, IpAddress |-> addresses]

MCMachines == {Named("i1", "n1", <<"ip1">>), Named("i2", "n2", <<"ip2">>),
               Named("i3", "n1", <<"ip1">>), Named("i9", "n9", <<"ip9">>)}

MCOtherRoutes ==
    {Entry("outside", "i9"),
     [DestinationCidrBlock |-> "vpn", NextHopType |-> "Tunnel", InstanceId |-> ""]}
=============================================================================
