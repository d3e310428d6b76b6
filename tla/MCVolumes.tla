------------------------------ MODULE MCVolumes ------------------------------
(* Two nodes, a third name that no instance bears, and no name at all. *)
EXTENDS Volumes

MCInventory ==
    {[InstanceId |-> "i1", HostName |-> "n1", IpAddress |-> <<"10.0.0.1">>],
     [InstanceId |-> "i2", HostName |-> "n2", IpAddress |-> <<"10.0.0.2">>]}
=============================================================================
