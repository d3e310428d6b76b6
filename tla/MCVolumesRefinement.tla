------------------------ MODULE MCVolumesRefinement ------------------------
EXTENDS VolumesRefinement, TLC

MCInventory ==
    {[InstanceId |-> "i1", HostName |-> "n1", IpAddress |-> <<"10.0.0.1">>],
     [InstanceId |-> "i2", HostName |-> "n2", IpAddress |-> <<"10.0.0.2">>]}

MCSymmetry == Permutations(Callers)
=============================================================================
