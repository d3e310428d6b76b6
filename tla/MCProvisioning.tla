--------------------------- MODULE MCProvisioning ---------------------------
(* A claim whose capacity is no multiple of Giga, and two that are not     *)
(* supported: one without a category, one with another access mode.        *)
EXTENDS Provisioning

Claim(modes, parameters, capacity) ==
    [selector |-> FALSE, accessModes |-> modes, parameters |-> parameters, capacity |-> capacity]

Cloud == [diskCategory |-> "cloud"]

MCClaims == {Claim({"ReadWriteOnce"}, Cloud, 7), Claim({"ReadWriteMany"}, Cloud, 7),
             Claim({"ReadWriteOnce"}, [fsType |-> "ext4"], 7)}
MCMinSizeTable == [k \in {"cloud"} |-> 2]
MCFaults == Requests \cup {"Crash"}
=============================================================================
