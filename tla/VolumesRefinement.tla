-------------------------- MODULE VolumesRefinement --------------------------
(***************************************************************************)
(* The driver of module Volumes implements DiskService.  A history         *)
(* variable records, for every call, whether what it asks for has been the *)
(* case since it began; it does not influence the driver.                  *)
(***************************************************************************)
EXTENDS Volumes

VARIABLE met

hvars == <<disk, call, met>>

\* What a driver operation asks for; "isattached" runs Attach.
AskOf(op) == CASE op \in {"attach", "isattached"} -> "attach"
               [] op = "detach" -> "detach"
               [] op = "waitforattach" -> "wait"
               [] OTHER -> "none"

\* The instance that a call is about.
Target == [node \in Nodes \cup {""} |-> InstanceOf(node)]

asks == [c \in Callers |->
           IF Idle(c) THEN [op |-> "none", instance |-> NoInstance, met |-> FALSE, ret |-> ""]
           ELSE [op |-> AskOf(call[c].op), instance |-> Target[call[c].node],
                 met |-> met[c], ret |-> call[c].ret]]

D == INSTANCE DiskService WITH
        status <- disk.Status, owner <- disk.InstanceId,
        Instances <- Ids \cup {NoInstance}, Prompt <- "WaitForDisk" \notin Faults

IsMet(c) == D!Fulfils(AskOf(call[c].op), Target[call[c].node], disk.Status, disk.InstanceId)

HInit == Init /\ met = [c \in Callers |-> FALSE]

HNext == /\ Next
         /\ met' = [c \in Callers |-> ~Idle(c)' /\ (met[c] \/ IsMet(c)')]

HSpec == HInit /\ [][HNext]_hvars

(* However the calls of the driver overlap, with lost requests and answers *)
(* and killed processes: the disk leaves an instance only for a detach of  *)
(* that instance or an attach elsewhere, goes only where an attach call    *)
(* wants it, and Attach, Detach and WaitForAttach answer Success only if   *)
(* what they were asked for has been so since they were called (line 163   *)
(* to 251 of volume.go), provided that no wait ends early.                 *)
Implements == D!Spec
=============================================================================
