----------------------------- MODULE DiskService -----------------------------
(***************************************************************************)
(* What the flexvolume driver promises of one disk, whoever calls it and   *)
(* however calls overlap.  Callers ask to have the disk attached to or     *)
(* detached from an instance, or to wait until it is in use.  The disk     *)
(* moves only for an open ask, and only if that ask wants it where it is   *)
(* not; an ask is answered Success only if what it asks for has been the   *)
(* case at some moment since it was made.                                  *)
(***************************************************************************)
CONSTANTS Callers,
          Instances,
          Prompt           \* no wait ends while the disk is still moving

VARIABLES status,          \* of the disk
          owner,           \* the instance it is, or is being, attached to
          asks             \* asks[c]: what caller c asks for

dvars == <<status, owner, asks>>

Nobody == ""
NoAsk == [op |-> "none", instance |-> Nobody, met |-> FALSE, ret |-> ""]

\* The ask is fulfilled while the disk has this status and owner.
Fulfils(op, instance, s, o) ==
    \/ op = "attach" /\ s = "In_use" /\ o = instance
    \/ op = "detach" /\ (s \in {"Available", "Detaching"} \/ o # instance)
    \/ op = "wait" /\ s = "In_use"

Open(c) == asks[c].op # "none" /\ asks[c].ret = ""

Init == /\ status = "Available" /\ owner = Nobody
        /\ asks = [c \in Callers |-> NoAsk]

\* Every ask sees the disk as it is after the step.
Seen(ask) == [ask EXCEPT !.met = @ \/ Fulfils(ask.op, ask.instance, status', owner')]

Becomes(c, ask) == asks' = [d \in Callers |-> IF d = c THEN ask ELSE Seen(asks[d])]

Ask(c, op, instance) ==
    /\ asks[c] = NoAsk
    /\ \E ret \in {"", "Not supported"} :
          Becomes(c, Seen([op |-> op, instance |-> instance, met |-> FALSE, ret |-> ret]))
    /\ UNCHANGED <<status, owner>>

\* The disk moves for the ask of c.
BeginAttach(c) ==
    /\ asks[c].op = "attach" /\ status = "Available"
    /\ status' = "Attaching" /\ owner' = asks[c].instance

BeginDetach(c) ==
    /\ status = "In_use"
    /\ \/ asks[c].op = "detach" /\ owner = asks[c].instance
       \/ asks[c].op = "attach" /\ owner # asks[c].instance
    /\ status' = "Detaching" /\ UNCHANGED owner

\* Caller c does something for its ask, and may answer it.
Serve(c) ==
    /\ Open(c)
    /\ BeginAttach(c) \/ BeginDetach(c) \/ UNCHANGED <<status, owner>>
    /\ \E ret \in {"", "Success", "Failure"} :
          /\ Becomes(c, [Seen(asks[c]) EXCEPT !.ret = ret])
          /\ ret = "Success" /\ Prompt => asks'[c].met

\* ECS completes what was begun.
Finish ==
    /\ \/ status = "Attaching" /\ status' = "In_use" /\ UNCHANGED owner
       \/ status = "Detaching" /\ status' = "Available" /\ owner' = Nobody
    /\ asks' = [c \in Callers |-> Seen(asks[c])]

\* The answer is read, or the caller gives up.
Leave(c) == /\ asks[c] # NoAsk
            /\ Becomes(c, NoAsk)
            /\ UNCHANGED <<status, owner>>

Next == \/ \E c \in Callers : \/ Serve(c) \/ Leave(c)
                              \/ \E op \in {"attach", "detach", "wait"}, i \in Instances : Ask(c, op, i)
        \/ Finish

Spec == Init /\ [][Next]_dvars
=============================================================================
