------------------------------- MODULE Leader -------------------------------
(***************************************************************************)
(* Which of the controller's replicas acts.  A process builds its          *)
(* controllers (NewController), takes the lease kept in the Endpoints      *)
(* object kube-system/aliyun-controller, starts the service, route and     *)
(* provision controllers, and ends itself when it could not renew the      *)
(* lease in time (Controller.Run and the vendored leader elector).         *)
(*                                                                         *)
(* now is real time.  Each replica measures durations with a clock of its  *)
(* own, which need not agree with any other but advances by Slow to Fast   *)
(* units per unit of real time: the elector "is tolerant to arbitrary      *)
(* clock skew, but is not tolerant to arbitrary clock skew rate"           *)
(* (leaderelection.go:23-24).  The moments at which tries begin are left   *)
(* open.  Nothing has to happen in time: a request may be applied long     *)
(* after its sender gave up or died, an answer may come at any time (the   *)
(* client sets no timeout), a process may be held up anywhere.  A leader   *)
(* to which that happens is marked late, for the properties only.          *)
(***************************************************************************)
EXTENDS Integers, FiniteSets

CONSTANTS Replicas,             \* names of the processes, all different
          LeaseDuration, RenewDeadline,     \* on the clock of a replica
          Slow, Fast,           \* the slowest and the fastest clock
          ShutdownGracePeriod,
          MaxTry,               \* a try that takes longer is late
          ExitDelay,            \* so is an end of the process after this
          MaxTime, MaxWrites    \* bounds of the model

\* The real time in which a clock may, and by which it must, advance by d.
Shortest(d) == (d + Fast - 1) \div Fast
Longest(d) == (d + Slow - 1) \div Slow

(* The first line is what NewLeaderElector insists on, the last what       *)
(* mutual exclusion needs beyond it: "the maximum tolerated ratio of time  *)
(* passed on the fastest node to time passed on the slowest node can be    *)
(* approximately achieved with a configuration that sets the same ratio of *)
(* LeaseDuration to RenewDeadline" (leaderelection.go:27-30).              *)
ASSUME LeaderAssumption ==
    /\ RenewDeadline \in Nat /\ LeaseDuration \in Nat /\ LeaseDuration > RenewDeadline
    /\ Slow \in Nat \ {0} /\ Fast \in Nat /\ Slow <= Fast
    /\ MaxTry \in Nat /\ ExitDelay \in Nat /\ MaxTime \in Nat /\ ShutdownGracePeriod \in Nat
    /\ Longest(RenewDeadline) + 3 * MaxTry + ExitDelay < Shortest(LeaseDuration)

ASSUME NamesAssumption == "" \notin Replicas

VARIABLES now,
          record,    \* the annotation of the Endpoints object
          updates,   \* writes on their way to the API server
          proc       \* the processes
vars == <<now, record, updates, proc>>

Times == 0..MaxTime
NoRecord == [holder |-> "", renewTime |-> 0]
Records == [holder : Replicas \cup {""}, renewTime : Times]
Writes == [new : Records, read : Records]

Trying == {"get", "got", "update", "acked", "refused"}

\* since: when the current try began, or when the lease was lost.
Down == [pc |-> "down", leading |-> FALSE, late |-> FALSE, polled |-> 0, final |-> FALSE,
         since |-> 0, read |-> NoRecord, observed |-> NoRecord, observedTime |-> 0]

Processes == [pc : {"down", "idle", "lost"} \cup Trying, leading : BOOLEAN, late : BOOLEAN,
              polled : Times, final : BOOLEAN, since : Times,
              read : Records, observed : Records, observedTime : Times]

(* Every variable has its type, and only a leader loses the lead: acquire  *)
(* tries for ever.                                                         *)
TypeOK == /\ now \in Times
          /\ record \in Records
          /\ updates \subseteq Writes
          /\ proc \in [Replicas -> Processes]
          /\ \A r \in Replicas : proc[r].pc = "lost" => proc[r].leading

Init == /\ now = 0 /\ record = NoRecord /\ updates = {}
        /\ proc = [r \in Replicas |-> Down]

Becomes(r, p) == proc' = [proc EXCEPT ![r] = p]
At(r, pc) == proc[r].pc = pc

-----------------------------------------------------------------------------
(* Start of the process with all its controllers (Volume() never declines, *)
(* so pvc is not nil).  A NewController that cannot obtain something ends  *)
(* the process at once: it stays down.                                     *)
NewController(r) ==
    /\ At(r, "down")
    /\ Becomes(r, [Down EXCEPT !.pc = "idle"])
    /\ UNCHANGED <<now, record, updates>>

\* A panic or a kill; requests on their way stay there.
Dies(r) ==
    /\ ~At(r, "down")
    /\ Becomes(r, Down)
    /\ UNCHANGED <<now, record, updates>>

-----------------------------------------------------------------------------
(* tryAcquireOrRenew.  The last try of a Poll follows its timeout.         *)
Timeout(p) == p.polled + Shortest(RenewDeadline)
Deadline(p) == p.polled + Longest(RenewDeadline)

\* Mutant: acquire gives up as renew does.
Begin_acquire(r) ==
    /\ At(r, "idle")
    /\ \E final \in BOOLEAN :
          /\ final => now >= Timeout(proc[r])
          /\ Becomes(r, [proc[r] EXCEPT !.pc = "get", !.final = final, !.since = now])
    /\ UNCHANGED <<now, record, updates>>

\* A Poll that was held up may find a tick before its timeout.
Begin(r) ==
    /\ At(r, "idle")
    /\ \E final \in BOOLEAN :
          /\ final => proc[r].leading /\ now >= Timeout(proc[r])
          /\ ~final => ~proc[r].leading \/ proc[r].late \/ now <= Deadline(proc[r])
          /\ Becomes(r, [proc[r] EXCEPT !.pc = "get", !.final = final, !.since = now])
    /\ UNCHANGED <<now, record, updates>>

\* API server: the Get is served.
Serve(r) ==
    /\ At(r, "get")
    /\ Becomes(r, [proc[r] EXCEPT !.pc = "got", !.read = record])
    /\ UNCHANGED <<now, record, updates>>

\* A try that fails: acquire goes on, and so does Poll unless it was the last.
Failed(p) == [p EXCEPT !.pc = IF p.final THEN "lost" ELSE "idle", !.final = FALSE,
                       !.since = IF p.final THEN now ELSE 0, !.read = NoRecord]

Fails(r) ==
    /\ proc[r].pc \in Trying
    /\ Becomes(r, Failed(proc[r]))
    /\ UNCHANGED <<now, record, updates>>

\* What is observed of an own record is never used, and left out.
Observed(r, p) == IF p.read = p.observed \/ p.read.holder \in {"", r} THEN p
               ELSE [p EXCEPT !.observed = p.read, !.observedTime = now]

\* On the clock of the replica LeaseDuration has, or has not, passed.
MayExpire(p) == p.observedTime + Shortest(LeaseDuration) <= p.since
MayLast(p) == p.since < p.observedTime + Longest(LeaseDuration)

\* The answer of the Get arrives.
Decide(r) ==
    /\ At(r, "got")
    /\ LET p == Observed(r, proc[r])
           free == p.read.holder \in {"", r}
       IN  \/ /\ free \/ MayExpire(p)
              /\ Cardinality(updates) < MaxWrites
              /\ Becomes(r, [p EXCEPT !.pc = "update"])
              /\ updates' = updates \cup
                    {[new |-> [holder |-> r, renewTime |-> p.since], read |-> p.read]}
           \/ /\ ~free /\ MayLast(p)
              /\ Becomes(r, Failed(p))
              /\ UNCHANGED updates
    /\ UNCHANGED <<now, record>>

\* API server: a write is accepted if nothing was written since it was read.
Apply(w) ==
    /\ record' = IF record = w.read THEN w.new ELSE record
    /\ updates' = updates \ {w}
    /\ LET r == w.new.holder
           p == proc[r]
       IN  IF p.pc = "update" /\ w = [new |-> [holder |-> r, renewTime |-> p.since],
                                      read |-> p.read]
           THEN Becomes(r, [p EXCEPT !.pc = IF record = w.read THEN "acked" ELSE "refused"])
           ELSE UNCHANGED proc
    /\ UNCHANGED now

Drop(w) ==
    /\ updates' = updates \ {w}
    /\ UNCHANGED <<now, record, proc>>

(* The write succeeded: OnStartedLeading starts the controllers after      *)
(* acquire, and Poll starts over.  A renewal in time makes up for delays   *)
(* before it.                                                              *)
Leads(r) ==
    /\ At(r, "acked")
    /\ Becomes(r, [Down EXCEPT !.pc = "idle", !.leading = TRUE, !.polled = now,
                               !.late = now > proc[r].since + MaxTry])
    /\ UNCHANGED <<now, record, updates>>

\* The lead is lost: OnStoppedLeading ends the process after the grace period,
StoppedExits(p) == p.since + ShutdownGracePeriod + ExitDelay

\* Mutant: run returns instead.
RunExits_returns(p) == StoppedExits(p)

\* and run, when its channel is closed, at once.
RunExits(p) == p.since + ExitDelay

ExitBy(p) == IF RunExits(p) <= StoppedExits(p) THEN RunExits(p) ELSE StoppedExits(p)

-----------------------------------------------------------------------------
(* Time passes, also over a leader that should have done something by now: *)
(* had its answer, begun its last try, or ended.                           *)
Overdue(p) ==
    \/ p.pc \in Trying /\ now >= p.since + MaxTry
    \/ p.pc = "idle" /\ now >= Deadline(p)
    \/ p.pc = "lost" /\ now >= ExitBy(p)

Tick ==
    /\ now < MaxTime
    /\ now' = now + 1
    /\ proc' = [r \in Replicas |-> [proc[r] EXCEPT !.late = @ \/ (proc[r].leading /\ Overdue(proc[r]))]]
    /\ UNCHANGED <<record, updates>>

Next == \/ Tick
        \/ \E r \in Replicas : \/ NewController(r) \/ Dies(r)
                               \/ Begin(r) \/ Serve(r) \/ Decide(r) \/ Fails(r) \/ Leads(r)
        \/ \E w \in updates : Apply(w) \/ Drop(w)

Spec == Init /\ [][Next]_vars

-----------------------------------------------------------------------------
Punctual(r) == proc[r].leading /\ ~proc[r].late

(* "This implementation does not guarantee that only one client is acting  *)
(* as a leader" (leaderelection.go:21): a process that is late may run the *)
(* controllers beside the next leader.  But of those that renew, give up   *)
(* and end in time there is at most one, across lost answers, late         *)
(* answers and writes, deaths and restarts of all replicas, and clocks     *)
(* whose rates differ by up to Fast / Slow.                                *)
MutualExclusion ==
    \A r, q \in Replicas : Punctual(r) /\ Punctual(q) => r = q
=============================================================================
