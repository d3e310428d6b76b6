---------------------------- MODULE LeaderProofs ----------------------------
(***************************************************************************)
(* At most one replica runs the controllers in time.  A leader that is not *)
(* late ends itself within Longest(RenewDeadline) + 3 * MaxTry + ExitDelay *)
(* of the renewTime it last wrote, and nobody else writes the record       *)
(* within Shortest(LeaseDuration) of it, however late they are themselves. *)
(***************************************************************************)
EXTENDS Leader, TLAPS

Lease == Shortest(LeaseDuration)
Poll == Longest(RenewDeadline)

\* Durations on a clock, in real time.
LEMMA Measured ==
    ASSUME NEW d \in Nat, NEW k \in Nat \ {0}
    PROVE  (d + k - 1) \div k \in Nat
<1> DEFINE q == (d + k - 1) \div k
           m == (d + k - 1) % k
<1>1. q \in Int /\ m \in 0..(k - 1) /\ d + k - 1 = k * q + m
  BY SMT
<1> HIDE DEF q, m
<1>2. ASSUME q < 0 PROVE FALSE
  <2>1. k * q <= k * (-1)
    BY <1>1, <1>2
  <2> QED BY <1>1, <2>1
<1>3. q \in Nat
  BY <1>1, <1>2
<1> QED BY <1>3 DEF q

LEMMA Bounds ==
    /\ Lease \in Nat /\ Poll \in Nat /\ MaxTry \in Nat /\ ExitDelay \in Nat
    /\ ShutdownGracePeriod \in Nat /\ Poll + 3 * MaxTry + ExitDelay < Lease
<1>1. Lease \in Nat /\ Poll \in Nat
  BY LeaderAssumption, Measured DEF Lease, Poll, Shortest, Longest
<1> QED BY <1>1, LeaderAssumption DEF Lease, Poll

LEMMA Exits ==
    ASSUME NEW p, p.since \in Nat
    PROVE  ExitBy(p) = p.since + ExitDelay
  BY Bounds DEF ExitBy, RunExits, StoppedExits

\* A leader in time.
LeadOK(r, p, rec, n) ==
    /\ rec.holder = r /\ p.polled <= rec.renewTime + MaxTry /\ p.pc # "down"
    /\ p.pc = "idle" => n <= Deadline(p) + MaxTry
    /\ p.pc \in Trying => /\ p.since <= Deadline(p) + (IF p.final THEN MaxTry ELSE 0)
                          /\ n <= p.since + MaxTry
    /\ p.pc = "lost" => p.since <= Deadline(p) + 2 * MaxTry /\ n <= ExitBy(p)

ProcOK(r, p, rec, n) ==
    /\ p.read.renewTime <= n /\ p.since <= n /\ p.polled <= n /\ p.observedTime <= n
    /\ p.observed.renewTime <= p.observedTime
    /\ p.pc \in Trying => /\ rec.holder = r => rec.renewTime <= p.since
                          /\ p.read.holder = r => p.read.renewTime <= p.since
    /\ p.pc = "acked" /\ n <= p.since + MaxTry => rec = [holder |-> r, renewTime |-> p.since]
    /\ p.final \/ p.pc = "lost" => p.leading
    /\ p.leading /\ ~p.late => LeadOK(r, p, rec, n)

\* A write replaces nothing, an older record of its sender, or an expired one.
WriteOK(w, p, n) ==
    /\ w.new.holder \in Replicas /\ w.new.renewTime <= n
    /\ p.pc \in Trying => w.new.renewTime <= p.since
    /\ \/ w.read.holder = ""
       \/ w.read.holder = w.new.holder /\ w.read.renewTime <= w.new.renewTime
       \/ w.read.renewTime + Lease <= w.new.renewTime

LeaseOK == /\ TypeOK
           /\ record.renewTime <= now
           /\ \A r \in Replicas : ProcOK(r, proc[r], record, now)
           /\ \A w \in updates : WriteOK(w, proc[w.new.holder], now)

LEMMA Typed ==
    ASSUME NEW p \in Processes, NEW rec \in Records, NEW n \in Times
    PROVE  /\ p.polled \in Nat /\ p.since \in Nat /\ p.observedTime \in Nat
           /\ p.read.renewTime \in Nat /\ p.observed.renewTime \in Nat
           /\ rec.renewTime \in Nat /\ n \in Nat
<1>1. \A t \in Times : t \in Nat
  BY LeaderAssumption DEF Times
<1>2. \A q \in Records : q.renewTime \in Times
  BY Zenon DEF Records
<1>3. /\ p.polled \in Times /\ p.since \in Times /\ p.observedTime \in Times
      /\ p.read \in Records /\ p.observed \in Records
  BY DEF Processes
<1> QED BY <1>1, <1>2, <1>3

(* A leader in time holds the lease, and has renewed it so lately that on  *)
(* nobody's clock LeaseDuration has passed: nobody may take it yet.        *)
LeaseHeld ==
    \A r \in Replicas : Punctual(r) =>
        record.holder = r /\ now < record.renewTime + Shortest(LeaseDuration)

\* A leader's time is up before its lease is.
LEMMA InTime ==
    ASSUME NEW r, NEW p \in Processes, NEW rec \in Records, NEW n \in Times,
           ProcOK(r, p, rec, n), p.leading, ~p.late
    PROVE  rec.holder = r /\ n < rec.renewTime + Lease
<1>1. /\ p.polled \in Nat /\ p.since \in Nat /\ rec.renewTime \in Nat /\ n \in Nat
  BY Typed
<1>2. p.pc \in {"down", "idle", "lost"} \cup Trying
  BY DEF Processes
<1>3. LeadOK(r, p, rec, n)
  BY DEF ProcOK
<1>4. /\ p.pc = "idle" => n <= p.polled + Poll + MaxTry
      /\ p.pc \in Trying => p.since <= p.polled + Poll + MaxTry /\ n <= p.since + MaxTry
      /\ p.pc = "lost" => /\ p.since <= p.polled + Poll + 2 * MaxTry
                          /\ n <= p.since + ExitDelay
  <2>1. p.pc \in Trying => p.since <= p.polled + Poll + MaxTry
    <3>1. CASE p.final
      BY <1>1, <1>3, <3>1, Bounds DEF LeadOK, Deadline, Poll
    <3>2. CASE ~p.final
      <4>1. p.pc \in Trying => p.since <= p.polled + Poll + 0
        BY <1>1, <1>3, <3>2, Zenon DEF LeadOK, Deadline, Poll
      <4> QED BY <1>1, <4>1, Bounds
    <3> QED BY <3>1, <3>2
  <2> QED BY <1>1, <1>3, <2>1, Exits DEF LeadOK, Deadline, Poll
<1>5. rec.holder = r /\ p.polled <= rec.renewTime + MaxTry /\ p.pc # "down"
  BY <1>3 DEF LeadOK
<1>6. n <= p.polled + Poll + 2 * MaxTry + ExitDelay
  BY <1>1, <1>2, <1>4, <1>5, Bounds
<1> QED BY <1>1, <1>5, <1>6, Bounds

\* A step of one replica that sends the writes of W.
SentBefore(r, p) ==
    p.pc \in Trying => \A w \in updates : w.new.holder = r => w.new.renewTime <= p.since

LEMMA Sends ==
    ASSUME LeaseOK, NEW r \in Replicas, NEW p \in Processes, Becomes(r, p),
           now' = now, record' = record, ProcOK(r, p, record, now), SentBefore(r, p),
           NEW W \in SUBSET Writes, updates' = updates \cup W,
           \A w \in W : WriteOK(w, p, now) /\ w.new.holder = r
    PROVE  LeaseOK'
<1>1. proc' \in [Replicas -> Processes] /\ proc'[r] = p
      /\ \A q \in Replicas : q # r => proc'[q] = proc[q]
  BY DEF LeaseOK, TypeOK, Becomes
<1>2. \A q \in Replicas : ProcOK(q, proc'[q], record', now')
  BY <1>1 DEF LeaseOK
<1>5. \A q \in Replicas : proc'[q].pc = "lost" => proc'[q].leading
  BY <1>2 DEF ProcOK
<1>3. ASSUME NEW w \in updates' PROVE WriteOK(w, proc'[w.new.holder], now')
  <2>1. CASE w \in updates /\ w.new.holder # r
    BY <1>1, <2>1, Zenon DEF LeaseOK, WriteOK
  <2>2. CASE w \in updates /\ w.new.holder = r
    BY <1>1, <2>2, Zenon DEF LeaseOK, WriteOK, SentBefore
  <2>3. CASE w \in W
    BY <1>1, <2>3
  <2> QED BY <2>1, <2>2, <2>3
<1> QED BY <1>1, <1>2, <1>3, <1>5 DEF LeaseOK, TypeOK

LEMMA Moves ==
    ASSUME LeaseOK, NEW r \in Replicas, NEW p \in Processes, Becomes(r, p),
           now' = now, record' = record, updates' = updates,
           ProcOK(r, p, record, now), SentBefore(r, p)
    PROVE  LeaseOK'
<1> DEFINE none == {}
<1>1. updates' = updates \cup none /\ none \in SUBSET Writes
  OBVIOUS
<1>2. \A w \in none : WriteOK(w, p, now) /\ w.new.holder = r
  OBVIOUS
<1> HIDE DEF none
<1> QED BY <1>1, <1>2, Sends

LEMMA NoRecordOK == NoRecord \in Records /\ NoRecord.renewTime = 0 /\ 0 \in Times
<1>1. 0 \in Times
  BY LeaderAssumption DEF Times
<1>2. NoRecord \in Records
  BY <1>1 DEF NoRecord, Records
<1>3. NoRecord.renewTime = 0
  BY DEF NoRecord
<1> QED BY <1>1, <1>2, <1>3

LEMMA DownOK == Down \in Processes /\ \A r, rec : \A n \in Nat : ProcOK(r, Down, rec, n)
<1>1. /\ Down.pc = "down" /\ Down.leading = FALSE /\ Down.final = FALSE
      /\ Down.polled = 0 /\ Down.since = 0 /\ Down.observedTime = 0
      /\ Down.read.renewTime = 0 /\ Down.observed.renewTime = 0
  BY Zenon DEF Down, NoRecord
<1>2. 0 \in Times /\ NoRecord \in Records
  BY NoRecordOK
<1>3. Down \in Processes
  BY <1>2 DEF Down, Processes
<1>4. "down" \notin Trying
  BY DEF Trying
<1> QED BY <1>1, <1>3, <1>4 DEF ProcOK

\* A failed try of a replica leaves it in order.
LEMMA FailedOK ==
    ASSUME NEW r \in Replicas, NEW p \in Processes, NEW rec \in Records, now \in Times,
           ProcOK(r, p, rec, now), p.pc \in Trying
    PROVE  Failed(p) \in Processes /\ ProcOK(r, Failed(p), rec, now)
<1> DEFINE f == Failed(p)
<1>0. 0 \in Times /\ NoRecord \in Records /\ NoRecord.renewTime = 0
  BY NoRecordOK
<1>1. /\ f.leading = p.leading /\ f.late = p.late /\ f.polled = p.polled /\ f.read = NoRecord
      /\ f.observed = p.observed /\ f.observedTime = p.observedTime /\ f.final = FALSE
  BY DEF Failed, Processes
<1>2. /\ p.final => f.pc = "lost" /\ f.since = now
      /\ ~p.final => f.pc = "idle" /\ f.since = 0
  <2>1. p.final \in BOOLEAN
    BY DEF Processes
  <2>2. CASE p.final
    BY <2>2 DEF Failed, Processes
  <2>3. CASE ~p.final
    BY <2>3 DEF Failed, Processes
  <2> QED BY <2>2, <2>3
<1>3. f \in Processes
  BY <1>0, Zenon DEF Failed, Processes
<1> HIDE DEF f
<1>4. /\ p.polled \in Nat /\ p.since \in Nat /\ rec.renewTime \in Nat /\ now \in Nat
      /\ f.pc \notin Trying /\ f.pc # "acked"
  <2>1. {"lost", "idle", "acked"} \cap Trying = {"acked"}
    BY DEF Trying
  <2> QED BY <1>2, <2>1, Typed
<1>5. ASSUME p.leading, ~p.late PROVE LeadOK(r, f, rec, now)
  <2>1. LeadOK(r, p, rec, now) /\ now <= p.since + MaxTry
    BY <1>5 DEF ProcOK, LeadOK
  <2>4. Deadline(f) = Deadline(p) /\ Deadline(p) \in Nat
    BY <1>1, <1>4, Bounds DEF Deadline, Poll
  <2>2. CASE p.final
    BY <1>1, <1>2, <1>4, <2>1, <2>2, <2>4, Bounds, Exits DEF LeadOK
  <2>3. CASE ~p.final
    BY <1>1, <1>2, <1>4, <2>1, <2>3, <2>4, Bounds DEF LeadOK
  <2> QED BY <2>2, <2>3
<1>6. f.pc = "lost" => f.leading
  BY <1>1, <1>2 DEF ProcOK
<1>7. ProcOK(r, f, rec, now)
  <2>1. f.since <= now
    BY <1>2, <1>4
  <2> QED BY <1>0, <1>1, <1>4, <1>5, <1>6, <2>1 DEF ProcOK
<1> QED BY <1>3, <1>7 DEF f

LEMMA FailedPc ==
    ASSUME NEW p \in Processes
    PROVE  Failed(p).pc \notin Trying
<1>1. Failed(p).pc = IF p.final THEN "lost" ELSE "idle"
  BY DEF Failed, Processes
<1> QED BY <1>1 DEF Trying

\* What a replica remembers of a record of another was written before.
LEMMA ObservedOK ==
    ASSUME NEW r \in Replicas, NEW p \in Processes, NEW rec \in Records, now \in Times,
           ProcOK(r, p, rec, now)
    PROVE  LET o == Observed(r, p) IN
           /\ o \in Processes /\ ProcOK(r, o, rec, now) /\ o.pc = p.pc
           /\ o.read = p.read /\ o.since = p.since
           /\ o.read.holder \in {"", r} \/ o.read.renewTime <= o.observedTime
<1>1. CASE p.read = p.observed \/ p.read.holder \in {"", r}
  BY <1>1, Zenon DEF Observed, ProcOK
<1>2. CASE ~(p.read = p.observed \/ p.read.holder \in {"", r})
  <2> DEFINE o == [p EXCEPT !.observed = p.read, !.observedTime = now]
  <2>1. /\ o \in Processes /\ o.pc = p.pc /\ o.read = p.read /\ o.since = p.since
        /\ o.leading = p.leading /\ o.polled = p.polled /\ o.final = p.final /\ o.late = p.late
        /\ o.observed = p.read /\ o.observedTime = now
    BY Zenon DEF Processes
  <2>2. Observed(r, p) = o
    BY <1>2, Zenon DEF Observed
  <2> HIDE DEF o
  <2>3. now \in Nat /\ now <= now
    BY Typed
  <2>4. p.leading /\ ~p.late => LeadOK(r, o, rec, now)
    BY <2>1 DEF ProcOK, LeadOK, Deadline, ExitBy, RunExits, StoppedExits
  <2>5. ProcOK(r, o, rec, now)
    BY <2>1, <2>3, <2>4 DEF ProcOK
  <2> QED BY <2>1, <2>2, <2>5, Zenon DEF ProcOK
<1> QED BY <1>1, <1>2, Zenon

\* An accepted write.
LEMMA ApplyOK ==
    ASSUME NEW r \in Replicas, NEW p \in Processes, NEW rec \in Records, NEW n \in Times,
           NEW w \in Writes, NEW q \in Processes, WriteOK(w, q, n), ProcOK(r, p, rec, n),
           w.new.holder = r => q = p
    PROVE  ProcOK(r, p, IF rec = w.read THEN w.new ELSE rec, n)
<1>1. CASE rec # w.read
  BY <1>1
<1>2. CASE rec = w.read
  <2>1. w.new \in Records /\ w.read \in Records
    BY DEF Writes
  <2>2. /\ p.since \in Nat /\ p.polled \in Nat /\ n \in Nat /\ rec.renewTime \in Nat
        /\ w.new.renewTime \in Nat
    BY <2>1, Typed
  <2>3. p.pc \in Trying /\ w.new.holder = r => w.new.renewTime <= p.since
    BY Zenon DEF WriteOK
  <2>4. ASSUME rec.holder = r, n < rec.renewTime + Lease
        PROVE  w.new.holder = r /\ rec.renewTime <= w.new.renewTime
    <3>1. rec.holder # ""
      BY <2>4, NamesAssumption, Zenon
    <3>2. ~(w.read.renewTime + Lease <= w.new.renewTime)
      <4>1. w.new.renewTime <= n
        BY Zenon DEF WriteOK
      <4> QED BY <1>2, <2>2, <2>4, <4>1, Bounds
    <3> QED BY <1>2, <2>4, <3>1, <3>2, Zenon DEF WriteOK
  <2>5. p.pc = "acked" /\ n <= p.since + MaxTry => w.new = rec
    <3> SUFFICES ASSUME p.pc = "acked", n <= p.since + MaxTry PROVE w.new = rec
      OBVIOUS
    <3>1. p.pc \in Trying
      BY DEF Trying
    <3>2. rec.holder = r /\ rec.renewTime = p.since /\ n <= p.since + MaxTry
      BY <3>1 DEF ProcOK
    <3>3. n < rec.renewTime + Lease
      BY <2>2, <3>2, Bounds
    <3>4. w.new.holder = rec.holder /\ w.new.renewTime = rec.renewTime
      BY <2>2, <2>3, <2>4, <3>1, <3>2, <3>3
    <3>5. /\ w.new = [holder |-> w.new.holder, renewTime |-> w.new.renewTime]
          /\ rec = [holder |-> rec.holder, renewTime |-> rec.renewTime]
      BY <2>1, Zenon DEF Records
    <3> QED BY <3>4, <3>5
  <2>6. p.leading /\ ~p.late => LeadOK(r, p, w.new, n)
    <3> SUFFICES ASSUME p.leading, ~p.late PROVE LeadOK(r, p, w.new, n)
      OBVIOUS
    <3>1. w.new.holder = r /\ rec.renewTime <= w.new.renewTime
      BY <2>4, InTime
    <3>2. LeadOK(r, p, rec, n)
      BY DEF ProcOK
    <3>3. p.polled <= w.new.renewTime + MaxTry
      BY <2>2, <3>1, <3>2, Bounds DEF LeadOK
    <3> QED BY <3>1, <3>2, <3>3 DEF LeadOK
  <2>7. ProcOK(r, p, w.new, n)
    BY <2>3, <2>5, <2>6 DEF ProcOK
  <2> QED BY <1>2, <2>7
<1> QED BY <1>1, <1>2

\* Time passes: q is what p has become.
LEMMA TickOK ==
    ASSUME NEW r \in Replicas, NEW p \in Processes, NEW q \in Processes,
           NEW rec \in Records, NEW n \in Times, NEW m \in Nat, m = n + 1,
           ProcOK(r, p, rec, n),
           q.pc = p.pc, q.leading = p.leading, q.polled = p.polled, q.final = p.final,
           q.since = p.since, q.read = p.read, q.observed = p.observed,
           q.observedTime = p.observedTime,
           p.leading /\ ~q.late => /\ ~p.late
                                   /\ p.pc \in Trying => n < p.since + MaxTry
                                   /\ p.pc = "idle" => n < Deadline(p)
                                   /\ p.pc = "lost" => n < ExitBy(p)
    PROVE  ProcOK(r, q, rec, m)
<1>1. /\ p.polled \in Nat /\ p.since \in Nat /\ p.observedTime \in Nat
      /\ p.read.renewTime \in Nat /\ n \in Nat
  BY Typed
<1>2. /\ p.read.renewTime <= m /\ p.since <= m /\ p.polled <= m /\ p.observedTime <= m
  BY <1>1 DEF ProcOK
<1>3. m <= p.since + MaxTry => n <= p.since + MaxTry
  BY <1>1, Bounds
<1>4. p.leading /\ ~q.late => LeadOK(r, q, rec, m)
  <2> SUFFICES ASSUME p.leading, ~q.late PROVE LeadOK(r, q, rec, m)
    OBVIOUS
  <2>1. LeadOK(r, p, rec, n)
    BY DEF ProcOK
  <2>2. Deadline(q) = Deadline(p) /\ Deadline(p) \in Nat
    BY <1>1, Bounds DEF Deadline, Poll
  <2>3. p.pc = "idle" => m <= Deadline(q) + MaxTry
    BY <1>1, <2>2, Bounds
  <2>4. p.pc = "lost" => m <= ExitBy(q)
    BY <1>1, Bounds, Exits
  <2>5. p.pc \in Trying => m <= p.since + MaxTry
    BY <1>1, Bounds
  <2> QED BY <2>1, <2>2, <2>3, <2>4, <2>5 DEF LeadOK
<1> QED BY <1>2, <1>3, <1>4 DEF ProcOK

LEMMA LeaseInitially == Init => LeaseOK
<1>1. NoRecord \in Records /\ NoRecord.renewTime = 0 /\ 0 \in Times /\ 0 \in Nat
  BY NoRecordOK
<1>2. Down.pc # "lost"
  BY DEF Down
<1>3. Init => TypeOK
  BY <1>1, <1>2, DownOK, Zenon DEF Init, TypeOK
<1> QED BY <1>1, <1>3, DownOK DEF Init, LeaseOK

LEMMA LeaseStep == LeaseOK /\ [Next]_vars => LeaseOK'
<1> SUFFICES ASSUME LeaseOK, [Next]_vars PROVE LeaseOK'
  OBVIOUS
<1>0. /\ now \in Times /\ record \in Records /\ updates \in SUBSET Writes
      /\ record.renewTime <= now
  BY DEF LeaseOK, TypeOK
<1>a. \A r \in Replicas : proc[r] \in Processes /\ ProcOK(r, proc[r], record, now)
  BY DEF LeaseOK, TypeOK
<1>b. \A w \in updates : WriteOK(w, proc[w.new.holder], now)
  BY DEF LeaseOK
<1>1. ASSUME NEW r \in Replicas, NewController(r) PROVE LeaseOK'
  <2> DEFINE p == [Down EXCEPT !.pc = "idle"]
  <2>1. p \in Processes /\ p.pc = "idle" /\ ~p.leading /\ ~p.final /\ p.read = Down.read
        /\ p.polled = Down.polled /\ p.since = Down.since /\ p.observed = Down.observed
        /\ p.observedTime = Down.observedTime
    BY DownOK, Zenon DEF Processes, Down
  <2>2. "idle" \notin Trying
    BY DEF Trying
  <2>3. Becomes(r, p) /\ now' = now /\ record' = record /\ updates' = updates
    BY <1>1 DEF NewController
  <2> HIDE DEF p
  <2>4. now \in Nat
    BY <1>0, DownOK, Typed
  <2>5. ProcOK(r, p, record, now)
    BY <2>1, <2>2, <2>4, DownOK DEF ProcOK
  <2>6. SentBefore(r, p)
    BY <2>1, <2>2 DEF SentBefore
  <2> QED BY <2>1, <2>3, <2>5, <2>6, Moves
<1>2. ASSUME NEW r \in Replicas, Dies(r) PROVE LeaseOK'
  <2>1. now \in Nat
    BY <1>0, DownOK, Typed
  <2>2. Down.pc \notin Trying
    BY DEF Down, Trying
  <2>3. SentBefore(r, Down)
    BY <2>2 DEF SentBefore
  <2> QED BY <1>2, <2>1, <2>3, DownOK, Moves DEF Dies
<1>3. ASSUME NEW r \in Replicas, Begin(r) PROVE LeaseOK'
  <2>1. PICK final \in BOOLEAN :
           /\ final => proc[r].leading /\ now >= Timeout(proc[r])
           /\ ~final => ~proc[r].leading \/ proc[r].late \/ now <= Deadline(proc[r])
           /\ Becomes(r, [proc[r] EXCEPT !.pc = "get", !.final = final, !.since = now])
    BY <1>3, Zenon DEF Begin
  <2> DEFINE p == [proc[r] EXCEPT !.pc = "get", !.final = final, !.since = now]
  <2>2. /\ p \in Processes /\ p.pc = "get" /\ p.final = final /\ p.since = now
        /\ p.leading = proc[r].leading /\ p.polled = proc[r].polled /\ p.read = proc[r].read
        /\ p.observed = proc[r].observed /\ p.observedTime = proc[r].observedTime
        /\ p.late = proc[r].late
    BY <1>0, <1>a, Zenon DEF Processes, Trying
  <2> HIDE DEF p
  <2>3. p.pc # "acked" /\ p.pc # "lost" /\ p.pc # "idle" /\ p.pc # "down"
    BY <2>2
  <2>4. At(r, "idle") /\ ProcOK(r, proc[r], record, now)
    BY <1>3, <1>a DEF Begin
  <2>5. p.leading /\ ~p.late => LeadOK(r, p, record, now)
    <3> SUFFICES ASSUME p.leading, ~p.late PROVE LeadOK(r, p, record, now)
      OBVIOUS
    <3>1. LeadOK(r, proc[r], record, now)
      BY <2>2, <2>4 DEF ProcOK
    <3>2. now \in Nat /\ proc[r].polled \in Nat
      BY <1>0, <1>a, Typed
    <3>3. Deadline(p) = Deadline(proc[r]) /\ Deadline(p) \in Nat
      BY <2>2, <3>2, Bounds DEF Deadline, Poll
    <3>4. p.since <= Deadline(p) + (IF p.final THEN MaxTry ELSE 0)
      <4>1. now <= Deadline(proc[r]) + MaxTry
        BY <2>4, <3>1 DEF LeadOK, At
      <4>2. CASE final
        BY <2>2, <3>2, <3>3, <4>1, <4>2
      <4>3. CASE ~final
        BY <2>1, <2>2, <3>2, <3>3, <4>3
      <4> QED BY <4>2, <4>3
    <3>5. now <= now + MaxTry
      BY <3>2, Bounds
    <3> QED BY <2>2, <2>3, <3>1, <3>3, <3>4, <3>5 DEF LeadOK
  <2>6. ProcOK(r, p, record, now)
    <3>1. now \in Nat /\ now <= now
      BY <1>0, <1>a, Typed
    <3> QED BY <1>0, <2>1, <2>2, <2>3, <2>4, <2>5, <3>1 DEF ProcOK
  <2>7. SentBefore(r, p)
    BY <1>b, <2>2, Zenon DEF WriteOK, SentBefore
  <2>8. Becomes(r, p) /\ now' = now /\ record' = record /\ updates' = updates
    BY <1>3, <2>1 DEF Begin, p
  <2> QED BY <2>2, <2>6, <2>7, <2>8, Moves
<1>4. ASSUME NEW r \in Replicas, Serve(r) PROVE LeaseOK'
  <2> DEFINE p == [proc[r] EXCEPT !.pc = "got", !.read = record]
  <2>1. /\ p \in Processes /\ p.pc = "got" /\ p.read = record /\ p.final = proc[r].final
        /\ p.leading = proc[r].leading /\ p.polled = proc[r].polled /\ p.since = proc[r].since
        /\ p.late = proc[r].late
        /\ p.observed = proc[r].observed /\ p.observedTime = proc[r].observedTime
    BY <1>0, <1>a, Zenon DEF Processes, Trying
  <2>2. Becomes(r, p) /\ now' = now /\ record' = record /\ updates' = updates
    BY <1>4 DEF Serve
  <2> HIDE DEF p
  <2>3. proc[r].pc = "get" /\ p.pc \in Trying /\ proc[r].pc \in Trying
    BY <1>4, <2>1 DEF Serve, At, Trying
  <2>4. p.pc # "acked" /\ p.pc # "lost" /\ p.pc # "idle" /\ p.pc # "down"
    BY <2>1
  <2>5. p.leading /\ ~p.late => LeadOK(r, p, record, now)
    BY <1>a, <2>1, <2>3, <2>4, ZenonT(30) DEF ProcOK, LeadOK, Deadline
  <2>6. ProcOK(r, p, record, now)
    BY <1>0, <1>a, <2>1, <2>3, <2>4, <2>5 DEF ProcOK
  <2>7. SentBefore(r, p)
    BY <1>b, <2>1, <2>3, Zenon DEF WriteOK, SentBefore
  <2> QED BY <2>1, <2>2, <2>6, <2>7, Moves
<1>5. ASSUME NEW r \in Replicas, Fails(r) PROVE LeaseOK'
  <2>1. Failed(proc[r]) \in Processes /\ ProcOK(r, Failed(proc[r]), record, now)
    BY <1>0, <1>5, <1>a, FailedOK DEF Fails
  <2>2. Failed(proc[r]).pc \notin Trying
    BY <1>a, FailedPc
  <2>3. SentBefore(r, Failed(proc[r]))
    BY <2>2 DEF SentBefore
  <2> QED BY <1>5, <2>1, <2>3, Moves DEF Fails
<1>6. ASSUME NEW r \in Replicas, Decide(r) PROVE LeaseOK'
  <2> DEFINE p == Observed(r, proc[r])
             u == [p EXCEPT !.pc = "update"]
             w == [new |-> [holder |-> r, renewTime |-> p.since], read |-> p.read]
  <2>1. proc[r].pc = "got" /\ proc[r].pc \in Trying
    BY <1>6, Zenon DEF Decide, At, Trying
  <2>2. /\ p \in Processes /\ ProcOK(r, p, record, now) /\ p.pc = "got"
        /\ p.read = proc[r].read /\ p.since = proc[r].since
        /\ p.read.holder \in {"", r} \/ p.read.renewTime <= p.observedTime
    BY <1>0, <1>a, <2>1, ObservedOK, Zenon
  <2>3. /\ now' = now /\ record' = record
        /\ \/ Becomes(r, Failed(p)) /\ updates' = updates
           \/ /\ p.read.holder \in {"", r} \/ MayExpire(p)
              /\ Becomes(r, u) /\ updates' = updates \cup {w}
    BY <1>6, Zenon DEF Decide
  <2> HIDE DEF p
  <2>4. CASE Becomes(r, Failed(p)) /\ updates' = updates
    <3>1. Failed(p) \in Processes /\ ProcOK(r, Failed(p), record, now)
      BY <1>0, <2>1, <2>2, FailedOK, Zenon
    <3>2. Failed(p).pc \notin Trying
      BY <2>2, FailedPc, Zenon
    <3>3. SentBefore(r, Failed(p))
      BY <3>2 DEF SentBefore
    <3> QED BY <2>3, <2>4, <3>1, <3>3, Moves
  <2>5. CASE /\ p.read.holder \in {"", r} \/ MayExpire(p)
             /\ Becomes(r, u) /\ updates' = updates \cup {w}
    <3>1. /\ u \in Processes /\ u.pc = "update" /\ u.read = p.read /\ u.final = p.final
          /\ u.leading = p.leading /\ u.polled = p.polled /\ u.since = p.since /\ u.late = p.late
          /\ u.observed = p.observed /\ u.observedTime = p.observedTime
      BY <2>2, Zenon DEF Processes, Trying
    <3>2. u.pc \in Trying /\ p.pc \in Trying
      BY <2>1, <2>2, <3>1, Zenon DEF Trying
    <3>3. ProcOK(r, u, record, now)
      <4>1. u.leading /\ ~u.late => LeadOK(r, u, record, now)
        BY <2>2, <3>1, <3>2, Zenon DEF ProcOK, LeadOK, Deadline
      <4> HIDE DEF u
      <4> QED BY <2>2, <3>1, <3>2, <4>1, Zenon DEF ProcOK
    <3>4. w \in Writes /\ w.new.holder = r /\ w.new.renewTime = p.since /\ w.read = p.read
      BY <2>2, Zenon DEF Writes, Records, Processes
    <3>5. WriteOK(w, u, now)
      <4>1. /\ p.read.renewTime \in Nat /\ p.since \in Nat /\ p.observedTime \in Nat
            /\ p.since <= now /\ now \in Nat
        BY <1>0, <2>2, Typed, Zenon DEF ProcOK
      <4>0. p.since <= p.since
        BY <4>1
      <4>2. p.read.holder = r => p.read.renewTime <= p.since
        BY <2>2, <3>2 DEF ProcOK
      <4>3. CASE MayExpire(p) /\ p.read.holder \notin {"", r}
        <5>2. p.read.renewTime + Lease <= p.since
          <6>1. p.read.renewTime <= p.observedTime
            BY <2>2, <4>3, Zenon
          <6>2. p.observedTime + Lease <= p.since
            BY <4>3, Zenon DEF MayExpire, Lease
          <6> QED BY <4>1, <6>1, <6>2, Bounds
        <5> HIDE DEF w, u
        <5>3. w.read.renewTime + Lease <= w.new.renewTime
          BY <3>4, <5>2
        <5> QED BY <3>1, <3>4, <4>1, <4>0, <5>3, Zenon DEF WriteOK
      <4> HIDE DEF w, u
      <4>4. CASE p.read.holder \in {"", r}
        BY <3>1, <3>4, <4>0, <4>1, <4>2, <4>4, Zenon DEF WriteOK
      <4> QED BY <2>5, <4>3, <4>4, Zenon
    <3>6. SentBefore(r, u)
      BY <1>b, <2>1, <2>2, <3>1, Zenon DEF WriteOK, SentBefore
    <3> HIDE DEF u, w
    <3>7. {w} \in SUBSET Writes /\ \A v \in {w} : WriteOK(v, u, now) /\ v.new.holder = r
      BY <3>4, <3>5, SMTT(30)
    <3> QED BY <2>3, <2>5, <3>1, <3>3, <3>6, <3>7, Sends, Zenon
  <2> QED BY <2>3, <2>4, <2>5, Zenon
<1>7. ASSUME NEW r \in Replicas, Leads(r) PROVE LeaseOK'
  <2> DEFINE late == now > proc[r].since + MaxTry
             p == [Down EXCEPT !.pc = "idle", !.leading = TRUE, !.polled = now, !.late = late]
  <2>0. late \in BOOLEAN
    OBVIOUS
  <2>2. Becomes(r, p) /\ now' = now /\ record' = record /\ updates' = updates
    BY <1>7 DEF Leads
  <2>9. now \in Nat /\ proc[r].since \in Nat
    BY <1>0, <1>a, Typed
  <2>6. ~late => now <= proc[r].since + MaxTry
    BY <2>9, Bounds
  <2> HIDE DEF late
  <2>1. /\ p \in Processes /\ p.pc = "idle" /\ p.leading = TRUE /\ p.polled = now
        /\ p.final = FALSE /\ p.read = Down.read /\ p.since = Down.since
        /\ p.late = late
        /\ p.observed = Down.observed /\ p.observedTime = Down.observedTime
    BY <1>0, <2>0, DownOK, ZenonT(30) DEF Processes, Down
  <2> HIDE DEF p
  <2>3. p.pc \notin Trying /\ proc[r].pc = "acked" /\ proc[r].pc \in Trying
    BY <1>7, <2>1 DEF Trying, Leads, At
  <2>5. ~p.late => LeadOK(r, p, record, now)
    <3> SUFFICES ASSUME ~p.late PROVE LeadOK(r, p, record, now)
      OBVIOUS
    <3>1. now <= proc[r].since + MaxTry
      BY <2>1, <2>6, Zenon
    <3>2. record = [holder |-> r, renewTime |-> proc[r].since]
      BY <1>a, <2>3, <3>1 DEF ProcOK
    <3>3. record.holder = r /\ p.polled <= record.renewTime + MaxTry
      BY <2>1, <3>1, <3>2
    <3>4. now <= Deadline(p) + MaxTry
      BY <2>1, <2>9, Bounds DEF Deadline, Poll
    <3> QED BY <2>1, <2>3, <3>3, <3>4 DEF LeadOK
  <2>7. ProcOK(r, p, record, now)
    BY <2>1, <2>3, <2>9, <2>5, DownOK DEF ProcOK
  <2>8. SentBefore(r, p)
    BY <2>3 DEF SentBefore
  <2> QED BY <2>1, <2>2, <2>7, <2>8, Moves
<1>8. ASSUME NEW w \in updates, Apply(w) PROVE LeaseOK'
  <2> DEFINE q == w.new.holder
             a == [proc[q] EXCEPT !.pc = IF record = w.read THEN "acked" ELSE "refused"]
  <2>1. /\ q \in Replicas /\ w.new \in Records /\ w.new.renewTime <= now
        /\ WriteOK(w, proc[q], now)
    BY <1>0, <1>b, Zenon DEF WriteOK, Writes
  <2>2. /\ record' = (IF record = w.read THEN w.new ELSE record)
        /\ now' = now /\ updates' = updates \ {w}
        /\ \/ proc' = proc
           \/ /\ Becomes(q, a) /\ proc[q].pc = "update"
              /\ w.new = [holder |-> q, renewTime |-> proc[q].since]
    BY <1>8 DEF Apply
  <2>3. record' \in Records /\ record'.renewTime <= now'
    BY <1>0, <2>1, <2>2
  \* What the write changes for a replica.
  <2>4. ASSUME NEW r \in Replicas PROVE ProcOK(r, proc[r], record', now')
    BY <1>0, <1>a, <2>1, <2>2, ApplyOK
  <2>5. CASE proc' = proc
    <3>1. \A v \in updates' : WriteOK(v, proc'[v.new.holder], now')
      BY <1>b, <2>2, <2>5, SMTT(30)
    <3>2. \A r \in Replicas : proc'[r].pc = "lost" => proc'[r].leading
      BY <2>4, <2>5 DEF ProcOK
    <3> QED BY <2>2, <2>3, <2>4, <2>5, <3>1, <3>2 DEF LeaseOK, TypeOK
  <2>6. CASE /\ Becomes(q, a) /\ proc[q].pc = "update"
             /\ w.new = [holder |-> q, renewTime |-> proc[q].since]
    <3>1. /\ a \in Processes /\ a.pc = (IF record = w.read THEN "acked" ELSE "refused")
          /\ a.leading = proc[q].leading /\ a.polled = proc[q].polled
          /\ a.final = proc[q].final /\ a.since = proc[q].since /\ a.read = proc[q].read
          /\ a.late = proc[q].late
          /\ a.observed = proc[q].observed /\ a.observedTime = proc[q].observedTime
      BY <1>a, <2>1 DEF Processes, Trying
    <3>2. a.pc \in Trying /\ proc[q].pc \in Trying
      BY <2>6, <3>1 DEF Trying
    <3>3. a.pc # "lost" /\ a.pc # "idle" /\ a.pc # "down"
      BY <3>1
    <3>4. a.pc = "acked" => record' = [holder |-> q, renewTime |-> a.since]
      BY <2>2, <2>6, <3>1
    <3>5. \A r \in Replicas : r # q => proc'[r] = proc[r]
      BY <2>6, SMTT(30) DEF Becomes, LeaseOK, TypeOK
    <3>6. proc'[q] = a /\ proc' \in [Replicas -> Processes]
      BY <2>1, <2>6, <3>1, SMTT(30) DEF Becomes, LeaseOK, TypeOK
    <3> HIDE DEF a, q
    <3>7. a.leading /\ ~a.late => LeadOK(q, a, record', now')
      BY <2>1, <2>4, <3>1, <3>2, <3>3, ZenonT(30) DEF ProcOK, LeadOK, Deadline
    <3>8. ProcOK(q, a, record', now')
      BY <2>1, <2>4, <3>1, <3>2, <3>3, <3>4, <3>7 DEF ProcOK
    <3>9. \A r \in Replicas : ProcOK(r, proc'[r], record', now')
      BY <2>4, <3>5, <3>6, <3>8
    <3>10. \A v \in updates' : WriteOK(v, proc'[v.new.holder], now')
      <4> TAKE v \in updates'
      <4>1. WriteOK(v, proc[v.new.holder], now) /\ v.new.holder \in Replicas
        BY <1>b, <2>2, Zenon DEF WriteOK
      <4>2. CASE v.new.holder = q
        BY <2>2, <3>1, <3>2, <3>6, <4>1, <4>2, Zenon DEF WriteOK
      <4>3. CASE v.new.holder # q
        BY <2>2, <3>5, <4>1, <4>3
      <4> QED BY <4>2, <4>3, SMTT(30)
    <3>11. \A r \in Replicas : proc'[r].pc = "lost" => proc'[r].leading
      BY <3>9 DEF ProcOK
    <3> QED BY <2>2, <2>3, <3>6, <3>9, <3>10, <3>11 DEF LeaseOK, TypeOK
  <2> QED BY <2>2, <2>5, <2>6
<1>9. ASSUME NEW w \in updates, Drop(w) PROVE LeaseOK'
  BY <1>9 DEF Drop, LeaseOK, TypeOK
<1>10. ASSUME Tick PROVE LeaseOK'
  <2> DEFINE Late(r) == proc[r].late \/ (proc[r].leading /\ Overdue(proc[r]))
             T(r) == [proc[r] EXCEPT !.late = Late(r)]
  <2>1. now \in Nat /\ now' = now + 1 /\ now' \in Times /\ now' \in Nat
    BY <1>0, <1>10, LeaderAssumption DEF Tick, Times
  <2>2. record' = record /\ updates' = updates /\ proc' = [r \in Replicas |-> T(r)]
    BY <1>10 DEF Tick
  <2>3. record.renewTime <= now'
    <3>1. record.renewTime \in Nat
      BY <1>0, DownOK, Typed, SMTT(30)
    <3> QED BY <1>0, <2>1, <3>1
  <2>4. ASSUME NEW r \in Replicas
        PROVE  /\ T(r) \in Processes /\ ProcOK(r, T(r), record, now')
               /\ T(r).pc = proc[r].pc /\ T(r).since = proc[r].since
    <3> DEFINE p == proc[r]
               q == T(r)
    <3>0. p \in Processes /\ ProcOK(r, p, record, now)
      BY <1>a
    <3>1. Late(r) \in BOOLEAN
      <4>1. p.late \in BOOLEAN
        BY <3>0 DEF Processes
      <4> QED BY <4>1
    <3> HIDE DEF Late
    <3>2. /\ q \in Processes /\ q.pc = p.pc /\ q.leading = p.leading /\ q.polled = p.polled
          /\ q.final = p.final /\ q.since = p.since /\ q.read = p.read
          /\ q.observed = p.observed /\ q.observedTime = p.observedTime /\ q.late = Late(r)
      BY <3>0, <3>1, Zenon DEF Processes
    <3>3. p.polled \in Nat /\ p.since \in Nat
      BY <3>0, <1>0, Typed
    <3>4. p.leading /\ ~Late(r) => ~p.late /\ ~Overdue(p)
      BY DEF Late
    <3> HIDE DEF q, T
    <3>5. p.leading /\ ~q.late => /\ ~p.late
                                  /\ p.pc \in Trying => now < p.since + MaxTry
                                  /\ p.pc = "idle" => now < Deadline(p)
                                  /\ p.pc = "lost" => now < ExitBy(p)
      <4>1. Deadline(p) \in Nat /\ ExitBy(p) \in Nat
        BY <3>3, Bounds, Exits DEF Deadline, Poll
      <4> QED BY <2>1, <3>2, <3>3, <3>4, <4>1, Bounds DEF Overdue
    <3>6. ProcOK(r, q, record, now')
      BY <1>0, <2>1, <3>0, <3>2, <3>5, TickOK
    <3> QED BY <3>2, <3>6 DEF q
  <2> HIDE DEF T
  <2>5. ASSUME NEW w \in updates PROVE WriteOK(w, T(w.new.holder), now')
    <3>1. w.new.renewTime \in Nat
      <4>1. w.new \in Records
        BY <1>0 DEF Writes
      <4> QED BY <1>0, <4>1, DownOK, Typed
    <3>2. w.new.renewTime <= now => w.new.renewTime <= now'
      BY <2>1, <3>1
    <3>3. WriteOK(w, proc[w.new.holder], now) /\ w.new.holder \in Replicas
      BY <1>b, Zenon DEF WriteOK
    <3> QED BY <2>4, <3>2, <3>3, Zenon DEF WriteOK
  <2>6. \A r \in Replicas : proc'[r] = T(r)
    BY <2>2
  <2>7. proc' \in [Replicas -> Processes]
    BY <2>2, <2>4
  <2>8. \A r \in Replicas : ProcOK(r, proc'[r], record', now')
    BY <2>2, <2>4, <2>6
  <2>12. \A r \in Replicas : proc'[r].pc = "lost" => proc'[r].leading
    BY <2>8 DEF ProcOK
  <2>9. \A w \in updates' : WriteOK(w, proc'[w.new.holder], now')
    BY <1>b, <2>2, <2>5, <2>6, Zenon DEF WriteOK
  <2>10. TypeOK'
    BY <1>0, <2>1, <2>2, <2>7, <2>12 DEF TypeOK
  <2>11. record'.renewTime <= now'
    BY <2>2, <2>3
  <2> QED BY <2>8, <2>9, <2>10, <2>11 DEF LeaseOK
<1>11. ASSUME UNCHANGED vars PROVE LeaseOK'
  BY <1>11, Zenon DEF vars, LeaseOK, TypeOK
<1> QED BY <1>1, <1>2, <1>3, <1>4, <1>5, <1>6, <1>7, <1>8, <1>9, <1>10, <1>11 DEF Next

(* The lease and the processes keep their types, and acquire never gives   *)
(* up: only a leader is lost (tryAcquireOrRenew, acquire, renew).          *)
THEOREM TypeCorrect == Spec => []TypeOK
<1>1. LeaseOK => TypeOK
  BY DEF LeaseOK
<1> QED BY <1>1, LeaseInitially, LeaseStep, PTL DEF Spec

(* renew: a leader that renews, gives up and ends in time holds a lease    *)
(* that nobody may take yet, whatever the rates of the clocks.             *)
THEOREM LeaseHeldHolds == Spec => []LeaseHeld
<1>1. LeaseOK => LeaseHeld
  BY InTime DEF LeaseOK, TypeOK, LeaseHeld, Lease, Punctual
<1> QED BY <1>1, LeaseInitially, LeaseStep, PTL DEF Spec

(* Controller.Run: of the processes that run the controllers and are in    *)
(* time there is at most one, however late all others are, and their       *)
(* requests, if the durations allow for the rates of the clocks            *)
(* (LeaderAssumption).                                                     *)
THEOREM MutualExclusionHolds == Spec => []MutualExclusion
<1>1. LeaseHeld => MutualExclusion
  BY DEF LeaseHeld, MutualExclusion
<1> QED BY <1>1, LeaseHeldHolds, PTL
=============================================================================
