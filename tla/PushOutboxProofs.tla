-------------------------- MODULE PushOutboxProofs --------------------------
(***************************************************************************)
(* Theorems of PushOutbox, for any number of processes, devices, members   *)
(* and alerts.  Everything about leases rests on RunsEndInTime: a run is   *)
(* over before the lease it writes is.  The code has no such limit, so it  *)
(* is an assumption of the theorems and not of the module; without it the  *)
(* run push_two_services finds the double send.                            *)
(*                                                                         *)
(* The inductive invariant adds to the types what a run remembers (RunOK)  *)
(* and what a send in flight knows of its row (Leased).  Counted adds up   *)
(* what may still be sent, for the bound on the sends of a job.            *)
(***************************************************************************)
EXTENDS PushOutbox, FiniteSetTheorems, TLAPS

RunsEndInTime == RunLimit < Lease

\* A run's clock reading is at most RunLimit old, its batch is empty between
\* devices, and every row it holds is still in the table.
RunOf(p) ==
  pc[p] # "idle" =>
    /\ run[p].now <= clock /\ clock <= run[p].now + RunLimit
    /\ pc[p] \in {"device", "enqueue"} => run[p].batch = {}
    /\ pc[p] \in {"enqueue", "job", "send"} => run[p].device \in Devices
    /\ pc[p] = "send" =>
         /\ run[p].item \in Item
         /\ job[<<run[p].device, run[p].item.alert>>] # None
    /\ \A item \in run[p].batch : job[<<run[p].device, item.alert>>] # None

RunOK == \A p \in Procs : RunOf(p)

\* A send in flight has leased its row from its own run's clock on.
Leased ==
  \A p \in Procs, j \in Jobs :
    Sending(p, j) => job[j].state = "sending" /\ job[j].next = run[p].now + Lease

IInv == TypeOK /\ RunOK /\ Leased /\ NoConcurrentSend

\* Rows are written, never deleted.
RowsStay == \A j \in Jobs : job[j] # None => job'[j] # None

\* What the steps of a run have in common: no other process moves, no time
\* passes and no row disappears.
Moves(p) ==
  /\ clock' = clock
  /\ RowsStay
  /\ \A q \in Procs \ {p} : pc'[q] = pc[q] /\ run'[q] = run[q]

LEMMA BoundsNat ==
  /\ Lease \in Nat /\ Ttl \in Nat /\ TestTtl \in Nat /\ RetryLimit \in Nat
  /\ Limit \in Nat /\ SendLimit \in Nat /\ DbLimit \in Nat
  /\ RunLimit \in Nat /\ LastAlert \in Nat /\ MaxTime \in Nat
  /\ MaxFaults \in Nat
BY OutboxAssumption

LEMMA NoneOutside ==
  /\ None \notin Devices /\ None \notin AlertIds /\ None \notin Job
BY OutboxAssumption

LEMMA FreshType ==
  ASSUME clock \in Nat, NEW t \in Nat
  PROVE  Fresh(t) \in Job
BY DEF Fresh, Job, Pending

LEMMA BackoffType == \A n \in Nat : Backoff(n) \in Nat
<1> SUFFICES ASSUME NEW n \in Nat PROVE Backoff(n) \in Nat
  OBVIOUS
<1>1. CASE n = 0
  BY <1>1 DEF Backoff
<1>2. CASE n = 1
  BY <1>2 DEF Backoff
<1>3. CASE n = 2
  BY <1>3 DEF Backoff
<1>4. CASE n = 3
  BY <1>4 DEF Backoff
<1>5. CASE n = 4
  BY <1>5 DEF Backoff
<1>6. CASE n >= 5
  BY <1>6 DEF Backoff
<1>7. QED
  BY <1>1, <1>2, <1>3, <1>4, <1>5, <1>6

LEMMA OutcomeType ==
  ASSUME NEW answer \in {"ok", "gone", "error"}, NEW n \in Nat
  PROVE  Outcome(answer, n) \in Pending \cup Settled
BY DEF Outcome, Pending, Settled

LEMMA AnsweredType ==
  ASSUME NEW row \in Job, NEW answer \in {"ok", "gone", "error"},
         NEW n \in Nat, NEW now \in Nat
  PROVE  Answered(row, answer, n, now) \in Job
<1>1. PICK o \in Pending \cup Settled : o = Outcome(answer, n)
  BY OutcomeType
<1>2. PICK t \in Nat : t = now + Backoff(n)
  BY BackoffType
<1>3. PICK m \in Nat : m = row.attempts + 1
  BY DEF Job
<1>4. Answered(row, answer, n, now) =
        [row EXCEPT !.state = o, !.attempts = m, !.next = t]
  <2>1. Answered(row, answer, n, now) =
          [row EXCEPT !.state = Outcome(answer, n), !.attempts = row.attempts + 1,
                      !.next = now + Backoff(n)]
    BY Zenon DEF Answered
  <2>2. QED
    BY <1>1, <1>2, <1>3, <2>1, Zenon
<1>5. [row EXCEPT !.state = o, !.attempts = m, !.next = t] \in Job
  BY DEF Job
<1>6. QED
  BY <1>4, <1>5

\* The sweep keeps every row and its type, changes no settled row and no row
\* whose lease is not over.
LEMMA SweptRow ==
  ASSUME TypeOK, NEW d \in Devices, NEW now \in Nat, NEW j \in Jobs
  PROVE  /\ Swept(d, now)[j] \in Job \cup {None}
         /\ job[j] # None =>
              /\ Swept(d, now)[j] # None
              /\ job[j].state \in Settled => Swept(d, now)[j] = job[j]
              /\ (job[j].state = "sending" /\ job[j].next > now) =>
                   Swept(d, now)[j] = job[j]
<1> DEFINE new == [Fresh(since[j[2]] + Ttl) EXCEPT !.next = now]
           row == IF job[j] = None /\ j[1] = d /\ j[2] \in Wanted(d, now)
                  THEN new ELSE job[j]
<1>1. Swept(d, now)[j] =
        IF row = None THEN None
        ELSE IF row.state = "queued" /\ row.expires <= now
             THEN [row EXCEPT !.state = "expired"]
        ELSE IF row.state = "sending" /\ row.next <= now
             THEN [row EXCEPT !.state = "queued"]
        ELSE row
  BY DEF Swept
<1>2. ASSUME job[j] = None, j[1] = d, j[2] \in Wanted(d, now)
      PROVE  new \in Job
  <2>1. since[j[2]] \in Nat
    BY <1>2 DEF Wanted, TypeOK
  <2>2. Fresh(since[j[2]] + Ttl) \in Job
    BY <2>1, BoundsNat, FreshType DEF TypeOK
  <2>3. \A r \in Job : [r EXCEPT !.next = now] \in Job
    BY DEF Job
  <2>4. QED
    BY <2>2, <2>3
<1>3. row \in Job \cup {None}
  BY <1>2 DEF TypeOK
<1>4. \A r \in Job : [r EXCEPT !.state = "expired"] \in Job
                     /\ [r EXCEPT !.state = "queued"] \in Job
  BY DEF Job, Pending, Settled
<1>5. Swept(d, now)[j] \in Job \cup {None}
  BY <1>1, <1>3, <1>4
<1>6. ASSUME job[j] # None
      PROVE  /\ Swept(d, now)[j] # None
             /\ job[j].state \in Settled => Swept(d, now)[j] = job[j]
             /\ (job[j].state = "sending" /\ job[j].next > now) =>
                  Swept(d, now)[j] = job[j]
  <2>1. row = job[j] /\ row \in Job
    BY <1>6, <1>3
  <2>2. Swept(d, now)[j] # None
    BY <1>1, <1>4, <2>1, NoneOutside
  <2>3. job[j].state \in Settled => Swept(d, now)[j] = job[j]
    BY <1>1, <1>6, <2>1 DEF Settled
  <2>4. (job[j].state = "sending" /\ job[j].next > now) =>
           Swept(d, now)[j] = job[j]
    BY <1>1, <1>6, <2>1 DEF Job
  <2>5. QED
    BY <2>2, <2>3, <2>4
<1>7. QED
  BY <1>5, <1>6

-----------------------------------------------------------------------------
(* What a step leaves of the runs and of the sends in flight.              *)

LEMMA ContinueStep ==
  ASSUME TypeOK, NEW p \in Procs, NEW r \in Run, Continue(p, r)
  PROVE  /\ pc' \in [Procs -> {"idle", "device", "enqueue", "job", "send"}]
         /\ run' \in [Procs -> Run \cup {None}]
         /\ \A q \in Procs : pc'[q] # "idle" => run'[q] \in Run
         /\ \A q \in Procs \ {p} : pc'[q] = pc[q] /\ run'[q] = run[q]
         /\ pc'[p] \in {"idle", "device", "job"}
         /\ pc'[p] = "device" => r.batch = {}
         /\ pc'[p] = "job" => r.batch # {}
         /\ pc'[p] # "idle" =>
              /\ run'[p].now = r.now /\ run'[p].device = r.device
              /\ run'[p].batch = r.batch
<1> DEFINE r2 == [r EXCEPT !.item = None]
<1>1. /\ r2 \in Run /\ r2.now = r.now /\ r2.device = r.device
      /\ r2.batch = r.batch
  BY DEF Run
<1>2. r.batch = {} /\ r.devices = {} <=> r.batch \cup r.devices = {}
  OBVIOUS
<1>3. QED
  BY <1>1, <1>2 DEF Continue, TypeOK

\* Other runs keep what they know when one process moves.
LEMMA OtherRuns ==
  ASSUME TypeOK, RunOK, NEW p \in Procs, Moves(p), RunOf(p)'
  PROVE  RunOK'
<1> SUFFICES ASSUME NEW q \in Procs, q # p PROVE RunOf(q)'
  BY DEF RunOK
<1>1. RunOf(q) /\ pc'[q] = pc[q] /\ run'[q] = run[q] /\ clock' = clock
  BY DEF RunOK, Moves
<1>2. CASE pc[q] = "idle"
  BY <1>1, <1>2 DEF RunOf
<1>3. CASE pc[q] # "idle"
  <2>1. run[q] \in Run
    BY <1>3 DEF TypeOK
  <2>2. \A item \in run[q].batch :
          run[q].device \in Devices => <<run[q].device, item.alert>> \in Jobs
    BY <2>1 DEF Run, Item, Jobs
  <2>3. run[q].batch # {} => run[q].device \in Devices
    BY <1>1, <1>3 DEF RunOf, TypeOK
  <2>4. pc[q] = "send" => <<run[q].device, run[q].item.alert>> \in Jobs
    BY <1>1, <1>3 DEF RunOf, Item, Jobs
  <2>5. QED
    BY <1>1, <1>3, <2>2, <2>3, <2>4 DEF RunOf, Moves, RowsStay
<1>4. QED
  BY <1>2, <1>3

\* A process that is not sending afterwards disturbs no send in flight, if
\* it leaves the rows of the others' sends alone.
LEMMA QuietStep ==
  ASSUME IInv, NEW p \in Procs, Moves(p), RunOf(p)', pc'[p] # "send",
         \A q \in Procs \ {p}, j \in Jobs : Sending(q, j) => job'[j] = job[j]
  PROVE  RunOK' /\ Leased' /\ NoConcurrentSend'
<1>1. RunOK'
  BY OtherRuns DEF IInv
<1>2. \A q \in Procs, j \in Jobs :
        Sending(q, j)' => q # p /\ Sending(q, j) /\ run'[q] = run[q]
  BY DEF Sending, Moves
<1>3. Leased'
  <2> SUFFICES ASSUME NEW q \in Procs, NEW j \in Jobs, Sending(q, j)'
               PROVE  job'[j].state = "sending" /\ job'[j].next = run'[q].now + Lease
    BY DEF Leased
  <2>1. q # p /\ Sending(q, j) /\ run'[q] = run[q] /\ job'[j] = job[j]
    BY <1>2
  <2>2. QED
    BY <2>1 DEF IInv, Leased
<1>4. NoConcurrentSend'
  BY <1>2 DEF IInv, NoConcurrentSend
<1>5. QED
  BY <1>1, <1>3, <1>4

\* A step of the world around the outbox writes no row that exists.
LEMMA WorldStep ==
  ASSUME IInv, UNCHANGED <<clock, pc, run>>,
         \A j \in Jobs : job[j] # None => job'[j] = job[j]
  PROVE  RunOK' /\ Leased' /\ NoConcurrentSend'
<1>1. \A q \in Procs, j \in Jobs : Sending(q, j)' <=> Sending(q, j)
  BY DEF Sending
<1>2. \A q \in Procs, j \in Jobs : Sending(q, j) => job[j] # None
  BY DEF IInv, RunOK, RunOf, Sending
<1>3. RunOK'
  <2> SUFFICES ASSUME NEW q \in Procs, pc[q] # "idle" PROVE RunOf(q)'
    BY DEF RunOK, RunOf
  <2>1. run[q] \in Run /\ RunOf(q)
    BY DEF IInv, TypeOK, RunOK
  <2>2. \A item \in run[q].batch :
          run[q].device \in Devices => <<run[q].device, item.alert>> \in Jobs
    BY <2>1 DEF Run, Item, Jobs
  <2>3. run[q].batch # {} => run[q].device \in Devices
    BY <2>1 DEF RunOf, IInv, TypeOK
  <2>4. pc[q] = "send" => <<run[q].device, run[q].item.alert>> \in Jobs
    BY <2>1 DEF RunOf, Item, Jobs
  <2>5. QED
    BY <2>1, <2>2, <2>3, <2>4 DEF RunOf
<1>4. Leased' /\ NoConcurrentSend'
  BY <1>1, <1>2 DEF IInv, Leased, NoConcurrentSend
<1>5. QED
  BY <1>3, <1>4

-----------------------------------------------------------------------------
(* Every action preserves the invariant.                                   *)

LEMMA InitInv == Init => IInv
<1> SUFFICES ASSUME Init PROVE IInv
  OBVIOUS
<1>1. TypeOK
  BY BoundsNat DEF Init, TypeOK
<1>2. QED
  BY <1>1 DEF Init, IInv, RunOK, RunOf, Leased, NoConcurrentSend, Sending

LEMMA WorldInv ==
  ASSUME IInv,
         \/ \E d \in Devices : Subscribe(d) \/ Remove(d) \/ TestPush(d)
         \/ \E m \in Members : Revoke(m)
         \/ \E a \in Alerts : Trigger(a) \/ AcknowledgeAlert(a)
  PROVE  IInv'
<1>1. ASSUME NEW d \in Devices, Subscribe(d) PROVE IInv'
  <2>1. TypeOK'
    BY <1>1 DEF IInv, TypeOK, Subscribe
  <2>2. QED
    BY <1>1, <2>1, WorldStep DEF IInv, Subscribe
<1>2. ASSUME NEW d \in Devices, Remove(d) PROVE IInv'
  <2>1. TypeOK'
    BY <1>2 DEF IInv, TypeOK, Remove
  <2>2. QED
    BY <1>2, <2>1, WorldStep DEF IInv, Remove
<1>3. ASSUME NEW d \in Devices, TestPush(d) PROVE IInv'
  <2>1. Fresh(clock + TestTtl) \in Job
    BY BoundsNat, FreshType DEF IInv, TypeOK
  <2>2. TypeOK'
    BY <1>3, <2>1 DEF IInv, TypeOK, TestPush
  <2>3. \A j \in Jobs : job[j] # None => job'[j] = job[j]
    BY <1>3 DEF IInv, TypeOK, TestPush
  <2>4. QED
    BY <1>3, <2>2, <2>3, WorldStep DEF IInv, TestPush
<1>4. ASSUME NEW m \in Members, Revoke(m) PROVE IInv'
  <2>1. TypeOK'
    BY <1>4 DEF IInv, TypeOK, Revoke
  <2>2. QED
    BY <1>4, <2>1, WorldStep DEF IInv, Revoke
<1>5. ASSUME NEW a \in Alerts, Trigger(a) PROVE IInv'
  <2>1. TypeOK'
    BY <1>5 DEF IInv, TypeOK, Trigger
  <2>2. QED
    BY <1>5, <2>1, WorldStep DEF IInv, Trigger
<1>6. ASSUME NEW a \in Alerts, AcknowledgeAlert(a) PROVE IInv'
  <2>1. TypeOK'
    BY <1>6 DEF IInv, TypeOK, AcknowledgeAlert
  <2>2. QED
    BY <1>6, <2>1, WorldStep DEF IInv, AcknowledgeAlert
<1>7. QED
  BY <1>1, <1>2, <1>3, <1>4, <1>5, <1>6

\* Time passes only while every run is younger than RunLimit.
LEMMA TickInv == ASSUME IInv, Tick PROVE IInv'
<1>1. TypeOK'
  BY BoundsNat DEF IInv, TypeOK, Tick
<1>2. \A j \in Jobs, q \in Procs : Sending(q, j)' <=> Sending(q, j)
  BY DEF Sending, Tick
<1>3. ASSUME NEW q \in Procs, pc[q] # "idle" PROVE RunOf(q)'
  <2>1. run[q] \in Run /\ RunOf(q) /\ clock < run[q].now + RunLimit
    BY <1>3 DEF IInv, TypeOK, RunOK, Tick
  <2>2. run[q].now <= clock' /\ clock' <= run[q].now + RunLimit
    BY <1>3, <2>1, BoundsNat DEF Tick, RunOf, IInv, TypeOK, Run
  <2>3. QED
    BY <1>3, <2>1, <2>2 DEF RunOf, Tick
<1>4. RunOK'
  BY <1>3 DEF RunOK, RunOf, Tick
<1>5. Leased' /\ NoConcurrentSend'
  BY <1>2 DEF IInv, Leased, NoConcurrentSend, Tick
<1>6. QED
  BY <1>1, <1>4, <1>5 DEF IInv

LEMMA BeginInv == ASSUME IInv, NEW p \in Procs, Begin(p) PROVE IInv'
<1> DEFINE r == [now |-> clock, devices |-> {d \in Devices : enabled[d]},
                 device |-> None, batch |-> {}, item |-> None, started |-> clock]
<1>1. r \in Run
  BY DEF IInv, TypeOK, Run
<1>2. TypeOK'
  BY <1>1 DEF IInv, TypeOK, Begin
<1>3. pc'[p] = "device" /\ run'[p] = r
  BY DEF Begin, IInv, TypeOK
<1>4. RunOf(p)'
  BY <1>3, BoundsNat DEF RunOf, Begin, IInv, TypeOK
<1>5. Moves(p)
  BY DEF Moves, RowsStay, Begin, IInv, TypeOK
<1>6. QED
  BY <1>2, <1>3, <1>4, <1>5, QuietStep DEF IInv, Begin

LEMMA AbortInv == ASSUME IInv, NEW p \in Procs, Abort(p) PROVE IInv'
<1>1. TypeOK'
  <2>1. enabled' \in [Devices -> BOOLEAN]
    BY DEF IInv, TypeOK, Abort
  <2>2. faults' \in 0 .. MaxFaults
    BY BoundsNat DEF IInv, TypeOK, Abort
  <2>3. QED
    BY <2>1, <2>2 DEF IInv, TypeOK, Abort
<1>2. pc'[p] = "idle"
  BY DEF Abort, IInv, TypeOK
<1>3. RunOf(p)'
  BY <1>2 DEF RunOf
<1>4. Moves(p)
  BY DEF Moves, RowsStay, Abort, IInv, TypeOK
<1>5. QED
  BY <1>1, <1>2, <1>3, <1>4, QuietStep DEF IInv, Abort

LEMMA ReadScopeInv ==
  ASSUME IInv, NEW p \in Procs, NEW d \in Devices, ReadScope(p, d)
  PROVE  IInv'
<1> DEFINE r == [run[p] EXCEPT !.devices = @ \ {d}, !.device = d]
<1>1. run[p] \in Run /\ RunOf(p) /\ run[p].batch = {}
  BY DEF ReadScope, IInv, TypeOK, RunOK, RunOf
<1>2. /\ r \in Run /\ r.now = run[p].now /\ r.device = d /\ r.batch = {}
  BY <1>1 DEF Run
<1>3. CASE MayUse(d)
  <2>1. pc'[p] = "enqueue" /\ run'[p] = r
    BY <1>3 DEF ReadScope, IInv, TypeOK
  <2>2. TypeOK'
    BY <1>2, <1>3 DEF ReadScope, IInv, TypeOK
  <2>3. RunOf(p)'
    BY <1>1, <1>2, <2>1 DEF RunOf, ReadScope
  <2>4. Moves(p)
    BY <1>3 DEF Moves, RowsStay, ReadScope, IInv, TypeOK
  <2>5. QED
    BY <2>1, <2>2, <2>3, <2>4, QuietStep DEF IInv, ReadScope
<1>4. CASE ~MayUse(d)
  <2>1. TypeOK /\ Continue(p, r)
    BY <1>4 DEF ReadScope, IInv
  <2>2. TypeOK'
    BY <1>2, <2>1, ContinueStep DEF ReadScope, TypeOK
  <2>3. RunOf(p)'
    BY <1>1, <1>2, <2>1, ContinueStep DEF RunOf, ReadScope
  <2>4. Moves(p)
    BY <1>2, <2>1, ContinueStep DEF Moves, RowsStay, ReadScope
  <2>5. pc'[p] # "send"
    BY <1>2, <2>1, ContinueStep
  <2>6. QED
    BY <2>2, <2>3, <2>4, <2>5, QuietStep DEF IInv, ReadScope
<1>5. QED
  BY <1>3, <1>4

\* The sweep requeues only rows whose lease is over; by RunsEndInTime the
\* lease of a send in flight is not.
LEMMA EnqueueInv ==
  ASSUME IInv, RunsEndInTime, NEW p \in Procs, Enqueue(p)
  PROVE  IInv'
<1> DEFINE d == run[p].device
           now == run[p].now
<1>1. /\ run[p] \in Run /\ RunOf(p) /\ d \in Devices /\ now \in Nat
      /\ now <= clock /\ job' = Swept(d, now)
  BY DEF Enqueue, IInv, TypeOK, RunOK, RunOf, Run
<1>2. PICK b \in Batches(Due(job', d, now)) :
        Continue(p, [run[p] EXCEPT !.batch =
          {[alert |-> a, attempts |-> job'[<<d, a>>].attempts] : a \in b}])
  BY DEF Enqueue
<1> DEFINE items == {[alert |-> a, attempts |-> job'[<<d, a>>].attempts] : a \in b}
           r == [run[p] EXCEPT !.batch = items]
<1>3. job' \in [Jobs -> Job \cup {None}] /\ RowsStay
  <2>1. job' = [j \in Jobs |-> Swept(d, now)[j]]
    BY ZenonT(20), <1>1 DEF Swept
  <2>2. QED
    BY <1>1, <2>1, SweptRow DEF IInv, RowsStay
<1>4. \A a \in b : a \in AlertIds /\ job'[<<d, a>>] # None
  BY DEF Batches, Due
<1>5. \A item \in items :
        item \in Item /\ job'[<<d, item.alert>>] # None
  <2> SUFFICES ASSUME NEW item \in items
               PROVE  item \in Item /\ job'[<<d, item.alert>>] # None
    OBVIOUS
  <2>5. PICK a \in b : item = [alert |-> a, attempts |-> job'[<<d, a>>].attempts]
    OBVIOUS
  <2>1. <<d, a>> \in Jobs
    BY <1>1, <1>4 DEF Jobs
  <2>2. job'[<<d, a>>] \in Job
    BY <1>3, <1>4, <2>1
  <2>3. job'[<<d, a>>].attempts \in Nat
    BY <2>2 DEF Job
  <2>4. QED
    BY <1>4, <2>3, <2>5 DEF Item
<1>6. r \in Run /\ r.now = now /\ r.device = d /\ r.batch = items
  BY <1>1, <1>5 DEF Run
<1>7. TypeOK /\ Continue(p, r)
  BY <1>2 DEF IInv
<1>8. TypeOK'
  BY <1>3, <1>6, <1>7, ContinueStep DEF Enqueue, TypeOK
<1>9. Moves(p)
  BY <1>3, <1>6, <1>7, ContinueStep DEF Moves, Enqueue
<1>10. RunOf(p)'
  <2>1. clock' = clock /\ now <= clock /\ clock <= now + RunLimit
    BY <1>1 DEF Enqueue, RunOf
  <2>2. pc'[p] # "idle" =>
          run'[p].now = now /\ run'[p].device = d /\ run'[p].batch = items
    BY <1>6, <1>7, ContinueStep
  <2>3. /\ pc'[p] \in {"idle", "device", "job"}
        /\ pc'[p] = "device" => items = {}
    BY <1>6, <1>7, ContinueStep
  <2>4. QED
    BY <1>1, <1>5, <2>1, <2>2, <2>3 DEF RunOf
<1>11. ASSUME NEW q \in Procs \ {p}, NEW j \in Jobs, Sending(q, j)
       PROVE  job'[j] = job[j]
  <2>1. /\ job[j] # None /\ job[j].state = "sending"
        /\ job[j].next = run[q].now + Lease
    BY <1>11 DEF IInv, RunOK, RunOf, Leased, Sending
  <2>2. run[q].now \in Nat /\ clock <= run[q].now + RunLimit
    BY <1>11 DEF IInv, TypeOK, RunOK, RunOf, Sending, Run
  <2>3. now < run[q].now + Lease
    BY <1>1, <2>2, BoundsNat DEF RunsEndInTime, IInv, TypeOK
  <2>4. QED
    BY <1>1, <2>1, <2>3, SweptRow DEF IInv
<1>12. pc'[p] # "send"
  BY <1>6, <1>7, ContinueStep
<1>13. QED
  BY <1>8, <1>9, <1>10, <1>11, <1>12, QuietStep DEF IInv

\* The check writes only a row it finds queued, so never the row of a send.
LEMMA CheckInv ==
  ASSUME IInv, NEW p \in Procs, NEW item \in run[p].batch, Check(p, item)
  PROVE  IInv'
<1> DEFINE d == run[p].device
           j == <<d, item.alert>>
           rest == [run[p] EXCEPT !.batch = @ \ {item}]
<1>1. /\ run[p] \in Run /\ RunOf(p) /\ pc[p] = "job" /\ d \in Devices
      /\ run[p].now \in Nat /\ clock' = clock
  BY DEF Check, IInv, TypeOK, RunOK, RunOf, Run
<1>2. /\ rest \in Run /\ rest.now = run[p].now /\ rest.device = d
      /\ rest.batch = run[p].batch \ {item}
  BY <1>1 DEF Run
<1>3. item \in Item /\ j \in Jobs /\ job[j] # None /\ job[j] \in Job
  BY <1>1 DEF Run, Item, Jobs, RunOf, IInv, TypeOK
<1>4. \A i \in run[p].batch : <<d, i.alert>> \in Jobs /\ job[<<d, i.alert>>] # None
  BY <1>1 DEF Run, Item, Jobs, RunOf
<1>5. ASSUME Continue(p, rest), RowsStay,
             job' \in [Jobs -> Job \cup {None}], sends' = sends,
             \A k \in Jobs : job[k] # None /\ job[k].state = "sending" => job'[k] = job[k]
      PROVE  IInv'
  <2>1. TypeOK
    BY DEF IInv
  <2>2. TypeOK'
    BY <1>2, <1>5, <2>1, ContinueStep DEF Check, TypeOK
  <2>3. Moves(p) /\ pc'[p] # "send"
    BY <1>1, <1>2, <1>5, <2>1, ContinueStep DEF Moves
  <2>4. /\ pc'[p] \in {"idle", "device", "job"}
        /\ pc'[p] = "device" => rest.batch = {}
        /\ pc'[p] # "idle" => /\ run'[p].now = run[p].now /\ run'[p].device = d
                              /\ run'[p].batch = rest.batch
    BY ZenonT(20), <1>2, <1>5, <2>1, ContinueStep
  <2>5. \A i \in rest.batch : job'[<<d, i.alert>>] # None
    BY <1>2, <1>4, <1>5 DEF RowsStay
  <2>6. RunOf(p)'
    BY <1>1, <1>2, <2>4, <2>5 DEF RunOf
  <2>7. \A q \in Procs \ {p}, k \in Jobs : Sending(q, k) => job'[k] = job[k]
    BY <1>5 DEF IInv, Leased, RunOK, RunOf, Sending
  <2>8. QED
    BY <2>2, <2>3, <2>6, <2>7, QuietStep DEF IInv
<1>6. ASSUME ~Permitted(d, item.alert),
             job' = [job EXCEPT ![j].state = IF @ = "queued" THEN "superseded" ELSE @],
             Continue(p, rest), UNCHANGED sends
      PROVE  IInv'
  <2> DEFINE row == [job[j] EXCEPT !.state = IF @ = "queued" THEN "superseded" ELSE @]
  <2>1. row \in Job /\ row # None
    BY <1>3, NoneOutside DEF Job, Settled
  <2>2. job[j].state = "sending" => row = job[j]
    BY <1>3 DEF Job
  <2>3. job' = [job EXCEPT ![j] = row]
    BY <1>6
  <2>4. RowsStay /\ job' \in [Jobs -> Job \cup {None}]
    BY <1>3, <2>1, <2>3 DEF RowsStay, IInv, TypeOK
  <2>5. \A k \in Jobs : job[k] # None /\ job[k].state = "sending" => job'[k] = job[k]
    BY <1>3, <2>2, <2>3 DEF IInv, TypeOK
  <2>6. QED
    BY <1>5, <1>6, <2>4, <2>5
<1>7. ASSUME Continue(p, rest), UNCHANGED <<job, sends>> PROVE IInv'
  BY <1>5, <1>7 DEF IInv, TypeOK, RowsStay
<1>8. ASSUME Leasable(job[j]),
             job' = [job EXCEPT ![j] =
               [@ EXCEPT !.state = "sending", !.next = run[p].now + Lease]],
             sends' = [sends EXCEPT ![j] = @ + 1],
             pc' = [pc EXCEPT ![p] = "send"],
             run' = [run EXCEPT ![p] = [rest EXCEPT !.item = item, !.started = clock]]
      PROVE  IInv'
  <2> DEFINE row == [job[j] EXCEPT !.state = "sending", !.next = run[p].now + Lease]
             r == [rest EXCEPT !.item = item, !.started = clock]
  <2>1. /\ row \in Job /\ row # None /\ row.state = "sending"
        /\ row.next = run[p].now + Lease
    <3>1. run[p].now + Lease \in Nat
      BY <1>1, BoundsNat
    <3> DEFINE t == run[p].now + Lease
    <3> HIDE DEF t
    <3>2. row = [job[j] EXCEPT !.state = "sending", !.next = t]
      BY DEF t
    <3>3. t \in Nat /\ t = run[p].now + Lease
      BY <3>1 DEF t
    <3>4. QED
      BY <1>3, <3>2, <3>3, NoneOutside DEF Job, Pending
  <2>2. /\ r \in Run /\ r.now = run[p].now /\ r.device = d /\ r.item = item
        /\ r.batch = run[p].batch \ {item}
    <3>1. clock \in Nat
      BY DEF IInv, TypeOK
    <3> HIDE DEF rest
    <3>2. QED
      BY <1>2, <1>3, <3>1 DEF Run
  <2>3. job' = [job EXCEPT ![j] = row]
    BY <1>8
  <2>4. job' \in [Jobs -> Job \cup {None}] /\ RowsStay
    BY <1>3, <2>1, <2>3 DEF RowsStay, IInv, TypeOK
  <2>5. TypeOK'
    BY <1>3, <1>8, <2>2, <2>4 DEF Check, IInv, TypeOK
  <2>6. /\ Moves(p) /\ pc'[p] = "send" /\ run'[p] = r
    BY <1>1, <1>8, <2>4 DEF Moves, IInv, TypeOK
  <2>7. RunOf(p)'
    BY <1>1, <1>3, <1>4, <2>2, <2>4, <2>6 DEF RunOf, RowsStay
  <2>8. \A q \in Procs \ {p}, k \in Jobs :
          Sending(q, k)' => Sending(q, k) /\ k # j /\ job'[k] = job[k] /\ run'[q] = run[q]
    <3> SUFFICES ASSUME NEW q \in Procs \ {p}, NEW k \in Jobs, Sending(q, k)'
                 PROVE  Sending(q, k) /\ k # j /\ job'[k] = job[k] /\ run'[q] = run[q]
      OBVIOUS
    <3>1. Sending(q, k) /\ run'[q] = run[q]
      BY <2>6 DEF Moves, Sending
    <3>2. job[k].state = "sending"
      BY <3>1 DEF IInv, Leased
    <3>3. k # j
      BY <1>8, <3>2 DEF Leasable
    <3>4. QED
      BY <1>3, <2>3, <3>1, <3>3 DEF IInv, TypeOK
  <2>9. \A k \in Jobs : Sending(p, k)' => k = j
    BY <2>2, <2>6 DEF Sending
  <2>10. job'[j] = row
    BY <1>3, <2>3 DEF IInv, TypeOK
  <2>11. Leased'
    <3>1. \A k \in Jobs : Sending(p, k)' =>
            job'[k].state = "sending" /\ job'[k].next = run'[p].now + Lease
      BY <2>1, <2>2, <2>6, <2>9, <2>10
    <3>2. \A q \in Procs \ {p}, k \in Jobs : Sending(q, k)' =>
            job'[k].state = "sending" /\ job'[k].next = run'[q].now + Lease
      BY <2>8 DEF Leased, IInv
    <3>3. QED
      BY <3>1, <3>2 DEF Leased
  <2>12. NoConcurrentSend'
    BY <2>8, <2>9 DEF NoConcurrentSend, IInv
  <2>13. RunOK'
    BY <2>6, <2>7, OtherRuns DEF IInv
  <2>14. QED
    BY <2>5, <2>11, <2>12, <2>13 DEF IInv
<1>9. QED
  BY <1>6, <1>7, <1>8 DEF Check

\* The answer settles or requeues the row of its own send and no other's.
LEMMA AnswerInv ==
  ASSUME IInv, NEW p \in Procs, NEW answer \in {"ok", "gone", "error"},
         Answer(p, answer)
  PROVE  IInv'
<1> DEFINE d == run[p].device
           n == run[p].item.attempts
           j == <<d, run[p].item.alert>>
           row == Answered(job[j], answer, n, run[p].now)
<1>1. /\ run[p] \in Run /\ RunOf(p) /\ d \in Devices /\ run[p].now \in Nat
      /\ run[p].item \in Item /\ n \in Nat /\ j \in Jobs /\ job[j] # None
      /\ pc[p] = "send"
  BY DEF Answer, IInv, TypeOK, RunOK, RunOf, Run, Item, Jobs
<1>2. job[j] \in Job /\ Sending(p, j)
  BY <1>1 DEF IInv, TypeOK, Sending
<1>3. row \in Job /\ row # None
  BY <1>1, <1>2, AnsweredType, NoneOutside
<1>4. job' = [job EXCEPT ![j] = row]
  BY DEF Answer
<1>5. job' \in [Jobs -> Job \cup {None}] /\ RowsStay
  BY <1>3, <1>4 DEF IInv, TypeOK, RowsStay
<1>6. TypeOK /\ Continue(p, run[p])
  BY DEF IInv, Answer
<1>7. TypeOK'
  <2>1. enabled' \in [Devices -> BOOLEAN]
    BY DEF IInv, TypeOK, Answer
  <2>2. QED
    BY <1>1, <1>5, <1>6, <2>1, ContinueStep DEF Answer, TypeOK
<1>8. Moves(p) /\ pc'[p] # "send"
  BY <1>1, <1>5, <1>6, ContinueStep DEF Moves, Answer
<1>9. RunOf(p)'
  <2>1. /\ pc'[p] \in {"idle", "device", "job"}
        /\ pc'[p] = "device" => run[p].batch = {}
        /\ pc'[p] # "idle" => /\ run'[p].now = run[p].now /\ run'[p].device = d
                              /\ run'[p].batch = run[p].batch
    BY <1>1, <1>6, ContinueStep
  <2>2. \A i \in run[p].batch : <<d, i.alert>> \in Jobs /\ job[<<d, i.alert>>] # None
    BY <1>1 DEF Run, Item, Jobs, RunOf
  <2>3. QED
    BY <1>1, <1>5, <2>1, <2>2 DEF RunOf, RowsStay, Answer
<1>10. \A q \in Procs \ {p}, k \in Jobs : Sending(q, k) => job'[k] = job[k]
  BY <1>1, <1>2, <1>4 DEF IInv, NoConcurrentSend, TypeOK
<1>11. QED
  BY <1>7, <1>8, <1>9, <1>10, QuietStep DEF IInv

LEMMA NextInv ==
  ASSUME IInv, RunsEndInTime, [Next]_vars
  PROVE  IInv'
<1>1. CASE UNCHANGED vars
  BY <1>1 DEF vars, IInv, TypeOK, RunOK, RunOf, Leased, NoConcurrentSend, Sending
<1>2. ASSUME NEW p \in Procs, Deliver(p) PROVE IInv'
  BY <1>2, BeginInv, ReadScopeInv, EnqueueInv, CheckInv, AnswerInv DEF Deliver
<1>3. QED
  BY <1>1, <1>2, WorldInv, TickInv, AbortInv DEF Next

-----------------------------------------------------------------------------
(* Theorems.                                                               *)

\* Whatever the outbox, the runs and the clock go through, the state keeps
\* its types and what a run remembers stays true of the table.
THEOREM OutboxInvariant == ASSUME RunsEndInTime PROVE Spec => []IInv
<1>1. Init => IInv
  BY InitInv
<1>2. IInv /\ [Next]_vars => IInv'
  BY NextInv
<1>3. QED
  BY <1>1, <1>2, PTL DEF Spec

\* push.rs:263, "A lease prevents two service processes from sending the same
\* queued job": true of any number of processes if their runs end before
\* their leases.
THEOREM NoConcurrentSendHolds ==
  ASSUME RunsEndInTime PROVE Spec => []NoConcurrentSend
<1>1. IInv => NoConcurrentSend
  BY DEF IInv
<1>2. QED
  BY <1>1, OutboxInvariant, PTL

\* Under the same condition nobody requeues, supersedes or settles a job
\* while its send waits for the answer.
THEOREM LeaseOwnsRowHolds ==
  ASSUME RunsEndInTime PROVE Spec => []LeaseOwnsRow
<1>1. IInv => LeaseOwnsRow
  BY DEF IInv, Leased, LeaseOwnsRow
<1>2. QED
  BY <1>1, OutboxInvariant, PTL

\* A settled job is never written and never sent again, by any process.
THEOREM SettledIsFinalHolds ==
  ASSUME RunsEndInTime PROVE Spec => SettledIsFinal
<1> DEFINE Kept(j) == (job[j] # None /\ job[j].state \in Settled) =>
                        /\ job'[j].state = job[j].state
                        /\ sends'[j] = sends[j]
<1>1. ASSUME IInv, [Next]_vars, NEW j \in Jobs, job[j] # None,
             job[j].state \in Settled
      PROVE  job'[j].state = job[j].state /\ sends'[j] = sends[j]
  <2>1. TypeOK /\ job[j] \in Job /\ job[j].state \notin Pending
    BY <1>1 DEF IInv, TypeOK, Pending, Settled
  <2>2. ASSUME NEW p \in Procs, Enqueue(p) PROVE job'[j] = job[j] /\ sends' = sends
    <3>1. run[p].device \in Devices /\ run[p].now \in Nat
      BY <1>1, <2>2 DEF Enqueue, IInv, TypeOK, RunOK, RunOf, Run
    <3>2. QED
      BY <1>1, <2>1, <2>2, <3>1, SweptRow DEF Enqueue
  <2>3. ASSUME NEW p \in Procs, NEW item \in run[p].batch, Check(p, item)
        PROVE  job'[j].state = job[j].state /\ sends'[j] = sends[j]
    <3> DEFINE k == <<run[p].device, item.alert>>
    <3>1. CASE j = k
      BY <2>1, <2>3, <3>1 DEF Check, Leasable, TypeOK, Job, Pending
    <3>2. CASE j # k
      BY <2>1, <2>3, <3>2 DEF Check, TypeOK
    <3>3. QED
      BY <3>1, <3>2
  <2>4. ASSUME NEW p \in Procs, NEW answer \in {"ok", "gone", "error"},
               Answer(p, answer)
        PROVE  job'[j] = job[j] /\ sends' = sends
    <3> DEFINE k == <<run[p].device, run[p].item.alert>>
    <3>1. k \in Jobs /\ Sending(p, k)
      BY <1>1, <2>4 DEF Answer, Sending, IInv, RunOK, RunOf, Item, Jobs
    <3>2. j # k
      BY <1>1, <2>1, <3>1 DEF IInv, Leased, Pending
    <3>3. QED
      BY <2>1, <2>4, <3>2 DEF Answer, TypeOK
  <2>5. ASSUME NEW d \in Devices, TestPush(d) PROVE job'[j] = job[j] /\ sends' = sends
    BY <1>1, <2>1, <2>5 DEF TestPush, TypeOK
  <2>6. QED
    BY <1>1, <2>2, <2>3, <2>4, <2>5
       DEF Next, Deliver, vars, Subscribe, Remove, Revoke, Trigger,
           AcknowledgeAlert, Tick, Begin, ReadScope, Abort
<1>2. IInv /\ [Next]_vars => [\A j \in Jobs : Kept(j)]_vars
  BY <1>1
<1>3. QED
  BY <1>2, OutboxInvariant, PTL DEF Spec, SettledIsFinal

\* No push leaves for a removed device, a revoked member or an acknowledged
\* alert, however old the batch is.
THEOREM NothingAfterWithdrawalHolds ==
  ASSUME RunsEndInTime PROVE Spec => NothingAfterWithdrawal
<1> DEFINE Withdrawn(d, a) ==
             sends'[<<d, a>>] # sends[<<d, a>>] =>
               /\ enabled[d] /\ MayUse(d)
               /\ a \in Alerts => alert[a] # "acknowledged"
<1>1. ASSUME IInv, [Next]_vars, NEW d \in Devices, NEW a \in AlertIds,
             sends'[<<d, a>>] # sends[<<d, a>>]
      PROVE  /\ enabled[d] /\ MayUse(d)
             /\ a \in Alerts => alert[a] # "acknowledged"
  <2>1. PICK p \in Procs : \E item \in run[p].batch : Check(p, item)
    BY <1>1 DEF Next, Deliver, vars, Subscribe, Remove, TestPush, Revoke,
                Trigger, AcknowledgeAlert, Tick, Begin, ReadScope, Enqueue,
                Answer, Abort
  <2>2. PICK item \in run[p].batch : Check(p, item)
    BY <2>1
  <2>3. /\ sends' = [sends EXCEPT ![<<run[p].device, item.alert>>] = @ + 1]
        /\ Permitted(run[p].device, item.alert)
    BY <1>1, <2>2 DEF Check
  <2>4. <<d, a>> \in Jobs /\ sends \in [Jobs -> Nat]
    BY <1>1 DEF Jobs, IInv, TypeOK
  <2>5. <<run[p].device, item.alert>> = <<d, a>>
    BY <1>1, <2>3, <2>4
  <2>6. run[p].device = d /\ item.alert = a
    BY <2>5
  <2>7. QED
    BY <2>3, <2>6, OutboxAssumption DEF Permitted
<1>2. IInv /\ [Next]_vars => [\A d \in Devices, a \in AlertIds : Withdrawn(d, a)]_vars
  BY <1>1
<1>3. QED
  BY <1>2, OutboxInvariant, PTL DEF Spec, NothingAfterWithdrawal

\* No push leaves for a settled job, a removed device, a revoked member or an
\* acknowledged alert, provided runs end before their leases.
THEOREM NothingStaleHolds == ASSUME RunsEndInTime PROVE Spec => NothingStale
BY SettledIsFinalHolds, NothingAfterWithdrawalHolds, PTL DEF NothingStale

-----------------------------------------------------------------------------
(* How often a job is sent.  A batch may hold a job's attempts as they     *)
(* were, and a process that sends on an old reading gives the job one more *)
(* turn; but it does so once, for when it reads again it reads what is     *)
(* there.  The readings below RetryLimit that processes still hold,        *)
(* together with the attempts, do not grow.                                *)

\* The readings of j that p holds, in its batch or in flight.
Reads(p, j) ==
  {i \in run[p].batch : run[p].device = j[1] /\ i.alert = j[2]}
    \cup {i \in {run[p].item} : Sending(p, j)}

\* The processes that may still send j without giving it up.
Old(j) == {p \in Procs : pc[p] # "idle" /\ \E i \in Reads(p, j) : i.attempts < RetryLimit}

InFlight(j) == \E p \in Procs : Sending(p, j)

\* A process holds one reading of a job at most, and it says no more attempts
\* than the table does.
ReadingOK(p) ==
  pc[p] # "idle" =>
    /\ \A i, k \in run[p].batch : i.alert = k.alert => i = k
    /\ pc[p] = "send" => \A i \in run[p].batch : i.alert # run[p].item.alert
    /\ \A j \in Jobs : \A i \in Reads(p, j) : i.attempts <= job[j].attempts

RowCounted(j) ==
  /\ job[j] = None => sends[j] = 0
  /\ job[j] # None =>
       /\ sends[j] <= job[j].attempts + faults + (IF InFlight(j) THEN 1 ELSE 0)
       /\ job[j].state \in Pending =>
            job[j].attempts + Cardinality(Old(j)) < RetryLimit + Cardinality(Procs)
       /\ job[j].attempts <= RetryLimit + Cardinality(Procs)

Counted == (\A p \in Procs : ReadingOK(p)) /\ \A j \in Jobs : RowCounted(j)

SomeProcs == IsFiniteSet(Procs) /\ Procs # {}

\* Only p moves.
Alone(p) == \A q \in Procs \ {p} : pc'[q] = pc[q] /\ run'[q] = run[q]

LEMMA OldType ==
  ASSUME SomeProcs
  PROVE  /\ Cardinality(Procs) \in Nat \ {0}
         /\ \A S \in SUBSET Procs : /\ IsFiniteSet(S) /\ Cardinality(S) \in Nat
                                    /\ Cardinality(S) <= Cardinality(Procs)
<1>1. \A S \in SUBSET Procs : IsFiniteSet(S) /\ Cardinality(S) <= Cardinality(Procs)
  BY FS_Subset DEF SomeProcs
<1>2. \A S \in SUBSET Procs : Cardinality(S) \in Nat
  BY <1>1, FS_CardinalityType
<1>3. Cardinality(Procs) # 0
  BY FS_EmptySet DEF SomeProcs
<1>4. QED
  BY <1>1, <1>2, <1>3

\* What a run holds of a job is a row of its batch or the one in flight, and
\* its job is in the table.
LEMMA ReadsType ==
  ASSUME IInv, NEW p \in Procs, NEW j \in Jobs, NEW i \in Reads(p, j), pc[p] # "idle"
  PROVE  /\ i \in Item /\ i.attempts \in Nat
         /\ job[j] # None /\ job[j] \in Job /\ job[j].attempts \in Nat
<1>1. run[p] \in Run /\ RunOf(p)
  BY DEF IInv, TypeOK, RunOK
<1>2. i \in Item
  BY <1>1 DEF Reads, Run, RunOf, Sending
<1>3. job[j] # None
  <2>1. PICK d \in Devices, a \in AlertIds : j = <<d, a>>
    BY DEF Jobs
  <2>2. CASE i \in run[p].batch /\ run[p].device = j[1] /\ i.alert = j[2]
    BY <1>1, <2>1, <2>2 DEF RunOf
  <2>3. CASE i = run[p].item /\ Sending(p, j)
    BY <1>1, <2>3 DEF RunOf, Sending
  <2>4. QED
    BY <2>2, <2>3 DEF Reads
<1>4. job[j] \in Job
  BY <1>3 DEF IInv, TypeOK
<1>5. QED
  BY <1>2, <1>3, <1>4 DEF Item, Job

LEMMA ReadsTypeAfter ==
  ASSUME IInv', NEW p \in Procs, NEW j \in Jobs, NEW i \in Reads(p, j)', pc'[p] # "idle"
  PROVE  i.attempts \in Nat
<1>1. run'[p] \in Run /\ RunOf(p)'
  BY DEF IInv, TypeOK, RunOK
<1>2. i \in Item
  BY <1>1 DEF Reads, Run, RunOf, Sending
<1>3. QED
  BY <1>2 DEF Item

LEMMA OthersRead ==
  ASSUME IInv, NEW p \in Procs, Alone(p), \A q \in Procs : ReadingOK(q), ReadingOK(p)',
         \A j \in Jobs : job[j] # None => job'[j].attempts \in Nat
                                          /\ job'[j].attempts >= job[j].attempts
  PROVE  (\A q \in Procs : ReadingOK(q))'
<1> SUFFICES ASSUME NEW q \in Procs, q # p, pc[q] # "idle" PROVE ReadingOK(q)'
  BY DEF Alone, ReadingOK
<1>1. pc'[q] = pc[q] /\ run'[q] = run[q]
  BY DEF Alone
<1>2. ASSUME NEW j \in Jobs, NEW i \in Reads(q, j)' PROVE i.attempts <= job'[j].attempts
  <2>1. i \in Reads(q, j)
    BY <1>1, <1>2 DEF Reads, Sending
  <2>2. i.attempts <= job[j].attempts
    BY <2>1 DEF ReadingOK
  <2>3. /\ i.attempts \in Nat /\ job[j] # None /\ job[j].attempts \in Nat
    BY <2>1, ReadsType
  <2>4. QED
    BY <2>2, <2>3
<1>3. /\ \A i, k \in run'[q].batch : i.alert = k.alert => i = k
      /\ pc'[q] = "send" => \A i \in run'[q].batch : i.alert # run'[q].item.alert
  BY <1>1 DEF ReadingOK
<1>4. QED
  BY <1>2, <1>3 DEF ReadingOK

\* A row that no answer is written to keeps its account, as long as p gains
\* no reading older than the row.
LEMMA RowStep ==
  ASSUME IInv, IInv', SomeProcs, NEW p \in Procs, Alone(p), NEW j \in Jobs, RowCounted(j),
         job[j] # None => /\ job'[j] # None
                          /\ job'[j].attempts = job[j].attempts
                          /\ job'[j].state \in Pending => job[j].state \in Pending,
         job[j] = None => job'[j] = None \/ job'[j].attempts = 0,
         sends'[j] = sends[j], faults' >= faults,
         Sending(p, j) => Sending(p, j)' \/ faults' >= faults + 1,
         \A i \in Reads(p, j)' :
           pc'[p] # "idle" => \/ pc[p] # "idle" /\ i \in Reads(p, j)
                              \/ i.attempts = job'[j].attempts
  PROVE  RowCounted(j)'
<1>1. /\ faults \in Nat /\ faults' \in Nat /\ sends[j] \in Nat
      /\ RetryLimit \in Nat /\ Cardinality(Procs) \in Nat \ {0}
  BY OldType, BoundsNat DEF IInv, TypeOK
<1>2. /\ Old(j) \in SUBSET Procs /\ Old(j)' \in SUBSET Procs
  BY DEF Old
<1>3. /\ Cardinality(Old(j)) \in Nat /\ Cardinality(Old(j)') \in Nat
      /\ Cardinality(Old(j)') <= Cardinality(Procs)
  BY <1>2, OldType
<1>4. CASE job'[j] = None
  BY <1>4 DEF RowCounted
<1>5. CASE job'[j] # None
  <2> DEFINE A == job'[j].attempts
  <2>1. A \in Nat
    BY <1>5 DEF IInv, TypeOK, Job
  <2>2. A < RetryLimit \/ Old(j)' \subseteq Old(j)
    <3> SUFFICES ASSUME A >= RetryLimit, NEW q \in Old(j)' PROVE q \in Old(j)
      BY <1>1, <2>1
    <3>1. PICK i \in Reads(q, j)' : i.attempts < RetryLimit
      BY DEF Old
    <3>2. pc'[q] # "idle" /\ q \in Procs
      BY DEF Old
    <3>3. i.attempts \in Nat
      BY <3>1, <3>2, ReadsTypeAfter
    <3>4. i.attempts # A
      BY <1>1, <2>1, <3>1, <3>3
    <3>5. CASE q = p
      BY <3>1, <3>2, <3>4, <3>5 DEF Old
    <3>6. CASE q # p
      <4>1. pc'[q] = pc[q] /\ run'[q] = run[q]
        BY <3>2, <3>6 DEF Alone
      <4>2. i \in Reads(q, j)
        BY <3>1, <4>1 DEF Reads, Sending
      <4>3. QED
        BY <3>1, <3>2, <4>1, <4>2 DEF Old
    <3>7. QED
      BY <3>5, <3>6
  <2>3. CASE job[j] = None
    <3>1. A = 0 /\ sends'[j] = 0
      BY <1>5, <2>3 DEF RowCounted
    <3>2. Old(j)' = {} \/ RetryLimit > 0
      <4> SUFFICES ASSUME NEW q \in Old(j)' PROVE RetryLimit > 0
        OBVIOUS
      <4>1. PICK i \in Reads(q, j)' : i.attempts < RetryLimit
        BY DEF Old
      <4>2. pc'[q] # "idle" /\ q \in Procs
        BY DEF Old
      <4>3. i.attempts \in Nat
        BY <4>1, <4>2, ReadsTypeAfter
      <4>4. QED
        BY <1>1, <4>1, <4>3
    <3>3. Cardinality(Old(j)') < RetryLimit + Cardinality(Procs)
      BY <1>1, <1>3, <3>2, FS_EmptySet
    <3>4. sends'[j] <= A + faults' + (IF InFlight(j)' THEN 1 ELSE 0)
      <4>1. \A a, g \in Nat : \A t \in {0, 1} : 0 <= a + g + t
        OBVIOUS
      <4>2. (IF InFlight(j)' THEN 1 ELSE 0) \in {0, 1}
        BY Zenon
      <4>3. QED
        BY <1>1, <2>1, <3>1, <4>1, <4>2, Zenon
    <3>5. A <= RetryLimit + Cardinality(Procs) /\ A + Cardinality(Old(j)') < RetryLimit + Cardinality(Procs)
      BY <1>1, <1>3, <3>1, <3>3
    <3>6. QED
      BY <1>5, <3>4, <3>5 DEF RowCounted
  <2>4. CASE job[j] # None
    <3>1. A = job[j].attempts
      BY <2>4
    <3>2. sends'[j] <= A + faults' + (IF InFlight(j)' THEN 1 ELSE 0)
      <4>1. sends[j] <= A + faults + (IF InFlight(j) THEN 1 ELSE 0)
        BY <2>4, <3>1 DEF RowCounted
      <4>2. InFlight(j) => InFlight(j)' \/ faults' >= faults + 1
        BY DEF InFlight, Alone, Sending
      <4>3. QED
        BY <1>1, <2>1, <4>1, <4>2
    <3>3. job'[j].state \in Pending => A + Cardinality(Old(j)') < RetryLimit + Cardinality(Procs)
      <4>1. CASE A < RetryLimit
        BY <1>1, <1>3, <2>1, <4>1
      <4>2. CASE Old(j)' \subseteq Old(j)
        <5>1. Cardinality(Old(j)') <= Cardinality(Old(j))
          BY <1>2, <4>2, OldType, FS_Subset
        <5>2. job'[j].state \in Pending => A + Cardinality(Old(j)) < RetryLimit + Cardinality(Procs)
          BY <2>4, <3>1 DEF RowCounted
        <5>3. QED
          BY <1>1, <1>3, <2>1, <5>1, <5>2
      <4>3. QED
        BY <2>2, <4>1, <4>2
    <3>4. A <= RetryLimit + Cardinality(Procs)
      BY <2>4, <3>1 DEF RowCounted
    <3>5. QED
      BY <1>5, <3>2, <3>3, <3>4 DEF RowCounted
  <2>5. QED
    BY <2>3, <2>4
<1>6. QED
  BY <1>4, <1>5

\* A step that answers no send and makes none keeps every account.
LEMMA CountStep ==
  ASSUME IInv, IInv', SomeProcs, Counted, NEW p \in Procs, Alone(p), ReadingOK(p)',
         \A j \in Jobs :
           job[j] # None => /\ job'[j] # None
                            /\ job'[j].attempts = job[j].attempts
                            /\ job'[j].state \in Pending => job[j].state \in Pending,
         \A j \in Jobs : job[j] = None => job'[j] = None \/ job'[j].attempts = 0,
         sends' = sends, faults' >= faults,
         \A j \in Jobs : Sending(p, j) => Sending(p, j)' \/ faults' >= faults + 1,
         \A j \in Jobs : \A i \in Reads(p, j)' :
           pc'[p] # "idle" => \/ pc[p] # "idle" /\ i \in Reads(p, j)
                              \/ i.attempts = job'[j].attempts
  PROVE  Counted'
<1>1. \A j \in Jobs : RowCounted(j)'
  BY RowStep DEF Counted
<1>2. \A j \in Jobs : job[j] # None => job'[j].attempts \in Nat /\ job'[j].attempts >= job[j].attempts
  BY DEF IInv, TypeOK, Job
<1>3. (\A q \in Procs : ReadingOK(q))'
  BY <1>2, OthersRead DEF Counted
<1>4. QED
  BY <1>1, <1>3 DEF Counted

LEMMA WorldCount ==
  ASSUME IInv, IInv', SomeProcs, Counted, UNCHANGED <<pc, run, sends, faults>>,
         \A j \in Jobs : job[j] # None => job'[j] = job[j],
         \A j \in Jobs : job[j] = None => job'[j] = None \/ job'[j].attempts = 0
  PROVE  Counted'
<1>1. PICK p \in Procs : TRUE
  BY DEF SomeProcs
<1>2. Alone(p) /\ \A j \in Jobs : (Sending(p, j)' <=> Sending(p, j)) /\ Reads(p, j)' = Reads(p, j)
  BY DEF Alone, Sending, Reads
<1>3. ReadingOK(p)'
  <2>1. ReadingOK(p)
    BY DEF Counted
  <2>2. \A j \in Jobs : \A i \in Reads(p, j) : pc[p] # "idle" => job[j] # None
    BY ReadsType
  <2>3. QED
    BY <1>2, <2>1, <2>2 DEF ReadingOK
<1>4. faults' >= faults
  BY DEF IInv, TypeOK
<1>5. QED
  BY <1>2, <1>3, <1>4, CountStep

\* Rows that a run leaves alone, and what is left of its batch.
LEMMA RestRead ==
  ASSUME IInv, NEW p \in Procs, ReadingOK(p), pc[p] # "idle", pc'[p] # "send",
         pc'[p] # "idle" => /\ run'[p].batch \subseteq run[p].batch
                            /\ run'[p].batch = {} \/ run'[p].device = run[p].device,
         \A j \in Jobs : job[j] # None => job'[j].attempts \in Nat
                                          /\ job'[j].attempts >= job[j].attempts
  PROVE  /\ ReadingOK(p)'
         /\ \A j \in Jobs : \A i \in Reads(p, j)' : pc'[p] # "idle" => i \in Reads(p, j)
<1>1. \A j \in Jobs : ~Sending(p, j)'
  BY DEF Sending
<1>2. \A j \in Jobs : \A i \in Reads(p, j)' : pc'[p] # "idle" => i \in Reads(p, j)
  BY <1>1 DEF Reads
<1>3. ASSUME NEW j \in Jobs, NEW i \in Reads(p, j), pc'[p] # "idle" PROVE i.attempts <= job'[j].attempts
  BY <1>3, ReadsType DEF ReadingOK
<1>4. QED
  BY <1>2, <1>3 DEF ReadingOK

LEMMA CountWorld ==
  ASSUME IInv, IInv', SomeProcs, Counted,
         \/ \E d \in Devices : Subscribe(d) \/ Remove(d) \/ TestPush(d)
         \/ \E m \in Members : Revoke(m)
         \/ \E a \in Alerts : Trigger(a) \/ AcknowledgeAlert(a)
         \/ Tick
         \/ UNCHANGED vars
  PROVE  Counted'
<1>1. CASE UNCHANGED <<job, pc, run, sends, faults>>
  BY <1>1, WorldCount
<1>2. ASSUME NEW d \in Devices, TestPush(d) PROVE Counted'
  <2>1. job' = [job EXCEPT ![<<d, Test>>] = Fresh(clock + TestTtl)] /\ job[<<d, Test>>] = None
    BY <1>2 DEF TestPush
  <2>2. Fresh(clock + TestTtl).attempts = 0
    BY DEF Fresh
  <2>3. \A j \in Jobs : job'[j] = IF j = <<d, Test>> THEN Fresh(clock + TestTtl) ELSE job[j]
    BY <2>1 DEF IInv, TypeOK
  <2>4. /\ \A j \in Jobs : job[j] # None => job'[j] = job[j]
        /\ \A j \in Jobs : job[j] = None => job'[j] = None \/ job'[j].attempts = 0
    BY <2>1, <2>2, <2>3
  <2>5. QED
    BY <1>2, <2>4, WorldCount DEF TestPush
<1>3. QED
  BY <1>1, <1>2 DEF Subscribe, Remove, Revoke, Trigger, AcknowledgeAlert, Tick, vars

\* Begin and Abort hold no reading afterwards; a run aborted in flight is a
\* fault for the send it leaves unanswered.
LEMMA CountBegin ==
  ASSUME IInv, IInv', SomeProcs, Counted, NEW p \in Procs, Begin(p) \/ Abort(p)
  PROVE  Counted'
<1>1. pc'[p] # "send" /\ (pc'[p] # "idle" => run'[p].batch = {})
  BY DEF Begin, Abort, IInv, TypeOK
<1>2. \A j \in Jobs : pc'[p] # "idle" => Reads(p, j)' = {}
  BY <1>1 DEF Reads, Sending
<1>3. ReadingOK(p)'
  BY <1>1, <1>2 DEF ReadingOK
<1>4. Alone(p) /\ sends' = sends /\ job' = job
  BY DEF Alone, Begin, Abort, IInv, TypeOK
<1>5. faults' >= faults /\ (pc[p] # "idle" => faults' >= faults + 1)
  BY DEF Begin, Abort, IInv, TypeOK
<1>6. \A j \in Jobs : Sending(p, j) => faults' >= faults + 1
  BY <1>5 DEF Sending
<1>7. QED
  BY <1>2, <1>3, <1>4, <1>5, <1>6, CountStep

LEMMA CountReadScope ==
  ASSUME IInv, IInv', SomeProcs, Counted, NEW p \in Procs, NEW d \in Devices, ReadScope(p, d)
  PROVE  Counted'
<1> DEFINE r == [run[p] EXCEPT !.devices = @ \ {d}, !.device = d]
<1>1. run[p] \in Run /\ RunOf(p) /\ run[p].batch = {} /\ pc[p] = "device"
  BY DEF ReadScope, IInv, TypeOK, RunOK, RunOf
<1>2. r \in Run /\ r.batch = {}
  BY <1>1 DEF Run
<1>3. Alone(p) /\ pc'[p] # "send" /\ (pc'[p] # "idle" => run'[p].batch = {})
  <2>1. CASE pc' = [pc EXCEPT ![p] = "enqueue"] /\ run' = [run EXCEPT ![p] = r]
    BY <1>2, <2>1 DEF Alone, IInv, TypeOK
  <2>2. CASE Continue(p, r)
    <3>1. TypeOK
      BY DEF IInv
    <3>2. QED
      BY <1>2, <2>2, <3>1, ContinueStep DEF Alone
  <2>3. QED
    BY <2>1, <2>2 DEF ReadScope
<1>4. \A j \in Jobs : Reads(p, j)' = {} \/ pc'[p] = "idle"
  BY <1>3 DEF Reads, Sending
<1>5. ReadingOK(p)'
  BY <1>3, <1>4 DEF ReadingOK
<1>6. faults' >= faults /\ sends' = sends /\ job' = job
  BY DEF ReadScope, IInv, TypeOK
<1>7. \A j \in Jobs : ~Sending(p, j)
  BY <1>1 DEF Sending
<1>8. QED
  BY <1>3, <1>4, <1>5, <1>6, <1>7, CountStep

\* The sweep counts nothing: a new row has no attempts, an old one keeps its.
LEMMA SweptCount ==
  ASSUME TypeOK, NEW d \in Devices, NEW now \in Nat, NEW j \in Jobs
  PROVE  /\ job[j] # None =>
              /\ Swept(d, now)[j] # None
              /\ Swept(d, now)[j].attempts = job[j].attempts
              /\ Swept(d, now)[j].state \in Pending => job[j].state \in Pending
         /\ job[j] = None => Swept(d, now)[j] = None \/ Swept(d, now)[j].attempts = 0
<1> DEFINE new == [Fresh(since[j[2]] + Ttl) EXCEPT !.next = now]
           row == IF job[j] = None /\ j[1] = d /\ j[2] \in Wanted(d, now)
                  THEN new ELSE job[j]
<1>1. Swept(d, now)[j] =
        IF row = None THEN None
        ELSE IF row.state = "queued" /\ row.expires <= now
             THEN [row EXCEPT !.state = "expired"]
        ELSE IF row.state = "sending" /\ row.next <= now
             THEN [row EXCEPT !.state = "queued"]
        ELSE row
  BY DEF Swept
<1>2. new.attempts = 0 /\ new = [state |-> "queued", attempts |-> 0, next |-> now,
                                 expires |-> since[j[2]] + Ttl]
  BY DEF Fresh
<1>3. CASE job[j] # None
  <2>1. row = job[j] /\ job[j] \in Job
    BY <1>3 DEF TypeOK
  <2>2. \A r \in Job : /\ [r EXCEPT !.state = "expired"].attempts = r.attempts
                       /\ [r EXCEPT !.state = "queued"].attempts = r.attempts
    BY DEF Job
  <2>3. Swept(d, now)[j].attempts = job[j].attempts
    BY <1>1, <1>3, <2>1, <2>2
  <2>4. Swept(d, now)[j].state \in Pending => job[j].state \in Pending
    BY <1>1, <1>3, <2>1 DEF Job, Pending
  <2>5. QED
    BY <1>3, <2>3, <2>4, SweptRow
<1>4. CASE job[j] = None
  <2>1. row = None \/ row = new
    BY <1>4
  <2>2. CASE row = None
    BY <1>1, <1>4, <2>2
  <2>3. CASE row = new
    <3>1. PICK e : e = since[j[2]] + Ttl
      OBVIOUS
    <3>2. row = [state |-> "queued", attempts |-> 0, next |-> now, expires |-> e]
      BY <1>2, <2>3, <3>1
    <3>3. /\ [row EXCEPT !.state = "expired"].attempts = 0
          /\ [row EXCEPT !.state = "queued"].attempts = 0 /\ row.attempts = 0
      BY <3>2
    <3>4. QED
      BY <1>1, <1>4, <3>3
  <2>4. QED
    BY <2>1, <2>2, <2>3
<1>5. QED
  BY <1>3, <1>4

LEMMA CountEnqueue ==
  ASSUME IInv, IInv', SomeProcs, Counted, NEW p \in Procs, Enqueue(p)
  PROVE  Counted'
<1> DEFINE d == run[p].device
           now == run[p].now
<1>1. /\ run[p] \in Run /\ d \in Devices /\ now \in Nat /\ pc[p] = "enqueue"
      /\ job' = Swept(d, now)
  BY DEF Enqueue, IInv, TypeOK, RunOK, RunOf, Run
<1>2. PICK b \in Batches(Due(job', d, now)) :
        Continue(p, [run[p] EXCEPT !.batch =
          {[alert |-> a, attempts |-> job'[<<d, a>>].attempts] : a \in b}])
  BY DEF Enqueue
<1> DEFINE items == {[alert |-> a, attempts |-> job'[<<d, a>>].attempts] : a \in b}
           r == [run[p] EXCEPT !.batch = items]
<1>3. \A a \in b : a \in AlertIds /\ <<d, a>> \in Jobs /\ job'[<<d, a>>] \in Job
  <2>1. \A a \in b : a \in AlertIds /\ job'[<<d, a>>] # None
    BY DEF Batches, Due
  <2>2. QED
    BY <1>1, <2>1 DEF Jobs, IInv, TypeOK
<1>4. ASSUME NEW item \in items
      PROVE  item \in Item /\ item.attempts = job'[<<d, item.alert>>].attempts
  <2>1. PICK a \in b : item = [alert |-> a, attempts |-> job'[<<d, a>>].attempts]
    BY <1>4
  <2>2. job'[<<d, a>>].attempts \in Nat
    BY <1>3 DEF Job
  <2>3. QED
    BY <1>3, <2>1, <2>2 DEF Item
<1>5. r \in Run /\ r.device = d /\ r.batch = items
  BY <1>1, <1>4 DEF Run
<1>6. TypeOK /\ Continue(p, r)
  BY <1>2 DEF IInv
<1>7. /\ Alone(p) /\ pc'[p] \in {"idle", "device", "job"}
      /\ pc'[p] # "idle" => run'[p].device = d /\ run'[p].batch = items
  BY <1>5, <1>6, ContinueStep DEF Alone
<1>8. ASSUME NEW j \in Jobs, NEW i \in Reads(p, j)', pc'[p] # "idle"
      PROVE  i.attempts = job'[j].attempts /\ i.attempts \in Nat
  <2>1. i \in items /\ d = j[1] /\ i.alert = j[2]
    BY <1>7, <1>8 DEF Reads, Sending
  <2>2. j = <<d, i.alert>>
    BY <2>1 DEF Jobs
  <2>3. QED
    BY <1>4, <2>1, <2>2 DEF Item
<1>9. ASSUME NEW i \in items, NEW k \in items, i.alert = k.alert PROVE i = k
  <2>1. PICK a \in b : i = [alert |-> a, attempts |-> job'[<<d, a>>].attempts]
    OBVIOUS
  <2>2. PICK c \in b : k = [alert |-> c, attempts |-> job'[<<d, c>>].attempts]
    OBVIOUS
  <2>3. a = c
    BY <1>9, <2>1, <2>2
  <2>4. QED
    BY <2>1, <2>2, <2>3
<1>10. ReadingOK(p)'
  <2>1. ASSUME NEW j \in Jobs, NEW i \in Reads(p, j)', pc'[p] # "idle"
        PROVE  i.attempts <= job'[j].attempts
    <3>1. i.attempts = job'[j].attempts /\ i.attempts \in Nat
      BY <1>8, <2>1
    <3>2. QED
      BY <3>1
  <2>2. pc'[p] # "send"
    BY <1>7
  <2>3. pc'[p] # "idle" => \A i, k \in run'[p].batch : i.alert = k.alert => i = k
    BY <1>7, <1>9
  <2>4. QED
    BY <2>1, <2>2, <2>3 DEF ReadingOK
<1>11. /\ \A j \in Jobs :
            job[j] # None => /\ job'[j] # None
                             /\ job'[j].attempts = job[j].attempts
                             /\ job'[j].state \in Pending => job[j].state \in Pending
       /\ \A j \in Jobs : job[j] = None => job'[j] = None \/ job'[j].attempts = 0
  BY <1>1, <1>6, SweptCount
<1>12. sends' = sends /\ faults' >= faults
  BY DEF Enqueue, IInv, TypeOK
<1>13. \A j \in Jobs : ~Sending(p, j)
  BY <1>1 DEF Sending
<1>14. QED
  BY <1>7, <1>8, <1>10, <1>11, <1>12, <1>13, CountStep

\* No process but p gains a reading, and p none.
LEMMA OldFewer ==
  ASSUME NEW p \in Procs, Alone(p), NEW j \in Jobs,
         \A i \in Reads(p, j)' : pc'[p] # "idle" => pc[p] # "idle" /\ i \in Reads(p, j)
  PROVE  Old(j)' \subseteq Old(j)
<1> SUFFICES ASSUME NEW q \in Old(j)', q # p PROVE q \in Old(j)
  BY DEF Old
<1>1. pc'[q] = pc[q] /\ run'[q] = run[q] /\ q \in Procs
  BY DEF Alone, Old
<1>2. Reads(q, j)' = Reads(q, j)
  BY <1>1 DEF Reads, Sending
<1>3. QED
  BY <1>1, <1>2 DEF Old

\* A lease uses the row's turn up before the send is answered.
LEMMA CountLease ==
  ASSUME IInv, IInv', SomeProcs, Counted, NEW p \in Procs, NEW item \in run[p].batch,
         pc[p] = "job", NEW j \in Jobs, j = <<run[p].device, item.alert>>, job[j] # None,
         Leasable(job[j]), faults' = faults,
         job' = [job EXCEPT ![j] = [@ EXCEPT !.state = "sending", !.next = run[p].now + Lease]],
         sends' = [sends EXCEPT ![j] = @ + 1],
         pc' = [pc EXCEPT ![p] = "send"],
         NEW r \in Run, run' = [run EXCEPT ![p] = r], r.device = run[p].device,
         r.item = item, r.batch = run[p].batch \ {item}
  PROVE  Counted'
<1>1. /\ Alone(p) /\ pc'[p] = "send" /\ run'[p] = r /\ ReadingOK(p)
  BY DEF Alone, IInv, TypeOK, Counted
<1>2. job[j] \in Job /\ job[j].attempts \in Nat /\ job[j].state = "queued"
  BY DEF IInv, TypeOK, Job, Leasable
<1>3. /\ \A k \in Jobs : k # j => job'[k] = job[k] /\ sends'[k] = sends[k]
      /\ job'[j].attempts = job[j].attempts /\ job'[j] # None /\ sends'[j] = sends[j] + 1
  <2>1. PICK t : t = run[p].now + Lease
    OBVIOUS
  <2>2. job' = [job EXCEPT ![j] = [job[j] EXCEPT !.state = "sending", !.next = t]]
    BY <2>1
  <2>3. [job[j] EXCEPT !.state = "sending", !.next = t].attempts = job[j].attempts
    BY <1>2 DEF Job
  <2>4. job'[j] = [job[j] EXCEPT !.state = "sending", !.next = t]
    BY <2>2 DEF IInv, TypeOK
  <2>5. job'[j] # None
    <3>1. job'[j].state = "sending" /\ Sending(p, j)'
      BY ZenonT(20), <1>1, <1>2, <2>4 DEF Sending, Job
    <3>2. QED
      BY ZenonT(20), <1>1, <3>1 DEF IInv, RunOK, RunOf
  <2>6. QED
    BY <2>2, <2>3, <2>4, <2>5 DEF IInv, TypeOK
<1>4. ASSUME NEW k \in Jobs, NEW i \in Reads(p, k)' PROVE i \in Reads(p, k)
  BY <1>1, <1>4 DEF Reads, Sending, Jobs
<1>5. ReadingOK(p)'
  <2>1. \A i, k \in r.batch : i.alert = k.alert => i = k
    BY <1>1 DEF ReadingOK
  <2>2. \A i \in r.batch : i.alert # item.alert
    BY <1>1 DEF ReadingOK
  <2>3. ASSUME NEW k \in Jobs, NEW i \in Reads(p, k)' PROVE i.attempts <= job'[k].attempts
    BY <1>1, <1>3, <1>4, <2>3 DEF ReadingOK
  <2>4. QED
    BY <1>1, <2>1, <2>2, <2>3 DEF ReadingOK
<1>6. \A k \in Jobs : job[k] # None => job'[k].attempts \in Nat /\ job'[k].attempts >= job[k].attempts
  BY SMTT(20), <1>3 DEF IInv, TypeOK, Job
<1>7. (\A q \in Procs : ReadingOK(q))'
  BY <1>1, <1>5, <1>6, OthersRead DEF Counted
<1>8. ASSUME NEW k \in Jobs, k # j PROVE RowCounted(k)'
  <2>1. ~Sending(p, k) /\ faults' >= faults
    BY DEF Sending, IInv, TypeOK
  <2>2. RowCounted(k)
    BY DEF Counted
  <2>3. QED
    BY <1>1, <1>3, <1>4, <1>8, <2>1, <2>2, RowStep
<1>9. RowCounted(j)'
  <2>1. ~InFlight(j)
    BY <1>2 DEF InFlight, IInv, Leased
  <2>2. InFlight(j)'
    BY <1>1 DEF InFlight, Sending
  <2>3. /\ sends[j] <= job[j].attempts + faults
        /\ job[j].attempts + Cardinality(Old(j)) < RetryLimit + Cardinality(Procs)
        /\ job[j].attempts <= RetryLimit + Cardinality(Procs)
    <3>1. RowCounted(j) /\ job[j].state \in Pending
      BY <1>2 DEF Counted, Pending
    <3>2. sends[j] <= job[j].attempts + faults + 0
      BY <2>1, <3>1 DEF RowCounted
    <3>3. faults \in Nat
      BY DEF IInv, TypeOK
    <3>4. QED
      BY <1>2, <3>1, <3>2, <3>3 DEF RowCounted
  <2>4. Old(j)' \subseteq Old(j)
    BY <1>1, <1>4, OldFewer
  <2>5. /\ Cardinality(Old(j)') <= Cardinality(Old(j)) /\ Cardinality(Old(j)) \in Nat
        /\ Cardinality(Old(j)') \in Nat
    <3>1. Old(j) \in SUBSET Procs /\ Old(j)' \in SUBSET Procs
      BY DEF Old
    <3>2. QED
      BY <2>4, <3>1, OldType, FS_Subset
  <2>6. job[j].attempts + Cardinality(Old(j)') < RetryLimit + Cardinality(Procs)
    BY <1>2, <2>3, <2>5, OldType, BoundsNat
  <2>7. sends[j] + 1 <= job[j].attempts + faults + 1
    BY <1>2, <2>3 DEF IInv, TypeOK
  <2>8. QED
    BY <1>3, <2>2, <2>3, <2>6, <2>7 DEF RowCounted
<1>10. QED
  BY <1>7, <1>8, <1>9 DEF Counted

LEMMA CountCheck ==
  ASSUME IInv, IInv', SomeProcs, Counted, NEW p \in Procs, NEW item \in run[p].batch,
         Check(p, item)
  PROVE  Counted'
<1> DEFINE d == run[p].device
           j == <<d, item.alert>>
           rest == [run[p] EXCEPT !.batch = @ \ {item}]
<1>1. /\ run[p] \in Run /\ RunOf(p) /\ pc[p] = "job" /\ d \in Devices
  BY DEF Check, IInv, TypeOK, RunOK, RunOf
<1>2. /\ rest \in Run /\ rest.device = d /\ rest.batch = run[p].batch \ {item}
  BY <1>1 DEF Run
<1>3. item \in Item /\ j \in Jobs /\ job[j] # None /\ job[j] \in Job
  BY <1>1 DEF Run, Item, Jobs, RunOf, IInv, TypeOK
<1>4. faults' = faults /\ faults' >= faults
  BY DEF Check, IInv, TypeOK
<1>5. ASSUME Continue(p, rest), sends' = sends,
             \A k \in Jobs : job[k] # None => /\ job'[k] # None
                                              /\ job'[k].attempts = job[k].attempts
                                              /\ job'[k].state \in Pending => job[k].state \in Pending,
             \A k \in Jobs : job[k] = None => job'[k] = None
      PROVE  Counted'
  <2>1. TypeOK /\ ReadingOK(p)
    BY DEF IInv, Counted
  <2>2. /\ Alone(p) /\ pc'[p] # "send"
        /\ pc'[p] # "idle" => run'[p].device = d /\ run'[p].batch = rest.batch
    BY <1>2, <1>5, <2>1, ContinueStep DEF Alone
  <2>3. \A k \in Jobs : job[k] # None => job'[k].attempts \in Nat /\ job'[k].attempts >= job[k].attempts
    BY <1>5 DEF IInv, TypeOK, Job
  <2>4. /\ ReadingOK(p)'
        /\ \A k \in Jobs : \A i \in Reads(p, k)' : pc'[p] # "idle" => i \in Reads(p, k)
    BY <1>1, <1>2, <2>1, <2>2, <2>3, RestRead
  <2>5. \A k \in Jobs : ~Sending(p, k)
    BY <1>1 DEF Sending
  <2>6. QED
    BY <1>1, <1>4, <1>5, <2>2, <2>4, <2>5, CountStep
<1>6. ASSUME job' = [job EXCEPT ![j].state = IF @ = "queued" THEN "superseded" ELSE @],
             Continue(p, rest), sends' = sends
      PROVE  Counted'
  <2>1. PICK state : state = IF job[j].state = "queued" THEN "superseded" ELSE job[j].state
    OBVIOUS
  <2>2. job' = [job EXCEPT ![j] = [job[j] EXCEPT !.state = state]]
    BY <1>6, <2>1
  <2>3. /\ [job[j] EXCEPT !.state = state].attempts = job[j].attempts
        /\ [job[j] EXCEPT !.state = state].state = state
    BY <1>3 DEF Job
  <2>4. /\ job'[j] = [job[j] EXCEPT !.state = state]
        /\ \A k \in Jobs : k # j => job'[k] = job[k]
    BY <1>3, <2>2 DEF IInv, TypeOK
  <2>5. job'[j] \in Job /\ job'[j] # None
    <3>1. state \in Pending \cup Settled
      BY <1>3, <2>1 DEF Job, Pending, Settled
    <3>2. QED
      BY <1>3, <2>4, <3>1, NoneOutside DEF Job
  <2>6. state \in Pending => job[j].state \in Pending
    BY <2>1 DEF Pending
  <2>7. QED
    BY ZenonT(20), <1>3, <1>5, <1>6, <2>3, <2>4, <2>5, <2>6
<1>7. ASSUME Continue(p, rest), UNCHANGED <<job, sends>> PROVE Counted'
  BY <1>5, <1>7
<1>8. ASSUME Leasable(job[j]),
             job' = [job EXCEPT ![j] =
               [@ EXCEPT !.state = "sending", !.next = run[p].now + Lease]],
             sends' = [sends EXCEPT ![j] = @ + 1],
             pc' = [pc EXCEPT ![p] = "send"],
             run' = [run EXCEPT ![p] = [rest EXCEPT !.item = item, !.started = clock]]
      PROVE  Counted'
  <2>1. PICK r : r = [rest EXCEPT !.item = item, !.started = clock]
    OBVIOUS
  <2>2. r \in Run /\ r.device = d /\ r.item = item /\ r.batch = run[p].batch \ {item}
    <3>1. clock \in Nat
      BY DEF IInv, TypeOK
    <3> HIDE DEF rest
    <3>2. QED
      BY <1>2, <1>3, <2>1, <3>1 DEF Run
  <2>3. run' = [run EXCEPT ![p] = r]
    BY <1>8, <2>1
  <2>4. PICK k \in Jobs : k = j
    BY <1>3
  <2>5. QED
    BY ZenonT(20), <1>1, <1>3, <1>4, <1>8, <2>2, <2>3, <2>4, CountLease
<1>9. QED
  BY <1>6, <1>7, <1>8 DEF Check

\* An answer pays a send with an attempt.  On an old reading it also takes
\* that reading away; on a reading at RetryLimit it settles the row.
LEMMA CountAnswer ==
  ASSUME IInv, IInv', SomeProcs, Counted, NEW p \in Procs,
         NEW answer \in {"ok", "gone", "error"}, Answer(p, answer)
  PROVE  Counted'
<1> DEFINE d == run[p].device
           n == run[p].item.attempts
<1>0. PICK j \in Jobs : j = <<d, run[p].item.alert>>
  BY DEF Answer, IInv, RunOK, RunOf, Item, Jobs
<1>1. /\ run[p] \in Run /\ RunOf(p) /\ d \in Devices
      /\ run[p].item \in Item /\ n \in Nat /\ job[j] # None
      /\ pc[p] = "send" /\ ReadingOK(p)
  BY <1>0 DEF Answer, IInv, TypeOK, RunOK, RunOf, Run, Item, Counted
<1>2. /\ job[j] \in Job /\ Sending(p, j) /\ job[j].state = "sending"
      /\ job[j].attempts \in Nat /\ sends[j] \in Nat /\ faults \in Nat
  BY <1>0, <1>1 DEF IInv, TypeOK, Sending, Leased, Job
<1>3. n <= job[j].attempts
  <2>1. run[p].item \in Reads(p, j)
    BY <1>2 DEF Reads
  <2>2. QED
    BY <1>1, <2>1 DEF ReadingOK
<1>4. PICK o : o = Outcome(answer, n)
  OBVIOUS
<1>5. PICK row : row = [job[j] EXCEPT !.state = o, !.attempts = job[j].attempts + 1,
                                      !.next = run[p].now + Backoff(n)]
  OBVIOUS
<1>6. /\ row.state = o /\ row.attempts = job[j].attempts + 1
      /\ job' = [job EXCEPT ![j] = row]
  <2>1. job' = [job EXCEPT ![j] = row]
    BY <1>0, <1>4, <1>5 DEF Answer, Answered
  <2>2. PICK t : t = run[p].now + Backoff(n)
    OBVIOUS
  <2>3. PICK m : m = job[j].attempts + 1
    OBVIOUS
  <2>4. row = [job[j] EXCEPT !.state = o, !.attempts = m, !.next = t]
    BY <1>5, <2>2, <2>3, Zenon
  <2>5. QED
    BY <1>2, <2>1, <2>3, <2>4 DEF Job
<1>7. /\ job'[j] = row /\ \A k \in Jobs : k # j => job'[k] = job[k]
      /\ faults' = faults /\ sends' = sends
  BY <1>1, <1>6 DEF Answer, IInv, TypeOK
<1>8. job'[j] # None /\ job'[j].attempts = job[j].attempts + 1
  <2>1. job'[j] \in Job
    <3>1. \E e \in Job : row = e
      <4>1. Answered(job[j], answer, n, run[p].now) \in Job
        BY <1>1, <1>2, AnsweredType DEF Run
      <4>2. Answered(job[j], answer, n, run[p].now) = row
        BY <1>4, <1>5 DEF Answered
      <4>3. QED
        BY <4>1, <4>2
    <3>2. QED
      BY <1>7, <3>1
  <2>2. QED
    BY <1>6, <1>7, <2>1, NoneOutside
<1>9. TypeOK /\ Continue(p, run[p])
  BY DEF IInv, Answer
<1>10. /\ Alone(p) /\ pc'[p] # "send"
       /\ pc'[p] # "idle" => run'[p].device = d /\ run'[p].batch = run[p].batch
  BY <1>1, <1>9, ContinueStep DEF Alone
<1>11. \A k \in Jobs : job[k] # None => job'[k].attempts \in Nat /\ job'[k].attempts >= job[k].attempts
  BY <1>2, <1>7, <1>8 DEF IInv, TypeOK, Job
<1>12. /\ ReadingOK(p)'
       /\ \A k \in Jobs : \A i \in Reads(p, k)' : pc'[p] # "idle" => i \in Reads(p, k)
  BY <1>1, <1>10, <1>11, RestRead
<1>13. (\A q \in Procs : ReadingOK(q))'
  BY <1>10, <1>11, <1>12, OthersRead DEF Counted
<1>14. ASSUME NEW k \in Jobs, k # j PROVE RowCounted(k)'
  <2>1. ~Sending(p, k) /\ faults' >= faults
    BY <1>0, <1>2, <1>7, <1>14 DEF Sending
  <2>2. RowCounted(k)
    BY DEF Counted
  <2>3. QED
    BY <1>1, <1>7, <1>10, <1>12, <1>14, <2>1, <2>2, RowStep
<1>15. RowCounted(j)'
  <2> DEFINE P == Cardinality(Procs)
             A == job[j].attempts
  <2>1. /\ sends[j] <= A + faults + 1
        /\ A + Cardinality(Old(j)) < RetryLimit + P
    <3>1. RowCounted(j) /\ job[j].state \in Pending
      BY <1>1, <1>2 DEF Counted, Pending
    <3>2. InFlight(j)
      BY <1>2 DEF InFlight
    <3>3. QED
      BY <1>1, <3>1, <3>2 DEF RowCounted
  <2>2. Old(j)' \subseteq Old(j)
    BY <1>1, <1>10, <1>12, OldFewer
  <2>3. p \notin Old(j)'
    <3>1. pc'[p] # "idle" => Reads(p, j)' = {}
      <4>1. \A i \in run[p].batch : i.alert # run[p].item.alert
        BY <1>1 DEF ReadingOK
      <4>2. QED
        BY <1>0, <1>10, <4>1 DEF Reads, Sending
    <3>2. QED
      BY <3>1 DEF Old
  <2>4. /\ P \in Nat \ {0} /\ RetryLimit \in Nat
        /\ Cardinality(Old(j)) \in Nat /\ Cardinality(Old(j)') \in Nat
    <3>1. Old(j) \in SUBSET Procs /\ Old(j)' \in SUBSET Procs
      BY DEF Old
    <3>2. QED
      BY <3>1, OldType, BoundsNat
  <2>5. sends'[j] <= job'[j].attempts + faults' + (IF InFlight(j)' THEN 1 ELSE 0)
    <3>1. ~InFlight(j)'
      BY <1>1, <1>2, <1>10 DEF InFlight, Alone, Sending, IInv, NoConcurrentSend
    <3>2. sends[j] <= (A + 1) + faults + 0
      BY <1>2, <2>1
    <3>3. (IF InFlight(j)' THEN 1 ELSE 0) = 0
      BY <3>1, Zenon
    <3>4. sends'[j] = sends[j] /\ faults' = faults /\ job'[j].attempts = A + 1
      BY <1>7, <1>8
    <3>5. QED
      BY <3>2, <3>3, <3>4, Zenon
  <2>6. A + 1 <= RetryLimit + P
    BY <1>2, <2>1, <2>4
  <2>7. job'[j].state \in Pending => A + 1 + Cardinality(Old(j)') < RetryLimit + P
    <3>1. CASE n < RetryLimit
      <4>1. p \in Old(j)
        BY <1>1, <1>2, <3>1 DEF Old, Reads
      <4>2. Old(j)' \subseteq Old(j) \ {p}
        BY <2>2, <2>3
      <4>3. IsFiniteSet(Old(j))
        BY OldType DEF Old
      <4>4. /\ IsFiniteSet(Old(j) \ {p})
            /\ Cardinality(Old(j) \ {p}) = Cardinality(Old(j)) - 1
        BY <4>1, <4>3, FS_RemoveElement
      <4>5. Cardinality(Old(j)') <= Cardinality(Old(j)) - 1
        BY <4>2, <4>4, FS_Subset
      <4>6. QED
        BY <1>2, <2>1, <2>4, <4>5
    <3>2. CASE n >= RetryLimit
      <4>1. o \notin Pending
        BY <1>4, <3>2 DEF Outcome, Pending
      <4>2. QED
        BY <1>6, <1>7, <4>1
    <3>3. QED
      BY <1>1, <2>4, <3>1, <3>2
  <2>8. QED
    BY <1>8, <2>5, <2>6, <2>7 DEF RowCounted
<1>16. QED
  BY <1>13, <1>14, <1>15 DEF Counted

LEMMA InitCounted == Init => Counted
BY DEF Init, Counted, ReadingOK, RowCounted, Jobs

LEMMA NextCounted ==
  ASSUME IInv, IInv', SomeProcs, Counted, [Next]_vars
  PROVE  Counted'
<1>1. ASSUME NEW p \in Procs, Deliver(p) PROVE Counted'
  BY <1>1, CountBegin, CountReadScope, CountEnqueue, CountCheck, CountAnswer DEF Deliver
<1>2. QED
  BY <1>1, CountWorld, CountBegin DEF Next

\* However often devices fail, batches go stale and runs die, a job is sent
\* once and RetryLimit times more, once for every run that died in flight and
\* once for every other process: the retries of push.rs are bounded.
THEOREM SendsAreBounded ==
  ASSUME RunsEndInTime, SomeProcs PROVE Spec => []SendsBounded
<1>1. Init => Counted
  BY InitCounted
<1>2. IInv /\ IInv' /\ Counted /\ [Next]_vars => Counted'
  BY NextCounted
<1>3. IInv /\ Counted => SendsBounded
  <2> SUFFICES ASSUME IInv, Counted, NEW j \in Jobs
               PROVE  sends[j] <= RetryLimit + Cardinality(Procs) + faults
    BY DEF SendsBounded
  <2>1. /\ faults \in Nat /\ RetryLimit \in Nat /\ Cardinality(Procs) \in Nat
        /\ sends[j] \in Nat /\ RowCounted(j)
    BY OldType, BoundsNat DEF IInv, TypeOK, Counted
  <2>2. CASE job[j] = None
    BY <2>1, <2>2 DEF RowCounted
  <2>3. CASE job[j] # None
    <3>1. job[j] \in Job /\ job[j].attempts \in Nat
      BY <2>3 DEF IInv, TypeOK, Job
    <3>2. CASE InFlight(j)
      <4>1. job[j].state \in Pending
        BY <3>2 DEF InFlight, IInv, Leased, Pending
      <4>2. Cardinality(Old(j)) \in Nat
        BY OldType DEF Old
      <4>3. job[j].attempts + 1 <= RetryLimit + Cardinality(Procs)
        BY <2>1, <2>3, <3>1, <4>1, <4>2 DEF RowCounted
      <4>4. sends[j] <= job[j].attempts + faults + 1
        BY <2>1, <2>3, <3>2 DEF RowCounted
      <4>5. QED
        BY <2>1, <3>1, <4>3, <4>4
    <3>3. CASE ~InFlight(j)
      <4>1. sends[j] <= job[j].attempts + faults + 0
        BY <2>1, <2>3, <3>3 DEF RowCounted
      <4>2. QED
        BY <2>1, <2>3, <3>1, <4>1 DEF RowCounted
    <3>4. QED
      BY <3>2, <3>3
  <2>4. QED
    BY <2>2, <2>3
<1>4. QED
  BY <1>1, <1>2, <1>3, OutboxInvariant, PTL DEF Spec

\* The run's property whole: every push on its way belongs to one process and
\* to its row, and their number is bounded.
THEOREM SendsOwnedHolds ==
  ASSUME RunsEndInTime, SomeProcs PROVE Spec => []SendsOwned
BY NoConcurrentSendHolds, LeaseOwnsRowHolds, SendsAreBounded, PTL DEF SendsOwned

\* The table, the runs and the clock keep their types.
THEOREM TypesKept == ASSUME RunsEndInTime PROVE Spec => []TypeOK
<1>1. IInv => TypeOK
  BY DEF IInv
<1>2. QED
  BY <1>1, OutboxInvariant, PTL
=============================================================================
