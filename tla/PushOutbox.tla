----------------------------- MODULE PushOutbox -----------------------------
(***************************************************************************)
(* The persistent outbox of Web Push (crates/dashboard/src/push.rs).       *)
(*                                                                         *)
(* Every minute a service process runs deliver: for each enabled device it *)
(* inserts a job per triggered alert, expires and requeues old jobs, takes *)
(* a batch, and sends the batch one by one, re-checking each job first.    *)
(* The database is free between any two of these steps and during a send,  *)
(* so devices are removed, members revoked and alerts acknowledged while a *)
(* run holds rows it read earlier.  A lease (state sending, next_attempt)  *)
(* is what keeps a second service process away from a job.                 *)
(*                                                                         *)
(* Time is counted in units of 60 s; a run reads the clock once.  A job is *)
(* identified by its device and alert (UNIQUE(device_id, alert_id)); Test  *)
(* stands for the alert id of a device's test notification.                *)
(***************************************************************************)
EXTENDS Integers, FiniteSets

CONSTANTS
  Procs,       \* service processes sharing the database
  Devices, Members, Alerts,
  MemberOf,    \* [Devices -> Members \cup {None}], None: the owner's device
  ScopeOf,     \* [Members -> SUBSET Alerts]  alerts of a member's trips
  Test, None,
  Lease,       \* how far the lease reaches past the run's clock (120 s)
  Ttl,         \* life of an alert's job (3600 s)
  TestTtl,     \* life of a test job (300 s)
  RetryLimit,  \* attempts after which a refused job fails (4)
  Limit,       \* jobs taken per device and run (20)
  SendLimit,   \* longest send (the HTTP client's timeout, 20 s)
  DbLimit,     \* longest database work between two sends
  RunLimit,    \* assumed longest run; the code has no such limit
  Testers,     \* bound: the devices that ask for one test notification
  LastAlert,   \* bound: no alert and no test after this time
  MaxTime,     \* bound on the clock
  MaxFaults    \* bound on aborted runs

AlertIds == Alerts \cup {Test}
Jobs     == Devices \X AlertIds

Pending == {"queued", "sending"}
Settled == {"accepted", "failed", "superseded", "expired"}

Job == [state : Pending \cup Settled, attempts : Nat, next : Nat, expires : Nat]

ASSUME OutboxAssumption ==
  /\ MemberOf \in [Devices -> Members \cup {None}]
  /\ ScopeOf \in [Members -> SUBSET Alerts]
  /\ Testers \subseteq Devices
  /\ Test \notin Alerts
  /\ None \notin Devices \cup Members \cup AlertIds \cup Jobs
  /\ None \notin Job
  /\ {Lease, Ttl, TestTtl, RetryLimit, Limit, SendLimit, DbLimit,
      RunLimit, LastAlert, MaxTime, MaxFaults} \subseteq Nat

VARIABLES
  clock,
  enabled,   \* push_devices.enabled
  revoked,   \* household_members.revoked
  alert,     \* scheduled, triggered or acknowledged
  since,     \* when the alert triggered
  job,       \* push_outbox rows
  pc, run,   \* each process's run of deliver: where it is, what it read
  sends,     \* history: how often a job was handed to the push service
  faults

vars == <<clock, enabled, revoked, alert, since, job, pc, run, sends, faults>>

\* A row of the batch as it was read.
Item == [alert : AlertIds, attempts : Nat]

Run == [now : Nat, devices : SUBSET Devices, device : Devices \cup {None},
        batch : SUBSET Item, item : Item \cup {None}, started : Nat]

TypeOK ==
  /\ clock \in 0 .. MaxTime
  /\ enabled \in [Devices -> BOOLEAN]
  /\ revoked \in [Members -> BOOLEAN]
  /\ alert \in [Alerts -> {"scheduled", "triggered", "acknowledged"}]
  /\ since \in [Alerts -> Nat]
  /\ job \in [Jobs -> Job \cup {None}]
  /\ pc \in [Procs -> {"idle", "device", "enqueue", "job", "send"}]
  /\ run \in [Procs -> Run \cup {None}]
  /\ \A p \in Procs : pc[p] # "idle" => run[p] \in Run
  /\ sends \in [Jobs -> Nat]
  /\ faults \in 0 .. MaxFaults

Init ==
  /\ clock = 0
  /\ enabled = [d \in Devices |-> FALSE]
  /\ revoked = [m \in Members |-> FALSE]
  /\ alert = [a \in Alerts |-> "scheduled"]
  /\ since = [a \in Alerts |-> 0]
  /\ job = [j \in Jobs |-> None]
  /\ pc = [p \in Procs |-> "idle"]
  /\ run = [p \in Procs |-> None]
  /\ sends = [j \in Jobs |-> 0]
  /\ faults = 0

Fresh(expires) ==
  [state |-> "queued", attempts |-> 0, next |-> clock, expires |-> expires]

-----------------------------------------------------------------------------
(* The world around the outbox.                                            *)

MayUse(d) == MemberOf[d] # None => ~revoked[MemberOf[d]]

\* subscribe: a new row, or the same browser enabled again
Subscribe(d) ==
  /\ MayUse(d)
  /\ ~enabled[d]
  /\ enabled' = [enabled EXCEPT ![d] = TRUE]
  /\ UNCHANGED <<clock, revoked, alert, since, job, pc, run, sends, faults>>

\* remove
Remove(d) ==
  /\ enabled[d]
  /\ enabled' = [enabled EXCEPT ![d] = FALSE]
  /\ UNCHANGED <<clock, revoked, alert, since, job, pc, run, sends, faults>>

\* test
TestPush(d) ==
  /\ d \in Testers
  /\ enabled[d] /\ MayUse(d)
  /\ clock <= LastAlert
  /\ job[<<d, Test>>] = None
  /\ job' = [job EXCEPT ![<<d, Test>>] = Fresh(clock + TestTtl)]
  /\ UNCHANGED <<clock, enabled, revoked, alert, since, pc, run, sends, faults>>

\* household::revoke
Revoke(m) ==
  /\ ~revoked[m]
  /\ revoked' = [revoked EXCEPT ![m] = TRUE]
  /\ UNCHANGED <<clock, enabled, alert, since, job, pc, run, sends, faults>>

\* trigger_due_alerts
Trigger(a) ==
  /\ alert[a] = "scheduled"
  /\ clock <= LastAlert
  /\ alert' = [alert EXCEPT ![a] = "triggered"]
  /\ since' = [since EXCEPT ![a] = clock]
  /\ UNCHANGED <<clock, enabled, revoked, job, pc, run, sends, faults>>

\* acknowledge_alert (a reminder row that is deleted looks the same here)
AcknowledgeAlert(a) ==
  /\ alert[a] # "acknowledged"
  /\ alert' = [alert EXCEPT ![a] = "acknowledged"]
  /\ UNCHANGED <<clock, enabled, revoked, since, job, pc, run, sends, faults>>

\* Time passes, within the limits assumed of a send and of a run.
Tick ==
  /\ clock < MaxTime
  /\ \A p \in Procs :
       pc[p] # "idle" =>
         /\ clock < run[p].now + RunLimit
         /\ clock < run[p].started + (IF pc[p] = "send" THEN SendLimit ELSE DbLimit)
  /\ clock' = clock + 1
  /\ UNCHANGED <<enabled, revoked, alert, since, job, pc, run, sends, faults>>

-----------------------------------------------------------------------------
(* deliver                                                                 *)

\* The clock and the enabled devices are read once for the whole run.
Begin(p) ==
  /\ pc[p] = "idle"
  /\ \E d \in Devices : enabled[d]
  /\ pc' = [pc EXCEPT ![p] = "device"]
  /\ run' = [run EXCEPT ![p] =
       [now |-> clock, devices |-> {d \in Devices : enabled[d]},
        device |-> None, batch |-> {}, item |-> None, started |-> clock]]
  /\ UNCHANGED <<clock, enabled, revoked, alert, since, job, sends, faults>>

\* Go on with the rest of the batch, the next device, or end the run.
Continue(p, r) ==
  /\ pc' = [pc EXCEPT ![p] =
       IF r.batch # {} THEN "job" ELSE IF r.devices # {} THEN "device" ELSE "idle"]
  /\ run' = [run EXCEPT ![p] =
       IF r.batch \cup r.devices = {} THEN None ELSE [r EXCEPT !.item = None]]

\* The scope of the device's member; a revoked member's device is skipped.
ReadScope(p, d) ==
  LET r == [run[p] EXCEPT !.devices = @ \ {d}, !.device = d]
  IN  /\ pc[p] = "device"
      /\ d \in run[p].devices
      /\ \/ /\ MayUse(d)
            /\ pc' = [pc EXCEPT ![p] = "enqueue"]
            /\ run' = [run EXCEPT ![p] = r]
         \/ ~MayUse(d) /\ Continue(p, r)
      /\ UNCHANGED <<clock, enabled, revoked, alert, since, job, sends, faults>>

\* Alerts the device gets a job for: its own scope, triggered, still young.
Wanted(d, now) ==
  {a \in Alerts :
     /\ alert[a] = "triggered"
     /\ MemberOf[d] # None => a \in ScopeOf[MemberOf[d]]
     /\ now <= since[a] + Ttl}

\* Mutant: rows a dead run left in sending are never requeued.
SweptOnce(d, now) ==
  [j \in Jobs |->
     IF job[j] = None /\ j[1] = d /\ j[2] \in Wanted(d, now)
     THEN [Fresh(since[j[2]] + Ttl) EXCEPT !.next = now]
     ELSE IF job[j] # None /\ job[j].state = "queued" /\ job[j].expires <= now
          THEN [job[j] EXCEPT !.state = "expired"]
          ELSE job[j]]

\* INSERT OR IGNORE for device d, then expire and requeue over all devices.
Swept(d, now) ==
  [j \in Jobs |->
     LET row == IF job[j] = None /\ j[1] = d /\ j[2] \in Wanted(d, now)
                THEN [Fresh(since[j[2]] + Ttl) EXCEPT !.next = now]
                ELSE job[j]
     IN  IF row = None THEN None
         ELSE IF row.state = "queued" /\ row.expires <= now
              THEN [row EXCEPT !.state = "expired"]
         ELSE IF row.state = "sending" /\ row.next <= now
              THEN [row EXCEPT !.state = "queued"]
         ELSE row]

Due(table, d, now) ==
  {a \in AlertIds :
     /\ table[<<d, a>>] # None
     /\ table[<<d, a>>].state = "queued"
     /\ table[<<d, a>>].next <= now
     /\ table[<<d, a>>].expires > now}

\* At most Limit of the due jobs, in no stated order.
Batches(due) ==
  {b \in SUBSET due :
     IF Cardinality(due) <= Limit THEN b = due ELSE Cardinality(b) = Limit}

Enqueue(p) ==
  LET d   == run[p].device
      now == run[p].now
  IN  /\ pc[p] = "enqueue"
      /\ job' = Swept(d, now)
      /\ \E b \in Batches(Due(job', d, now)) :
           Continue(p, [run[p] EXCEPT !.batch =
             {[alert |-> a, attempts |-> job'[<<d, a>>].attempts] : a \in b}])
      /\ UNCHANGED <<clock, enabled, revoked, alert, since, sends, faults>>

\* Mutant: what was permitted when the batch was read still is.
PermittedAsRead(d, a) == TRUE

\* Scope and acknowledgment as they are now, not as the batch was read.
Permitted(d, a) ==
  /\ enabled[d] /\ MayUse(d)
  /\ a # Test =>
       /\ alert[a] = "triggered"
       /\ MemberOf[d] # None => a \in ScopeOf[MemberOf[d]]

\* Mutant: the lease is written without looking at the state.
LeasableAnyway(row) == TRUE

\* The lease is one UPDATE that finds the row still queued, or none.
Leasable(row) == row.state = "queued"

\* Lease the job and send it, supersede it, or leave it to its new owner.
Check(p, item) ==
  LET d == run[p].device
      j == <<d, item.alert>>
      rest == [run[p] EXCEPT !.batch = @ \ {item}]
  IN  /\ pc[p] = "job"
      /\ item \in run[p].batch
      /\ \/ /\ ~Permitted(d, item.alert)
            /\ job' = [job EXCEPT ![j].state = IF @ = "queued" THEN "superseded" ELSE @]
            /\ Continue(p, rest)
            /\ UNCHANGED sends
         \/ /\ Permitted(d, item.alert)
            /\ ~Leasable(job[j])
            /\ Continue(p, rest)
            /\ UNCHANGED <<job, sends>>
         \/ /\ Permitted(d, item.alert)
            /\ Leasable(job[j])
            /\ job' = [job EXCEPT ![j] =
                 [@ EXCEPT !.state = "sending", !.next = run[p].now + Lease]]
            /\ sends' = [sends EXCEPT ![j] = @ + 1]
            /\ pc' = [pc EXCEPT ![p] = "send"]
            /\ run' = [run EXCEPT ![p] =
                 [rest EXCEPT !.item = item, !.started = clock]]
      /\ UNCHANGED <<clock, enabled, revoked, alert, since, faults>>

Backoff(attempts) == <<1, 2, 4, 8, 16, 32>>[IF attempts < 5 THEN attempts + 1 ELSE 6]

\* Mutant: the answer itself is stored as the state.
OutcomeVerbatim(answer, attempts) == answer

Outcome(answer, attempts) ==
  IF answer = "ok" THEN "accepted"
  ELSE IF attempts >= RetryLimit \/ answer = "gone" THEN "failed"
  ELSE "queued"

\* n is the number of attempts as the batch was read.
Answered(row, answer, n, now) ==
  [row EXCEPT !.state = Outcome(answer, n), !.attempts = @ + 1,
              !.next = now + Backoff(n)]

\* The push service answers, or the send fails; the result is written to the
\* row whatever its state is by now.
Answer(p, answer) ==
  LET d == run[p].device
      n == run[p].item.attempts
      j == <<d, run[p].item.alert>>
  IN  /\ pc[p] = "send"
      /\ enabled' = [enabled EXCEPT ![d] = @ /\ answer # "gone"]
      /\ job' = [job EXCEPT ![j] = Answered(@, answer, n, run[p].now)]
      /\ Continue(p, run[p])
      /\ UNCHANGED <<clock, revoked, alert, since, sends, faults>>

\* A database error or the end of the process stops the run where it is,
\* perhaps between the two writes that follow an answer.
Abort(p) ==
  /\ pc[p] # "idle"
  /\ faults < MaxFaults
  /\ faults' = faults + 1
  /\ pc' = [pc EXCEPT ![p] = "idle"]
  /\ run' = [run EXCEPT ![p] = None]
  /\ \/ UNCHANGED enabled
     \/ /\ pc[p] = "send"
        /\ enabled' = [enabled EXCEPT ![run[p].device] = FALSE]
  /\ UNCHANGED <<clock, revoked, alert, since, job, sends>>

Deliver(p) ==
  \/ Begin(p)
  \/ \E d \in Devices : ReadScope(p, d)
  \/ Enqueue(p)
  \/ pc[p] = "job" /\ \E item \in run[p].batch : Check(p, item)
  \/ \E answer \in {"ok", "gone", "error"} : Answer(p, answer)

Next ==
  \/ \E d \in Devices : Subscribe(d) \/ Remove(d) \/ TestPush(d)
  \/ \E m \in Members : Revoke(m)
  \/ \E a \in Alerts : Trigger(a) \/ AcknowledgeAlert(a)
  \/ \E p \in Procs : Deliver(p) \/ Abort(p)
  \/ Tick

Spec == Init /\ [][Next]_vars

\* The worker runs deliver once a minute, so time passes between runs; a send
\* ends by its timeout; devices, members and alerts owe nothing.
FairSpec == Spec /\ SF_vars(Tick) /\ \A p \in Procs : WF_vars(Deliver(p))

-----------------------------------------------------------------------------
(* What must hold.                                                         *)

Sending(p, j) == pc[p] = "send" /\ j = <<run[p].device, run[p].item.alert>>

\* push.rs:263: "A lease prevents two service processes from sending the
\* same queued job."
NoConcurrentSend ==
  \A p, q \in Procs, j \in Jobs : Sending(p, j) /\ Sending(q, j) => p = q

\* A send in flight owns its row: nobody requeues, supersedes or settles the
\* job before the answer of that send is written.
LeaseOwnsRow ==
  \A p \in Procs, j \in Jobs : Sending(p, j) => job[j].state = "sending"

\* What was accepted, given up, superseded or expired is never sent again:
\* no stale batch and no late answer revives a settled job.
SettledIsFinal ==
  [][\A j \in Jobs :
       (job[j] # None /\ job[j].state \in Settled) =>
         /\ job'[j].state = job[j].state
         /\ sends'[j] = sends[j]]_vars

\* A device that keeps failing costs a bounded number of pushes per alert: the
\* first, the retries, one for every run that died before it could write the
\* answer down, and one for every other process, whose batch may still hold the
\* attempts of an earlier reading when it takes the job over.
SendsBounded ==
  \A j \in Jobs : sends[j] <= RetryLimit + Cardinality(Procs) + faults

\* Together: every push on its way belongs to one process and to its row, and
\* their number is bounded.
SendsOwned == NoConcurrentSend /\ LeaseOwnsRow /\ SendsBounded

\* From the moment an alert is acknowledged, a device removed or a member
\* revoked, no new push leaves, although runs hold rows read before.
NothingAfterWithdrawal ==
  [][\A d \in Devices, a \in AlertIds :
       sends'[<<d, a>>] # sends[<<d, a>>] =>
         /\ enabled[d] /\ MayUse(d)
         /\ a \in Alerts => alert[a] # "acknowledged"]_vars

\* What no send may do: leave for a job that is settled, or for a person or an
\* alert that is withdrawn.
NothingStale == SettledIsFinal /\ NothingAfterWithdrawal

\* While some device can be served, no job stays pending for ever: it is
\* accepted, gives up, is superseded or expires, also after aborted runs.
Reachable == \E d \in Devices : enabled[d] /\ MayUse(d)

EventuallySettled ==
  \A j \in Jobs :
    (job[j] # None /\ job[j].state \in Pending) ~>
      ((job[j] # None /\ job[j].state \in Settled) \/ ~Reachable)
=============================================================================
