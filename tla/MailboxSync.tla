---------------------------- MODULE MailboxSync -----------------------------
(***************************************************************************)
(* The mailbox sweep (sync_mailbox in crates/dashboard/src/handlers/       *)
(* travel.rs) and its durable cursor (crates/store/src/travel.rs).         *)
(*                                                                         *)
(* A sweep examines the oldest unseen UIDs and the newest ones, hands each *)
(* travel message to persist_parsed_document, and moves the cursor only if *)
(* nothing blocked it.  A message that cannot be read gets three attempts, *)
(* then it is quarantined in front of the owner and no longer blocks.      *)
(* Sweeps of one mailbox exclude each other by the lock of its connection, *)
(* but a failed sweep evicts the connection from the pool while another    *)
(* may be waiting for it, so the model lets any two sweeps overlap.        *)
(*                                                                         *)
(* The folder holds messages 1 .. mail in arrival order; a message's UID   *)
(* is its number, also after the server starts a new UIDVALIDITY epoch.    *)
(* Classification and parsing are constant per message (Noise); what       *)
(* persist_parsed_document does is TravelReceipts, here only its result.   *)
(***************************************************************************)
EXTENDS Integers, FiniteSets, FiniteSetsExt

CONSTANTS
  Sweepers,     \* concurrent calls of sync_mailbox
  Noise,        \* messages the classifier or parser ignores
  Poison,       \* messages no fetch or decode ever reads
  Limit,        \* UIDs per batch and newest window
  MaxAttempts,  \* MAX_MESSAGE_INGEST_ATTEMPTS
  MaxMail,      \* bound: messages delivered
  MaxEpoch,     \* bound: UIDVALIDITY epochs
  MaxRescans,   \* bound: full rescans
  MaxFaults,    \* bound: failed reads, writes and calls
  None

Msgs   == 1 .. MaxMail
Epochs == 1 .. MaxEpoch

ASSUME SyncAssumption ==
  /\ {Limit, MaxAttempts, MaxMail, MaxEpoch, MaxRescans, MaxFaults} \subseteq Nat
  /\ Limit > 0 /\ MaxAttempts > 0 /\ MaxEpoch > 0
  /\ Noise \subseteq Msgs /\ Poison \subseteq Msgs

VARIABLES
  mail, epoch,   \* the server: messages so far, current UIDVALIDITY
  fate,          \* what became of each message
  rowEpoch,      \* epoch under which a message's receipt was recorded
  attempts,      \* travel_ingest_failures.attempt_count
  quarantined,   \* failure rows with quarantined_at: durable skip markers
  cursor,        \* travel_ingest_cursors row of the folder, or None
  pc, sweep,     \* each sweep: where it is, what it has read
  rescans, faults

vars == <<mail, epoch, fate, rowEpoch, attempts, quarantined, cursor, pc,
          sweep, rescans, faults>>

\* open: the call failed after recording the receipt; review: quarantined
\* with an alert, also as unreadable; settled: processed or dismissed; ignored: looked at, not
\* travel.
Fates == {"new", "open", "review", "settled", "ignored"}

Cursor == [epoch : Epochs, last : 0 .. MaxMail]

Sweep == [epoch : Epochs, rescan : BOOLEAN, handled : SUBSET Msgs,
          last : 0 .. MaxMail, bootstrap : BOOLEAN, todo : SUBSET Msgs,
          next : 0 .. MaxMail, window : SUBSET Msgs, blocked : BOOLEAN]

TypeOK ==
  /\ mail \in 0 .. MaxMail
  /\ epoch \in Epochs
  /\ fate \in [Msgs -> Fates]
  /\ rowEpoch \in [Msgs -> Epochs \cup {None}]
  /\ attempts \in [Epochs \X Msgs -> Nat]
  /\ quarantined \subseteq Epochs \X Msgs
  /\ cursor \in Cursor \cup {None}
  /\ pc \in [Sweepers -> {"idle", "cursor", "list", "scan", "finalize"}]
  /\ \A s \in Sweepers : pc[s] # "idle" => sweep[s] \in Sweep
  /\ rescans \in 0 .. MaxRescans
  /\ faults \in 0 .. MaxFaults

Init ==
  /\ mail = 0 /\ epoch = 1
  /\ fate = [m \in Msgs |-> "new"]
  /\ rowEpoch = [m \in Msgs |-> None]
  /\ attempts = [k \in Epochs \X Msgs |-> 0]
  /\ quarantined = {}
  /\ cursor = None
  /\ pc = [s \in Sweepers |-> "idle"]
  /\ sweep = [s \in Sweepers |-> None]
  /\ rescans = 0 /\ faults = 0

-----------------------------------------------------------------------------
(* The server and the owner.                                               *)

Arrive ==
  /\ mail < MaxMail
  /\ mail' = mail + 1
  /\ UNCHANGED <<epoch, fate, rowEpoch, attempts, quarantined, cursor, pc,
                 sweep, rescans, faults>>

\* The server renumbers the folder.
NewEpoch ==
  /\ epoch < MaxEpoch
  /\ epoch' = epoch + 1
  /\ UNCHANGED <<mail, fate, rowEpoch, attempts, quarantined, cursor, pc,
                 sweep, rescans, faults>>

\* The owner approves or dismisses a receipt.
OwnerSettles(m) ==
  /\ fate[m] \in {"open", "review"}
  /\ fate' = [fate EXCEPT ![m] = "settled"]
  /\ UNCHANGED <<mail, epoch, rowEpoch, attempts, quarantined, cursor, pc,
                 sweep, rescans, faults>>

-----------------------------------------------------------------------------
(* One sweep.                                                              *)

Fault ==
  /\ faults < MaxFaults
  /\ faults' = faults + 1

Store == <<fate, rowEpoch, attempts, quarantined, cursor>>

\* Sources the newest-mail sweep need not fetch again.
Handled(e) ==
  {m \in Msgs : \/ fate[m] = "settled" /\ rowEpoch[m] = e
                \/ <<e, m>> \in quarantined}

\* EXAMINE the folder and read the handled sources.
Begin(s, rescan) ==
  /\ pc[s] = "idle"
  /\ rescan => rescans < MaxRescans
  /\ rescans' = IF rescan THEN rescans + 1 ELSE rescans
  /\ pc' = [pc EXCEPT ![s] = "cursor"]
  /\ sweep' = [sweep EXCEPT ![s] =
       [epoch |-> epoch, rescan |-> rescan, handled |-> Handled(epoch),
        last |-> 0, bootstrap |-> FALSE, todo |-> {}, next |-> 0,
        window |-> {}, blocked |-> FALSE]]
  /\ UNCHANGED Store /\ UNCHANGED <<mail, epoch, faults>>

\* Read the boundary; a full rescan deletes it first and starts from zero.
ReadCursor(s) ==
  LET e == sweep[s].epoch
      known == cursor # None /\ cursor.epoch = e
  IN  /\ pc[s] = "cursor"
      /\ pc' = [pc EXCEPT ![s] = "list"]
      /\ cursor' = IF sweep[s].rescan THEN [epoch |-> e, last |-> 0] ELSE cursor
      /\ sweep' = [sweep EXCEPT
           ![s].last = IF known /\ ~sweep[s].rescan THEN cursor.last ELSE 0,
           ![s].bootstrap = ~sweep[s].rescan /\ ~known]
      /\ UNCHANGED <<mail, epoch, fate, rowEpoch, attempts, quarantined,
                     rescans, faults>>

\* Mutant: the batch ends Limit UIDs on, whether they exist or not.
NextScanBeyond(n, last) == {u \in 1 .. last + Limit : last < u}

\* next_scan_uids and latest_scan_uids; UIDs are the numbers 1 .. n.
NextScan(n, last) ==
  {u \in 1 .. n : last < u /\ u <= last + Limit}

LatestScan(n) == {u \in 1 .. n : u > n - Limit}

\* Mutant: the boundary is taken from the batch after handled UIDs left it.
ListFilteredFirst(s) ==
  LET r == sweep[s]
      backfill == IF r.bootstrap THEN {} ELSE NextScan(mail, r.last)
      window == IF r.rescan THEN {} ELSE LatestScan(mail)
  IN  /\ pc[s] = "list"
      /\ pc' = [pc EXCEPT ![s] = "scan"]
      /\ sweep' = [sweep EXCEPT
           ![s].todo = (backfill \cup window) \ r.handled,
           ![s].window = window,
           ![s].next = Max((backfill \ r.handled) \cup {r.last})]
      /\ UNCHANGED Store /\ UNCHANGED <<mail, epoch, rescans, faults>>

List(s) ==
  LET r == sweep[s]
      backfill == IF r.bootstrap THEN {} ELSE NextScan(mail, r.last)
      window == IF r.rescan THEN {} ELSE LatestScan(mail)
  IN  /\ pc[s] = "list"
      /\ pc' = [pc EXCEPT ![s] = "scan"]
      /\ sweep' = [sweep EXCEPT
           ![s].todo = (backfill \cup window) \ r.handled,
           ![s].window = window,
           ![s].next = Max(backfill \cup {r.last})]
      /\ UNCHANGED Store /\ UNCHANGED <<mail, epoch, rescans, faults>>

Next1(s) == Min(sweep[s].todo)

Done(s, blocks) ==
  sweep' = [sweep EXCEPT ![s].todo = @ \ {Next1(s)}, ![s].blocked = @ \/ blocks]

Scanning(s) == pc[s] = "scan" /\ sweep[s].todo # {}

\* clear_open_travel_ingest_failure: no row is left unless it is quarantined.
Cleared(key) ==
  [attempts EXCEPT ![key] = IF key \in quarantined THEN @ ELSE 0]

\* The next message is read: below the boundary it is left alone, noise is
\* counted as ignored (by its summary, or after the fetch cleared its
\* failures), everything else is persisted.
Read(s) ==
  LET u == Next1(s)
      key == <<sweep[s].epoch, u>>
  IN  /\ Scanning(s)
      /\ u \notin Poison
      /\ \/ /\ u <= sweep[s].last
            /\ UNCHANGED <<fate, rowEpoch, attempts>>
         \/ /\ u > sweep[s].last
            /\ u \in Noise
            /\ attempts' \in {attempts, Cleared(key)}
            /\ fate' = [fate EXCEPT ![u] = IF @ = "new" THEN "ignored" ELSE @]
            /\ UNCHANGED rowEpoch
         \/ /\ u > sweep[s].last
            /\ u \notin Noise
            /\ attempts' = Cleared(key)
            /\ rowEpoch' = [rowEpoch EXCEPT
                 ![u] = IF @ = None THEN sweep[s].epoch ELSE @]
            /\ \E result \in {"review", "settled"} :
                 fate' = [fate EXCEPT ![u] = IF @ = "settled" THEN @ ELSE result]
      /\ Done(s, FALSE)
      /\ UNCHANGED <<mail, epoch, quarantined, cursor, pc, rescans, faults>>

\* A message that was fetched is not persisted: its original is not kept, its
\* failures are not cleared, or persist_parsed_document fails, before or after
\* recording the receipt.
PersistFails(s) ==
  LET u == Next1(s)
      key == <<sweep[s].epoch, u>>
  IN  /\ Scanning(s)
      /\ u \notin Noise \cup Poison /\ u > sweep[s].last
      /\ Fault
      /\ \/ attempts' \in {attempts, Cleared(key)} /\ UNCHANGED <<fate, rowEpoch>>
         \/ /\ attempts' = Cleared(key)
            /\ fate' = [fate EXCEPT ![u] = IF @ = "new" THEN "open" ELSE @]
            /\ rowEpoch' = [rowEpoch EXCEPT
                 ![u] = IF @ = None THEN sweep[s].epoch ELSE @]
      /\ Done(s, TRUE)
      /\ UNCHANGED <<mail, epoch, quarantined, cursor, pc, rescans>>

\* A message of its own cannot be fetched or decoded: count the attempt,
\* block the cursor, or go on to quarantine it when the budget is spent.
Unreadable(s) ==
  LET u == Next1(s)
      key == <<sweep[s].epoch, u>>
  IN  /\ Scanning(s)
      /\ IF u \in Poison THEN UNCHANGED faults ELSE Fault
      /\ \/ /\ key \in quarantined
            /\ Done(s, FALSE)
            /\ UNCHANGED <<attempts, pc>>
         \/ /\ key \notin quarantined
            /\ attempts' = [attempts EXCEPT ![key] = @ + 1]
            /\ IF attempts'[key] < MaxAttempts
               THEN Done(s, TRUE) /\ UNCHANGED pc
               ELSE pc' = [pc EXCEPT ![s] = "finalize"] /\ UNCHANGED sweep
      /\ UNCHANGED <<mail, epoch, fate, rowEpoch, quarantined, cursor, rescans>>

\* finalize_travel_ingest_failure_quarantine: receipt, alert and skip marker
\* in one transaction, unless another sweep has cleared the failure row.
Finalize(s) ==
  LET u == Next1(s)
      key == <<sweep[s].epoch, u>>
  IN  /\ pc[s] = "finalize"
      /\ pc' = [pc EXCEPT ![s] = "scan"]
      /\ \/ /\ attempts[key] > 0
            /\ quarantined' = quarantined \cup {key}
            /\ fate' = [fate EXCEPT ![u] = IF @ = "settled" THEN @ ELSE "review"]
            /\ rowEpoch' = [rowEpoch EXCEPT
                 ![u] = IF @ = None THEN sweep[s].epoch ELSE @]
            /\ Done(s, FALSE)
            /\ UNCHANGED faults
         \/ /\ IF attempts[key] > 0 THEN Fault ELSE UNCHANGED faults
            /\ Done(s, TRUE)
            /\ UNCHANGED <<quarantined, fate, rowEpoch>>
      /\ UNCHANGED <<mail, epoch, attempts, cursor, rescans>>

\* fetch_travel_raw_messages_resilient: what neither the batch nor the retry
\* of each UID the batch left out returned.
LostToRetries(s) == (SUBSET sweep[s].todo) \ {{}}

\* Mutant: the outage counts against every message it lost.
OutageCharged(s) ==
  /\ Scanning(s)
  /\ Fault
  /\ \E lost \in LostToRetries(s) :
       /\ sweep' = [sweep EXCEPT ![s].todo = @ \ lost, ![s].blocked = TRUE]
       /\ attempts' = [k \in DOMAIN attempts |-> attempts[k] +
            IF k[1] = sweep[s].epoch /\ k[2] \in lost THEN 1 ELSE 0]
  /\ UNCHANGED <<mail, epoch, fate, rowEpoch, quarantined, cursor, pc, rescans>>

\* The session breaks: what was not fetched is lost to this sweep, and no
\* message is charged for it.
Outage(s) ==
  /\ Scanning(s)
  /\ Fault
  /\ \E lost \in LostToRetries(s) :
       /\ sweep' = [sweep EXCEPT ![s].todo = @ \ lost, ![s].blocked = TRUE]
  /\ UNCHANGED Store /\ UNCHANGED <<mail, epoch, pc, rescans>>

\* Mutant: the last sweep to end sets the boundary.
UpsertedVerbatim(e, last) == [epoch |-> e, last |-> last]

\* upsert_travel_cursor: within an epoch the boundary only grows.
Upserted(e, last) ==
  IF cursor # None /\ cursor.epoch = e
  THEN [epoch |-> e, last |-> Max({cursor.last, last})]
  ELSE [epoch |-> e, last |-> last]

\* Mutant: a failure does not hold the boundary.
FinishRegardless(s) ==
  /\ pc[s] = "scan" /\ sweep[s].todo = {}
  /\ cursor' = Upserted(sweep[s].epoch,
                        IF sweep[s].bootstrap THEN 0 ELSE sweep[s].next)
  /\ pc' = [pc EXCEPT ![s] = "idle"]
  /\ sweep' = [sweep EXCEPT ![s] = None]
  /\ UNCHANGED <<mail, epoch, fate, rowEpoch, attempts, quarantined, rescans,
                 faults>>

Finish(s) ==
  /\ pc[s] = "scan" /\ sweep[s].todo = {}
  /\ cursor' = IF sweep[s].blocked THEN cursor
               ELSE Upserted(sweep[s].epoch,
                             IF sweep[s].bootstrap THEN 0 ELSE sweep[s].next)
  /\ pc' = [pc EXCEPT ![s] = "idle"]
  /\ sweep' = [sweep EXCEPT ![s] = None]
  /\ UNCHANGED <<mail, epoch, fate, rowEpoch, attempts, quarantined, rescans,
                 faults>>

\* The call returns early or the service restarts.
Abort(s) ==
  /\ pc[s] # "idle"
  /\ Fault
  /\ pc' = [pc EXCEPT ![s] = "idle"]
  /\ sweep' = [sweep EXCEPT ![s] = None]
  /\ UNCHANGED Store /\ UNCHANGED <<mail, epoch, rescans>>

Progress(s) ==
  \/ ReadCursor(s) \/ List(s) \/ Read(s) \/ Unreadable(s) \/ Finalize(s)
  \/ Finish(s)

Next ==
  \/ Arrive \/ NewEpoch
  \/ \E m \in Msgs : OwnerSettles(m)
  \/ \E s \in Sweepers :
       \/ \E rescan \in BOOLEAN : Begin(s, rescan)
       \/ Progress(s) \/ PersistFails(s) \/ Outage(s) \/ Abort(s)

Spec == Init /\ [][Next]_vars

\* The background worker sweeps every minute and a running sweep goes on.
FairSpec ==
  /\ Spec
  /\ \A s \in Sweepers : WF_vars(Progress(s)) /\ WF_vars(Begin(s, FALSE))

-----------------------------------------------------------------------------
(* What must hold.                                                         *)

\* Nothing more will happen to the message without the owner knowing: it was
\* ignored, settled, or put in review.
Resolved(m) == fate[m] \in {"ignored", "review", "settled"}

\* The cursor never passes a message that is not resolved: no failed read,
\* failed write, crash or overlapping sweep makes history skip a message.
CursorNeverSkips ==
  cursor # None =>
    \A m \in 1 .. cursor.last : m <= mail /\ Resolved(m)

\* What one sweep relies on while others run: everything up to the boundary
\* it read, and everything it has already taken off its list unblocked.
SweepKeepsPromise ==
  \A s \in Sweepers :
    pc[s] \in {"scan", "finalize"} /\ ~sweep[s].blocked =>
      \A m \in (1 .. sweep[s].next) \ sweep[s].todo : Resolved(m)

\* "Historical backfill must never hide a newly-arrived delay or cancellation":
\* a sweep that ends unblocked has resolved the newest window it listed.
NewestResolved ==
  [][\A s \in Sweepers :
       (pc[s] = "scan" /\ pc'[s] = "idle" /\ faults' = faults
          /\ ~sweep[s].blocked) =>
         \A m \in sweep[s].window : Resolved(m)]_vars

\* Within an epoch the boundary moves back only for a full rescan.
CursorMovesForward ==
  [][(cursor # None /\ cursor' # None /\ cursor.epoch = cursor'.epoch
        /\ cursor'.last < cursor.last) =>
       \E s \in Sweepers : pc[s] = "cursor" /\ sweep[s].rescan]_vars

\* Every quarantine of a readable message has used up a full budget of failed
\* reads of that message alone: however failed reads, outages, crashes and
\* overlapping sweeps mix, no failure is charged to two messages, and an outage
\* of the session to none.
QuarantineEarned ==
  MaxAttempts * Cardinality({k \in quarantined : k[2] \notin Poison}) <= faults

\* Together, for the state: what the cursor and every sweep take for done is
\* done.
CursorHonest == CursorNeverSkips /\ SweepKeepsPromise

\* Together, for the steps: sweeps finish the newest window and move forward.
CursorAdvances == NewestResolved /\ CursorMovesForward

\* Every message is resolved in the end and the backfill reaches the newest
\* mail, also behind messages that can never be read.
EventuallyResolved ==
  \A m \in Msgs : (m <= mail) ~> Resolved(m)

BackfillCompletes ==
  []<>(cursor # None /\ cursor.epoch = epoch /\ cursor.last = mail)

\* Together: nothing of the mailbox is lost to the itinerary in the end.
HistoryResolved == EventuallyResolved /\ BackfillCompletes
=============================================================================
