--------------------------- MODULE TravelReceipts ---------------------------
(***************************************************************************)
(* How one travel message becomes a change of the family itinerary.        *)
(*                                                                         *)
(* persist_parsed_document (crates/dashboard/src/handlers/travel.rs) runs  *)
(* once per message, in several tasks at a time: the mailbox sweep, the    *)
(* Gmail API poll, an owner's import and an owner's approval.  It records  *)
(* a durable receipt, takes a lock keyed by that receipt, decides on a     *)
(* first read of the itinerary what the message may do, and repeats the    *)
(* decision inside the one SQLite transaction that changes the booking.    *)
(* Between those steps the database lock is free: other receipts of the    *)
(* same booking, owner edits, dismissals and restarts all interleave.      *)
(*                                                                         *)
(* Data abstraction: a document (an element of Docs) is a message together *)
(* with the receipt row it is deduplicated to; a confirmation code stands  *)
(* for the provider and code pair; a booking's dates are one day number    *)
(* (the start, which the code also takes for a missing end); trips, which  *)
(* only group bookings and lend them dates, are left out.                  *)
(***************************************************************************)
EXTENDS Integers, FiniteSets

CONSTANTS
  Docs,            \* messages, each with its receipt row
  Imports,         \* the documents an owner pastes in; the others are mail
  ManualBookings,  \* bookings an owner may type in by hand
  Workers,         \* tasks that can be inside persist_parsed_document
  Accounts, Epochs, Senders, Codes, Days,
  SourceOf,        \* [Docs -> Source]  where a document comes from
  ParsedOf,        \* [Docs -> Parsed]  what the parser makes of it
  Overrides,       \* corrections an owner may enter when approving
  Window,          \* COMPATIBLE_DATE_WINDOW_DAYS
  Grace,           \* RECENT_GRACE_DAYS
  MaxEdits,        \* bound: owner edits of the itinerary
  MaxFaults,       \* bound: failed calls and restarts
  None

Source == [account : Accounts, epoch : Epochs \cup {None}, uid : Nat,
           received : Days \cup {None}, sender : Senders \cup {None}]

Parsed == [kind   : {"itinerary", "unknown", "receipt"},
           code   : Codes \cup {None},
           status : {"confirmed", "changed", "cancelled", "unknown"},
           day    : Days \cup {None},
           review : BOOLEAN]   \* decision # "auto_accepted"

BookingIds == Docs \cup ManualBookings  \* a document creates at most one

ASSUME ReceiptAssumption ==
  /\ Imports \subseteq Docs
  /\ Docs \cap ManualBookings = {}
  /\ SourceOf \in [Docs -> Source]
  /\ ParsedOf \in [Docs -> Parsed]
  /\ Overrides \subseteq Parsed
  /\ Days \subseteq Nat
  /\ Window \in Nat /\ Grace \in Nat
  /\ MaxEdits \in Nat /\ MaxFaults \in Nat
  /\ None \notin Docs \cup Workers \cup Accounts \cup Epochs
                 \cup Senders \cup Codes \cup Days

VARIABLES
  receipt,    \* travel_receipts.status, or "absent"
  booking,    \* travel_bookings rows
  reminder,   \* due day of a booking's scheduled reminder alert
  review,     \* the receipt's review alert: none, open or acknowledged
  lock,       \* the keyed in-memory lock of each receipt
  pc,         \* where each task is in persist_parsed_document
  call,       \* the arguments of that call
  applied,    \* history: how often a receipt was written into a booking
  edits, faults

vars == <<receipt, booking, reminder, review, lock, pc, call, applied,
          edits, faults>>

Open     == {"pending", "quarantined"}
Terminal == {"processed", "dismissed"}

Booking == [code   : Codes \cup {None},
            status : {"confirmed", "changed", "cancelled", "unknown"},
            day    : Days \cup {None},
            receipt : Docs \cup {None}]

Guarded == {"precheck", "commit", "defer"}  \* inside the keyed lock

Call == [doc : Docs, manual : BOOLEAN, parsed : Parsed]

TypeOK ==
  /\ receipt  \in [Docs -> {"absent"} \cup Open \cup Terminal]
  /\ booking  \in [BookingIds -> Booking \cup {None}]
  /\ reminder \in [BookingIds -> Days \cup {None}]
  /\ review   \in [Docs -> {"none", "open", "acknowledged"}]
  /\ lock     \in [Docs -> Workers \cup {None}]
  /\ pc       \in [Workers -> {"idle", "ingest", "lock"} \cup Guarded]
  /\ call     \in [Workers -> Call \cup {None}]
  /\ \A w \in Workers : pc[w] # "idle" => call[w] \in Call
  /\ applied  \in [Docs -> Nat]
  /\ edits  \in 0 .. MaxEdits
  /\ faults \in 0 .. MaxFaults

Init ==
  /\ receipt  = [d \in Docs |-> "absent"]
  /\ booking  = [b \in BookingIds |-> None]
  /\ reminder = [b \in BookingIds |-> None]
  /\ review   = [d \in Docs |-> "none"]
  /\ lock     = [d \in Docs |-> None]
  /\ pc       = [w \in Workers |-> "idle"]
  /\ call     = [w \in Workers |-> None]
  /\ applied  = [d \in Docs |-> 0]
  /\ edits = 0
  /\ faults = 0

-----------------------------------------------------------------------------
(* compare_travel_receipt_sources: UIDs order one mailbox epoch, received  *)
(* dates order everything else, and a tie or a missing date is no order.   *)

SameEpoch(c, o) ==
  /\ SourceOf[c].account = SourceOf[o].account
  /\ SourceOf[c].epoch = SourceOf[o].epoch
  /\ SourceOf[c].epoch # None

SameSource(c, o) == SameEpoch(c, o) /\ SourceOf[c].uid = SourceOf[o].uid

NewerSource(c, o) ==
  \/ SameEpoch(c, o) /\ SourceOf[c].uid > SourceOf[o].uid
  \/ /\ ~SameEpoch(c, o)
     /\ None \notin {SourceOf[c].received, SourceOf[o].received}
     /\ SourceOf[c].received > SourceOf[o].received

OlderSource(c, o) == NewerSource(o, c)

SameMailbox(c, o) ==
  SourceOf[c].sender = SourceOf[o].sender /\ SourceOf[c].sender # None

-----------------------------------------------------------------------------
(* Booking identity and the automatic amendment decision.                  *)

Compatible(known, candidate) ==
  /\ None \notin {known, candidate}
  /\ candidate <= known + Window
  /\ known - Window <= candidate

Matches(p) ==
  {b \in BookingIds :
     /\ booking[b] # None
     /\ p.code # None
     /\ booking[b].code = p.code
     /\ p.day = None \/ Compatible(booking[b].day, p.day)}

Ambiguous(p) == \E b, c \in Matches(p) : b # c

StillCurrent(d, b, p) ==
  IF p.day # None
  THEN Compatible(b.day, p.day)
  ELSE /\ None \notin {SourceOf[d].received, b.day}
       /\ b.day >= SourceOf[d].received - Grace

IsReplay(d, b, p) ==
  d = b.receipt /\ (p.status = "unknown" \/ p.status = b.status)

SameAccount(d, b) ==
  b.receipt # None /\ SourceOf[d].account = SourceOf[b.receipt].account

\* The message is not newer than what the booking already reflects.
Outdated(d, b, p) ==
  /\ SameAccount(d, b)
  /\ \/ OlderSource(d, b.receipt)
     \/ SameSource(d, b.receipt) /\ ~IsReplay(d, b, p)

\* The message may amend the booking without the owner.
MayAmend(d, b, p) ==
  /\ SameAccount(d, b)
  /\ \/ SameSource(d, b.receipt) /\ IsReplay(d, b, p)
     \/ /\ NewerSource(d, b.receipt)
        /\ SameMailbox(d, b.receipt)
        /\ StillCurrent(d, b, p)

\* automatic_amendment_decision_on, for the bookings ids the message names
\* (none: nothing to amend; the callers handle the ambiguous case first).
Decision(d, p, manual, ids) ==
  IF manual \/ \A b \in ids : MayAmend(d, booking[b], p) THEN "apply"
  ELSE IF \A b \in ids : Outdated(d, booking[b], p) THEN "ignore"
  ELSE "review"

\* A change or cancellation notice for the one booking it names.
TrustedUpdate(d, p, manual, ids) ==
  /\ Decision(d, p, manual, ids) = "apply"
  /\ p.status \in {"changed", "cancelled"}
  /\ \E b \in ids : booking[b].status # p.status

\* The gate in front of the transaction: what must wait for the owner.
MustWait(d, p, manual, ids) ==
  LET trusted == TrustedUpdate(d, p, manual, ids)
  IN  /\ Decision(d, p, manual, ids) # "ignore"
      /\ \/ Decision(d, p, manual, ids) = "review"
         \/ p.kind = "unknown" /\ ~trusted
         \/ p.kind = "receipt"
         \/ p.day = None /\ ids = {}
         \/ p.review /\ ~manual /\ ~trusted

-----------------------------------------------------------------------------
(* Calling and leaving persist_parsed_document.                            *)

Begin(w, d, p, manual) ==
  /\ pc[w] = "idle"
  /\ pc' = [pc EXCEPT ![w] = "ingest"]
  /\ call' = [call EXCEPT ![w] = [doc |-> d, manual |-> manual, parsed |-> p]]
  /\ UNCHANGED <<receipt, booking, reminder, review, lock, applied,
                 edits, faults>>

\* The sweep or the Gmail API poll meets a message, possibly again.
StartSweep(w, d) ==
  d \notin Imports /\ Begin(w, d, ParsedOf[d], FALSE)

\* import_receipt
StartImport(w, d) ==
  d \in Imports /\ Begin(w, d, ParsedOf[d], TRUE)

\* approve_receipt: the owner confirms, perhaps corrects, an open receipt.
StartApprove(w, d, p) ==
  /\ receipt[d] \in Open
  /\ p.kind = "itinerary"
  /\ p.day # None \/ (Matches(p) # {} /\ ~Ambiguous(p))
  /\ Begin(w, d, [p EXCEPT !.review = TRUE], TRUE)

Step(w, from, to) ==
  /\ pc[w] = from
  /\ pc' = [pc EXCEPT ![w] = to]
  /\ UNCHANGED call

\* The call returns and drops its guard.
Return(w) ==
  /\ pc' = [pc EXCEPT ![w] = "idle"]
  /\ call' = [call EXCEPT ![w] = None]
  /\ lock' = [lock EXCEPT ![call[w].doc] = IF @ = w THEN None ELSE @]

\* Mutant: the parser's decision is stored where the status belongs.
IngestMistyped(w) ==
  LET d == call[w].doc
  IN  /\ Step(w, "ingest", "lock")
      /\ receipt' = [receipt EXCEPT ![d] =
           IF @ = "absent" THEN "needs_review" ELSE @]
      /\ UNCHANGED <<booking, reminder, review, lock, applied, edits, faults>>

\* ingest_travel_receipt: insert the row, or let a replay escalate it.
Ingest(w) ==
  LET d == call[w].doc
      p == call[w].parsed
  IN  /\ Step(w, "ingest", "lock")
      /\ receipt' = [receipt EXCEPT ![d] =
           IF p.review /\ @ \notin Terminal THEN "quarantined"
           ELSE IF @ = "absent" THEN "pending" ELSE @]
      /\ UNCHANGED <<booking, reminder, review, lock, applied, edits, faults>>

\* Wait for the keyed lock, then re-read the row: a terminal one ends here.
LockAndReread(w) ==
  LET d == call[w].doc
  IN  /\ pc[w] = "lock"
      /\ lock[d] = None
      /\ \/ /\ receipt[d] \notin Terminal
            /\ Step(w, "lock", "precheck")
            /\ lock' = [lock EXCEPT ![d] = w]
         \/ /\ receipt[d] \in Terminal
            /\ Return(w)
      /\ UNCHANGED <<receipt, booking, reminder, review, applied, edits,
                     faults>>

\* Identity, decision and gate on a first read, outside the transaction.
PreCheck(w) ==
  LET d   == call[w].doc
      p   == call[w].parsed
      ids == Matches(p)
  IN  /\ pc[w] = "precheck"
      /\ \/ /\ Ambiguous(p) \/ MustWait(d, p, call[w].manual, ids)
            /\ Step(w, "precheck", "defer")
         \/ /\ ~Ambiguous(p) /\ ~MustWait(d, p, call[w].manual, ids)
            /\ Step(w, "precheck", "commit")
      /\ UNCHANGED <<receipt, booking, reminder, review, lock, applied,
                     edits, faults>>

-----------------------------------------------------------------------------
(* process_travel_receipt_atomically and the closure it runs.              *)

\* enqueue_booking_alerts_on keeps the one reminder a live booking needs.
ReminderFor(b) == IF b.status = "cancelled" THEN None ELSE b.day

\* upsert_booking_on: amend what the message names, or create a booking.
\* (Its first choice, a booking already written by this receipt, cannot
\* exist for a receipt that is still open: see ProvenanceProcessed.)
Upserted(d, p, ids) ==
  IF ids = {}
  THEN [code |-> p.code, status |-> p.status, day |-> p.day, receipt |-> d]
  ELSE LET old == booking[CHOOSE b \in ids : TRUE]
       IN  [code    |-> p.code,
            status  |-> IF p.status = "unknown" THEN old.status ELSE p.status,
            day     |-> IF p.day = None THEN old.day ELSE p.day,
            receipt |-> d]

Target(d, ids) == IF ids = {} THEN d ELSE CHOOSE b \in ids : TRUE

\* Mutant: a reminder is scheduled when there is one, but never removed.
WriteBookingOnly(b, row) ==
  /\ booking'  = [booking  EXCEPT ![b] = row]
  /\ reminder' = [reminder EXCEPT ![b] =
       IF ReminderFor(row) = None THEN @ ELSE ReminderFor(row)]

WriteBooking(b, row) ==
  /\ booking'  = [booking  EXCEPT ![b] = row]
  /\ reminder' = [reminder EXCEPT ![b] = ReminderFor(row)]

Acknowledge(d) ==
  review' = [review EXCEPT ![d] = IF @ = "open" THEN "acknowledged" ELSE @]

\* Mutant: the booking is written outside the status change.
ApplyTxUnmarked(d, p, ids) ==
  /\ WriteBooking(Target(d, ids), Upserted(d, p, ids))
  /\ applied' = [applied EXCEPT ![d] = @ + 1]
  /\ UNCHANGED <<receipt, review>>

ApplyTx(d, p, ids) ==
  /\ WriteBooking(Target(d, ids), Upserted(d, p, ids))
  /\ receipt' = [receipt EXCEPT ![d] = "processed"]
  /\ applied' = [applied EXCEPT ![d] = @ + 1]
  /\ Acknowledge(d)

IgnoreTx(d) ==
  /\ receipt' = [receipt EXCEPT ![d] = "processed"]
  /\ Acknowledge(d)
  /\ UNCHANGED <<booking, reminder, applied>>

\* Mutant: the verdict of the first read is trusted in the transaction.
CommitStale(w) ==
  LET d   == call[w].doc
      p   == call[w].parsed
      ids == Matches(p)
  IN  /\ pc[w] = "commit"
      /\ \/ /\ receipt[d] \notin Open
            /\ UNCHANGED <<receipt, booking, reminder, review, applied>>
         \/ /\ receipt[d] \in Open
            /\ ApplyTx(d, p, ids)
      /\ Return(w)
      /\ UNCHANGED <<edits, faults>>

\* The decision is taken again on the rows the transaction sees; the gate
\* (MustWait) is not.
Commit(w) ==
  LET d   == call[w].doc
      p   == call[w].parsed
      ids == Matches(p)
      verdict == Decision(d, p, call[w].manual, ids)
      refused == Ambiguous(p) \/ verdict = "review"
  IN  /\ pc[w] = "commit"
      /\ \/ /\ receipt[d] \notin Open
            /\ Return(w)
            /\ UNCHANGED <<receipt, booking, reminder, review, applied>>
         \/ /\ receipt[d] \in Open /\ refused
            /\ Step(w, "commit", "defer")
            /\ UNCHANGED <<receipt, booking, reminder, review, applied, lock>>
         \/ /\ receipt[d] \in Open /\ ~refused
            /\ verdict = "ignore"
            /\ IgnoreTx(d)
            /\ Return(w)
         \/ /\ receipt[d] \in Open /\ ~refused
            /\ verdict = "apply"
            /\ ApplyTx(d, p, ids)
            /\ Return(w)
      /\ UNCHANGED <<edits, faults>>

\* Mutant: the quarantine is committed without its review alert.
DeferSilently(w) ==
  LET d == call[w].doc
  IN  /\ pc[w] = "defer"
      /\ receipt' = [receipt EXCEPT ![d] = IF @ \in Open THEN "quarantined" ELSE @]
      /\ Return(w)
      /\ UNCHANGED <<booking, reminder, review, applied, edits, faults>>

\* quarantine_travel_receipt_with_review_alert: one CAS, one idempotent alert.
Defer(w) ==
  LET d == call[w].doc
  IN  /\ pc[w] = "defer"
      /\ \/ /\ receipt[d] \in Open
            /\ receipt' = [receipt EXCEPT ![d] = "quarantined"]
            /\ review' = [review EXCEPT ![d] = IF @ = "none" THEN "open" ELSE @]
         \/ /\ receipt[d] \notin Open
            /\ UNCHANGED <<receipt, review>>
      /\ Return(w)
      /\ UNCHANGED <<booking, reminder, applied, edits, faults>>

-----------------------------------------------------------------------------
(* Failures and the owner.                                                 *)

\* A database call fails: the call returns its error, the row replays.
Fail(w) ==
  /\ pc[w] # "idle"
  /\ faults < MaxFaults
  /\ faults' = faults + 1
  /\ Return(w)
  /\ UNCHANGED <<receipt, booking, reminder, review, applied, edits>>

\* The service restarts: tasks and in-memory locks are gone, rows are not.
Restart ==
  /\ faults < MaxFaults
  /\ faults' = faults + 1
  /\ pc' = [w \in Workers |-> "idle"]
  /\ call' = [w \in Workers |-> None]
  /\ lock' = [d \in Docs |-> None]
  /\ UNCHANGED <<receipt, booking, reminder, review, applied, edits>>

\* dismiss_receipt: under the keyed lock, a CAS on the open statuses.
Dismiss(d) ==
  /\ lock[d] = None
  /\ receipt[d] \in Open
  /\ receipt' = [receipt EXCEPT ![d] = "dismissed"]
  /\ Acknowledge(d)
  /\ UNCHANGED <<booking, reminder, lock, pc, call, applied, edits, faults>>

\* acknowledge_alert on a review alert
AcknowledgeReview(d) ==
  /\ review[d] = "open"
  /\ Acknowledge(d)
  /\ UNCHANGED <<receipt, booking, reminder, lock, pc, call, applied, edits,
                 faults>>

\* edit_booking: status and dates change, provenance and code do not.
EditBooking(b, status, day) ==
  /\ booking[b] # None
  /\ edits < MaxEdits
  /\ edits' = edits + 1
  /\ WriteBooking(b, [booking[b] EXCEPT !.status = status, !.day = day])
  /\ UNCHANGED <<receipt, review, lock, pc, call, applied, faults>>

\* create_booking: the row, then (no transaction around them) its reminder.
\* When a later write fails the booking stays, without a reminder.
CreateBooking(b, code, day) ==
  LET row == [code |-> code, status |-> "confirmed", day |-> day,
              receipt |-> None]
  IN  /\ booking[b] = None
      /\ edits < MaxEdits
      /\ edits' = edits + 1
      /\ \/ WriteBooking(b, row) /\ UNCHANGED faults
         \/ /\ faults < MaxFaults
            /\ faults' = faults + 1
            /\ booking' = [booking EXCEPT ![b] = row]
            /\ UNCHANGED reminder
      /\ UNCHANGED <<receipt, review, lock, pc, call, applied>>

WorkerStep(w) ==
  \/ Ingest(w)
  \/ LockAndReread(w)
  \/ PreCheck(w)
  \/ Commit(w)
  \/ Defer(w)

Owner ==
  \/ \E d \in Docs : Dismiss(d) \/ AcknowledgeReview(d)
  \/ \E b \in BookingIds, s \in {"confirmed", "changed", "cancelled"},
        day \in Days \cup {None} : EditBooking(b, s, day)
  \/ \E b \in ManualBookings, c \in Codes \cup {None},
        day \in Days \cup {None} : CreateBooking(b, c, day)

(* What the owner approves: as it was parsed, or corrected.                *)
apply_receipt_overrides(d) == {ParsedOf[d]} \cup Overrides

Next ==
  \/ \E w \in Workers, d \in Docs :
       \/ StartSweep(w, d)
       \/ StartImport(w, d)
       \/ \E p \in apply_receipt_overrides(d) : StartApprove(w, d, p)
  \/ \E w \in Workers : WorkerStep(w) \/ Fail(w)
  \/ Restart
  \/ Owner

Spec == Init /\ [][Next]_vars

(***************************************************************************)
(* Fairness.  A task that runs keeps running, and the tokio lock it waits  *)
(* for is handed over in order (strong fairness of the lock step).  The    *)
(* background loop comes back every minute, and a message whose receipt is *)
(* open and never reached review has not let the cursor pass, so the sweep *)
(* meets it again.  Nothing is assumed of the owner.                       *)
(***************************************************************************)
Unresolved(d) == receipt[d] \in Open /\ review[d] = "none"

Fairness ==
  /\ \A w \in Workers : WF_vars(Ingest(w) \/ PreCheck(w) \/ Commit(w) \/ Defer(w))
  /\ \A w \in Workers : SF_vars(LockAndReread(w))
  /\ \A d \in Docs \ Imports :
       SF_vars(Unresolved(d) /\ \E w \in Workers : StartSweep(w, d))

FairSpec == Spec /\ Fairness

-----------------------------------------------------------------------------
(* What must hold.                                                         *)

\* A booking that names a receipt names one that was processed: no open or
\* dismissed receipt ever leaves a trace in the itinerary.
ProvenanceProcessed ==
  \A b \in BookingIds :
    booking[b] # None => \/ booking[b].receipt = None
                         \/ receipt[booking[b].receipt] = "processed"

\* A receipt is written into the itinerary at most once, however often its
\* message is swept, imported or approved, and only by becoming processed.
AppliedAtMostOnce ==
  \A d \in Docs :
    /\ applied[d] \in {0, 1}
    /\ applied[d] = 1 => receipt[d] = "processed"

\* The owner is never asked to review a receipt that is already settled.
NoReviewOfSettled ==
  \A d \in Docs : review[d] = "open" => receipt[d] \in Open

\* A booking written by a receipt has exactly the reminder its current date
\* and status call for, also after amendments, edits and cancellations.
RemindersFollowBookings ==
  \A b \in BookingIds :
    (booking[b] # None /\ booking[b].receipt # None) =>
      reminder[b] = ReminderFor(booking[b])

\* Tasks inside the guarded section hold the lock of their receipt, so no
\* two tasks ever decide about one receipt at the same time.
ReceiptLockHeld ==
  \A w \in Workers :
    pc[w] \in {"precheck", "commit", "defer"} =>
      lock[call[w].doc] = w

\* Together: one receipt is decided by one task at a time, leaves its mark on
\* the itinerary once, by being processed, and is not asked about after.
ReceiptsHonest ==
  AppliedAtMostOnce /\ ProvenanceProcessed /\ NoReviewOfSettled /\ ReceiptLockHeld

\* Without the owner a booking changes provenance only to a newer message of
\* the same account and authenticated mailbox, whatever was committed since
\* the task first looked.
NoAutomaticRegression ==
  [][\A b \in BookingIds :
       (booking[b] # None /\ booking'[b] # booking[b]
          /\ booking'[b].receipt # booking[b].receipt) =>
         LET d   == booking'[b].receipt
             old == booking[b].receipt
         IN  \E w \in Workers :
               /\ lock[d] = w /\ call[w].doc = d
               /\ \/ call[w].manual
                  \/ /\ old # None
                     /\ SourceOf[d].account = SourceOf[old].account
                     /\ NewerSource(d, old)
                     /\ SameMailbox(d, old)]_vars

\* processed and dismissed are final: no replay, approval or race reopens or
\* swaps them.
SettledStaysSettled ==
  [][\A d \in Docs : receipt[d] \in Terminal => receipt'[d] = receipt[d]]_vars

\* What no step may undo: a settled receipt stays as it is, and the receipt a
\* booking stands on is replaced only by newer mail of the same mailbox.
NothingGoesBack == SettledStaysSettled /\ NoAutomaticRegression

\* Every message from a mailbox that left a receipt is either settled or in
\* front of the owner in the end, in spite of failed calls and restarts.
EventuallyResolved ==
  \A d \in Docs \ Imports : receipt[d] \in Open ~> ~Unresolved(d)

\* learning.rs: "Learned parsers may extract confirmations, but never
\* authorize an amendment", and its documents carry "Learned extraction
\* requires booking identity review".  A document that needs review, is not
\* a change notice and was not approved must not touch the itinerary.
LearnedNeverAmends ==
  [][\A w \in Workers :
       (/\ pc[w] = "commit"
        /\ call[w].parsed.review
        /\ call[w].parsed.status = "confirmed"
        /\ ~call[w].manual) =>
       applied'[call[w].doc] = applied[call[w].doc]]_vars
=============================================================================
